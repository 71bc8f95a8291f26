----------------------------- MODULE RunCommands ----------------------------
(***************************************************************************)
(* One call of handle_run_commands (src/handlers/run_commands.py) on the   *)
(* switches of a blueprint: a task per system behind a semaphore, under it *)
(* a task per command that polls its job on the Apstra server until the    *)
(* job ends or the deadline has passed, and deletes it.                    *)
(*                                                                         *)
(* The two levels are joined by asyncio.gather without return_exceptions:  *)
(* the first exception of a command ends the task of its system, releases  *)
(* the semaphore and leaves the other commands of the system running with  *)
(* nobody waiting for them.                                                *)
(*                                                                         *)
(* Any request may fail without effect, or take effect and lose its reply. *)
(***************************************************************************)
EXTENDS Integers, FiniteSets, Sequences

CONSTANTS Systems,     \* the onboarded switches
          Commands,    \* the texts of the commands (the batch reply maps texts to ids)
          Cap,         \* min(max_concurrent_systems, _MAX_CONCURRENT_SYSTEMS)
          MaxRetries   \* _SUBMIT_MAX_RETRIES

ASSUME RunAssumption ==
  /\ IsFiniteSet(Systems)
  /\ Cap \in Nat \ {0}
  /\ MaxRetries \in Nat

Tasks == Systems \X Commands
TasksOf(s) == {s} \X Commands

VARIABLES
  call,    \* the tool call: running, returned or cancelled
  system,  \* system[s]: the task of s
  failed,  \* failed[s]: attempts at the batch that failed, while it is tried
  task,    \* task[t]: the task of a command
  tries,   \* tries[t]: the same for the command alone
  jobs     \* jobs[t]: the jobs submitted for t, in order; the last is the one
           \* the task was told of, unless it is lost

vars == <<call, system, failed, task, tries, jobs>>

\* A system waits for the semaphore, submits the batch, gathers its commands.
SystemAt == {"queued", "batch", "gather", "ok", "error", "cancelled"}
\* A command submits, polls, deletes.
TaskAt == {"none", "submit", "poll", "delete", "done", "raised", "cancelled"}
\* A job is not visible at first (404), runs and ends.  It is lost when the
\* reply to its submission was, and kept when its deletion failed.
JobAt == {"hidden", "running", "ended", "deleted", "kept", "lost"}

Active(t) == task[t] \in {"submit", "poll", "delete"}
Holding == {s \in Systems : system[s] \in {"batch", "gather"}}
Over == {s \in Systems : system[s] \in {"ok", "error"}}

Init ==
  /\ call = "running"
  /\ system = [s \in Systems |-> "queued"]
  /\ failed = [s \in Systems |-> 0]
  /\ task = [t \in Tasks |-> "none"]
  /\ tries = [t \in Tasks |-> 0]
  /\ jobs = [t \in Tasks |-> <<>>]

SetTasks(S, at) == task' = [t \in Tasks |-> IF t \in S THEN at ELSE task[t]]
Submit(S, at)   == jobs' = [t \in Tasks |-> IF t \in S THEN Append(jobs[t], at) ELSE jobs[t]]

Job(t) == jobs[t][Len(jobs[t])]
SetJob(t, at) == jobs' = [jobs EXCEPT ![t][Len(jobs[t])] = at]
-----------------------------------------------------------------------------
(* _bounded and the batch of _run_on_system. *)

\* Mutation: no semaphore.
AcquireAlways(s) ==
  /\ call = "running"
  /\ system[s] = "queued"
  /\ system' = [system EXCEPT ![s] = "batch"]
  /\ UNCHANGED <<call, failed, task, tries, jobs>>

Acquire(s) ==
  /\ call = "running"
  /\ system[s] = "queued"
  /\ Cardinality(Holding) < Cap
  /\ system' = [system EXCEPT ![s] = "batch"]
  /\ UNCHANGED <<call, failed, task, tries, jobs>>

BatchAccepted(s) ==
  /\ system[s] = "batch"
  /\ Submit(TasksOf(s), "hidden")
  /\ SetTasks(TasksOf(s), "poll")
  /\ system' = [system EXCEPT ![s] = "gather"]
  /\ failed' = [failed EXCEPT ![s] = 0]
  /\ UNCHANGED <<call, tries>>

\* Mutation: one attempt too many.
BatchFailsOnceMore(s) ==
  /\ system[s] = "batch"
  /\ \/ Submit(TasksOf(s), "lost")
     \/ UNCHANGED jobs
  /\ failed' = [failed EXCEPT ![s] = @ + 1]
  /\ system' = IF failed[s] > MaxRetries THEN [system EXCEPT ![s] = "error"] ELSE system
  /\ UNCHANGED <<call, task, tries>>

\* A failure is retried after a backoff; the last one is the system's error.
BatchFails(s) ==
  /\ system[s] = "batch"
  /\ \/ Submit(TasksOf(s), "lost")
     \/ UNCHANGED jobs
  /\ failed' = [failed EXCEPT ![s] = @ + 1]
  /\ system' = IF failed[s] = MaxRetries THEN [system EXCEPT ![s] = "error"] ELSE system
  /\ UNCHANGED <<call, task, tries>>

\* 404 or 405: an older version without the endpoint.
BatchMissing(s) ==
  /\ system[s] = "batch"
  /\ SetTasks(TasksOf(s), "submit")
  /\ system' = [system EXCEPT ![s] = "gather"]
  /\ failed' = [failed EXCEPT ![s] = 0]
  /\ UNCHANGED <<call, tries, jobs>>

\* Mutation: gather with return_exceptions, and the results not looked at.
GatherSwallows(s) ==
  /\ system[s] = "gather"
  /\ \A t \in TasksOf(s) : task[t] \in {"done", "raised"}
  /\ system' = [system EXCEPT ![s] = "ok"]
  /\ UNCHANGED <<call, failed, task, tries, jobs>>

\* gather: all results, or the first exception, whatever the others do.
GatherEnds(s) ==
  /\ system[s] = "gather"
  /\ \/ /\ \A t \in TasksOf(s) : task[t] = "done"
        /\ system' = [system EXCEPT ![s] = "ok"]
     \/ /\ \E t \in TasksOf(s) : task[t] = "raised"
        /\ system' = [system EXCEPT ![s] = "error"]
  /\ UNCHANGED <<call, failed, task, tries, jobs>>
-----------------------------------------------------------------------------
(* _run_single_command and _poll_one. *)

SubmitAccepted(t) ==
  /\ task[t] = "submit"
  /\ Submit({t}, "hidden")
  /\ SetTasks({t}, "poll")
  /\ tries' = [tries EXCEPT ![t] = 0]
  /\ UNCHANGED <<call, system, failed>>

\* Mutation: a submission that failed does not count.
SubmitFailsUncounted(t) ==
  /\ task[t] = "submit"
  /\ \/ Submit({t}, "lost")
     \/ UNCHANGED jobs
  /\ UNCHANGED <<call, system, failed, task, tries>>

SubmitFails(t) ==
  /\ task[t] = "submit"
  /\ \/ Submit({t}, "lost")
     \/ UNCHANGED jobs
  /\ tries' = [tries EXCEPT ![t] = @ + 1]
  /\ IF tries[t] = MaxRetries THEN SetTasks({t}, "raised") ELSE UNCHANGED task
  /\ UNCHANGED <<call, system, failed>>

PollAnswered(t) ==
  /\ task[t] = "poll"
  /\ Job(t) = "ended"
  /\ SetTasks({t}, "delete")
  /\ UNCHANGED <<call, system, failed, tries, jobs>>

\* Mutation: the deadline is looked at only when the job was visible.
PollTimesOutVisible(t) ==
  /\ task[t] = "poll"
  /\ Job(t) = "running"
  /\ SetTasks({t}, "delete")
  /\ UNCHANGED <<call, system, failed, tries, jobs>>

\* Mutation: a job that timed out is not deleted.
PollTimesOutForGood(t) ==
  /\ task[t] = "poll"
  /\ Job(t) # "ended"
  /\ SetTasks({t}, "done")
  /\ UNCHANGED <<call, system, failed, tries, jobs>>

\* The deadline has passed at the end of a poll that found the job running or
\* did not find it (404).
PollTimesOut(t) ==
  /\ task[t] = "poll"
  /\ Job(t) # "ended"
  /\ SetTasks({t}, "delete")
  /\ UNCHANGED <<call, system, failed, tries, jobs>>

\* Any failure of a poll but a 404 is raised; the job stays.
PollRaises(t) ==
  /\ task[t] = "poll"
  /\ SetTasks({t}, "raised")
  /\ UNCHANGED <<call, system, failed, tries, jobs>>

\* _safe_delete: a failure is swallowed.
Delete(t) ==
  /\ task[t] = "delete"
  /\ SetTasks({t}, "done")
  /\ SetJob(t, "deleted") \/ SetJob(t, "kept")
  /\ UNCHANGED <<call, system, failed, tries>>
-----------------------------------------------------------------------------
(* The call, the server and time. *)

Return ==
  /\ call = "running"
  /\ Over = Systems
  /\ call' = "returned"
  /\ UNCHANGED <<system, failed, task, tries, jobs>>

\* A gather that has an exception is over, though its system does not know yet.
Broken == {s \in Systems : system[s] = "gather" /\ \E t \in TasksOf(s) : task[t] = "raised"}

\* Mutation: the commands are not cancelled with their system.
CancelSystems ==
  /\ call = "running"
  /\ call' = "cancelled"
  /\ system' = [s \in Systems |-> IF s \in Over THEN system[s] ELSE "cancelled"]
  /\ UNCHANGED <<failed, task, tries, jobs>>

\* The client cancels the call, and so what it waits for.  A gather that is
\* over passes it on no more, nor does a system that has returned.
Cancel ==
  /\ call = "running"
  /\ call' = "cancelled"
  /\ system' = [s \in Systems |-> IF s \in Over THEN system[s] ELSE "cancelled"]
  /\ \E Deaf \in SUBSET Broken :
       SetTasks({t \in Tasks : t[1] \notin Over \cup Deaf /\ Active(t)}, "cancelled")
  /\ UNCHANGED <<failed, tries, jobs>>

JobMoves(t) ==
  /\ task[t] = "poll"
  /\ \/ Job(t) = "hidden"  /\ SetJob(t, "running")
     \/ Job(t) = "running" /\ SetJob(t, "ended")
  /\ UNCHANGED <<call, system, failed, task, tries>>
-----------------------------------------------------------------------------
SystemStep(s) ==
  \/ BatchAccepted(s) \/ BatchFails(s) \/ BatchMissing(s) \/ GatherEnds(s)

TaskStep(t) ==
  \/ SubmitAccepted(t) \/ SubmitFails(t)
  \/ PollAnswered(t) \/ PollTimesOut(t) \/ Delete(t)

\* What the program does by itself: no job has to show up or to end, no poll to
\* fail and no client to cancel.
Progress ==
  \/ \E s \in Systems : Acquire(s) \/ SystemStep(s)
  \/ \E t \in Tasks : TaskStep(t)
  \/ Return

Next ==
  \/ Progress
  \/ \E t \in Tasks : PollRaises(t) \/ JobMoves(t)
  \/ Cancel

Spec == Init /\ [][Next]_vars
-----------------------------------------------------------------------------
TypeOK ==
  /\ call \in {"running", "returned", "cancelled"}
  /\ system \in [Systems -> SystemAt]
  /\ failed \in [Systems -> 0..MaxRetries + 1]
  /\ task \in [Tasks -> TaskAt]
  /\ tries \in [Tasks -> 0..MaxRetries + 1]
  /\ jobs \in [Tasks -> Seq(JobAt)]

ActiveSystems ==
  {s \in Systems : system[s] = "batch" \/ \E t \in TasksOf(s) : Active(t)}

\* The systems that load the server are at most as many as the semaphore lets
\* in, and those that were given up with commands still running.
ActiveBounded ==
  Cardinality(ActiveSystems) <=
    Cap + Cardinality({s \in Systems : \E t \in TasksOf(s) : task[t] = "raised"})

\* However replies are lost on both endpoints, a command is not run more
\* often than both of them are tried, and what is left on the server is
\* accounted for: by a lost reply, a poll that raised, a deletion that failed
\* or a cancelled call.
JobsAccounted ==
  \A t \in Tasks :
    /\ Len(jobs[t]) <= 2 * (MaxRetries + 1)
    /\ \A i \in 1..Len(jobs[t]) :
         jobs[t][i] \in {"hidden", "running", "ended"} =>
           i = Len(jobs[t]) /\ task[t] \in {"poll", "delete", "raised", "cancelled"}

\* Work that nobody waits for is the sibling of a command that raised, also
\* after the call has ended; and no success is reported while a command of
\* the system has no result.
Attended ==
  /\ \A t \in Tasks : Active(t) =>
       system[t[1]] = "gather" \/ \E u \in TasksOf(t[1]) : task[u] = "raised"
  /\ \A s \in Systems : system[s] = "ok" => \A t \in TasksOf(s) : task[t] = "done"

\* No job that hangs or never shows up keeps anything waiting: until the call
\* is over and every command has ended, those nobody waits for included, the
\* program can go on by itself.
NothingHangs ==
  (call = "running" \/ \E t \in Tasks : Active(t)) => ENABLED Progress

\* What the call, a system and a command have before them, at most.
CallRank == IF call = "running" THEN 1 ELSE 0
SystemRank(s) ==
  CASE system[s] = "queued" -> MaxRetries + 4
    [] system[s] = "batch"  -> MaxRetries + 3 - failed[s]
    [] system[s] = "gather" -> 2
    [] OTHER -> 0
TaskRank(t) ==
  CASE task[t] = "none"   -> MaxRetries + 5
    [] task[t] = "submit" -> MaxRetries + 4 - tries[t]
    [] task[t] = "poll"   -> 3
    [] task[t] = "delete" -> 2
    [] OTHER -> 0

NothingGoesBack ==
  /\ CallRank' <= CallRank
  /\ \A s \in Systems : SystemRank(s)' <= SystemRank(s)
  /\ \A t \in Tasks : TaskRank(t)' <= TaskRank(t)

SomethingGoesOn ==
  \/ CallRank' < CallRank
  \/ \E s \in Systems : SystemRank(s)' < SystemRank(s)
  \/ \E t \in Tasks : TaskRank(t)' < TaskRank(t)

\* Nor does the program go on for ever by itself: whatever the server, the
\* jobs and the client do, nothing is taken back (a task tried again, an
\* attempt given back), and each step of the program takes something forward.
EndsByItself == [][NothingGoesBack /\ (Progress => SomethingGoesOn)]_vars
=============================================================================
