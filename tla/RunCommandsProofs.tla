------------------------- MODULE RunCommandsProofs -------------------------
(***************************************************************************)
(* Theorems about RunCommands for any switches, commands, cap and number   *)
(* of retries: the load on the server is bounded, every job is accounted   *)
(* for, and nothing runs unattended but the siblings of a failed command.  *)
(*                                                                         *)
(* None of the three is inductive.  The semaphore bounds the systems that  *)
(* hold it, and what runs without is the sibling of a failure; how often a *)
(* command was submitted is bounded by the attempts at the batch, as long  *)
(* as the batch is tried, and then by these and the attempts at the        *)
(* command; and only the last job of a command can be alive, because a     *)
(* command that polls submits no more.                                     *)
(***************************************************************************)
EXTENDS RunCommands, FiniteSetTheorems, TLAPS

Live == {"hidden", "running", "ended"}
Raised == {s \in Systems : \E t \in TasksOf(s) : task[t] = "raised"}

\* The semaphore.
SemInv == Cardinality(Holding) <= Cap

\* The attempts at the batch that failed while it is tried.
BatchInv ==
  \A s \in Systems :
    /\ system[s] = "queued" => failed[s] = 0
    /\ system[s] = "batch" => failed[s] <= MaxRetries

\* A command starts with its system's gather; until then it may have been
\* submitted by attempts at the batch, and then by its own.
SubmitInv ==
  \A t \in Tasks :
    /\ system[t[1]] \in {"queued", "batch"} => task[t] = "none"
    /\ task[t] = "none" => tries[t] = 0 /\ Len(jobs[t]) <= failed[t[1]]
    /\ task[t] = "submit" => tries[t] <= MaxRetries /\ Len(jobs[t]) <= MaxRetries + tries[t]

\* A command that polls or deletes has a job on the server.
PollInv ==
  \A t \in Tasks :
    task[t] \in {"poll", "delete"} => Len(jobs[t]) > 0 /\ Job(t) \in Live

IInv ==
  TypeOK /\ SemInv /\ BatchInv /\ SubmitInv /\ PollInv /\ JobsAccounted /\ Attended
-----------------------------------------------------------------------------
LEMMA Bounds == MaxRetries \in Nat /\ Cap \in Nat /\ IsFiniteSet(Systems)
  BY RunAssumption

\* A command belongs to one system.
LEMMA Owner ==
  /\ \A t \in Tasks : t[1] \in Systems /\ t \in TasksOf(t[1])
  /\ \A s \in Systems : TasksOf(s) \subseteq Tasks
  /\ \A s \in Systems, t \in Tasks : t \in TasksOf(s) <=> t[1] = s
  BY DEF Tasks, TasksOf

\* What submitting a job does to the jobs of a command.
LEMMA Appended ==
  ASSUME NEW q \in Seq(JobAt), NEW at \in JobAt
  PROVE  /\ Append(q, at) \in Seq(JobAt)
         /\ Len(Append(q, at)) = Len(q) + 1
         /\ Append(q, at)[Len(q) + 1] = at
         /\ \A i \in 1..Len(q) : Append(q, at)[i] = q[i]
  OBVIOUS

\* What a change of the last job does.
LEMMA LastSet ==
  ASSUME NEW q \in Seq(JobAt), Len(q) > 0, NEW at \in JobAt
  PROVE  LET r == [q EXCEPT ![Len(q)] = at]
         IN  /\ r \in Seq(JobAt)
             /\ Len(r) = Len(q)
             /\ r[Len(q)] = at
             /\ \A i \in 1..Len(q) : i # Len(q) => r[i] = q[i]
  OBVIOUS

\* The jobs of every command after a submission.
LEMMA Submission ==
  ASSUME TypeOK, NEW S \in SUBSET Tasks, NEW at \in JobAt, Submit(S, at)
  PROVE  /\ jobs' \in [Tasks -> Seq(JobAt)]
         /\ \A t \in Tasks \ S : jobs'[t] = jobs[t]
         /\ \A t \in S :
              /\ Len(jobs[t]) \in Nat
              /\ Len(jobs'[t]) = Len(jobs[t]) + 1
              /\ jobs'[t][Len(jobs[t]) + 1] = at
              /\ \A i \in 1..Len(jobs[t]) : jobs'[t][i] = jobs[t][i]
<1>1. \A t \in Tasks : jobs[t] \in Seq(JobAt)
  BY DEF TypeOK
<1>2. \A t \in Tasks : jobs'[t] = IF t \in S THEN Append(jobs[t], at) ELSE jobs[t]
  BY DEF Submit
<1>3. jobs' = [t \in Tasks |-> jobs'[t]]
  BY DEF Submit
<1>4. \A t \in S :
        /\ Append(jobs[t], at) \in Seq(JobAt)
        /\ Len(Append(jobs[t], at)) = Len(jobs[t]) + 1
        /\ Append(jobs[t], at)[Len(jobs[t]) + 1] = at
        /\ \A i \in 1..Len(jobs[t]) : Append(jobs[t], at)[i] = jobs[t][i]
  BY <1>1, Appended
<1>5. \A t \in Tasks : Len(jobs[t]) \in Nat
  BY <1>1
<1> QED
  BY <1>1, <1>2, <1>3, <1>4, <1>5

\* The jobs of every command after a change of the last job of one.
LEMMA JobChange ==
  ASSUME TypeOK, NEW t \in Tasks, Len(jobs[t]) > 0, NEW at \in JobAt, SetJob(t, at)
  PROVE  /\ jobs' \in [Tasks -> Seq(JobAt)]
         /\ \A u \in Tasks : u # t => jobs'[u] = jobs[u]
         /\ Len(jobs'[t]) = Len(jobs[t])
         /\ jobs'[t][Len(jobs[t])] = at
         /\ \A i \in 1..Len(jobs[t]) : i # Len(jobs[t]) => jobs'[t][i] = jobs[t][i]
<1>1. jobs \in [Tasks -> Seq(JobAt)] /\ jobs[t] \in Seq(JobAt)
  BY DEF TypeOK
<1>2. jobs' = [jobs EXCEPT ![t] = [jobs[t] EXCEPT ![Len(jobs[t])] = at]]
  BY DEF SetJob
<1>3. jobs'[t] = [jobs[t] EXCEPT ![Len(jobs[t])] = at]
  BY <1>1, <1>2
<1>4. /\ [jobs[t] EXCEPT ![Len(jobs[t])] = at] \in Seq(JobAt)
      /\ Len([jobs[t] EXCEPT ![Len(jobs[t])] = at]) = Len(jobs[t])
      /\ [jobs[t] EXCEPT ![Len(jobs[t])] = at][Len(jobs[t])] = at
      /\ \A i \in 1..Len(jobs[t]) :
           i # Len(jobs[t]) => [jobs[t] EXCEPT ![Len(jobs[t])] = at][i] = jobs[t][i]
  BY <1>1, LastSet
<1> QED
  BY <1>1, <1>2, <1>3, <1>4

\* Until it polls, a command has no job that is alive.
LEMMA NoneAlive ==
  ASSUME JobsAccounted, NEW t \in Tasks, task[t] \in {"none", "submit"}
  PROVE  \A i \in 1..Len(jobs[t]) : jobs[t][i] \notin {"hidden", "running", "ended"}
  BY DEF JobsAccounted

\* The semaphore after a step in which nobody acquires it.
LEMMA NobodyAcquires ==
  ASSUME SemInv, Holding' \subseteq Holding
  PROVE  SemInv'
<1>1. IsFiniteSet(Holding)
  BY Bounds, FS_Subset DEF Holding
<1>2. Cardinality(Holding') \in Nat /\ Cardinality(Holding) \in Nat
      /\ Cardinality(Holding') <= Cardinality(Holding)
  BY <1>1, FS_Subset, FS_CardinalityType
<1> QED
  BY <1>2, Bounds DEF SemInv
-----------------------------------------------------------------------------
LEMMA IInvInit == Init => IInv
<1> SUFFICES ASSUME Init PROVE IInv
  OBVIOUS
<1> USE Bounds, Owner DEF Init
<1>1. TypeOK
  BY DEF TypeOK, SystemAt, TaskAt
<1>2. SemInv
  <2>1. Holding = {}
    BY DEF Holding
  <2>2. Cardinality(Holding) = 0
    BY <2>1, FS_EmptySet
  <2> QED
    BY <2>2 DEF SemInv
<1>3. BatchInv /\ SubmitInv /\ PollInv
  BY DEF BatchInv, SubmitInv, PollInv
<1>4. JobsAccounted /\ Attended
  BY DEF JobsAccounted, Attended, Active
<1> QED
  BY <1>1, <1>2, <1>3, <1>4 DEF IInv

LEMMA AcquireStep ==
  ASSUME IInv, NEW s \in Systems, Acquire(s)
  PROVE  IInv'
<1> USE Bounds, Owner DEF Acquire
<1>t. TypeOK
  BY DEF IInv
<1>1. TypeOK' /\ \A u \in Systems : system'[u] = IF u = s THEN "batch" ELSE system[u]
  BY <1>t DEF TypeOK, SystemAt
<1>2. SemInv'
  <2>1. Holding' = Holding \cup {s}
    BY <1>1 DEF Holding
  <2>2. IsFiniteSet(Holding)
    BY FS_Subset DEF Holding
  <2>3. Cardinality(Holding \cup {s}) =
          IF s \in Holding THEN Cardinality(Holding) ELSE Cardinality(Holding) + 1
    BY <2>2, FS_AddElement, Zenon
  <2>4. Cardinality(Holding) \in Nat
    BY <2>2, FS_CardinalityType
  <2>5. Cardinality(Holding') <= Cap
    BY <2>1, <2>3, <2>4
  <2> QED
    BY <2>5 DEF SemInv
<1>3. BatchInv' /\ SubmitInv' /\ PollInv'
  BY <1>t, <1>1 DEF IInv, BatchInv, SubmitInv, PollInv, Job
<1>4. JobsAccounted'
  BY DEF IInv, JobsAccounted
<1>5. Attended'
  BY <1>t, <1>1 DEF IInv, Attended, SubmitInv, Active
<1> QED
  BY <1>1, <1>2, <1>3, <1>4, <1>5 DEF IInv
-----------------------------------------------------------------------------
(* The batch. *)

LEMMA BatchAcceptedStep ==
  ASSUME IInv, NEW s \in Systems, BatchAccepted(s)
  PROVE  IInv'
<1> USE Bounds, Owner DEF BatchAccepted
<1>t. TypeOK
  BY DEF IInv
<1>j. /\ jobs' \in [Tasks -> Seq(JobAt)]
      /\ \A t \in Tasks \ TasksOf(s) : jobs'[t] = jobs[t]
      /\ \A t \in TasksOf(s) :
           /\ Len(jobs[t]) \in Nat
           /\ Len(jobs'[t]) = Len(jobs[t]) + 1
           /\ jobs'[t][Len(jobs[t]) + 1] = "hidden"
           /\ \A i \in 1..Len(jobs[t]) : jobs'[t][i] = jobs[t][i]
  BY <1>t, Submission DEF JobAt
<1>k. \A t \in TasksOf(s) : task[t] = "none" /\ Len(jobs[t]) <= MaxRetries
  <2>1. failed[s] \in Nat /\ failed[s] <= MaxRetries
    BY <1>t DEF IInv, TypeOK, BatchInv
  <2> QED
    BY <1>t, <1>j, <2>1 DEF IInv, SubmitInv
<1>m. /\ task' \in [Tasks -> TaskAt]
      /\ \A t \in Tasks : task'[t] = IF t \in TasksOf(s) THEN "poll" ELSE task[t]
      /\ \A u \in Systems : system'[u] = IF u = s THEN "gather" ELSE system[u]
      /\ \A u \in Systems : failed'[u] = IF u = s THEN 0 ELSE failed[u]
  BY <1>t DEF TypeOK, SetTasks, TaskAt
<1>1. TypeOK'
  BY <1>t, <1>j, <1>m DEF TypeOK, SystemAt
<1>2. SemInv'
  <2>1. Holding' \subseteq Holding
    BY <1>m DEF Holding
  <2> QED
    BY <2>1, NobodyAcquires DEF IInv
<1>3. BatchInv'
  BY <1>m DEF IInv, BatchInv
<1>4. SubmitInv'
  BY <1>m, <1>j DEF IInv, SubmitInv
<1>5. PollInv'
  BY <1>m, <1>j DEF IInv, PollInv, Job, Live
<1>6. JobsAccounted'
  <2>1. ASSUME NEW t \in Tasks, t \notin TasksOf(s)
        PROVE  jobs'[t] = jobs[t] /\ task'[t] = task[t]
    BY <2>1, <1>j, <1>m
  <2>2. ASSUME NEW t \in TasksOf(s)
        PROVE  /\ Len(jobs'[t]) <= 2 * (MaxRetries + 1)
               /\ \A i \in 1..Len(jobs'[t]) :
                    jobs'[t][i] \in {"hidden", "running", "ended"} => i = Len(jobs'[t])
    <3>1. Len(jobs'[t]) = Len(jobs[t]) + 1 /\ Len(jobs[t]) <= MaxRetries /\ Len(jobs[t]) \in Nat
      BY <1>j, <1>k
    <3>2. \A i \in 1..Len(jobs[t]) : jobs[t][i] \notin {"hidden", "running", "ended"}
      BY <1>k, NoneAlive DEF IInv
    <3>3. \A i \in 1..Len(jobs[t]) : jobs'[t][i] \notin {"hidden", "running", "ended"}
      BY <1>j, <3>2
    <3> QED
      BY <3>1, <3>3, SMTT(20)
  <2> QED
    BY <2>1, <2>2, <1>m DEF IInv, JobsAccounted
<1>7. Attended'
  BY <1>m, <1>k DEF IInv, Attended, Active
<1> QED
  BY <1>1, <1>2, <1>3, <1>4, <1>5, <1>6, <1>7 DEF IInv

LEMMA BatchFailsStep ==
  ASSUME IInv, NEW s \in Systems, BatchFails(s)
  PROVE  IInv'
<1> USE Bounds, Owner DEF BatchFails
<1>t. TypeOK
  BY DEF IInv
<1>f. failed[s] \in Nat /\ failed[s] <= MaxRetries
  BY <1>t DEF IInv, TypeOK, BatchInv
<1>k. \A t \in TasksOf(s) : task[t] = "none" /\ Len(jobs[t]) <= failed[s]
  BY DEF IInv, SubmitInv
<1>n. \A t \in Tasks : Len(jobs[t]) \in Nat
  BY <1>t DEF TypeOK
<1>j. /\ jobs' \in [Tasks -> Seq(JobAt)]
      /\ \A t \in Tasks \ TasksOf(s) : jobs'[t] = jobs[t]
      /\ \A t \in TasksOf(s) :
           \/ jobs'[t] = jobs[t]
           \/ /\ Len(jobs'[t]) = Len(jobs[t]) + 1
              /\ jobs'[t][Len(jobs[t]) + 1] = "lost"
              /\ \A i \in 1..Len(jobs[t]) : jobs'[t][i] = jobs[t][i]
  <2>1. CASE Submit(TasksOf(s), "lost")
    BY <1>t, <2>1, Submission DEF JobAt
  <2>2. CASE UNCHANGED jobs
    BY <1>t, <2>2 DEF TypeOK
  <2> QED
    BY <2>1, <2>2
<1>m. /\ system' \in [Systems -> SystemAt]
      /\ \A u \in Systems : u # s => system'[u] = system[u]
      /\ system'[s] = IF failed[s] = MaxRetries THEN "error" ELSE "batch"
      /\ failed' \in [Systems -> 0..MaxRetries + 1]
      /\ \A u \in Systems : failed'[u] = IF u = s THEN failed[u] + 1 ELSE failed[u]
  BY <1>t, <1>f DEF TypeOK, SystemAt
<1>1. TypeOK'
  BY <1>t, <1>j, <1>m DEF TypeOK
<1>2. SemInv'
  <2>1. Holding' \subseteq Holding
    BY <1>m DEF Holding
  <2> QED
    BY <2>1, NobodyAcquires DEF IInv
<1>3. BatchInv'
  BY <1>m, <1>f DEF IInv, BatchInv
<1>l. \A t \in TasksOf(s) : Len(jobs'[t]) <= failed[s] + 1
  BY <1>j, <1>k, <1>n, <1>f
<1>4. SubmitInv'
  <2> SUFFICES ASSUME NEW t \in Tasks
               PROVE  /\ system'[t[1]] \in {"queued", "batch"} => task[t] = "none"
                      /\ task[t] = "none" => tries[t] = 0 /\ Len(jobs'[t]) <= failed'[t[1]]
                      /\ task[t] = "submit" =>
                           tries[t] <= MaxRetries /\ Len(jobs'[t]) <= MaxRetries + tries[t]
    BY DEF SubmitInv
  <2>1. CASE t[1] = s
    BY <2>1, <1>m, <1>k, <1>l DEF IInv, SubmitInv
  <2>2. CASE t[1] # s
    <3>1. jobs'[t] = jobs[t] /\ failed'[t[1]] = failed[t[1]] /\ system'[t[1]] = system[t[1]]
      BY <2>2, <1>j, <1>m
    <3> QED
      BY <3>1 DEF IInv, SubmitInv
  <2> QED
    BY <2>1, <2>2
<1>5. PollInv'
  <2>1. \A t \in Tasks : task[t] # "none" => jobs'[t] = jobs[t]
    BY <1>j, <1>k
  <2> QED
    BY <2>1 DEF IInv, PollInv, Job
<1>6. JobsAccounted'
  <2> SUFFICES ASSUME NEW t \in TasksOf(s), jobs'[t] # jobs[t]
               PROVE  /\ Len(jobs'[t]) <= 2 * (MaxRetries + 1)
                      /\ \A i \in 1..Len(jobs'[t]) :
                           jobs'[t][i] \notin {"hidden", "running", "ended"}
    BY <1>j DEF IInv, JobsAccounted
  <2>1. Len(jobs'[t]) = Len(jobs[t]) + 1 /\ Len(jobs[t]) \in Nat /\ Len(jobs[t]) <= failed[s]
    BY <1>j, <1>k, <1>n
  <2>a. \A i \in 1..Len(jobs[t]) : jobs[t][i] \notin {"hidden", "running", "ended"}
    BY <1>k, NoneAlive DEF IInv
  <2>2. \A i \in 1..Len(jobs[t]) : jobs'[t][i] \notin {"hidden", "running", "ended"}
    BY <1>j, <2>a
  <2>3. jobs'[t][Len(jobs[t]) + 1] = "lost"
    BY <1>j
  <2> QED
    BY <2>1, <2>2, <2>3, <1>f
<1>7. Attended'
  <2>1. \A u \in Systems : system'[u] = "ok" => system[u] = "ok"
    BY <1>m
  <2>2. \A t \in Tasks : Active(t) => system'[t[1]] = system[t[1]]
    BY <1>m, <1>k DEF Active
  <2> QED
    BY <2>1, <2>2 DEF IInv, Attended, Active
<1> QED
  BY <1>1, <1>2, <1>3, <1>4, <1>5, <1>6, <1>7 DEF IInv

LEMMA BatchMissingStep ==
  ASSUME IInv, NEW s \in Systems, BatchMissing(s)
  PROVE  IInv'
<1> USE Bounds, Owner DEF BatchMissing
<1>t. TypeOK
  BY DEF IInv
<1>n. \A t \in Tasks : Len(jobs[t]) \in Nat
  BY <1>t DEF TypeOK
<1>k. \A t \in TasksOf(s) : task[t] = "none" /\ tries[t] = 0 /\ Len(jobs[t]) <= MaxRetries
  <2>1. failed[s] \in Nat /\ failed[s] <= MaxRetries
    BY <1>t DEF IInv, TypeOK, BatchInv
  <2> QED
    BY <1>n, <2>1 DEF IInv, SubmitInv
<1>m. /\ task' \in [Tasks -> TaskAt]
      /\ \A t \in Tasks : task'[t] = IF t \in TasksOf(s) THEN "submit" ELSE task[t]
      /\ \A u \in Systems : system'[u] = IF u = s THEN "gather" ELSE system[u]
      /\ \A u \in Systems : failed'[u] = IF u = s THEN 0 ELSE failed[u]
  BY <1>t DEF TypeOK, SetTasks, TaskAt
<1>1. TypeOK'
  BY <1>t, <1>m DEF TypeOK, SystemAt
<1>2. SemInv'
  <2>1. Holding' \subseteq Holding
    BY <1>m DEF Holding
  <2> QED
    BY <2>1, NobodyAcquires DEF IInv
<1>3. BatchInv'
  BY <1>m DEF IInv, BatchInv
<1>4. SubmitInv'
  BY <1>m, <1>k, <1>n DEF IInv, SubmitInv
<1>5. PollInv'
  BY <1>m DEF IInv, PollInv, Job
<1>6. JobsAccounted'
  BY <1>m, <1>k DEF IInv, JobsAccounted
<1>7. Attended'
  BY <1>m, <1>k DEF IInv, Attended, Active
<1> QED
  BY <1>1, <1>2, <1>3, <1>4, <1>5, <1>6, <1>7 DEF IInv

LEMMA GatherEndsStep ==
  ASSUME IInv, NEW s \in Systems, GatherEnds(s)
  PROVE  IInv'
<1> USE Bounds, Owner DEF GatherEnds
<1>t. TypeOK
  BY DEF IInv
<1>m. /\ system' \in [Systems -> SystemAt]
      /\ system[s] = "gather"
      /\ \A u \in Systems : u # s => system'[u] = system[u]
      /\ \/ system'[s] = "ok" /\ \A t \in TasksOf(s) : task[t] = "done"
         \/ system'[s] = "error" /\ \E t \in TasksOf(s) : task[t] = "raised"
      /\ UNCHANGED <<call, failed, task, tries, jobs>>
  BY <1>t DEF TypeOK, SystemAt
<1>1. TypeOK'
  BY <1>t, <1>m DEF TypeOK
<1>2. SemInv'
  <2>1. Holding' \subseteq Holding
    BY <1>m DEF Holding
  <2> QED
    BY <2>1, NobodyAcquires DEF IInv
<1>3. BatchInv' /\ SubmitInv' /\ PollInv' /\ JobsAccounted'
  BY <1>m DEF IInv, BatchInv, SubmitInv, PollInv, JobsAccounted, Job
<1>4. Attended'
  <2>1. ASSUME NEW t \in Tasks, Active(t)'
        PROVE  system'[t[1]] = "gather" \/ \E u \in TasksOf(t[1]) : task'[u] = "raised"
    <3>1. Active(t) /\ task[t] # "done"
      BY <2>1, <1>m DEF Active
    <3>2. CASE t[1] = s
      BY <3>1, <3>2, <1>m
    <3>3. CASE t[1] # s
      BY <3>1, <3>3, <1>m DEF IInv, Attended
    <3> QED
      BY <3>2, <3>3
  <2>2. \A u \in Systems : system'[u] = "ok" => \A t \in TasksOf(u) : task'[t] = "done"
    BY <1>m DEF IInv, Attended
  <2> QED
    BY <2>1, <2>2 DEF Attended
<1> QED
  BY <1>1, <1>2, <1>3, <1>4 DEF IInv
-----------------------------------------------------------------------------
(* The commands. *)

\* What a step of one command leaves as it was: nobody else's jobs or place,
\* and no system's.
LEMMA CommandMoves ==
  ASSUME IInv, NEW t \in Tasks, Active(t),
         NEW at \in TaskAt \ {"none"}, SetTasks({t}, at),
         UNCHANGED <<call, system, failed>>
  PROVE  /\ task' \in [Tasks -> TaskAt]
         /\ \A u \in Tasks : task'[u] = IF u = t THEN at ELSE task[u]
         /\ system[t[1]] \notin {"queued", "batch"}
         /\ SemInv' /\ BatchInv' /\ Attended'
<1> USE Bounds, Owner
<1>t. TypeOK
  BY DEF IInv
<1>1. /\ task' \in [Tasks -> TaskAt]
      /\ \A u \in Tasks : task'[u] = IF u = t THEN at ELSE task[u]
  BY <1>t DEF TypeOK, SetTasks
<1>2. system[t[1]] \notin {"queued", "batch"}
  BY DEF IInv, SubmitInv, Active
<1>3. SemInv'
  <2>1. Holding' = Holding
    BY DEF Holding
  <2> QED
    BY <2>1, NobodyAcquires DEF IInv
<1>4. BatchInv'
  BY DEF IInv, BatchInv
<1>5. Attended'
  <2>1. task[t] \notin {"raised", "done"}
    BY DEF Active
  <2>2. \A u \in Tasks : Active(u)' => Active(u)
    BY <1>1 DEF Active
  <2>3. ASSUME NEW u \in Tasks, task[u] = "raised" PROVE task'[u] = "raised"
    BY <1>1, <2>1, <2>3
  <2>4. \A u \in Systems : system[u] = "ok" => t \notin TasksOf(u)
    BY <2>1 DEF IInv, Attended
  <2> QED
    BY <1>1, <2>2, <2>3, <2>4 DEF IInv, Attended
<1> QED
  BY <1>1, <1>2, <1>3, <1>4, <1>5

LEMMA SubmitStep ==
  ASSUME IInv, NEW t \in Tasks, SubmitAccepted(t) \/ SubmitFails(t)
  PROVE  IInv'
<1> USE Bounds, Owner
<1>t. TypeOK
  BY DEF IInv
<1>a. task[t] = "submit" /\ Active(t) /\ UNCHANGED <<call, system, failed>>
  BY DEF SubmitAccepted, SubmitFails, Active
<1>b. /\ tries[t] \in Nat /\ tries[t] <= MaxRetries
      /\ Len(jobs[t]) \in Nat /\ Len(jobs[t]) <= MaxRetries + tries[t]
      /\ system[t[1]] \notin {"queued", "batch"}
  BY <1>t, <1>a DEF IInv, TypeOK, SubmitInv
<1>d. \A i \in 1..Len(jobs[t]) : jobs[t][i] \notin {"hidden", "running", "ended"}
  BY <1>a, NoneAlive DEF IInv
<1>1. CASE SubmitAccepted(t)
  <2>j. /\ jobs' \in [Tasks -> Seq(JobAt)]
        /\ \A u \in Tasks : u # t => jobs'[u] = jobs[u]
        /\ Len(jobs'[t]) = Len(jobs[t]) + 1
        /\ jobs'[t][Len(jobs[t]) + 1] = "hidden"
        /\ \A i \in 1..Len(jobs[t]) : jobs'[t][i] = jobs[t][i]
    BY <1>t, <1>1, Submission DEF SubmitAccepted, JobAt
  <2>m. /\ task' \in [Tasks -> TaskAt]
        /\ \A u \in Tasks : task'[u] = IF u = t THEN "poll" ELSE task[u]
        /\ SemInv' /\ BatchInv' /\ Attended'
    BY <1>a, <1>1, CommandMoves DEF SubmitAccepted, TaskAt
  <2>r. /\ tries' \in [Tasks -> 0..MaxRetries + 1]
        /\ \A u \in Tasks : u # t => tries'[u] = tries[u]
    BY <1>t, <1>1 DEF SubmitAccepted, TypeOK
  <2>1. TypeOK'
    BY <1>t, <1>a, <2>j, <2>m, <2>r DEF TypeOK
  <2>2. SubmitInv'
    <3>1. ASSUME NEW u \in Tasks, u # t
          PROVE  jobs'[u] = jobs[u] /\ task'[u] = task[u] /\ tries'[u] = tries[u]
      BY <3>1, <2>j, <2>m, <2>r
    <3>2. task'[t] = "poll"
      BY <2>m
    <3> QED
      BY <3>1, <3>2, <1>a, <1>b DEF IInv, SubmitInv
  <2>3. PollInv'
    <3>1. Len(jobs'[t]) > 0 /\ jobs'[t][Len(jobs'[t])] = "hidden"
      BY <1>b, <2>j
    <3>2. ASSUME NEW u \in Tasks, u # t, task'[u] \in {"poll", "delete"}
          PROVE  Len(jobs'[u]) > 0 /\ jobs'[u][Len(jobs'[u])] \in Live
      BY <3>2, <2>j, <2>m DEF IInv, PollInv, Job
    <3> QED
      BY <3>1, <3>2 DEF PollInv, Job, Live
  <2>4. JobsAccounted'
    <3>1. \A i \in 1..Len(jobs[t]) : jobs'[t][i] \notin {"hidden", "running", "ended"}
      BY <1>d, <2>j
    <3>2. \A i \in 1..Len(jobs'[t]) :
            jobs'[t][i] \in {"hidden", "running", "ended"} => i = Len(jobs'[t])
      BY <1>b, <2>j, <3>1
    <3>3. Len(jobs'[t]) <= 2 * (MaxRetries + 1)
      BY <1>b, <2>j
    <3> QED
      BY <3>2, <3>3, <2>j, <2>m DEF IInv, JobsAccounted
  <2> QED
    BY <2>1, <2>m, <2>2, <2>3, <2>4 DEF IInv
<1>2. CASE SubmitFails(t)
  <2>j. /\ jobs' \in [Tasks -> Seq(JobAt)]
        /\ \A u \in Tasks : u # t => jobs'[u] = jobs[u]
        /\ \/ jobs'[t] = jobs[t]
           \/ /\ Len(jobs'[t]) = Len(jobs[t]) + 1
              /\ jobs'[t][Len(jobs[t]) + 1] = "lost"
              /\ \A i \in 1..Len(jobs[t]) : jobs'[t][i] = jobs[t][i]
    <3>1. CASE Submit({t}, "lost")
      BY <1>t, <3>1, Submission DEF JobAt
    <3>2. CASE UNCHANGED jobs
      BY <1>t, <3>2 DEF TypeOK
    <3> QED
      BY <1>2, <3>1, <3>2 DEF SubmitFails
  <2>m. /\ task' \in [Tasks -> TaskAt]
        /\ \A u \in Tasks : u # t => task'[u] = task[u]
        /\ task'[t] = IF tries[t] = MaxRetries THEN "raised" ELSE "submit"
        /\ SemInv' /\ BatchInv' /\ Attended'
    <3>1. CASE tries[t] = MaxRetries
      <4>1. SetTasks({t}, "raised")
        BY <1>2, <3>1 DEF SubmitFails
      <4>2. "raised" \in TaskAt \ {"none"}
        BY DEF TaskAt
      <4> QED
        BY <1>a, <3>1, <4>1, <4>2, CommandMoves, ZenonT(20)
    <3>2. CASE tries[t] # MaxRetries
      <4>1. UNCHANGED task /\ Holding' = Holding
        BY <1>a, <1>2, <3>2 DEF SubmitFails, Holding
      <4> QED
        BY <4>1, <1>t, <1>a, <3>2, NobodyAcquires DEF IInv, TypeOK, BatchInv, Attended, Active
    <3> QED
      BY <3>1, <3>2
  <2>r. /\ tries' \in [Tasks -> 0..MaxRetries + 1]
        /\ \A u \in Tasks : tries'[u] = IF u = t THEN tries[u] + 1 ELSE tries[u]
    BY <1>t, <1>2, <1>b DEF SubmitFails, TypeOK
  <2>1. TypeOK'
    BY <1>t, <1>a, <2>j, <2>m, <2>r DEF TypeOK
  <2>2. SubmitInv'
    <3>1. Len(jobs'[t]) <= Len(jobs[t]) + 1
      BY <1>b, <2>j
    <3>2. ASSUME NEW u \in Tasks
          PROVE  /\ system[u[1]] \in {"queued", "batch"} => task'[u] = "none"
                 /\ task'[u] = "none" => tries'[u] = 0 /\ Len(jobs'[u]) <= failed[u[1]]
                 /\ task'[u] = "submit" =>
                      tries'[u] <= MaxRetries /\ Len(jobs'[u]) <= MaxRetries + tries'[u]
      <4>1. CASE u = t
        BY <4>1, <3>1, <1>a, <1>b, <2>m, <2>r
      <4>2. CASE u # t
        <5>1. jobs'[u] = jobs[u] /\ task'[u] = task[u] /\ tries'[u] = tries[u]
          BY <4>2, <2>j, <2>m, <2>r
        <5> QED
          BY <5>1 DEF IInv, SubmitInv
      <4> QED
        BY <4>1, <4>2
    <3>3. UNCHANGED <<system, failed>>
      BY <1>a
    <3> QED
      BY <3>2, <3>3 DEF SubmitInv
  <2>3. PollInv'
    <3>1. ASSUME NEW u \in Tasks, task'[u] \in {"poll", "delete"}
          PROVE  u # t /\ jobs'[u] = jobs[u] /\ task[u] \in {"poll", "delete"}
      BY <3>1, <2>j, <2>m
    <3> QED
      BY <3>1 DEF IInv, PollInv, Job
  <2>4. JobsAccounted'
    <3>1. \A i \in 1..Len(jobs'[t]) : jobs'[t][i] \notin {"hidden", "running", "ended"}
      <4>1. CASE jobs'[t] = jobs[t]
        BY <4>1, <1>d
      <4>2. CASE jobs'[t] # jobs[t]
        <5>1. \A i \in 1..Len(jobs[t]) : jobs'[t][i] \notin {"hidden", "running", "ended"}
          BY <4>2, <1>d, <2>j
        <5> QED
          BY <4>2, <5>1, <1>b, <2>j
      <4> QED
        BY <4>1, <4>2
    <3>2. Len(jobs'[t]) <= 2 * (MaxRetries + 1)
      BY <1>b, <2>j
    <3>3. ASSUME NEW u \in Tasks, u # t PROVE jobs'[u] = jobs[u] /\ task'[u] = task[u]
      BY <3>3, <2>j, <2>m
    <3> QED
      BY <3>1, <3>2, <3>3 DEF IInv, JobsAccounted
  <2> QED
    BY <2>1, <2>m, <2>2, <2>3, <2>4 DEF IInv
<1> QED
  BY <1>1, <1>2

\* A poll that ends, one way or the other, leaves the job where it is.
LEMMA PollEndsStep ==
  ASSUME IInv, NEW t \in Tasks, PollAnswered(t) \/ PollTimesOut(t) \/ PollRaises(t)
  PROVE  IInv'
<1> USE Bounds, Owner
<1>t. TypeOK
  BY DEF IInv
<1>a. task[t] = "poll" /\ Active(t) /\ UNCHANGED <<call, system, failed, tries, jobs>>
  BY DEF PollAnswered, PollTimesOut, PollRaises, Active
<1>p. PICK at \in {"delete", "raised"} : SetTasks({t}, at)
  BY DEF PollAnswered, PollTimesOut, PollRaises
<1>m. /\ task' \in [Tasks -> TaskAt]
      /\ \A u \in Tasks : task'[u] = IF u = t THEN at ELSE task[u]
      /\ SemInv' /\ BatchInv' /\ Attended'
      /\ system[t[1]] \notin {"queued", "batch"}
  BY <1>a, <1>p, CommandMoves DEF TaskAt
<1>1. TypeOK'
  BY <1>t, <1>a, <1>m DEF TypeOK
<1>2. SubmitInv'
  BY <1>a, <1>m DEF IInv, SubmitInv
<1>3. PollInv'
  BY <1>a, <1>m DEF IInv, PollInv, Job
<1>4. JobsAccounted'
  BY <1>a, <1>m DEF IInv, JobsAccounted
<1> QED
  BY <1>1, <1>m, <1>2, <1>3, <1>4 DEF IInv

LEMMA DeleteStep ==
  ASSUME IInv, NEW t \in Tasks, Delete(t)
  PROVE  IInv'
<1> USE Bounds, Owner DEF Delete
<1>t. TypeOK
  BY DEF IInv
<1>b. Len(jobs[t]) \in Nat /\ Len(jobs[t]) > 0
  BY <1>t DEF IInv, PollInv, TypeOK
<1>p. PICK last \in {"deleted", "kept"} : SetJob(t, last)
  OBVIOUS
<1>j. /\ jobs' \in [Tasks -> Seq(JobAt)]
      /\ \A u \in Tasks : u # t => jobs'[u] = jobs[u]
      /\ Len(jobs'[t]) = Len(jobs[t])
      /\ jobs'[t][Len(jobs[t])] = last
      /\ \A i \in 1..Len(jobs[t]) : i # Len(jobs[t]) => jobs'[t][i] = jobs[t][i]
  BY <1>t, <1>b, <1>p, JobChange DEF JobAt
<1>m. /\ task' \in [Tasks -> TaskAt]
      /\ \A u \in Tasks : task'[u] = IF u = t THEN "done" ELSE task[u]
      /\ SemInv' /\ BatchInv' /\ Attended'
      /\ system[t[1]] \notin {"queued", "batch"}
  BY CommandMoves DEF TaskAt, Active
<1>1. TypeOK'
  BY <1>t, <1>j, <1>m DEF TypeOK
<1>2. SubmitInv'
  BY <1>j, <1>m, SMTT(20) DEF IInv, SubmitInv
<1>3. PollInv'
  BY <1>j, <1>m DEF IInv, PollInv, Job
<1>4. JobsAccounted'
  <2>1. \A i \in 1..Len(jobs[t]) :
          i # Len(jobs[t]) => jobs[t][i] \notin {"hidden", "running", "ended"}
    BY DEF IInv, JobsAccounted
  <2>2. \A i \in 1..Len(jobs'[t]) : jobs'[t][i] \notin {"hidden", "running", "ended"}
    BY <1>b, <1>j, <2>1
  <2>3. Len(jobs'[t]) <= 2 * (MaxRetries + 1)
    BY <1>j DEF IInv, JobsAccounted
  <2> QED
    BY <2>2, <2>3, <1>j, <1>m DEF IInv, JobsAccounted
<1> QED
  BY <1>1, <1>m, <1>2, <1>3, <1>4 DEF IInv

LEMMA JobMovesStep ==
  ASSUME IInv, NEW t \in Tasks, JobMoves(t)
  PROVE  IInv'
<1> USE Bounds, Owner DEF JobMoves
<1>t. TypeOK
  BY DEF IInv
<1>b. Len(jobs[t]) \in Nat /\ Len(jobs[t]) > 0
  BY <1>t DEF IInv, PollInv, TypeOK
<1>p. PICK next \in {"running", "ended"} : SetJob(t, next)
  OBVIOUS
<1>j. /\ jobs' \in [Tasks -> Seq(JobAt)]
      /\ \A u \in Tasks : u # t => jobs'[u] = jobs[u]
      /\ Len(jobs'[t]) = Len(jobs[t])
      /\ jobs'[t][Len(jobs[t])] = next
      /\ \A i \in 1..Len(jobs[t]) : i # Len(jobs[t]) => jobs'[t][i] = jobs[t][i]
  BY <1>t, <1>b, <1>p, JobChange DEF JobAt
<1>u. UNCHANGED <<call, system, failed, task, tries>>
  OBVIOUS
<1>1. TypeOK'
  BY <1>t, <1>j, <1>u DEF TypeOK
<1>2. SemInv' /\ BatchInv' /\ Attended'
  <2>1. Holding' = Holding
    BY <1>u DEF Holding
  <2> QED
    BY <1>u, <2>1, NobodyAcquires DEF IInv, BatchInv, Attended, Active
<1>3. SubmitInv'
  BY <1>j, <1>u DEF IInv, SubmitInv
<1>4. PollInv'
  BY <1>b, <1>j, <1>u DEF IInv, PollInv, Job, Live
<1>5. JobsAccounted'
  <2>1. \A i \in 1..Len(jobs[t]) :
          i # Len(jobs[t]) => jobs[t][i] \notin {"hidden", "running", "ended"}
    BY DEF IInv, JobsAccounted
  <2>2. \A i \in 1..Len(jobs'[t]) :
          jobs'[t][i] \in {"hidden", "running", "ended"} => i = Len(jobs'[t])
    BY <1>b, <1>j, <2>1
  <2>3. Len(jobs'[t]) <= 2 * (MaxRetries + 1)
    BY <1>j DEF IInv, JobsAccounted
  <2> QED
    BY <2>2, <2>3, <1>j, <1>u DEF IInv, JobsAccounted
<1> QED
  BY <1>1, <1>2, <1>3, <1>4, <1>5 DEF IInv
-----------------------------------------------------------------------------
(* The call. *)

\* What is cancelled are the systems that have not ended and what runs for them.
LEMMA CancelStep ==
  ASSUME IInv, Cancel
  PROVE  IInv'
<1> USE Bounds, Owner
<1>t. TypeOK
  BY DEF IInv
<1>p. PICK Deaf \in SUBSET Broken :
        SetTasks({t \in Tasks : t[1] \notin Over \cup Deaf /\ Active(t)}, "cancelled")
  BY Zenon DEF Cancel
<1>a. /\ call' = "cancelled"
      /\ \A s \in Systems : system'[s] = IF s \in Over THEN system[s] ELSE "cancelled"
      /\ system' \in [Systems -> SystemAt]
      /\ UNCHANGED <<failed, tries, jobs>>
  BY <1>t DEF Cancel, TypeOK, SystemAt
<1>b. \A s \in Systems : s \in Over => system[s] \in {"ok", "error"}
  BY DEF Over
<1>m. /\ task' \in [Tasks -> TaskAt]
      /\ \A t \in Tasks : task'[t] = task[t] \/ (task'[t] = "cancelled" /\ Active(t))
      /\ \A t \in Tasks : Active(t)' => t[1] \in Over \cup Broken
  BY <1>t, <1>p DEF TypeOK, SetTasks, TaskAt, Active
<1>1. TypeOK'
  BY <1>t, <1>a, <1>m DEF TypeOK
<1>2. SemInv'
  <2>1. Holding' \subseteq Holding
    BY <1>a, <1>b DEF Holding
  <2> QED
    BY <2>1, NobodyAcquires DEF IInv
<1>3. BatchInv'
  BY <1>a, <1>b DEF IInv, BatchInv
<1>4. SubmitInv'
  BY <1>a, <1>b, <1>m DEF IInv, SubmitInv, Active
<1>5. PollInv'
  BY <1>a, <1>m DEF IInv, PollInv, Job
<1>6. JobsAccounted'
  BY <1>a, <1>m DEF IInv, JobsAccounted
<1>7. Attended'
  <2>0. \A t \in Tasks :
          /\ task[t] = "raised" => task'[t] = "raised"
          /\ task[t] = "done" => task'[t] = "done"
          /\ Active(t)' => Active(t)
    BY <1>m DEF Active
  <2>1. ASSUME NEW t \in Tasks, Active(t)'
        PROVE  \E u \in TasksOf(t[1]) : task'[u] = "raised"
    <3>1. CASE t[1] \in Over
      BY <2>0, <2>1, <3>1, <1>b DEF IInv, Attended
    <3>2. CASE t[1] \in Broken
      BY <2>0, <3>2 DEF Broken
    <3> QED
      BY <2>1, <3>1, <3>2, <1>m
  <2>2. \A s \in Systems : system'[s] = "ok" => \A t \in TasksOf(s) : task'[t] = "done"
    BY <2>0, <1>a DEF IInv, Attended
  <2> QED
    BY <2>1, <2>2 DEF Attended
<1> QED
  BY <1>1, <1>2, <1>3, <1>4, <1>5, <1>6, <1>7 DEF IInv

LEMMA ReturnStep ==
  ASSUME IInv, Return \/ UNCHANGED vars
  PROVE  IInv'
<1>1. UNCHANGED <<system, failed, task, tries, jobs>> /\ call' \in {call, "returned"}
  BY DEF Return, vars
<1>2. TypeOK' /\ BatchInv' /\ SubmitInv' /\ PollInv' /\ JobsAccounted' /\ Attended'
  BY <1>1 DEF IInv, TypeOK, BatchInv, SubmitInv, PollInv, JobsAccounted, Attended, Active, Job
<1>3. SemInv'
  <2>1. Holding' = Holding
    BY <1>1 DEF Holding
  <2> QED
    BY <2>1, NobodyAcquires DEF IInv
<1> QED
  BY <1>2, <1>3 DEF IInv
-----------------------------------------------------------------------------
\* No task, no server and no cancelled client breaks the invariant.
THEOREM IInvNext == IInv /\ [Next]_vars => IInv'
<1> SUFFICES ASSUME IInv, [Next]_vars PROVE IInv'
  OBVIOUS
<1>1. ASSUME NEW s \in Systems, Acquire(s) \/ SystemStep(s) PROVE IInv'
  BY <1>1, AcquireStep, BatchAcceptedStep, BatchFailsStep, BatchMissingStep, GatherEndsStep
     DEF SystemStep
<1>2. ASSUME NEW t \in Tasks, TaskStep(t) \/ PollRaises(t) \/ JobMoves(t) PROVE IInv'
  BY <1>2, SubmitStep, PollEndsStep, DeleteStep, JobMovesStep DEF TaskStep
<1> QED
  BY <1>1, <1>2, ReturnStep, CancelStep DEF Next, Progress

\* The invariant holds in every reachable state.
THEOREM Invariance == Spec => []IInv
  BY IInvInit, IInvNext, PTL DEF Spec

\* Systems, commands and jobs keep their types; in particular nothing is
\* attempted more than MaxRetries + 1 times.
THEOREM TypeCorrect == Spec => []TypeOK
<1>1. IInv => TypeOK
  BY DEF IInv
<1> QED
  BY <1>1, Invariance, PTL

\* The commands of at most Cap systems run at a time, those aside whose call
\* has been given up after an exception of one of them.
THEOREM LoadBounded == Spec => []ActiveBounded
<1>1. ASSUME IInv PROVE ActiveBounded
  <2>1. ActiveSystems \subseteq Holding \cup Raised
    BY <1>1, Owner DEF IInv, Attended, ActiveSystems, Holding, Raised
  <2>2. Holding \subseteq Systems /\ Raised \subseteq Systems
    BY DEF Holding, Raised
  <2>3. /\ IsFiniteSet(Holding) /\ IsFiniteSet(Raised) /\ IsFiniteSet(Holding \cup Raised)
        /\ IsFiniteSet(Holding \cap Raised)
    BY <2>2, Bounds, FS_Subset, FS_Union
  <2>4. /\ Cardinality(ActiveSystems) \in Nat /\ Cardinality(Holding) \in Nat
        /\ Cardinality(Raised) \in Nat /\ Cardinality(Holding \cap Raised) \in Nat
        /\ Cardinality(Holding \cup Raised) \in Nat
    BY <2>1, <2>3, FS_Subset, FS_CardinalityType
  <2>5. Cardinality(ActiveSystems) <= Cardinality(Holding \cup Raised)
    BY <2>1, <2>3, FS_Subset
  <2>6. Cardinality(Holding \cup Raised) =
          Cardinality(Holding) + Cardinality(Raised) - Cardinality(Holding \cap Raised)
    BY <2>3, FS_Union, Zenon
  <2>7. Cardinality(Holding) <= Cap
    BY <1>1 DEF IInv, SemInv
  <2>8. Cardinality(ActiveSystems) <= Cap + Cardinality(Raised)
    BY <2>4, <2>5, <2>6, <2>7, Bounds
  <2> QED
    BY <2>8 DEF ActiveBounded, Raised
<1> QED
  BY <1>1, Invariance, PTL

\* Whatever replies are lost, a command is submitted no more often than both
\* endpoints are tried, and only its last job can be alive.
THEOREM EveryJobAccounted == Spec => []JobsAccounted
<1>1. IInv => JobsAccounted
  BY DEF IInv
<1> QED
  BY <1>1, Invariance, PTL

\* Nothing runs with nobody waiting for it but the siblings of a command that
\* raised, and no success is reported for a command without a result.
THEOREM NothingUnattended == Spec => []Attended
<1>1. IInv => Attended
  BY DEF IInv
<1> QED
  BY <1>1, Invariance, PTL
-----------------------------------------------------------------------------
(* The call ends: there is a step to make, and there are only so many. *)

\* The program can make a step by itself: the guard of an action of Progress.
CanGoOn ==
  \/ \E s \in Systems :
       \/ call = "running" /\ system[s] = "queued" /\ Cardinality(Holding) < Cap
       \/ system[s] = "batch"
       \/ /\ system[s] = "gather"
          /\ \/ \A t \in TasksOf(s) : task[t] = "done"
             \/ \E t \in TasksOf(s) : task[t] = "raised"
  \/ \E t \in Tasks : Active(t)
  \/ call = "running" /\ Over = Systems

\* While the call runs nothing has been cancelled, and a system that gathers
\* has started its commands.
RunningInv ==
  /\ call = "running" => /\ \A s \in Systems : system[s] # "cancelled"
                         /\ \A t \in Tasks : task[t] # "cancelled"
  /\ \A s \in Systems : system[s] = "gather" => \A t \in TasksOf(s) : task[t] # "none"

LEMMA RunningInit == Init => RunningInv
  BY Owner DEF Init, RunningInv

LEMMA RunningStep == TypeOK /\ RunningInv /\ [Next]_vars => RunningInv'
<1> SUFFICES ASSUME TypeOK, RunningInv, [Next]_vars PROVE RunningInv'
  OBVIOUS
<1> USE Owner DEF RunningInv
<1>t. /\ system \in [Systems -> SystemAt]
      /\ task \in [Tasks -> TaskAt]
  BY DEF TypeOK
<1>1. ASSUME NEW s \in Systems, Acquire(s) PROVE RunningInv'
  BY <1>t, <1>1 DEF Acquire
<1>2. ASSUME NEW s \in Systems, SystemStep(s) PROVE RunningInv'
  BY <1>t, <1>2 DEF SystemStep, BatchAccepted, BatchFails, BatchMissing, GatherEnds, SetTasks
<1>3. ASSUME NEW t \in Tasks, TaskStep(t) \/ PollRaises(t) PROVE RunningInv'
  BY <1>t, <1>3 DEF TaskStep, SubmitAccepted, SubmitFails, PollAnswered, PollTimesOut, Delete,
     PollRaises, SetTasks
<1>4. ASSUME NEW t \in Tasks, JobMoves(t) PROVE RunningInv'
  BY <1>4 DEF JobMoves
<1>5. CASE Return
  BY <1>5 DEF Return
<1>6. CASE Cancel
  BY <1>t, <1>6 DEF Cancel, SetTasks
<1>7. CASE UNCHANGED vars
  BY <1>7 DEF vars
<1> QED
  BY <1>1, <1>2, <1>3, <1>4, <1>5, <1>6, <1>7 DEF Next, Progress

\* Until the call is over and every command has ended, some action of the
\* program has its guard: whoever holds the semaphore waits for commands that
\* are active or have ended, and nobody waits for it while nobody holds it.
THEOREM AlwaysAWayOn ==
  Spec => []((call = "running" \/ \E t \in Tasks : Active(t)) => CanGoOn)
<1>1. ASSUME TypeOK, RunningInv, call = "running", \A t \in Tasks : ~ Active(t)
      PROVE  CanGoOn
  <2>1. CASE Over = Systems
    BY <1>1, <2>1 DEF CanGoOn
  <2>2. CASE \E s \in Holding : TRUE
    <3>1. PICK s \in Systems : system[s] \in {"batch", "gather"}
      BY <2>2 DEF Holding
    <3>2. CASE system[s] = "batch"
      BY <3>2 DEF CanGoOn
    <3>3. CASE system[s] = "gather"
      <4>1. \A t \in TasksOf(s) : task[t] \in {"done", "raised"}
        BY <1>1, <3>3, Owner DEF TypeOK, TaskAt, RunningInv, Active
      <4> QED
        BY <3>3, <4>1 DEF CanGoOn
    <3> QED
      BY <3>1, <3>2, <3>3
  <2>3. CASE Over # Systems /\ Holding = {}
    <3>1. PICK s \in Systems : s \notin Over
      BY <2>3 DEF Over
    <3>2. system[s] = "queued"
      BY <1>1, <2>3, <3>1 DEF TypeOK, SystemAt, RunningInv, Over, Holding
    <3>3. Cardinality(Holding) < Cap
      BY <2>3, FS_EmptySet, RunAssumption
    <3> QED
      BY <1>1, <3>2, <3>3 DEF CanGoOn
  <2> QED
    BY <2>1, <2>2, <2>3
<1>2. TypeOK /\ RunningInv => ((call = "running" \/ \E t \in Tasks : Active(t)) => CanGoOn)
  BY <1>1 DEF CanGoOn
<1>3. Spec => []RunningInv
  <2>1. IInv => TypeOK
    BY DEF IInv
  <2> QED
    BY <2>1, RunningInit, RunningStep, Invariance, PTL DEF Spec
<1> QED
  BY <1>2, <1>3, TypeCorrect, PTL

\* The ranks are natural numbers, so nothing can go on for ever.
LEMMA RanksAreNatural ==
  ASSUME IInv
  PROVE  /\ CallRank \in Nat
         /\ \A s \in Systems : SystemRank(s) \in Nat
         /\ \A t \in Tasks : TaskRank(t) \in Nat
<1>1. CallRank \in Nat
  BY DEF CallRank
<1>2. ASSUME NEW s \in Systems PROVE SystemRank(s) \in Nat
  BY Bounds DEF IInv, TypeOK, BatchInv, SystemRank
<1>3. ASSUME NEW t \in Tasks PROVE TaskRank(t) \in Nat
  BY Bounds DEF IInv, TypeOK, SubmitInv, TaskRank
<1> QED
  BY <1>1, <1>2, <1>3

\* Of what a step does not touch the rank stays.
LEMMA SystemStays ==
  ASSUME IInv, NEW s \in Systems, system'[s] = system[s], failed'[s] = failed[s]
  PROVE  SystemRank(s)' <= SystemRank(s)
<1>1. SystemRank(s)' = SystemRank(s)
  BY DEF SystemRank
<1> QED
  BY <1>1, RanksAreNatural

LEMMA TaskStays ==
  ASSUME IInv, NEW t \in Tasks, task'[t] = task[t], tries'[t] = tries[t]
  PROVE  TaskRank(t)' <= TaskRank(t)
<1>1. TaskRank(t)' = TaskRank(t)
  BY DEF TaskRank
<1> QED
  BY <1>1, RanksAreNatural

LEMMA CallStays ==
  ASSUME UNCHANGED call
  PROVE  CallRank' <= CallRank
  BY DEF CallRank

\* A step of a system, which may start its commands.
LEMMA SystemGoesOn ==
  ASSUME IInv, NEW s \in Systems, Acquire(s) \/ SystemStep(s)
  PROVE  NothingGoesBack /\ SomethingGoesOn
<1> USE Bounds, Owner
<1>t. /\ system \in [Systems -> SystemAt] /\ failed \in [Systems -> 0 .. MaxRetries + 1]
      /\ task \in [Tasks -> TaskAt] /\ tries \in [Tasks -> 0 .. MaxRetries + 1]
  BY DEF IInv, TypeOK
<1>f. /\ failed[s] \in Nat
      /\ system[s] = "queued" => failed[s] = 0
      /\ system[s] = "batch" => failed[s] <= MaxRetries
  BY <1>t DEF IInv, BatchInv
<1>k. ASSUME NEW t \in TasksOf(s)
      PROVE  system[s] \in {"queued", "batch"} => task[t] = "none" /\ tries[t] = 0
  BY DEF IInv, SubmitInv
<1>1. UNCHANGED call /\ UNCHANGED tries
  BY DEF Acquire, SystemStep, BatchAccepted, BatchFails, BatchMissing, GatherEnds
<1>2. ASSUME NEW u \in Systems, u # s PROVE system'[u] = system[u] /\ failed'[u] = failed[u]
  BY <1>t, <1>2 DEF Acquire, SystemStep, BatchAccepted, BatchFails, BatchMissing, GatherEnds
<1>3. SystemRank(s)' < SystemRank(s)
  <2>1. CASE Acquire(s)
    BY <1>t, <1>f, <2>1 DEF Acquire, SystemRank
  <2>2. CASE BatchAccepted(s) \/ BatchMissing(s)
    BY <1>t, <1>f, <2>2 DEF BatchAccepted, BatchMissing, SystemRank
  <2>3. CASE BatchFails(s)
    BY <1>t, <1>f, <2>3 DEF BatchFails, SystemRank
  <2>4. CASE GatherEnds(s)
    BY <1>t, <2>4 DEF GatherEnds, SystemRank
  <2> QED
    BY <2>1, <2>2, <2>3, <2>4 DEF SystemStep
<1>4. ASSUME NEW t \in Tasks PROVE TaskRank(t)' <= TaskRank(t)
  <2>1. CASE task'[t] = task[t]
    BY <1>1, <2>1, TaskStays
  <2>2. CASE task'[t] # task[t]
    <3>1. /\ t \in TasksOf(s) /\ system[s] = "batch"
          /\ task'[t] \in {"poll", "submit"}
      BY <1>t, <2>2 DEF Acquire, SystemStep, BatchAccepted, BatchFails, BatchMissing, GatherEnds, SetTasks
    <3> QED
      BY <1>1, <1>k, <3>1 DEF TaskRank
  <2> QED
    BY <2>1, <2>2
<1>5. \A u \in Systems : SystemRank(u)' <= SystemRank(u)
  <2>1. SystemRank(s)' <= SystemRank(s)
    <3>1. SystemRank(s) \in Nat
      BY RanksAreNatural
    <3>2. SystemRank(s)' \in Int
      BY <1>t, <1>f DEF Acquire, SystemStep, BatchAccepted, BatchFails, BatchMissing, GatherEnds, SystemRank
    <3> QED
      BY <1>3, <3>1, <3>2
  <2> QED
    BY <1>2, <2>1, SystemStays
<1> QED
  BY <1>1, <1>3, <1>4, <1>5, CallStays DEF NothingGoesBack, SomethingGoesOn

\* A step of a command, of which PollRaises is no step of the program.
LEMMA CommandGoesOn ==
  ASSUME IInv, NEW t \in Tasks, TaskStep(t) \/ PollRaises(t)
  PROVE  NothingGoesBack /\ SomethingGoesOn
<1> USE Bounds
<1>t. /\ task \in [Tasks -> TaskAt] /\ tries \in [Tasks -> 0 .. MaxRetries + 1]
  BY DEF IInv, TypeOK
<1>f. task[t] = "submit" => tries[t] <= MaxRetries
  BY DEF IInv, SubmitInv
<1>1. UNCHANGED <<call, system, failed>>
  BY DEF TaskStep, SubmitAccepted, SubmitFails, PollAnswered, PollTimesOut, Delete, PollRaises
<1>2. ASSUME NEW u \in Tasks, u # t PROVE task'[u] = task[u] /\ tries'[u] = tries[u]
  BY <1>t, <1>2 DEF TaskStep, SubmitAccepted, SubmitFails, PollAnswered, PollTimesOut, Delete,
     PollRaises, SetTasks
<1>3. TaskRank(t)' < TaskRank(t) /\ TaskRank(t)' \in Int
  <2>1. CASE SubmitAccepted(t)
    BY <1>t, <1>f, <2>1 DEF SubmitAccepted, SetTasks, TaskRank
  <2>2. CASE SubmitFails(t)
    BY <1>t, <1>f, <2>2 DEF SubmitFails, SetTasks, TaskRank
  <2>3. CASE PollAnswered(t) \/ PollTimesOut(t)
    BY <1>t, <2>3 DEF PollAnswered, PollTimesOut, SetTasks, TaskRank
  <2>4. CASE Delete(t) \/ PollRaises(t)
    BY <1>t, <2>4 DEF Delete, PollRaises, SetTasks, TaskRank
  <2> QED
    BY <2>1, <2>2, <2>3, <2>4 DEF TaskStep
<1>4. \A u \in Tasks : TaskRank(u)' <= TaskRank(u)
  <2>1. TaskRank(t)' <= TaskRank(t)
    BY <1>3, RanksAreNatural
  <2> QED
    BY <1>2, <2>1, TaskStays
<1>5. \A s \in Systems : SystemRank(s)' <= SystemRank(s)
  BY <1>1, SystemStays
<1> QED
  BY <1>1, <1>3, <1>4, <1>5, CallStays DEF NothingGoesBack, SomethingGoesOn

\* The end of the call, by itself or by the client.
LEMMA CallGoesOn ==
  ASSUME IInv, Return \/ Cancel
  PROVE  NothingGoesBack /\ SomethingGoesOn
<1>t. system \in [Systems -> SystemAt] /\ task \in [Tasks -> TaskAt]
  BY DEF IInv, TypeOK
<1>1. CallRank' < CallRank /\ CallRank' <= CallRank
  BY DEF Return, Cancel, CallRank
<1>2. UNCHANGED <<failed, tries>>
  BY DEF Return, Cancel
<1>3. ASSUME NEW s \in Systems PROVE SystemRank(s)' <= SystemRank(s)
  <2>1. system'[s] = system[s] \/ system'[s] = "cancelled"
    BY <1>t DEF Return, Cancel
  <2>2. CASE system'[s] = system[s]
    BY <1>2, <2>2, SystemStays
  <2>3. CASE system'[s] = "cancelled"
    BY <2>3, RanksAreNatural DEF SystemRank
  <2> QED
    BY <2>1, <2>2, <2>3
<1>4. ASSUME NEW t \in Tasks PROVE TaskRank(t)' <= TaskRank(t)
  <2>1. task'[t] = task[t] \/ task'[t] = "cancelled"
    BY <1>t DEF Return, Cancel, SetTasks
  <2>2. CASE task'[t] = task[t]
    BY <1>2, <2>2, TaskStays
  <2>3. CASE task'[t] = "cancelled"
    <3>1. TaskRank(t)' = 0
      BY <2>3 DEF TaskRank
    <3> QED
      BY <3>1, RanksAreNatural
  <2> QED
    BY <2>1, <2>2, <2>3
<1> QED
  BY <1>1, <1>3, <1>4 DEF NothingGoesBack, SomethingGoesOn

\* Whatever happens nothing goes back, and a step of the program takes the
\* call, a system or a command forward.
THEOREM NoEndlessWork == Spec => EndsByItself
<1>1. IInv /\ [Next]_vars => [NothingGoesBack /\ (Progress => SomethingGoesOn)]_vars
  <2> SUFFICES ASSUME IInv, Next PROVE NothingGoesBack /\ (Progress => SomethingGoesOn)
    OBVIOUS
  <2>1. CASE \E s \in Systems : Acquire(s) \/ SystemStep(s)
    BY <2>1, SystemGoesOn
  <2>2. CASE \E t \in Tasks : TaskStep(t) \/ PollRaises(t)
    BY <2>2, CommandGoesOn
  <2>3. CASE Return \/ Cancel
    BY <2>3, CallGoesOn
  <2>4. ASSUME NEW t \in Tasks, JobMoves(t)
        PROVE  NothingGoesBack /\ (Progress => SomethingGoesOn)
    <3>1. UNCHANGED <<call, system, failed, task, tries>>
      BY <2>4 DEF JobMoves
    <3>2. NothingGoesBack
      BY <3>1, CallStays, SystemStays, TaskStays DEF NothingGoesBack
    <3>3. CASE ~ Progress
      BY <3>2, <3>3
    <3>4. CASE Progress
      BY <3>4, SystemGoesOn, CommandGoesOn, CallGoesOn DEF Progress
    <3> QED
      BY <3>3, <3>4
  <2> QED
    BY <2>1, <2>2, <2>3, <2>4 DEF Next, Progress
<1> QED
  BY <1>1, Invariance, PTL DEF Spec, EndsByItself
=============================================================================
