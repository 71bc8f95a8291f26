---------------------------- MODULE CounterSeries ---------------------------
(***************************************************************************)
(* The interface counters of one instance: the poller                      *)
(* (src/handlers/counter_poller.py) samples cumulative counters, the store *)
(* (src/primitives/counter_store.py) keeps the samples of a window and     *)
(* turns them into deltas when it is asked.                                *)
(*                                                                         *)
(* A system stands for one of its interfaces and one field of it: all that *)
(* a reply holds is written without an await in between, and the fields do *)
(* not depend on each other.  Whether the reply had the field, and what    *)
(* the device had counted, is kept beside every sample, to compare the     *)
(* deltas with; the code sees the values only.                             *)
(***************************************************************************)
EXTENDS Integers, FiniteSetsExt, Functions

CONSTANTS Systems,      \* the systems the instance may manage
          RefreshEvery, \* SYSTEM_REFRESH_POLLS
          PruneEvery,   \* PRUNE_INTERVAL_POLLS
          Window,       \* WINDOW_DAYS, in ticks
          Patience,     \* what a sleep or a request takes at most, in ticks
          Busy,         \* bound: the systems whose counters move
          MaxTime,      \* bound: ticks
          MaxCount,     \* bound: what all systems count together
          MaxResets,    \* bound: resets of all systems together
          MaxFaults     \* bound: failed requests, replies without the field and restarts

ASSUME CounterAssumption ==
  /\ {RefreshEvery, PruneEvery, Patience, MaxTime} \subseteq Nat \ {0}
  /\ {Window, MaxCount, MaxResets, MaxFaults} \subseteq Nat
  /\ Busy \subseteq Systems

VARIABLES
  now,      \* the time, in ticks
  value,    \* value[s]: the counter of s
  truth,    \* truth[s]: what s has counted and how often it was reset
  managed,  \* the systems the instance lists
  pc,       \* where the poller is
  since,    \* when it got there
  systems,  \* the systems it polls
  polls,    \* poll_count, modulo Period
  todo,     \* the systems left in this poll
  stamp,    \* polled_at of this poll
  rows,     \* rows[s]: the rows of s in counter_snapshots
  faults    \* failed requests, replies without the field and restarts so far

\* What poll_count is used for repeats.
Period == RefreshEvery * PruneEvery

fabric == <<value, truth, managed>>
poller == <<pc, since, systems, polls, todo, stamp>>
vars   == <<now, fabric, poller, rows, faults>>

Truth == [count : Nat, resets : Nat]

\* polled_at is written by isoformat(), with the offset +00:00.
Forms == {"offset", "Z"}
Row == [at : Nat, form : Forms, value : Nat, sent : BOOLEAN, truth : Truth]

\* counters.get(f, 0) or 0: a field that is missing or null is kept as a zero.
Kept(sent, shown) == IF sent THEN shown ELSE 0

Init ==
  /\ now = 1
  /\ value = [s \in Systems |-> 0]
  /\ truth = [s \in Systems |-> [count |-> 0, resets |-> 0]]
  /\ managed \in SUBSET Systems
  /\ pc = "discover"
  /\ since = 1
  /\ systems = {}
  /\ polls = 0
  /\ todo = {}
  /\ stamp = 1
  /\ rows = [s \in Systems |-> {}]
  /\ faults = 0

\* Mutation: off by one.
GoLate(place) == pc' = place /\ since' = now + 1

Go(place) == pc' = place /\ since' = now
Fault == faults < MaxFaults /\ faults' = faults + 1
-----------------------------------------------------------------------------
(* What the store computes (_compute_deltas). *)

\* What a query goes through: each row of S after the row before it.
Follows(prev, curr, S) ==
  prev.at < curr.at /\ \A row \in S : ~(prev.at < row.at /\ row.at < curr.at)
Steps(S) == {step \in S \X S : Follows(step[1], step[2], S)}

\* Mutation: a counter that fell has wrapped.
DeltaWrapped(prev, curr) ==
  IF curr.value < prev.value THEN curr.value - prev.value + MaxCount + 1
                             ELSE curr.value - prev.value

\* A counter that fell was reset: no growth is reported.
Delta(prev, curr) ==
  IF curr.value < prev.value THEN 0 ELSE curr.value - prev.value

\* Mutation: a counter that stands still was reset.
HasResetOrStands(prev, curr) == curr.value <= prev.value

HasReset(prev, curr) == curr.value < prev.value

\* fromisoformat of the stamp without its Z and with an offset appended; 300 s
\* when that is no date.
Parses(row) == row.form = "Z"
Nominal == 1
IntervalOf(prev, curr) ==
  IF Parses(prev) /\ Parses(curr) THEN curr.at - prev.at ELSE Nominal

\* get_error_trend, get_top_error_growers: the growth from row a to row b.
Growth(S, a, b) ==
  MapThenSumSet(LAMBDA step : Delta(step[1], step[2]),
                {step \in Steps(S) : a.at <= step[1].at /\ step[2].at <= b.at})
-----------------------------------------------------------------------------
(* The poller. *)

\* Mutation: a discovery that failed or found nothing empties the list.
LearnAll(found) == systems' = found

\* A discovery that found nothing changes nothing.
Learn(found) == systems' = IF found = {} THEN systems ELSE found

\* With no system at all the discovery is repeated after a sleep.
Discover ==
  /\ pc = "discover"
  /\ \E found \in {managed, {}} :
       /\ IF found = managed THEN UNCHANGED faults ELSE Fault
       /\ Learn(found)
  /\ Go(IF systems' = {} THEN "again" ELSE "sleep")
  /\ UNCHANGED <<now, fabric, polls, todo, stamp, rows>>

\* A sleep ends after a tick at least.
Slept == since < now \/ now = MaxTime

WakeAgain ==
  /\ pc = "again"
  /\ Slept
  /\ Go("discover")
  /\ UNCHANGED <<now, fabric, systems, polls, todo, stamp, rows, faults>>

Wake ==
  /\ pc = "sleep"
  /\ Slept
  /\ Go("poll")
  /\ todo' = systems
  /\ stamp' = now
  /\ UNCHANGED <<now, fabric, systems, polls, rows, faults>>

\* insert_snapshot: one row for an interface and a stamp.
Saved(s, row) ==
  rows' = IF \E other \in rows[s] : other.at = row.at
          THEN rows
          ELSE [rows EXCEPT ![s] = @ \cup {row}]

\* The counters of s, as they are when the instance reads them; the reply may
\* be without the field.
Sample(s) ==
  /\ pc = "poll"
  /\ s \in todo
  /\ s \in managed
  /\ \E sent \in BOOLEAN :
       /\ IF sent THEN UNCHANGED faults ELSE Fault
       /\ Saved(s, [at |-> stamp, form |-> "offset", value |-> Kept(sent, value[s]),
                    sent |-> sent, truth |-> truth[s]])
  /\ todo' = todo \ {s}
  /\ Go("poll")
  /\ UNCHANGED <<now, fabric, systems, polls, stamp>>

\* The request fails, by a fault or because the system is not managed any
\* more: the others are polled all the same.
SampleFails(s) ==
  /\ pc = "poll"
  /\ s \in todo
  /\ IF s \in managed THEN Fault ELSE UNCHANGED faults
  /\ todo' = todo \ {s}
  /\ Go("poll")
  /\ UNCHANGED <<now, fabric, systems, polls, stamp, rows>>

\* Mutation: the list is made once.
NextPlaceOnce(n) == "sleep"

\* After poll n: time for a new list?
NextPlace(n) == IF n % RefreshEvery = 0 THEN "discover" ELSE "sleep"

Pruned(S, cutoff) == {row \in S : row.at >= cutoff}

PollEnds ==
  /\ pc = "poll"
  /\ todo = {}
  /\ polls' = (polls + 1) % Period
  /\ Go(NextPlace(polls + 1))
  /\ rows' = IF (polls + 1) % PruneEvery = 0
             THEN [s \in Systems |-> Pruned(rows[s], now - Window)]
             ELSE rows
  /\ UNCHANGED <<now, fabric, systems, todo, stamp, faults>>

\* The server is restarted; the database stays.
Restart ==
  /\ Fault
  /\ Go("discover")
  /\ systems' = {}
  /\ polls' = 0
  /\ todo' = {}
  /\ UNCHANGED <<now, fabric, stamp, rows>>
-----------------------------------------------------------------------------
(* The fabric and time. *)

Count(s) ==
  /\ SumFunction([r \in Systems |-> truth[r].count]) < MaxCount
  /\ value' = [value EXCEPT ![s] = @ + 1]
  /\ truth' = [truth EXCEPT ![s].count = @ + 1]
  /\ UNCHANGED <<now, managed, poller, rows, faults>>

Reset(s) ==
  /\ SumFunction([r \in Systems |-> truth[r].resets]) < MaxResets
  /\ value' = [value EXCEPT ![s] = 0]
  /\ truth' = [truth EXCEPT ![s].resets = @ + 1]
  /\ UNCHANGED <<now, managed, poller, rows, faults>>

\* Systems are onboarded and removed, until the last tick.
Manage ==
  /\ now < MaxTime
  /\ \E S \in SUBSET Systems : managed' = S /\ S # managed
  /\ UNCHANGED <<now, value, truth, poller, rows, faults>>

Tick ==
  /\ now < MaxTime
  /\ now - since < Patience
  /\ now' = now + 1
  /\ UNCHANGED <<fabric, poller, rows, faults>>
-----------------------------------------------------------------------------
Poll ==
  \/ Discover \/ WakeAgain \/ Wake \/ PollEnds
  \/ \E s \in Systems : Sample(s) \/ SampleFails(s)

Next ==
  \/ Poll
  \/ Restart
  \/ \E s \in Busy : Count(s) \/ Reset(s)
  \/ Manage
  \/ Tick

Spec == Init /\ [][Next]_vars

\* The event loop runs the poller, and every request has a timeout.
FairSpec == Spec /\ WF_vars(Poll)
-----------------------------------------------------------------------------
TypeOK ==
  /\ now \in 1..MaxTime
  /\ value \in [Systems -> Nat]
  /\ truth \in [Systems -> Truth]
  /\ managed \subseteq Systems
  /\ pc \in {"discover", "again", "sleep", "poll"}
  /\ since \in 1..now
  /\ systems \subseteq Systems
  /\ polls \in 0..Period - 1
  /\ todo \subseteq Systems
  /\ stamp \in 1..now
  /\ rows \in [Systems -> SUBSET Row]
  /\ faults \in 0..MaxFaults

\* Of no stretch of samples is more growth reported than there was, however
\* polls fail, counters are reset and old samples go, and whether or not the
\* last of them has the field; and exactly what there was where all have it and
\* nothing was reset.  (After a sample without the field the growth is the
\* whole counter: the field was kept as a zero.)
Stretch(s, a, b) == {row \in rows[s] : a.at <= row.at /\ row.at <= b.at}
GrowthSound ==
  \A s \in Systems : \A a, b \in rows[s] :
    a.at < b.at /\ (\A row \in Stretch(s, a, b) \ {b} : row.sent) =>
      LET real == b.truth.count - a.truth.count
      IN  /\ Growth(rows[s], a, b) <= real
          /\ b.sent /\ a.truth.resets = b.truth.resets => Growth(rows[s], a, b) = real

\* has_reset is never raised by a sample that has the field for a counter that
\* only grew or stood still, although resets may hide between two samples and
\* the sample before may be without the field.
FlagMeansReset ==
  \A s \in Systems : \A step \in Steps(rows[s]) :
    step[2].sent /\ HasReset(step[1], step[2]) => step[1].truth.resets < step[2].truth.resets

\* Once the fabric has settled, every managed system is sampled in the end,
\* whatever discoveries and polls have failed and whenever it was onboarded.
Sampled(s) == \E row \in rows[s] : row.at = MaxTime
Covers == \A s \in Systems : (now = MaxTime /\ s \in managed) ~> [](Sampled(s))

\* "interval_seconds -- seconds between the two snapshots"
\* (counter_store.py:296).
IntervalTrue ==
  \A s \in Systems : \A step \in Steps(rows[s]) :
    IntervalOf(step[1], step[2]) = step[2].at - step[1].at
=============================================================================
