---------------------------- MODULE AnomalyPoller ---------------------------
(***************************************************************************)
(* The anomaly poller of one blueprint (src/handlers/anomaly_poller.py),   *)
(* above the event log of AnomalyLog: one backfill of history, then polls  *)
(* that compare counts first and take a snapshot only when a count moved,  *)
(* and a trace task for every anomaly a poll found new.                    *)
(*                                                                         *)
(* hist is the fabric: hist[t] is the set of anomalies active from tick t  *)
(* on.  Every request takes any number of ticks, and what its answer       *)
(* describes is the fabric when it was asked, when it was answered or any  *)
(* tick between, as the API defines.  Between two awaits the poller is     *)
(* atomic except for the commits it makes: writes go to the log one by     *)
(* one, and a crash may come between any two of them.                      *)
(*                                                                         *)
(* Stamps: the fabric stamps a change of tick t with 2t, the poller stamps *)
(* what it writes during tick t with 2t + 1.                               *)
(***************************************************************************)
EXTENDS Integers, FiniteSets, Sequences, FiniteSetsExt

CONSTANTS Ids,        \* the anomaly identities of the blueprint
          TypeOf,     \* their types, numbered in the order the API lists them
          Window,     \* WINDOW_DAYS and BACKFILL_DAYS, in ticks
          Patience,   \* what a sleep or a request takes at most, in ticks
          MaxTime,    \* bound: ticks
          MaxFaults   \* bound: failed requests and crashes

ASSUME PollerAssumption ==
  /\ IsFiniteSet(Ids) /\ TypeOf \in [Ids -> Nat]
  /\ Patience \in Nat \ {0}
  /\ Window \in Nat /\ Window > Patience
  /\ MaxTime \in Nat \ {0}
  /\ MaxFaults \in Nat

VARIABLES
  hist,    \* the fabric
  log,     \* the event log (AnomalyLog)
  base,    \* poll_state: last_counts, last_snapshot, backfill_complete
  pc,      \* where the poller is
  since,   \* tick of its last request, or of falling asleep
  local,   \* what it carries across awaits
  todo,    \* the events it is writing
  traces,  \* trace tasks whose requests are out
  faults   \* failed requests and crashes so far

vars == <<hist, log, base, pc, since, local, todo, traces, faults>>

Log == INSTANCE AnomalyLog

Types == {TypeOf[x] : x \in Ids}
OfType(ty, S) == {x \in S : TypeOf[x] = ty}
Counts(S) == [ty \in Types |-> Cardinality(OfType(ty, S))]

now == Len(hist)
Live == hist[now]
FabricStamp(t) == 2 * t
PollerStamp(t) == 2 * t + 1

Blank == [counts |-> Counts({}), snap |-> {}, open |-> {}, seen |-> {}]
Unset == [counts |-> Counts({}), snap |-> {}, complete |-> FALSE]

Writing == {"bfWrite", "liveWrite", "diffWrite"}

Init ==
  /\ \E S \in SUBSET Ids : hist = <<S>>
  /\ log = {}
  /\ base = Unset
  /\ pc = "boot"
  /\ since = 1
  /\ local = Blank
  /\ todo = {}
  /\ traces = {}
  /\ faults = 0

\* A request is sent, or the sleep begins.
Go(place) == pc' = place /\ since' = now
Fault == faults < MaxFaults /\ faults' = faults + 1
-----------------------------------------------------------------------------
(* Writing to the log. *)

\* The events E of x are recorded in the order of their stamps.
Recorded(x, E, L) ==
  LET new  == {e \in E : ~Log!Known(x, e.ts, e.raised, L)}
      last == Max({0} \cup {e.n : e \in Log!Of(x, L)})
      n(e) == last + Cardinality({f \in new : f.ts <= e.ts})
  IN  L \cup {[n |-> n(e), x |-> x, ts |-> e.ts, raised |-> e.raised] : e \in new}

\* Events to write, lowest rank first.
ToWrite(S, ts, raised, rank) ==
  {[x |-> x, ts |-> ts, raised |-> raised, rank |-> rank] : x \in S}

\* detected_at of an anomaly in a snapshot: when it was last raised, or 0
\* when the API does not know ("1970...").
DetectedAt(x, t) ==
  {0, FabricStamp(Max({1} \cup {s \in 2..t : x \in hist[s] /\ x \notin hist[s-1]}))}

\* upsert_anomaly and insert_event; a raise found by a poll starts a trace.
Write ==
  /\ pc \in Writing
  /\ \E e \in todo :
       /\ \A f \in todo : e.rank <= f.rank
       /\ log' = Recorded(e.x, {e}, log)
       /\ todo' = todo \ {e}
       /\ IF pc = "diffWrite" /\ e.raised
          THEN \E d \in DetectedAt(e.x, since) :
                 traces' = traces \cup {[x |-> e.x, since |-> now, detected |-> d]}
          ELSE UNCHANGED traces
  /\ UNCHANGED <<hist, base, pc, since, local, faults>>
-----------------------------------------------------------------------------
(* _session_poller. *)

\* The blueprints are enumerated; a failure ends the session's poller.
Enumerate ==
  /\ pc = "boot"
  /\ \/ Go(IF base.complete THEN "sleep" ELSE "bfCounts") /\ UNCHANGED faults
     \/ Go("dead") /\ Fault
  /\ UNCHANGED <<hist, log, base, local, todo, traces>>

\* asyncio.sleep(POLL_INTERVAL_SECONDS): some tick passes between two polls.
\* The poll of a blueprint that is not backfilled returns at once.
Wake ==
  /\ pc = "sleep"
  /\ since < now \/ now = MaxTime
  /\ Go(IF base.complete THEN "counts" ELSE "prune")
  /\ UNCHANGED <<hist, log, base, local, todo, traces, faults>>

Prune ==
  /\ pc = "prune"
  /\ log' = Log!Pruned(log, PollerStamp(now) - 2 * Window)
  /\ Go("sleep")
  /\ UNCHANGED <<hist, base, local, todo, traces, faults>>
-----------------------------------------------------------------------------
(* _backfill. *)

InWindow(t, u) == u - t <= Window

\* Steps 1 and 2, when the counts are answered at tick u: the ticks when the
\* count of the type changed, and those asked for a snapshot, which are the
\* ones where it is not zero.
Changes(ty, u) ==
  {t \in 2..u : InWindow(t, u) /\ Counts(hist[t])[ty] # Counts(hist[t-1])[ty]}

Asks(ty, u) == {t \in Changes(ty, u) : Counts(hist[t])[ty] > 0}

\* The change to zero after the last snapshot.
Closes(ty, u) ==
  {t \in Changes(ty, u) : Asks(ty, u) # {} /\ \A s \in Asks(ty, u) : s < t}

\* A snapshot that failed counts as an empty one.
Got(ty, t, lost) == IF <<ty, t>> \in lost THEN {} ELSE OfType(ty, hist[t])

\* What the walk of the type has seen last before tick t.
Before(ty, t, u, lost) ==
  LET earlier == {s \in Asks(ty, u) : s < t}
  IN  IF earlier = {} THEN {} ELSE Got(ty, Max(earlier), lost)

\* The snapshots asked for: a type and a tick each.
Asked(u) == {p \in Types \X (2..u) : p[2] \in Asks(p[1], u)}

\* Step 3: the types one after the other, each in the order of time, raises
\* before clears.
Walk(u, lost) ==
  UNION {LET got  == Got(p[1], p[2], lost)
             prev == Before(p[1], p[2], u, lost)
             rank == 2 * (p[1] * 2 * MaxTime + p[2])
         IN  ToWrite(got \ prev, FabricStamp(p[2]), TRUE, rank)
               \cup ToWrite(prev \ got, FabricStamp(p[2]), FALSE, rank + 1)
         : p \in {q \in Types \X (2..u) : q[2] \in Asks(q[1], u) \cup Closes(q[1], u)}}

\* identities_seen, and prev_active: what the last snapshot of a type left open.
Seen(u, lost) == UNION {Got(p[1], p[2], lost) : p \in Asked(u)}
LeftOpen(u, lost) == UNION {Before(ty, u + 1, u, lost) :
                       ty \in {y \in Types : Closes(y, u) = {}}}

BackfillHistory ==
  /\ pc = "bfCounts"
  /\ \/ \E u \in since..now :
          \E lost \in SUBSET Asked(u) :
            /\ faults + Cardinality(lost) <= MaxFaults
            /\ faults' = faults + Cardinality(lost)
            /\ todo' = Walk(u, lost)
            /\ local' = [Blank EXCEPT !.open = LeftOpen(u, lost), !.seen = Seen(u, lost)]
            /\ pc' = "bfWrite"
            /\ UNCHANGED since
     \/ Fault /\ Go("sleep") /\ UNCHANGED <<todo, local>>
  /\ UNCHANGED <<hist, log, base, traces>>

BackfillWritten ==
  /\ pc = "bfWrite"
  /\ todo = {}
  /\ Go("bfLive")
  /\ UNCHANGED <<hist, log, base, local, todo, traces, faults>>

\* Step 4: the live state, stamped and asked for at the same time.
LiveReconcile ==
  /\ pc = "bfLive"
  /\ \/ LET live == hist[since]
            ts   == PollerStamp(since)
        IN  /\ todo' = ToWrite(local.open \ live, ts, FALSE, 0)
                         \cup ToWrite(live \ local.seen, ts, TRUE, 1)
            /\ pc' = "liveWrite"
            /\ UNCHANGED <<since, faults>>
     \/ Fault /\ Go("bfBase") /\ UNCHANGED todo
  /\ local' = Blank
  /\ UNCHANGED <<hist, log, base, traces>>

LiveWritten ==
  /\ pc = "liveWrite"
  /\ todo = {}
  /\ Go("bfBase")
  /\ UNCHANGED <<hist, log, base, local, todo, traces, faults>>

\* Step 5: the baseline of the polls, from two more requests.
BaselineSnapshot ==
  /\ pc = "bfBase"
  /\ local' = [Blank EXCEPT !.snap = hist[since]]
  /\ Go("bfBaseCounts")
  /\ UNCHANGED <<hist, log, base, todo, traces, faults>>

BaselineCounts ==
  /\ pc = "bfBaseCounts"
  /\ \E u \in since..now :
       base' = [counts |-> Counts(hist[u]), snap |-> local.snap, complete |-> TRUE]
  /\ local' = Blank
  /\ Go("sleep")
  /\ UNCHANGED <<hist, log, todo, traces, faults>>

\* Mutation: nothing is stored for the counts.
BaselineFailsBare ==
  /\ pc \in {"bfBase", "bfBaseCounts"}
  /\ Fault
  /\ base' = [counts |-> <<>>, snap |-> {}, complete |-> TRUE]
  /\ local' = Blank
  /\ Go("sleep")
  /\ UNCHANGED <<hist, log, todo, traces>>

\* The backfill counts as complete even so.
BaselineFails ==
  /\ pc \in {"bfBase", "bfBaseCounts"}
  /\ Fault
  /\ base' = [Unset EXCEPT !.complete = TRUE]
  /\ local' = Blank
  /\ Go("sleep")
  /\ UNCHANGED <<hist, log, todo, traces>>
-----------------------------------------------------------------------------
(* _incremental_poll. *)

\* Nothing but the time of the poll is stored when no count moved.
CountsArrive ==
  /\ pc = "counts"
  /\ \E u \in since..now :
       IF Counts(hist[u]) = base.counts
       THEN Go("prune") /\ UNCHANGED local
       ELSE Go("snap") /\ local' = [Blank EXCEPT !.counts = Counts(hist[u])]
  /\ UNCHANGED <<hist, log, base, todo, traces, faults>>

\* Mutation: the baseline moves before the events are written.
SnapshotArrivesSaved ==
  /\ pc = "snap"
  /\ LET cur == hist[since]
         ts  == PollerStamp(now)
     IN  /\ todo' = ToWrite(cur \ base.snap, ts, TRUE, 0)
                      \cup ToWrite(base.snap \ cur, ts, FALSE, 1)
         /\ local' = [local EXCEPT !.snap = cur]
         /\ base' = [base EXCEPT !.counts = local.counts, !.snap = cur]
  /\ pc' = "diffWrite"
  /\ UNCHANGED <<hist, log, since, traces, faults>>

\* Mutation: the difference is taken the wrong way round.
SnapshotArrivesSwapped ==
  /\ pc = "snap"
  /\ LET cur == hist[since]
         ts  == PollerStamp(now)
     IN  /\ todo' = ToWrite(base.snap \ cur, ts, TRUE, 0)
                      \cup ToWrite(cur \ base.snap, ts, FALSE, 1)
         /\ local' = [local EXCEPT !.snap = cur]
  /\ pc' = "diffWrite"
  /\ UNCHANGED <<hist, log, base, since, traces, faults>>

\* The snapshot is of the tick it was asked for, the stamp of the tick it
\* arrived in.
SnapshotArrives ==
  /\ pc = "snap"
  /\ LET cur == hist[since]
         ts  == PollerStamp(now)
     IN  /\ todo' = ToWrite(cur \ base.snap, ts, TRUE, 0)
                      \cup ToWrite(base.snap \ cur, ts, FALSE, 1)
         /\ local' = [local EXCEPT !.snap = cur]
  /\ pc' = "diffWrite"
  /\ UNCHANGED <<hist, log, base, since, traces, faults>>

\* Mutation: the counts are stored although the snapshot is missing.
PollFailsSaved ==
  /\ pc \in {"counts", "snap"}
  /\ Fault
  /\ base' = IF pc = "snap" THEN [base EXCEPT !.counts = local.counts] ELSE base
  /\ local' = Blank
  /\ Go("prune")
  /\ UNCHANGED <<hist, log, todo, traces>>

\* A failed request ends the poll and leaves the baseline as it was.
PollFails ==
  /\ pc \in {"counts", "snap"}
  /\ Fault
  /\ local' = Blank
  /\ Go("prune")
  /\ UNCHANGED <<hist, log, base, todo, traces>>

PollSaved ==
  /\ pc = "diffWrite"
  /\ todo = {}
  /\ base' = [base EXCEPT !.counts = local.counts, !.snap = local.snap]
  /\ local' = Blank
  /\ Go("prune")
  /\ UNCHANGED <<hist, log, todo, traces, faults>>
-----------------------------------------------------------------------------
(* _trace_new_identity. *)

\* What the trace of x answers at tick u.
TraceEvents(x, u) ==
  {[ts |-> FabricStamp(t), raised |-> x \in hist[t]] :
     t \in {t \in 2..u : InWindow(t, u) /\ (x \in hist[t]) # (x \in hist[t-1])}}

\* A trace that wrote nothing leaves a raise at detected_at.
OrSynthetic(tr, L) ==
  IF L = log /\ tr.detected # 0
  THEN Recorded(tr.x, {[ts |-> tr.detected, raised |-> TRUE]}, log)
  ELSE L

TraceArrives(tr) ==
  /\ pc \notin Writing
  /\ \E u \in tr.since..now :
       log' = OrSynthetic(tr, Recorded(tr.x, TraceEvents(tr.x, u), log))
  /\ traces' = traces \ {tr}
  /\ UNCHANGED <<hist, base, pc, since, local, todo, faults>>

TraceFails(tr) ==
  /\ pc \notin Writing
  /\ Fault
  /\ log' = OrSynthetic(tr, log)
  /\ traces' = traces \ {tr}
  /\ UNCHANGED <<hist, base, pc, since, local, todo>>
-----------------------------------------------------------------------------
(* The environment. *)

\* Sleeps and requests end in time, and nothing waits between two awaits.
TimeMayPass ==
  /\ pc \notin Writing \cup {"prune"}
  /\ pc \notin {"boot", "dead"} => now - since < Patience
  /\ \A tr \in traces : now - tr.since < Patience

\* One tick, after which the fabric may be in any state.
Tick ==
  /\ now < MaxTime
  /\ TimeMayPass
  /\ \E S \in SUBSET Ids : hist' = Append(hist, S)
  /\ UNCHANGED <<log, base, pc, since, local, todo, traces, faults>>

\* The process ends and is started again; the database stays.  When it ends
\* while a trace is being written, the first events of the trace are in it.
Crash ==
  /\ Fault
  /\ \/ UNCHANGED log
     \/ /\ pc \notin Writing
        /\ \E tr \in traces : \E u \in tr.since..now : \E cut \in 1..u :
             log' = Recorded(tr.x, {e \in TraceEvents(tr.x, u) :
                                      e.ts <= FabricStamp(cut)}, log)
  /\ Go("boot")
  /\ local' = Blank
  /\ todo' = {}
  /\ traces' = {}
  /\ UNCHANGED <<hist, base>>
-----------------------------------------------------------------------------
Poll ==
  \/ Enumerate \/ Wake \/ Prune \/ Write
  \/ BackfillHistory \/ BackfillWritten \/ LiveReconcile \/ LiveWritten
  \/ BaselineSnapshot \/ BaselineCounts \/ BaselineFails
  \/ CountsArrive \/ SnapshotArrives \/ PollFails \/ PollSaved

Next ==
  \/ Poll
  \/ \E tr \in traces : TraceArrives(tr) \/ TraceFails(tr)
  \/ Tick
  \/ Crash

Spec == Init /\ [][Next]_vars

\* The event loop runs the poller's task, and every request has a timeout.
FairSpec == Spec /\ WF_vars(Poll)
-----------------------------------------------------------------------------
Places == {"boot", "dead", "sleep", "prune", "counts", "snap", "bfCounts",
           "bfLive", "bfBase", "bfBaseCounts"} \cup Writing
CountMaps == [Types -> 0..Cardinality(Ids)]

TypeOK ==
  /\ hist \in Seq(SUBSET Ids) /\ now \in 1..MaxTime
  /\ log \subseteq Log!Event
  /\ base \in [counts : CountMaps, snap : SUBSET Ids, complete : BOOLEAN]
  /\ pc \in Places
  /\ since \in 1..now
  /\ local \in [counts : CountMaps, snap : SUBSET Ids, open : SUBSET Ids, seen : SUBSET Ids]
  /\ todo \subseteq [x : Ids, ts : Nat, raised : BOOLEAN, rank : Int]
  /\ traces \subseteq [x : Ids, since : 1..now, detected : Nat]
  /\ faults \in 0..MaxFaults

\* The poller writes to the log as the store promises it: late traces, polls
\* and backfills that are run again after a crash record nothing twice, and
\* no prune takes the last event of an identity.
LogSpec == Log!Spec

\* Without a failed request no event is made up: an event of the history
\* says what the anomaly was at its stamp, an event of a poll what it was at
\* a moment of that poll.
TrueEvent(e) ==
  \E t \in 1..now : /\ (e.x \in hist[t]) = e.raised
                    /\ FabricStamp(t) = e.ts \/ (t >= since /\ PollerStamp(now) = e.ts)
                       \/ PollerStamp(t) = e.ts
EventsTrue == [][\A e \in log' \ log : faults' = 0 => TrueEvent(e)]_vars

\* A change enters the baseline of the polls only after its event is in the
\* log: a crash between the two makes the next poll find the change again.
BaselineAfterLog ==
  [][base.complete => \A x \in Ids : (x \in base'.snap) # (x \in base.snap) =>
       \E e \in log : /\ e.x = x /\ e.ts >= PollerStamp(since)
                      /\ e.raised = (x \in base'.snap)]_vars

\* When the fabric has settled and a count differs from the baseline, the
\* polls take in the state of the fabric, whatever fails on the way.
Behind == now = MaxTime /\ pc = "sleep" /\ base.complete /\ base.counts # Counts(Live)
CatchesUp == Behind ~> (base.snap = Live \/ pc = "dead")
-----------------------------------------------------------------------------
(* What docs and comments say and the code does not do. *)

\* "The most recent event for every anomaly is always preserved so that
\* currently-active (raised) state is never silently lost"
\* (anomaly_store.py:186-187).  Kept is the event recorded last, which a late
\* trace makes an old one.
PruneKeepsActive ==
  [][pc = "prune" /\ pc' = "sleep" =>
       Log!Active(log) \cap base.snap \cap Live \subseteq Log!Active(log')]_vars

\* "Anomalies that *disappear* generate a raised=False event.  This accurately
\* reconstructs raise/clear history" (anomaly_poller.py:156-158).  For an
\* anomaly whose raise was reconstructed, and a tick of the history at which
\* it was gone and the count of its type had changed: a clear in between.
BackfillKeepsClears ==
  pc = "bfWrite" /\ todo = {} /\ since = now /\ faults = 0 =>
    \A x \in Ids : \A r, t \in 2..now :
      r < t /\ Log!Known(x, FabricStamp(r), TRUE, log)
        /\ x \notin hist[t] /\ t \in Changes(TypeOf[x], now)
      => \E s \in r+1..t : Log!Known(x, FabricStamp(s), FALSE, log)
=============================================================================
