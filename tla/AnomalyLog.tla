----------------------------- MODULE AnomalyLog -----------------------------
(***************************************************************************)
(* What the anomaly store (src/primitives/anomaly_store.py) promises about *)
(* its event log, whatever rows and row ids it keeps it in: every anomaly  *)
(* identity has a log of raise and clear events, in the order in which     *)
(* they were recorded.  An event is recorded once.  Pruning forgets old    *)
(* events but never the last one recorded of an identity.                  *)
(*                                                                         *)
(* An event carries two orders that need not agree: n, when it was         *)
(* recorded, and ts, when it happened.  A trace reports the past, so it    *)
(* records events with an old ts and a new n.                              *)
(***************************************************************************)
EXTENDS Integers

CONSTANT Ids    \* the anomaly identities

VARIABLE log    \* a set of events

Event == [n : Nat, x : Ids, ts : Nat, raised : BOOLEAN]

Of(x, L) == {e \in L : e.x = x}

\* Recorded before: insert_event would write nothing.
Known(x, ts, raised, L) == \E e \in L : e.x = x /\ e.ts = ts /\ e.raised = raised

IsLast(e, L) == \A f \in Of(e.x, L) : f.n <= e.n

\* Mutation: every old event goes.
PrunedByAge(L, cutoff) == {e \in L : e.ts >= cutoff}

\* prune(): old events go, but of every identity the last one recorded stays.
Pruned(L, cutoff) == {e \in L : e.ts >= cutoff \/ IsLast(e, L)}

\* ORDER BY timestamp DESC, id DESC LIMIT 1
IsNewest(e, L) == \A f \in Of(e.x, L) : f.ts < e.ts \/ (f.ts = e.ts /\ f.n <= e.n)

\* get_currently_active(): the identities whose newest event is a raise.
Active(L) == {x \in Ids : \E e \in Of(x, L) : e.raised /\ IsNewest(e, L)}
-----------------------------------------------------------------------------
Init == log = {}

\* New events are recorded, after all those of their identity, and once.
Record ==
  /\ log \subseteq log'
  /\ \A e \in log' \ log :
       /\ e \in Event
       /\ ~Known(e.x, e.ts, e.raised, log' \ {e})
       /\ \A f \in Of(e.x, log' \ {e}) : f.n # e.n
       /\ \A f \in Of(e.x, log) : f.n < e.n

\* Old events are forgotten: each is older than every event kept, except for
\* the events recorded last, which are all kept.
Prune ==
  /\ log' \subseteq log
  /\ \A e \in log : IsLast(e, log) => e \in log'
  /\ \A e \in log \ log', f \in log' : IsLast(f, log) \/ e.ts < f.ts

Spec == Init /\ [][Record \/ Prune]_log
=============================================================================
