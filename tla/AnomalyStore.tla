---------------------------- MODULE AnomalyStore ----------------------------
(***************************************************************************)
(* AnomalyStore (src/primitives/anomaly_store.py): the two tables of the   *)
(* event log, and the tasks of one process that write to them.             *)
(*                                                                         *)
(* Every write is two calls that commit on their own: upsert_anomaly finds *)
(* or makes the row of the identity and returns its id, insert_event       *)
(* writes under that id.  Nothing is awaited between them, so no other     *)
(* task runs there, but the process may end there.  A trace task keeps the *)
(* id across its request and writes under it much later, with prunes in    *)
(* between: nothing but the shape of prune() keeps that row alive.         *)
(***************************************************************************)
EXTENDS Integers, FiniteSets

CONSTANTS Ids,        \* the anomaly identities (blueprint, instance, identity JSON)
          Stamps,     \* timestamps of events
          MaxRows,    \* bound: rows ever made in anomalies
          MaxEvents   \* bound: rows ever made in events

ASSUME StoreAssumption ==
  /\ Stamps \subseteq Nat
  /\ MaxRows \in Nat
  /\ MaxEvents \in Nat

VARIABLES
  anomalies,  \* table anomalies: the rows [id, key]
  events,     \* table events: the rows [id, aid, ts, raised]
  seq,        \* sqlite_sequence: the last id given out, per table
  writing,    \* the row upsert_anomaly returned, until insert_event has used it
  held        \* the rows the running trace tasks keep

vars == <<anomalies, events, seq, writing, held>>

Row      == [id : Nat, key : Ids]
EventRow == [id : Nat, aid : Nat, ts : Stamps, raised : BOOLEAN]

Init ==
  /\ anomalies = {}
  /\ events = {}
  /\ seq = [anomalies |-> 0, events |-> 0]
  /\ writing = {}
  /\ held = {}
-----------------------------------------------------------------------------
\* Mutation: no UNIQUE constraint, so nothing conflicts and every call inserts.
UpsertInserts(k) ==
  LET new == [id |-> seq.anomalies + 1, key |-> k]
  IN  /\ writing = {}
      /\ seq.anomalies < MaxRows
      /\ anomalies' = anomalies \cup {new}
      /\ seq' = [seq EXCEPT !.anomalies = @ + 1]
      /\ writing' = {new}
      /\ UNCHANGED <<events, held>>

\* upsert_anomaly: one row per identity, made when there is none.
UpsertAnomaly(k) ==
  /\ writing = {}
  /\ IF \E a \in anomalies : a.key = k
     THEN /\ writing' = {a \in anomalies : a.key = k}
          /\ UNCHANGED <<anomalies, seq>>
     ELSE LET new == [id |-> seq.anomalies + 1, key |-> k]
          IN  /\ seq.anomalies < MaxRows
              /\ anomalies' = anomalies \cup {new}
              /\ seq' = [seq EXCEPT !.anomalies = @ + 1]
              /\ writing' = {new}
  /\ UNCHANGED <<events, held>>

\* Mutation: the event is written without looking for an earlier one.
InsertAlways(aid, ts, raised) ==
  /\ seq.events < MaxEvents
  /\ seq' = [seq EXCEPT !.events = @ + 1]
  /\ events' = events \cup
       {[id |-> seq.events + 1, aid |-> aid, ts |-> ts, raised |-> raised]}

\* insert_event: written under the given id unless it is there already.
InsertEvent(aid, ts, raised) ==
  IF \E e \in events : e.aid = aid /\ e.ts = ts /\ e.raised = raised
  THEN UNCHANGED <<events, seq>>
  ELSE /\ seq.events < MaxEvents
       /\ seq' = [seq EXCEPT !.events = @ + 1]
       /\ events' = events \cup
            {[id |-> seq.events + 1, aid |-> aid, ts |-> ts, raised |-> raised]}

\* The second half of a write.  A raise found by a poll starts a trace task,
\* which is given the row.
InsertWriting(ts, raised, traced) ==
  /\ \E a \in writing : InsertEvent(a.id, ts, raised)
  /\ writing' = {}
  /\ held' = IF traced THEN held \cup writing ELSE held
  /\ UNCHANGED anomalies

\* Mutation: an event of unknown time ("1970...") is not skipped.
InsertUndated(a, ts, raised) ==
  /\ writing = {}
  /\ InsertEvent(a.id, 0, raised)
  /\ UNCHANGED <<anomalies, writing, held>>

\* _trace_new_identity: an event of the reply, under the row that was given.
InsertHeld(a, ts, raised) ==
  /\ writing = {}
  /\ InsertEvent(a.id, ts, raised)
  /\ UNCHANGED <<anomalies, writing, held>>

TraceEnds(a) ==
  /\ writing = {}
  /\ held' = held \ {a}
  /\ UNCHANGED <<anomalies, events, seq, writing>>

\* id NOT IN (SELECT MAX(id) FROM events GROUP BY anomaly_id)
IsMaxId(e) == \A f \in events : f.aid = e.aid => f.id <= e.id

\* Mutation: the cutoff alone decides.
KeptByAgeOnly(e, cutoff) == e.ts >= cutoff

Kept(e, cutoff) == e.ts >= cutoff \/ IsMaxId(e)

\* prune: old events, then the rows that no event refers to any more.
Prune(cutoff) ==
  /\ writing = {}
  /\ events' = {e \in events : Kept(e, cutoff)}
  /\ anomalies' = {a \in anomalies : \E e \in events' : e.aid = a.id}
  /\ UNCHANGED <<seq, writing, held>>

\* The process ends, between any two commits; the tables and the sequence
\* stay, the tasks are gone.
Crash ==
  /\ writing' = {}
  /\ held' = {}
  /\ UNCHANGED <<anomalies, events, seq>>
-----------------------------------------------------------------------------
Next ==
  \/ \E k \in Ids : UpsertAnomaly(k)
  \/ \E ts \in Stamps, raised, traced \in BOOLEAN :
       (traced => raised) /\ InsertWriting(ts, raised, traced)
  \/ \E a \in held, ts \in Stamps, raised \in BOOLEAN : InsertHeld(a, ts, raised)
  \/ \E a \in held : TraceEnds(a)
  \/ \E cutoff \in Stamps : Prune(cutoff)
  \/ Crash

Spec == Init /\ [][Next]_vars
-----------------------------------------------------------------------------
TypeOK ==
  /\ anomalies \subseteq Row
  /\ events \subseteq EventRow
  /\ seq \in [anomalies : Nat, events : Nat]
  /\ writing \subseteq Row
  /\ held \subseteq Row

\* A row id that a task kept across an await still denotes the identity it
\* was taken for, through every prune: what a late trace writes is neither
\* refused by the foreign key nor logged under another identity.
HeldRowsStay == writing \cup held \subseteq anomalies

\* Every event belongs to exactly one identity, and every identity has one
\* row: no crash and no prune leaves an event without its anomaly.
OneIdentityPerEvent ==
  /\ \A e \in events : \E a \in anomalies : a.id = e.aid
  /\ \A a, b \in anomalies : a.id = b.id \/ a.key = b.key => a = b

\* The log of an identity is read by joining the two tables.
KeyOf(e) == (CHOOSE a \in anomalies : a.id = e.aid).key

LogOf == {[n |-> e.id, x |-> KeyOf(e), ts |-> e.ts, raised |-> e.raised] : e \in events}

\* The tables implement the event log: nothing is recorded twice, out of
\* order, or under a row another identity will be given, and a prune keeps
\* the last event of every identity.
Log == INSTANCE AnomalyLog WITH log <- LogOf
LogSpec == Log!Spec
=============================================================================
