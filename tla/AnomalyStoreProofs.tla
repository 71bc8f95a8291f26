------------------------- MODULE AnomalyStoreProofs -------------------------
(***************************************************************************)
(* Theorems about AnomalyStore and EventQueries for any identities,        *)
(* timestamps and bounds: rows held across an await stay, every event      *)
(* keeps its identity, the two tables implement AnomalyLog, a client       *)
(* that turns pages misses nothing, and the queries agree; and about       *)
(* FaultClusters, the analysis of the raises they return.                  *)
(*                                                                         *)
(* The argument rests on how the parts of the code that are far apart fit: *)
(* ids only grow (AUTOINCREMENT), so the event recorded last under a row   *)
(* has the largest id; prune keeps the largest id of every row, so a row   *)
(* that has an event always has one; and a task is given a row only after  *)
(* an event was written under it.                                          *)
(*                                                                         *)
(* A cursor parts the events (PagesInv): what the client has is not beyond *)
(* it, what it is owed is, and new events, which have new ids, are neither *)
(* owed nor moved.                                                         *)
(***************************************************************************)
EXTENDS EventQueries, FaultClusters, FiniteSetTheorems, FunctionTheorems,
  WellFoundedInduction, TLAPS

\* Ids are unique and were given out by the sequences.
IdsInv ==
  /\ \A a \in anomalies : a.id <= seq.anomalies
  /\ \A e \in events : e.id <= seq.events
  /\ \A e, f \in events : e.id = f.id => e = f

NoDuplicates ==
  \A e, f \in events :
    e.aid = f.aid /\ e.ts = f.ts /\ e.raised = f.raised => e = f

\* Every row with events has a last one.
LastExists ==
  \A e \in events : \E f \in events : f.aid = e.aid /\ IsMaxId(f)

\* What keeps a held row alive.
HeldLogged == \A a \in held : \E e \in events : e.aid = a.id

OneWriting == \A a, b \in writing : a = b

IInv ==
  /\ TypeOK
  /\ IdsInv
  /\ NoDuplicates
  /\ LastExists
  /\ HeldLogged
  /\ OneWriting
  /\ HeldRowsStay
  /\ OneIdentityPerEvent
-----------------------------------------------------------------------------
LEMMA IInvInit == Init => IInv
  BY DEF Init, IInv, TypeOK, IdsInv, NoDuplicates, LastExists, HeldLogged,
         OneWriting, HeldRowsStay, OneIdentityPerEvent

LEMMA UpsertStep ==
  ASSUME IInv, NEW k \in Ids, UpsertAnomaly(k)
  PROVE  IInv'
<1>1. CASE \E a \in anomalies : a.key = k
  <2>1. /\ writing' = {a \in anomalies : a.key = k}
        /\ UNCHANGED <<anomalies, events, seq, held>>
    BY <1>1 DEF UpsertAnomaly
  <2>2. OneWriting' /\ HeldRowsStay' /\ TypeOK'
    BY <2>1 DEF IInv, TypeOK, OneWriting, HeldRowsStay, OneIdentityPerEvent
  <2> QED
    BY <2>1, <2>2 DEF IInv, IdsInv, NoDuplicates, LastExists, IsMaxId,
                      HeldLogged, OneIdentityPerEvent
<1>2. CASE ~ \E a \in anomalies : a.key = k
  <2> DEFINE new == [id |-> seq.anomalies + 1, key |-> k]
  <2>1. /\ anomalies' = anomalies \cup {new}
        /\ seq' = [seq EXCEPT !.anomalies = @ + 1]
        /\ writing' = {new}
        /\ UNCHANGED <<events, held>>
    BY <1>2 DEF UpsertAnomaly
  <2>2. /\ new \in Row
        /\ seq' \in [anomalies : Nat, events : Nat]
        /\ seq'.events = seq.events
        /\ seq'.anomalies = seq.anomalies + 1
    BY <2>1 DEF IInv, TypeOK, Row
  <2>3. TypeOK'
    BY <2>1, <2>2 DEF IInv, TypeOK
  <2>4. IdsInv'
    BY <2>1, <2>2 DEF IInv, TypeOK, IdsInv, Row
  <2>5. OneWriting' /\ HeldRowsStay'
    BY <2>1 DEF IInv, OneWriting, HeldRowsStay
  <2>6. OneIdentityPerEvent'
    <3>1. \A a \in anomalies : a.id # new.id /\ a.key # new.key
      BY <1>2 DEF IInv, TypeOK, IdsInv, Row
    <3> QED
      BY <2>1, <3>1 DEF IInv, OneIdentityPerEvent
  <2> QED
    BY <2>1, <2>3, <2>4, <2>5, <2>6
       DEF IInv, NoDuplicates, LastExists, IsMaxId, HeldLogged
<1> QED
  BY <1>1, <1>2

\* Writing an event under a row of the table, and what it leaves true of the
\* events whatever becomes of the tasks.
LEMMA InsertStep ==
  ASSUME IInv, NEW a \in anomalies, NEW ts \in Stamps, NEW raised \in BOOLEAN,
         InsertEvent(a.id, ts, raised), UNCHANGED anomalies
  PROVE  /\ events' \subseteq EventRow
         /\ seq' \in [anomalies : Nat, events : Nat]
         /\ IdsInv' /\ NoDuplicates' /\ LastExists' /\ OneIdentityPerEvent'
         /\ events \subseteq events'
         /\ \E e \in events' : e.aid = a.id
<1>1. CASE \E e \in events : e.aid = a.id /\ e.ts = ts /\ e.raised = raised
  BY <1>1 DEF InsertEvent, IInv, TypeOK, IdsInv, NoDuplicates, LastExists, IsMaxId,
              OneIdentityPerEvent
<1>2. CASE ~ \E e \in events : e.aid = a.id /\ e.ts = ts /\ e.raised = raised
  <2>0. PICK new : new = [id |-> seq.events + 1, aid |-> a.id, ts |-> ts, raised |-> raised]
    OBVIOUS
  <2>1. /\ events' = events \cup {new}
        /\ seq' = [seq EXCEPT !.events = @ + 1]
    BY <1>2, <2>0 DEF InsertEvent
  <2>2. /\ new \in EventRow
        /\ seq' \in [anomalies : Nat, events : Nat]
        /\ seq'.events = seq.events + 1
        /\ seq'.anomalies = seq.anomalies
    BY <2>0, <2>1 DEF IInv, TypeOK, Row, EventRow
  <2>3. \A e \in events : e.id < new.id
    BY <2>0 DEF IInv, TypeOK, IdsInv, EventRow
  <2>4. IdsInv'
    <3>1. new.id = seq'.events /\ new.id \in Nat
      BY <2>0, <2>2 DEF EventRow
    <3>2. \A e \in events' : e.id <= seq'.events
      BY <2>1, <2>2, <2>3, <3>1 DEF IInv, TypeOK, EventRow
    <3>3. \A e, f \in events' : e.id = f.id => e = f
      BY <2>1, <2>3, <3>1 DEF IInv, TypeOK, IdsInv, EventRow
    <3>4. \A b \in anomalies' : b.id <= seq'.anomalies
      BY <2>2 DEF IInv, IdsInv
    <3> QED
      BY <3>2, <3>3, <3>4 DEF IdsInv
  <2>5. NoDuplicates'
    BY <1>2, <2>0, <2>1 DEF IInv, NoDuplicates
  <2>6. LastExists'
    <3> SUFFICES ASSUME NEW e \in events'
                 PROVE  \E f \in events' : f.aid = e.aid /\ IsMaxId(f)'
      BY DEF LastExists
    <3>1. \A f \in events : f.id <= new.id
      BY <2>2, <2>3 DEF IInv, TypeOK, EventRow
    <3>2. new.id <= new.id
      BY <2>2 DEF EventRow
    <3>3. CASE e.aid = a.id
      <4>1. IsMaxId(new)'
        BY <2>0, <2>1, <3>1, <3>2 DEF IsMaxId
      <4> QED
        BY <2>0, <2>1, <3>3, <4>1
    <3>4. CASE e.aid # a.id
      <4>1. e \in events
        BY <2>0, <2>1, <3>4
      <4>2. PICK f \in events : f.aid = e.aid /\ IsMaxId(f)
        BY <4>1 DEF IInv, LastExists
      <4>3. IsMaxId(f)'
        BY <2>0, <2>1, <3>4, <4>2 DEF IsMaxId
      <4> QED
        BY <2>1, <4>2, <4>3
    <3> QED
      BY <3>3, <3>4
  <2>7. OneIdentityPerEvent'
    BY <2>0, <2>1 DEF IInv, OneIdentityPerEvent
  <2> QED
    BY <2>0, <2>1, <2>2, <2>4, <2>5, <2>6, <2>7 DEF IInv, TypeOK
<1> QED
  BY <1>1, <1>2

LEMMA PruneStep ==
  ASSUME IInv, NEW cutoff \in Stamps, Prune(cutoff)
  PROVE  IInv'
<1> USE DEF Prune
<1>1. events' \subseteq events /\ anomalies' \subseteq anomalies
  OBVIOUS
\* Prune empties no row: the last event of a row stays.
<1>2. \A e \in events : \E f \in events' : f.aid = e.aid /\ IsMaxId(f)'
  <2> TAKE e \in events
  <2>1. PICK f \in events : f.aid = e.aid /\ IsMaxId(f)
    BY DEF IInv, LastExists
  <2>2. f \in events' /\ IsMaxId(f)'
    BY <1>1, <2>1 DEF Kept, IsMaxId
  <2> QED
    BY <2>1, <2>2
<1>3. \A a \in anomalies : (\E e \in events : e.aid = a.id) => a \in anomalies'
  BY <1>2
<1>4. HeldRowsStay'
  BY <1>3 DEF IInv, HeldRowsStay, HeldLogged
<1>5. HeldLogged'
  BY <1>2 DEF IInv, HeldLogged
<1>6. OneIdentityPerEvent'
  <2>1. \A e \in events' : \E a \in anomalies' : a.id = e.aid
    BY <1>1, <1>3 DEF IInv, OneIdentityPerEvent
  <2> QED
    BY <1>1, <2>1 DEF IInv, OneIdentityPerEvent
<1>7. TypeOK' /\ IdsInv' /\ NoDuplicates' /\ OneWriting'
  BY <1>1 DEF IInv, TypeOK, IdsInv, NoDuplicates, OneWriting
<1>8. LastExists'
  BY <1>1, <1>2 DEF LastExists
<1> QED
  BY <1>4, <1>5, <1>6, <1>7, <1>8 DEF IInv

LEMMA IInvStep == IInv /\ [Next]_vars => IInv'
<1> SUFFICES ASSUME IInv, [Next]_vars PROVE IInv'
  OBVIOUS
<1>1. CASE UNCHANGED vars
  BY <1>1 DEF vars, IInv, TypeOK, IdsInv, NoDuplicates, LastExists, IsMaxId,
              HeldLogged, OneWriting, HeldRowsStay, OneIdentityPerEvent
<1>2. ASSUME NEW k \in Ids, UpsertAnomaly(k)
      PROVE  IInv'
  BY <1>2, UpsertStep
<1>3. ASSUME NEW ts \in Stamps, NEW raised \in BOOLEAN, NEW traced \in BOOLEAN,
             InsertWriting(ts, raised, traced)
      PROVE  IInv'
  <2>1. PICK a \in writing : InsertEvent(a.id, ts, raised)
    BY <1>3 DEF InsertWriting
  <2>2. /\ UNCHANGED anomalies
        /\ writing' = {}
        /\ held' \subseteq held \cup writing
        /\ a \in anomalies
    BY <1>3, <2>1 DEF InsertWriting, IInv, HeldRowsStay
  <2>3. /\ events' \subseteq EventRow
        /\ seq' \in [anomalies : Nat, events : Nat]
        /\ IdsInv' /\ NoDuplicates' /\ LastExists' /\ OneIdentityPerEvent'
        /\ events \subseteq events'
        /\ \E e \in events' : e.aid = a.id
    BY <2>1, <2>2, InsertStep
  <2>4. TypeOK' /\ OneWriting' /\ HeldRowsStay'
    BY <2>2, <2>3 DEF IInv, TypeOK, OneWriting, HeldRowsStay
  <2>5. HeldLogged'
    BY <2>1, <2>2, <2>3 DEF IInv, HeldLogged, OneWriting
  <2> QED
    BY <2>3, <2>4, <2>5 DEF IInv
<1>4. ASSUME NEW a \in held, NEW ts \in Stamps, NEW raised \in BOOLEAN,
             InsertHeld(a, ts, raised)
      PROVE  IInv'
  <2>1. InsertEvent(a.id, ts, raised) /\ UNCHANGED <<anomalies, writing, held>>
    BY <1>4 DEF InsertHeld
  <2>2. a \in anomalies
    BY DEF IInv, HeldRowsStay
  <2>3. /\ events' \subseteq EventRow
        /\ seq' \in [anomalies : Nat, events : Nat]
        /\ IdsInv' /\ NoDuplicates' /\ LastExists' /\ OneIdentityPerEvent'
        /\ events \subseteq events'
    BY <2>1, <2>2, InsertStep
  <2> QED
    BY <2>1, <2>3 DEF IInv, TypeOK, OneWriting, HeldRowsStay, HeldLogged
<1>5. ASSUME NEW a \in held, TraceEnds(a)
      PROVE  IInv'
  BY <1>5 DEF TraceEnds, IInv, TypeOK, IdsInv, NoDuplicates, LastExists, IsMaxId,
              HeldLogged, OneWriting, HeldRowsStay, OneIdentityPerEvent
<1>6. ASSUME NEW cutoff \in Stamps, Prune(cutoff)
      PROVE  IInv'
  BY <1>6, PruneStep
<1>7. ASSUME Crash
      PROVE  IInv'
  BY <1>7 DEF Crash, IInv, TypeOK, IdsInv, NoDuplicates, LastExists, IsMaxId,
              HeldLogged, OneWriting, HeldRowsStay, OneIdentityPerEvent
<1> QED
  BY <1>1, <1>2, <1>3, <1>4, <1>5, <1>6, <1>7 DEF Next

\* The invariant the other theorems follow from.
THEOREM Invariance == Spec => []IInv
  BY IInvInit, IInvStep, PTL DEF Spec

\* Rows, events and ids stay well typed.
THEOREM TypeCorrect == Spec => []TypeOK
  BY Invariance, PTL DEF IInv

\* A row id kept across an await never dangles and never changes its meaning,
\* whatever was pruned in between.
THEOREM HeldRowsLive == Spec => []HeldRowsStay
  BY Invariance, PTL DEF IInv

\* Every event belongs to exactly one identity, across crashes and prunes.
THEOREM EventsHaveOneIdentity == Spec => []OneIdentityPerEvent
  BY Invariance, PTL DEF IInv
-----------------------------------------------------------------------------
(* The refinement. *)

LEMMA KeyOfRow ==
  ASSUME OneIdentityPerEvent, NEW e \in events, NEW a \in anomalies, a.id = e.aid
  PROVE  KeyOf(e) = a.key
<1> DEFINE P(b) == b \in anomalies /\ b.id = e.aid
<1>1. P(a)
  OBVIOUS
<1>2. \A b : P(b) => b = a
  BY DEF OneIdentityPerEvent
<1>3. (CHOOSE b : P(b)) = a
  BY <1>1, <1>2
<1>4. (CHOOSE b \in anomalies : b.id = e.aid) = a
  BY <1>1, <1>2
<1> QED
  BY <1>4 DEF KeyOf

Abs(e) == [n |-> e.id, x |-> KeyOf(e), ts |-> e.ts, raised |-> e.raised]

\* Two events are of one identity just when they are under one row.
LEMMA SameKey ==
  ASSUME IInv, NEW e \in events, NEW f \in events
  PROVE  /\ KeyOf(e) = KeyOf(f) <=> e.aid = f.aid
         /\ KeyOf(e) \in Ids
<1>1. PICK a \in anomalies : a.id = e.aid
  BY DEF IInv, OneIdentityPerEvent
<1>2. PICK b \in anomalies : b.id = f.aid
  BY DEF IInv, OneIdentityPerEvent
<1>3. KeyOf(e) = a.key /\ KeyOf(f) = b.key
  BY <1>1, <1>2, KeyOfRow DEF IInv
<1>4. a.key = b.key <=> a.id = b.id
  BY DEF IInv, OneIdentityPerEvent
<1> QED
  BY <1>1, <1>2, <1>3, <1>4 DEF IInv, TypeOK, Row

\* The last event of a row is the last one of its identity.
LEMMA LastIsMax ==
  ASSUME IInv, NEW e \in events
  PROVE  Log!IsLast(Abs(e), LogOf) <=> IsMaxId(e)
<1>1. \A f \in events : KeyOf(e) = KeyOf(f) <=> e.aid = f.aid
  BY SameKey
<1>2. LogOf = {Abs(f) : f \in events}
  BY DEF LogOf, Abs
<1>3. Log!IsLast(Abs(e), LogOf) <=> \A g \in LogOf : g.x = KeyOf(e) => g.n <= e.id
  BY DEF Log!IsLast, Log!Of, Abs
<1>4. @ <=> \A f \in events : KeyOf(f) = KeyOf(e) => f.id <= e.id
  <2>1. \A f \in events : Abs(f).x = KeyOf(f) /\ Abs(f).n = f.id
    BY DEF Abs
  <2>2. \A g \in LogOf : \E f \in events : g = Abs(f)
    BY <1>2
  <2>3. \A f \in events : Abs(f) \in LogOf
    BY <1>2
  <2> HIDE DEF Abs
  <2> QED
    BY <2>1, <2>2, <2>3
<1> QED
  BY <1>1, <1>3, <1>4 DEF IsMaxId

\* The rows of surviving events do not change, so neither do their identities.
LEMMA KeyStable ==
  ASSUME IInv, IInv', NEW e \in events, e \in events',
         anomalies \subseteq anomalies' \/ anomalies' \subseteq anomalies
  PROVE  Abs(e)' = Abs(e)
<1>1. PICK a \in anomalies : a.id = e.aid
  BY DEF IInv, OneIdentityPerEvent
<1>2. PICK b \in anomalies' : b.id = e.aid
  BY DEF IInv, OneIdentityPerEvent
<1>3. a = b
  BY <1>1, <1>2 DEF IInv, OneIdentityPerEvent
<1>4. KeyOf(e) = a.key
  BY <1>1, KeyOfRow DEF IInv
<1>5. OneIdentityPerEvent' => \A c \in anomalies' : c.id = e.aid => c = b
  BY <1>2 DEF OneIdentityPerEvent
<1>6. (CHOOSE c \in anomalies' : c.id = e.aid) = b
  BY <1>2, <1>5 DEF IInv
<1>7. KeyOf(e)' = b.key
  BY <1>6 DEF KeyOf
<1> QED
  BY <1>3, <1>4, <1>7 DEF Abs

\* Inserting an event is a step that records it.
LEMMA InsertRecords ==
  ASSUME IInv, IInv', NEW a \in anomalies, NEW ts \in Stamps, NEW raised \in BOOLEAN,
         InsertEvent(a.id, ts, raised), UNCHANGED anomalies
  PROVE  Log!Record \/ UNCHANGED LogOf
<1>1. CASE \E e \in events : e.aid = a.id /\ e.ts = ts /\ e.raised = raised
  BY <1>1 DEF InsertEvent, LogOf, KeyOf
<1>2. CASE ~ \E e \in events : e.aid = a.id /\ e.ts = ts /\ e.raised = raised
  <2>0. PICK new, made :
          /\ new = [id |-> seq.events + 1, aid |-> a.id, ts |-> ts, raised |-> raised]
          /\ made = [n |-> seq.events + 1, x |-> a.key, ts |-> ts, raised |-> raised]
    OBVIOUS
  <2>1. events' = events \cup {new}
    BY <1>2, <2>0 DEF InsertEvent
  <2>2. \A e \in events : Abs(e)' = Abs(e)
    BY <2>1, KeyStable
  <2>3. Abs(new)' = made
    <3>1. OneIdentityPerEvent' /\ a \in anomalies' /\ new \in events' /\ a.id = new.aid
      BY <2>0, <2>1 DEF IInv
    <3>2. \A b \in anomalies' : b.id = new.aid => b = a
      BY <2>0, <3>1 DEF OneIdentityPerEvent
    <3>3. (CHOOSE b \in anomalies' : b.id = new.aid) = a
      BY <3>1, <3>2
    <3> QED
      BY <2>0, <3>3 DEF Abs, KeyOf
  <2>4. LogOf = {Abs(e) : e \in events} /\ LogOf' = {Abs(e)' : e \in events'}
    BY DEF LogOf, Abs
  <2>5. LogOf' = LogOf \cup {made}
    <3>1. LogOf' = {Abs(e)' : e \in events} \cup {Abs(new)'}
      BY <2>1, <2>4
    <3>2. {Abs(e)' : e \in events} = {Abs(e) : e \in events}
      BY <2>2
    <3> QED
      BY <2>3, <2>4, <3>1, <3>2
  <2>6. \A e \in events : e.id < made.n
    BY <2>0 DEF IInv, TypeOK, IdsInv, EventRow
  <2>7. \A f \in LogOf : f.n < made.n
    BY <2>4, <2>6 DEF Abs
  <2>8. made \in Log!Event
    BY <2>0, StoreAssumption DEF IInv, TypeOK, Row, Log!Event
  <2>9. \A e \in events : KeyOf(e) = a.key <=> e.aid = a.id
    <3> TAKE e \in events
    <3>1. PICK b \in anomalies : b.id = e.aid
      BY DEF IInv, OneIdentityPerEvent
    <3> QED
      BY <3>1, KeyOfRow DEF IInv, OneIdentityPerEvent
  <2>10. ~Log!Known(made.x, made.ts, made.raised, LogOf)
    BY <1>2, <2>0, <2>4, <2>9 DEF Log!Known, Abs
  <2>11. LogOf' \ LogOf \subseteq {made} /\ LogOf' \ {made} \subseteq LogOf
    BY <2>5
  <2>12. \A f \in LogOf : f.n # made.n /\ f.n < made.n
    <3>1. made.n \in Nat
      BY <2>0 DEF IInv, TypeOK
    <3>2. \A f \in LogOf : f.n \in Nat
      BY <2>4 DEF Abs, IInv, TypeOK, EventRow
    <3> QED
      BY <3>1, <3>2, <2>7
  <2>13. Log!Record
    <3> SUFFICES ASSUME NEW e \in LogOf' \ LogOf
                 PROVE  /\ e \in Log!Event
                        /\ ~Log!Known(e.x, e.ts, e.raised, LogOf' \ {e})
                        /\ \A f \in Log!Of(e.x, LogOf' \ {e}) : f.n # e.n
                        /\ \A f \in Log!Of(e.x, LogOf) : f.n < e.n
      BY <2>5 DEF Log!Record
    <3>1. e = made
      BY <2>11
    <3> QED
      BY <3>1, <2>8, <2>10, <2>11, <2>12 DEF Log!Known, Log!Of
  <2> QED
    BY <2>13
<1> QED
  BY <1>1, <1>2

LEMMA PrunePrunes ==
  ASSUME IInv, IInv', NEW cutoff \in Stamps, Prune(cutoff)
  PROVE  Log!Prune
<1>1. events' = {e \in events : Kept(e, cutoff)} /\ anomalies' \subseteq anomalies
  BY DEF Prune
<1>2. \A e \in events' : e \in events /\ Abs(e)' = Abs(e)
  BY <1>1, KeyStable
<1>3. LogOf = {Abs(e) : e \in events} /\ LogOf' = {Abs(e)' : e \in events'}
  BY DEF LogOf, Abs
<1>4. LogOf' = {Abs(e) : e \in events'}
  BY <1>2, <1>3
<1>5. LogOf' \subseteq LogOf
  BY <1>2, <1>3, <1>4
<1>6. ASSUME NEW g \in LogOf, Log!IsLast(g, LogOf)
      PROVE  g \in LogOf'
  <2>1. PICK e \in events : g = Abs(e)
    BY <1>3
  <2>2. IsMaxId(e)
    BY <1>6, <2>1, LastIsMax
  <2> QED
    BY <1>1, <1>4, <2>1, <2>2 DEF Kept
<1>7. ASSUME NEW g \in LogOf \ LogOf', NEW h \in LogOf'
      PROVE  Log!IsLast(h, LogOf) \/ g.ts < h.ts
  <2>1. PICK e \in events : g = Abs(e)
    BY <1>3
  <2>2. PICK f \in events' : h = Abs(f)
    BY <1>4
  <2>3. ~Kept(e, cutoff) /\ f \in events /\ Kept(f, cutoff)
    BY <1>1, <1>4, <2>1, <2>2, <1>7
  <2>4. e.ts \in Int /\ f.ts \in Int /\ cutoff \in Int
    <3>1. \A d \in events : d.ts \in Stamps
      BY DEF IInv, TypeOK, EventRow
    <3>2. \A n \in Stamps : n \in Int
      BY StoreAssumption
    <3> QED
      BY <2>3, <3>1, <3>2
  <2>5. CASE IsMaxId(f)
    BY <2>2, <2>3, <2>5, LastIsMax
  <2>6. CASE f.ts >= cutoff
    BY <2>1, <2>2, <2>3, <2>4, <2>6 DEF Kept, Abs
  <2> QED
    BY <2>3, <2>5, <2>6 DEF Kept
<1> QED
  BY <1>5, <1>6, <1>7 DEF Log!Prune

LEMMA StepLog == IInv /\ IInv' /\ [Next]_vars => [Log!Record \/ Log!Prune]_LogOf
<1> SUFFICES ASSUME IInv, IInv', [Next]_vars PROVE [Log!Record \/ Log!Prune]_LogOf
  OBVIOUS
<1>1. CASE UNCHANGED vars
  BY <1>1 DEF vars, LogOf, KeyOf
<1>2. ASSUME NEW k \in Ids, UpsertAnomaly(k)
      PROVE  UNCHANGED LogOf
  <2>1. events' = events /\ anomalies \subseteq anomalies'
    BY <1>2 DEF UpsertAnomaly
  <2>2. \A e \in events : Abs(e)' = Abs(e)
    BY <2>1, KeyStable
  <2>3. LogOf = {Abs(e) : e \in events} /\ LogOf' = {Abs(e)' : e \in events'}
    BY DEF LogOf, Abs
  <2> QED
    BY <2>1, <2>2, <2>3
<1>3. ASSUME NEW ts \in Stamps, NEW raised \in BOOLEAN, NEW traced \in BOOLEAN,
             InsertWriting(ts, raised, traced)
      PROVE  Log!Record \/ UNCHANGED LogOf
  <2>1. PICK a \in writing : InsertEvent(a.id, ts, raised)
    BY <1>3 DEF InsertWriting
  <2>2. UNCHANGED anomalies /\ a \in anomalies
    BY <1>3, <2>1 DEF InsertWriting, IInv, HeldRowsStay
  <2> QED
    BY <2>1, <2>2, InsertRecords
<1>4. ASSUME NEW a \in held, NEW ts \in Stamps, NEW raised \in BOOLEAN,
             InsertHeld(a, ts, raised)
      PROVE  Log!Record \/ UNCHANGED LogOf
  <2>1. InsertEvent(a.id, ts, raised) /\ UNCHANGED anomalies /\ a \in anomalies
    BY <1>4 DEF InsertHeld, IInv, HeldRowsStay
  <2> QED
    BY <2>1, InsertRecords
<1>5. ASSUME NEW a \in held, TraceEnds(a)
      PROVE  UNCHANGED LogOf
  BY <1>5 DEF TraceEnds, LogOf, KeyOf
<1>6. ASSUME NEW cutoff \in Stamps, Prune(cutoff)
      PROVE  Log!Prune
  BY <1>6, PrunePrunes
<1>7. ASSUME Crash
      PROVE  UNCHANGED LogOf
  BY <1>7 DEF Crash, LogOf, KeyOf
<1> QED
  BY <1>1, <1>2, <1>3, <1>4, <1>5, <1>6, <1>7 DEF Next

\* The two tables implement the event log: recorded once, in order, and the
\* last event of an identity outlives every prune.
THEOREM ImplementsLog == Spec => LogSpec
<1>1. Init => Log!Init
  BY DEF Init, Log!Init, LogOf
<1> QED
  BY <1>1, StepLog, Invariance, PTL DEF Spec, LogSpec, Log!Spec
-----------------------------------------------------------------------------
(* The pages. *)

\* The requests of a client, and what it has.
Walks == [keys : SUBSET Ids, raised : BOOLEAN, slides : BOOLEAN, limit : Limits,
          since : Stamps, until : Stamps, cursor : EventRow \cup {NoWalk}, more : BOOLEAN,
          got : SUBSET EventRow, twice : BOOLEAN, owed : SUBSET EventRow]

\* What a client that asks for another page has is not beyond its cursor, and
\* what it is owed is, and is in the window unless that has slid past it.
Owes(w) ==
  \A e \in w.owed \cap events :
    /\ Beyond(w.cursor, e) /\ KeyOf(e) \in w.keys
    /\ e.ts <= w.until /\ (w.raised => e.raised)
Has(w) ==
  /\ w.cursor = NoWalk => w.got = {}
  /\ \A e \in w.got : ~ Newer(w.cursor, e)
PagesInv ==
  /\ IsFiniteSet(events)
  /\ walk # NoWalk =>
       /\ walk \in Walks
       /\ ~ walk.twice
       /\ \A e \in walk.owed : e.id <= seq.events
       /\ walk.more => Owes(walk) /\ Has(walk)
       /\ ~ walk.more => \A e \in walk.owed : e.ts < walk.since

\* The numbers of the rows and their stamps.
LEMMA RowNumbers ==
  ASSUME NEW e \in EventRow
  PROVE  e.ts \in Nat /\ e.id \in Nat /\ e.ts \in Stamps
  BY StoreAssumption DEF EventRow

LEMMA NewerOrders ==
  ASSUME NEW e \in EventRow, NEW f \in EventRow, NEW g \in EventRow
  PROVE  /\ ~ Newer(e, e)
         /\ Newer(e, f) /\ Newer(f, g) => Newer(e, g)
         /\ ~ Newer(e, f) /\ ~ Newer(f, e) => e.id = f.id
         /\ ~ Newer(e, f) /\ Newer(e, g) => Newer(f, g)
  BY RowNumbers DEF Newer

\* A page holds at least one row.
LEMMA PageHolds ==
  ASSUME NEW limit \in Int
  PROVE  PageLimit(limit) \in Nat /\ PageLimit(limit) >= 1
<1> DEFINE Least(z) == \A y \in {limit, MaxPage} : z <= y
           m == Min({limit, MaxPage})
           Greatest(z) == \A y \in {1, m} : z >= y
<1>1. m \in Int
  <2>1. \E z \in {limit, MaxPage} : Least(z)
    BY QueryAssumption
  <2>2. m = CHOOSE z \in {limit, MaxPage} : Least(z)
    BY DEF Min
  <2>3. m \in {limit, MaxPage}
    <3> HIDE DEF Least, m
    <3> QED
      BY <2>1, <2>2
  <2> QED
    BY <2>3, QueryAssumption
<1>2. PageLimit(limit) \in {1, m} /\ Greatest(PageLimit(limit))
  <2>0. \E z \in {1, m} : Greatest(z)
    <3> HIDE DEF m
    <3> QED
      BY <1>1
  <2>2. PageLimit(limit) = CHOOSE z \in {1, m} : Greatest(z)
    BY DEF PageLimit, Max
  <2> HIDE DEF Greatest, m
  <2> QED
    BY <2>0, <2>2
<1> HIDE DEF m
<1> QED
  BY <1>1, <1>2

\* The position of a row: how many are newer.
Position(e, rows) == Cardinality({f \in rows : Newer(f, e)})

LEMMA Positions ==
  ASSUME NEW rows \in SUBSET EventRow, IsFiniteSet(rows), NEW e \in rows, NEW f \in rows
  PROVE  /\ Position(e, rows) \in Nat
         /\ Newer(e, f) => Position(e, rows) < Position(f, rows)
         /\ ~ Newer(f, e) => Position(e, rows) <= Position(f, rows)
<1> DEFINE Above(g) == {h \in rows : Newer(h, g)}
<1>1. IsFiniteSet(Above(e)) /\ IsFiniteSet(Above(f))
  BY FS_Subset
<1>2. Cardinality(Above(e)) \in Nat /\ Cardinality(Above(f)) \in Nat
  BY <1>1, FS_CardinalityType
<1>3. ASSUME ~ Newer(f, e) PROVE Above(e) \subseteq Above(f)
  <2> SUFFICES ASSUME NEW h \in rows, Newer(h, e) PROVE Newer(h, f)
    OBVIOUS
  <2>1. e \in EventRow /\ f \in EventRow /\ h \in EventRow
    OBVIOUS
  <2>2. e.ts \in Nat /\ e.id \in Nat /\ f.ts \in Nat /\ f.id \in Nat /\ h.ts \in Nat /\ h.id \in Nat
    BY <2>1, RowNumbers
  <2> QED
    BY <2>2, <1>3 DEF Newer
<1>4. ASSUME ~ Newer(f, e) PROVE Cardinality(Above(e)) <= Cardinality(Above(f))
  BY <1>1, <1>3, <1>4, FS_Subset
<1>5. ASSUME Newer(e, f) PROVE Cardinality(Above(e)) < Cardinality(Above(f))
  <2>1. ~ Newer(f, e) /\ ~ Newer(e, e)
    BY <1>5, NewerOrders
  <2>2. e \in Above(f) /\ e \notin Above(e)
    BY <1>5, <2>1
  <2>3. Above(e) # Above(f) /\ Above(e) \subseteq Above(f)
    BY <2>1, <2>2, <1>3
  <2>4. Cardinality(Above(e)) # Cardinality(Above(f))
    BY <1>1, <2>3, FS_Subset
  <2> QED
    BY <1>2, <1>4, <2>1, <2>4
<1> QED
  BY <1>2, <1>4, <1>5 DEF Position

\* A set of natural numbers has a least element.
LEMMA LeastExists ==
  ASSUME NEW S \in SUBSET Nat, S # {}
  PROVE  \E k \in S : \A j \in S : k <= j
<1>1. PICK k \in S : \A j \in S : ~ (<<j, k>> \in OpToRel(<, Nat))
  BY NatLessThanWellFounded, WFMin
<1>2. OpToRel(<, Nat) = {p \in Nat \X Nat : p[1] < p[2]}
  BY Zenon DEF OpToRel
<1>3. ASSUME NEW j \in S PROVE k <= j
  <2>1. j \in Nat /\ k \in Nat /\ <<j, k>> \in Nat \X Nat
    OBVIOUS
  <2>2. ~ (j < k)
    BY <1>1, <1>2, <2>1
  <2> QED
    BY <2>1, <2>2
<1> QED
  BY <1>3

\* A set of rows has a newest one.
LEMMA NewestExists ==
  ASSUME NEW rows \in SUBSET EventRow, IsFiniteSet(rows), rows # {},
         \A e, f \in rows : e.id = f.id => e = f
  PROVE  \E e \in rows : \A f \in rows \ {e} : Newer(e, f)
<1> DEFINE P == {Position(e, rows) : e \in rows}
<1>1. P \in SUBSET Nat /\ P # {}
  BY Positions
<1>2. PICK k \in P : \A j \in P : k <= j
  <2> HIDE DEF P
  <2> QED
    BY <1>1, LeastExists
<1>3. PICK e \in rows : k = Position(e, rows)
  BY <1>2
<1>4. ASSUME NEW f \in rows \ {e} PROVE Newer(e, f)
  <2>1. f \in rows /\ e.id # f.id
    OBVIOUS
  <2>2. ~ Newer(f, e)
    <3>1. Position(f, rows) \in P
      BY <2>1
    <3>2. Position(e, rows) <= Position(f, rows)
      BY <1>2, <1>3, <3>1
    <3>3. Position(e, rows) \in Nat /\ Position(f, rows) \in Nat
      BY <2>1, Positions
    <3>4. ~ (Position(f, rows) < Position(e, rows))
      BY <3>2, <3>3
    <3> QED
      BY <2>1, <3>4, Positions
  <2> QED
    BY <2>1, <2>2, NewerOrders
<1> QED
  BY <1>4

\* A page is rows of which each is newer than all that are left, and there is
\* a page as long as there are rows; its oldest row is one of it.
LEMMA PageOfRows ==
  ASSUME NEW rows \in SUBSET EventRow, IsFiniteSet(rows), NEW n \in Nat, n >= 1,
         \A e, f \in rows : e.id = f.id => e = f,
         NEW page, page = Newest(n, rows)
  PROVE  /\ page \subseteq rows
         /\ \A e \in page, f \in rows \ page : Newer(e, f)
         /\ page # rows =>
              /\ Oldest(page) \in page
              /\ \A e \in page : ~ Newer(Oldest(page), e)
<1>1. page = {e \in rows : Position(e, rows) < n}
  BY DEF Newest, Position
<1>2. ASSUME NEW e \in page, NEW f \in rows \ page PROVE Newer(e, f)
  <2>1. Position(e, rows) < n /\ ~ (Position(f, rows) < n)
    BY <1>1
  <2>2. Position(e, rows) \in Nat /\ Position(f, rows) \in Nat
    BY <1>1, Positions
  <2>3. ~ Newer(e, f) => Position(f, rows) <= Position(e, rows)
    BY <1>1, Positions
  <2> QED
    BY <2>1, <2>2, <2>3
<1>3. ASSUME page # rows PROVE page # {}
  <2>1. PICK e \in rows : \A f \in rows \ {e} : Newer(e, f)
    BY <1>1, <1>3, NewestExists
  <2>2. {f \in rows : Newer(f, e)} = {}
    <3> SUFFICES ASSUME NEW f \in rows, Newer(f, e) PROVE FALSE
      OBVIOUS
    <3>1. f # e => Newer(e, f)
      BY <2>1
    <3>2. ~ Newer(e, e) /\ ~ (Newer(e, f) /\ Newer(f, e))
      BY NewerOrders
    <3> QED
      BY <3>1, <3>2
  <2>3. Position(e, rows) = 0
    BY <2>2, FS_EmptySet DEF Position
  <2>4. e \in page
    BY <1>1, <2>3
  <2> QED
    BY <2>4
<1>4. ASSUME page # rows PROVE \E e \in page : \A f \in page \ {e} : Newer(f, e)
  <2> DEFINE Left == {k \in Nat : \E e \in page : Position(e, rows) + k = n}
  <2>1. Left \in SUBSET Nat /\ Left # {}
    <3>1. PICK e \in page : TRUE
      BY <1>3, <1>4
    <3>2. Position(e, rows) \in Nat /\ Position(e, rows) < n
      BY <1>1, Positions
    <3>3. n - Position(e, rows) \in Nat /\ Position(e, rows) + (n - Position(e, rows)) = n
      BY <3>2
    <3>4. n - Position(e, rows) \in Left
      BY <3>3
    <3> QED
      BY <3>4
  <2>2. PICK k \in Left : \A j \in Left : k <= j
    <3> HIDE DEF Left
    <3> QED
      BY <2>1, LeastExists
  <2>3. PICK e \in page : Position(e, rows) + k = n
    BY <2>2
  <2>4. ASSUME NEW f \in page \ {e} PROVE Newer(f, e)
    <3>1. e \in rows /\ f \in rows
      BY <1>1
    <3>2. Position(e, rows) \in Nat /\ Position(f, rows) \in Nat /\ Position(f, rows) < n
      BY <1>1, <3>1, Positions
    <3>3. n - Position(f, rows) \in Nat /\ Position(f, rows) + (n - Position(f, rows)) = n
      BY <3>2
    <3>4. n - Position(f, rows) \in Left
      BY <3>3
    <3>5. k <= n - Position(f, rows)
      BY <2>2, <3>4
    <3>6. k \in Nat
      BY <2>2
    <3>7. ~ (Position(e, rows) < Position(f, rows))
      BY <2>3, <3>2, <3>5, <3>6
    <3>8. ~ Newer(e, f)
      BY <3>1, <3>7, Positions
    <3>9. e.id # f.id
      BY <3>1
    <3> QED
      BY <3>1, <3>8, <3>9, NewerOrders
  <2> QED
    BY <2>4
<1>5. ASSUME page # rows
      PROVE  Oldest(page) \in page /\ \A f \in page \ {Oldest(page)} : Newer(f, Oldest(page))
  <2> DEFINE Ends(e) == \A f \in page \ {e} : Newer(f, e)
  <2>1. \E e \in page : Ends(e)
    BY <1>4, <1>5
  <2>2. Oldest(page) = CHOOSE e \in page : Ends(e)
    BY DEF Oldest
  <2>3. Oldest(page) \in page /\ Ends(Oldest(page))
    <3> HIDE DEF Ends
    <3> QED
      BY <2>1, <2>2
  <2> QED
    BY <2>3
<1>6. ASSUME page # rows, NEW e \in page PROVE ~ Newer(Oldest(page), e)
  <2>1. Oldest(page) \in EventRow /\ e \in EventRow
    BY <1>1, <1>5, <1>6
  <2>2. CASE e = Oldest(page)
    BY <2>1, <2>2, NewerOrders
  <2>3. CASE e # Oldest(page)
    <3>1. Newer(e, Oldest(page))
      BY <1>5, <1>6, <2>3
    <3> QED
      BY <2>1, <3>1, NewerOrders
  <2> QED
    BY <2>2, <2>3
<1> QED
  BY <1>1, <1>2, <1>5, <1>6

\* What a page leaves of a request whose windows may have moved on.
LEMMA TurnStep ==
  ASSUME IInv, IsFiniteSet(events), NEW w \in Walks, NEW since \in Stamps, NEW until \in Stamps,
         w.until <= until, ~ w.twice, \A e \in w.owed : e.id <= seq.events,
         Owes(w), Has(w), Turn(w, since, until), UNCHANGED vars
  PROVE  PagesInv'
<1> DEFINE rows == {e \in Matching(w.keys, since, until, w.raised) : Beyond(w.cursor, e)}
           page == Newest(PageLimit(w.limit), rows)
           next == IF page # rows THEN Oldest(page) ELSE NoWalk
           owed == (w.owed \cap events) \ page
<1>1. walk' = [w EXCEPT !.since = since, !.until = until, !.cursor = next, !.more = (page # rows),
                        !.got = @ \cup page, !.twice = @ \/ page \cap w.got # {}, !.owed = owed]
  BY DEF Turn, EventsPage
<1>2. rows \subseteq events /\ events \subseteq EventRow /\ IsFiniteSet(rows)
  <2>1. rows \subseteq events
    BY DEF Matching
  <2> QED
    BY <2>1, FS_Subset DEF IInv, TypeOK
<1>3. PageLimit(w.limit) \in Nat /\ PageLimit(w.limit) >= 1
  <2>1. w.limit \in Int
    BY QueryAssumption DEF Walks
  <2> QED
    BY <2>1, PageHolds
<1>4. /\ page \subseteq rows
      /\ \A e \in page, f \in rows \ page : Newer(e, f)
      /\ page # rows =>
           /\ Oldest(page) \in page
           /\ \A e \in page : ~ Newer(Oldest(page), e)
  <2>1. \A e, f \in rows : e.id = f.id => e = f
    BY <1>2 DEF IInv, IdsInv
  <2> HIDE DEF rows
  <2> QED
    BY <1>2, <1>3, <2>1, PageOfRows
<1>5. page \cap w.got = {}
  <2> SUFFICES ASSUME NEW e \in page, e \in w.got PROVE FALSE
    OBVIOUS
  <2>1. Beyond(w.cursor, e)
    BY <1>4
  <2> QED
    BY <2>1 DEF Has, Beyond
<1> HIDE DEF rows, page
<1>6. /\ walk'.since = since /\ walk'.until = until /\ walk'.cursor = next /\ walk'.more = (page # rows)
      /\ walk'.got = w.got \cup page /\ walk'.owed = owed
      /\ walk'.keys = w.keys /\ walk'.raised = w.raised
  BY <1>1 DEF Walks
<1>7. ~ walk'.twice
  BY <1>1, <1>5 DEF Walks
<1>8. walk' \in Walks
  <2>1. next \in EventRow \cup {NoWalk}
    BY <1>2, <1>4
  <2>2. w.got \cup page \in SUBSET EventRow /\ owed \in SUBSET EventRow
    BY <1>2, <1>4 DEF Walks
  <2>3. (w.twice \/ page \cap w.got # {}) \in BOOLEAN /\ (page # rows) \in BOOLEAN
    OBVIOUS
  <2> HIDE DEF next, owed
  <2> QED
    BY <1>1, <2>1, <2>2, <2>3, ZenonT(20) DEF Walks
<1>9. ASSUME NEW e \in owed
      PROVE  /\ e \in events /\ e \in EventRow /\ KeyOf(e) \in w.keys
             /\ e.ts \in Nat /\ since \in Nat /\ e.ts <= until /\ (w.raised => e.raised)
             /\ e.ts < since \/ e \in rows \ page
  <2>1. e \in events /\ e \in EventRow /\ e \notin page
    BY <1>2
  <2>2. Beyond(w.cursor, e) /\ KeyOf(e) \in w.keys /\ e.ts <= w.until /\ (w.raised => e.raised)
    BY <2>1 DEF Owes
  <2>3. e.ts \in Nat /\ since \in Nat /\ until \in Nat /\ w.until \in Nat
    BY <2>1, RowNumbers, StoreAssumption DEF Walks
  <2>4. e.ts <= until
    BY <2>2, <2>3
  <2>5. e.ts < since \/ e \in rows
    BY <2>1, <2>2, <2>3, <2>4 DEF rows, Matching
  <2> QED
    BY <2>1, <2>2, <2>3, <2>4, <2>5
<1>10. UNCHANGED <<events, anomalies, seq>>
  BY DEF vars
<1>11. ASSUME walk'.more PROVE Owes(walk') /\ Has(walk')
  <2>1. page # rows /\ next = Oldest(page) /\ next \in page /\ next \in EventRow /\ next # NoWalk
    BY <1>2, <1>4, <1>6, <1>11, QueryAssumption
  <2>2. ASSUME NEW e \in owed PROVE Newer(next, e)
    <3>1. CASE e \in rows \ page
      BY <1>4, <2>1, <3>1
    <3>2. CASE e.ts < since
      <4>1. since <= next.ts /\ next.ts \in Nat
        BY <1>4, <2>1, RowNumbers DEF rows, Matching
      <4> QED
        BY <1>9, <2>2, <3>2, <4>1 DEF Newer
    <3> QED
      BY <1>9, <2>2, <3>1, <3>2
  <2>3. ASSUME NEW e \in w.got \cup page PROVE ~ Newer(next, e)
    <3>1. CASE e \in page
      BY <1>4, <2>1, <3>1
    <3>2. CASE e \in w.got
      <4>1. w.cursor # NoWalk /\ w.cursor \in EventRow /\ e \in EventRow
        BY <3>2 DEF Has, Walks
      <4>2. ~ Newer(w.cursor, e)
        BY <3>2 DEF Has
      <4>3. Newer(w.cursor, next)
        BY <1>4, <2>1, <4>1 DEF rows, Beyond
      <4> QED
        BY <2>1, <4>1, <4>2, <4>3, NewerOrders
    <3> QED
      BY <2>3, <3>1, <3>2
  <2> HIDE DEF next, owed
  <2>4. Owes(walk')
    BY <1>6, <1>9, <2>2 DEF Owes, Beyond
  <2>5. Has(walk')
    BY <1>6, <2>1, <2>3 DEF Has
  <2> QED
    BY <2>4, <2>5
<1>12. ASSUME ~ walk'.more PROVE \A e \in walk'.owed : e.ts < walk'.since
  <2>1. page = rows
    BY <1>6, <1>12
  <2> HIDE DEF owed
  <2> QED
    BY <1>6, <1>9, <2>1
<1>13. \A e \in walk'.owed : e.id <= seq'.events
  BY <1>6, <1>10
<1>14. Owes(walk') => Owes(walk)'
  BY <1>10 DEF Owes, KeyOf
<1>15. Has(walk') => Has(walk)'
  BY DEF Has
<1> QED
  BY <1>7, <1>8, <1>10, <1>11, <1>12, <1>13, <1>14, <1>15 DEF PagesInv

\* A step of the store leaves what a client is owed where it was, or takes it.
LEMMA PagesKept ==
  ASSUME IInv, IInv', PagesInv, [Next]_vars, UNCHANGED walk, ~ Finished
  PROVE  PagesInv'
<1>1. /\ anomalies \subseteq anomalies' \/ anomalies' \subseteq anomalies
      /\ IsFiniteSet(events)'
      /\ \A e \in events' \ events : e.id > seq.events
      /\ seq.events <= seq'.events
  <2>0. seq.events \in Nat /\ seq.events <= seq.events /\ IsFiniteSet(events)
    BY DEF IInv, TypeOK, PagesInv
  <2>1. ASSUME NEW a, NEW ts, NEW raised, InsertEvent(a.id, ts, raised)
        PROVE  /\ IsFiniteSet(events')
               /\ \A e \in events' \ events : e.id > seq.events
               /\ seq.events <= seq'.events
    <3>1. CASE UNCHANGED <<events, seq>>
      BY <2>0, <3>1
    <3>2. PICK new : new = [id |-> seq.events + 1, aid |-> a.id, ts |-> ts, raised |-> raised]
      OBVIOUS
    <3>3. CASE seq' = [seq EXCEPT !.events = @ + 1] /\ events' = events \cup {new}
      <4>1. new.id = seq.events + 1 /\ seq'.events = seq.events + 1
        BY <3>2, <3>3 DEF IInv, TypeOK
      <4>2. IsFiniteSet(events')
        BY <2>0, <3>3, FS_AddElement
      <4> QED
        BY <2>0, <3>3, <4>1, <4>2
    <3> QED
      BY <2>1, <3>1, <3>2, <3>3 DEF InsertEvent
  <2>2. CASE UNCHANGED <<events, seq>> /\ anomalies \subseteq anomalies'
    BY <2>0, <2>2
  <2>3. CASE UNCHANGED vars
    BY <2>0, <2>3 DEF vars
  <2>4. CASE \E k \in Ids : UpsertAnomaly(k)
    <3>1. events' = events /\ anomalies \subseteq anomalies'
      BY <2>4 DEF UpsertAnomaly
    <3>2. seq'.events = seq.events
      BY <2>4 DEF UpsertAnomaly, IInv, TypeOK
    <3> QED
      BY <2>0, <3>1, <3>2
  <2>5. CASE \E ts \in Stamps, raised, traced \in BOOLEAN : InsertWriting(ts, raised, traced)
    BY <2>1, <2>5 DEF InsertWriting
  <2>6. CASE \E a \in held, ts \in Stamps, raised \in BOOLEAN : InsertHeld(a, ts, raised)
    BY <2>1, <2>6 DEF InsertHeld
  <2>7. CASE \E a \in held : TraceEnds(a)
    BY <2>2, <2>7 DEF TraceEnds
  <2>8. CASE \E cutoff \in Stamps : Prune(cutoff)
    <3>1. events' \subseteq events /\ anomalies' \subseteq anomalies /\ seq' = seq
      BY <2>8 DEF Prune
    <3> QED
      BY <2>0, <3>1, FS_Subset
  <2>9. CASE Crash
    BY <2>2, <2>9 DEF Crash
  <2> QED
    BY <2>3, <2>4, <2>5, <2>6, <2>7, <2>8, <2>9 DEF Next
<1>2. CASE walk = NoWalk
  BY <1>1, <1>2 DEF PagesInv
<1>3. CASE walk # NoWalk
  <2>1. /\ walk \in Walks /\ ~ walk.twice /\ walk.more /\ Owes(walk) /\ Has(walk)
        /\ \A e \in walk.owed : e.id <= seq.events
    BY <1>3 DEF PagesInv, Finished
  <2>2. \A e \in walk.owed : e.id \in Nat /\ seq.events \in Nat /\ seq'.events \in Nat
    BY <2>1, RowNumbers DEF Walks, IInv, TypeOK
  <2>3. \A e \in walk.owed : e.id <= seq'.events
    BY <1>1, <2>1, <2>2
  <2>4. Owes(walk)'
    <3> SUFFICES ASSUME NEW e \in walk.owed, e \in events'
                 PROVE  /\ Beyond(walk.cursor, e) /\ KeyOf(e)' \in walk.keys
                        /\ e.ts <= walk.until /\ (walk.raised => e.raised)
      BY DEF Owes, Beyond, Newer
    <3>1. e \in events
      BY <1>1, <2>1, <2>2
    <3>2. Abs(e)' = Abs(e)
      BY <1>1, <3>1, KeyStable
    <3>3. KeyOf(e)' = KeyOf(e)
      BY <3>2 DEF Abs
    <3> QED
      BY <2>1, <3>1, <3>3 DEF Owes
  <2>5. Has(walk)'
    BY <2>1 DEF Has, Newer
  <2> QED
    BY <1>1, <2>1, <2>3, <2>4, <2>5 DEF PagesInv
<1> QED
  BY <1>2, <1>3

LEMMA PagesFirst ==
  ASSUME IInv, PagesInv, GetEvents
  PROVE  PagesInv'
<1>1. PICK f \in Selections, slides \in BOOLEAN, limit \in Limits, z \in Windows :
        Turn([keys |-> f.keys, raised |-> f.raised, slides |-> slides, limit |-> limit,
              since |-> z[1], until |-> z[2], cursor |-> NoWalk, more |-> TRUE, got |-> {},
              twice |-> FALSE, owed |-> Matching(f.keys, z[1], z[2], f.raised)], z[1], z[2])
  BY DEF GetEvents
<1>2. PICK w : w = [keys |-> f.keys, raised |-> f.raised, slides |-> slides, limit |-> limit,
              since |-> z[1], until |-> z[2], cursor |-> NoWalk, more |-> TRUE, got |-> {},
              twice |-> FALSE, owed |-> Matching(f.keys, z[1], z[2], f.raised)]
  OBVIOUS
<1>3. Turn(w, z[1], z[2]) /\ UNCHANGED vars
  BY <1>1, <1>2 DEF GetEvents
<1>4. f.keys \in SUBSET Ids /\ f.raised \in BOOLEAN /\ z[1] \in Stamps /\ z[2] \in Stamps
  BY QueryAssumption DEF Windows
<1>5. Matching(f.keys, z[1], z[2], f.raised) \in SUBSET events /\ events \subseteq EventRow
  BY DEF Matching, IInv, TypeOK
<1>6. w \in Walks
  BY <1>2, <1>4, <1>5 DEF Walks
<1>7. /\ w.until = z[2] /\ ~ w.twice /\ w.got = {} /\ w.cursor = NoWalk
      /\ w.owed = Matching(f.keys, z[1], z[2], f.raised) /\ w.keys = f.keys /\ w.raised = f.raised
  BY <1>2
<1>8. Owes(w) /\ Has(w)
  BY <1>7 DEF Owes, Has, Beyond, Matching
<1>9. \A e \in w.owed : e.id <= seq.events
  BY <1>5, <1>7 DEF IInv, IdsInv
<1>10. w.until <= z[2] /\ IsFiniteSet(events)
  <2>1. z[2] \in Nat /\ w.until = z[2]
    BY <1>4, <1>7, StoreAssumption
  <2> QED
    BY <2>1 DEF PagesInv
<1> QED
  BY <1>3, <1>4, <1>6, <1>7, <1>8, <1>9, <1>10, TurnStep

LEMMA PagesMore ==
  ASSUME IInv, PagesInv, GetMoreEvents
  PROVE  PagesInv'
<1>1. PICK z \in Windows :
        /\ IF walk.slides THEN z[1] >= walk.since /\ z[2] >= walk.until
                          ELSE z = <<walk.since, walk.until>>
        /\ Turn(walk, z[1], z[2])
  BY DEF GetMoreEvents
<1>2. /\ walk \in Walks /\ ~ walk.twice /\ Owes(walk) /\ Has(walk) /\ IsFiniteSet(events)
      /\ \A e \in walk.owed : e.id <= seq.events
      /\ UNCHANGED vars
  BY DEF GetMoreEvents, PagesInv
<1>3. z[1] \in Stamps /\ z[2] \in Stamps /\ walk.until \in Stamps
  BY <1>2 DEF Windows, Walks
<1>4. walk.until <= z[2]
  <2>1. z[2] \in Nat /\ walk.until \in Nat
    BY <1>3, StoreAssumption
  <2>2. z[2] >= walk.until \/ z[2] = walk.until
    BY <1>1
  <2> QED
    BY <2>1, <2>2
<1> QED
  BY <1>1, <1>2, <1>3, <1>4, TurnStep

\* The invariants of the store and of the pages hold while a client reads.
THEOREM PagesInvariance == QuerySpec => [](IInv /\ PagesInv)
<1>1. QueryInit => IInv /\ PagesInv
  BY IInvInit, FS_EmptySet DEF QueryInit, Init, PagesInv
<1>2. IInv /\ PagesInv /\ [QueryNext]_queryVars => IInv' /\ PagesInv'
  <2> SUFFICES ASSUME IInv, PagesInv, [QueryNext]_queryVars PROVE IInv' /\ PagesInv'
    OBVIOUS
  <2>1. [Next]_vars
    BY DEF QueryNext, GetEvents, GetMoreEvents, StopReading, queryVars, vars
  <2>2. IInv'
    BY <2>1, IInvStep
  <2>3. CASE UNCHANGED queryVars
    <3>1. UNCHANGED <<anomalies, events, seq, walk>>
      BY <2>3 DEF queryVars
    <3> QED
      BY <2>2, <3>1 DEF PagesInv, Owes, Has, Beyond, Newer, KeyOf
  <2>4. CASE ~ Finished /\ Next /\ UNCHANGED walk
    BY <2>1, <2>2, <2>4, PagesKept
  <2>5. CASE GetEvents
    BY <2>2, <2>5, PagesFirst
  <2>6. CASE GetMoreEvents
    BY <2>2, <2>6, PagesMore
  <2>7. CASE StopReading
    <3>1. walk' = NoWalk /\ UNCHANGED events
      BY <2>7 DEF StopReading, vars
    <3> QED
      BY <2>2, <3>1 DEF PagesInv
  <2> QED
    BY <2>2, <2>3, <2>4, <2>5, <2>6, <2>7 DEF QueryNext
<1> QED
  BY <1>1, <1>2, PTL DEF QuerySpec

\* A client that turned every page has missed nothing and has nothing twice,
\* whatever was written and pruned between its pages and however its window
\* slid.
THEOREM NothingMissed == QuerySpec => []PagesComplete
<1>1. PagesInv => PagesComplete
  BY DEF PagesInv, PagesComplete
<1> QED
  BY <1>1, PagesInvariance, PTL
-----------------------------------------------------------------------------
(* The queries on one log. *)

\* The newest event of an identity.
NewestOf(e, k) == e \in events /\ KeyOf(e) = k /\ \A f \in events : KeyOf(f) = k /\ f # e => Newer(e, f)

LEMMA NewestOfExists ==
  ASSUME IInv, IsFiniteSet(events), NEW r \in events
  PROVE  \E e \in events : NewestOf(e, KeyOf(r))
<1> DEFINE rows == {e \in events : KeyOf(e) = KeyOf(r)}
<1>1. rows \in SUBSET EventRow /\ IsFiniteSet(rows) /\ rows # {} /\ \A e, f \in rows : e.id = f.id => e = f
  BY FS_Subset DEF IInv, TypeOK, IdsInv
<1>2. PICK e \in rows : \A f \in rows \ {e} : Newer(e, f)
  <2> HIDE DEF rows
  <2> QED
    BY <1>1, NewestExists
<1> QED
  BY <1>2 DEF NewestOf

\* An identity is active when its newest event is a raise.
LEMMA ActiveIs ==
  ASSUME IInv, NEW k \in Ids
  PROVE  k \in ActiveKeys <=> \E e \in events : e.raised /\ NewestOf(e, k)
<1>1. LogOf = {Abs(f) : f \in events}
  BY DEF LogOf, Abs
<1>2. \A f \in events : /\ Abs(f).x = KeyOf(f) /\ Abs(f).n = f.id /\ Abs(f).ts = f.ts
                        /\ Abs(f).raised = f.raised /\ Abs(f) \in LogOf
  BY <1>1 DEF Abs
<1>3. \A g \in LogOf : \E f \in events : g = Abs(f)
  BY <1>1
<1>4. k \in ActiveKeys <=>
        \E g \in LogOf : /\ g.x = k /\ g.raised
                         /\ \A h \in LogOf : h.x = g.x => h.ts < g.ts \/ (h.ts = g.ts /\ h.n <= g.n)
  BY DEF ActiveKeys, Log!Active, Log!Of, Log!IsNewest
<1>5. @ <=> \E e \in events : /\ KeyOf(e) = k /\ e.raised
                              /\ \A f \in events : KeyOf(f) = k => f.ts < e.ts \/ (f.ts = e.ts /\ f.id <= e.id)
  <2> HIDE DEF Abs
  <2> QED
    BY <1>2, <1>3
<1>6. ASSUME NEW e \in events, KeyOf(e) = k
      PROVE  (\A f \in events : KeyOf(f) = k => f.ts < e.ts \/ (f.ts = e.ts /\ f.id <= e.id))
               <=> NewestOf(e, k)
  <2>1. ASSUME NEW f \in events
        PROVE  (f = e \/ Newer(e, f)) <=> (f.ts < e.ts \/ (f.ts = e.ts /\ f.id <= e.id))
    <3>1. e.ts \in Nat /\ e.id \in Nat /\ f.ts \in Nat /\ f.id \in Nat
      BY RowNumbers DEF IInv, TypeOK
    <3>2. e.id = f.id => e = f
      BY DEF IInv, IdsInv
    <3> QED
      BY <3>1, <3>2 DEF Newer
  <2> QED
    BY <1>6, <2>1 DEF NewestOf
<1> QED
  BY <1>4, <1>5, <1>6 DEF NewestOf

LEMMA LeastOf ==
  ASSUME NEW S \in SUBSET Nat, S # {}
  PROVE  Min(S) \in S /\ \A y \in S : Min(S) <= y
<1> DEFINE Least(z) == \A y \in S : z <= y
<1>1. \E z \in S : Least(z)
  BY LeastExists
<1>2. Min(S) = CHOOSE z \in S : Least(z)
  BY DEF Min
<1> HIDE DEF Least
<1>3. Min(S) \in S /\ Least(Min(S))
  BY <1>1, <1>2
<1> QED
  BY <1>3 DEF Least

\* An identity is active when it has an open episode, or a raise and a clear of
\* one instant.
LEMMA EpisodesAgree ==
  ASSUME IInv, IsFiniteSet(events), NEW k \in Ids
  PROVE  LET open == {x \in Episodes({k}, 0) : x.cleared = NoWalk}
         IN  /\ k \in ActiveKeys => open # {}
             /\ open # {} => k \in ActiveKeys \/
                  \E e, f \in events : e.aid = f.aid /\ KeyOf(e) = k /\ e.raised /\ ~ f.raised /\ e.ts = f.ts
<1> DEFINE open == {x \in Episodes({k}, 0) : x.cleared = NoWalk}
           Raises == {e \in events : e.raised /\ KeyOf(e) \in {k} /\ 0 <= e.ts}
           Cleared(r) == IF ClearsOf(r) = {} THEN NoWalk ELSE Min({c.ts : c \in ClearsOf(r)})
           Episode(r) == [key |-> KeyOf(r), raise |-> r.id, at |-> r.ts, cleared |-> Cleared(r)]
<1>1. \A e \in events : e.ts \in Nat /\ e.id \in Nat /\ e.ts \in Stamps
  BY RowNumbers DEF IInv, TypeOK
<1>2. Episodes({k}, 0) = {Episode(r) : r \in Raises}
  BY DEF Episodes
<1>3. ASSUME NEW r \in events PROVE Cleared(r) = NoWalk <=> ClearsOf(r) = {}
  <2>1. CASE ClearsOf(r) # {}
    <3> DEFINE S == {c.ts : c \in ClearsOf(r)}
    <3>1. S \in SUBSET Stamps /\ S # {} /\ S \in SUBSET Nat
      BY <1>1, <2>1 DEF ClearsOf
    <3>2. Min(S) \in S
      <4> HIDE DEF S
      <4> QED
        BY <3>1, LeastOf
    <3>3. Min(S) # NoWalk
      <4> HIDE DEF S
      <4> QED
        BY <3>1, <3>2, QueryAssumption
    <3> QED
      BY <2>1, <3>3
  <2> QED
    BY <2>1
<1>4. open # {} <=> \E r \in Raises : ClearsOf(r) = {}
  <2>1. \A r \in Raises : Episode(r).cleared = Cleared(r)
    OBVIOUS
  <2>2. open # {} <=> \E r \in Raises : Episode(r).cleared = NoWalk
    <3> HIDE DEF Episode, Raises
    <3> QED
      BY <1>2
  <2>3. \A r \in Raises : r \in events
    OBVIOUS
  <2> HIDE DEF Episode, Raises, Cleared, open
  <2> QED
    BY <1>3, <2>1, <2>2, <2>3
<1> HIDE DEF open
<1>5. ASSUME k \in ActiveKeys PROVE open # {}
  <2>1. PICK e \in events : e.raised /\ NewestOf(e, k)
    BY <1>5, ActiveIs
  <2>2. e \in Raises
    BY <1>1, <2>1 DEF NewestOf
  <2>3. ASSUME NEW c \in ClearsOf(e) PROVE FALSE
    <3>1. c \in events /\ c.aid = e.aid /\ ~ c.raised /\ c.ts > e.ts
      BY DEF ClearsOf
    <3>2. KeyOf(c) = k
      BY <2>1, <3>1, SameKey DEF NewestOf
    <3>3. Newer(e, c)
      BY <2>1, <3>1, <3>2 DEF NewestOf
    <3> QED
      BY <1>1, <3>1, <3>3 DEF Newer
  <2> QED
    BY <1>4, <2>2, <2>3
<1>6. ASSUME open # {}, k \notin ActiveKeys
      PROVE  \E e, f \in events : e.aid = f.aid /\ KeyOf(e) = k /\ e.raised /\ ~ f.raised /\ e.ts = f.ts
  <2>1. PICK r \in Raises : ClearsOf(r) = {}
    BY <1>4, <1>6
  <2>2. r \in events /\ r.raised /\ KeyOf(r) = k
    OBVIOUS
  <2>3. PICK e \in events : NewestOf(e, k)
    BY <2>2, NewestOfExists
  <2>4. ~ e.raised
    BY <1>6, <2>3, ActiveIs
  <2>5. e.aid = r.aid /\ e # r
    BY <2>2, <2>3, <2>4, SameKey DEF NewestOf
  <2>6. Newer(e, r)
    BY <2>2, <2>3, <2>5 DEF NewestOf
  <2>7. ~ (e.ts > r.ts)
    BY <2>1, <2>4, <2>5 DEF ClearsOf
  <2>8. r.ts = e.ts
    BY <2>6, <2>7 DEF Newer
  <2> QED
    BY <2>2, <2>4, <2>5, <2>8
<1> QED
  BY <1>5, <1>6 DEF open

\* Where the window of a query up to now ends, there is nothing after it.
LEMMA LastStamp ==
  /\ Max(Stamps) \in Stamps
  /\ \A ts \in Stamps : ts <= Max(Stamps)
<1> DEFINE Latest(z) == \A y \in Stamps : z >= y
<1>1. \E z \in Stamps : Latest(z)
  <2>1. PICK z \in Stamps : \A y \in Stamps : y <= z
    BY QueryAssumption
  <2>2. Latest(z)
    BY <2>1, StoreAssumption
  <2> QED
    BY <2>2
<1>2. Max(Stamps) = CHOOSE z \in Stamps : Latest(z)
  BY DEF Max
<1>3. Max(Stamps) \in Stamps /\ Latest(Max(Stamps))
  <2> HIDE DEF Latest
  <2> QED
    BY <1>1, <1>2
<1> QED
  BY <1>3, StoreAssumption

\* What a history up to now shows last of an identity is its newest event.
LEMMA HistoryAgrees ==
  ASSUME IInv, IsFiniteSet(events)
  PROVE  LET shown == History(Ids, 0, Max(Stamps))
         IN  \A k \in DOMAIN shown :
               shown[k].active <=> \E e \in shown[k].events : e.raised /\ \A f \in shown[k].events \ {e} : Newer(e, f)
<1> DEFINE rows == {e \in Matching(Ids, 0, Max(Stamps), FALSE) : Beyond(NoWalk, e)}
           list == Newest(PageLimit(10000), rows)
           shown == History(Ids, 0, Max(Stamps))
<1>1. rows = events
  <2>1. \A e \in events : /\ KeyOf(e) \in Ids /\ 0 <= e.ts /\ e.ts <= Max(Stamps)
    BY RowNumbers, SameKey, LastStamp DEF IInv, TypeOK
  <2> QED
    BY <2>1 DEF Matching, Beyond
<1>2. list \subseteq events /\ \A e \in list, f \in events \ list : Newer(e, f)
  <2>1. PageLimit(10000) \in Nat /\ PageLimit(10000) >= 1
    BY PageHolds
  <2>2. /\ events \in SUBSET EventRow
        /\ \A e, f \in events : e.id = f.id => e = f
    BY DEF IInv, TypeOK, IdsInv
  <2>3. list = Newest(PageLimit(10000), events)
    <3> HIDE DEF rows
    <3> QED
      BY <1>1
  <2> HIDE DEF list, rows
  <2> QED
    BY <2>1, <2>2, <2>3, PageOfRows
<1>3. shown = [k \in {KeyOf(e) : e \in list} |->
                 [events |-> {e \in list : KeyOf(e) = k}, active |-> k \in ActiveKeys]]
  BY DEF History, EventList, EventsPage
<1> HIDE DEF list, shown, rows
<1>4. ASSUME NEW k \in DOMAIN shown
      PROVE  /\ k \in Ids /\ \E e \in list : KeyOf(e) = k
             /\ shown[k].active <=> k \in ActiveKeys
             /\ shown[k].events = {e \in list : KeyOf(e) = k}
  BY <1>2, <1>3, SameKey
<1>5. ASSUME NEW k \in DOMAIN shown, NEW e \in events
      PROVE  NewestOf(e, k) <=> /\ e \in shown[k].events
                                /\ \A f \in shown[k].events \ {e} : Newer(e, f)
  <2>1. ASSUME NewestOf(e, k) PROVE e \in list
    <3>1. PICK f \in list : KeyOf(f) = k
      BY <1>4
    <3>2. f \in events /\ (f # e => Newer(e, f))
      BY <1>2, <2>1, <3>1 DEF NewestOf
    <3>3. e \notin list => Newer(f, e)
      BY <1>2
    <3>4. e \in EventRow /\ f \in EventRow
      BY <1>2 DEF IInv, TypeOK
    <3>5. ~ (Newer(e, f) /\ Newer(f, e))
      BY <3>4, NewerOrders
    <3> QED
      BY <3>1, <3>2, <3>3, <3>5
  <2> QED
    BY <1>2, <1>4, <2>1 DEF NewestOf
<1>6. ASSUME NEW k \in DOMAIN shown
      PROVE  shown[k].active <=> \E e \in shown[k].events : e.raised /\ \A f \in shown[k].events \ {e} : Newer(e, f)
  <2>1. shown[k].events \subseteq events
    BY <1>2, <1>4
  <2>2. k \in ActiveKeys <=> \E e \in events : e.raised /\ NewestOf(e, k)
    BY <1>4, ActiveIs
  <2> QED
    BY <1>4, <1>5, <2>1, <2>2
<1> QED
  BY <1>6 DEF shown

\* A set counted in two parts.
LEMMA TwoParts ==
  ASSUME NEW A, NEW B, IsFiniteSet(A), IsFiniteSet(B), A \cap B = {}
  PROVE  Cardinality(A \cup B) = Cardinality(A) + Cardinality(B)
<1>1. Cardinality(A \cup B) = Cardinality(A) + Cardinality(B) - Cardinality(A \cap B)
  BY FS_Union
<1>2. Cardinality(A \cap B) = 0 /\ Cardinality(A) \in Nat /\ Cardinality(B) \in Nat
  BY FS_EmptySet, FS_CardinalityType
<1> QED
  BY <1>1, <1>2

\* The buckets of a trend hold every event of its window once.
LEMMA TrendAgrees ==
  ASSUME IInv, IsFiniteSet(events), NEW since \in Stamps, NEW size
  PROVE  LET summary == Summary(Ids, since)
             trend   == Trend(Ids, since, size)
         IN  summary.events = MapThenSumSet(LAMBDA b : trend[b].raises + trend[b].clears, DOMAIN trend)
<1> DEFINE all == {e \in events : KeyOf(e) \in Ids /\ since <= e.ts}
           B(e) == Bucket(e.ts, size)
           In(b) == {e \in all : B(e) = b}
           D == {B(e) : e \in all}
           trend == Trend(Ids, since, size)
           Held(t) == {e \in all : B(e) \in t}
           Some(s) == CHOOSE b \in s : TRUE
           Both(b) == trend[b].raises + trend[b].clears
           Body(g, s) == IF s = {} THEN 0 ELSE Both(Some(s)) + g[s \ {Some(s)}]
           Solves(g) == g = [s \in SUBSET D |-> Body(g, s)]
           n == [s \in SUBSET D |-> Cardinality(Held(s))]
<1>1. IsFiniteSet(all)
  BY FS_Subset
<1>2. trend = [b \in D |-> [raises |-> Cardinality({e \in In(b) : e.raised}),
                            clears |-> Cardinality({e \in In(b) : ~ e.raised})]]
  BY DEF Trend, Count
<1>3. Summary(Ids, since).events = Cardinality(all)
  BY DEF Summary, Count
<1>4. DOMAIN trend = D
  BY <1>2
<1>5. MapThenSumSet(LAMBDA b : trend[b].raises + trend[b].clears, D) = (CHOOSE g : Solves(g))[D]
  BY DEF MapThenSumSet, MapThenFoldSet
<1> HIDE DEF all, trend, B
<1>6. ASSUME NEW b \in D PROVE Both(b) = Cardinality(In(b))
  <2>1. In(b) = {e \in In(b) : e.raised} \cup {e \in In(b) : ~ e.raised}
    OBVIOUS
  <2>2. {e \in In(b) : e.raised} \cap {e \in In(b) : ~ e.raised} = {}
    OBVIOUS
  <2>3. IsFiniteSet({e \in In(b) : e.raised}) /\ IsFiniteSet({e \in In(b) : ~ e.raised})
    BY <1>1, FS_Subset
  <2>4. Cardinality(In(b)) = Cardinality({e \in In(b) : e.raised}) + Cardinality({e \in In(b) : ~ e.raised})
    <3> HIDE DEF In
    <3> QED
      BY <2>1, <2>2, <2>3, TwoParts
  <2>5. trend[b].raises = Cardinality({e \in In(b) : e.raised}) /\ trend[b].clears = Cardinality({e \in In(b) : ~ e.raised})
    <3> HIDE DEF In, D
    <3> QED
      BY <1>2
  <2> QED
    BY <2>4, <2>5
<1>7. ASSUME NEW s \in SUBSET D, s # {}
      PROVE  /\ Some(s) \in s /\ s \ {Some(s)} \in SUBSET D
             /\ Cardinality(Held(s)) = Both(Some(s)) + Cardinality(Held(s \ {Some(s)}))
  <2> DEFINE b == Some(s)
  <2>1. b \in s
    BY <1>7
  <2> HIDE DEF b
  <2>2. Held(s) = In(b) \cup Held(s \ {b}) /\ In(b) \cap Held(s \ {b}) = {}
    BY <2>1
  <2>3. IsFiniteSet(In(b)) /\ IsFiniteSet(Held(s \ {b}))
    BY <1>1, FS_Subset
  <2>4. Cardinality(Held(s)) = Cardinality(In(b)) + Cardinality(Held(s \ {b}))
    <3> HIDE DEF Held, In
    <3> QED
      BY <2>2, <2>3, TwoParts
  <2>5. Cardinality(Held(s)) = Both(b) + Cardinality(Held(s \ {b}))
    <3> HIDE DEF Held, In, Both
    <3> QED
      BY <1>6, <2>1, <2>4
  <2> QED
    BY <2>1, <2>5 DEF b
<1>8. Held({}) = {} /\ Held(D) = all
  OBVIOUS
<1> HIDE DEF Held, Both, In
<1>9. Solves(n)
  <2>1. ASSUME NEW s \in SUBSET D PROVE n[s] = Body(n, s)
    <3>1. CASE s = {}
      BY <1>8, <3>1, FS_EmptySet
    <3>2. CASE s # {}
      <4>1. s \ {Some(s)} \in SUBSET D /\ Cardinality(Held(s)) = Both(Some(s)) + Cardinality(Held(s \ {Some(s)}))
        BY <1>7, <3>2
      <4> HIDE DEF Some
      <4> QED
        BY <3>2, <4>1
    <3> QED
      BY <3>1, <3>2
  <2>2. n = [s \in SUBSET D |-> n[s]]
    OBVIOUS
  <2> HIDE DEF n, Body, D
  <2> QED
    BY <2>1, <2>2
<1> DEFINE g == CHOOSE h : Solves(h)
<1>10. Solves(g)
  <2> HIDE DEF Solves, n
  <2> QED
    BY <1>9
<1> HIDE DEF g
<1>11. \A s \in SUBSET D : g[s] = Body(g, s) /\ n[s] = Body(n, s)
  <2>1. \A h : Solves(h) => \A s \in SUBSET D : h[s] = Body(h, s)
    <3> HIDE DEF Body
    <3> QED
      OBVIOUS
  <2> HIDE DEF Solves, Body, n, D
  <2> QED
    BY <1>9, <1>10, <2>1
<1> HIDE DEF Solves, n
<1>12. \A s \in SUBSET D : IsFiniteSet(s)
  <2>1. IsFiniteSet(D)
    <3> DEFINE f == [e \in all |-> B(e)]
    <3>1. f \in Surjection(all, D)
      BY DEF Surjection
    <3> HIDE DEF f, D
    <3> QED
      BY <1>1, <3>1, FS_Surjection
  <2> QED
    BY <2>1, FS_Subset
<1> DEFINE Bad == {k \in Nat : \E s \in SUBSET D : Cardinality(s) = k /\ g[s] # n[s]}
<1>13. Bad = {}
  <2> SUFFICES ASSUME Bad # {} PROVE FALSE
    OBVIOUS
  <2>1. PICK k \in Bad : \A j \in Bad : k <= j
    <3>1. Bad \in SUBSET Nat
      OBVIOUS
    <3> HIDE DEF Bad
    <3> QED
      BY <3>1, LeastExists
  <2>2. PICK s \in SUBSET D : Cardinality(s) = k /\ g[s] # n[s]
    BY <2>1
  <2>3. s # {}
    BY <1>11, <2>2
  <2> DEFINE r == s \ {Some(s)}
  <2>4. Some(s) \in s /\ r \in SUBSET D
    BY <1>7, <2>3
  <2>5. Cardinality(r) = k - 1 /\ k \in Nat /\ Cardinality(r) \in Nat
    <3>1. IsFiniteSet(s) /\ IsFiniteSet(r)
      BY <1>12, <2>4
    <3> QED
      BY <2>2, <2>4, <3>1, FS_RemoveElement, FS_CardinalityType
  <2>6. g[r] = n[r]
    <3>1. Cardinality(r) \notin Bad
      <4> HIDE DEF Bad, r
      <4> QED
        BY <2>1, <2>5
    <3> HIDE DEF r
    <3> QED
      BY <2>4, <2>5, <3>1
  <2>7. g[s] = Both(Some(s)) + g[r] /\ n[s] = Both(Some(s)) + n[r]
    BY <1>11, <2>3
  <2> QED
    BY <2>2, <2>6, <2>7
<1>14. g[D] = n[D]
  <2>1. Cardinality(D) \in Nat /\ D \in SUBSET D
    BY <1>12, FS_CardinalityType
  <2> HIDE DEF D
  <2> QED
    BY <1>13, <2>1
<1>15. n[D] = Cardinality(all)
  BY <1>8 DEF n
<1>16. MapThenSumSet(LAMBDA b : trend[b].raises + trend[b].clears, D) = g[D]
  BY <1>5 DEF g
<1> QED
  BY <1>3, <1>4, <1>14, <1>15, <1>16 DEF trend

\* Every raise begins one episode and enters the clustering.
LEMMA RaisesAgree ==
  ASSUME IInv, IsFiniteSet(events), NEW since \in Stamps, NEW k \in Ids
  PROVE  LET told == Summary(Ids, since).by[k].raises
         IN  /\ told = Count(Episodes({k}, since))
             /\ told = Count(RaisesInWindow({k}, since, Max(Stamps)))
<1> DEFINE R == {e \in events : KeyOf(e) = k /\ since <= e.ts /\ e.raised}
           Cleared(r) == IF ClearsOf(r) = {} THEN NoWalk ELSE Min({c.ts : c \in ClearsOf(r)})
           Episode(r) == [key |-> KeyOf(r), raise |-> r.id, at |-> r.ts, cleared |-> Cleared(r)]
           f == [r \in R |-> Episode(r)]
           E == {Episode(r) : r \in R}
<1>1. Summary(Ids, since).by[k].raises = Cardinality(R)
  BY DEF Summary, Count
<1>2. Episodes({k}, since) = E
  <2>1. {e \in events : e.raised /\ KeyOf(e) \in {k} /\ since <= e.ts} = R
    OBVIOUS
  <2>2. Episodes({k}, since) =
          {Episode(r) : r \in {e \in events : e.raised /\ KeyOf(e) \in {k} /\ since <= e.ts}}
    BY DEF Episodes
  <2> HIDE DEF Episode, R
  <2> QED
    BY <2>1, <2>2
<1>3. IsFiniteSet(R)
  BY FS_Subset
<1>4. f \in Bijection(R, E)
  <2>1. \A r \in R : f[r] = Episode(r) /\ f[r].raise = r.id
    OBVIOUS
  <2>2. \A q, r \in R : q.id = r.id => q = r
    BY DEF IInv, IdsInv
  <2>3. f \in [R -> E] /\ \A x \in E : \E r \in R : f[r] = x
    <3> HIDE DEF R, Episode
    <3> QED
      OBVIOUS
  <2> HIDE DEF f, R, E, Episode
  <2>4. \A q, r \in R : f[q] = f[r] => q = r
    BY <2>1, <2>2
  <2> QED
    BY <2>3, <2>4, Fun_IsBij
<1>5. Cardinality(E) = Cardinality(R)
  <2> HIDE DEF f, R, E
  <2> QED
    BY <1>3, <1>4, FS_Bijection DEF ExistsBijection
<1>6. RaisesInWindow({k}, since, Max(Stamps)) = R
  <2>1. \A e \in events : e.ts <= Max(Stamps)
    BY LastStamp, RowNumbers DEF IInv, TypeOK
  <2> QED
    BY <2>1 DEF RaisesInWindow, Matching
<1> HIDE DEF R, E
<1> QED
  BY <1>1, <1>2, <1>5, <1>6 DEF Count

\* The queries agree on one log: the active identities with the open episodes,
\* the summary with the buckets of a trend, with the episodes and with the raises,
\* and a history with the active identities.
THEOREM AnswersAgree == QuerySpec => []QueriesAgree
<1>1. ASSUME IInv, IsFiniteSet(events) PROVE QueriesAgree
  <2>1. \A k \in Ids :
          LET open == {x \in Episodes({k}, 0) : x.cleared = NoWalk}
          IN  /\ k \in ActiveKeys => open # {}
              /\ open # {} => k \in ActiveKeys \/
                   \E e, f \in events : e.aid = f.aid /\ KeyOf(e) = k /\ e.raised /\ ~ f.raised /\ e.ts = f.ts
    BY <1>1, EpisodesAgree
  <2>2. \A since \in Stamps, size \in {1, BucketMinutes(1)} :
          LET summary == Summary(Ids, since)
              trend   == Trend(Ids, since, size)
          IN  summary.events = MapThenSumSet(LAMBDA b : trend[b].raises + trend[b].clears, DOMAIN trend)
    BY <1>1, TrendAgrees
  <2>3. \A since \in Stamps, k \in Ids :
          /\ Summary(Ids, since).by[k].raises = Count(Episodes({k}, since))
          /\ Summary(Ids, since).by[k].raises = Count(RaisesInWindow({k}, since, Max(Stamps)))
    BY <1>1, RaisesAgree
  <2>4. LET shown == History(Ids, 0, Max(Stamps))
        IN  \A k \in DOMAIN shown :
              shown[k].active <=> \E e \in shown[k].events : e.raised /\ \A f \in shown[k].events \ {e} : Newer(e, f)
    BY <1>1, HistoryAgrees
  <2> QED
    BY <2>1, <2>2, <2>3, <2>4 DEF QueriesAgree
<1>2. IInv /\ PagesInv => QueriesAgree
  BY <1>1 DEF PagesInv
<1> QED
  BY <1>2, PagesInvariance, PTL

\* What FaultAssumption asks of a window, of the raises get_raises_in_window
\* returns: finitely many, told apart by their ids, and those of one identity
\* under one row, with which the device is kept.
AsAssumed(W) ==
  /\ IsFiniteSet(W)
  /\ \A r \in W : r.id \in Int /\ r.ts \in Int
  /\ \A r, s \in W : /\ r.id = s.id => r = s
                     /\ KeyOf(r) = KeyOf(s) => r.aid = s.aid

\* The analysis gets from the store what it is proved for, whatever is recorded
\* and pruned before it asks.
THEOREM WindowsAreAsAssumed ==
  QuerySpec => [](\A keys \in SUBSET Ids, since, until \in Stamps :
                    AsAssumed(RaisesInWindow(keys, since, until)))
<1>1. ASSUME IInv, IsFiniteSet(events), NEW keys \in SUBSET Ids, NEW since \in Stamps, NEW until \in Stamps
      PROVE  AsAssumed(RaisesInWindow(keys, since, until))
  <2> DEFINE W == RaisesInWindow(keys, since, until)
  <2>1. W \in SUBSET events
    BY DEF RaisesInWindow, Matching
  <2> HIDE DEF W
  <2>2. IsFiniteSet(W)
    BY <1>1, <2>1, FS_Subset
  <2>3. ASSUME NEW r \in W PROVE r.id \in Int /\ r.ts \in Int
    <3>1. r \in EventRow
      BY <1>1, <2>1 DEF IInv, TypeOK
    <3> QED
      BY <3>1, RowNumbers
  <2>4. \A r, s \in W : /\ r.id = s.id => r = s
                        /\ KeyOf(r) = KeyOf(s) => r.aid = s.aid
    <3>1. \A r, s \in events : r.id = s.id => r = s
      BY <1>1 DEF IInv, IdsInv
    <3>2. \A r, s \in events : KeyOf(r) = KeyOf(s) => r.aid = s.aid
      BY <1>1, SameKey
    <3> QED
      BY <2>1, <3>1, <3>2
  <2>5. AsAssumed(W)
    BY <2>2, <2>3, <2>4 DEF AsAssumed
  <2> QED
    BY <2>5 DEF W
<1>2. IInv /\ PagesInv => \A keys \in SUBSET Ids, since, until \in Stamps :
                            AsAssumed(RaisesInWindow(keys, since, until))
  BY <1>1 DEF PagesInv
<1> QED
  BY <1>2, PagesInvariance, PTL
-----------------------------------------------------------------------------
(***************************************************************************)
(* FaultClusters: clusters are the groups the gaps leave, and what is said *)
(* of them is true of every raise.                                         *)
(*                                                                         *)
(* The clusters of the first rows are the runs of them between two gaps; a *)
(* row more extends the last run or begins one, and the runs of all rows   *)
(* are the groups. Of a cluster, every raise that is no ghost is told by   *)
(* one row, and the two passes after the first keep it so: a row that is   *)
(* taken in gives its raises to the other, which is of the same type and   *)
(* names its device. So the counts of the rows add up to the raises that   *)
(* stay, and these are as many as there are keys. The rows say which types *)
(* there are, and the cause is of the lowest layer of them.                *)
(*                                                                         *)
(* The proof rests on FaultAssumption: ids tell rows apart, and no two     *)
(* devices share an identity.                                              *)
(***************************************************************************)
\* Induction over the positions of a sequence.
LEMMA InductionUpTo ==
  ASSUME NEW N \in Nat, NEW G, 0 \in G, \A n \in 0 .. N : n \in G /\ n < N => n + 1 \in G
  PROVE  \A n \in 0 .. N : n \in G
<1> DEFINE Bad == {n \in 0 .. N : n \notin G}
<1> SUFFICES ASSUME Bad # {} PROVE FALSE
  OBVIOUS
<1>1. Bad \in SUBSET Nat
  OBVIOUS
<1>2. Min(Bad) \in Bad /\ \A y \in Bad : Min(Bad) <= y
  <2> HIDE DEF Bad
  <2> QED
    BY <1>1, LeastOf
<1> DEFINE m == Min(Bad)
<1> HIDE DEF m
<1>3. m \in 0 .. N /\ m \notin G /\ \A y \in Bad : m <= y
  BY <1>2 DEF m
<1>4. m # 0 /\ m - 1 \in 0 .. N /\ m - 1 < N
  BY <1>3
<1>5. m - 1 \in G
  <2>1. m - 1 \notin Bad
    <3> HIDE DEF Bad
    <3> QED
      BY <1>3, <1>4
  <2> QED
    BY <1>4, <2>1
<1>6. (m - 1) + 1 \in G
  BY <1>4, <1>5
<1> QED
  BY <1>3, <1>6

-----------------------------------------------------------------------------
(* Orders on finite sets, folds and sums. *)

\* A strict order on a finite set: of its members, one is below no other.
Lower(R, S, x) == {y \in S : <<y, x>> \in R}
Transitive(R, S) == \A x, y, z \in S : <<x, y>> \in R /\ <<y, z>> \in R => <<x, z>> \in R
Irreflexive(R, S) == \A x \in S : <<x, x>> \notin R

\* Fewer are below the lower of two.
LEMMA BelowCounts ==
  ASSUME NEW S, IsFiniteSet(S), NEW R, Transitive(R, S), Irreflexive(R, S),
         NEW x \in S, NEW y \in S
  PROVE  /\ Cardinality(Lower(R, S, x)) \in Nat
         /\ Cardinality(Lower(R, S, x)) < Cardinality(S)
         /\ <<y, x>> \in R => Cardinality(Lower(R, S, y)) < Cardinality(Lower(R, S, x))
<1> DEFINE bx == Lower(R, S, x)
           by == Lower(R, S, y)
<1>1. bx \in SUBSET S /\ by \in SUBSET S /\ x \notin bx /\ y \notin by
  BY DEF Lower, Irreflexive
<1>2. <<y, x>> \in R => by \in SUBSET bx /\ y \in bx
  BY DEF Lower, Transitive
<1> HIDE DEF bx, by
<1>3. IsFiniteSet(bx) /\ IsFiniteSet(by) /\ Cardinality(bx) <= Cardinality(S) /\ Cardinality(bx) # Cardinality(S)
  BY <1>1, FS_Subset
<1>4. Cardinality(bx) \in Nat /\ Cardinality(by) \in Nat /\ Cardinality(S) \in Nat
  BY <1>3, FS_CardinalityType
<1>5. ASSUME <<y, x>> \in R PROVE Cardinality(by) < Cardinality(bx)
  <2>1. by \in SUBSET bx /\ y \in bx
    BY <1>2, <1>5
  <2>2. Cardinality(by) <= Cardinality(bx) /\ Cardinality(by) # Cardinality(bx)
    BY <1>1, <1>3, <2>1, FS_Subset
  <2> QED
    BY <1>4, <2>2
<1>6. Cardinality(bx) < Cardinality(S)
  BY <1>3, <1>4
<1> QED
  BY <1>4, <1>5, <1>6 DEF bx, by

\* One that is not empty has a member no other is below.
LEMMA MinimalExists ==
  ASSUME NEW S, IsFiniteSet(S), S # {}, NEW R, Transitive(R, S), Irreflexive(R, S)
  PROVE  \E x \in S : \A y \in S : <<y, x>> \notin R
<1> DEFINE count(x) == Cardinality(Lower(R, S, x))
           C == {count(x) : x \in S}
<1>1. C \in SUBSET Nat /\ C # {}
  <2>1. ASSUME NEW x \in S PROVE count(x) \in Nat
    BY BelowCounts
  <2> QED
    BY <2>1
<1>2. Min(C) \in C /\ \A k \in C : Min(C) <= k
  <2> HIDE DEF C
  <2> QED
    BY <1>1, LeastOf
<1>3. PICK x \in S : Min(C) = count(x)
  BY <1>2
<1>4. ASSUME NEW y \in S, <<y, x>> \in R PROVE FALSE
  <2>1. count(y) < count(x) /\ count(y) \in Nat /\ count(x) \in Nat
    BY <1>4, BelowCounts
  <2>2. count(x) <= count(y)
    BY <1>2, <1>3
  <2> QED
    BY <2>1, <2>2
<1> QED
  BY <1>4

\* ... and a total one puts the members in a sequence, each of them once.
LEMMA OrderExists ==
  ASSUME NEW S, IsFiniteSet(S), NEW R, Transitive(R, S), Irreflexive(R, S),
         \A x, y \in S : x = y \/ <<x, y>> \in R \/ <<y, x>> \in R
  PROVE  \E q \in [1 .. Cardinality(S) -> S] : \A i, j \in 1 .. Cardinality(S) : i < j => <<q[i], q[j]>> \in R
<1> DEFINE N == Cardinality(S)
           place == [x \in S |-> Cardinality(Lower(R, S, x)) + 1]
<1>1. N \in Nat /\ IsFiniteSet(1 .. N) /\ Cardinality(1 .. N) = N
  BY FS_CardinalityType, FS_Interval
<1>2. ASSUME NEW x \in S PROVE place[x] \in 1 .. N
  <2>1. Cardinality(Lower(R, S, x)) \in Nat /\ Cardinality(Lower(R, S, x)) < N
    BY BelowCounts
  <2> HIDE DEF N
  <2> QED
    BY <1>1, <2>1
<1>3. ASSUME NEW x \in S, NEW y \in S, <<y, x>> \in R PROVE place[y] < place[x]
  <2>1. /\ Cardinality(Lower(R, S, y)) < Cardinality(Lower(R, S, x))
        /\ Cardinality(Lower(R, S, y)) \in Nat /\ Cardinality(Lower(R, S, x)) \in Nat
    BY <1>3, BelowCounts
  <2> QED
    BY <2>1
<1>4. place \in [S -> 1 .. N]
  BY <1>2
<1> HIDE DEF place, N
<1>5. \A x, y \in S : place[x] = place[y] => x = y
  <2> SUFFICES ASSUME NEW x \in S, NEW y \in S, place[x] = place[y], x # y PROVE FALSE
    OBVIOUS
  <2>1. place[x] \in 1 .. N /\ place[y] \in 1 .. N
    BY <1>2
  <2>2. place[x] < place[y] \/ place[y] < place[x]
    BY <1>3
  <2> QED
    BY <1>1, <2>1, <2>2
<1>6. place \in Injection(S, 1 .. N)
  BY <1>4, <1>5 DEF Injection, IsInjective
<1>7. place \in Surjection(S, 1 .. N)
  BY <1>1, <1>6, FS_Injection DEF N
<1>8. \A i \in 1 .. N : \E x \in S : place[x] = i
  BY <1>7 DEF Surjection
<1> DEFINE q == [i \in 1 .. N |-> CHOOSE x \in S : place[x] = i]
<1>9. \A i \in 1 .. N : q[i] \in S /\ place[q[i]] = i
  BY <1>8
<1>10. q \in [1 .. N -> S]
  BY <1>9
<1> HIDE DEF q
<1>11. ASSUME NEW i \in 1 .. N, NEW j \in 1 .. N, i < j PROVE <<q[i], q[j]>> \in R
  <2>1. q[i] # q[j]
    BY <1>9, <1>11
  <2>2. ~ (<<q[j], q[i]>> \in R)
    <3> SUFFICES ASSUME <<q[j], q[i]>> \in R PROVE FALSE
      OBVIOUS
    <3>1. place[q[j]] < place[q[i]]
      BY <1>3, <1>9
    <3>2. j < i
      BY <1>9, <3>1
    <3> QED
      BY <1>1, <1>11, <3>2
  <2> QED
    BY <1>9, <2>1, <2>2
<1> QED
  BY <1>10, <1>11 DEF N

\* The greatest of the first numbers, and of a set that has the last of them.
LEMMA GreatestOf ==
  ASSUME NEW n \in Nat, NEW s \in SUBSET (1 .. n + 1), n + 1 \in s
  PROVE  Max(s) = n + 1 /\ s \ {n + 1} \in SUBSET (1 .. n)
<1> DEFINE Greatest(z) == \A y \in s : z >= y
<1>1. Greatest(n + 1) /\ \A z \in s : Greatest(z) => z = n + 1
  OBVIOUS
<1>2. Max(s) = CHOOSE z \in s : Greatest(z)
  BY DEF Max
<1> HIDE DEF Greatest
<1>3. Max(s) = n + 1
  BY <1>1, <1>2
<1> QED
  BY <1>3

\* The greatest of a prefix, and what is left without it.
LEMMA PrefixOf ==
  ASSUME NEW N \in Nat, NEW n \in 1 .. N
  PROVE  /\ 1 .. n \in SUBSET (1 .. N) /\ 1 .. n # {}
         /\ Max(1 .. n) = n /\ (1 .. n) \ {n} = 1 .. n - 1
<1>1. n - 1 \in Nat /\ (n - 1) + 1 = n /\ 1 .. n \in SUBSET (1 .. N) /\ n \in 1 .. n
  OBVIOUS
<1>2. Max(1 .. n) = n
  BY <1>1, GreatestOf
<1>3. (1 .. n) \ {n} = 1 .. n - 1
  OBVIOUS
<1> QED
  BY <1>1, <1>2, <1>3

\* A fold from the left, given as a function of what is folded so far and the
\* position, has a value at every prefix.
Folding(g, T, b, F, N) ==
  /\ g \in [SUBSET (1 .. N) -> T]
  /\ \A s \in SUBSET (1 .. N) : g[s] = IF s = {} THEN b ELSE F[<<g[s \ {Max(s)}], Max(s)>>]

\* ... which the values at the shorter prefixes make, one place at a time.
LEMMA FoldExists ==
  ASSUME NEW N \in Nat, NEW T, NEW b \in T, NEW F \in [T \X (1 .. N) -> T]
  PROVE  \E g : Folding(g, T, b, F, N)
<1> DEFINE Body(g, s) == IF s = {} THEN b ELSE F[<<g[s \ {Max(s)}], Max(s)>>]
           Solves(g, n) == \A s \in SUBSET (1 .. n) : g[s] = Body(g, s)
           G == {n \in 0 .. N : \E g \in [SUBSET (1 .. n) -> T] : Solves(g, n)}
<1>1. 0 \in G
  <2> DEFINE g == [s \in SUBSET (1 .. 0) |-> b]
  <2>1. 1 .. 0 = {}
    OBVIOUS
  <2>2. g \in [SUBSET (1 .. 0) -> T] /\ Solves(g, 0)
    BY <2>1
  <2>3. 0 \in 0 .. N
    OBVIOUS
  <2> HIDE DEF g, Solves
  <2> QED
    BY <2>2, <2>3
<1>2. ASSUME NEW n \in 0 .. N, n \in G, n < N PROVE n + 1 \in G
  <2> USE DEF G
  <2>1. PICK g \in [SUBSET (1 .. n) -> T] : Solves(g, n)
    <3> HIDE DEF Solves
    <3> QED
      BY <1>2
  <2> HIDE DEF G
  <2>6. n \in Nat /\ n + 1 \in 1 .. N /\ n + 1 \in 0 .. N
    BY <1>2
  <2> DEFINE h == [s \in SUBSET (1 .. n + 1) |->
                     IF n + 1 \in s THEN F[<<g[s \ {n + 1}], n + 1>>] ELSE g[s]]
  <2>2. ASSUME NEW s \in SUBSET (1 .. n + 1), n + 1 \in s
        PROVE  h[s] = Body(h, s) /\ h[s] \in T
    <3>1. Max(s) = n + 1 /\ s \ {n + 1} \in SUBSET (1 .. n)
      BY <2>2, <2>6, GreatestOf
    <3>2. h[s \ {n + 1}] = g[s \ {n + 1}] /\ g[s \ {n + 1}] \in T
      BY <3>1
    <3>3. h[s] = F[<<g[s \ {n + 1}], n + 1>>] /\ s # {}
      BY <2>2
    <3> HIDE DEF h
    <3>4. h[s] = Body(h, s)
      BY <3>1, <3>2, <3>3
    <3>5. <<g[s \ {n + 1}], n + 1>> \in T \X (1 .. N)
      BY <2>6, <3>2
    <3>6. h[s] \in T
      BY <3>3, <3>5
    <3> QED
      BY <3>4, <3>6
  <2>3. ASSUME NEW s \in SUBSET (1 .. n + 1), n + 1 \notin s
        PROVE  h[s] = Body(h, s) /\ h[s] \in T
    <3>1. s \in SUBSET (1 .. n) /\ s \ {Max(s)} \in SUBSET (1 .. n)
      <4>1. ASSUME NEW y \in s PROVE y \in 1 .. n
        <5>1. y \in 1 .. n + 1 /\ y # n + 1
          BY <2>3
        <5> QED
          BY <2>6, <5>1
      <4> QED
        BY <4>1
    <3>2. h[s] = g[s] /\ h[s \ {Max(s)}] = g[s \ {Max(s)}]
      BY <2>3, <3>1
    <3>3. g[s] = Body(g, s) /\ g[s] \in T
      BY <2>1, <3>1
    <3> HIDE DEF h
    <3> QED
      BY <3>2, <3>3
  <2>4. h \in [SUBSET (1 .. n + 1) -> T]
    <3>1. \A s \in SUBSET (1 .. n + 1) : h[s] \in T
      BY <2>2, <2>3
    <3>2. h = [s \in SUBSET (1 .. n + 1) |-> h[s]]
      OBVIOUS
    <3> HIDE DEF h
    <3> QED
      BY <3>1, <3>2
  <2>5. Solves(h, n + 1)
    <3> HIDE DEF h, Body
    <3> QED
      BY <2>2, <2>3
  <2> HIDE DEF h, Solves
  <2> QED
    BY <2>4, <2>5, <2>6 DEF G
<1> HIDE DEF G
<1>3. N \in G
  BY <1>1, <1>2, InductionUpTo
<1>4. \E g \in [SUBSET (1 .. N) -> T] : Solves(g, N)
  <2> HIDE DEF Solves
  <2> QED
    BY <1>3 DEF G
<1> QED
  BY <1>4, Zenon DEF Folding

\* Counting by a function: the sizes of its fibers add up to its domain.
LEMMA DisjointParts ==
  ASSUME NEW A, NEW B, IsFiniteSet(A), IsFiniteSet(B), A \cap B = {}
  PROVE  Cardinality(A \cup B) = Cardinality(A) + Cardinality(B)
<1>1. Cardinality(A \cup B) = Cardinality(A) + Cardinality(B) - Cardinality(A \cap B)
  BY FS_Union
<1>2. Cardinality(A \cap B) = 0 /\ Cardinality(A) \in Nat /\ Cardinality(B) \in Nat
  BY FS_EmptySet, FS_CardinalityType
<1> QED
  BY <1>1, <1>2

Fiber(own, P, d) == {p \in P : own[p] = d}
SumsUp(g, f, D) ==
  \A s \in SUBSET D : g[s] = IF s = {} THEN 0
                              ELSE f[CHOOSE d \in s : TRUE] + g[s \ {CHOOSE d \in s : TRUE}]

AddsUp(f, D, n) ==
  /\ \E g : g = [s \in SUBSET D |-> g[s]] /\ SumsUp(g, f, D)
  /\ \A g : SumsUp(g, f, D) => g[D] = n

\* Whatever member is taken first; and there is such a sum.
LEMMA FibersAddUp ==
  ASSUME NEW P, IsFiniteSet(P), NEW D, IsFiniteSet(D), NEW own \in [P -> D],
         NEW f, \A d \in D : f[d] = Cardinality(Fiber(own, P, d))
  PROVE  AddsUp(f, D, Cardinality(P))
<1> DEFINE Some(s) == CHOOSE d \in s : TRUE
           Held(s) == {p \in P : own[p] \in s}
           n == [s \in SUBSET D |-> Cardinality(Held(s))]
<1>1. ASSUME NEW s \in SUBSET D, s # {}
      PROVE  /\ Some(s) \in s /\ s \ {Some(s)} \in SUBSET D
             /\ Cardinality(Held(s)) = f[Some(s)] + Cardinality(Held(s \ {Some(s)}))
  <2> DEFINE d == Some(s)
  <2>1. d \in s
    BY <1>1
  <2> HIDE DEF d
  <2>2. Held(s) = Fiber(own, P, d) \cup Held(s \ {d}) /\ Fiber(own, P, d) \cap Held(s \ {d}) = {}
    BY <2>1 DEF Fiber
  <2>3. IsFiniteSet(Fiber(own, P, d)) /\ IsFiniteSet(Held(s \ {d}))
    BY FS_Subset DEF Fiber
  <2>4. Cardinality(Held(s)) = Cardinality(Fiber(own, P, d)) + Cardinality(Held(s \ {d}))
    <3> HIDE DEF Held
    <3> QED
      BY <2>2, <2>3, DisjointParts
  <2>5. Cardinality(Held(s)) = f[d] + Cardinality(Held(s \ {d}))
    <3> HIDE DEF Held
    <3> QED
      BY <2>1, <2>4
  <2> QED
    BY <2>1, <2>5 DEF d
<1>2. Held({}) = {} /\ Held(D) = P
  OBVIOUS
<1> HIDE DEF Held
<1>3. SumsUp(n, f, D)
  <2> SUFFICES ASSUME NEW s \in SUBSET D
               PROVE  n[s] = IF s = {} THEN 0 ELSE f[Some(s)] + n[s \ {Some(s)}]
    BY Zenon DEF SumsUp
  <2>1. CASE s = {}
    BY <1>2, <2>1, FS_EmptySet
  <2>2. CASE s # {}
    <3>1. s \ {Some(s)} \in SUBSET D /\ Cardinality(Held(s)) = f[Some(s)] + Cardinality(Held(s \ {Some(s)}))
      BY <1>1, <2>2
    <3> HIDE DEF Some
    <3> QED
      BY <2>2, <3>1
  <2> QED
    BY <2>1, <2>2
<1>4. n = [s \in SUBSET D |-> n[s]]
  OBVIOUS
<1> HIDE DEF n
<1>5. ASSUME NEW g, SumsUp(g, f, D) PROVE g[D] = Cardinality(P)
  <2>1. \A s \in SUBSET D : s # {} => /\ g[s] = f[Some(s)] + g[s \ {Some(s)}]
                                      /\ n[s] = f[Some(s)] + n[s \ {Some(s)}]
    BY <1>3, <1>5, Zenon DEF SumsUp
  <2>2. g[{}] = n[{}]
    <3>1. {} \in SUBSET D
      OBVIOUS
    <3> QED
      BY <1>3, <1>5, <3>1, Zenon DEF SumsUp
  <2> DEFINE Bad == {k \in Nat : \E s \in SUBSET D : Cardinality(s) = k /\ g[s] # n[s]}
  <2>3. ASSUME Bad # {} PROVE FALSE
    <3>1. Min(Bad) \in Bad /\ \A j \in Bad : Min(Bad) <= j
      <4>1. Bad \in SUBSET Nat
        OBVIOUS
      <4> HIDE DEF Bad
      <4> QED
        BY <2>3, <4>1, LeastOf
    <3> DEFINE k == Min(Bad)
    <3> HIDE DEF k
    <3>2. k \in Nat /\ \A j \in Bad : k <= j
      BY <3>1 DEF k
    <3>3. PICK s \in SUBSET D : Cardinality(s) = k /\ g[s] # n[s]
      BY <3>1 DEF k
    <3>4. s # {}
      BY <2>2, <3>3
    <3> DEFINE r == s \ {Some(s)}
    <3>5. Some(s) \in s /\ r \in SUBSET D
      BY <1>1, <3>4
    <3>6. Cardinality(r) = k - 1 /\ Cardinality(r) \in Nat
      <4>1. IsFiniteSet(s)
        BY FS_Subset
      <4>2. IsFiniteSet(r)
        BY <3>5, FS_Subset
      <4> QED
        BY <3>3, <3>5, <4>1, <4>2, FS_RemoveElement, FS_CardinalityType
    <3>7. g[r] = n[r]
      <4>1. Cardinality(r) \notin Bad
        <5> HIDE DEF Bad, r
        <5> QED
          BY <3>2, <3>6
      <4> HIDE DEF r
      <4> QED
        BY <3>5, <3>6, <4>1
    <3>8. g[s] = f[Some(s)] + g[r] /\ n[s] = f[Some(s)] + n[r]
      BY <2>1, <3>4
    <3> QED
      BY <3>3, <3>7, <3>8
  <2>4. Cardinality(D) \in Nat /\ D \in SUBSET D
    BY FS_CardinalityType
  <2>5. g[D] = n[D]
    BY <2>3, <2>4
  <2> QED
    BY <1>2, <2>4, <2>5 DEF n
<1> QED
  BY <1>3, <1>4, <1>5 DEF AddsUp

-----------------------------------------------------------------------------
(* The order of the rows. *)

\* A sequence in an order; and one that has every member at one place.
Follows(q, R, S) ==
  /\ q \in [1 .. Cardinality(S) -> S]
  /\ \A i, j \in 1 .. Cardinality(S) : i < j => <<q[i], q[j]>> \in R
Lists(q, S) ==
  /\ Cardinality(S) \in Nat
  /\ q \in [1 .. Cardinality(S) -> S]
  /\ \A i, j \in 1 .. Cardinality(S) : q[i] = q[j] => i = j
  /\ \A x \in S : \E i \in 1 .. Cardinality(S) : q[i] = x

\* A sequence as long as the set in which no two places are equal lists it.
LEMMA OrderOnto ==
  ASSUME NEW S, IsFiniteSet(S), NEW R, Irreflexive(R, S), NEW q, Follows(q, R, S)
  PROVE  Lists(q, S)
<1> DEFINE N == Cardinality(S)
<1>1. N \in Nat /\ IsFiniteSet(1 .. N) /\ Cardinality(1 .. N) = N
  BY FS_CardinalityType, FS_Interval
<1>2. q \in [1 .. N -> S] /\ \A i, j \in 1 .. N : i < j => <<q[i], q[j]>> \in R
  BY DEF Follows
<1> HIDE DEF N
<1>3. ASSUME NEW i \in 1 .. N, NEW j \in 1 .. N, q[i] = q[j] PROVE i = j
  <2>1. ~ (i < j) /\ ~ (j < i)
    BY <1>2, <1>3 DEF Irreflexive
  <2> QED
    BY <1>1, <2>1
<1>4. q \in Injection(1 .. N, S)
  BY <1>2, <1>3 DEF Injection, IsInjective
<1>5. q \in Surjection(1 .. N, S)
  BY <1>1, <1>4, FS_Injection DEF N
<1>6. \A x \in S : \E i \in 1 .. N : q[i] = x
  BY <1>5 DEF Surjection
<1> QED
  BY <1>1, <1>2, <1>3, <1>6 DEF Lists, N

\* What is assumed of the raises of a window, and so of a part of them.
Rows(S) ==
  /\ IsFiniteSet(S)
  /\ \A r \in S : r.id \in Int /\ r.ts \in Int
  /\ \A r, s \in S :
       /\ r.id = s.id => r = s
       /\ IdentityKey(r) = IdentityKey(s) => r.device = s.device \/ NoOne \in {r.device, s.device}

\* What holds of a window holds of a part of it.
LEMMA PartOfRows ==
  ASSUME NEW S, Rows(S), NEW C \in SUBSET S
  PROVE  Rows(C)
<1>1. IsFiniteSet(C)
  BY FS_Subset DEF Rows
<1>2. \A r \in C : r \in S
  OBVIOUS
<1> QED
  BY <1>1, <1>2, Zenon DEF Rows

\* sorted() by time puts every row of a set in one place.
LEMMA InOrderIs ==
  ASSUME NEW S, Rows(S)
  PROVE  /\ Lists(InOrder(S), S)
         /\ \A i, j \in 1 .. Cardinality(S) : i < j => Earlier(InOrder(S)[i], InOrder(S)[j])
<1> DEFINE R == {p \in S \X S : Earlier(p[1], p[2])}
           N == Cardinality(S)
           Good(q) == \A i, j \in DOMAIN q : i < j => Earlier(q[i], q[j])
<1>1. \A x, y \in S : <<x, y>> \in R <=> Earlier(x, y)
  OBVIOUS
<1>2. \A x \in S : x.id \in Int /\ x.ts \in Int
  BY DEF Rows
<1>3. \A x, y \in S : x = y \/ Earlier(x, y) \/ Earlier(y, x)
  BY <1>2 DEF Rows, Earlier
<1>4. \A x, y, z \in S : Earlier(x, y) /\ Earlier(y, z) => Earlier(x, z)
  BY <1>2 DEF Earlier
<1>5. \A x \in S : ~ Earlier(x, x)
  BY <1>2 DEF Earlier
<1> HIDE DEF R
<1>6. Transitive(R, S) /\ Irreflexive(R, S)
  BY <1>1, <1>4, <1>5 DEF Transitive, Irreflexive
<1>7. IsFiniteSet(S) /\ \A x, y \in S : x = y \/ <<x, y>> \in R \/ <<y, x>> \in R
  BY <1>1, <1>3 DEF Rows
<1>8. \E q \in [1 .. N -> S] : Good(q)
  <2>1. PICK q \in [1 .. N -> S] : \A i, j \in 1 .. N : i < j => <<q[i], q[j]>> \in R
    BY <1>6, <1>7, OrderExists
  <2>2. Good(q)
    BY <1>1, <2>1
  <2> QED
    BY <2>2
<1>9. InOrder(S) = CHOOSE q \in [1 .. N -> S] : Good(q)
  BY DEF InOrder, Ordered
<1> DEFINE o == InOrder(S)
<1> HIDE DEF Good, o
<1>10. o \in [1 .. N -> S] /\ Good(o)
  BY <1>8, <1>9 DEF o
<1>11. \A i, j \in 1 .. N : i < j => Earlier(o[i], o[j])
  BY <1>10 DEF Good
<1>12. Follows(o, R, S)
  BY <1>1, <1>10, <1>11 DEF Follows
<1>13. Lists(o, S)
  BY <1>6, <1>7, <1>12, OrderOnto
<1> QED
  BY <1>11, <1>13 DEF o

\* The sort key of deduplicate_cluster tells any two rows apart.
LEMMA DeviceFirstOrders ==
  ASSUME NEW S, Rows(S)
  PROVE  /\ \A x, y \in S : x = y \/ DeviceFirst(x, y) \/ DeviceFirst(y, x)
         /\ \A x, y, z \in S : DeviceFirst(x, y) /\ DeviceFirst(y, z) => DeviceFirst(x, z)
         /\ \A x \in S : ~ DeviceFirst(x, x)
<1>1. \A x \in S : x.id \in Int /\ x.ts \in Int
  BY DEF Rows
<1>2. \A x, y \in S : x = y \/ DeviceFirst(x, y) \/ DeviceFirst(y, x)
  BY <1>1 DEF Rows, Earlier, DeviceFirst
<1>3. \A x, y, z \in S : DeviceFirst(x, y) /\ DeviceFirst(y, z) => DeviceFirst(x, z)
  BY <1>1 DEF Earlier, DeviceFirst
<1>4. \A x \in S : ~ DeviceFirst(x, x)
  BY <1>1 DEF Earlier, DeviceFirst
<1> QED
  BY <1>2, <1>3, <1>4

\* sorted() with that key puts every row in one place, too.
LEMMA OrderedIs ==
  ASSUME NEW S, Rows(S)
  PROVE  Lists(Ordered(S, DeviceFirst), S)
<1> DEFINE R == {p \in S \X S : DeviceFirst(p[1], p[2])}
           N == Cardinality(S)
           Good(q) == \A i, j \in DOMAIN q : i < j => DeviceFirst(q[i], q[j])
<1>1. \A x, y \in S : <<x, y>> \in R <=> DeviceFirst(x, y)
  OBVIOUS
<1> HIDE DEF R
<1>2. Transitive(R, S) /\ Irreflexive(R, S) /\ \A x, y \in S : x = y \/ <<x, y>> \in R \/ <<y, x>> \in R
  BY <1>1, DeviceFirstOrders DEF Transitive, Irreflexive
<1>3. IsFiniteSet(S)
  BY DEF Rows
<1>4. \E q \in [1 .. N -> S] : Good(q)
  <2>1. PICK q \in [1 .. N -> S] : \A i, j \in 1 .. N : i < j => <<q[i], q[j]>> \in R
    BY <1>2, <1>3, OrderExists
  <2>2. Good(q)
    BY <1>1, <2>1
  <2> QED
    BY <2>2
<1> DEFINE o == Ordered(S, DeviceFirst)
<1>5. o = CHOOSE q \in [1 .. N -> S] : Good(q)
  BY DEF Ordered
<1> HIDE DEF Good, o
<1>6. o \in [1 .. N -> S] /\ Good(o)
  BY <1>4, <1>5
<1>7. Follows(o, R, S)
  <2>1. \A i, j \in 1 .. N : i < j => DeviceFirst(o[i], o[j])
    BY <1>6 DEF Good
  <2> QED
    BY <1>1, <1>6, <2>1 DEF Follows
<1>8. Lists(o, S)
  BY <1>2, <1>3, <1>7, OrderOnto
<1> QED
  BY <1>8 DEF o

\* A set of numbers up to a bound has a greatest.
LEMMA MaxOf ==
  ASSUME NEW N \in Nat, NEW s \in SUBSET (0 .. N), s # {}
  PROVE  Max(s) \in s
<1> DEFINE Up == {m \in 0 .. N : \A y \in s : y <= m}
<1>1. Up \in SUBSET Nat /\ N \in Up
  OBVIOUS
<1> DEFINE m == Min(Up)
<1>2. m \in Up /\ \A k \in Up : m <= k
  <2> HIDE DEF Up
  <2> QED
    BY <1>1, LeastOf
<1> HIDE DEF m
<1>3. m \in 0 .. N /\ \A y \in s : y <= m
  BY <1>2
<1>4. m \in s
  <2> SUFFICES ASSUME m \notin s PROVE FALSE
    OBVIOUS
  <2>1. \A y \in s : y \in 0 .. N /\ y <= m - 1
    BY <1>3
  <2>4. PICK y \in s : y \in 0 .. N /\ y <= m - 1
    BY <2>1
  <2>2. m - 1 \in 0 .. N
    BY <1>3, <2>4
  <2>3. m - 1 \in Up
    BY <2>1, <2>2
  <2> HIDE DEF Up
  <2> QED
    BY <1>2, <1>3, <2>3
<1> DEFINE Greatest(z) == \A y \in s : z >= y
<1>5. m \in s /\ Greatest(m)
  BY <1>3, <1>4
<1>6. Max(s) = CHOOSE z \in s : Greatest(z)
  BY DEF Max
<1> HIDE DEF Greatest
<1> QED
  BY <1>5, <1>6

\* ... and so has one that begins with 1.
LEMMA MaxIn ==
  ASSUME NEW N \in Nat, NEW s \in SUBSET (1 .. N), s # {}
  PROVE  Max(s) \in s
<1>1. s \in SUBSET (0 .. N)
  OBVIOUS
<1> QED
  BY <1>1, MaxOf

-----------------------------------------------------------------------------
(* cluster_raises. *)

\* Between the rows at two places there is a gap: the row at the second of two
\* neighbours follows the first by more than the gap.
Break(q, gap, i) == q[i].ts - q[i - 1].ts > gap

\* The rows in order of time, at one place each.
LEMMA TimesGrow ==
  ASSUME NEW S, Rows(S), NEW q, q = InOrder(S), NEW N, N = Cardinality(S)
  PROVE  /\ N \in Nat /\ q \in [1 .. N -> S] /\ \A i \in 1 .. N : q[i].ts \in Int
         /\ \A i, j \in 1 .. N : i <= j => q[i].ts <= q[j].ts
         /\ \A i, j \in 1 .. N : q[i] = q[j] => i = j
         /\ \A x \in S : \E i \in 1 .. N : q[i] = x
<1>1. Lists(q, S) /\ \A i, j \in 1 .. N : i < j => Earlier(q[i], q[j])
  BY InOrderIs
<1>2. /\ N \in Nat /\ q \in [1 .. N -> S]
      /\ \A i, j \in 1 .. N : q[i] = q[j] => i = j
      /\ \A x \in S : \E i \in 1 .. N : q[i] = x
  BY <1>1 DEF Lists
<1>3. \A i \in 1 .. N : q[i].ts \in Int
  BY <1>2 DEF Rows
<1>4. ASSUME NEW i \in 1 .. N, NEW j \in 1 .. N, i <= j PROVE q[i].ts <= q[j].ts
  <2>1. CASE i = j
    BY <1>3, <2>1
  <2>2. CASE i < j
    <3>1. Earlier(q[i], q[j])
      BY <1>1, <2>2
    <3> QED
      BY <1>3, <3>1 DEF Earlier
  <2> QED
    BY <1>2, <1>4, <2>1, <2>2
<1> QED
  BY <1>2, <1>3, <1>4

\* Two rows are apart if there is a gap between their places.
LEMMA ApartIs ==
  ASSUME NEW S, Rows(S), NEW gap \in Nat, NEW q, q = InOrder(S), NEW N, N = Cardinality(S),
         NEW a \in 1 .. N, NEW b \in 1 .. N
  PROVE  Apart(S, q[a], q[b], gap) <=> \E i \in 2 .. N : a < i /\ i <= b /\ Break(q, gap, i)
<1>1. /\ N \in Nat /\ q \in [1 .. N -> S] /\ \A i \in 1 .. N : q[i].ts \in Int
      /\ \A i, j \in 1 .. N : i <= j => q[i].ts <= q[j].ts
      /\ \A x \in S : \E i \in 1 .. N : q[i] = x
  BY TimesGrow
<1>2. ASSUME NEW i \in 2 .. N, a < i, i <= b, Break(q, gap, i) PROVE Apart(S, q[a], q[b], gap)
  <2> DEFINE h == i - 1
  <2>1. h \in 1 .. N /\ i \in 1 .. N /\ a <= h /\ h < i
    BY <1>1, <1>2
  <2>2. q[i].ts - q[h].ts > gap
    BY <1>2 DEF Break
  <2> HIDE DEF h
  <2>3. q[a].ts <= q[h].ts /\ q[i].ts <= q[b].ts /\ q[h].ts < q[i].ts /\ q[h].ts + gap < q[i].ts
    BY <1>1, <1>2, <2>1, <2>2
  <2>4. ASSUME NEW y \in S PROVE y.ts <= q[h].ts \/ y.ts > q[h].ts + gap
    <3>1. PICK j \in 1 .. N : q[j] = y
      BY <1>1
    <3>2. CASE j <= h
      BY <1>1, <2>1, <3>1, <3>2
    <3>3. CASE i <= j
      <4>1. q[i].ts <= q[j].ts
        BY <1>1, <2>1, <3>3
      <4> QED
        BY <1>1, <2>1, <2>3, <3>1, <4>1, SMTT(20)
    <3>4. j <= h \/ i <= j
      BY <1>1, <2>1 DEF h
    <3> QED
      BY <3>2, <3>3, <3>4
  <2>5. q[h] \in S /\ q[a].ts <= q[h].ts /\ q[h].ts < q[b].ts
    <3>1. q[h] \in S /\ q[h].ts \in Int /\ q[i].ts \in Int /\ q[b].ts \in Int
      BY <1>1, <2>1
    <3> QED
      BY <2>3, <3>1
  <2> QED
    BY <2>4, <2>5 DEF Apart
<1>3. ASSUME Apart(S, q[a], q[b], gap) PROVE \E i \in 2 .. N : a < i /\ i <= b /\ Break(q, gap, i)
  <2>1. PICK x \in S : /\ q[a].ts <= x.ts /\ x.ts < q[b].ts
                            /\ \A y \in S : y.ts <= x.ts \/ y.ts > x.ts + gap
    BY <1>3 DEF Apart
  <2> DEFINE Later == {i \in 1 .. N : q[i].ts > x.ts}
  <2>2. x.ts \in Int /\ Later \in SUBSET Nat /\ b \in Later
    BY <1>1, <2>1 DEF Rows
  <2> DEFINE i == Min(Later)
  <2>3. i \in Later /\ \A j \in Later : i <= j
    <3> HIDE DEF Later
    <3> QED
      BY <2>2, LeastOf
  <2> HIDE DEF i
  <2>4. i \in 1 .. N /\ q[i].ts > x.ts /\ i <= b
    BY <2>2, <2>3
  <2>5. a < i
    <3> SUFFICES ASSUME i <= a PROVE FALSE
      BY <1>1, <2>4
    <3>1. q[i].ts <= q[a].ts
      BY <1>1, <2>4
    <3> QED
      BY <1>1, <2>1, <2>2, <2>4, <3>1
  <2>6. i - 1 \in 1 .. N /\ i \in 2 .. N
    BY <1>1, <2>4, <2>5
  <2>7. q[i - 1].ts <= x.ts
    <3>1. i - 1 \notin Later
      <4> HIDE DEF Later
      <4> QED
        BY <2>3, <2>6
    <3>2. ~ (q[i - 1].ts > x.ts)
      BY <2>6, <3>1
    <3> QED
      BY <1>1, <2>2, <2>6, <3>2
  <2>8. q[i].ts > x.ts + gap
    <3>1. q[i] \in S /\ q[i].ts \in Int
      BY <1>1, <2>4
    <3> QED
      BY <2>1, <2>2, <2>4, <3>1
  <2>9. Break(q, gap, i)
    <3>1. q[i].ts \in Int /\ q[i - 1].ts \in Int
      BY <1>1, <2>4, <2>6
    <3> QED
      BY <2>2, <2>7, <2>8, <3>1 DEF Break
  <2> QED
    BY <2>4, <2>5, <2>6, <2>9
<1> QED
  BY <1>2, <1>3

\* A row of N members of S.
Filled(q, N, S) == N \in Nat /\ q \in [1 .. N -> S]

\* What cluster_raises has made of the rows before each place.
ClusterSteps(h, gap, q, N) ==
  /\ h[0] = <<>>
  /\ \A n \in 1 .. N : h[n] = Extended(gap, h[n - 1], q[n])
  /\ Clusters(q, gap) = h[N]

\* That is what its loop computes.
LEMMA ClusterFold ==
  ASSUME NEW S, NEW gap, NEW N, NEW q, Filled(q, N, S)
  PROVE  \E h : ClusterSteps(h, gap, q, N)
<1> DEFINE T == Seq(Seq(S))
           F == [p \in T \X (1 .. N) |-> Extended(gap, p[1], q[p[2]])]
           none == <<>>
           Body(g, s) == IF s = {} THEN <<>> ELSE Extended(gap, g[s \ {Max(s)}], q[Max(s)])
           Solves(g) == g = [s \in SUBSET (1 .. N) |-> Body(g, s)]
<1> N \in Nat /\ q \in [1 .. N -> S]
  BY DEF Filled
<1>1. ASSUME NEW cs \in T, NEW r \in S PROVE Extended(gap, cs, r) \in T
  <2>1. <<r>> \in Seq(S)
    OBVIOUS
  <2>2. Append(cs, <<r>>) \in T
    BY <2>1
  <2>3. CASE cs # <<>>
    <3>1. Len(cs) \in DOMAIN cs /\ cs[Len(cs)] \in Seq(S)
      BY <2>3
    <3>2. Append(cs[Len(cs)], r) \in Seq(S)
      BY <3>1
    <3>3. [cs EXCEPT ![Len(cs)] = Append(@, r)] \in T
      BY <3>1, <3>2
    <3> QED
      BY <2>2, <3>3 DEF Extended
  <2>4. CASE cs = <<>>
    BY <2>2, <2>4 DEF Extended
  <2> QED
    BY <2>3, <2>4
<1>2. F \in [T \X (1 .. N) -> T] /\ none \in T
  <2>1. \A p \in T \X (1 .. N) : Extended(gap, p[1], q[p[2]]) \in T
    <3> SUFFICES ASSUME NEW p \in T \X (1 .. N) PROVE Extended(gap, p[1], q[p[2]]) \in T
      OBVIOUS
    <3>1. p[1] \in T /\ q[p[2]] \in S
      OBVIOUS
    <3> HIDE DEF T
    <3> QED
      BY <1>1, <3>1
  <2> HIDE DEF T
  <2>2. F \in [T \X (1 .. N) -> T]
    BY <2>1
  <2> QED
    BY <2>2 DEF T
<1> HIDE DEF T
<1>3. PICK f : Folding(f, T, none, F, N)
  <2> HIDE DEF F, none
  <2> QED
    BY <1>2, FoldExists
<1>12. /\ f \in [SUBSET (1 .. N) -> T]
       /\ \A s \in SUBSET (1 .. N) : f[s] = IF s = {} THEN <<>> ELSE F[<<f[s \ {Max(s)}], Max(s)>>]
  BY <1>3, Zenon DEF Folding
<1>4. ASSUME NEW s \in SUBSET (1 .. N) PROVE f[s] = Body(f, s)
  <2>1. CASE s = {}
    BY <1>12, <2>1
  <2>2. CASE s # {}
    <3>1. Max(s) \in 1 .. N
      BY <2>2, MaxIn
    <3>2. s \ {Max(s)} \in SUBSET (1 .. N) /\ f[s \ {Max(s)}] \in T
      <4>1. s \ {Max(s)} \in SUBSET (1 .. N)
        OBVIOUS
      <4> QED
        BY <1>12, <4>1
    <3>3. <<f[s \ {Max(s)}], Max(s)>> \in T \X (1 .. N)
      BY <3>1, <3>2
    <3>4. F[<<f[s \ {Max(s)}], Max(s)>>] = Extended(gap, f[s \ {Max(s)}], q[Max(s)])
      BY <3>3
    <3> HIDE DEF F
    <3> QED
      BY <1>12, <2>2, <3>4
  <2> QED
    BY <2>1, <2>2
<1>5. Solves(f)
  <2>1. f = [s \in SUBSET (1 .. N) |-> f[s]]
    BY <1>12
  <2> HIDE DEF Body
  <2> QED
    BY <1>4, <2>1
<1> DEFINE g == CHOOSE e : Solves(e)
<1>6. Clusters(q, gap) = g[1 .. N]
  <2>1. DOMAIN q = 1 .. N
    OBVIOUS
  <2>2. Clusters(q, gap) =
          (CHOOSE e : e = [s \in SUBSET DOMAIN q |-> Body(e, s)])[DOMAIN q]
    BY DEF Clusters, FoldLeft, MapThenFoldSet
  <2> HIDE DEF Body
  <2> QED
    BY <2>1, <2>2
<1>7. Solves(g)
  <2> HIDE DEF Solves
  <2> QED
    BY <1>5
<1> HIDE DEF g
<1>8. \A s \in SUBSET (1 .. N) : g[s] = Body(g, s)
  <2> HIDE DEF Body
  <2> QED
    BY <1>7
<1> DEFINE h == [n \in 0 .. N |-> g[1 .. n]]
<1>9. h[0] = <<>>
  <2>1. 1 .. 0 = {} /\ {} \in SUBSET (1 .. N) /\ 0 \in 0 .. N
    OBVIOUS
  <2> QED
    BY <1>8, <2>1
<1>10. ASSUME NEW n \in 1 .. N PROVE h[n] = Extended(gap, h[n - 1], q[n])
  <2>1. /\ 1 .. n \in SUBSET (1 .. N) /\ 1 .. n # {}
        /\ Max(1 .. n) = n /\ (1 .. n) \ {n} = 1 .. n - 1
    BY PrefixOf
  <2>2. g[1 .. n] = Extended(gap, g[1 .. n - 1], q[n])
    BY <1>8, <2>1
  <2>3. n \in 0 .. N /\ n - 1 \in 0 .. N
    OBVIOUS
  <2> QED
    BY <2>2, <2>3
<1>11. h[N] = g[1 .. N]
  OBVIOUS
<1> HIDE DEF h
<1>13. ClusterSteps(h, gap, q, N)
  BY <1>6, <1>9, <1>10, <1>11 DEF ClusterSteps
<1> QED
  BY <1>13

\* Rows next to each other.
Slice(q, a, b) == [k \in 1 .. b - a + 1 |-> q[a + k - 1]]

\* A slice has its length and its ends, and grows by the next row.
LEMMA SliceIs ==
  ASSUME NEW S, NEW N, NEW q, Filled(q, N, S), NEW a \in 1 .. N, NEW b \in a .. N
  PROVE  /\ Slice(q, a, b) \in Seq(S) /\ Len(Slice(q, a, b)) = b - a + 1
         /\ Slice(q, a, b) # <<>> /\ Last(Slice(q, a, b)) = q[b]
         /\ Range(Slice(q, a, b)) = {q[j] : j \in a .. b}
         /\ b < N => Append(Slice(q, a, b), q[b + 1]) = Slice(q, a, b + 1)
         /\ <<q[a]>> = Slice(q, a, a)
<1> DEFINE n == b - a + 1
           s == Slice(q, a, b)
<1> N \in Nat /\ q \in [1 .. N -> S]
  BY DEF Filled
<1>1. n \in Nat /\ n >= 1 /\ \A k \in 1 .. n : a + k - 1 \in 1 .. N /\ a + k - 1 \in a .. b
  OBVIOUS
<1>2. s = [k \in 1 .. n |-> q[a + k - 1]] /\ \A k \in 1 .. n : s[k] = q[a + k - 1] /\ s[k] \in S
  BY <1>1 DEF Slice
<1>3. s \in [1 .. n -> S]
  <2> HIDE DEF n, s
  <2> QED
    BY <1>2
<1>4. s \in Seq(S) /\ Len(s) = n
  <2> HIDE DEF n, s
  <2> QED
    BY <1>1, <1>3
<1>5. s # <<>>
  BY <1>1, <1>4
<1>6. Last(s) = q[b]
  <2>1. a + n - 1 = b
    OBVIOUS
  <2>2. Last(s) = s[n]
    BY <1>4 DEF Last
  <2>3. s[n] = q[a + n - 1]
    BY <1>1, <1>2
  <2> QED
    BY <2>1, <2>2, <2>3
<1>7. Range(s) = {q[j] : j \in a .. b}
  <2>1. Range(s) = {s[k] : k \in 1 .. n}
    BY <1>2 DEF Range
  <2>2. ASSUME NEW j \in a .. b PROVE \E k \in 1 .. n : s[k] = q[j]
    <3> DEFINE k == j - a + 1
    <3>1. k \in 1 .. n /\ a + k - 1 = j
      OBVIOUS
    <3> QED
      BY <1>2, <3>1
  <2>3. \A k \in 1 .. n : s[k] = q[a + k - 1] /\ a + k - 1 \in a .. b
    BY <1>1, <1>2
  <2> HIDE DEF n, s
  <2> QED
    BY <2>1, <2>2, <2>3
<1>8. ASSUME b < N PROVE Append(s, q[b + 1]) = Slice(q, a, b + 1)
  <2> DEFINE t == Append(s, q[b + 1])
             u == Slice(q, a, b + 1)
  <2>1. u = [k \in 1 .. n + 1 |-> q[a + k - 1]]
    <3>1. (b + 1) - a + 1 = n + 1
      OBVIOUS
    <3> QED
      BY <3>1 DEF Slice
  <2>2. b + 1 \in 1 .. N /\ q[b + 1] \in S /\ a + (n + 1) - 1 = b + 1
    BY <1>8
  <2>3. t \in [1 .. n + 1 -> S] /\ t[n + 1] = q[b + 1] /\ \A k \in 1 .. n : t[k] = s[k]
    <3> HIDE DEF s, n
    <3>1. t \in Seq(S) /\ Len(t) = n + 1
      BY <1>1, <1>4, <2>2
    <3>2. t[n + 1] = q[b + 1] /\ \A k \in 1 .. n : t[k] = s[k]
      BY <1>1, <1>4, <2>2
    <3> HIDE DEF t
    <3>3. t \in [1 .. n + 1 -> S]
      BY <3>1
    <3> QED
      BY <3>2, <3>3
  <2>4. \A k \in 1 .. n + 1 : t[k] = q[a + k - 1]
    <3> HIDE DEF t, s
    <3> SUFFICES ASSUME NEW k \in 1 .. n + 1 PROVE t[k] = q[a + k - 1]
      OBVIOUS
    <3>1. CASE k \in 1 .. n
      BY <1>2, <2>3, <3>1
    <3>2. CASE k = n + 1
      BY <2>2, <2>3, <3>2
    <3>3. k \in 1 .. n \/ k = n + 1
      <4> HIDE DEF n
      <4> QED
        BY <1>1
    <3> QED
      BY <3>1, <3>2, <3>3
  <2>5. t = [k \in 1 .. n + 1 |-> t[k]]
    BY <2>3
  <2> HIDE DEF t, u, n
  <2> QED
    BY <2>1, <2>4, <2>5 DEF t, u
<1>9. <<q[a]>> = Slice(q, a, a)
  <2>1. a - a + 1 = 1 /\ a + 1 - 1 = a
    OBVIOUS
  <2>2. Slice(q, a, a) = [k \in 1 .. 1 |-> q[a + k - 1]]
    BY <2>1 DEF Slice
  <2>3. \A k \in 1 .. 1 : k = 1 /\ q[a + k - 1] = q[a]
    OBVIOUS
  <2>4. <<q[a]>> = [k \in 1 .. 1 |-> q[a]]
    OBVIOUS
  <2> QED
    BY <2>2, <2>3, <2>4
<1> QED
  BY <1>4, <1>5, <1>6, <1>7, <1>8, <1>9

\* The same by part, as the proofs below cite it.
LEMMA SliceEnds ==
  ASSUME NEW S, NEW N, NEW q, Filled(q, N, S), NEW a \in 1 .. N, NEW b \in a .. N
  PROVE  Last(Slice(q, a, b)) = q[b] /\ Slice(q, a, b) \in Seq(S)
BY SliceIs

\* A slice of one row.
LEMMA SliceOne ==
  ASSUME NEW S, NEW N, NEW q, Filled(q, N, S), NEW a \in 1 .. N
  PROVE  <<q[a]>> = Slice(q, a, a)
<1>1. a \in a .. N
  BY DEF Filled
<1> QED
  BY <1>1, SliceIs

\* A slice and the row after it.
LEMMA SliceGrows ==
  ASSUME NEW S, NEW N, NEW q, Filled(q, N, S), NEW a \in 1 .. N, NEW b \in a .. N, b < N
  PROVE  Append(Slice(q, a, b), q[b + 1]) = Slice(q, a, b + 1)
BY SliceIs

\* The rows of a slice, as many as there are places.
LEMMA SliceRange ==
  ASSUME NEW S, NEW N, NEW q, Filled(q, N, S), NEW a \in 1 .. N, NEW b \in a .. N
  PROVE  /\ \A x : x \in Range(Slice(q, a, b)) <=> \E j \in a .. b : x = q[j]
         /\ Len(Slice(q, a, b)) = b - a + 1
BY SliceIs

\* Of the first n rows, those from one gap to the next.
IsRun(q, gap, a, b, n) ==
  /\ a \in 1 .. n /\ b \in a .. n
  /\ \A i \in a + 1 .. b : ~ Break(q, gap, i)
  /\ a = 1 \/ Break(q, gap, a)
  /\ b = n \/ Break(q, gap, b + 1)

\* A run of all rows is the group around each of its rows.
LEMMA RunIsAround ==
  ASSUME NEW S, Rows(S), NEW gap \in Nat, NEW q, q = InOrder(S), NEW N, N = Cardinality(S),
         NEW a, NEW b, IsRun(q, gap, a, b, N), NEW j \in a .. b
  PROVE  {q[k] : k \in a .. b} = Around(S, q[j], gap)
<1>1. /\ N \in Nat /\ q \in [1 .. N -> S]
      /\ \A x \in S : \E i \in 1 .. N : q[i] = x
  BY TimesGrow
<1>2. a \in 1 .. N /\ b \in 1 .. N /\ j \in 1 .. N /\ a <= j /\ j <= b
  BY <1>1 DEF IsRun
<1>3. ASSUME NEW k \in 1 .. N
      PROVE  Together(S, q[j], q[k], gap) <=>
               ~ \E i \in 2 .. N : ((j < i /\ i <= k) \/ (k < i /\ i <= j)) /\ Break(q, gap, i)
  <2>1. /\ Apart(S, q[j], q[k], gap) <=> \E i \in 2 .. N : j < i /\ i <= k /\ Break(q, gap, i)
        /\ Apart(S, q[k], q[j], gap) <=> \E i \in 2 .. N : k < i /\ i <= j /\ Break(q, gap, i)
    BY <1>2, ApartIs
  <2> QED
    BY <2>1 DEF Together
<1>4. ASSUME NEW k \in a .. b PROVE k \in 1 .. N /\ Together(S, q[j], q[k], gap)
  <2>1. k \in 1 .. N
    BY <1>1, <1>2
  <2>2. ASSUME NEW i \in 2 .. N, (j < i /\ i <= k) \/ (k < i /\ i <= j) PROVE ~ Break(q, gap, i)
    <3>1. i \in a + 1 .. b
      BY <1>1, <1>2, <2>1, <2>2
    <3> QED
      BY <3>1 DEF IsRun
  <2> QED
    BY <1>3, <2>1, <2>2
<1>5. ASSUME NEW k \in 1 .. N, Together(S, q[j], q[k], gap) PROVE k \in a .. b
  <2>1. \A i \in 2 .. N : ((j < i /\ i <= k) \/ (k < i /\ i <= j)) => ~ Break(q, gap, i)
    BY <1>3, <1>5
  <2>2. ASSUME k < a PROVE FALSE
    <3>1. a \in 2 .. N /\ k < a /\ a <= j
      BY <1>1, <1>2, <2>2
    <3>2. Break(q, gap, a)
      BY <3>1 DEF IsRun
    <3> QED
      BY <2>1, <3>1, <3>2
  <2>3. ASSUME k > b PROVE FALSE
    <3>1. b + 1 \in 2 .. N /\ j < b + 1 /\ b + 1 <= k /\ b # N
      BY <1>1, <1>2, <2>3
    <3>2. Break(q, gap, b + 1)
      BY <3>1 DEF IsRun
    <3> QED
      BY <2>1, <3>1, <3>2
  <2> QED
    BY <1>1, <1>2, <2>2, <2>3
<1>6. Around(S, q[j], gap) = {s \in S : Together(S, q[j], s, gap)}
  BY DEF Around
<1> QED
  BY <1>1, <1>4, <1>5, <1>6

\* The clusters of the first n rows are the runs of them, the last run last.
Parted(cs, S, q, gap, n) ==
  /\ cs \in Seq(Seq(S))
  /\ n = 0 <=> cs = <<>>
  /\ \A m \in 1 .. Len(cs) : \E a, b \in 1 .. n :
       /\ IsRun(q, gap, a, b, n) /\ cs[m] = Slice(q, a, b)
       /\ b = n <=> m = Len(cs)
  /\ \A j \in 1 .. n : \E m \in 1 .. Len(cs) : q[j] \in Range(cs[m])

\* Of no rows there are no clusters.
LEMMA PartedBegin ==
  ASSUME NEW S, NEW q, NEW gap
  PROVE  Parted(<<>>, S, q, gap, 0)
<1>1. 1 .. 0 = {} /\ Len(<<>>) = 0 /\ <<>> \in Seq(Seq(S))
  OBVIOUS
<1> QED
  BY <1>1 DEF Parted

\* The next row extends the last run or begins another: cluster_raises.
LEMMA PartedStep ==
  ASSUME NEW S, NEW gap, NEW N, NEW q, Filled(q, N, S),
         NEW n \in 0 .. N, n < N, NEW cs, Parted(cs, S, q, gap, n)
  PROVE  Parted(Extended(gap, cs, q[n + 1]), S, q, gap, n + 1)
<1> DEFINE L == Len(cs)
           x == q[n + 1]
           new == Extended(gap, cs, x)
<1>8. ASSUME NEW a \in 1 .. N, NEW d \in a .. N
      PROVE  \A y : y \in Range(Slice(q, a, d)) <=> \E j \in a .. d : y = q[j]
  BY SliceRange
<1> N \in Nat /\ q \in [1 .. N -> S]
  BY DEF Filled
<1>1. /\ cs \in Seq(Seq(S)) /\ L \in Nat /\ n \in Nat /\ n + 1 \in 1 .. N /\ x \in S
      /\ DOMAIN cs = 1 .. L
  <2>1. cs \in Seq(Seq(S))
    BY DEF Parted
  <2>2. L \in Nat /\ DOMAIN cs = 1 .. L
    BY <2>1
  <2>3. n \in Nat /\ n + 1 \in 1 .. N
    OBVIOUS
  <2> QED
    BY <2>1, <2>2, <2>3
<1>2. ASSUME NEW a, NEW b, IsRun(q, gap, a, b, n)
      PROVE  a \in 1 .. N /\ b \in a .. N /\ a \in 1 .. n /\ b \in a .. n
  BY <1>1, <1>2 DEF IsRun
<1>3. <<x>> = Slice(q, n + 1, n + 1) /\ <<x>> \in Seq(S) /\ x \in Range(<<x>>)
  <2>1. <<x>> = Slice(q, n + 1, n + 1)
    BY <1>1, SliceOne
  <2>2. x \in Range(<<x>>)
    BY DEF Range
  <2> QED
    BY <1>1, <2>1, <2>2
<1>4. ASSUME n = 0 \/ Break(q, gap, n + 1), new = Append(cs, <<x>>)
      PROVE  Parted(new, S, q, gap, n + 1)
  <2>1. /\ new \in Seq(Seq(S)) /\ Len(new) = L + 1 /\ new[L + 1] = <<x>>
        /\ \A m \in 1 .. L : new[m] = cs[m]
    <3> HIDE DEF new
    <3> QED
      BY <1>1, <1>3, <1>4
  <2> HIDE DEF new
  <2>2. IsRun(q, gap, n + 1, n + 1, n + 1)
    <3>1. n + 1 \in 1 .. n + 1 /\ n + 1 \in (n + 1) .. (n + 1) /\ (n + 1) + 1 .. n + 1 = {}
      BY <1>1
    <3>2. n + 1 = 1 \/ Break(q, gap, n + 1)
      BY <1>1, <1>4
    <3> QED
      BY <3>1, <3>2 DEF IsRun
  <2>3. ASSUME NEW a, NEW b, IsRun(q, gap, a, b, n)
        PROVE  IsRun(q, gap, a, b, n + 1) /\ a \in 1 .. n + 1 /\ b \in 1 .. n + 1 /\ b # n + 1
    <3>1. a \in 1 .. n + 1 /\ b \in a .. n + 1 /\ b \in 1 .. n + 1 /\ b # n + 1 /\ n # 0
      BY <1>1, <1>2, <2>3
    <3>2. Break(q, gap, b + 1)
      BY <1>4, <2>3, <3>1 DEF IsRun
    <3> QED
      BY <2>3, <3>1, <3>2 DEF IsRun
  <2>4. ASSUME NEW m \in 1 .. L + 1
        PROVE  \E a, b \in 1 .. n + 1 : /\ IsRun(q, gap, a, b, n + 1) /\ new[m] = Slice(q, a, b)
                                        /\ (b = n + 1 <=> m = L + 1)
    <3>1. CASE m = L + 1
      <4>1. n + 1 \in 1 .. n + 1
        BY <1>1
      <4> QED
        BY <1>3, <2>1, <2>2, <3>1, <4>1
    <3>2. CASE m # L + 1
      <4>1. m \in 1 .. L
        BY <1>1, <3>2
      <4>2. PICK a, b \in 1 .. n : IsRun(q, gap, a, b, n) /\ cs[m] = Slice(q, a, b)
        BY <4>1 DEF Parted
      <4>3. IsRun(q, gap, a, b, n + 1) /\ a \in 1 .. n + 1 /\ b \in 1 .. n + 1 /\ b # n + 1
        BY <2>3, <4>2
      <4> QED
        BY <2>1, <3>2, <4>1, <4>2, <4>3
    <3> QED
      BY <3>1, <3>2
  <2>5. ASSUME NEW j \in 1 .. n + 1 PROVE \E m \in 1 .. L + 1 : q[j] \in Range(new[m])
    <3>1. CASE j = n + 1
      <4>1. L + 1 \in 1 .. L + 1
        BY <1>1
      <4> QED
        BY <1>3, <2>1, <3>1, <4>1
    <3>2. CASE j # n + 1
      <4>1. j \in 1 .. n
        BY <1>1, <3>2
      <4>2. PICK m \in 1 .. L : q[j] \in Range(cs[m])
        BY <4>1 DEF Parted
      <4>3. m \in 1 .. L + 1
        BY <1>1
      <4> QED
        BY <2>1, <4>2, <4>3
    <3> QED
      BY <3>1, <3>2
  <2>6. n + 1 = 0 <=> new = <<>>
    <3>1. n + 1 # 0 /\ Len(new) # 0
      BY <1>1, <2>1
    <3>2. new # <<>>
      BY <3>1
    <3> QED
      BY <3>1, <3>2
  <2> HIDE DEF L, x
  <2> QED
    BY <2>1, <2>4, <2>5, <2>6 DEF Parted
<1>5. ASSUME n # 0, ~ Break(q, gap, n + 1), new = [cs EXCEPT ![L] = Append(@, x)]
      PROVE  Parted(new, S, q, gap, n + 1)
  <2>1. L # 0 /\ L \in 1 .. L
    <3>1. cs # <<>>
      BY <1>5 DEF Parted
    <3> QED
      BY <1>1, <3>1
  <2>2. /\ new \in Seq(Seq(S)) /\ Len(new) = L /\ new[L] = Append(cs[L], x)
        /\ \A m \in 1 .. L : m # L => new[m] = cs[m]
    <3>1. cs[L] \in Seq(S)
      BY <1>1, <2>1
    <3>2. Append(cs[L], x) \in Seq(S)
      BY <1>1, <3>1
    <3> DEFINE e == Append(cs[L], x)
    <3>3. new = [cs EXCEPT ![L] = e]
      BY <1>5
    <3> HIDE DEF new, e, x, L
    <3> QED
      BY <1>1, <2>1, <3>2, <3>3 DEF e
  <2> HIDE DEF new
  <2>3. PICK a, b \in 1 .. n : IsRun(q, gap, a, b, n) /\ cs[L] = Slice(q, a, b) /\ b = n
    BY <2>1 DEF Parted
  <2>4. new[L] = Slice(q, a, n + 1)
    <3>1. a \in 1 .. N /\ n \in a .. N /\ n < N
      BY <1>1, <1>2, <2>3
    <3>2. Append(Slice(q, a, n), q[n + 1]) = Slice(q, a, n + 1)
      BY <3>1, SliceGrows
    <3> QED
      BY <2>2, <2>3, <3>2
  <2>5. IsRun(q, gap, a, n + 1, n + 1)
    <3>1. a \in 1 .. n + 1 /\ n + 1 \in a .. n + 1
      BY <1>1, <2>3
    <3>2. \A i \in a + 1 .. n + 1 : i \in a + 1 .. n \/ i = n + 1
      BY <1>1, <2>3
    <3>3. (\A i \in a + 1 .. n : ~ Break(q, gap, i)) /\ (a = 1 \/ Break(q, gap, a))
      BY <2>3 DEF IsRun
    <3> QED
      BY <1>5, <3>1, <3>2, <3>3 DEF IsRun
  <2>6. ASSUME NEW m \in 1 .. L
        PROVE  \E c, d \in 1 .. n + 1 : /\ IsRun(q, gap, c, d, n + 1) /\ new[m] = Slice(q, c, d)
                                        /\ (d = n + 1 <=> m = L)
    <3>1. CASE m = L
      <4>1. a \in 1 .. n + 1 /\ n + 1 \in 1 .. n + 1
        BY <1>1, <2>3
      <4> QED
        BY <2>4, <2>5, <3>1, <4>1
    <3>2. CASE m # L
      <4>1. PICK c, d \in 1 .. n : IsRun(q, gap, c, d, n) /\ cs[m] = Slice(q, c, d) /\ d # n
        BY <3>2 DEF Parted
      <4>2. c \in 1 .. n + 1 /\ d \in c .. n + 1 /\ d \in 1 .. n + 1 /\ d # n + 1
        BY <1>1, <1>2, <4>1
      <4>3. IsRun(q, gap, c, d, n + 1)
        BY <4>1, <4>2 DEF IsRun
      <4> QED
        BY <2>2, <3>2, <4>1, <4>2, <4>3
    <3> QED
      BY <3>1, <3>2
  <2>7. /\ \A y : y \in Range(Slice(q, a, n + 1)) <=> \E j \in a .. n + 1 : y = q[j]
        /\ \A y : y \in Range(cs[L]) <=> \E j \in a .. n : y = q[j]
    <3>1. a \in 1 .. N /\ n \in a .. N /\ n + 1 \in a .. N
      BY <1>1, <1>2, <2>3
    <3>3. \A y : y \in Range(Slice(q, a, n)) <=> \E j \in a .. n : y = q[j]
      BY <1>8, <3>1
    <3>4. \A y : y \in Range(Slice(q, a, n + 1)) <=> \E j \in a .. n + 1 : y = q[j]
      BY <1>8, <3>1
    <3> QED
      BY <2>3, <3>3, <3>4
  <2>8. ASSUME NEW j \in 1 .. n + 1 PROVE \E m \in 1 .. L : q[j] \in Range(new[m])
    <3>1. CASE j = n + 1
      <4>1. n + 1 \in a .. n + 1
        BY <1>1, <2>3
      <4> QED
        BY <2>1, <2>4, <2>7, <3>1, <4>1
    <3>2. CASE j # n + 1
      <4>1. j \in 1 .. n
        BY <1>1, <3>2
      <4>2. PICK m \in 1 .. L : q[j] \in Range(cs[m])
        BY <4>1 DEF Parted
      <4>3. CASE m = L
        <5>1. \A i \in a .. n : i \in a .. n + 1
          BY <1>1, <2>3
        <5> QED
          BY <2>4, <2>7, <4>2, <4>3, <5>1
      <4>4. CASE m # L
        BY <2>2, <4>2, <4>4
      <4> QED
        BY <4>3, <4>4
    <3> QED
      BY <3>1, <3>2
  <2>9. n + 1 = 0 <=> new = <<>>
    <3>1. n + 1 # 0 /\ Len(new) = L /\ L # 0
      <4>1. n + 1 # 0
        BY <1>1
      <4> HIDE DEF L
      <4> QED
        BY <2>1, <2>2, <4>1
    <3>2. new # <<>>
      <4> HIDE DEF L
      <4> QED
        BY <3>1
    <3> QED
      BY <3>1, <3>2
  <2> HIDE DEF L, x
  <2> QED
    BY <2>2, <2>6, <2>8, <2>9 DEF Parted
<1>6. CASE n = 0
  <2>1. cs = <<>>
    BY <1>6 DEF Parted
  <2>2. new = Append(cs, <<x>>)
    BY <2>1 DEF Extended
  <2> QED
    BY <1>4, <1>6, <2>2
<1>7. CASE n # 0
  <2>1. cs # <<>> /\ L \in 1 .. L
    <3>1. cs # <<>>
      BY <1>7 DEF Parted
    <3> QED
      BY <1>1, <3>1
  <2>2. PICK a, b \in 1 .. n : IsRun(q, gap, a, b, n) /\ cs[L] = Slice(q, a, b) /\ b = n
    BY <2>1 DEF Parted
  <2>3. Last(Last(cs)) = q[n]
    <3>1. a \in 1 .. N /\ n \in a .. N
      BY <1>1, <1>2, <2>2
    <3>2. Last(Slice(q, a, n)) = q[n]
      BY <3>1, SliceEnds
    <3> QED
      BY <2>2, <3>2 DEF Last
  <2>4. Break(q, gap, n + 1) <=> x.ts - q[n].ts > gap
    <3>1. (n + 1) - 1 = n
      BY <1>1
    <3> QED
      BY <3>1 DEF Break
  <2>5. new = IF x.ts - q[n].ts > gap THEN Append(cs, <<x>>) ELSE [cs EXCEPT ![L] = Append(@, x)]
    BY <2>1, <2>3 DEF Extended
  <2>6. CASE Break(q, gap, n + 1)
    <3>1. new = Append(cs, <<x>>)
      BY <2>4, <2>5, <2>6
    <3> QED
      BY <1>4, <2>6, <3>1
  <2>7. CASE ~ Break(q, gap, n + 1)
    <3>1. new = [cs EXCEPT ![L] = Append(@, x)]
      BY <2>4, <2>5, <2>7
    <3> QED
      BY <1>5, <1>7, <2>7, <3>1
  <2> QED
    BY <2>6, <2>7
<1> QED
  BY <1>6, <1>7

\* The clusters of all rows are the groups the gaps leave.
LEMMA ClustersAreGroups ==
  ASSUME NEW S, Rows(S), NEW gap \in Nat, NEW all,
         all = Range(Clusters(InOrder(S), gap))
  PROVE  /\ {Range(c) : c \in all} = {Around(S, r, gap) : r \in S}
         /\ \A c \in all : /\ Range(c) \in SUBSET S /\ Range(c) # {}
                           /\ Len(c) = Cardinality(Range(c))
<1> DEFINE q == InOrder(S)
           N == Cardinality(S)
<1> HIDE DEF q, N
<1>1. /\ N \in Nat /\ q \in [1 .. N -> S]
      /\ \A i, j \in 1 .. N : q[i] = q[j] => i = j
      /\ \A x \in S : \E i \in 1 .. N : q[i] = x
  BY TimesGrow DEF q, N
<1>13. Filled(q, N, S)
  BY <1>1 DEF Filled
<1>14. PICK h : ClusterSteps(h, gap, q, N)
  BY <1>13, ClusterFold
<1>2. /\ h[0] = <<>>
      /\ \A n \in 1 .. N : h[n] = Extended(gap, h[n - 1], q[n])
      /\ Clusters(q, gap) = h[N]
  BY <1>14 DEF ClusterSteps
<1> DEFINE G == {n \in 0 .. N : Parted(h[n], S, q, gap, n)}
<1>3. 0 \in G
  BY <1>1, <1>2, PartedBegin
<1>4. \A n \in 0 .. N : n \in G /\ n < N => n + 1 \in G
  <2> SUFFICES ASSUME NEW n \in 0 .. N, n \in G, n < N PROVE n + 1 \in G
    OBVIOUS
  <2>1. n + 1 \in 1 .. N /\ n + 1 \in 0 .. N /\ (n + 1) - 1 = n
    BY <1>1
  <2>2. h[n + 1] = Extended(gap, h[n], q[n + 1])
    BY <1>2, <2>1
  <2>3. Parted(h[n], S, q, gap, n)
    OBVIOUS
  <2>4. Parted(Extended(gap, h[n], q[n + 1]), S, q, gap, n + 1)
    BY <1>13, <2>3, PartedStep
  <2> QED
    BY <2>1, <2>2, <2>4
<1>5. N \in G
  <2>1. N \in Nat
    BY <1>1
  <2> HIDE DEF G
  <2>2. \A n \in 0 .. N : n \in G
    BY <1>3, <1>4, <2>1, InductionUpTo
  <2> QED
    BY <2>1, <2>2
<1> DEFINE cs == h[N]
<1>6. Parted(cs, S, q, gap, N)
  BY <1>5
<1>7. all = Range(cs)
  BY <1>2 DEF q
<1> HIDE DEF G, cs
<1>8. all = {cs[m] : m \in 1 .. Len(cs)}
  <2>1. DOMAIN cs = 1 .. Len(cs)
    BY <1>6 DEF Parted
  <2> QED
    BY <1>7, <2>1 DEF Range
<1>9. ASSUME NEW c \in all
      PROVE  \E a, b \in 1 .. N : /\ IsRun(q, gap, a, b, N) /\ a <= b /\ c = Slice(q, a, b)
                                  /\ Range(c) = {q[j] : j \in a .. b}
  <2>1. PICK a, b \in 1 .. N : IsRun(q, gap, a, b, N) /\ c = Slice(q, a, b)
    <3>1. PICK m \in 1 .. Len(cs) : c = cs[m]
      BY <1>8
    <3> QED
      BY <1>6, <3>1 DEF Parted
  <2>2. b \in a .. N /\ a <= b
    BY <1>1, <2>1 DEF IsRun
  <2>3. Range(c) = {q[j] : j \in a .. b}
    <3>1. \A y : y \in Range(Slice(q, a, b)) <=> \E j \in a .. b : y = q[j]
      BY <1>13, <2>2, SliceRange
    <3> QED
      BY <2>1, <3>1
  <2> QED
    BY <2>1, <2>2, <2>3
<1>10. ASSUME NEW c \in all
       PROVE  /\ Range(c) \in SUBSET S /\ Range(c) # {} /\ Len(c) = Cardinality(Range(c))
              /\ \A r \in Range(c) : Range(c) = Around(S, r, gap)
  <2>1. PICK a, b \in 1 .. N : /\ IsRun(q, gap, a, b, N) /\ a <= b /\ c = Slice(q, a, b)
                               /\ Range(c) = {q[j] : j \in a .. b}
    BY <1>9
  <2>2. a \in a .. b /\ b \in a .. N /\ \A j \in a .. b : j \in 1 .. N
    BY <1>1, <2>1
  <2>3. Range(c) \in SUBSET S /\ Range(c) # {}
    BY <1>1, <2>1, <2>2
  <2>4. Len(c) = b - a + 1
    <3>1. Len(Slice(q, a, b)) = b - a + 1
      BY <1>13, <2>2, SliceRange
    <3> QED
      BY <2>1, <3>1
  <2>5. Cardinality(Range(c)) = b - a + 1
    <3> DEFINE f == [j \in a .. b |-> q[j]]
    <3>1. f \in Bijection(a .. b, Range(c))
      <4>1. f \in [a .. b -> Range(c)]
        BY <2>1
      <4>2. \A i, j \in a .. b : f[i] = f[j] => i = j
        BY <1>1, <2>2
      <4>3. \A x \in Range(c) : \E j \in a .. b : f[j] = x
        BY <2>1
      <4> HIDE DEF f
      <4> QED
        BY <4>1, <4>2, <4>3 DEF Bijection, Injection, Surjection, IsInjective
    <3>2. ExistsBijection(a .. b, Range(c))
      BY <3>1 DEF ExistsBijection
    <3>3. IsFiniteSet(a .. b) /\ Cardinality(a .. b) = b - a + 1
      BY <1>1, <2>1, FS_Interval
    <3> QED
      BY <3>2, <3>3, FS_Bijection
  <2>6. ASSUME NEW r \in Range(c) PROVE Range(c) = Around(S, r, gap)
    <3>1. PICK j \in a .. b : r = q[j]
      BY <2>1
    <3>2. {q[k] : k \in a .. b} = Around(S, q[j], gap)
      BY <2>1, RunIsAround DEF q, N
    <3> QED
      BY <2>1, <3>1, <3>2
  <2> QED
    BY <2>3, <2>4, <2>5, <2>6
<1>11. ASSUME NEW r \in S PROVE \E c \in all : Range(c) = Around(S, r, gap)
  <2>1. PICK j \in 1 .. N : q[j] = r
    BY <1>1
  <2>2. PICK m \in 1 .. Len(cs) : q[j] \in Range(cs[m])
    BY <1>6 DEF Parted
  <2>3. cs[m] \in all
    BY <1>8
  <2> QED
    BY <1>10, <2>1, <2>2, <2>3
<1>12. ASSUME NEW c \in all PROVE \E r \in S : Range(c) = Around(S, r, gap)
  BY <1>10
<1> QED
  BY <1>10, <1>11, <1>12

-----------------------------------------------------------------------------
(* deduplicate_cluster. *)

\* The rows of a cluster's raises C: what each stands for, and the devices
\* it names.
DevicesOf(C) == {r.device : r \in C}
Entries(C) == [row : C, raw : Nat, peers : SUBSET DevicesOf(C), both : BOOLEAN]

\* A raise is told by a row if the row is of its type and names its device.
Tells(x, p) == x.row.type = p.type /\ Device(p) \subseteq x.peers \cup Device(x.row)

\* Every raise of P is told by the row that is its own, and a row counts the
\* raises whose own it is.
Stands(rows, own, P, C) ==
  /\ P \in SUBSET C /\ IsFiniteSet(P)
  /\ rows \in Seq(Entries(C))
  /\ own \in [P -> 1 .. Len(rows)]
  /\ \A i \in 1 .. Len(rows) : rows[i].raw = Cardinality(Fiber(own, P, i))
  /\ \A p \in P : Tells(rows[own[p]], p)

\* The raises of Q, given to the row at the place k.
OwnWith(own, P, Q, k) == [p \in P \cup Q |-> IF p \in Q THEN k ELSE own[p]]

\* A row put at the end, with raises of its own.
LEMMA StandsAppend ==
  ASSUME NEW rows, NEW own, NEW P, NEW C, Stands(rows, own, P, C),
         NEW Q \in SUBSET C, IsFiniteSet(Q), P \cap Q = {},
         NEW x \in Entries(C), x.raw = Cardinality(Q), \A p \in Q : Tells(x, p)
  PROVE  Stands(Append(rows, x), OwnWith(own, P, Q, Len(rows) + 1), P \cup Q, C)
<1> DEFINE L == Len(rows)
           out == Append(rows, x)
           new == OwnWith(own, P, Q, L + 1)
<1>1. /\ P \in SUBSET C /\ IsFiniteSet(P) /\ rows \in Seq(Entries(C))
      /\ own \in [P -> 1 .. L]
      /\ \A i \in 1 .. L : rows[i].raw = Cardinality(Fiber(own, P, i))
      /\ \A p \in P : Tells(rows[own[p]], p)
  BY DEF Stands
<1>2. L \in Nat
  BY <1>1
<1>3. /\ \A i : i # L + 1 => Fiber(new, P \cup Q, i) = Fiber(own, P, i)
      /\ Fiber(new, P \cup Q, L + 1) = Fiber(own, P, L + 1) \cup Q
      /\ \A p \in P : new[p] = own[p]
      /\ \A p \in Q : new[p] = L + 1
  <2> HIDE DEF L, out
  <2> QED
    BY DEF OwnWith, Fiber
<1>4. Fiber(own, P, L + 1) = {}
  <2> HIDE DEF L
  <2> QED
    BY <1>1, <1>2 DEF Fiber
<1>5. /\ out \in Seq(Entries(C)) /\ Len(out) = L + 1 /\ out[L + 1] = x
      /\ \A i \in 1 .. L : out[i] = rows[i]
  BY <1>1
<1>6. new \in [P \cup Q -> 1 .. L + 1]
  <2>1. \A p \in P : own[p] \in 1 .. L + 1
    BY <1>1, <1>2
  <2>2. L + 1 \in 1 .. L + 1
    BY <1>2
  <2> HIDE DEF L
  <2> QED
    BY <2>1, <2>2 DEF OwnWith
<1> HIDE DEF L, out, new
<1>7. ASSUME NEW i \in 1 .. L + 1 PROVE out[i].raw = Cardinality(Fiber(new, P \cup Q, i))
  <2>1. CASE i = L + 1
    BY <1>3, <1>4, <1>5, <2>1
  <2>2. CASE i # L + 1
    <3>1. i \in 1 .. L
      BY <1>2, <2>2
    <3> QED
      BY <1>1, <1>3, <1>5, <2>2, <3>1
  <2> QED
    BY <2>1, <2>2
<1>8. ASSUME NEW p \in P \cup Q PROVE Tells(out[new[p]], p)
  <2>1. CASE p \in P
    <3>1. own[p] \in 1 .. L /\ new[p] = own[p]
      BY <1>1, <1>3, <2>1
    <3> QED
      BY <1>1, <1>5, <2>1, <3>1
  <2>2. CASE p \in Q
    BY <1>3, <1>5, <2>2
  <2> QED
    BY <2>1, <2>2
<1>9. P \cup Q \in SUBSET C /\ IsFiniteSet(P \cup Q)
  BY <1>1, FS_Union
<1> QED
  BY <1>5, <1>6, <1>7, <1>8, <1>9 DEF Stands, out, new, L

\* A row in the place of another that tells of more raises.
LEMMA StandsJoin ==
  ASSUME NEW rows, NEW own, NEW P, NEW C, Stands(rows, own, P, C),
         NEW Q \in SUBSET C, IsFiniteSet(Q), P \cap Q = {},
         NEW k \in 1 .. Len(rows),
         NEW x \in Entries(C), x.raw = rows[k].raw + Cardinality(Q), \A p \in Q : Tells(x, p),
         \A p \in P : Tells(rows[k], p) => Tells(x, p)
  PROVE  Stands([rows EXCEPT ![k] = x], OwnWith(own, P, Q, k), P \cup Q, C)
<1> DEFINE L == Len(rows)
           out == [rows EXCEPT ![k] = x]
           new == OwnWith(own, P, Q, k)
<1>1. /\ P \in SUBSET C /\ IsFiniteSet(P) /\ rows \in Seq(Entries(C))
      /\ own \in [P -> 1 .. L]
      /\ \A i \in 1 .. L : rows[i].raw = Cardinality(Fiber(own, P, i))
      /\ \A p \in P : Tells(rows[own[p]], p)
  BY DEF Stands
<1>2. L \in Nat /\ k \in 1 .. L
  BY <1>1
<1>3. /\ \A i : i # k => Fiber(new, P \cup Q, i) = Fiber(own, P, i)
      /\ Fiber(new, P \cup Q, k) = Fiber(own, P, k) \cup Q
      /\ \A p \in P : new[p] = own[p]
      /\ \A p \in Q : new[p] = k
  <2> HIDE DEF L, out
  <2> QED
    BY DEF OwnWith, Fiber
<1>5. /\ out \in Seq(Entries(C)) /\ Len(out) = L /\ out[k] = x
      /\ \A i \in 1 .. L : i # k => out[i] = rows[i]
  BY <1>1
<1>6. new \in [P \cup Q -> 1 .. L]
  <2> HIDE DEF L
  <2> QED
    BY <1>1, <1>2 DEF OwnWith
<1>10. Cardinality(Fiber(own, P, k) \cup Q) = Cardinality(Fiber(own, P, k)) + Cardinality(Q)
  <2>1. Fiber(own, P, k) \in SUBSET P
    BY DEF Fiber
  <2>2. IsFiniteSet(Fiber(own, P, k)) /\ Fiber(own, P, k) \cap Q = {}
    BY <1>1, <2>1, FS_Subset
  <2> QED
    BY <2>2, DisjointParts
<1> HIDE DEF L, out, new
<1>7. ASSUME NEW i \in 1 .. L PROVE out[i].raw = Cardinality(Fiber(new, P \cup Q, i))
  <2>1. CASE i = k
    BY <1>1, <1>2, <1>3, <1>5, <1>10, <2>1
  <2>2. CASE i # k
    BY <1>1, <1>3, <1>5, <2>2
  <2> QED
    BY <2>1, <2>2
<1>8. ASSUME NEW p \in P \cup Q PROVE Tells(out[new[p]], p)
  <2>1. CASE p \in P
    <3>1. own[p] \in 1 .. L /\ new[p] = own[p]
      BY <1>1, <1>3, <2>1
    <3>2. CASE own[p] = k
      BY <1>1, <1>5, <2>1, <3>1, <3>2
    <3>3. CASE own[p] # k
      BY <1>1, <1>5, <2>1, <3>1, <3>3
    <3> QED
      BY <3>2, <3>3
  <2>2. CASE p \in Q
    BY <1>3, <1>5, <2>2
  <2> QED
    BY <2>1, <2>2
<1>9. P \cup Q \in SUBSET C /\ IsFiniteSet(P \cup Q)
  BY <1>1, FS_Union
<1> QED
  BY <1>5, <1>6, <1>7, <1>8, <1>9 DEF Stands, out, new, L

\* A row that takes another in is counted for both.
LEMMA MergedIs ==
  ASSUME NEW C, NEW y \in Entries(C), NEW x \in Entries(C), NEW peers \in SUBSET DevicesOf(C)
  PROVE  /\ Merged(y, x, peers) \in Entries(C)
         /\ Merged(y, x, peers).row = y.row
         /\ Merged(y, x, peers).raw = y.raw + x.raw
         /\ Merged(y, x, peers).peers = peers \cup Device(x.row)
<1>1. y.raw + x.raw \in Nat /\ peers \cup Device(x.row) \in SUBSET DevicesOf(C)
  BY DEF Entries, Device, DevicesOf
<1>2. ASSUME NEW n \in Nat, NEW ps \in SUBSET DevicesOf(C)
      PROVE  [y EXCEPT !.raw = n, !.both = TRUE, !.peers = ps] \in Entries(C)
  BY DEF Entries
<1>3. Merged(y, x, peers) \in Entries(C)
  BY <1>1, <1>2 DEF Merged
<1> QED
  BY <1>3 DEF Merged, Entries

\* What _collapse_bgp does with a row: it stays as it is, it is the first of
\* its session, or it is added to the first.
Entered(new, out, x, C) ==
  \/ new = Append(out, x)
  \/ \E e \in Entries(C) :
       /\ new = Append(out, e)
       /\ x.row.type = Bgp /\ e.row = x.row /\ e.raw = x.raw
  \/ \E k \in 1 .. Len(out), e \in Entries(C) :
       /\ new = [out EXCEPT ![k] = e]
       /\ x.row.type = Bgp /\ out[k].row.type = Bgp
       /\ e.row = out[k].row /\ e.raw = out[k].raw + x.raw
       /\ e.peers = out[k].peers \cup Device(x.row)

\* These are all the cases.
LEMMA WithSessionIs ==
  ASSUME NEW C, NEW out \in Seq(Entries(C)), NEW x \in Entries(C)
  PROVE  Entered(WithSession(out, x), out, x, C)
<1> DEFINE key == SessionKey(x.row)
           at == {i \in DOMAIN out : key # NoOne /\ SessionKey(out[i].row) = key}
<1>1. /\ x.row \in C /\ x.raw \in Nat /\ x.peers \in SUBSET DevicesOf(C) /\ x.both \in BOOLEAN
      /\ DOMAIN out = 1 .. Len(out) /\ Len(out) \in Nat
      /\ Device(x.row) \in SUBSET DevicesOf(C)
  BY DEF Entries, Device, DevicesOf
<1>2. \A r : SessionKey(r) # NoOne => r.type = Bgp
  BY DEF SessionKey
<1>3. CASE key = NoOne
  BY <1>3 DEF WithSession, Entered
<1>4. CASE key # NoOne /\ at = {}
  <2> DEFINE e == [x EXCEPT !.peers = Device(x.row)]
  <2>1. WithSession(out, x) = Append(out, e)
    BY <1>4 DEF WithSession
  <2>2. e \in Entries(C) /\ e.row = x.row /\ e.raw = x.raw
    BY <1>1 DEF Entries
  <2> HIDE DEF e
  <2>3. x.row.type = Bgp
    BY <1>2, <1>4
  <2> QED
    BY <2>1, <2>2, <2>3 DEF Entered
<1>5. CASE key # NoOne /\ at # {}
  <2> DEFINE k == Min(at)
  <2>1. k \in at
    <3>1. at \in SUBSET Nat
      BY <1>1
    <3> HIDE DEF at
    <3> QED
      BY <1>5, <3>1, LeastOf
  <2> DEFINE e == Merged(out[k], x, out[k].peers)
  <2>2. WithSession(out, x) = [out EXCEPT ![k] = e]
    BY <1>5 DEF WithSession
  <2>3. k \in 1 .. Len(out) /\ SessionKey(out[k].row) = key
    <3> HIDE DEF k
    <3> QED
      BY <1>1, <2>1
  <2>4. x.row.type = Bgp /\ out[k].row.type = Bgp
    BY <1>2, <1>5, <2>3
  <2> HIDE DEF k
  <2>5. out[k] \in Entries(C)
    BY <2>3
  <2>6. /\ e \in Entries(C) /\ e.row = out[k].row /\ e.raw = out[k].raw + x.raw
        /\ e.peers = out[k].peers \cup Device(x.row)
    <3>1. out[k].peers \in SUBSET DevicesOf(C)
      BY <2>5 DEF Entries
    <3> QED
      BY <2>5, <3>1, MergedIs
  <2> HIDE DEF e
  <2> QED
    BY <2>2, <2>3, <2>4, <2>6 DEF Entered
<1> QED
  BY <1>3, <1>4, <1>5

\* The result is rows again.
LEMMA WithSessionTyped ==
  ASSUME NEW C, NEW out \in Seq(Entries(C)), NEW x \in Entries(C)
  PROVE  WithSession(out, x) \in Seq(Entries(C))
<1>1. ASSUME NEW e \in Entries(C) PROVE Append(out, e) \in Seq(Entries(C))
  OBVIOUS
<1>2. ASSUME NEW k \in 1 .. Len(out), NEW e \in Entries(C) PROVE [out EXCEPT ![k] = e] \in Seq(Entries(C))
  OBVIOUS
<1>3. Entered(WithSession(out, x), out, x, C)
  BY WithSessionIs
<1> QED
  BY <1>1, <1>2, <1>3 DEF Entered

\* What _collapse_bgp has made of the rows before each place.
BgpSteps(h, rows, N) ==
  /\ h[0] = <<>>
  /\ \A n \in 1 .. N : h[n] = WithSession(h[n - 1], rows[n])
  /\ CollapseBgp(rows) = h[N]

\* That is what its loop computes.
LEMMA BgpFold ==
  ASSUME NEW C, NEW N, NEW q, Filled(q, N, Entries(C))
  PROVE  \E h : BgpSteps(h, q, N)
<1> DEFINE T == Seq(Entries(C))
           F == [p \in T \X (1 .. N) |-> WithSession(p[1], q[p[2]])]
           none == <<>>
           Body(g, s) == IF s = {} THEN <<>> ELSE WithSession(g[s \ {Max(s)}], q[Max(s)])
           Solves(g) == g = [s \in SUBSET (1 .. N) |-> Body(g, s)]
<1> N \in Nat /\ q \in [1 .. N -> Entries(C)]
  BY DEF Filled
<1>1. ASSUME NEW p \in T \X (1 .. N) PROVE WithSession(p[1], q[p[2]]) \in T
  <2>1. p[1] \in T /\ q[p[2]] \in Entries(C)
    OBVIOUS
  <2> QED
    BY <2>1, WithSessionTyped
<1>2. F \in [T \X (1 .. N) -> T] /\ none \in T
  <2>1. none \in T
    OBVIOUS
  <2> HIDE DEF T
  <2> QED
    BY <1>1, <2>1
<1> HIDE DEF T
<1>3. PICK f : Folding(f, T, none, F, N)
  <2> HIDE DEF F, none
  <2> QED
    BY <1>2, FoldExists
<1>12. /\ f \in [SUBSET (1 .. N) -> T]
       /\ \A s \in SUBSET (1 .. N) : f[s] = IF s = {} THEN <<>> ELSE F[<<f[s \ {Max(s)}], Max(s)>>]
  BY <1>3, Zenon DEF Folding
<1>4. ASSUME NEW s \in SUBSET (1 .. N) PROVE f[s] = Body(f, s)
  <2>1. CASE s = {}
    BY <1>12, <2>1
  <2>2. CASE s # {}
    <3>1. Max(s) \in 1 .. N
      BY <2>2, MaxIn
    <3>2. s \ {Max(s)} \in SUBSET (1 .. N) /\ f[s \ {Max(s)}] \in T
      <4>1. s \ {Max(s)} \in SUBSET (1 .. N)
        OBVIOUS
      <4> QED
        BY <1>12, <4>1
    <3>3. <<f[s \ {Max(s)}], Max(s)>> \in T \X (1 .. N)
      BY <3>1, <3>2
    <3>4. F[<<f[s \ {Max(s)}], Max(s)>>] = WithSession(f[s \ {Max(s)}], q[Max(s)])
      BY <3>3
    <3> HIDE DEF F
    <3> QED
      BY <1>12, <2>2, <3>4
  <2> QED
    BY <2>1, <2>2
<1>5. Solves(f)
  <2>1. f = [s \in SUBSET (1 .. N) |-> f[s]]
    BY <1>12
  <2> HIDE DEF Body
  <2> QED
    BY <1>4, <2>1
<1> DEFINE g == CHOOSE e : Solves(e)
<1>6. CollapseBgp(q) = g[1 .. N]
  <2>1. DOMAIN q = 1 .. N
    OBVIOUS
  <2>2. CollapseBgp(q) =
          (CHOOSE e : e = [s \in SUBSET DOMAIN q |-> Body(e, s)])[DOMAIN q]
    BY DEF CollapseBgp, FoldLeft, MapThenFoldSet
  <2> HIDE DEF Body
  <2> QED
    BY <2>1, <2>2
<1>7. Solves(g)
  <2> HIDE DEF Solves
  <2> QED
    BY <1>5
<1> HIDE DEF g
<1>8. \A s \in SUBSET (1 .. N) : g[s] = Body(g, s)
  <2> HIDE DEF Body
  <2> QED
    BY <1>7
<1> DEFINE h == [n \in 0 .. N |-> g[1 .. n]]
<1>9. h[0] = <<>>
  <2>1. 1 .. 0 = {} /\ {} \in SUBSET (1 .. N) /\ 0 \in 0 .. N
    OBVIOUS
  <2> QED
    BY <1>8, <2>1
<1>10. ASSUME NEW n \in 1 .. N PROVE h[n] = WithSession(h[n - 1], q[n])
  <2>1. /\ 1 .. n \in SUBSET (1 .. N) /\ 1 .. n # {}
        /\ Max(1 .. n) = n /\ (1 .. n) \ {n} = 1 .. n - 1
    BY PrefixOf
  <2>2. g[1 .. n] = WithSession(g[1 .. n - 1], q[n])
    BY <1>8, <2>1
  <2>3. n \in 0 .. N
    OBVIOUS
  <2> QED
    BY <2>2, <2>3
<1>11. h[N] = g[1 .. N]
  OBVIOUS
<1> HIDE DEF h
<1>13. BgpSteps(h, q, N)
  BY <1>6, <1>9, <1>10, <1>11 DEF BgpSteps
<1> QED
  BY <1>13

\* A row of a missing cable has no device but its own before cables are paired.
Bare(rows) == \A i \in 1 .. Len(rows) : rows[i].row.type = Cabling => rows[i].peers = {}
\* Every raise of P is told by some row.
AllTold(rows, P, C) == Bare(rows) /\ \E own : Stands(rows, own, P, C)

\* One more raise is told when its row has entered.
LEMMA BgpStep ==
  ASSUME NEW C, NEW out, NEW P, AllTold(out, P, C), NEW p \in C, p \notin P
  PROVE  AllTold(WithSession(out, Logical(p)), P \cup {p}, C)
<1> DEFINE x == Logical(p)
           new == WithSession(out, x)
<1>1. PICK own : Stands(out, own, P, C)
  BY DEF AllTold
<1>2. Bare(out) /\ out \in Seq(Entries(C)) /\ Len(out) \in Nat
  BY <1>1 DEF AllTold, Stands
<1>3. /\ x \in Entries(C) /\ x.row = p /\ x.raw = 1 /\ x.peers = {}
      /\ Device(p) \in SUBSET DevicesOf(C)
  BY DEF Logical, Entries, Device, DevicesOf
<1>4. /\ {p} \in SUBSET C /\ IsFiniteSet({p}) /\ Cardinality({p}) = 1 /\ P \cap {p} = {}
  BY FS_Singleton
<1>5. Entered(new, out, x, C)
  BY <1>2, <1>3, WithSessionIs
<1>6. ASSUME NEW e \in Entries(C), e.row = p, e.raw = 1, e.row.type = Cabling => e.peers = {}, new = Append(out, e)
      PROVE  AllTold(new, P \cup {p}, C)
  <2>1. \A r \in {p} : Tells(e, r)
    BY <1>6 DEF Tells
  <2>2. Stands(new, OwnWith(own, P, {p}, Len(out) + 1), P \cup {p}, C)
    BY <1>1, <1>4, <1>6, <2>1, StandsAppend
  <2>3. /\ Len(new) = Len(out) + 1 /\ new[Len(out) + 1] = e
        /\ \A i \in 1 .. Len(out) : new[i] = out[i]
    BY <1>2, <1>6
  <2> HIDE DEF x, new
  <2>4. ASSUME NEW i \in 1 .. Len(new), new[i].row.type = Cabling PROVE new[i].peers = {}
    <3>1. CASE i = Len(out) + 1
      BY <1>6, <2>3, <2>4, <3>1
    <3>2. CASE i # Len(out) + 1
      <4>1. i \in 1 .. Len(out)
        BY <1>2, <2>3, <3>2
      <4> QED
        BY <1>2, <2>3, <2>4, <4>1 DEF Bare
    <3> QED
      BY <3>1, <3>2
  <2> QED
    BY <2>2, <2>4 DEF AllTold, Bare
<1>7. ASSUME new = Append(out, x) PROVE AllTold(new, P \cup {p}, C)
  BY <1>3, <1>6, <1>7
<1>8. ASSUME NEW e \in Entries(C), new = Append(out, e), x.row.type = Bgp, e.row = x.row, e.raw = x.raw
      PROVE  AllTold(new, P \cup {p}, C)
  <2>1. e.row.type # Cabling
    BY <1>8 DEF Bgp, Cabling
  <2> QED
    BY <1>3, <1>6, <1>8, <2>1
<1>9. ASSUME NEW k \in 1 .. Len(out), NEW e \in Entries(C),
             new = [out EXCEPT ![k] = e], x.row.type = Bgp, out[k].row.type = Bgp,
             e.row = out[k].row, e.raw = out[k].raw + x.raw,
             e.peers = out[k].peers \cup Device(x.row)
      PROVE  AllTold(new, P \cup {p}, C)
  <2>1. \A r \in {p} : Tells(e, r)
    BY <1>3, <1>9 DEF Tells
  <2>2. \A r \in P : Tells(out[k], r) => Tells(e, r)
    BY <1>9 DEF Tells
  <2>3. e.raw = out[k].raw + Cardinality({p})
    BY <1>3, <1>4, <1>9
  <2>4. Stands([out EXCEPT ![k] = e], OwnWith(own, P, {p}, k), P \cup {p}, C)
    BY <1>1, <1>4, <2>1, <2>2, <2>3, StandsJoin
  <2>5. Stands(new, OwnWith(own, P, {p}, k), P \cup {p}, C)
    BY <1>9, <2>4
  <2>6. Len(new) = Len(out) /\ new[k] = e /\ \A i \in 1 .. Len(out) : i # k => new[i] = out[i]
    BY <1>2, <1>9
  <2> HIDE DEF x, new
  <2>7. ASSUME NEW i \in 1 .. Len(new), new[i].row.type = Cabling PROVE new[i].peers = {}
    <3>1. i # k
      BY <1>9, <2>6, <2>7 DEF Bgp, Cabling
    <3> QED
      BY <1>2, <2>6, <2>7, <3>1 DEF Bare
  <2> QED
    BY <2>5, <2>7 DEF AllTold, Bare
<1> HIDE DEF x, new
<1>10. AllTold(new, P \cup {p}, C)
  BY <1>5, <1>7, <1>8, <1>9 DEF Entered
<1> QED
  BY <1>10 DEF new, x

\* After _collapse_bgp every raise that was not a ghost is told by one row.
LEMMA SessionsStand ==
  ASSUME NEW C, NEW K \in SUBSET C, IsFiniteSet(K), NEW k, Lists(k, K),
         NEW rows, rows = [i \in DOMAIN k |-> Logical(k[i])]
  PROVE  AllTold(CollapseBgp(rows), K, C)
<1> DEFINE N == Cardinality(K)
           P(n) == {k[j] : j \in 1 .. n}
<1>1. /\ N \in Nat /\ k \in [1 .. N -> K]
      /\ \A i, j \in 1 .. N : k[i] = k[j] => i = j
      /\ \A x \in K : \E i \in 1 .. N : k[i] = x
  BY DEF Lists
<1> HIDE DEF N
<1>2. rows = [i \in 1 .. N |-> Logical(k[i])] /\ \A i \in 1 .. N : rows[i] = Logical(k[i])
  BY <1>1
<1>3. \A i \in 1 .. N : Logical(k[i]) \in Entries(C)
  <2>1. \A r \in C : Logical(r) \in Entries(C)
    BY DEF Logical, Entries
  <2> QED
    BY <1>1, <2>1
<1>4. Filled(rows, N, Entries(C))
  BY <1>1, <1>2, <1>3 DEF Filled
<1>5. PICK h : BgpSteps(h, rows, N)
  BY <1>4, BgpFold
<1>6. /\ h[0] = <<>>
      /\ \A n \in 1 .. N : h[n] = WithSession(h[n - 1], rows[n])
      /\ CollapseBgp(rows) = h[N]
  BY <1>5 DEF BgpSteps
<1> DEFINE G == {n \in 0 .. N : AllTold(h[n], P(n), C)}
<1>7. 0 \in G
  <2>1. P(0) = {} /\ 0 \in 0 .. N
    BY <1>1
  <2>2. Stands(<<>>, <<>>, {}, C)
    <3>1. <<>> \in Seq(Entries(C)) /\ Len(<<>>) = 0 /\ <<>> \in [{} -> 1 .. 0]
      OBVIOUS
    <3> QED
      BY <3>1, FS_EmptySet DEF Stands
  <2>3. AllTold(<<>>, {}, C)
    BY <2>2 DEF AllTold, Bare
  <2> HIDE DEF P
  <2> QED
    BY <1>6, <2>1, <2>3
<1>8. \A n \in 0 .. N : n \in G /\ n < N => n + 1 \in G
  <2> SUFFICES ASSUME NEW n \in 0 .. N, n \in G, n < N PROVE n + 1 \in G
    OBVIOUS
  <2>1. n + 1 \in 1 .. N /\ n + 1 \in 0 .. N /\ (n + 1) - 1 = n
    BY <1>1
  <2>2. h[n + 1] = WithSession(h[n], Logical(k[n + 1]))
    BY <1>2, <1>6, <2>1
  <2>3. P(n + 1) = P(n) \cup {k[n + 1]}
    <3>1. \A j : j \in 1 .. n + 1 <=> j \in 1 .. n \/ j = n + 1
      BY <2>1
    <3> QED
      BY <3>1
  <2>4. k[n + 1] \in C /\ k[n + 1] \notin P(n)
    <3>1. \A j \in 1 .. n : j \in 1 .. N /\ j # n + 1
      BY <1>1, <2>1
    <3> QED
      BY <1>1, <2>1, <3>1
  <2> HIDE DEF P
  <2>5. AllTold(h[n], P(n), C)
    OBVIOUS
  <2>6. AllTold(WithSession(h[n], Logical(k[n + 1])), P(n) \cup {k[n + 1]}, C)
    BY <2>4, <2>5, BgpStep
  <2> QED
    BY <2>1, <2>2, <2>3, <2>6
<1>9. N \in G
  <2>1. N \in Nat
    BY <1>1
  <2> HIDE DEF G
  <2>2. \A n \in 0 .. N : n \in G
    BY <2>1, <1>7, <1>8, InductionUpTo
  <2> QED
    BY <2>1, <2>2
<1>10. P(N) = K
  BY <1>1
<1> HIDE DEF P
<1> QED
  BY <1>6, <1>9, <1>10

\* What _collapse_cabling does with the row at a place: it was taken in, it
\* stays as it is, or it takes in a later one.
Pairings(C) == [dropped : SUBSET Nat, out : Seq(Entries(C))]
Paired(new, acc, rows, i, C) ==
  \/ i \in acc.dropped /\ new = acc
  \/ /\ i \notin acc.dropped
     /\ new.dropped = acc.dropped /\ new.out = Append(acc.out, rows[i])
  \/ \E m \in i + 1 .. Len(rows), e \in Entries(C) :
       /\ i \notin acc.dropped /\ m \notin acc.dropped
       /\ rows[i].row.type = Cabling /\ rows[m].row.type = Cabling
       /\ new.dropped = acc.dropped \cup {m} /\ new.out = Append(acc.out, e)
       /\ e.row = rows[i].row /\ e.raw = rows[i].raw + rows[m].raw
       /\ rows[i].peers \cup Device(rows[m].row) \subseteq e.peers

\* These are all the cases, and the result is of that form again.
LEMMA WithMirrorIs ==
  ASSUME NEW C, NEW rows \in Seq(Entries(C)), NEW acc \in Pairings(C), NEW i \in 1 .. Len(rows)
  PROVE  Paired(WithMirror(rows, acc, i), acc, rows, i, C) /\ WithMirror(rows, acc, i) \in Pairings(C)
<1> DEFINE x == rows[i]
           mirrors == MirrorsOf(rows, i, acc.dropped)
           new == WithMirror(rows, acc, i)
<1>1. /\ Len(rows) \in Nat /\ x \in Entries(C) /\ x.peers \in SUBSET DevicesOf(C)
      /\ Device(x.row) \in SUBSET DevicesOf(C)
      /\ acc.dropped \in SUBSET Nat /\ acc.out \in Seq(Entries(C))
  <2>1. Len(rows) \in Nat /\ x \in Entries(C)
    OBVIOUS
  <2> HIDE DEF x
  <2>2. x.peers \in SUBSET DevicesOf(C) /\ x.row \in C
    BY <2>1 DEF Entries
  <2>3. Device(x.row) \in SUBSET DevicesOf(C)
    BY <2>2 DEF Device, DevicesOf
  <2>4. acc.dropped \in SUBSET Nat /\ acc.out \in Seq(Entries(C))
    BY DEF Pairings
  <2> QED
    BY <2>1, <2>2, <2>3, <2>4
<1>2. CASE i \in acc.dropped
  <2>1. new = acc
    BY <1>2 DEF WithMirror
  <2> QED
    BY <1>2, <2>1 DEF Paired
<1>3. CASE i \notin acc.dropped /\ (x.row.type # Cabling \/ x.row.neighbor = NoOne \/ mirrors = {})
  <2>1. new = [acc EXCEPT !.out = Append(@, x)]
    BY <1>3 DEF WithMirror
  <2>2. Append(acc.out, x) \in Seq(Entries(C))
    BY <1>1
  <2>3. new \in Pairings(C) /\ new.dropped = acc.dropped /\ new.out = Append(acc.out, x)
    <3> HIDE DEF x, new
    <3> QED
      BY <2>1, <2>2 DEF Pairings
  <2> QED
    BY <1>3, <2>3 DEF Paired
<1>4. CASE i \notin acc.dropped /\ x.row.type = Cabling /\ x.row.neighbor # NoOne /\ mirrors # {}
  <2> DEFINE m == Min(mirrors)
             peers == IF x.peers = {} THEN Device(x.row) ELSE x.peers
             e == Merged(x, rows[m], peers)
  <2>1. m \in i + 1 .. Len(rows) /\ m \notin acc.dropped /\ rows[m].row.type = Cabling
    <3>1. mirrors \in SUBSET Nat
      BY <1>1 DEF MirrorsOf
    <3>2. m \in mirrors
      <4> HIDE DEF mirrors
      <4> QED
        BY <1>4, <3>1, LeastOf
    <3> HIDE DEF m
    <3> QED
      BY <3>2 DEF MirrorsOf
  <2>2. new = [dropped |-> acc.dropped \cup {m}, out |-> Append(acc.out, e)]
    BY <1>4 DEF WithMirror
  <2> HIDE DEF m, mirrors
  <2>3. rows[m] \in Entries(C) /\ peers \in SUBSET DevicesOf(C)
    BY <1>1, <2>1
  <2>4. /\ e \in Entries(C) /\ e.row = x.row /\ e.raw = x.raw + rows[m].raw
        /\ e.peers = peers \cup Device(rows[m].row)
    <3> HIDE DEF x, peers
    <3> QED
      BY <1>1, <2>3, MergedIs
  <2>5. x.peers \cup Device(rows[m].row) \subseteq e.peers
    BY <2>4
  <2> HIDE DEF e, peers
  <2>6. Append(acc.out, e) \in Seq(Entries(C)) /\ acc.dropped \cup {m} \in SUBSET Nat
    BY <1>1, <2>1, <2>4
  <2>7. new \in Pairings(C) /\ new.dropped = acc.dropped \cup {m} /\ new.out = Append(acc.out, e)
    <3> HIDE DEF new
    <3> QED
      BY <2>2, <2>6 DEF Pairings
  <2> HIDE DEF new
  <2>8. Paired(new, acc, rows, i, C)
    BY <1>4, <2>1, <2>4, <2>5, <2>7 DEF Paired
  <2> QED
    BY <2>7, <2>8 DEF new
<1> QED
  BY <1>2, <1>3, <1>4

\* What it has made of the rows before each place.
CablingSteps(h, rows, N) ==
  /\ h[0] = [dropped |-> {}, out |-> <<>>]
  /\ \A n \in 1 .. N : h[n] = WithMirror(rows, h[n - 1], n)
  /\ CollapseCabling(rows) = h[N].out

\* That is what its loop computes.
LEMMA CablingFold ==
  ASSUME NEW C, NEW rows \in Seq(Entries(C)), NEW N, N = Len(rows)
  PROVE  \E h : CablingSteps(h, rows, N)
<1> DEFINE T == Pairings(C)
           F == [p \in T \X (1 .. N) |-> WithMirror(rows, p[1], p[2])]
           none == [dropped |-> {}, out |-> <<>>]
           places == [i \in DOMAIN rows |-> i]
           Body(g, s) == IF s = {} THEN none ELSE WithMirror(rows, g[s \ {Max(s)}], places[Max(s)])
           Solves(g) == g = [s \in SUBSET (1 .. N) |-> Body(g, s)]
<1> N \in Nat /\ DOMAIN rows = 1 .. N
  OBVIOUS
<1>14. DOMAIN places = 1 .. N /\ \A i \in 1 .. N : places[i] = i
  OBVIOUS
<1> HIDE DEF places
<1>1. ASSUME NEW p \in T \X (1 .. N) PROVE WithMirror(rows, p[1], p[2]) \in T
  <2>1. p[1] \in T /\ p[2] \in 1 .. Len(rows)
    OBVIOUS
  <2> QED
    BY <2>1, WithMirrorIs
<1>2. F \in [T \X (1 .. N) -> T] /\ none \in T
  <2>1. none \in T
    <3>1. <<>> \in Seq(Entries(C))
      OBVIOUS
    <3> QED
      BY <3>1 DEF Pairings
  <2> HIDE DEF T, none
  <2> QED
    BY <1>1, <2>1
<1> HIDE DEF T, none
<1>3. PICK f : Folding(f, T, none, F, N)
  <2> HIDE DEF F
  <2> QED
    BY <1>2, FoldExists
<1>12. /\ f \in [SUBSET (1 .. N) -> T]
       /\ \A s \in SUBSET (1 .. N) : f[s] = IF s = {} THEN none ELSE F[<<f[s \ {Max(s)}], Max(s)>>]
  BY <1>3, Zenon DEF Folding
<1>4. ASSUME NEW s \in SUBSET (1 .. N) PROVE f[s] = Body(f, s)
  <2>1. CASE s = {}
    BY <1>12, <2>1
  <2>2. CASE s # {}
    <3>1. Max(s) \in 1 .. N
      BY <2>2, MaxIn
    <3>2. s \ {Max(s)} \in SUBSET (1 .. N) /\ f[s \ {Max(s)}] \in T
      <4>1. s \ {Max(s)} \in SUBSET (1 .. N)
        OBVIOUS
      <4> QED
        BY <1>12, <4>1
    <3>3. <<f[s \ {Max(s)}], Max(s)>> \in T \X (1 .. N)
      BY <3>1, <3>2
    <3>4. F[<<f[s \ {Max(s)}], Max(s)>>] = WithMirror(rows, f[s \ {Max(s)}], places[Max(s)])
      BY <1>14, <3>1, <3>3
    <3> HIDE DEF F
    <3> QED
      BY <1>12, <2>2, <3>4
  <2> QED
    BY <2>1, <2>2
<1>5. Solves(f)
  <2>1. f = [s \in SUBSET (1 .. N) |-> f[s]]
    BY <1>12
  <2> HIDE DEF Body
  <2> QED
    BY <1>4, <2>1
<1> DEFINE g == CHOOSE e : Solves(e)
<1>6. CollapseCabling(rows) = g[1 .. N].out
  <2>1. CollapseCabling(rows) =
          (CHOOSE r : r = [s \in SUBSET DOMAIN places |-> Body(r, s)])[DOMAIN places].out
    BY DEF CollapseCabling, FoldLeft, MapThenFoldSet, places, none
  <2> HIDE DEF Body
  <2> QED
    BY <1>14, <2>1
<1>7. Solves(g)
  <2> HIDE DEF Solves
  <2> QED
    BY <1>5
<1> HIDE DEF g
<1>8. \A s \in SUBSET (1 .. N) : g[s] = Body(g, s)
  <2> HIDE DEF Body
  <2> QED
    BY <1>7
<1> DEFINE h == [n \in 0 .. N |-> g[1 .. n]]
<1>9. h[0] = none
  <2>1. 1 .. 0 = {} /\ {} \in SUBSET (1 .. N) /\ 0 \in 0 .. N
    OBVIOUS
  <2> QED
    BY <1>8, <2>1
<1>10. ASSUME NEW n \in 1 .. N PROVE h[n] = WithMirror(rows, h[n - 1], n)
  <2>1. /\ 1 .. n \in SUBSET (1 .. N) /\ 1 .. n # {}
        /\ Max(1 .. n) = n /\ (1 .. n) \ {n} = 1 .. n - 1
    BY PrefixOf
  <2>2. g[1 .. n] = WithMirror(rows, g[1 .. n - 1], n)
    BY <1>8, <1>14, <2>1
  <2>3. n \in 0 .. N /\ n - 1 \in 0 .. N
    OBVIOUS
  <2> QED
    BY <2>2, <2>3
<1>11. h[N] = g[1 .. N]
  OBVIOUS
<1> HIDE DEF h
<1>13. CablingSteps(h, rows, N)
  BY <1>6, <1>9, <1>10, <1>11 DEF CablingSteps, none
<1> QED
  BY <1>13

\* The raises told so far: of the rows passed and of those taken in.
ToldSo(own, P, acc, n) == {p \in P : own[p] \in (1 .. n) \cup acc.dropped}
Joined(acc, own, P, C, n) ==
  acc \in Pairings(C) /\ \E o : Stands(acc.out, o, ToldSo(own, P, acc, n), C)

\* One more row passed, alone or with the one it takes in.
LEMMA CablingStep ==
  ASSUME NEW C, NEW P, NEW rows, NEW own, Stands(rows, own, P, C), Bare(rows),
         NEW acc, NEW n \in 0 .. Len(rows), n < Len(rows), Joined(acc, own, P, C, n)
  PROVE  Joined(WithMirror(rows, acc, n + 1), own, P, C, n + 1)
<1> DEFINE i == n + 1
           new == WithMirror(rows, acc, i)
           Sofar == ToldSo(own, P, acc, n)
           Sofar2 == ToldSo(own, P, new, i)
           FiberOf(k) == Fiber(own, P, k)
<1>1. /\ P \in SUBSET C /\ IsFiniteSet(P) /\ rows \in Seq(Entries(C))
      /\ own \in [P -> 1 .. Len(rows)]
      /\ \A k \in 1 .. Len(rows) : rows[k].raw = Cardinality(FiberOf(k))
      /\ \A p \in P : Tells(rows[own[p]], p)
  BY DEF Stands
<1>2. Len(rows) \in Nat /\ i \in 1 .. Len(rows) /\ n \in Nat
  BY <1>1
<1>3. acc \in Pairings(C)
  BY DEF Joined
<1>4. PICK o : Stands(acc.out, o, Sofar, C)
  BY DEF Joined
<1>5. Paired(new, acc, rows, i, C) /\ new \in Pairings(C)
  BY <1>1, <1>2, <1>3, WithMirrorIs
<1>6. ASSUME NEW k \in 1 .. Len(rows)
      PROVE  /\ FiberOf(k) \in SUBSET C /\ IsFiniteSet(FiberOf(k)) /\ rows[k] \in Entries(C)
             /\ rows[k].raw = Cardinality(FiberOf(k)) /\ \A p \in FiberOf(k) : Tells(rows[k], p)
  <2>1. FiberOf(k) \in SUBSET P /\ \A p \in FiberOf(k) : own[p] = k
    BY DEF Fiber
  <2>2. IsFiniteSet(FiberOf(k))
    BY <1>1, <2>1, FS_Subset
  <2> HIDE DEF FiberOf
  <2> QED
    BY <1>1, <2>1, <2>2
<1>7. /\ i \notin acc.dropped => Sofar \cap FiberOf(i) = {}
      /\ \A m \in i + 1 .. Len(rows) : m \notin acc.dropped =>
           Sofar \cap FiberOf(m) = {} /\ FiberOf(i) \cap FiberOf(m) = {}
  <2>1. i \notin 1 .. n /\ \A m \in i + 1 .. Len(rows) : m \notin 1 .. n /\ m # i
    BY <1>2
  <2> HIDE DEF i
  <2> QED
    BY <2>1 DEF Fiber, ToldSo
<1>8. \A j : j \in 1 .. i <=> j \in 1 .. n \/ j = i
  BY <1>2
<1> HIDE DEF i, new
<1>9. ASSUME i \in acc.dropped, new = acc PROVE Joined(new, own, P, C, i)
  <2>1. Sofar2 = Sofar
    BY <1>8, <1>9 DEF ToldSo
  <2> HIDE DEF Sofar, Sofar2
  <2>2. Stands(new.out, o, Sofar2, C)
    BY <1>4, <1>9, <2>1
  <2> QED
    BY <1>5, <2>2 DEF Joined, Sofar2
<1>10. ASSUME NEW Q, Q \in SUBSET C, IsFiniteSet(Q), Sofar \cap Q = {}, NEW e \in Entries(C),
              e.raw = Cardinality(Q), \A p \in Q : Tells(e, p),
              new.out = Append(acc.out, e), Sofar2 = Sofar \cup Q
       PROVE  Joined(new, own, P, C, i)
  <2> HIDE DEF Sofar, Sofar2
  <2>1. Stands(Append(acc.out, e), OwnWith(o, Sofar, Q, Len(acc.out) + 1), Sofar \cup Q, C)
    BY <1>4, <1>10, StandsAppend
  <2>2. Stands(new.out, OwnWith(o, Sofar, Q, Len(acc.out) + 1), Sofar2, C)
    BY <1>10, <2>1
  <2> QED
    BY <1>5, <2>2 DEF Joined, Sofar2
<1>11. ASSUME i \notin acc.dropped, new.dropped = acc.dropped, new.out = Append(acc.out, rows[i])
       PROVE  Joined(new, own, P, C, i)
  <2>1. Sofar2 = Sofar \cup FiberOf(i)
    BY <1>8, <1>11 DEF ToldSo, Fiber
  <2> HIDE DEF Sofar, Sofar2, FiberOf
  <2> QED
    BY <1>2, <1>6, <1>7, <1>10, <1>11, <2>1
<1>12. ASSUME NEW m \in i + 1 .. Len(rows), NEW e \in Entries(C),
              i \notin acc.dropped, m \notin acc.dropped,
              rows[i].row.type = Cabling, rows[m].row.type = Cabling,
              new.dropped = acc.dropped \cup {m}, new.out = Append(acc.out, e),
              e.row = rows[i].row, e.raw = rows[i].raw + rows[m].raw,
              rows[i].peers \cup Device(rows[m].row) \subseteq e.peers
       PROVE  Joined(new, own, P, C, i)
  <2> DEFINE Q == FiberOf(i) \cup FiberOf(m)
  <2>1. m \in 1 .. Len(rows)
    BY <1>2, <1>12
  <2>2. Sofar2 = Sofar \cup Q
    BY <1>8, <1>12 DEF ToldSo, Fiber
  <2> HIDE DEF Sofar, Sofar2, FiberOf
  <2>3. Q \in SUBSET C /\ IsFiniteSet(Q) /\ Sofar \cap Q = {} /\ e.raw = Cardinality(Q)
    <3>1. Cardinality(Q) = Cardinality(FiberOf(i)) + Cardinality(FiberOf(m))
      BY <1>2, <1>6, <1>7, <1>12, <2>1, DisjointParts
    <3>2. IsFiniteSet(Q)
      BY <1>2, <1>6, <2>1, FS_Union
    <3> QED
      BY <1>2, <1>6, <1>7, <1>12, <2>1, <3>1, <3>2
  <2>4. \A p \in Q : Tells(e, p)
    <3>1. rows[m].peers = {}
      BY <1>12, <2>1 DEF Bare
    <3>2. \A p \in FiberOf(i) : Tells(e, p)
      BY <1>2, <1>6, <1>12 DEF Tells
    <3>3. \A p \in FiberOf(m) : Tells(e, p)
      BY <1>6, <1>12, <2>1, <3>1 DEF Tells
    <3> QED
      BY <3>2, <3>3
  <2> HIDE DEF Q
  <2> QED
    BY <1>10, <1>12, <2>2, <2>3, <2>4
<1>13. Joined(new, own, P, C, i)
  BY <1>5, <1>9, <1>11, <1>12 DEF Paired
<1> QED
  BY <1>13 DEF i, new

\* After _collapse_cabling, still.
LEMMA CablesStand ==
  ASSUME NEW C, NEW P, NEW rows, AllTold(rows, P, C)
  PROVE  \E own : Stands(CollapseCabling(rows), own, P, C)
<1> DEFINE N == Len(rows)
<1>1. PICK own : Stands(rows, own, P, C)
  BY DEF AllTold
<1>2. /\ N \in Nat /\ rows \in Seq(Entries(C)) /\ Bare(rows)
      /\ P \in SUBSET C /\ IsFiniteSet(P) /\ own \in [P -> 1 .. N]
  BY <1>1 DEF Stands, AllTold
<1>3. PICK h : CablingSteps(h, rows, N)
  BY <1>2, CablingFold
<1> HIDE DEF N
<1>4. /\ h[0] = [dropped |-> {}, out |-> <<>>]
      /\ \A n \in 1 .. N : h[n] = WithMirror(rows, h[n - 1], n)
      /\ CollapseCabling(rows) = h[N].out
  BY <1>3 DEF CablingSteps
<1> DEFINE G == {n \in 0 .. N : Joined(h[n], own, P, C, n)}
<1>5. 0 \in G
  <2>1. 0 \in 0 .. N /\ h[0] \in Pairings(C) /\ h[0].out = <<>>
    <3>1. <<>> \in Seq(Entries(C))
      OBVIOUS
    <3> QED
      BY <1>2, <1>4, <3>1 DEF Pairings
  <2>2. ToldSo(own, P, h[0], 0) = {}
    BY <1>2, <1>4 DEF ToldSo
  <2>3. Stands(<<>>, <<>>, {}, C)
    <3>1. <<>> \in Seq(Entries(C)) /\ Len(<<>>) = 0 /\ <<>> \in [{} -> 1 .. 0]
      OBVIOUS
    <3> QED
      BY <3>1, FS_EmptySet DEF Stands
  <2>4. Joined(h[0], own, P, C, 0)
    BY <2>1, <2>2, <2>3 DEF Joined
  <2> QED
    BY <2>1, <2>4
<1>6. \A n \in 0 .. N : n \in G /\ n < N => n + 1 \in G
  <2> SUFFICES ASSUME NEW n \in 0 .. N, n \in G, n < N PROVE n + 1 \in G
    OBVIOUS
  <2>1. n + 1 \in 1 .. N /\ n + 1 \in 0 .. N /\ (n + 1) - 1 = n
    BY <1>2
  <2>2. h[n + 1] = WithMirror(rows, h[n], n + 1)
    BY <1>4, <2>1
  <2>3. Joined(WithMirror(rows, h[n], n + 1), own, P, C, n + 1)
    BY <1>1, <1>2, CablingStep DEF N
  <2> QED
    BY <2>1, <2>2, <2>3
<1>7. N \in G
  <2>1. N \in Nat
    BY <1>2
  <2> HIDE DEF G
  <2>2. \A n \in 0 .. N : n \in G
    BY <1>5, <1>6, <2>1, InductionUpTo
  <2> QED
    BY <2>1, <2>2
<1>8. PICK o : Stands(h[N].out, o, ToldSo(own, P, h[N], N), C)
  BY <1>7 DEF Joined
<1>9. ToldSo(own, P, h[N], N) = P
  BY <1>2 DEF ToldSo
<1> QED
  BY <1>4, <1>8, <1>9

\* Of the rows of a key one stays, and it has the device any of them has.
LEMMA CanonicalIs ==
  ASSUME NEW S, Rows(S)
  PROVE  /\ Canonical(S) \in SUBSET S /\ IsFiniteSet(Canonical(S))
         /\ \A r \in S : \E c \in Canonical(S) :
              IdentityKey(c) = IdentityKey(r) /\ Device(r) \subseteq Device(c)
         /\ Cardinality(Canonical(S)) = Cardinality({IdentityKey(r) : r \in S})
         /\ Cardinality(Canonical(S)) <= Cardinality(S) /\ Cardinality(S) \in Nat
<1> DEFINE K == Canonical(S)
           Keys == {IdentityKey(r) : r \in S}
<1>1. K \in SUBSET S /\ \A c \in K : \A s \in S : s # c /\ IdentityKey(s) = IdentityKey(c) => DeviceFirst(c, s)
  BY DEF Canonical
<1>2. IsFiniteSet(S) /\ IsFiniteSet(K)
  BY <1>1, FS_Subset DEF Rows
<1>3. ASSUME NEW r \in S
      PROVE  \E c \in K : IdentityKey(c) = IdentityKey(r) /\ Device(r) \subseteq Device(c)
  <2> DEFINE Same == {s \in S : IdentityKey(s) = IdentityKey(r)}
             R == {p \in Same \X Same : DeviceFirst(p[1], p[2])}
  <2>1. Rows(Same) /\ IsFiniteSet(Same) /\ Same # {} /\ Same \in SUBSET S
    <3>1. Same \in SUBSET S /\ r \in Same
      OBVIOUS
    <3>2. Rows(Same)
      BY <3>1, PartOfRows
    <3> QED
      BY <3>1, <3>2 DEF Rows
  <2>2. \A x, y \in Same : <<x, y>> \in R <=> DeviceFirst(x, y)
    OBVIOUS
  <2>6. \A s : s \in Same <=> s \in S /\ IdentityKey(s) = IdentityKey(r)
    OBVIOUS
  <2> HIDE DEF R, Same
  <2>3. Transitive(R, Same) /\ Irreflexive(R, Same)
    BY <2>1, <2>2, DeviceFirstOrders DEF Transitive, Irreflexive
  <2>4. PICK c \in Same : \A y \in Same : <<y, c>> \notin R
    BY <2>1, <2>3, MinimalExists
  <2>5. \A y \in Same : y = c \/ DeviceFirst(c, y)
    BY <2>1, <2>2, <2>4, DeviceFirstOrders
  <2>7. c \in S /\ IdentityKey(c) = IdentityKey(r)
    BY <2>6
  <2>8. c \in K
    BY <2>5, <2>6, <2>7 DEF Canonical
  <2>9. Device(r) \subseteq Device(c)
    <3>1. r = c \/ DeviceFirst(c, r)
      BY <2>5, <2>6
    <3>2. r.device = c.device \/ NoOne \in {r.device, c.device}
      BY <2>7, Zenon DEF Rows
    <3>3. r.device # NoOne => c.device # NoOne
      BY <3>1 DEF DeviceFirst
    <3> QED
      BY <3>2, <3>3 DEF Device
  <2> QED
    BY <2>7, <2>8, <2>9
<1>4. Cardinality(K) = Cardinality(Keys)
  <2> DEFINE f == [c \in K |-> IdentityKey(c)]
  <2>1. f \in [K -> Keys]
    BY <1>1
  <2>2. ASSUME NEW c \in K, NEW d \in K, f[c] = f[d] PROVE c = d
    <3> SUFFICES ASSUME c # d PROVE FALSE
      OBVIOUS
    <3>1. IdentityKey(c) = IdentityKey(d) /\ c \in S /\ d \in S
      BY <1>1, <2>2
    <3>2. DeviceFirst(c, d) /\ DeviceFirst(d, c)
      BY <1>1, <3>1
    <3>3. \A x, y, z \in S : DeviceFirst(x, y) /\ DeviceFirst(y, z) => DeviceFirst(x, z)
      BY DeviceFirstOrders
    <3>4. \A x \in S : ~ DeviceFirst(x, x)
      BY DeviceFirstOrders
    <3> QED
      BY <3>1, <3>2, <3>3, <3>4
  <2>3. \A k \in Keys : \E c \in K : f[c] = k
    BY <1>3
  <2> HIDE DEF f, K, Keys
  <2>4. f \in Bijection(K, Keys)
    BY <2>1, <2>2, <2>3 DEF Bijection, Injection, Surjection, IsInjective
  <2>5. ExistsBijection(K, Keys)
    BY <2>4 DEF ExistsBijection
  <2> QED
    BY <1>2, <2>5, FS_Bijection
<1>5. Cardinality(K) <= Cardinality(S) /\ Cardinality(S) \in Nat
  BY <1>1, <1>2, FS_Subset, FS_CardinalityType
<1> QED
  BY <1>1, <1>2, <1>3, <1>4, <1>5

\* deduplicate_cluster: every raise that is no ghost is told by one row.
LEMMA DeduplicatedStands ==
  ASSUME NEW C, Rows(C)
  PROVE  \E own : Stands(Deduplicated(C), own, Canonical(C), C)
<1> DEFINE K == Canonical(C)
           k == Ordered(K, DeviceFirst)
           rows == WithoutGhosts(C)
<1>1. K \in SUBSET C /\ IsFiniteSet(K)
  BY CanonicalIs
<1>2. Rows(K)
  BY <1>1, PartOfRows
<1>3. Lists(k, K)
  BY <1>2, OrderedIs
<1>4. rows = [i \in DOMAIN k |-> Logical(k[i])]
  BY DEF WithoutGhosts
<1>5. AllTold(CollapseBgp(rows), K, C)
  <2> HIDE DEF K, k, rows
  <2> QED
    BY <1>1, <1>3, <1>4, SessionsStand
<1>6. \E own : Stands(CollapseCabling(CollapseBgp(rows)), own, K, C)
  <2> HIDE DEF K, rows
  <2> QED
    BY <1>5, CablesStand
<1> QED
  BY <1>6 DEF Deduplicated

\* What the rows count together is what they stand for.
LEMMA RawSumIs ==
  ASSUME NEW rows, NEW own, NEW P, NEW C, Stands(rows, own, P, C)
  PROVE  RawSum(rows) = Cardinality(P)
<1> DEFINE D == DOMAIN rows
           f == [i \in D |-> rows[i].raw]
           Some(s) == CHOOSE d \in s : TRUE
           Body(g, s) == IF s = {} THEN 0 ELSE rows[Some(s)].raw + g[s \ {Some(s)}]
           Solves(g) == g = [s \in SUBSET D |-> Body(g, s)]
<1>1. D = 1 .. Len(rows) /\ Len(rows) \in Nat
  BY DEF Stands
<1>2. IsFiniteSet(P) /\ own \in [P -> D] /\ IsFiniteSet(D) /\ \A d \in D : f[d] = Cardinality(Fiber(own, P, d))
  <2>1. \A d \in D : f[d] = Cardinality(Fiber(own, P, d))
    BY <1>1 DEF Stands
  <2>2. IsFiniteSet(D)
    BY <1>1, FS_Interval
  <2> QED
    BY <1>1, <2>1, <2>2 DEF Stands
<1>3. RawSum(rows) = (CHOOSE g : Solves(g))[D]
  BY DEF RawSum, MapThenSumSet, MapThenFoldSet
<1>4. \A s \in SUBSET D : s # {} => Some(s) \in D /\ f[Some(s)] = rows[Some(s)].raw
  OBVIOUS
<1> HIDE DEF f, D, Some
<1>12. AddsUp(f, D, Cardinality(P))
  BY <1>2, FibersAddUp
<1>5. PICK g0 : g0 = [s \in SUBSET D |-> g0[s]] /\ SumsUp(g0, f, D)
  BY <1>12 DEF AddsUp
<1>6. \A s \in SUBSET D : g0[s] = Body(g0, s)
  <2>1. \A s \in SUBSET D : g0[s] = IF s = {} THEN 0 ELSE f[Some(s)] + g0[s \ {Some(s)}]
    BY <1>5, Zenon DEF SumsUp, Some
  <2> QED
    BY <1>4, <2>1
<1>7. Solves(g0)
  <2> HIDE DEF Body
  <2> QED
    BY <1>5, <1>6
<1> DEFINE g == CHOOSE e : Solves(e)
<1>8. Solves(g)
  <2> HIDE DEF Solves
  <2> QED
    BY <1>7
<1> HIDE DEF g
<1>9. \A s \in SUBSET D : g[s] = Body(g, s)
  <2> HIDE DEF Body
  <2> QED
    BY <1>8
<1>10. SumsUp(g, f, D)
  <2>1. \A s \in SUBSET D : g[s] = IF s = {} THEN 0 ELSE f[Some(s)] + g[s \ {Some(s)}]
    BY <1>4, <1>9
  <2> QED
    BY <2>1, Zenon DEF SumsUp, Some
<1>11. g[D] = Cardinality(P)
  BY <1>10, <1>12, Zenon DEF AddsUp
<1> QED
  BY <1>3, <1>11 DEF g

-----------------------------------------------------------------------------
(* score_root_cause and enrich_cluster. *)

\* The layer of every type is a number, and 99 of a type that is none of them.
LEMMA LayersAre ==
  ASSUME NEW type
  PROVE  LayerOf(type) \in Nat
BY FaultAssumption DEF LayerOf

\* score_root_cause: nothing that happened is of a lower layer than the cause.
LEMMA CauseIs ==
  ASSUME NEW rows, NEW own, NEW P, NEW C, Stands(rows, own, P, C), IsFiniteSet(C), P # {}
  PROVE  \A p \in P : LayerOf(RootCause(rows).row.type) <= LayerOf(p.type)
<1> DEFINE D == 1 .. Len(rows)
           low == Min(Layers(rows))
           V == {Centrality(rows[i], rows) : i \in Candidates(rows)}
           best == Max(V)
           firsts == {i \in Candidates(rows) : Centrality(rows[i], rows) = best}
           M == Cardinality(DevicesOf(C))
<1>1. /\ P \in SUBSET C /\ rows \in Seq(Entries(C)) /\ own \in [P -> D]
      /\ \A p \in P : Tells(rows[own[p]], p)
      /\ DOMAIN rows = D
  BY DEF Stands
<1>2. low \in Layers(rows) /\ \A y \in Layers(rows) : low <= y
  <2>1. Layers(rows) \in SUBSET Nat /\ Layers(rows) # {}
    BY <1>1, LayersAre DEF Layers
  <2> QED
    BY <2>1, LeastOf
<1>3. ASSUME NEW i \in D PROVE Centrality(rows[i], rows) \in 0 .. M /\ M \in Nat
  <2> DEFINE named == (rows[i].peers \cup Device(rows[i].row)) \cap (NamesIn(rows) \ Range(rows[i].row.identity))
  <2>1. rows[i] \in Entries(C)
    BY <1>1
  <2>2. named \in SUBSET DevicesOf(C)
    BY <2>1 DEF Entries, Device, DevicesOf
  <2> HIDE DEF named
  <2>3. IsFiniteSet(DevicesOf(C))
    <3> DEFINE f == [r \in C |-> r.device]
    <3>1. f \in Surjection(C, DevicesOf(C))
      BY DEF Surjection, DevicesOf
    <3> QED
      BY <3>1, FS_Surjection
  <2>4. Cardinality(named) <= M /\ IsFiniteSet(named)
    BY <2>2, <2>3, FS_Subset
  <2>5. Cardinality(named) \in Nat /\ M \in Nat
    BY <2>3, <2>4, FS_CardinalityType
  <2>6. Centrality(rows[i], rows) = Cardinality(named)
    BY DEF Centrality, named
  <2> HIDE DEF M
  <2> QED
    BY <2>4, <2>5, <2>6
<1>4. PICK c \in Candidates(rows) : TRUE
  BY <1>1, <1>2 DEF Layers, Candidates
<1>5. \A i \in Candidates(rows) : i \in D /\ LayerOf(rows[i].row.type) = low
  BY <1>1 DEF Candidates
<1> HIDE DEF low, M
<1>6. best \in V
  <2>1. V \in SUBSET (0 .. M) /\ V # {} /\ M \in Nat
    BY <1>3, <1>4, <1>5
  <2> HIDE DEF V
  <2> QED
    BY <2>1, MaxOf
<1> HIDE DEF best
<1>7. Min(firsts) \in firsts
  <2>1. firsts \in SUBSET Nat /\ firsts # {}
    <3>1. D \in SUBSET Nat
      OBVIOUS
    <3> QED
      BY <1>5, <1>6, <3>1
  <2> HIDE DEF firsts
  <2> QED
    BY <2>1, LeastOf
<1>8. RootCause(rows).row = rows[Min(firsts)].row
  BY DEF RootCause, best
<1>9. LayerOf(RootCause(rows).row.type) = low
  <2>1. Min(firsts) \in Candidates(rows)
    BY <1>7
  <2> HIDE DEF firsts
  <2> QED
    BY <1>5, <1>8, <2>1
<1>10. ASSUME NEW p \in P PROVE low <= LayerOf(p.type)
  <2>1. own[p] \in D /\ rows[own[p]].row.type = p.type
    BY <1>1 DEF Tells
  <2>2. LayerOf(p.type) \in Layers(rows)
    BY <1>1, <2>1 DEF Layers
  <2> QED
    BY <1>2, <2>2
<1> QED
  BY <1>9, <1>10

\* What enrich_cluster says of the raises of a cluster.
Honest(e, C) ==
  /\ e.raw = C
  /\ UNION {Device(r) : r \in C} \subseteq e.devices
  /\ RawSum(e.logical) = Cardinality({IdentityKey(r) : r \in C})
  /\ \A r \in C : LayerOf(e.cause.row.type) <= LayerOf(r.type)

\* It is true of every cluster.
LEMMA EnrichedIsHonest ==
  ASSUME NEW c, Rows(Range(c)), Range(c) # {}
  PROVE  Honest(Enriched(c), Range(c))
<1> DEFINE C == Range(c)
           K == Canonical(C)
           rows == Deduplicated(C)
           e == Enriched(c)
<1>1. PICK own : Stands(rows, own, K, C)
  BY DeduplicatedStands
<1>2. /\ K \in SUBSET C /\ Cardinality(K) = Cardinality({IdentityKey(r) : r \in C})
      /\ \A r \in C : \E k \in K : IdentityKey(k) = IdentityKey(r) /\ Device(r) \subseteq Device(k)
  BY CanonicalIs
<1>3. /\ e.raw = C /\ e.logical = rows /\ e.cause = RootCause(rows)
      /\ e.devices = UNION {rows[i].peers \cup Device(rows[i].row) : i \in DOMAIN rows}
  BY DEF Enriched
<1> HIDE DEF C, K, rows, e
<1>4. /\ own \in [K -> 1 .. Len(rows)] /\ DOMAIN rows = 1 .. Len(rows)
      /\ \A k \in K : Tells(rows[own[k]], k)
  BY <1>1 DEF Stands
<1>5. UNION {Device(r) : r \in C} \subseteq e.devices
  <2> SUFFICES ASSUME NEW r \in C, NEW d \in Device(r) PROVE d \in e.devices
    OBVIOUS
  <2>1. PICK k \in K : Device(r) \subseteq Device(k)
    BY <1>2
  <2>2. own[k] \in DOMAIN rows /\ d \in rows[own[k]].peers \cup Device(rows[own[k]].row)
    BY <1>4, <2>1 DEF Tells
  <2> QED
    BY <1>3, <2>2
<1>6. RawSum(e.logical) = Cardinality({IdentityKey(r) : r \in C})
  BY <1>1, <1>2, <1>3, RawSumIs
<1>7. \A r \in C : LayerOf(e.cause.row.type) <= LayerOf(r.type)
  <2>1. IsFiniteSet(C) /\ K # {}
    <3>1. IsFiniteSet(C) /\ C # {}
      BY DEF Rows, C
    <3> QED
      BY <1>2, <3>1
  <2>2. \A k \in K : LayerOf(e.cause.row.type) <= LayerOf(k.type)
    BY <1>1, <1>3, <2>1, CauseIs
  <2>3. \A r \in C : \E k \in K : k.type = r.type
    BY <1>2 DEF IdentityKey
  <2> QED
    BY <2>2, <2>3
<1>8. Honest(e, C)
  BY <1>3, <1>5, <1>6, <1>7 DEF Honest
<1> QED
  BY <1>8 DEF e, C

-----------------------------------------------------------------------------
(* The tools. *)

\* The totals of the devices are all the raises, each of them of one device.
LEMMA TotalSumIs ==
  ASSUME NEW P, IsFiniteSet(P), NEW rows, DOMAIN rows = DevicesOf(P),
         \A d \in DevicesOf(P) : rows[d].total = Cardinality({r \in P : r.device = d})
  PROVE  TotalSum(rows) = Cardinality(P)
<1> DEFINE D == DOMAIN rows
           f == [i \in D |-> rows[i].total]
           Some(s) == CHOOSE d \in s : TRUE
           Body(g, s) == IF s = {} THEN 0 ELSE rows[Some(s)].total + g[s \ {Some(s)}]
           Solves(g) == g = [s \in SUBSET D |-> Body(g, s)]
<1> DEFINE own == [r \in P |-> r.device]
<1>2. IsFiniteSet(P) /\ own \in [P -> D] /\ IsFiniteSet(D) /\ \A d \in D : f[d] = Cardinality(Fiber(own, P, d))
  <2>1. own \in Surjection(P, D)
    BY DEF Surjection, DevicesOf
  <2>2. IsFiniteSet(D)
    BY <2>1, FS_Surjection
  <2>3. own \in [P -> D]
    BY DEF DevicesOf
  <2>4. \A d : Fiber(own, P, d) = {r \in P : r.device = d}
    BY DEF Fiber
  <2>5. \A d \in D : f[d] = Cardinality(Fiber(own, P, d))
    <3> HIDE DEF own
    <3> QED
      BY <2>4
  <2> QED
    BY <2>2, <2>3, <2>5
<1> HIDE DEF own
<1>3. TotalSum(rows) = (CHOOSE g : Solves(g))[D]
  BY DEF TotalSum, MapThenSumSet, MapThenFoldSet
<1>4. \A s \in SUBSET D : s # {} => Some(s) \in D /\ f[Some(s)] = rows[Some(s)].total
  OBVIOUS
<1> HIDE DEF f, D, Some
<1>12. AddsUp(f, D, Cardinality(P))
  BY <1>2, FibersAddUp
<1>5. PICK g0 : g0 = [s \in SUBSET D |-> g0[s]] /\ SumsUp(g0, f, D)
  BY <1>12 DEF AddsUp
<1>6. \A s \in SUBSET D : g0[s] = Body(g0, s)
  <2>1. \A s \in SUBSET D : g0[s] = IF s = {} THEN 0 ELSE f[Some(s)] + g0[s \ {Some(s)}]
    BY <1>5, Zenon DEF SumsUp, Some
  <2> QED
    BY <1>4, <2>1
<1>7. Solves(g0)
  <2> HIDE DEF Body
  <2> QED
    BY <1>5, <1>6
<1> DEFINE g == CHOOSE e : Solves(e)
<1>8. Solves(g)
  <2> HIDE DEF Solves
  <2> QED
    BY <1>7
<1> HIDE DEF g
<1>9. \A s \in SUBSET D : g[s] = Body(g, s)
  <2> HIDE DEF Body
  <2> QED
    BY <1>8
<1>10. SumsUp(g, f, D)
  <2>1. \A s \in SUBSET D : g[s] = IF s = {} THEN 0 ELSE f[Some(s)] + g[s \ {Some(s)}]
    BY <1>4, <1>9
  <2> QED
    BY <2>1, Zenon DEF SumsUp, Some
<1>11. g[D] = Cardinality(P)
  BY <1>10, <1>12, Zenon DEF AddsUp
<1> QED
  BY <1>3, <1>11 DEF g

\* Clusters, one row per fault and causes, as the invariant states them, with
\* the window it is about.
LEMMA ClusteredIs ==
  ASSUME NEW S, Rows(S), NEW gap \in Nat, NEW least
  PROVE  \A g : (\E c \in Clustered(S, gap, least) : g = Range(c)) <=>
                  g \in {Around(S, r, gap) : r \in S} /\ Cardinality(g) >= least
<1> DEFINE all == Range(Clusters(InOrder(S), gap))
<1>1. /\ {Range(c) : c \in all} = {Around(S, r, gap) : r \in S}
      /\ \A c \in all : Len(c) = Cardinality(Range(c))
  <2> DEFINE u == all
  <2>1. u = Range(Clusters(InOrder(S), gap))
    OBVIOUS
  <2> HIDE DEF u, all
  <2>2. /\ {Range(c) : c \in u} = {Around(S, r, gap) : r \in S}
        /\ \A c \in u : Len(c) = Cardinality(Range(c))
    BY <2>1, ClustersAreGroups
  <2> QED
    BY <2>2 DEF u
<1>2. Clustered(S, gap, least) = {c \in all : Len(c) >= least}
  BY DEF Clustered
<1> HIDE DEF all
<1> QED
  BY <1>1, <1>2

\* A cluster is of the window and not empty.
LEMMA ClusteredRows ==
  ASSUME NEW S, Rows(S), NEW gap \in Nat, NEW least, NEW c \in Clustered(S, gap, least)
  PROVE  Rows(Range(c)) /\ Range(c) # {}
<1> DEFINE all == Range(Clusters(InOrder(S), gap))
<1>1. c \in all
  BY DEF Clustered
<1> DEFINE u == all
<1>2. u = Range(Clusters(InOrder(S), gap))
  OBVIOUS
<1> HIDE DEF u, all
<1>3. Range(c) \in SUBSET S /\ Range(c) # {}
  BY <1>1, <1>2, ClustersAreGroups DEF u
<1> QED
  BY <1>3, PartOfRows
\* correlate_anomaly_events: the groups, and what is said of them.
LEMMA CorrelateAnswers ==
  ASSUME NEW S, Rows(S), NEW gap \in Nat, NEW least, NEW type, NEW said,
         said = [tool |-> "correlate", gap |-> gap, least |-> least, type |-> type,
                   clusters |-> {Enriched(c) : c \in
                     {c \in Clustered(S, gap, least) : type = NoOne \/ \E r \in Range(c) : r.type = type}}]
  PROVE  Faithful(said, S)
<1> DEFINE kept == {c \in Clustered(S, gap, least) : type = NoOne \/ \E r \in Range(c) : r.type = type}
           Groups == {Around(S, r, gap) : r \in S}
<1>1. \A c \in kept : Honest(Enriched(c), Range(c))
  <2> SUFFICES ASSUME NEW c \in kept PROVE Honest(Enriched(c), Range(c))
    OBVIOUS
  <2>1. c \in Clustered(S, gap, least)
    OBVIOUS
  <2>2. Rows(Range(c)) /\ Range(c) # {}
    BY <2>1, ClusteredRows
  <2> QED
    BY <2>2, EnrichedIsHonest
<1>2. \A g : (\E c \in kept : g = Range(c)) <=>
               /\ g \in Groups /\ Cardinality(g) >= least
               /\ type = NoOne \/ \E r \in g : r.type = type
  <2>1. \A g : (\E c \in Clustered(S, gap, least) : g = Range(c)) <=>
                 g \in Groups /\ Cardinality(g) >= least
    BY ClusteredIs
  <2> HIDE DEF Groups
  <2> QED
    BY <2>1
<1>3. /\ said.tool = "correlate" /\ said.gap = gap /\ said.least = least /\ said.type = type
      /\ said.clusters = {Enriched(c) : c \in kept}
  OBVIOUS
<1> HIDE DEF kept
<1>4. {c.raw : c \in said.clusters} =
        {g \in {Around(S, r, said.gap) : r \in S} :
           /\ Cardinality(g) >= said.least
           /\ said.type = NoOne \/ \E r \in g : r.type = said.type}
  <2>1. \A c \in kept : Enriched(c).raw = Range(c)
    BY <1>1 DEF Honest
  <2>2. \A g : g \in {e.raw : e \in said.clusters} <=> \E c \in kept : g = Range(c)
    BY <1>3, <2>1
  <2>3. {Around(S, r, said.gap) : r \in S} = Groups
    BY <1>3
  <2> HIDE DEF Groups
  <2> QED
    BY <1>2, <1>3, <2>2, <2>3
<1> HIDE DEF Groups
<1>5. ASSUME NEW e \in said.clusters
      PROVE  /\ UNION {Device(r) : r \in e.raw} \subseteq e.devices
             /\ RawSum(e.logical) = Cardinality({IdentityKey(r) : r \in e.raw})
             /\ \A r \in e.raw : LayerOf(e.cause.row.type) <= LayerOf(r.type)
  <2>1. PICK c \in kept : e = Enriched(c)
    BY <1>3
  <2>2. Honest(e, e.raw)
    BY <1>1, <2>1 DEF Honest
  <2> QED
    BY <2>2 DEF Honest
<1> QED
  BY <1>3, <1>4, <1>5, Zenon DEF Faithful

\* get_correlated_faults: never more faults than rows.
LEMMA FaultsAnswers ==
  ASSUME NEW S, Rows(S), NEW C \in SUBSET S, NEW said,
         said = [tool |-> "faults", raw |-> Cardinality(C), logical |-> Deduplicated(C)]
  PROVE  Faithful(said, S)
<1>1. Rows(C)
  BY PartOfRows
<1>2. PICK own : Stands(Deduplicated(C), own, Canonical(C), C)
  BY <1>1, DeduplicatedStands
<1>3. RawSum(Deduplicated(C)) = Cardinality(Canonical(C))
  BY <1>2, RawSumIs
<1>4. RawSum(said.logical) <= said.raw
  BY <1>1, <1>3, CanonicalIs
<1>5. said.tool = "faults" /\ "faults" # "correlate"
  OBVIOUS
<1> QED
  BY <1>4, <1>5 DEF Faithful

\* get_device_anomaly_heatmap: every raise at one device.
LEMMA HeatmapAnswers ==
  ASSUME NEW S, Rows(S), NEW rows, NEW said, said = [tool |-> "heatmap", rows |-> rows],
         DOMAIN rows = DevicesOf(S),
         \A d \in DevicesOf(S) : rows[d].total = Cardinality({r \in S : r.device = d})
  PROVE  Faithful(said, S)
<1>1. TotalSum(rows) = Cardinality(S)
  BY TotalSumIs DEF Rows
<1>2. said.tool = "heatmap" /\ said.rows = rows
  OBVIOUS
<1> QED
  BY <1>1, <1>2 DEF Faithful

\* A window stays what it is assumed to be, and an answer is about it.
FaultInv == Rows(raises) /\ (found # NoOne => Faithful(found, raises))

\* For every window, gap and size: the clusters are the groups the gaps leave,
\* their rows count each fault once and name every device, and no anomaly of a
\* cluster is of a lower layer than its cause (cluster_raises,
\* deduplicate_cluster, score_root_cause, enrich_cluster).
THEOREM ClustersAreFaithful == FaultSpec => []ClustersFaithful
<1>1. FaultInit => FaultInv
  BY FaultAssumption DEF FaultInit, FaultInv, Rows
<1>2. FaultInv /\ [FaultNext]_faultVars => FaultInv'
  <2> SUFFICES ASSUME FaultInv, [FaultNext]_faultVars PROVE FaultInv'
    OBVIOUS
  <2>1. Rows(raises) /\ (found # NoOne => Faithful(found, raises))
    BY DEF FaultInv
  <2>2. raises' = raises
    BY DEF FaultNext, Correlate, CorrelatedFaults, Heatmap, faultVars
  <2>3. CASE Correlate
    <3>1. PICK gap \in Gaps, least \in MinSizes, type \in Types \cup {NoOne} :
            found' = [tool |-> "correlate", gap |-> gap, least |-> least, type |-> type,
                      clusters |-> {Enriched(c) : c \in
                        {c \in Clustered(raises, gap, least) :
                           type = NoOne \/ \E r \in Range(c) : r.type = type}}]
      BY <2>3 DEF Correlate
    <3>2. gap \in Nat
      BY FaultAssumption
    <3>3. Faithful(found', raises)
      BY <2>1, <3>1, <3>2, CorrelateAnswers
    <3> QED
      BY <2>1, <2>2, <3>3 DEF FaultInv
  <2>4. CASE CorrelatedFaults
    <3>1. PICK type \in Types \cup {NoOne} :
            found' = [tool |-> "faults", raw |-> Cardinality({r \in raises : type \in {NoOne, r.type}}),
                      logical |-> Deduplicated({r \in raises : type \in {NoOne, r.type}})]
      BY <2>4 DEF CorrelatedFaults
    <3> DEFINE C == {r \in raises : type \in {NoOne, r.type}}
    <3>2. C \in SUBSET raises
      OBVIOUS
    <3>3. found' = [tool |-> "faults", raw |-> Cardinality(C), logical |-> Deduplicated(C)]
      BY <3>1
    <3> HIDE DEF C
    <3>4. Faithful(found', raises)
      BY <2>1, <3>2, <3>3, FaultsAnswers
    <3> QED
      BY <2>1, <2>2, <3>4 DEF FaultInv
  <2>5. CASE Heatmap
    <3> DEFINE In(d) == {r \in raises : r.device = d}
               rows == [d \in {r.device : r \in raises} |->
                         [total |-> Cardinality(In(d)),
                          crosses |-> Cardinality({LayerOf(r.type) : r \in In(d)}) > 1]]
    <3>1. found' = [tool |-> "heatmap", rows |-> rows]
      BY <2>5 DEF Heatmap
    <3>2. DOMAIN rows = DevicesOf(raises) /\ \A d \in DevicesOf(raises) : rows[d].total = Cardinality(In(d))
      BY DEF DevicesOf
    <3> HIDE DEF rows
    <3>3. Faithful(found', raises)
      BY <2>1, <3>1, <3>2, HeatmapAnswers
    <3> QED
      BY <2>1, <2>2, <3>3 DEF FaultInv
  <2>6. CASE UNCHANGED faultVars
    BY <2>1, <2>6 DEF FaultInv, faultVars
  <2> QED
    BY <2>3, <2>4, <2>5, <2>6 DEF FaultNext
<1>3. FaultInv => ClustersFaithful
  BY DEF FaultInv, ClustersFaithful
<1> QED
  BY <1>1, <1>2, <1>3, PTL DEF FaultSpec
=============================================================================
