------------------------ MODULE AnomalyPollerProofs -------------------------
(***************************************************************************)
(* Theorems about AnomalyPoller for any anomalies, times and faults: the   *)
(* baseline follows the log, and what is written to the log is written as  *)
(* AnomalyLog says, whatever fails, crashes or is run again.               *)
(*                                                                         *)
(* A poll changes its baseline when it has nothing left to write: every    *)
(* anomaly the new baseline differs in is still to be written, or in the   *)
(* log (DiffInv), and while it writes nothing prunes and no time passes.   *)
(* The log is bounded, so new events can be numbered after all others of   *)
(* their identity; and a trace says one thing of every tick, so no two of  *)
(* its events have one stamp.                                              *)
(*                                                                         *)
(* Without a failed request the log says only what was so (TruthInv): what *)
(* is left to write is the difference of two states the fabric was in, and *)
(* the detection time a trace carries is of a tick at which its anomaly    *)
(* was there.                                                              *)
(***************************************************************************)
EXTENDS AnomalyPoller, FiniteSetTheorems, WellFoundedInduction, TLAPS

\* The numbers of the log have a bound.
Bounded(L) == \E b \in Nat : \A e \in L : e.n <= b

\* The poll that is writing has left no difference out.
DiffInv ==
  pc = "diffWrite" =>
    \A x \in Ids : (x \in local.snap) # (x \in base.snap) =>
      \E e \in todo \cup log :
        e.x = x /\ e.raised = (x \in local.snap) /\ e.ts >= PollerStamp(since)

\* A backfill that is under way is not complete.
BackfillInv ==
  pc \in {"bfCounts", "bfWrite", "bfLive", "liveWrite", "bfBase", "bfBaseCounts"} =>
    ~ base.complete

IInv == TypeOK /\ Bounded(log) /\ DiffInv /\ BackfillInv
-----------------------------------------------------------------------------
(* Numbers. *)

LEMMA Assumptions ==
  /\ IsFiniteSet(Ids) /\ TypeOf \in [Ids -> Nat]
  /\ Patience \in Nat /\ Window \in Nat /\ MaxTime \in Nat \ {0} /\ MaxFaults \in Nat
  BY PollerAssumption

\* A bounded set of natural numbers has a greatest element.
LEMMA GreatestExists ==
  ASSUME NEW S \in SUBSET Nat, S # {}, NEW b \in Nat, \A y \in S : y <= b
  PROVE  Max(S) \in S /\ \A y \in S : y <= Max(S)
<1> DEFINE Below == {k \in Nat : b - k \in S}
<1>1. Below \subseteq Nat /\ Below # {}
  <2>1. PICK y \in S : TRUE
    OBVIOUS
  <2>2. b - y \in Nat /\ b - (b - y) = y
    BY <2>1
  <2>3. b - y \in Below
    BY <2>1, <2>2
  <2> QED
    BY <2>3
<1>2. PICK k \in Below : \A j \in Below : ~ (<<j, k>> \in OpToRel(<, Nat))
  <2> HIDE DEF Below
  <2> QED
    BY <1>1, NatLessThanWellFounded, WFMin
<1>3. OpToRel(<, Nat) = {p \in Nat \X Nat : p[1] < p[2]}
  BY Zenon DEF OpToRel
<1>4. ASSUME NEW y \in S PROVE y <= b - k
  <2>1. b - y \in Nat /\ b - (b - y) = y
    BY <1>4
  <2>2. b - y \in Below
    BY <1>4, <2>1
  <2>3. <<b - y, k>> \in Nat \X Nat
    BY <2>1
  <2>4. ~ (b - y < k)
    BY <1>2, <1>3, <2>2, <2>3
  <2> QED
    BY <2>1, <2>4
<1> DEFINE Greatest(z) == \A y \in S : z >= y
<1>5. b - k \in S /\ Greatest(b - k)
  BY <1>4
<1>6. Max(S) = CHOOSE z \in S : Greatest(z)
  BY DEF Max
<1>7. Max(S) \in S /\ Greatest(Max(S))
  <2> HIDE DEF Greatest
  <2> QED
    BY <1>5, <1>6
<1> QED
  BY <1>7

\* The greatest of some of the numbers up to n is one of them.
LEMMA GreatestUpTo ==
  ASSUME NEW n \in Nat, NEW S \in SUBSET (1..n), S # {}
  PROVE  Max(S) \in S
<1>1. S \subseteq Nat /\ \A y \in S : y <= n
  OBVIOUS
<1> QED
  BY <1>1, GreatestExists

\* A set that lists something for finitely many numbers is finite.
LEMMA FiniteImage ==
  ASSUME NEW S, IsFiniteSet(S), NEW f, f = [x \in S |-> f[x]],
         NEW T, T = {f[x] : x \in S}
  PROVE  IsFiniteSet(T)
<1>1. f \in Surjection(S, T)
  <2>1. f \in [S -> T]
    OBVIOUS
  <2>2. \A t \in T : \E x \in S : f[x] = t
    OBVIOUS
  <2> QED
    BY <2>1, <2>2 DEF Surjection
<1> QED
  BY <1>1, FS_Surjection
-----------------------------------------------------------------------------
(* What recording does. *)

Fresh(x, E, L) == {e \in E : ~Log!Known(x, e.ts, e.raised, L)}
LastNumber(x, L) == Max({0} \cup {e.n : e \in Log!Of(x, L)})
UpTo(e, S) == {f \in S : f.ts <= e.ts}
Entry(x, E, L, e) ==
  [n |-> LastNumber(x, L) + Cardinality(UpTo(e, Fresh(x, E, L))),
   x |-> x, ts |-> e.ts, raised |-> e.raised]

LEMMA RecordedIs ==
  ASSUME NEW x, NEW E, NEW L
  PROVE  Recorded(x, E, L) = L \cup {Entry(x, E, L, e) : e \in Fresh(x, E, L)}
  BY DEF Recorded, Entry, Fresh, LastNumber, UpTo

LEMMA LastNumberLast ==
  ASSUME NEW L \in SUBSET Log!Event, Bounded(L), NEW x \in Ids
  PROVE  LastNumber(x, L) \in Nat /\ \A e \in Log!Of(x, L) : e.n <= LastNumber(x, L)
<1> DEFINE N == {0} \cup {e.n : e \in Log!Of(x, L)}
<1>1. PICK b \in Nat : \A e \in L : e.n <= b
  BY DEF Bounded
<1>2. N \subseteq Nat /\ N # {} /\ \A y \in N : y <= b
  BY <1>1 DEF Log!Of, Log!Event
<1>3. Max(N) \in N /\ \A y \in N : y <= Max(N)
  <2> HIDE DEF N
  <2> QED
    BY <1>2, GreatestExists
<1> QED
  BY <1>2, <1>3 DEF LastNumber

\* The events to record of one identity: finitely many, of different stamps.
Recordable(E) ==
  /\ IsFiniteSet(E)
  /\ \A e \in E : e.ts \in Nat /\ e.raised \in BOOLEAN
  /\ \A e, f \in E : e.ts = f.ts => e = f

\* Later stamps get higher numbers, and those are after all others.
LEMMA NumbersGrow ==
  ASSUME NEW E, Recordable(E), NEW e \in E
  PROVE  /\ Cardinality(UpTo(e, E)) \in Nat /\ Cardinality(UpTo(e, E)) > 0
         /\ Cardinality(UpTo(e, E)) <= Cardinality(E) /\ Cardinality(E) \in Nat
         /\ \A f \in E : e.ts < f.ts => Cardinality(UpTo(e, E)) < Cardinality(UpTo(f, E))
<1>1. \A f \in E : IsFiniteSet(UpTo(f, E)) /\ Cardinality(UpTo(f, E)) \in Nat
  <2>1. \A f \in E : UpTo(f, E) \subseteq E
    BY DEF UpTo
  <2> QED
    BY <2>1, FS_Subset, FS_CardinalityType DEF Recordable
<1>2. UpTo(e, E) # {} /\ UpTo(e, E) \subseteq E
  BY DEF UpTo, Recordable
<1>3. Cardinality(UpTo(e, E)) # 0
  BY <1>1, <1>2, FS_EmptySet
<1>4. Cardinality(UpTo(e, E)) <= Cardinality(E) /\ Cardinality(E) \in Nat
  BY <1>2, FS_Subset, FS_CardinalityType DEF Recordable
<1>5. ASSUME NEW f \in E, e.ts < f.ts
      PROVE  Cardinality(UpTo(e, E)) < Cardinality(UpTo(f, E))
  <2>1. UpTo(e, E) \subseteq UpTo(f, E) /\ f \in UpTo(f, E) /\ f \notin UpTo(e, E)
    BY <1>5 DEF UpTo, Recordable
  <2>2. /\ Cardinality(UpTo(e, E)) <= Cardinality(UpTo(f, E))
        /\ Cardinality(UpTo(f, E)) # Cardinality(UpTo(e, E))
    BY <1>1, <2>1, FS_Subset
  <2> QED
    BY <1>1, <2>2
<1> QED
  BY <1>1, <1>3, <1>4, <1>5

LEMMA FreshRecordable ==
  ASSUME NEW E, Recordable(E), NEW x, NEW L
  PROVE  Recordable(Fresh(x, E, L)) /\ Fresh(x, E, L) \subseteq E
<1>1. Fresh(x, E, L) \subseteq E
  BY DEF Fresh
<1> QED
  BY <1>1, FS_Subset DEF Recordable

\* The step of AnomalyLog that adds events.
Appends(L, M) ==
  /\ L \subseteq M
  /\ \A e \in M \ L :
       /\ e \in Log!Event
       /\ ~Log!Known(e.x, e.ts, e.raised, M \ {e})
       /\ \A f \in Log!Of(e.x, M \ {e}) : f.n # e.n
       /\ \A f \in Log!Of(e.x, L) : f.n < e.n

\* Recording keeps to it, and leaves every event in the log.
LEMMA RecordedAppends ==
  ASSUME NEW L \in SUBSET Log!Event, Bounded(L), NEW x \in Ids,
         NEW E, Recordable(E), NEW M, M = Recorded(x, E, L)
  PROVE  /\ Appends(L, M) /\ M \subseteq Log!Event /\ Bounded(M)
         /\ \A e \in E : Log!Known(x, e.ts, e.raised, M)
<1> DEFINE New == Fresh(x, E, L)
           Made(e) == Entry(x, E, L, e)
           last == LastNumber(x, L)
           pos(e) == Cardinality(UpTo(e, New))
<1>1. M = L \cup {Made(e) : e \in New}
  BY RecordedIs
<1>2. Recordable(New) /\ New \subseteq E
  BY FreshRecordable
<1>3. last \in Nat /\ \A f \in Log!Of(x, L) : f.n <= last
  BY LastNumberLast
<1>4. \A e \in New :
        /\ pos(e) \in Nat /\ pos(e) > 0 /\ pos(e) <= Cardinality(New)
        /\ Cardinality(New) \in Nat
        /\ \A f \in New : e.ts < f.ts => pos(e) < pos(f)
  <2> HIDE DEF New
  <2> QED
    BY <1>2, NumbersGrow
<1>5. \A e \in New : Made(e) = [n |-> last + pos(e), x |-> x, ts |-> e.ts, raised |-> e.raised]
  BY DEF Entry
<1>6. \A e \in New :
        /\ e.ts \in Nat /\ e.raised \in BOOLEAN
        /\ ~Log!Known(x, e.ts, e.raised, L)
        /\ \A f \in New : e.ts = f.ts => e = f
  BY <1>2 DEF Recordable, Fresh
<1> HIDE DEF New, Made, last, pos
<1>7. \A e \in New :
        /\ Made(e) \in Log!Event
        /\ Made(e).n = last + pos(e) /\ Made(e).x = x
        /\ Made(e).ts = e.ts /\ Made(e).raised = e.raised
  BY <1>3, <1>4, <1>5, <1>6 DEF Log!Event
<1>8. M \subseteq Log!Event
  BY <1>1, <1>7
<1>9. Bounded(M)
  <2>1. PICK b \in Nat : \A e \in L : e.n <= b
    BY DEF Bounded
  <2>2. CASE New = {}
    BY <1>1, <2>2
  <2>3. CASE New # {}
    <3>1. Cardinality(New) \in Nat
      BY <2>3, <1>4
    <3>2. b + last + Cardinality(New) \in Nat
      BY <1>3, <3>1
    <3>3. \A e \in New : Made(e).n <= b + last + Cardinality(New)
      BY <1>3, <1>4, <1>7, <2>1
    <3>4. \A e \in L : e.n <= b + last + Cardinality(New)
      BY <1>3, <2>1, <3>1 DEF Log!Event
    <3> QED
      BY <1>1, <3>2, <3>3, <3>4 DEF Bounded
  <2> QED
    BY <2>2, <2>3
<1>10. Appends(L, M)
  <2> SUFFICES ASSUME NEW r \in M \ L
               PROVE  /\ ~Log!Known(r.x, r.ts, r.raised, M \ {r})
                      /\ \A f \in Log!Of(r.x, M \ {r}) : f.n # r.n
                      /\ \A f \in Log!Of(r.x, L) : f.n < r.n
    BY <1>1, <1>8 DEF Appends
  <2>1. PICK e \in New : r = Made(e)
    BY <1>1
  <2>2. r.x = x /\ r.ts = e.ts /\ r.raised = e.raised /\ r.n = last + pos(e)
    BY <2>1, <1>7
  <2>3. \A f \in Log!Of(x, L) : f.n < r.n
    <3>1. \A f \in Log!Of(x, L) : f.n \in Nat
      BY DEF Log!Of, Log!Event
    <3> QED
      BY <1>3, <1>4, <2>2, <3>1
  <2>4. ASSUME NEW f \in M \ {r}, f.x = x PROVE f.n # r.n /\ ~ (f.ts = r.ts /\ f.raised = r.raised)
    <3>1. CASE f \in L
      BY <2>2, <2>3, <2>4, <3>1, <1>6 DEF Log!Of, Log!Known, Log!Event
    <3>2. CASE f \notin L
      <4>1. PICK g \in New : f = Made(g)
        BY <1>1, <3>2
      <4>2. g # e /\ g.ts # e.ts
        BY <1>6, <2>1, <2>4, <4>1
      <4>3. pos(g) # pos(e)
        BY <1>4, <1>6, <4>2
      <4> QED
        BY <1>3, <1>4, <1>7, <2>2, <4>1, <4>2, <4>3
    <3> QED
      BY <3>1, <3>2
  <2> QED
    BY <2>2, <2>3, <2>4 DEF Log!Known, Log!Of
<1>11. ASSUME NEW e \in E PROVE Log!Known(x, e.ts, e.raised, M)
  <2>1. CASE Log!Known(x, e.ts, e.raised, L)
    BY <1>1, <2>1 DEF Log!Known
  <2>2. CASE ~Log!Known(x, e.ts, e.raised, L)
    <3>1. e \in New
      BY <2>2 DEF New, Fresh
    <3> QED
      BY <1>1, <1>7, <3>1 DEF Log!Known
  <2> QED
    BY <2>1, <2>2
<1> QED
  BY <1>8, <1>9, <1>10, <1>11
-----------------------------------------------------------------------------
(* Types of what the actions compute. *)

ToDo == [x : Ids, ts : Nat, raised : BOOLEAN, rank : Int]
Carried == [counts : CountMaps, snap : SUBSET Ids, open : SUBSET Ids, seen : SUBSET Ids]

\* The ticks until now.
LEMMA Ticks ==
  ASSUME TypeOK
  PROVE  now \in Nat /\ now >= 1 /\ since \in 1..now /\ \A t \in 1..now : hist[t] \in SUBSET Ids
  BY DEF TypeOK, now

LEMMA Stamps ==
  \A t \in Nat : FabricStamp(t) \in Nat /\ PollerStamp(t) \in Nat
  BY DEF FabricStamp, PollerStamp

LEMMA CountsType ==
  ASSUME NEW S \in SUBSET Ids
  PROVE  Counts(S) \in CountMaps
<1>1. ASSUME NEW ty \in Types PROVE Cardinality(OfType(ty, S)) \in 0..Cardinality(Ids)
  <2>1. OfType(ty, S) \subseteq Ids
    BY DEF OfType
  <2>2. /\ IsFiniteSet(OfType(ty, S))
        /\ Cardinality(OfType(ty, S)) <= Cardinality(Ids)
    BY <2>1, Assumptions, FS_Subset
  <2>3. Cardinality(OfType(ty, S)) \in Nat /\ Cardinality(Ids) \in Nat
    BY <2>2, Assumptions, FS_CardinalityType
  <2> QED
    BY <2>2, <2>3
<1> QED
  BY <1>1 DEF Counts, CountMaps

LEMMA BlankType == Blank \in Carried /\ Unset \in [counts : CountMaps, snap : SUBSET Ids, complete : BOOLEAN]
<1>1. Counts({}) \in CountMaps
  BY CountsType
<1> QED
  BY <1>1 DEF Blank, Unset, Carried

LEMMA ToWriteType ==
  ASSUME NEW S \in SUBSET Ids, NEW ts \in Nat, NEW raised \in BOOLEAN, NEW rank \in Int
  PROVE  ToWrite(S, ts, raised, rank) \subseteq ToDo
  BY DEF ToWrite, ToDo

LEMMA ToWriteBoth ==
  ASSUME NEW S \in SUBSET Ids, NEW T \in SUBSET Ids, NEW ts \in Nat, NEW rank \in Int
  PROVE  /\ ToWrite(S \ T, ts, TRUE, rank) \subseteq ToDo
         /\ ToWrite(S \ T, ts, FALSE, rank) \subseteq ToDo
<1>1. S \ T \in SUBSET Ids
  OBVIOUS
<1>2. TRUE \in BOOLEAN /\ FALSE \in BOOLEAN
  OBVIOUS
<1> QED
  BY <1>1, <1>2, ToWriteType

LEMMA DetectedAtType ==
  ASSUME TypeOK, NEW x \in Ids, NEW t \in 1..now
  PROVE  DetectedAt(x, t) \subseteq Nat
<1> DEFINE S == {1} \cup {s \in 2..t : x \in hist[s] /\ x \notin hist[s-1]}
<1>1. t \in Nat /\ t >= 1
  BY Ticks
<1>2. S \subseteq 1..t /\ S # {}
  BY <1>1
<1>3. Max(S) \in Nat
  <2> HIDE DEF S
  <2> DEFINE m == Max(S)
  <2>1. m \in S
    BY <1>1, <1>2, GreatestUpTo
  <2>2. m \in 1..t
    BY <1>2, <2>1
  <2> HIDE DEF m
  <2>3. m \in Nat
    BY <1>1, <2>2
  <2> QED
    BY <2>3 DEF m
<1>4. FabricStamp(Max(S)) \in Nat
  <2> HIDE DEF S
  <2> QED
    BY <1>3, Stamps
<1>5. DetectedAt(x, t) = {0, FabricStamp(Max(S))}
  BY DEF DetectedAt
<1> QED
  BY <1>4, <1>5

\* What a backfill has of the snapshots it asked for.
LEMMA GotType ==
  ASSUME TypeOK, NEW u \in 1..now, NEW ty, NEW lost
  PROVE  /\ \A t \in 2..u : Got(ty, t, lost) \in SUBSET Ids
         /\ \A t : Before(ty, t, u, lost) \in SUBSET Ids
<1>1. u \in Nat /\ \A t \in 2..u : hist[t] \in SUBSET Ids
  BY Ticks
<1>2. \A t \in 2..u : Got(ty, t, lost) \in SUBSET Ids
  BY <1>1 DEF Got, OfType
<1>3. ASSUME NEW t PROVE Before(ty, t, u, lost) \in SUBSET Ids
  <2> DEFINE earlier == {s \in Asks(ty, u) : s < t}
  <2>1. Asks(ty, u) \subseteq 2..u
    BY DEF Asks, Changes
  <2>2. earlier \subseteq 2..u
    BY <2>1
  <2>3. Before(ty, t, u, lost) = IF earlier = {} THEN {} ELSE Got(ty, Max(earlier), lost)
    BY DEF Before
  <2> HIDE DEF earlier
  <2>4. earlier # {} => Max(earlier) \in 2..u
    <3>1. earlier \subseteq 1..u
      BY <1>1, <2>2
    <3> QED
      BY <1>1, <2>2, <3>1, GreatestUpTo
  <2> QED
    BY <1>2, <2>3, <2>4
<1> QED
  BY <1>2, <1>3

LEMMA WalkType ==
  ASSUME TypeOK, NEW u \in 1..now, NEW lost
  PROVE  /\ Walk(u, lost) \subseteq ToDo
         /\ Seen(u, lost) \subseteq Ids
         /\ LeftOpen(u, lost) \subseteq Ids
<1>1. u \in Nat /\ MaxTime \in Nat /\ Types \subseteq Nat
  BY Ticks, Assumptions DEF Types
<1>2. ASSUME NEW p \in Types \X (2..u), NEW got \in SUBSET Ids, NEW prev \in SUBSET Ids,
             NEW rank, rank = 2 * (p[1] * 2 * MaxTime + p[2])
      PROVE  /\ ToWrite(got \ prev, FabricStamp(p[2]), TRUE, rank) \subseteq ToDo
             /\ ToWrite(prev \ got, FabricStamp(p[2]), FALSE, rank + 1) \subseteq ToDo
  <2>1. p[1] \in Nat /\ p[2] \in Nat
    <3>1. p[1] \in Types /\ p[2] \in 2..u
      OBVIOUS
    <3>2. 2..u \subseteq Nat
      BY <1>1
    <3> QED
      BY <1>1, <3>1, <3>2
  <2>2. p[1] * 2 * MaxTime \in Int
    BY <1>1, <2>1
  <2>3. rank \in Int /\ rank + 1 \in Int
    <3> DEFINE k == p[1] * 2 * MaxTime
    <3>1. k \in Int /\ rank = 2 * (k + p[2])
      BY <1>2, <2>2
    <3> HIDE DEF k
    <3> QED
      BY <2>1, <3>1
  <2> QED
    BY <2>1, <2>3, ToWriteType, Stamps
<1>3. Walk(u, lost) \subseteq ToDo
  BY <1>2, GotType DEF Walk
<1>4. Seen(u, lost) \subseteq Ids
  <2>1. \A p \in Asked(u) : p[2] \in 2..u
    BY DEF Asked
  <2> QED
    BY <2>1, GotType DEF Seen
<1>5. LeftOpen(u, lost) \subseteq Ids
  BY GotType DEF LeftOpen
<1> QED
  BY <1>3, <1>4, <1>5

\* A trace says one thing of every tick.
LEMMA TraceRecordable ==
  ASSUME TypeOK, NEW x \in Ids, NEW u \in 1..now
  PROVE  \A E \in SUBSET TraceEvents(x, u) : Recordable(E)
<1> DEFINE S == {t \in 2..u : InWindow(t, u) /\ (x \in hist[t]) # (x \in hist[t-1])}
           f == [t \in S |-> [ts |-> FabricStamp(t), raised |-> x \in hist[t]]]
<1>1. IsFiniteSet(S) /\ S \subseteq Nat
  <2>1. u \in Nat
    BY Ticks
  <2>2. IsFiniteSet(2..u) /\ S \subseteq 2..u
    BY <2>1, FS_Interval
  <2> QED
    BY <2>1, <2>2, FS_Subset
<1>2. TraceEvents(x, u) = {f[t] : t \in S} /\ f = [t \in S |-> f[t]]
  BY DEF TraceEvents
<1>3. \A t \in S : f[t].ts = FabricStamp(t) /\ f[t].raised \in BOOLEAN
  <2>1. \A t \in S : f[t].ts = FabricStamp(t)
    OBVIOUS
  <2>2. \A t \in S : f[t].raised = (x \in hist[t])
    BY Zenon
  <2>3. ASSUME NEW t \in S PROVE f[t].raised \in BOOLEAN
    <3>1. CASE x \in hist[t]
      <4>1. f[t].raised = TRUE
        BY <2>2, <3>1
      <4> QED
        BY <4>1
    <3>2. CASE x \notin hist[t]
      <4>1. f[t].raised = FALSE
        <5>1. (x \in hist[t]) = FALSE
          BY <3>2, SMT
        <5> QED
          BY <2>2, <5>1, Zenon
      <4> QED
        BY <4>1
    <3> QED
      BY <3>1, <3>2
  <2> QED
    BY <2>1, <2>2, <2>3
<1>4. IsFiniteSet(TraceEvents(x, u))
  <2> HIDE DEF S, f
  <2> QED
    BY <1>1, <1>2, FiniteImage
<1>5. \A e \in TraceEvents(x, u) : \E t \in S : e.ts = FabricStamp(t) /\ e = f[t]
                                                 /\ e.ts \in Nat /\ e.raised \in BOOLEAN
  <2> HIDE DEF S, f
  <2> QED
    BY <1>1, <1>2, <1>3, Stamps
<1>6. \A s, t \in S : FabricStamp(s) = FabricStamp(t) => s = t
  BY <1>1 DEF FabricStamp
<1>7. \A e, g \in TraceEvents(x, u) : e.ts = g.ts => e = g
  <2> HIDE DEF S, f
  <2> QED
    BY <1>5, <1>6
<1> QED
  BY <1>4, <1>5, <1>7, FS_Subset DEF Recordable

LEMMA OneRecordable ==
  ASSUME NEW e, e.ts \in Nat, e.raised \in BOOLEAN
  PROVE  Recordable({e})
  BY FS_Singleton DEF Recordable

\* Only snapshots that were asked for can be lost.
LEMMA LostFinite ==
  ASSUME TypeOK, NEW u \in 1..now, NEW lost \in SUBSET Asked(u)
  PROVE  IsFiniteSet(lost) /\ Cardinality(lost) \in Nat
<1>1. IsFiniteSet(Types)
  <2>1. TypeOf = [x \in Ids |-> TypeOf[x]]
    BY Assumptions
  <2> QED
    BY <2>1, Assumptions, FiniteImage DEF Types
<1>2. u \in Nat
  BY Ticks
<1>3. IsFiniteSet(2..u)
  BY <1>2, FS_Interval
<1>4. IsFiniteSet(Types \X (2..u))
  BY <1>1, <1>3, FS_Product
<1>5. lost \subseteq Types \X (2..u)
  BY DEF Asked
<1> QED
  BY <1>4, <1>5, FS_Subset, FS_CardinalityType
-----------------------------------------------------------------------------
(* Every step keeps the invariant, and writes to the log as it may. *)

Bases == [counts : CountMaps, snap : SUBSET Ids, complete : BOOLEAN]
Backfilling == {"bfCounts", "bfWrite", "bfLive", "liveWrite", "bfBase", "bfBaseCounts"}

\* Before the first poll nothing is owed to the log.
THEOREM IInvInit == Init => IInv
<1> SUFFICES ASSUME Init PROVE IInv
  OBVIOUS
<1>1. hist \in Seq(SUBSET Ids) /\ now = 1
  BY DEF Init, now
<1>2. Blank \in Carried /\ Unset \in Bases
  BY BlankType DEF Bases
<1>3. TypeOK
  BY <1>1, <1>2, Assumptions DEF Init, TypeOK, Places, Carried, Bases
<1>4. Bounded(log) /\ DiffInv /\ BackfillInv
  BY DEF Init, Bounded, DiffInv, BackfillInv
<1> QED
  BY <1>3, <1>4 DEF IInv

\* A step that leaves the fabric, the log and the traces alone.
LEMMA QuietStep ==
  ASSUME IInv, UNCHANGED <<hist, log, traces>>,
         base' \in Bases, pc' \in Places, since' \in 1..now, local' \in Carried,
         todo' \subseteq ToDo, faults' \in 0..MaxFaults, DiffInv',
         pc' \in Backfilling => ~ base'.complete
  PROVE  IInv' /\ Appends(log, log')
<1>1. now' = now
  BY DEF now
<1>2. TypeOK'
  BY <1>1 DEF IInv, TypeOK, Bases, Carried, ToDo
<1>3. Bounded(log)' /\ Appends(log, log')
  BY DEF IInv, Bounded, Appends
<1> QED
  BY <1>2, <1>3 DEF IInv, BackfillInv, Backfilling

\* A move to a place where no difference is being written.
LEMMA QuietMove ==
  ASSUME IInv, UNCHANGED <<hist, log, traces>>,
         base' \in Bases, pc' \in Places \ {"diffWrite"}, since' = now \/ since' = since,
         local' \in Carried, todo' \subseteq ToDo, UNCHANGED faults \/ Fault,
         pc' \in Backfilling => ~ base'.complete
  PROVE  IInv' /\ Appends(log, log')
<1>1. since' \in 1..now
  BY Ticks DEF IInv
<1>2. faults' \in 0..MaxFaults
  BY Assumptions DEF IInv, TypeOK, Fault
<1>3. DiffInv'
  BY DEF DiffInv
<1> QED
  BY <1>1, <1>2, <1>3, QuietStep

LEMMA Shapes ==
  ASSUME IInv
  PROVE  /\ base \in Bases /\ local \in Carried /\ todo \subseteq ToDo
         /\ Blank \in Carried /\ Unset \in Bases /\ {} \subseteq ToDo
         /\ \A t \in 1..now : hist[t] \in SUBSET Ids /\ Counts(hist[t]) \in CountMaps
         /\ now \in Nat /\ now >= 1 /\ since \in 1..now
  BY Ticks, BlankType, CountsType DEF IInv, TypeOK, Bases, Carried, ToDo

LEMMA WriteStep ==
  ASSUME IInv, Write
  PROVE  IInv' /\ Appends(log, log')
<1>1. PICK e \in todo :
        /\ log' = Recorded(e.x, {e}, log)
        /\ todo' = todo \ {e}
        /\ IF pc = "diffWrite" /\ e.raised
           THEN \E d \in DetectedAt(e.x, since) :
                  traces' = traces \cup {[x |-> e.x, since |-> now, detected |-> d]}
           ELSE UNCHANGED traces
  BY DEF Write
<1>2. UNCHANGED <<hist, base, pc, since, local, faults>> /\ now' = now
  BY DEF Write, now
<1>3. e.x \in Ids /\ e.ts \in Nat /\ e.raised \in BOOLEAN /\ log \in SUBSET Log!Event
  BY DEF IInv, TypeOK
<1>4. /\ Appends(log, log') /\ log' \subseteq Log!Event /\ Bounded(log')
      /\ Log!Known(e.x, e.ts, e.raised, log')
  BY <1>1, <1>3, OneRecordable, RecordedAppends DEF IInv
<1>5. traces' \subseteq [x : Ids, since : 1..now, detected : Nat]
  <2>1. now \in 1..now /\ since \in 1..now /\ traces \subseteq [x : Ids, since : 1..now, detected : Nat]
    BY Ticks DEF IInv, TypeOK
  <2>2. DetectedAt(e.x, since) \subseteq Nat
    BY <1>3, <2>1, DetectedAtType DEF IInv
  <2> QED
    BY <1>1, <1>3, <2>1, <2>2
<1>6. TypeOK'
  BY <1>1, <1>2, <1>4, <1>5 DEF IInv, TypeOK
<1>7. DiffInv'
  <2> SUFFICES ASSUME pc = "diffWrite", NEW x \in Ids, (x \in local.snap) # (x \in base.snap)
               PROVE  \E f \in todo' \cup log' :
                        f.x = x /\ f.raised = (x \in local.snap) /\ f.ts >= PollerStamp(since)
    BY <1>2 DEF DiffInv, PollerStamp
  <2>1. PICK f \in todo \cup log :
          f.x = x /\ f.raised = (x \in local.snap) /\ f.ts >= PollerStamp(since)
    BY DEF IInv, DiffInv
  <2>2. CASE f = e
    <3>1. PICK g \in log' : g.x = e.x /\ g.ts = e.ts /\ g.raised = e.raised
      BY <1>4 DEF Log!Known
    <3> QED
      BY <2>1, <2>2, <3>1
  <2>3. CASE f # e
    BY <1>1, <1>4, <2>1, <2>3 DEF Appends
  <2> QED
    BY <2>2, <2>3
<1>8. BackfillInv'
  BY <1>2 DEF IInv, BackfillInv
<1> QED
  BY <1>4, <1>6, <1>7, <1>8 DEF IInv

LEMMA PruneStep ==
  ASSUME IInv, Prune
  PROVE  IInv' /\ Log!Prune
<1> DEFINE cutoff == PollerStamp(now) - 2 * Window
<1>1. log' = Log!Pruned(log, cutoff) /\ pc' = "sleep" /\ since' = now
      /\ UNCHANGED <<hist, base, local, todo, traces, faults>> /\ now' = now
  BY DEF Prune, Go, now
<1>2. log' \subseteq log
  BY <1>1 DEF Log!Pruned
<1>3. TypeOK'
  BY <1>1, <1>2, Ticks DEF IInv, TypeOK, Places
<1>4. Bounded(log)' /\ DiffInv' /\ BackfillInv'
  BY <1>1, <1>2 DEF IInv, Bounded, DiffInv, BackfillInv
<1>5. Log!Prune
  <2>1. cutoff \in Int /\ \A e \in log : e.ts \in Nat
    <3>1. now \in Nat /\ Window \in Nat
      BY Shapes, Assumptions
    <3>2. \A e \in log : e.ts \in Nat
      BY DEF IInv, TypeOK, Log!Event
    <3> QED
      BY <3>1, <3>2 DEF PollerStamp
  <2> HIDE DEF cutoff
  <2>2. \A e \in log \ log', f \in log' : Log!IsLast(f, log) \/ e.ts < f.ts
    BY <1>1, <2>1 DEF Log!Pruned
  <2> QED
    BY <1>1, <1>2, <2>2 DEF Log!Prune, Log!Pruned
<1> QED
  BY <1>3, <1>4, <1>5 DEF IInv

LEMMA BackfillHistoryStep ==
  ASSUME IInv, BackfillHistory
  PROVE  IInv' /\ Appends(log, log')
<1> DEFINE Took(u, lost) ==
             /\ faults + Cardinality(lost) <= MaxFaults
             /\ faults' = faults + Cardinality(lost)
             /\ todo' = Walk(u, lost)
             /\ local' = [Blank EXCEPT !.open = LeftOpen(u, lost), !.seen = Seen(u, lost)]
             /\ pc' = "bfWrite"
             /\ UNCHANGED since
<1>1. pc = "bfCounts" /\ ~ base.complete /\ UNCHANGED <<hist, log, base, traces>>
  BY DEF BackfillHistory, IInv, BackfillInv
<1>2. CASE \E u \in since..now : \E lost \in SUBSET Asked(u) : Took(u, lost)
  <2>0. PICK u \in since..now : \E lost \in SUBSET Asked(u) : Took(u, lost)
    BY <1>2
  <2> PICK lost \in SUBSET Asked(u) : Took(u, lost)
    BY <2>0
  <2>1. Took(u, lost)
    OBVIOUS
  <2>2. u \in 1..now
    BY Shapes
  <2>3. todo' \subseteq ToDo /\ LeftOpen(u, lost) \subseteq Ids /\ Seen(u, lost) \subseteq Ids
    BY <2>1, <2>2, WalkType DEF IInv
  <2>4. local' \in Carried
    <3>1. Blank \in Carried
      BY BlankType
    <3> QED
      BY <2>1, <2>3, <3>1 DEF Carried
  <2>5. Cardinality(lost) \in Nat
    BY <2>2, LostFinite DEF IInv
  <2>6. faults' \in 0..MaxFaults
    BY <2>1, <2>5, Assumptions DEF IInv, TypeOK
  <2>7. pc' \in Places /\ DiffInv'
    BY <2>1 DEF Places, Writing, DiffInv
  <2> QED
    BY <1>1, <2>1, <2>3, <2>4, <2>6, <2>7, Shapes, QuietStep
<1>3. CASE Fault /\ Go("sleep") /\ UNCHANGED <<todo, local>>
  BY <1>1, <1>3, Shapes, QuietMove DEF Go, Places, Backfilling
<1> QED
  BY <1>2, <1>3 DEF BackfillHistory

LEMMA LiveReconcileStep ==
  ASSUME IInv, LiveReconcile
  PROVE  IInv' /\ Appends(log, log')
<1>1. /\ pc = "bfLive" /\ ~ base.complete /\ UNCHANGED <<hist, log, base, traces>>
      /\ local' = Blank
  BY DEF LiveReconcile, IInv, BackfillInv
<1>2. hist[since] \in SUBSET Ids /\ PollerStamp(since) \in Nat
      /\ local.open \in SUBSET Ids /\ local.seen \in SUBSET Ids
  BY Shapes, Stamps DEF Carried
<1>3. /\ ToWrite(local.open \ hist[since], PollerStamp(since), FALSE, 0) \subseteq ToDo
      /\ ToWrite(hist[since] \ local.seen, PollerStamp(since), TRUE, 1) \subseteq ToDo
  <2> DEFINE live == hist[since]
             open == local.open
             seen == local.seen
             ts   == PollerStamp(since)
  <2>1. live \in SUBSET Ids /\ open \in SUBSET Ids /\ seen \in SUBSET Ids /\ ts \in Nat
    BY <1>2
  <2> HIDE DEF live, open, seen, ts
  <2>2. \A rank \in Int : ToWrite(open \ live, ts, FALSE, rank) \subseteq ToDo
    BY <2>1, ToWriteBoth
  <2>3. \A rank \in Int : ToWrite(live \ seen, ts, TRUE, rank) \subseteq ToDo
    BY <2>1, ToWriteBoth
  <2>4. 0 \in Int /\ 1 \in Int
    OBVIOUS
  <2> QED
    BY <2>2, <2>3, <2>4, Zenon DEF live, open, seen, ts
<1>4. \/ /\ todo' \subseteq ToDo /\ pc' = "liveWrite" /\ UNCHANGED <<since, faults>>
      \/ Fault /\ pc' = "bfBase" /\ since' = now /\ UNCHANGED todo
  BY <1>3 DEF LiveReconcile, Go
<1> QED
  BY <1>1, <1>4, Shapes, QuietMove DEF Places, Writing, Backfilling

LEMMA SnapshotArrivesStep ==
  ASSUME IInv, SnapshotArrives
  PROVE  IInv' /\ Appends(log, log')
<1> DEFINE cur == hist[since]
           ts == PollerStamp(now)
<1>1. /\ pc' = "diffWrite" /\ UNCHANGED <<hist, log, base, since, traces, faults>>
      /\ todo' = ToWrite(cur \ base.snap, ts, TRUE, 0) \cup ToWrite(base.snap \ cur, ts, FALSE, 1)
      /\ local' = [local EXCEPT !.snap = cur]
  BY DEF SnapshotArrives
<1>2. cur \in SUBSET Ids /\ base.snap \in SUBSET Ids /\ ts \in Nat /\ ts >= PollerStamp(since)
  <2>1. since \in Nat /\ now \in Nat /\ since <= now
    BY Shapes
  <2> QED
    BY <2>1, Shapes DEF Bases, PollerStamp
<1> HIDE DEF cur, ts
<1>3. todo' \subseteq ToDo
  <2> DEFINE snap == base.snap
  <2>1. snap \in SUBSET Ids
    BY <1>2
  <2> HIDE DEF snap
  <2>2. \A rank \in Int : ToWrite(cur \ snap, ts, TRUE, rank) \subseteq ToDo
    BY <1>2, <2>1, ToWriteBoth
  <2>3. \A rank \in Int : ToWrite(snap \ cur, ts, FALSE, rank) \subseteq ToDo
    BY <1>2, <2>1, ToWriteBoth
  <2>4. 0 \in Int /\ 1 \in Int
    OBVIOUS
  <2> QED
    BY <1>1, <2>2, <2>3, <2>4, Zenon DEF snap
<1>4. local' \in Carried /\ local'.snap = cur
  BY <1>1, <1>2, Shapes DEF Carried
<1>5. DiffInv'
  <2> SUFFICES ASSUME NEW x \in Ids, (x \in cur) # (x \in base.snap)
               PROVE  \E e \in todo' : e.x = x /\ e.raised = (x \in cur) /\ e.ts >= PollerStamp(since)
    BY <1>1, <1>4 DEF DiffInv, PollerStamp
  <2>1. CASE x \in cur
    <3>1. [x |-> x, ts |-> ts, raised |-> TRUE, rank |-> 0] \in todo'
      BY <1>1, <2>1 DEF ToWrite
    <3> QED
      BY <1>2, <2>1, <3>1
  <2>2. CASE x \notin cur
    <3>0. x \in base.snap \ cur
      BY <2>2
    <3>1. [x |-> x, ts |-> ts, raised |-> FALSE, rank |-> 1] \in todo'
      BY <1>1, <3>0, Zenon DEF ToWrite
    <3>2. (x \in cur) = FALSE
      BY <2>2, SMT
    <3> QED
      BY <1>2, <3>1, <3>2
  <2> QED
    BY <2>1, <2>2
<1> QED
  BY <1>1, <1>3, <1>4, <1>5, Shapes, QuietStep DEF Places, Writing, IInv, TypeOK, Backfilling

\* The moves that write nothing to the log.
LEMMA MoveStep ==
  ASSUME IInv,
         \/ Enumerate \/ Wake \/ BackfillWritten \/ LiveWritten \/ BaselineSnapshot
         \/ BaselineCounts \/ BaselineFails \/ CountsArrive \/ PollFails \/ PollSaved
  PROVE  IInv' /\ Appends(log, log')
<1> USE Shapes
<1> USE DEF Go, Places, Writing, Backfilling
<1>1. CASE Enumerate
  BY <1>1, QuietMove DEF Enumerate
<1>2. CASE Wake
  BY <1>2, QuietMove DEF Wake
<1>3. CASE BackfillWritten
  BY <1>3, QuietMove DEF BackfillWritten, IInv, BackfillInv
<1>4. CASE LiveWritten
  BY <1>4, QuietMove DEF LiveWritten, IInv, BackfillInv
<1>5. CASE BaselineSnapshot
  <2>1. local' \in Carried
    BY <1>5 DEF BaselineSnapshot, Carried
  <2> QED
    BY <1>5, <2>1, QuietMove DEF BaselineSnapshot, IInv, BackfillInv
<1>6. CASE BaselineCounts
  <2>1. PICK u \in since..now :
          base' = [counts |-> Counts(hist[u]), snap |-> local.snap, complete |-> TRUE]
    BY <1>6 DEF BaselineCounts
  <2>2. Counts(hist[u]) \in CountMaps /\ local.snap \in SUBSET Ids
    <3>1. u \in 1..now
      OBVIOUS
    <3> QED
      BY <3>1 DEF Carried
  <2>3. base' \in Bases
    BY <2>1, <2>2 DEF Bases
  <2> QED
    BY <1>6, <2>3, QuietMove DEF BaselineCounts
<1>7. CASE BaselineFails
  <2>1. base' \in Bases
    BY <1>7 DEF BaselineFails, Bases
  <2> QED
    BY <1>7, <2>1, QuietMove DEF BaselineFails
<1>8. CASE CountsArrive
  <2>1. PICK u \in since..now :
          IF Counts(hist[u]) = base.counts
          THEN Go("prune") /\ UNCHANGED local
          ELSE Go("snap") /\ local' = [Blank EXCEPT !.counts = Counts(hist[u])]
    BY <1>8 DEF CountsArrive
  <2>2. Counts(hist[u]) \in CountMaps
    <3>1. u \in 1..now
      OBVIOUS
    <3> QED
      BY <3>1
  <2>3. local' \in Carried
    BY <2>1, <2>2 DEF Carried
  <2> QED
    BY <1>8, <2>1, <2>3, QuietMove DEF CountsArrive
<1>9. CASE PollFails
  BY <1>9, QuietMove DEF PollFails
<1>10. CASE PollSaved
  <2>1. base' \in Bases
    BY <1>10 DEF PollSaved, Bases, Carried
  <2> QED
    BY <1>10, <2>1, QuietMove DEF PollSaved
<1> QED
  BY <1>1, <1>2, <1>3, <1>4, <1>5, <1>6, <1>7, <1>8, <1>9, <1>10

LEMMA PollStep ==
  ASSUME IInv, Poll
  PROVE  IInv' /\ (Appends(log, log') \/ Log!Prune)
BY MoveStep, WriteStep, PruneStep, BackfillHistoryStep, LiveReconcileStep, SnapshotArrivesStep
   DEF Poll

\* What the steps outside the poller's task leave as it is.
LEMMA OutsideStep ==
  ASSUME IInv, UNCHANGED <<hist, base>>, log' \subseteq Log!Event, Bounded(log'),
         \/ pc \notin Writing /\ traces' \subseteq traces /\ UNCHANGED <<pc, since, local, todo>>
         \/ /\ pc' = "boot" /\ since' = now /\ local' = Blank
            /\ todo' = {} /\ traces' = {},
         UNCHANGED faults \/ Fault
  PROVE  IInv'
<1>1. now' = now /\ faults' \in 0..MaxFaults
  BY Assumptions DEF IInv, TypeOK, Fault, now
<1>2. TypeOK'
  BY <1>1, Shapes DEF IInv, TypeOK, Places, Carried
<1>3. DiffInv' /\ BackfillInv'
  BY DEF IInv, DiffInv, BackfillInv, Writing
<1> QED
  BY <1>2, <1>3 DEF IInv

LEMMA TraceStep ==
  ASSUME IInv, NEW tr \in traces, TraceArrives(tr) \/ TraceFails(tr)
  PROVE  IInv' /\ Appends(log, log')
<1>1. tr.x \in Ids /\ tr.since \in 1..now /\ tr.detected \in Nat /\ log \in SUBSET Log!Event
  BY DEF IInv, TypeOK
<1>2. ASSUME NEW L, L = log \/ (Appends(log, L) /\ L \subseteq Log!Event /\ Bounded(L)),
             log' = OrSynthetic(tr, L)
      PROVE  Appends(log, log') /\ log' \subseteq Log!Event /\ Bounded(log')
  <2>1. CASE L = log /\ tr.detected # 0
    <3> DEFINE e == [ts |-> tr.detected, raised |-> TRUE]
    <3>1. Recordable({e})
      BY <1>1, OneRecordable
    <3>2. log' = Recorded(tr.x, {e}, log)
      BY <1>2, <2>1 DEF OrSynthetic
    <3> HIDE DEF e
    <3> QED
      BY <1>1, <3>1, <3>2, RecordedAppends DEF IInv
  <2>2. CASE ~ (L = log /\ tr.detected # 0)
    BY <1>1, <1>2, <2>2 DEF OrSynthetic, Appends, IInv
  <2> QED
    BY <2>1, <2>2
<1>3. /\ pc \notin Writing /\ traces' \subseteq traces /\ UNCHANGED <<hist, base, pc, since, local, todo>>
      /\ UNCHANGED faults \/ Fault
  BY DEF TraceArrives, TraceFails
<1>4. Appends(log, log') /\ log' \subseteq Log!Event /\ Bounded(log')
  <2>1. CASE TraceArrives(tr)
    <3>1. PICK u \in tr.since..now :
            log' = OrSynthetic(tr, Recorded(tr.x, TraceEvents(tr.x, u), log))
      BY <2>1 DEF TraceArrives
    <3>2. u \in 1..now
      BY <1>1, Shapes
    <3>3. Recordable(TraceEvents(tr.x, u))
      BY <1>1, <3>2, TraceRecordable DEF IInv
    <3> DEFINE L == Recorded(tr.x, TraceEvents(tr.x, u), log)
    <3>4. Appends(log, L) /\ L \subseteq Log!Event /\ Bounded(L)
      BY <1>1, <3>3, RecordedAppends DEF IInv
    <3> HIDE DEF L
    <3> QED
      BY <1>2, <3>1, <3>4 DEF L
  <2>2. CASE TraceFails(tr)
    BY <1>2, <2>2 DEF TraceFails
  <2> QED
    BY <2>1, <2>2
<1> QED
  BY <1>3, <1>4, OutsideStep

LEMMA TickStep ==
  ASSUME IInv, Tick
  PROVE  IInv' /\ Appends(log, log')
<1>1. /\ now < MaxTime /\ pc \notin Writing
      /\ UNCHANGED <<log, base, pc, since, local, todo, traces, faults>>
  BY DEF Tick, TimeMayPass
<1>2. PICK S \in SUBSET Ids : hist' = Append(hist, S)
  BY DEF Tick
<1>3. hist' \in Seq(SUBSET Ids) /\ now' = now + 1 /\ now' \in 1..MaxTime
  <2>1. hist \in Seq(SUBSET Ids) /\ now \in 1..MaxTime
    BY DEF IInv, TypeOK
  <2> QED
    BY <1>1, <1>2, <2>1, Assumptions DEF now
<1>4. 1..now \subseteq 1..now'
  BY <1>3, Shapes
<1>5. TypeOK'
  BY <1>1, <1>3, <1>4 DEF IInv, TypeOK
<1>6. Bounded(log)' /\ DiffInv' /\ BackfillInv' /\ Appends(log, log')
  BY <1>1 DEF IInv, Bounded, DiffInv, BackfillInv, Appends, Writing
<1> QED
  BY <1>5, <1>6 DEF IInv

LEMMA CrashStep ==
  ASSUME IInv, Crash
  PROVE  IInv' /\ Appends(log, log')
<1>1. /\ pc' = "boot" /\ since' = now /\ local' = Blank /\ todo' = {} /\ traces' = {}
      /\ UNCHANGED <<hist, base>> /\ Fault
  BY DEF Crash, Go
<1>2. Appends(log, log') /\ log' \subseteq Log!Event /\ Bounded(log')
  <2>1. CASE UNCHANGED log
    BY <2>1 DEF Appends, IInv, TypeOK
  <2>2. CASE \E tr \in traces : \E u \in tr.since..now : \E cut \in 1..u :
               log' = Recorded(tr.x, {e \in TraceEvents(tr.x, u) : e.ts <= FabricStamp(cut)}, log)
    <3>1. PICK tr \in traces : \E u \in tr.since..now : \E cut \in 1..u :
                 log' = Recorded(tr.x, {e \in TraceEvents(tr.x, u) : e.ts <= FabricStamp(cut)}, log)
      BY <2>2
    <3>2. PICK u \in tr.since..now : \E cut \in 1..u :
                 log' = Recorded(tr.x, {e \in TraceEvents(tr.x, u) : e.ts <= FabricStamp(cut)}, log)
      BY <3>1
    <3>3. PICK cut \in 1..u :
                 log' = Recorded(tr.x, {e \in TraceEvents(tr.x, u) : e.ts <= FabricStamp(cut)}, log)
      BY <3>2
    <3>4. tr.x \in Ids /\ u \in 1..now
      BY Shapes DEF IInv, TypeOK
    <3> DEFINE E == {e \in TraceEvents(tr.x, u) : e.ts <= FabricStamp(cut)}
    <3>5. Recordable(E)
      BY <3>4, TraceRecordable DEF IInv
    <3>6. log' = Recorded(tr.x, E, log) /\ log \in SUBSET Log!Event
      BY <3>3 DEF IInv, TypeOK
    <3> HIDE DEF E
    <3> QED
      BY <3>4, <3>5, <3>6, RecordedAppends DEF IInv
  <2> QED
    BY <2>1, <2>2 DEF Crash
<1> QED
  BY <1>1, <1>2, OutsideStep

\* Whatever the poller, its traces, time and crashes do, the invariant stays,
\* and the log changes as AnomalyLog allows.
THEOREM IInvNext == IInv /\ [Next]_vars => IInv' /\ (Appends(log, log') \/ Log!Prune)
<1> SUFFICES ASSUME IInv, [Next]_vars PROVE IInv' /\ (Appends(log, log') \/ Log!Prune)
  OBVIOUS
<1>1. CASE UNCHANGED vars
  <2>1. UNCHANGED <<hist, log, base, pc, since, local, todo, traces, faults>>
    BY <1>1 DEF vars
  <2> QED
    BY <2>1 DEF IInv, TypeOK, Bounded, DiffInv, BackfillInv, Appends, now
<1>2. CASE Next
  BY <1>2, PollStep, TraceStep, TickStep, CrashStep DEF Next
<1> QED
  BY <1>1, <1>2

\* The invariant holds in every reachable state.
THEOREM Invariance == Spec => []IInv
BY IInvInit, IInvNext, PTL DEF Spec
-----------------------------------------------------------------------------
\* The types of everything the poller keeps and carries.
THEOREM TypeCorrect == Spec => []TypeOK
<1>1. IInv => TypeOK
  BY DEF IInv
<1> QED
  BY <1>1, Invariance, PTL

\* A change enters the baseline of the polls only after its event is in the
\* log.
THEOREM BaselineFollowsLog == Spec => BaselineAfterLog
<1> DEFINE Follows ==
      base.complete => \A x \in Ids : (x \in base'.snap) # (x \in base.snap) =>
        \E e \in log : /\ e.x = x /\ e.ts >= PollerStamp(since)
                       /\ e.raised = (x \in base'.snap)
<1>1. IInv /\ [Next]_vars => [Follows]_vars
  <2> SUFFICES ASSUME IInv, [Next]_vars, base.complete PROVE Follows
    OBVIOUS
  <2>1. base' = base \/ PollSaved
    BY DEF IInv, BackfillInv, vars, Next, Poll, Enumerate, Wake, Prune, Write, BackfillHistory,
           BackfillWritten, LiveReconcile, LiveWritten, BaselineSnapshot, BaselineCounts,
           BaselineFails, CountsArrive, SnapshotArrives, PollFails, TraceArrives, TraceFails,
           Tick, Crash
  <2>2. CASE base' = base
    BY <2>2
  <2>3. CASE PollSaved
    <3>1. pc = "diffWrite" /\ todo = {} /\ base'.snap = local.snap
      BY <2>3, Shapes DEF PollSaved, Bases
    <3> QED
      BY <3>1 DEF IInv, DiffInv
  <2> QED
    BY <2>1, <2>2, <2>3
<1> QED
  BY <1>1, Invariance, PTL DEF Spec, BaselineAfterLog

\* The poller writes to the log as the store promises it.
THEOREM ImplementsLog == Spec => LogSpec
<1>1. Init => Log!Init
  BY DEF Init, Log!Init
<1>2. IInv /\ [Next]_vars => [Log!Record \/ Log!Prune]_log
  <2>1. Appends(log, log') => Log!Record
    BY DEF Appends, Log!Record
  <2> QED
    BY <2>1, IInvNext
<1> QED
  BY <1>1, <1>2, Invariance, PTL DEF Spec, LogSpec, Log!Spec
-----------------------------------------------------------------------------
\* What is left to write is true, and what a trace may leave in the log is, too.
Dated(x, ts) == \E t \in 1..now : FabricStamp(t) = ts /\ x \in hist[t]
TruthInv ==
  /\ pc \notin Writing => todo = {}
  /\ faults = 0 => \A e \in todo : TrueEvent(e)
  /\ pc = "diffWrite" => \A e \in todo : e.raised = TRUE => e.x \in hist[since]
  /\ \A tr \in traces : tr.detected # 0 => Dated(tr.x, tr.detected)
-----------------------------------------------------------------------------
\* What is recorded is what was given to record.
LEMMA RecordedSays ==
  ASSUME NEW x, NEW E, NEW L, NEW r \in Recorded(x, E, L) \ L
  PROVE  \E e \in E : r.x = x /\ r.ts = e.ts /\ r.raised = e.raised
<1>1. PICK e \in Fresh(x, E, L) : r = Entry(x, E, L, e)
  BY RecordedIs
<1>2. r.x = x /\ r.ts = e.ts /\ r.raised = e.raised
  BY <1>1 DEF Entry
<1> QED
  BY <1>2 DEF Fresh

\* An anomaly that is there was raised at the tick the API gives for it, or has
\* been there from the first tick on.
LEMMA DetectedTrue ==
  ASSUME TypeOK, NEW x \in Ids, NEW t \in 1..now, x \in hist[t], NEW d \in DetectedAt(x, t), d # 0
  PROVE  Dated(x, d)
<1> DEFINE S == {1} \cup {s \in 2..t : x \in hist[s] /\ x \notin hist[s-1]}
           H == {s \in 1..t : x \notin hist[s]}
           m == Max(S)
           h == Max(H)
<1>1. t \in Nat /\ t >= 1 /\ now \in Nat /\ t <= now
  BY Ticks
<1>2. S \subseteq 1..t /\ 1 \in S
  BY <1>1
<1>3. m \in S /\ \A s \in S : s <= m
  <2>1. S \in SUBSET Nat /\ \A s \in S : s <= t
    BY <1>1, <1>2
  <2> HIDE DEF S
  <2> QED
    BY <1>1, <1>2, <2>1, GreatestExists
<1>4. d = FabricStamp(m)
  BY DEF DetectedAt
<1>5. m \in 1..now
  <2> HIDE DEF m
  <2> QED
    BY <1>1, <1>2, <1>3
<1>6. x \in hist[m]
  <2>1. CASE m # 1
    <3> HIDE DEF m
    <3> QED
      BY <1>3, <2>1
  <2>2. CASE m = 1 /\ H = {}
    <3>1. 1 \in 1..t
      BY <1>1
    <3> QED
      BY <2>2, <3>1
  <2>3. CASE m = 1 /\ H # {}
    <3>1. H \in SUBSET Nat /\ \A s \in H : s <= t
      BY <1>1
    <3>2. h \in H /\ \A s \in H : s <= h
      <4> HIDE DEF H
      <4> QED
        BY <1>1, <2>3, <3>1, GreatestExists
    <3> HIDE DEF h
    <3>3. h \in 1..t /\ x \notin hist[h] /\ h # t
      BY <3>2
    <3>4. h + 1 \in 2..t /\ (h + 1) - 1 = h
      BY <1>1, <3>3
    <3>5. h + 1 \notin H
      BY <1>1, <3>2, <3>3
    <3>6. h + 1 \in S
      BY <1>1, <3>3, <3>4, <3>5
    <3>7. h + 1 <= 1
      BY <1>3, <2>3, <3>6
    <3> QED
      BY <1>1, <3>3, <3>7
  <2> QED
    BY <2>1, <2>2, <2>3
<1> QED
  BY <1>4, <1>5, <1>6 DEF Dated

\* Steps of the poller with nothing left to write, and of time.
LEMMA TruthQuiet ==
  ASSUME IInv, TruthInv, todo' = {}, traces' \subseteq traces,
         hist' = hist \/ \E S \in SUBSET Ids : hist' = Append(hist, S)
  PROVE  TruthInv'
<1>1. ASSUME NEW x, NEW ts, Dated(x, ts) PROVE Dated(x, ts)'
  <2>1. PICK t \in 1..now : FabricStamp(t) = ts /\ x \in hist[t]
    BY <1>1 DEF Dated
  <2>2. CASE hist' = hist
    BY <2>1, <2>2 DEF Dated, now, FabricStamp
  <2>3. CASE \E S \in SUBSET Ids : hist' = Append(hist, S)
    <3>1. PICK S \in SUBSET Ids : hist' = Append(hist, S)
      BY <2>3
    <3>2. hist \in Seq(SUBSET Ids) /\ now \in Nat
      BY Shapes DEF IInv, TypeOK
    <3>3. now' = now + 1 /\ hist'[t] = hist[t]
      BY <3>1, <3>2, <2>1 DEF now
    <3>4. t \in 1..now'
      BY <3>2, <3>3
    <3> QED
      BY <2>1, <3>3, <3>4 DEF Dated, FabricStamp
  <2> QED
    BY <2>2, <2>3
<1>2. \A tr \in traces' : tr.detected # 0 => Dated(tr.x, tr.detected)'
  BY <1>1 DEF TruthInv
<1> QED
  BY <1>2 DEF TruthInv

\* What is to write stays true while it is written.
LEMMA TruthWrite ==
  ASSUME IInv, TruthInv, Write
  PROVE  /\ TruthInv'
         /\ faults = 0 => \A r \in log' \ log : TrueEvent(r)
<1>1. PICK e \in todo :
        /\ log' = Recorded(e.x, {e}, log)
        /\ todo' = todo \ {e}
        /\ IF pc = "diffWrite" /\ e.raised
           THEN \E d \in DetectedAt(e.x, since) :
                  traces' = traces \cup {[x |-> e.x, since |-> now, detected |-> d]}
           ELSE UNCHANGED traces
  BY DEF Write
<1>2. UNCHANGED <<hist, base, pc, since, local, faults>> /\ now' = now /\ pc \in Writing
  BY DEF Write, now
<1>3. ASSUME faults = 0, NEW r \in log' \ log PROVE TrueEvent(r)
  <2>1. r.x = e.x /\ r.ts = e.ts /\ r.raised = e.raised
    BY <1>1, <1>3, RecordedSays
  <2>2. TrueEvent(e)
    BY <1>3 DEF TruthInv
  <2> QED
    BY <2>1, <2>2 DEF TrueEvent
<1>4. faults' = 0 => \A f \in todo' : TrueEvent(f)'
  BY <1>1, <1>2 DEF TruthInv, TrueEvent, FabricStamp, PollerStamp
<1>5. pc' = "diffWrite" => \A f \in todo' : f.raised = TRUE => f.x \in hist'[since']
  BY <1>1, <1>2 DEF TruthInv
<1>6. \A x, ts : Dated(x, ts) => Dated(x, ts)'
  BY <1>2 DEF Dated, FabricStamp
<1>7. \A tr \in traces' : tr.detected # 0 => Dated(tr.x, tr.detected)'
  <2>1. CASE pc = "diffWrite" /\ e.raised
    <3>1. PICK d \in DetectedAt(e.x, since) :
            traces' = traces \cup {[x |-> e.x, since |-> now, detected |-> d]}
      BY <1>1, <2>1
    <3>2. e.x \in Ids /\ e.raised \in BOOLEAN /\ since \in 1..now
      BY Shapes DEF IInv, TypeOK
    <3>3. e.x \in hist[since]
      BY <2>1, <3>2 DEF TruthInv
    <3>4. d # 0 => Dated(e.x, d)
      BY <3>2, <3>3, DetectedTrue DEF IInv
    <3> QED
      BY <1>6, <3>1, <3>4 DEF TruthInv
  <2>2. CASE ~ (pc = "diffWrite" /\ e.raised)
    BY <1>1, <1>6, <2>2 DEF TruthInv
  <2> QED
    BY <2>1, <2>2
<1> QED
  BY <1>2, <1>3, <1>4, <1>5, <1>7 DEF TruthInv

\* What a trace records.
LEMMA TruthTrace ==
  ASSUME IInv, TruthInv, NEW tr \in traces, TraceArrives(tr)
  PROVE  \A r \in log' \ log : TrueEvent(r)
<1>1. PICK u \in tr.since..now : log' = OrSynthetic(tr, Recorded(tr.x, TraceEvents(tr.x, u), log))
  BY DEF TraceArrives
<1>2. u \in 1..now /\ now \in Nat
  BY Shapes DEF IInv, TypeOK
<1>3. CASE log' = Recorded(tr.x, TraceEvents(tr.x, u), log)
  <2> SUFFICES ASSUME NEW r \in log' \ log PROVE TrueEvent(r)
    OBVIOUS
  <2>1. PICK e \in TraceEvents(tr.x, u) : r.x = tr.x /\ r.ts = e.ts /\ r.raised = e.raised
    BY <1>3, RecordedSays
  <2>2. PICK t \in 2..u : e = [ts |-> FabricStamp(t), raised |-> tr.x \in hist[t]]
    BY <2>1 DEF TraceEvents
  <2>3. t \in 1..now
    BY <1>2
  <2>4. e.ts = FabricStamp(t) /\ (tr.x \in hist[t]) = e.raised
    BY <2>2, Zenon
  <2> QED
    BY <2>1, <2>3, <2>4, Zenon DEF TrueEvent
<1>4. CASE tr.detected # 0 /\ log' = Recorded(tr.x, {[ts |-> tr.detected, raised |-> TRUE]}, log)
  <2> SUFFICES ASSUME NEW r \in log' \ log PROVE TrueEvent(r)
    OBVIOUS
  <2>1. r.x = tr.x /\ r.ts = tr.detected /\ r.raised = TRUE
    BY <1>4, RecordedSays
  <2>2. PICK t \in 1..now : FabricStamp(t) = tr.detected /\ tr.x \in hist[t]
    BY <1>4 DEF TruthInv, Dated
  <2> QED
    BY <2>1, <2>2 DEF TrueEvent
<1> QED
  BY <1>1, <1>3, <1>4 DEF OrSynthetic

\* An event says of its identity whether it is in S.
Says(e, S) == e.raised \in BOOLEAN /\ (e.raised <=> e.x \in S)

\* An event that says what was there at a moment it may be of.
LEMMA SaysTrue ==
  ASSUME NEW e, NEW t \in 1..now, Says(e, hist[t]),
         FabricStamp(t) = e.ts \/ (t >= since /\ PollerStamp(now) = e.ts) \/ PollerStamp(t) = e.ts
  PROVE  TrueEvent(e)
<1>1. (e.x \in hist[t]) = e.raised
  BY DEF Says
<1> QED
  BY <1>1, Zenon DEF TrueEvent

LEMMA TrueStays ==
  ASSUME UNCHANGED <<hist, since>>
  PROVE  \A e : TrueEvent(e) => TrueEvent(e)'
<1>1. now' = now
  BY DEF now
<1> QED
  BY <1>1 DEF TrueEvent, FabricStamp, PollerStamp

\* The walk of a history whose snapshots all arrived says what they show.
LEMMA WalkTrue ==
  ASSUME IInv, NEW u \in 1..now, NEW e \in Walk(u, {})
  PROVE  TrueEvent(e)
<1>1. PICK p \in {q \in Types \X (2..u) : q[2] \in Asks(q[1], u) \cup Closes(q[1], u)} : \E rank :
        e \in ToWrite(Got(p[1], p[2], {}) \ Before(p[1], p[2], u, {}), FabricStamp(p[2]), TRUE, rank)
              \cup ToWrite(Before(p[1], p[2], u, {}) \ Got(p[1], p[2], {}), FabricStamp(p[2]), FALSE, rank + 1)
  BY DEF Walk
<1>2. p[2] \in 2..u /\ p[2] \in 1..now
  <2>1. u \in Nat /\ now \in Nat /\ u <= now
    BY Shapes
  <2>2. p[2] \in 2..u
    OBVIOUS
  <2> QED
    BY <2>1, <2>2
<1>3. Got(p[1], p[2], {}) = OfType(p[1], hist[p[2]])
  BY DEF Got
<1>4. \A x \in Before(p[1], p[2], u, {}) : TypeOf[x] = p[1]
  BY DEF Before, Got, OfType
<1> DEFINE G == Got(p[1], p[2], {})
           B == Before(p[1], p[2], u, {})
<1>5. PICK rank : e \in ToWrite(G \ B, FabricStamp(p[2]), TRUE, rank)
                        \cup ToWrite(B \ G, FabricStamp(p[2]), FALSE, rank + 1)
  BY <1>1
<1>6. e.x \in G \cup B /\ e.ts = FabricStamp(p[2]) /\ Says(e, G)
  <2> HIDE DEF G, B
  <2>1. CASE e \in ToWrite(G \ B, FabricStamp(p[2]), TRUE, rank)
    <3>1. PICK x \in G \ B : e = [x |-> x, ts |-> FabricStamp(p[2]), raised |-> TRUE, rank |-> rank]
      BY <2>1 DEF ToWrite
    <3>2. e.x = x /\ e.ts = FabricStamp(p[2]) /\ e.raised = TRUE
      BY <3>1
    <3> QED
      BY <3>1, <3>2 DEF Says
  <2>2. CASE e \in ToWrite(B \ G, FabricStamp(p[2]), FALSE, rank + 1)
    <3>1. PICK x \in B \ G : e = [x |-> x, ts |-> FabricStamp(p[2]), raised |-> FALSE, rank |-> rank + 1]
      BY <2>2 DEF ToWrite
    <3>2. e.x = x /\ e.ts = FabricStamp(p[2]) /\ e.raised = FALSE
      BY <3>1
    <3> QED
      BY <3>1, <3>2 DEF Says
  <2> QED
    BY <1>5, <2>1, <2>2
<1>7. e.x \in G <=> e.x \in hist[p[2]]
  BY <1>3, <1>4, <1>6 DEF OfType
<1> QED
  BY <1>2, <1>6, <1>7, SaysTrue DEF Says

LEMMA TruthBackfill ==
  ASSUME IInv, TruthInv, BackfillHistory
  PROVE  TruthInv'
<1>1. pc = "bfCounts" /\ UNCHANGED <<hist, log, base, traces>> /\ todo = {}
  BY DEF BackfillHistory, TruthInv, Writing
<1>2. CASE Fault /\ Go("sleep") /\ UNCHANGED <<todo, local>>
  BY <1>1, <1>2, TruthQuiet
<1>3. CASE \E u \in since..now : \E lost \in SUBSET Asked(u) :
             /\ faults' = faults + Cardinality(lost)
             /\ todo' = Walk(u, lost) /\ pc' = "bfWrite" /\ UNCHANGED since
  <2>1. PICK u \in since..now : \E lost \in SUBSET Asked(u) :
             /\ faults' = faults + Cardinality(lost)
             /\ todo' = Walk(u, lost) /\ pc' = "bfWrite" /\ UNCHANGED since
    BY <1>3
  <2>0. PICK lost \in SUBSET Asked(u) :
             /\ faults' = faults + Cardinality(lost)
             /\ todo' = Walk(u, lost) /\ pc' = "bfWrite" /\ UNCHANGED since
    BY <2>1
  <2>2. u \in 1..now /\ faults \in Nat
    BY Shapes, Assumptions DEF IInv, TypeOK
  <2>3. ASSUME faults' = 0 PROVE lost = {}
    <3>1. Cardinality(lost) \in Nat
      BY <2>2, LostFinite DEF IInv
    <3>2. Cardinality(lost) = 0
      BY <2>0, <2>2, <2>3, <3>1
    <3>3. IsFiniteSet(lost)
      BY <2>2, LostFinite DEF IInv
    <3> QED
      BY <3>2, <3>3, FS_EmptySet
  <2>4. UNCHANGED <<hist, since>> /\ now' = now
    BY <1>1, <2>0 DEF now
  <2>5. faults' = 0 => \A e \in todo' : TrueEvent(e)'
    <3>1. faults' = 0 => \A e \in todo' : TrueEvent(e)
      BY <2>0, <2>2, <2>3, WalkTrue
    <3> QED
      BY <2>4, <3>1, TrueStays
  <2>6. \A tr \in traces' : tr.detected # 0 => Dated(tr.x, tr.detected)'
    BY <1>1, <2>4 DEF TruthInv, Dated, FabricStamp
  <2> QED
    BY <2>0, <2>5, <2>6 DEF TruthInv, Writing
<1> QED
  BY <1>2, <1>3 DEF BackfillHistory

LEMMA TruthLive ==
  ASSUME IInv, TruthInv, LiveReconcile
  PROVE  TruthInv'
<1>1. pc = "bfLive" /\ UNCHANGED <<hist, log, base, traces>> /\ todo = {}
  BY DEF LiveReconcile, TruthInv, Writing
<1>2. CASE Fault /\ Go("bfBase") /\ UNCHANGED todo
  BY <1>1, <1>2, TruthQuiet
<1>3. CASE /\ todo' = ToWrite(local.open \ hist[since], PollerStamp(since), FALSE, 0)
                         \cup ToWrite(hist[since] \ local.seen, PollerStamp(since), TRUE, 1)
           /\ pc' = "liveWrite" /\ UNCHANGED <<since, faults>>
  <2>1. since \in 1..now /\ now' = now
    BY <1>1, Shapes DEF now
  <2>2. ASSUME NEW e \in todo' PROVE e.ts = PollerStamp(since) /\ Says(e, hist[since])
    <3>1. CASE e \in ToWrite(local.open \ hist[since], PollerStamp(since), FALSE, 0)
    <4>1. PICK x \in local.open \ hist[since] : e = [x |-> x, ts |-> PollerStamp(since), raised |-> FALSE, rank |-> 0]
      BY <3>1 DEF ToWrite
    <4>2. e.x = x /\ e.ts = PollerStamp(since) /\ e.raised = FALSE
      BY <4>1
    <4> QED
      BY <4>1, <4>2 DEF Says
    <3>2. CASE e \in ToWrite(hist[since] \ local.seen, PollerStamp(since), TRUE, 1)
    <4>1. PICK x \in hist[since] \ local.seen : e = [x |-> x, ts |-> PollerStamp(since), raised |-> TRUE, rank |-> 1]
      BY <3>2 DEF ToWrite
    <4>2. e.x = x /\ e.ts = PollerStamp(since) /\ e.raised = TRUE
      BY <4>1
    <4> QED
      BY <4>1, <4>2 DEF Says
    <3> QED
      BY <1>3, <3>1, <3>2
  <2>3. \A e \in todo' : TrueEvent(e)'
    <3>1. \A e \in todo' : TrueEvent(e)
      BY <2>1, <2>2, SaysTrue
    <3> QED
      BY <1>1, <1>3, <3>1, TrueStays
  <2>4. \A tr \in traces' : tr.detected # 0 => Dated(tr.x, tr.detected)'
    BY <1>1, <2>1 DEF TruthInv, Dated, FabricStamp
  <2> QED
    BY <1>3, <2>3, <2>4 DEF TruthInv, Writing
<1> QED
  BY <1>2, <1>3 DEF LiveReconcile

LEMMA TruthSnapshot ==
  ASSUME IInv, TruthInv, SnapshotArrives
  PROVE  TruthInv'
<1>1. /\ todo' = ToWrite(hist[since] \ base.snap, PollerStamp(now), TRUE, 0)
                   \cup ToWrite(base.snap \ hist[since], PollerStamp(now), FALSE, 1)
      /\ pc' = "diffWrite" /\ UNCHANGED <<hist, since, traces, faults>>
  BY DEF SnapshotArrives
<1>2. since \in 1..now /\ now' = now /\ now \in Nat
  BY <1>1, Shapes DEF now
<1>3. ASSUME NEW e \in todo' PROVE e.ts = PollerStamp(now) /\ Says(e, hist[since])
  <2>1. CASE e \in ToWrite(hist[since] \ base.snap, PollerStamp(now), TRUE, 0)
    <3>1. PICK x \in hist[since] \ base.snap : e = [x |-> x, ts |-> PollerStamp(now), raised |-> TRUE, rank |-> 0]
      BY <2>1 DEF ToWrite
    <3>2. e.x = x /\ e.ts = PollerStamp(now) /\ e.raised = TRUE
      BY <3>1
    <3> QED
      BY <3>1, <3>2 DEF Says
  <2>2. CASE e \in ToWrite(base.snap \ hist[since], PollerStamp(now), FALSE, 1)
    <3>1. PICK x \in base.snap \ hist[since] : e = [x |-> x, ts |-> PollerStamp(now), raised |-> FALSE, rank |-> 1]
      BY <2>2 DEF ToWrite
    <3>2. e.x = x /\ e.ts = PollerStamp(now) /\ e.raised = FALSE
      BY <3>1
    <3> QED
      BY <3>1, <3>2 DEF Says
  <2> QED
    BY <1>1, <2>1, <2>2
<1>4. \A e \in todo' : TrueEvent(e)'
  <2>1. \A e \in todo' : TrueEvent(e)
    BY <1>2, <1>3, SaysTrue
  <2> QED
    BY <1>1, <2>1, TrueStays
<1>5. \A tr \in traces' : tr.detected # 0 => Dated(tr.x, tr.detected)'
  BY <1>1, <1>2 DEF TruthInv, Dated, FabricStamp
<1> QED
  BY <1>1, <1>3, <1>4, <1>5 DEF TruthInv, Writing, Says

\* Every step keeps what is to write true, and records what is true.
LEMMA TruthNext ==
  ASSUME IInv, TruthInv, [Next]_vars
  PROVE  TruthInv' /\ (faults' = 0 => \A e \in log' \ log : TrueEvent(e))
<1>1. CASE UNCHANGED vars
  <2>1. UNCHANGED <<hist, log, pc, since, todo, traces, faults>>
    BY <1>1 DEF vars
  <2> QED
    BY <2>1 DEF TruthInv, TrueEvent, Dated, FabricStamp, PollerStamp, now
<1>2. CASE Write
  <2>1. UNCHANGED faults
    BY <1>2 DEF Write
  <2> QED
    BY <1>2, <2>1, TruthWrite
<1>3. CASE BackfillHistory
  BY <1>3, TruthBackfill DEF BackfillHistory
<1>4. CASE LiveReconcile
  BY <1>4, TruthLive DEF LiveReconcile
<1>5. CASE SnapshotArrives
  BY <1>5, TruthSnapshot DEF SnapshotArrives
<1>6. CASE Prune
  <2>1. log' \subseteq log /\ todo = {}
    BY <1>6 DEF Prune, Log!Pruned, TruthInv, Writing
  <2> QED
    BY <1>6, <2>1, TruthQuiet DEF Prune
<1>7. CASE \/ Enumerate \/ Wake \/ BackfillWritten \/ LiveWritten \/ BaselineSnapshot
           \/ BaselineCounts \/ BaselineFails \/ CountsArrive \/ PollFails \/ PollSaved
  <2>1. UNCHANGED <<hist, log, todo, traces>> /\ todo = {}
    BY <1>7 DEF TruthInv, Writing, Enumerate, Wake, BackfillWritten, LiveWritten, BaselineSnapshot,
                BaselineCounts, BaselineFails, CountsArrive, PollFails, PollSaved
  <2> QED
    BY <2>1, TruthQuiet
<1>8. CASE \E tr \in traces : TraceArrives(tr) \/ TraceFails(tr)
  <2>1. PICK tr \in traces : TraceArrives(tr) \/ TraceFails(tr)
    BY <1>8
  <2>2. UNCHANGED <<hist, todo>> /\ traces' \subseteq traces /\ todo = {}
    BY <2>1 DEF TraceArrives, TraceFails, TruthInv
  <2>3. TraceFails(tr) => faults' # 0
    BY Assumptions DEF TraceFails, Fault, IInv, TypeOK
  <2> QED
    BY <2>1, <2>2, <2>3, TruthQuiet, TruthTrace
<1>9. CASE Tick
  <2>1. UNCHANGED <<log, todo, traces>> /\ todo = {}
    BY <1>9 DEF Tick, TimeMayPass, TruthInv
  <2> QED
    BY <1>9, <2>1, TruthQuiet DEF Tick
<1>10. CASE Crash
  <2>1. UNCHANGED hist /\ todo' = {} /\ traces' = {} /\ faults' # 0
    BY <1>10, Assumptions DEF Crash, Fault, IInv, TypeOK
  <2> QED
    BY <2>1, TruthQuiet
<1> QED
  BY <1>1, <1>2, <1>3, <1>4, <1>5, <1>6, <1>7, <1>8, <1>9, <1>10 DEF Next, Poll

\* Without a failed request no event is made up: an event of the history says
\* what the anomaly was at its stamp, an event of a poll what it was at a moment
\* of that poll, and an event a trace leaves what it was when it was detected.
THEOREM NothingMadeUp == Spec => EventsTrue
<1> DEFINE Claim == \A e \in log' \ log : faults' = 0 => TrueEvent(e)
<1>1. Init => TruthInv
  BY DEF Init, TruthInv
<1>2. IInv /\ TruthInv /\ [Next]_vars => TruthInv' /\ [Claim]_vars
  BY TruthNext
<1> QED
  BY <1>1, <1>2, Invariance, PTL DEF Spec, EventsTrue
=============================================================================
