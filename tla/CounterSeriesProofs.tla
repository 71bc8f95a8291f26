------------------------- MODULE CounterSeriesProofs ------------------------
(***************************************************************************)
(* What holds of CounterSeries for any systems, bounds and periods.        *)
(*                                                                         *)
(* The key is what a counter has lost to resets: what was counted less     *)
(* what the counter shows.  It never falls, and rises with a reset only;   *)
(* so the rows of a series, in the order of their stamps, rise in what was *)
(* counted and in resets, and those that have the field in what was lost.  *)
(* A row without the field is a zero.                                      *)
(*                                                                         *)
(* Growth is a sum over the steps of a stretch.  A sum does not depend on  *)
(* the order in which it is taken (SumTakesOut, by the least number of     *)
(* elements for which it would), so the steps of a stretch can be taken    *)
(* off at its end, one row after the other.                                *)
(***************************************************************************)
EXTENDS CounterSeries, FiniteSetTheorems, WellFoundedInduction, TLAPS

\* v, t: what was shown and what had happened first; w, u: later.
Later(v, t, w, u) ==
  /\ t.count <= u.count
  /\ t.resets <= u.resets
  /\ t.count - v <= u.count - w
  /\ t.resets = u.resets => t.count - v = u.count - w

Ordered(t, u) == t.count <= u.count /\ t.resets <= u.resets

\* Each row precedes the present, and the later rows of its series.
NowInv ==
  \A s \in Systems : \A a \in rows[s] :
    Ordered(a.truth, truth[s]) /\ (a.sent => Later(a.value, a.truth, value[s], truth[s]))

RowsInv ==
  \A s \in Systems : \A a, b \in rows[s] : a.at < b.at =>
    Ordered(a.truth, b.truth) /\ (a.sent /\ b.sent => Later(a.value, a.truth, b.value, b.truth))

ZeroInv == \A s \in Systems : \A a \in rows[s] : ~ a.sent => a.value = 0

\* No row is newer than the poll that is running.
StampInv == \A s \in Systems : \A a \in rows[s] : a.at <= stamp

OneRowPerStamp ==
  \A s \in Systems : \A a, b \in rows[s] : a.at = b.at => a = b

IInv == TypeOK /\ NowInv /\ RowsInv /\ ZeroInv /\ StampInv /\ OneRowPerStamp
-----------------------------------------------------------------------------
LEMMA Bounds ==
  /\ RefreshEvery \in Nat /\ RefreshEvery > 0
  /\ PruneEvery \in Nat /\ PruneEvery > 0
  /\ Patience \in Nat /\ MaxTime \in Nat /\ MaxTime > 0
  /\ Window \in Nat /\ MaxCount \in Nat /\ MaxResets \in Nat /\ MaxFaults \in Nat
  /\ Period \in Nat /\ Period > 0
<1>1. RefreshEvery \in Nat \ {0} /\ PruneEvery \in Nat \ {0}
  BY CounterAssumption
<1>2. \A m, n \in Nat \ {0} : m * n \in Nat /\ m * n > 0
  OBVIOUS
<1>3. Period \in Nat /\ Period > 0
  BY <1>1, <1>2 DEF Period
<1> QED
  BY <1>1, <1>3, CounterAssumption

LEMMA IInvInit == Init => IInv
<1> SUFFICES ASSUME Init PROVE IInv
  OBVIOUS
<1>1. TypeOK
  BY Bounds DEF Init, TypeOK, Truth
<1>2. NowInv /\ RowsInv /\ ZeroInv /\ StampInv /\ OneRowPerStamp
  BY DEF Init, NowInv, RowsInv, ZeroInv, StampInv, OneRowPerStamp
<1> QED
  BY <1>1, <1>2 DEF IInv

\* A step that leaves the counters and the rows alone.
LEMMA QuietStep ==
  ASSUME IInv, TypeOK', UNCHANGED <<value, truth, rows>>, stamp <= stamp'
  PROVE  IInv'
<1>1. NowInv' /\ RowsInv' /\ ZeroInv' /\ OneRowPerStamp'
  BY DEF IInv, NowInv, RowsInv, ZeroInv, OneRowPerStamp
<1>2. StampInv'
  BY DEF IInv, TypeOK, StampInv, Row
<1> QED
  BY <1>1, <1>2 DEF IInv

LEMMA PollerStep ==
  ASSUME IInv, Discover \/ WakeAgain \/ Wake \/ Restart \/ \E s \in Systems : SampleFails(s)
  PROVE  IInv'
<1> USE DEF Go, Fault, fabric
<1>1. now \in Nat /\ now >= 1 /\ now <= MaxTime /\ stamp <= now /\ faults + 1 \in Nat
  BY Bounds DEF IInv, TypeOK
<1>2. CASE Discover
  <2>1. systems' \subseteq Systems /\ faults' \in 0..MaxFaults
    BY <1>2, Bounds DEF Discover, Learn, IInv, TypeOK
  <2>2. TypeOK'
    BY <1>1, <1>2, <2>1 DEF Discover, IInv, TypeOK
  <2> QED
    BY <1>2, <2>2, QuietStep DEF Discover, IInv, TypeOK
<1>3. CASE WakeAgain
  <2>1. TypeOK'
    BY <1>1, <1>3 DEF WakeAgain, IInv, TypeOK
  <2> QED
    BY <1>3, <2>1, QuietStep DEF WakeAgain, IInv, TypeOK
<1>4. CASE Wake
  <2>1. TypeOK'
    BY <1>1, <1>4 DEF Wake, IInv, TypeOK
  <2> QED
    BY <1>1, <1>4, <2>1, QuietStep DEF Wake
<1>5. CASE Restart
  <2>1. TypeOK'
    BY <1>1, <1>5, Bounds DEF Restart, IInv, TypeOK
  <2> QED
    BY <1>5, <2>1, QuietStep DEF Restart, IInv, TypeOK
<1>6. ASSUME NEW s \in Systems, SampleFails(s) PROVE IInv'
  <2>1. TypeOK'
    BY <1>1, <1>6, Bounds DEF SampleFails, IInv, TypeOK
  <2> QED
    BY <1>6, <2>1, QuietStep DEF SampleFails, IInv, TypeOK
<1> QED
  BY <1>2, <1>3, <1>4, <1>5, <1>6

LEMMA WorldStep ==
  ASSUME IInv, Manage \/ Tick
  PROVE  IInv'
<1> USE DEF fabric, poller
<1>1. TypeOK'
  BY Bounds DEF Manage, Tick, IInv, TypeOK
<1> QED
  BY <1>1, QuietStep DEF Manage, Tick, IInv, TypeOK

\* A new row has the values of the present, which all rows precede, and a
\* stamp no row has, hence a newer one.
LEMMA SampleStep ==
  ASSUME IInv, NEW s \in Systems, Sample(s)
  PROVE  IInv'
<1> DEFINE Made(sent) == [at |-> stamp, form |-> "offset", value |-> Kept(sent, value[s]),
                          sent |-> sent, truth |-> truth[s]]
<1>a. PICK sent \in BOOLEAN : Saved(s, Made(sent)) /\ (sent \/ Fault)
  BY DEF Sample
<1>b. faults' \in 0..MaxFaults
  BY Bounds DEF Sample, Fault, IInv, TypeOK
<1> DEFINE new == Made(sent)
<1> USE DEF Go, fabric
<1>1. CASE \E other \in rows[s] : other.at = stamp
  <2>1. rows' = rows
    BY <1>a, <1>1 DEF Saved
  <2>2. TypeOK'
    BY <1>b, <2>1 DEF Sample, IInv, TypeOK
  <2> QED
    BY <2>1, <2>2, QuietStep DEF Sample, IInv, TypeOK
<1>2. CASE \A other \in rows[s] : other.at # stamp
  <2>1. rows' = [rows EXCEPT ![s] = @ \cup {new}]
    BY <1>a, <1>2 DEF Saved
  <2>2. /\ new \in Row /\ new.at = stamp /\ new.truth = truth[s] /\ new.sent = sent
        /\ new.value = IF sent THEN value[s] ELSE 0
    BY DEF IInv, TypeOK, Row, Forms, Kept
  <2> HIDE DEF new
  <2>3. rows' \in [Systems -> SUBSET Row]
    BY <2>1, <2>2 DEF IInv, TypeOK
  <2>4. TypeOK'
    BY <1>b, <2>3 DEF Sample, IInv, TypeOK
  <2>5. /\ \A r \in Systems : r # s => rows'[r] = rows[r]
        /\ rows'[s] = rows[s] \cup {new}
    BY <2>1 DEF IInv, TypeOK
  <2>6. Later(value[s], truth[s], value[s], truth[s]) /\ Ordered(truth[s], truth[s])
    BY DEF Later, Ordered, IInv, TypeOK, Truth
  <2>7. NowInv'
    BY <2>2, <2>5, <2>6 DEF Sample, IInv, NowInv
  <2>8. \A a \in rows[s] : a.at < stamp
    BY <1>2 DEF IInv, TypeOK, StampInv, Row
  <2>9. RowsInv'
    <3> SUFFICES ASSUME NEW r \in Systems, NEW a \in rows'[r], NEW b \in rows'[r], a.at < b.at
                 PROVE  /\ Ordered(a.truth, b.truth)
                        /\ a.sent /\ b.sent => Later(a.value, a.truth, b.value, b.truth)
      BY DEF RowsInv
    <3>1. CASE r # s
      BY <2>5, <3>1 DEF IInv, RowsInv
    <3>2. CASE r = s /\ a \in rows[s] /\ b \in rows[s]
      BY <3>2 DEF IInv, RowsInv
    <3>3. CASE r = s /\ a \in rows[s] /\ b = new
      BY <3>3, <2>2 DEF IInv, NowInv
    <3>4. ~(r = s /\ a = new)
      <4>1. \A c \in rows'[s] : ~(stamp < c.at)
        BY <2>2, <2>5, <2>8 DEF IInv, TypeOK, Row
      <4> QED
        BY <2>2, <4>1
    <3> QED
      BY <2>5, <3>1, <3>2, <3>3, <3>4
  <2>10. StampInv'
    BY <2>2, <2>5 DEF Sample, IInv, TypeOK, StampInv
  <2>11. OneRowPerStamp'
    BY <1>2, <2>2, <2>5 DEF IInv, OneRowPerStamp
  <2>12. ZeroInv'
    BY <2>2, <2>5 DEF IInv, ZeroInv
  <2> QED
    BY <2>4, <2>7, <2>9, <2>10, <2>11, <2>12 DEF IInv
<1> QED
  BY <1>1, <1>2

\* Fewer rows.
LEMMA EndStep == ASSUME IInv, PollEnds PROVE IInv'
<1> USE DEF Go, fabric
<1>1. \A s \in Systems : rows'[s] \subseteq rows[s]
  BY DEF PollEnds, Pruned, IInv, TypeOK
<1>2. rows' \in [Systems -> SUBSET Row]
  BY DEF PollEnds, Pruned, IInv, TypeOK
<1>3. polls' \in 0..Period - 1
  <2>1. \A m \in Nat : \A n \in Nat : n > 0 => m % n \in 0..n - 1
    OBVIOUS
  <2>2. polls + 1 \in Nat
    BY DEF IInv, TypeOK
  <2> QED
    BY <2>1, <2>2, Bounds DEF PollEnds
<1>4. NextPlace(polls + 1) \in {"discover", "sleep"}
  BY DEF NextPlace
<1>5. TypeOK'
  BY <1>2, <1>3, <1>4 DEF PollEnds, IInv, TypeOK
<1>6. NowInv' /\ RowsInv' /\ ZeroInv' /\ StampInv' /\ OneRowPerStamp'
  BY <1>1 DEF PollEnds, IInv, NowInv, RowsInv, ZeroInv, StampInv, OneRowPerStamp
<1> QED
  BY <1>5, <1>6 DEF IInv

\* The present moves on; what was lost to resets does not fall.
LEMMA FabricStep ==
  ASSUME IInv, NEW s \in Systems, Count(s) \/ Reset(s)
  PROVE  IInv'
<1> USE DEF poller
<1>1. value[s] \in Nat /\ truth[s].count \in Nat /\ truth[s].resets \in Nat
  BY DEF IInv, TypeOK, Truth
<1>2. value' \in [Systems -> Nat] /\ truth' \in [Systems -> Truth]
  BY <1>1, SMTT(20) DEF Count, Reset, IInv, TypeOK, Truth
<1>3. TypeOK'
  BY <1>2 DEF Count, Reset, IInv, TypeOK
<1>4. NowInv'
  <2> SUFFICES ASSUME NEW r \in Systems, NEW a \in rows[r]
               PROVE  /\ Ordered(a.truth, truth'[r])
                      /\ a.sent => Later(a.value, a.truth, value'[r], truth'[r])
    BY DEF NowInv, Count, Reset
  <2>1. Ordered(a.truth, truth[r]) /\ (a.sent => Later(a.value, a.truth, value[r], truth[r]))
    BY DEF IInv, NowInv
  <2>2. CASE r # s
    BY <2>1, <2>2 DEF Count, Reset, IInv, TypeOK
  <2>3. CASE r = s
    <3>1. a.value \in Nat /\ a.truth.count \in Nat /\ a.truth.resets \in Nat
      BY DEF IInv, TypeOK, Row, Truth
    <3>2. CASE Count(s)
      <4>1. /\ value'[s] = value[s] + 1
            /\ truth'[s].count = truth[s].count + 1
            /\ truth'[s].resets = truth[s].resets
        BY <3>2 DEF Count, IInv, TypeOK, Truth
      <4> QED
        BY <1>1, <2>1, <2>3, <3>1, <4>1 DEF Later, Ordered
    <3>3. CASE Reset(s)
      <4>1. /\ value'[s] = 0
            /\ truth'[s].count = truth[s].count
            /\ truth'[s].resets = truth[s].resets + 1
        BY <3>3 DEF Reset, IInv, TypeOK, Truth
      <4> QED
        BY <1>1, <2>1, <2>3, <3>1, <4>1 DEF Later, Ordered
    <3> QED
      BY <3>2, <3>3
  <2> QED
    BY <2>2, <2>3
<1>5. RowsInv' /\ ZeroInv' /\ StampInv' /\ OneRowPerStamp'
  BY DEF Count, Reset, IInv, RowsInv, ZeroInv, StampInv, OneRowPerStamp
<1> QED
  BY <1>3, <1>4, <1>5 DEF IInv
-----------------------------------------------------------------------------
\* The strengthened invariant of the series, from which the rest follows.
THEOREM Invariance == Spec => []IInv
<1>1. Init => IInv
  BY IInvInit
<1>2. IInv /\ [Next]_vars => IInv'
  <2> SUFFICES ASSUME IInv, [Next]_vars PROVE IInv'
    OBVIOUS
  <2>1. CASE UNCHANGED vars
    <3>1. TypeOK' /\ UNCHANGED <<value, truth, rows>> /\ stamp <= stamp'
      BY <2>1 DEF vars, fabric, poller, IInv, TypeOK
    <3> QED
      BY <3>1, QuietStep
  <2>2. CASE Poll
    BY <2>2, PollerStep, EndStep, SampleStep DEF Poll
  <2>3. CASE Restart
    BY <2>3, PollerStep
  <2>4. CASE \E s \in Busy : Count(s) \/ Reset(s)
    BY <2>4, FabricStep, CounterAssumption
  <2>5. CASE Manage \/ Tick
    BY <2>5, WorldStep
  <2> QED
    BY <2>1, <2>2, <2>3, <2>4, <2>5 DEF Next
<1> QED
  BY <1>1, <1>2, PTL DEF Spec

\* The samples, the stamps and the poller are well typed, whatever the bounds.
THEOREM TypeCorrect == Spec => []TypeOK
<1>1. IInv => TypeOK
  BY DEF IInv
<1> QED
  BY <1>1, Invariance, PTL

\* Of samples that have the field, has_reset (counter_store.py:517-525) is
\* raised for real resets only, whatever the samples before them have.
THEOREM FlagsMeanResets == Spec => []FlagMeansReset
<1>1. IInv => FlagMeansReset
  <2> SUFFICES ASSUME IInv, NEW s \in Systems, NEW a \in rows[s], NEW b \in rows[s],
                      a.at < b.at, b.sent, b.value < a.value
               PROVE  a.truth.resets < b.truth.resets
    BY DEF FlagMeansReset, Steps, Follows, HasReset
  <2>1. a \in Row /\ b \in Row
    BY DEF IInv, TypeOK
  <2>2. a.sent
    BY <2>1 DEF IInv, ZeroInv, Row
  <2>3. Later(a.value, a.truth, b.value, b.truth)
    BY <2>2 DEF IInv, RowsInv
  <2> QED
    BY <2>1, <2>3 DEF Later, Row, Truth
<1> QED
  BY <1>1, Invariance, PTL
-----------------------------------------------------------------------------
(* Sums over finite sets. *)

\* A set of natural numbers has a least element.
LEMMA LeastExists ==
  ASSUME NEW S \in SUBSET Nat, S # {}
  PROVE  \E k \in S : \A j \in S : k <= j
<1>1. PICK k \in S : \A j \in S : ~ (<<j, k>> \in OpToRel(<, Nat))
  BY NatLessThanWellFounded, WFMin
<1>2. OpToRel(<, Nat) = {p \in Nat \X Nat : p[1] < p[2]}
  BY Zenon DEF OpToRel
<1>3. ASSUME NEW j \in S PROVE k <= j
  <2>1. j \in Nat /\ k \in Nat /\ <<j, k>> \in Nat \X Nat
    OBVIOUS
  <2>2. ~ (j < k)
    BY <1>1, <1>2, <2>1
  <2> QED
    BY <2>1, <2>2
<1> QED
  BY <1>3

Any(s) == CHOOSE x \in s : TRUE

\* g sums F over every subset of S, an element at a time.
Sums(g, F, S) ==
  g = [s \in SUBSET S |-> IF s = {} THEN 0 ELSE F[Any(s)] + g[s \ {Any(s)}]]

LEMMA AnyOf == \A s : s # {} => Any(s) \in s
  BY DEF Any

\* What is left of a finite set without an element.
LEMMA OneLess ==
  ASSUME NEW S, IsFiniteSet(S), NEW s \in SUBSET S
  PROVE  /\ Cardinality(s) \in Nat
         /\ s = {} <=> Cardinality(s) = 0
         /\ \A x \in s : Cardinality(s \ {x}) = Cardinality(s) - 1
<1>1. IsFiniteSet(s)
  BY FS_Subset
<1> QED
  BY <1>1, FS_CardinalityType, FS_EmptySet, FS_RemoveElement

LEMMA SumsExist ==
  ASSUME NEW S, IsFiniteSet(S), NEW F \in [S -> Int]
  PROVE  \E g : Sums(g, F, S)
<1> DEFINE Body(g, s) == IF s = {} THEN 0 ELSE F[Any(s)] + g[s \ {Any(s)}]
           UpTo(g, n) == \A s \in SUBSET S : Cardinality(s) <= n => g[s] = Body(g, s)
           Open == {n \in Nat : ~ \E g \in [SUBSET S -> Int] : UpTo(g, n)}
<1>1. Open = {}
  <2> SUFFICES ASSUME Open # {} PROVE FALSE
    OBVIOUS
  <2>1. PICK n \in Open : \A m \in Open : n <= m
    <3>1. Open \in SUBSET Nat
      OBVIOUS
    <3> HIDE DEF Open
    <3> QED
      BY <3>1, LeastExists
  <2>2. n \in Nat /\ ~ \E g \in [SUBSET S -> Int] : UpTo(g, n)
    BY <2>1
  <2>3. CASE n = 0
    <3> DEFINE g == [s \in SUBSET S |-> 0]
    <3>1. g \in [SUBSET S -> Int]
      OBVIOUS
    <3>2. UpTo(g, n)
      <4> SUFFICES ASSUME NEW s \in SUBSET S, Cardinality(s) <= 0 PROVE g[s] = Body(g, s)
        BY <2>3
      <4>1. s = {}
        BY OneLess
      <4> QED
        BY <4>1
    <3> QED
      BY <2>2, <3>1, <3>2
  <2>4. CASE n # 0
    <3>0. n - 1 \in Nat /\ ~ (n <= n - 1)
      BY <2>2, <2>4
    <3>1. n - 1 \notin Open
      <4> HIDE DEF Open
      <4> QED
        BY <2>1, <3>0
    <3>2. PICK g \in [SUBSET S -> Int] : UpTo(g, n - 1)
      BY <3>0, <3>1
    <3> DEFINE h == [s \in SUBSET S |-> IF Cardinality(s) <= n - 1 THEN g[s] ELSE Body(g, s)]
    <3>3. \A s \in SUBSET S : Body(g, s) \in Int
      <4> TAKE s \in SUBSET S
      <4>1. CASE s = {}
        BY <4>1
      <4>2. CASE s # {}
        <5>1. Any(s) \in S /\ s \ {Any(s)} \in SUBSET S
          BY <4>2, AnyOf
        <5> QED
          BY <4>2, <5>1
      <4> QED
        BY <4>1, <4>2
    <3>4. h \in [SUBSET S -> Int]
      <4> HIDE DEF Body
      <4> QED
        BY <3>3
    <3>5. ASSUME NEW s \in SUBSET S, Cardinality(s) <= n PROVE h[s] = Body(h, s)
      <4>1. CASE s = {}
        BY <2>2, <3>1, <3>2, <4>1, OneLess
      <4>2. CASE s # {}
        <5>1. Any(s) \in s /\ s \ {Any(s)} \in SUBSET S
          BY <4>2, AnyOf
        <5>2. Cardinality(s) \in Nat /\ Cardinality(s \ {Any(s)}) = Cardinality(s) - 1
          BY <5>1, OneLess
        <5>3. Cardinality(s \ {Any(s)}) <= n - 1
          BY <2>2, <3>5, <5>2
        <5>4. h[s \ {Any(s)}] = g[s \ {Any(s)}]
          BY <5>1, <5>3
        <5>5. h[s] = Body(g, s)
          BY <3>2, <5>2
        <5> QED
          BY <4>2, <5>4, <5>5
      <4> QED
        BY <4>1, <4>2
    <3> QED
      BY <2>2, <3>4, <3>5
  <2> QED
    BY <2>3, <2>4
<1>2. Cardinality(S) \in Nat
  BY FS_CardinalityType
<1>3. PICK g \in [SUBSET S -> Int] : UpTo(g, Cardinality(S))
  BY <1>1, <1>2
<1>4. \A s \in SUBSET S : g[s] = Body(g, s)
  BY <1>3, FS_Subset
<1>5. g = [s \in SUBSET S |-> Body(g, s)]
  <2> HIDE DEF Body
  <2> QED
    BY <1>4
<1> QED
  BY <1>5 DEF Sums

\* It does not matter in which order a sum is taken.
LEMMA SumTakesOut ==
  ASSUME NEW S, IsFiniteSet(S), NEW F \in [S -> Int], NEW g, Sums(g, F, S)
  PROVE  /\ g[{}] = 0
         /\ \A s \in SUBSET S : g[s] \in Int /\ \A x \in s : g[s] = F[x] + g[s \ {x}]
<1>1. g[{}] = 0
  BY DEF Sums
<1>2. \A s \in SUBSET S : s # {} => g[s] = F[Any(s)] + g[s \ {Any(s)}]
  BY DEF Sums
<1> DEFINE Good(s) == g[s] \in Int /\ \A x \in s : g[s] = F[x] + g[s \ {x}]
           Bad == {n \in Nat : \E s \in SUBSET S : Cardinality(s) = n /\ ~ Good(s)}
<1>3. Bad = {}
  <2> SUFFICES ASSUME Bad # {} PROVE FALSE
    OBVIOUS
  <2>1. PICK n \in Bad : \A m \in Bad : n <= m
    <3>1. Bad \in SUBSET Nat
      OBVIOUS
    <3> HIDE DEF Bad
    <3> QED
      BY <3>1, LeastExists
  <2>2. PICK s \in SUBSET S : Cardinality(s) = n /\ ~ Good(s)
    BY <2>1
  <2>3. s # {}
    BY <1>1, <2>2
  <2>4. ASSUME NEW t \in SUBSET S, Cardinality(t) < n PROVE Good(t)
    <3>1. Cardinality(t) \in Nat /\ n \in Nat /\ ~ (n <= Cardinality(t))
      BY <2>2, <2>4, OneLess
    <3>2. Cardinality(t) \notin Bad
      <4> HIDE DEF Bad
      <4> QED
        BY <2>1, <3>1
    <3> HIDE DEF Good
    <3> QED
      BY <3>1, <3>2
  <2>8. \A x \in s : s \ {x} \in SUBSET S /\ Cardinality(s \ {x}) < n /\ Cardinality(s \ {x}) \in Nat
    BY <2>2, <2>3, OneLess
  <2>5. Any(s) \in s /\ g[s] = F[Any(s)] + g[s \ {Any(s)}]
    BY <1>2, <2>3, AnyOf
  <2>6. F[Any(s)] \in Int /\ g[s \ {Any(s)}] \in Int /\ g[s] \in Int
    BY <2>4, <2>5, <2>8
  <2>7. ASSUME NEW x \in s, x # Any(s) PROVE g[s] = F[x] + g[s \ {x}]
    <3>1. (s \ {x}) \ {Any(s)} = (s \ {Any(s)}) \ {x}
      OBVIOUS
    <3>2. g[s \ {x}] = F[Any(s)] + g[(s \ {x}) \ {Any(s)}]
      BY <2>4, <2>5, <2>7, <2>8
    <3>3. g[s \ {Any(s)}] = F[x] + g[(s \ {Any(s)}) \ {x}]
      BY <2>4, <2>5, <2>7, <2>8
    <3>4. F[x] \in Int /\ g[s \ {x}] \in Int
      BY <2>4, <2>8
    <3>5. g[(s \ {Any(s)}) \ {x}] \in Int
      <4>1. s \ {Any(s)} \in SUBSET S /\ (s \ {Any(s)}) \ {x} \in SUBSET S /\ x \in s \ {Any(s)}
        BY <2>5, <2>7
      <4>2. Cardinality((s \ {Any(s)}) \ {x}) = Cardinality(s \ {Any(s)}) - 1
        BY <4>1, OneLess
      <4>3. Cardinality((s \ {Any(s)}) \ {x}) < n
        BY <2>2, <2>5, <2>8, <4>2
      <4> QED
        BY <2>4, <4>1, <4>3
    <3>6. g[s \ {x}] = F[Any(s)] + g[(s \ {Any(s)}) \ {x}]
      BY <3>1, <3>2
    <3> DEFINE a == F[Any(s)]
               b == g[s \ {Any(s)}]
               c == g[s \ {x}]
               e == g[(s \ {Any(s)}) \ {x}]
               f == F[x]
    <3>7. {a, b, c, e, f} \subseteq Int /\ b = f + e /\ c = a + e
      BY <2>6, <3>3, <3>4, <3>5, <3>6
    <3>8. a + b = f + c
      <4> HIDE DEF a, b, c, e, f
      <4> QED
        BY <3>7
    <3> QED
      BY <2>5, <3>8
  <2> QED
    BY <2>2, <2>5, <2>6, <2>7
<1>4. ASSUME NEW s \in SUBSET S PROVE Good(s)
  <2>1. Cardinality(s) \in Nat /\ Cardinality(s) \notin Bad
    BY <1>3, OneLess
  <2> HIDE DEF Good
  <2> QED
    BY <2>1
<1> QED
  BY <1>1, <1>4
-----------------------------------------------------------------------------
(* The growth of a stretch of samples. *)

Between(S, a, b) == {step \in Steps(S) : a.at <= step[1].at /\ step[2].at <= b.at}
Deltas(T) == [step \in T |-> Delta(step[1], step[2])]

\* Growth is the sum of the deltas of a stretch.
LEMMA GrowthSums ==
  ASSUME NEW S, NEW a, NEW b, IsFiniteSet(Between(S, a, b)),
         Deltas(Between(S, a, b)) \in [Between(S, a, b) -> Int]
  PROVE  \E g : /\ Sums(g, Deltas(Between(S, a, b)), Between(S, a, b))
                /\ Growth(S, a, b) = g[Between(S, a, b)]
<1> DEFINE T == Between(S, a, b)
           F == Deltas(T)
           Next1(g, s) == IF s = {} THEN 0 ELSE F[Any(s)] + g[s \ {Any(s)}]
           Next2(g, s) == IF s = {} THEN 0 ELSE Delta(Any(s)[1], Any(s)[2]) + g[s \ {Any(s)}]
           Solves(g) == g = [s \in SUBSET T |-> Next2(g, s)]
<1>1. \A g, s : s \in SUBSET T => Next1(g, s) = Next2(g, s)
  <2> SUFFICES ASSUME NEW g, NEW s \in SUBSET T, s # {} PROVE F[Any(s)] = Delta(Any(s)[1], Any(s)[2])
    OBVIOUS
  <2>1. Any(s) \in T
    BY AnyOf
  <2> HIDE DEF T
  <2> QED
    BY <2>1 DEF Deltas
<1>2. \A g : Sums(g, F, T) <=> Solves(g)
  <2> TAKE g
  <2>1. [s \in SUBSET T |-> Next1(g, s)] = [s \in SUBSET T |-> Next2(g, s)]
    <3> HIDE DEF Next1, Next2, T, F
    <3> QED
      BY <1>1
  <2>2. Sums(g, F, T) <=> g = [s \in SUBSET T |-> Next1(g, s)]
    BY DEF Sums
  <2> HIDE DEF Next1, Next2, T, F
  <2> QED
    BY <2>1, <2>2
<1>3. \E g : Solves(g)
  <2>1. \E g : Sums(g, F, T)
    <3> HIDE DEF T, F
    <3>1. IsFiniteSet(T) /\ F \in [T -> Int]
      BY DEF T, F
    <3> QED
      BY <3>1, SumsExist
  <2> HIDE DEF Solves, T, F
  <2> QED
    BY <1>2, <2>1
<1>4. Solves(CHOOSE g : Solves(g))
  <2> HIDE DEF Solves
  <2> QED
    BY <1>3
<1>5. Growth(S, a, b) = (CHOOSE g : Solves(g))[T]
  BY DEF Growth, MapThenSumSet, MapThenFoldSet, Between, Any
<1> HIDE DEF Solves, T, F
<1>6. Sums(CHOOSE g : Solves(g), F, T)
  BY <1>2, <1>4
<1> QED
  BY <1>5, <1>6 DEF T, F

LEMMA RowsFinite ==
  ASSUME IInv, NEW s \in Systems
  PROVE  /\ IsFiniteSet(rows[s])
         /\ \A r \in rows[s] : /\ r.at \in Nat /\ r.value \in Nat
                              /\ r.truth.count \in Nat /\ r.truth.resets \in Nat
<1>1. \A r \in rows[s] : /\ r.at \in Nat /\ r.value \in Nat
                         /\ r.truth.count \in Nat /\ r.truth.resets \in Nat
  BY DEF IInv, TypeOK, Row, Truth
<1> DEFINE f == [r \in rows[s] |-> r.at]
<1>2. stamp \in Int /\ 0 \in Int
  BY DEF IInv, TypeOK
<1>3. IsFiniteSet(0..stamp)
  BY <1>2, FS_Interval
<1>4. f \in Injection(rows[s], 0..stamp)
  <2>1. \A r \in rows[s] : r.at \in 0..stamp
    BY <1>1, <1>2 DEF IInv, StampInv
  <2>2. \A p, q \in rows[s] : f[p] = f[q] => p = q
    BY DEF IInv, OneRowPerStamp
  <2>3. f \in [rows[s] -> 0..stamp]
    BY <2>1
  <2> HIDE DEF f
  <2> QED
    BY <2>2, <2>3 DEF Injection, IsInjective
<1>5. IsFiniteSet(rows[s])
  BY <1>3, <1>4, FS_Injection
<1> QED
  BY <1>1, <1>5

\* Before a row that is not the first there is a row next to it.
LEMMA RowBefore ==
  ASSUME NEW S, \A r \in S : r.at \in Nat, NEW a \in S, NEW c \in S, a.at < c.at
  PROVE  \E p \in S : <<p, c>> \in Steps(S) /\ a.at <= p.at /\ p.at < c.at
                      /\ \A r \in S : r.at < c.at => r.at <= p.at
<1> DEFINE Gaps == {d \in Nat : \E p \in S : p.at < c.at /\ p.at + d = c.at}
<1>1. \A p \in S : p.at < c.at => c.at - p.at \in Gaps
  <2> TAKE p \in S
  <2>1. p.at < c.at => c.at - p.at \in Nat /\ p.at + (c.at - p.at) = c.at
    OBVIOUS
  <2> QED
    BY <2>1
<1>2. PICK d \in Gaps : \A e \in Gaps : d <= e
  <2>1. Gaps \in SUBSET Nat /\ Gaps # {}
    BY <1>1
  <2> HIDE DEF Gaps
  <2> QED
    BY <2>1, LeastExists
<1>3. PICK p \in S : p.at < c.at /\ p.at + d = c.at
  BY <1>2
<1>4. ASSUME NEW r \in S, r.at < c.at PROVE r.at <= p.at
  <2>1. d <= c.at - r.at /\ d \in Nat
    BY <1>1, <1>2, <1>4
  <2>2. r.at \in Nat /\ c.at \in Nat /\ p.at \in Nat
    OBVIOUS
  <2> QED
    BY <1>3, <2>1, <2>2
<1>5. \A r \in S : ~ (p.at < r.at /\ r.at < c.at)
  BY <1>4
<1>6. <<p, c>> \in Steps(S)
  BY <1>3, <1>5 DEF Steps, Follows
<1> QED
  BY <1>3, <1>4, <1>6

\* The steps up to a row are those up to the row before it, and the one to it.
LEMMA OneStepMore ==
  ASSUME NEW S, \A r \in S : r.at \in Nat, \A q, r \in S : q.at = r.at => q = r,
         NEW a \in S, NEW p \in S, NEW c \in S, <<p, c>> \in Steps(S), a.at <= p.at, p.at < c.at,
         \A r \in S : r.at < c.at => r.at <= p.at
  PROVE  /\ <<p, c>> \in Between(S, a, c)
         /\ Between(S, a, p) = Between(S, a, c) \ {<<p, c>>}
<1>1. <<p, c>> \in Between(S, a, c) /\ <<p, c>> \notin Between(S, a, p)
  BY DEF Between
<1>2. Between(S, a, p) \subseteq Between(S, a, c)
  BY DEF Between, Steps
<1>3. ASSUME NEW x \in Between(S, a, c), x \notin Between(S, a, p) PROVE x = <<p, c>>
  <2>1. x \in S \X S /\ Follows(x[1], x[2], S) /\ a.at <= x[1].at /\ x[2].at <= c.at
    BY DEF Between, Steps
  <2>2. PICK q, r \in S : x = <<q, r>>
    BY <2>1
  <2>3. Follows(q, r, S) /\ r.at <= c.at /\ ~ (r.at <= p.at)
    BY <1>3, <2>1, <2>2 DEF Between
  <2>4. r = c
    BY <2>3
  <2>5. q.at < c.at /\ ~ (q.at < p.at /\ p.at < c.at)
    BY <2>3, <2>4 DEF Follows
  <2>6. q.at = p.at
    BY <2>5
  <2> QED
    BY <2>2, <2>4, <2>6
<1> QED
  BY <1>1, <1>2, <1>3

\* The growth of a stretch of samples that have the field, but for the last
\* perhaps, is never more than what was counted in it; and is that where the
\* last has it too and nothing was reset.
THEOREM GrowthIsSound == Spec => []GrowthSound
<1>1. ASSUME IInv, NEW s \in Systems, NEW a \in rows[s], NEW b \in rows[s], a.at < b.at,
             \A row \in Stretch(s, a, b) \ {b} : row.sent
      PROVE  /\ Growth(rows[s], a, b) <= b.truth.count - a.truth.count
             /\ b.sent /\ a.truth.resets = b.truth.resets =>
                  Growth(rows[s], a, b) = b.truth.count - a.truth.count
  <2> DEFINE S == rows[s]
             T == Between(S, a, b)
             F == Deltas(T)
             Upto(c) == Between(S, a, c)
  <2>1. /\ IsFiniteSet(S) /\ \A q, r \in S : q.at = r.at => q = r
        /\ \A r \in S : /\ r.at \in Nat /\ r.value \in Nat
                        /\ r.truth.count \in Nat /\ r.truth.resets \in Nat
    BY <1>1, RowsFinite DEF IInv, OneRowPerStamp
  <2>2. /\ \A q, r \in S : q.at < r.at =>
              /\ Ordered(q.truth, r.truth)
              /\ q.sent /\ r.sent => Later(q.value, q.truth, r.value, r.truth)
        /\ \A r \in S : ~ r.sent => r.value = 0
        /\ \A r \in S : a.at <= r.at /\ r.at < b.at => r.sent
    <3>1. \A r \in S : a.at <= r.at /\ r.at < b.at => r \in Stretch(s, a, b) \ {b}
      BY <2>1 DEF Stretch
    <3> QED
      BY <1>1, <3>1 DEF IInv, RowsInv, ZeroInv
  <2> HIDE DEF S
  <2>3. IsFiniteSet(T)
    <3>1. T \in SUBSET (S \X S)
      BY DEF Between, Steps
    <3>2. IsFiniteSet(S \X S)
      BY <2>1, FS_Product
    <3> QED
      BY <3>1, <3>2, FS_Subset
  <2>4. \A x \in T : Delta(x[1], x[2]) \in Int
    BY <2>1 DEF Between, Steps, Delta
  <2>5. F \in [T -> Int]
    <3> HIDE DEF T
    <3> QED
      BY <2>4 DEF Deltas
  <2>6. PICK g : Sums(g, F, T) /\ Growth(S, a, b) = g[T]
    BY <2>3, <2>5, GrowthSums
  <2>7. g[{}] = 0 /\ \A t \in SUBSET T : g[t] \in Int /\ \A x \in t : g[t] = F[x] + g[t \ {x}]
    <3> HIDE DEF T, F
    <3> QED
      BY <2>3, <2>5, <2>6, SumTakesOut
  <2> DEFINE Right(c) == /\ g[Upto(c)] <= c.truth.count - a.truth.count
                         /\ c.sent /\ a.truth.resets = c.truth.resets => g[Upto(c)] = c.truth.count - a.truth.count
             Wrong == {n \in Nat : \E c \in S : c.at = n /\ a.at <= n /\ n <= b.at /\ ~ Right(c)}
  <2>8. Wrong = {}
    <3> SUFFICES ASSUME Wrong # {} PROVE FALSE
      OBVIOUS
    <3>1. PICK n \in Wrong : \A m \in Wrong : n <= m
      <4>1. Wrong \in SUBSET Nat
        OBVIOUS
      <4> HIDE DEF Wrong
      <4> QED
        BY <4>1, LeastExists
    <3>2. PICK c \in S : c.at = n /\ a.at <= n /\ n <= b.at /\ ~ Right(c)
      BY <3>1
    <3>a. a \in S /\ b \in S
      BY DEF S
    <3>3. CASE c.at = a.at
      <4>1. c = a
        BY <2>1, <3>3, <3>a
      <4>2. Upto(a) = {}
        BY <2>1, <3>a DEF Between, Steps, Follows
      <4>3. Right(a)
        BY <2>1, <2>7, <3>a, <4>2
      <4> QED
        BY <3>2, <4>1, <4>3
    <3>4. CASE c.at # a.at
      <4>1. a.at < c.at
        BY <2>1, <3>2, <3>4, <3>a
      <4>2. PICK p \in S : <<p, c>> \in Steps(S) /\ a.at <= p.at /\ p.at < c.at
                            /\ \A r \in S : r.at < c.at => r.at <= p.at
        BY <2>1, <3>a, <4>1, RowBefore
      <4>3. <<p, c>> \in Upto(c) /\ Upto(p) = Upto(c) \ {<<p, c>>}
        BY <2>1, <3>a, <4>2, OneStepMore
      <4>4. Upto(c) \in SUBSET T
        BY <2>1, <3>2, <3>a DEF Between, Steps
      <4>5. g[Upto(c)] = F[<<p, c>>] + g[Upto(p)] /\ g[Upto(p)] \in Int
        <5>1. Upto(p) \in SUBSET T
          BY <4>3, <4>4
        <5> HIDE DEF Upto, T, F
        <5> QED
          BY <2>7, <4>3, <4>4, <5>1
      <4>6. F[<<p, c>>] = Delta(p, c)
        <5>1. <<p, c>> \in T
          BY <4>3, <4>4
        <5> HIDE DEF T
        <5> QED
          BY <5>1 DEF Deltas
      <4>7. Right(p)
        <5>1. p.at \in Nat /\ p.at <= b.at /\ ~ (n <= p.at)
          BY <2>1, <3>2, <3>a, <4>2
        <5>2. p.at \notin Wrong
          <6> HIDE DEF Wrong
          <6> QED
            BY <3>1, <5>1
        <5> HIDE DEF Right
        <5> QED
          BY <4>2, <5>1, <5>2
      <4>a. p.at < b.at
        BY <2>1, <3>2, <3>a, <4>2
      <4>8. /\ Ordered(p.truth, c.truth) /\ p.sent
            /\ c.sent => Later(p.value, p.truth, c.value, c.truth)
            /\ ~ c.sent => c.value = 0
        BY <2>2, <4>2, <4>a
      <4>9. a.truth.resets <= p.truth.resets
        <5>1. CASE a.at = p.at
          BY <2>1, <3>a, <5>1
        <5>2. CASE a.at < p.at
          BY <2>2, <3>a, <5>2 DEF Ordered
        <5> QED
          BY <2>1, <3>a, <4>2, <5>1, <5>2
      <4>10. /\ Delta(p, c) \in Int /\ Delta(p, c) <= c.truth.count - p.truth.count
             /\ c.sent /\ p.truth.resets = c.truth.resets =>
                  Delta(p, c) = c.truth.count - p.truth.count
        <5>1. /\ p.value \in Nat /\ p.truth.count \in Nat /\ p.truth.resets \in Nat
              /\ c.value \in Nat /\ c.truth.count \in Nat /\ c.truth.resets \in Nat
          BY <2>1
        <5>2. CASE c.value < p.value
          BY <4>8, <5>1, <5>2 DEF Later, Ordered, Delta
        <5>3. CASE ~ (c.value < p.value)
          BY <4>8, <5>1, <5>3 DEF Later, Ordered, Delta
        <5> QED
          BY <5>2, <5>3
      <4>11. p.truth.resets <= c.truth.resets
        BY <4>8 DEF Ordered
      <4> DEFINE d == Delta(p, c)
                 u == g[Upto(p)]
                 v == g[Upto(c)]
      <4>12. v = d + u /\ u \in Int /\ d \in Int
        BY <4>5, <4>6, <4>10
      <4>13. /\ u <= p.truth.count - a.truth.count
             /\ p.sent /\ a.truth.resets = p.truth.resets => u = p.truth.count - a.truth.count
             /\ d <= c.truth.count - p.truth.count
             /\ c.sent /\ p.truth.resets = c.truth.resets => d = c.truth.count - p.truth.count
        BY <4>7, <4>10
      <4>14. /\ v <= c.truth.count - a.truth.count
             /\ c.sent /\ a.truth.resets = c.truth.resets => v = c.truth.count - a.truth.count
        <5> HIDE DEF d, u, v
        <5> QED
          BY <2>1, <3>a, <4>8, <4>9, <4>11, <4>12, <4>13
      <4> QED
        BY <3>2, <4>14
    <3> QED
      BY <3>3, <3>4
  <2>9. Right(b)
    <3>1. b \in S /\ a.at <= b.at /\ b.at <= b.at /\ b.at \in Nat
      BY <1>1, <2>1 DEF S
    <3> HIDE DEF Right
    <3> QED
      BY <2>8, <3>1
  <2> QED
    BY <2>6, <2>9 DEF S
<1>2. IInv => GrowthSound
  BY <1>1 DEF GrowthSound
<1> QED
  BY <1>2, Invariance, PTL
=============================================================================
