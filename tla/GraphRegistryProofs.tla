------------------------ MODULE GraphRegistryProofs -------------------------
(***************************************************************************)
(* Theorems about GraphRegistry for any number of callers, blueprints and  *)
(* edits: the lock excludes, no graph leaks, a closed graph is never       *)
(* handed out, and the cache implements BlueprintReads.                    *)
(*                                                                         *)
(* None of these is inductive alone.  The argument: the lock serialises    *)
(* the callers of a key, so what the caller inside it learned (its version *)
(* and its content) stays ordered with the entry and with what was served  *)
(* until it leaves; versions only grow, so an entry left closed by a failed*)
(* rebuild is strictly behind every version that is read later.            *)
(***************************************************************************)
EXTENDS GraphRegistry, FiniteSetTheorems, TLAPS

\* A call that is running has a key, and began when it was not newer than now.
CallerInv ==
  \A c \in Callers :
    /\ pc[c] = "idle" <=> key[c] = NoKey
    /\ pc[c] # "idle" => floor[c] <= live[key[c]]

\* The version that the caller in the lock was told lies between the start
\* of its call and now, and is not older than the entry; it is newer than an
\* entry that is closed.
TolVersion(c) == pc[c] \in {"toldVersions", "askGraph", "toldGraph"} /\ ver[c] # 0

VersionInv ==
  \A c \in Callers : TolVersion(c) =>
    /\ floor[c] <= ver[c]
    /\ ver[c] <= live[key[c]]
    /\ pc[c] = "toldVersions" /\ graphs[key[c]].there =>
         /\ graphs[key[c]].version <= ver[c]
         /\ ~graphs[key[c]].open => graphs[key[c]].version < ver[c]

\* The caller that rebuilds has closed the entry, and what it fetched is not
\* older than what it was told, nor than anything served.
RebuildInv ==
  \A c \in Callers :
    /\ pc[c] \in {"askGraph", "toldGraph"} => ver[c] # 0 /\ ~graphs[key[c]].open
    /\ pc[c] = "toldGraph" =>
         /\ ver[c] <= raw[c]
         /\ raw[c] <= live[key[c]]
         /\ served[key[c]] <= raw[c]

EntryInv ==
  \A k \in Keys :
    /\ graphs[k].open => graphs[k].there /\ served[k] <= graphs[k].content
    /\ graphs[k].there => graphs[k].version # 0
    /\ graphs[k].there /\ ~graphs[k].open => graphs[k].version < live[k]
    /\ served[k] <= live[k]

IInv ==
  /\ TypeOK
  /\ LockOwned
  /\ CallerInv
  /\ VersionInv
  /\ RebuildInv
  /\ EntryInv
  /\ RecordedNotAhead
  /\ NoLeakedGraph
-----------------------------------------------------------------------------
\* Removing one place of a queue leaves a queue.
LEMMA RemoveAtType ==
  ASSUME NEW S, NEW s \in Seq(S), NEW i \in 1..Len(s)
  PROVE  RemoveAt(s, i) \in Seq(S)
  BY DEF RemoveAt

\* Failing calls can be counted.
LEMMA HalvesCount ==
  ASSUME NEW k
  PROVE  IsFiniteSet(Halves(k)) /\ Cardinality(Halves(k)) \in Nat
<1>1. IsFiniteSet(Halves(k))
  BY RegistryAssumption, FS_Subset DEF Halves
<1> QED
  BY <1>1, FS_CardinalityType

\* They are the same after a step of a caller that neither begins nor ends to fail.
LEMMA HalvesKept ==
  ASSUME NEW c \in Callers, pc[c] # "failed", pc'[c] # "failed",
         \A d \in Callers : d # c => pc'[d] = pc[d] /\ key'[d] = key[d]
  PROVE  \A k : Halves(k)' = Halves(k)
  BY DEF Halves

LEMMA IInvInit == Init => IInv
<1> SUFFICES ASSUME Init PROVE IInv
  OBVIOUS
<1> USE RegistryAssumption DEF Init, Versions, NoEntry, Critical, Places
<1>1. TypeOK
  BY DEF TypeOK, Entry
<1>2. LockOwned /\ CallerInv
  BY DEF LockOwned, CallerInv
<1>3. VersionInv /\ RebuildInv
  BY DEF VersionInv, RebuildInv, TolVersion
<1>4. EntryInv /\ RecordedNotAhead
  BY DEF EntryInv, RecordedNotAhead
<1>5. NoLeakedGraph
  <2>1. \A k : Halves(k) = {}
    BY DEF Halves
  <2>2. Cardinality({}) = 0
    BY FS_EmptySet
  <2>3. \A k \in Keys : opened[k] = 0 /\ graphs[k].open = FALSE
    OBVIOUS
  <2>4. \A k : Cardinality(Halves(k)) = 0
    BY <2>1, <2>2, Zenon
  <2> HIDE DEF Init
  <2> QED
    BY <2>3, <2>4 DEF NoLeakedGraph
<1> QED
  BY <1>1, <1>2, <1>3, <1>4, <1>5 DEF IInv

\* A caller in the lock that leaves with version v, which is not older than
\* anything served nor newer than the entry's content, keeps the invariant.
LEMMA LeaveStep ==
  ASSUME IInv, NEW c \in Callers, NEW v \in Versions,
         pc[c] \in Critical, Leave(c, v), Release(c),
         UNCHANGED <<graphs, opened, waiters>>,
         v # 0 => /\ v <= live[key[c]]
                  /\ served[key[c]] <= v
                  /\ graphs[key[c]].open => v <= graphs[key[c]].content
  PROVE  IInv'
<1> USE RegistryAssumption DEF Leave, Release, Critical, Places
<1>k. key[c] \in Keys /\ holder[key[c]] = c
  BY DEF IInv, TypeOK, CallerInv, LockOwned
<1>1. TypeOK'
  BY <1>k, SMTT(20) DEF IInv, TypeOK, Versions
<1>2. LockOwned'
  BY <1>k DEF IInv, TypeOK, LockOwned
<1>3. CallerInv'
  BY <1>k DEF IInv, TypeOK, CallerInv
<1>4. VersionInv'
  BY <1>k DEF IInv, TypeOK, VersionInv, TolVersion
<1>5. RebuildInv'
  <2> SUFFICES ASSUME NEW d \in Callers, d # c,
                      pc[d] \in {"askGraph", "toldGraph"}
               PROVE  /\ ver[d] # 0 /\ ~graphs[key[d]].open
                      /\ pc[d] = "toldGraph" =>
                           /\ ver[d] <= raw[d]
                           /\ raw[d] <= live[key[d]]
                           /\ served'[key[d]] <= raw[d]
    BY <1>k DEF IInv, TypeOK, RebuildInv
  <2>1. key[d] # key[c]
    BY <1>k DEF IInv, TypeOK, LockOwned
  <2> QED
    BY <2>1, <1>k DEF IInv, TypeOK, RebuildInv
<1>6. EntryInv'
  BY <1>k DEF IInv, TypeOK, EntryInv, Versions
<1>7. RecordedNotAhead'
  BY DEF IInv, RecordedNotAhead
<1>8. \A k : Halves(k)' = Halves(k)
  BY HalvesKept DEF IInv, TypeOK
<1>9. NoLeakedGraph'
  BY <1>8 DEF IInv, NoLeakedGraph
<1> QED
  BY <1>1, <1>2, <1>3, <1>4, <1>5, <1>6, <1>7, <1>9 DEF IInv

\* Steps of the server change neither the registry nor a caller's place.
LEMMA ServerStep ==
  ASSUME IInv, NEW k \in Keys, Edit(k) \/ Delete(k)
  PROVE  IInv'
<1> USE RegistryAssumption DEF Edit, Delete, regVars, callVars
<1>0. live' \in [Keys -> Versions] /\ \A j \in Keys : live[j] <= live'[j]
  <2>1. live \in [Keys -> Versions] /\ \A j \in Keys : live[j] <= live[j]
    BY DEF IInv, TypeOK, Versions
  <2>2. CASE Edit(k)
    BY <2>1, <2>2 DEF Versions
  <2> QED
    BY <2>1, <2>2
<1>1. TypeOK'
  BY <1>0 DEF IInv, TypeOK
<1>2. LockOwned' /\ NoLeakedGraph'
  BY DEF IInv, LockOwned, NoLeakedGraph, Halves
<1>3. CallerInv'
  BY <1>0, SMTT(20) DEF IInv, TypeOK, CallerInv, Versions
<1>4. VersionInv'
  BY <1>0, SMTT(20) DEF IInv, TypeOK, CallerInv, VersionInv, TolVersion, Versions
<1>5. RebuildInv'
  <2> SUFFICES ASSUME NEW d \in Callers, pc[d] \in {"askGraph", "toldGraph"}
               PROVE  /\ ver[d] # 0 /\ ~graphs[key[d]].open
                      /\ pc[d] = "toldGraph" =>
                           /\ ver[d] <= raw[d]
                           /\ raw[d] <= live'[key[d]]
                           /\ served[key[d]] <= raw[d]
    BY DEF RebuildInv
  <2>1. key[d] \in Keys
    BY DEF IInv, TypeOK, CallerInv
  <2>2. raw[d] \in Nat /\ live[key[d]] \in Nat /\ live'[key[d]] \in Nat
    BY <1>0, <2>1 DEF IInv, TypeOK, Versions
  <2>3. /\ ver[d] # 0 /\ ~graphs[key[d]].open
        /\ pc[d] = "toldGraph" =>
             ver[d] <= raw[d] /\ raw[d] <= live[key[d]] /\ served[key[d]] <= raw[d]
    BY DEF IInv, RebuildInv
  <2> QED
    BY <1>0, <2>1, <2>2, <2>3
<1>6. EntryInv'
  BY <1>0, SMTT(20) DEF IInv, TypeOK, EntryInv, Versions, Entry
<1>7. RecordedNotAhead'
  BY <1>0, SMTT(20) DEF IInv, TypeOK, RecordedNotAhead, Versions, Entry
<1> QED
  BY <1>1, <1>2, <1>3, <1>4, <1>5, <1>6, <1>7 DEF IInv

\* Steps that change a caller's place and what it was told, or the lock.
LEMMA AnswerStep ==
  ASSUME IInv, NEW c \in Callers, AnswerVersions(c) \/ AnswerGraph(c)
  PROVE  IInv'
<1> USE RegistryAssumption DEF AnswerVersions, AnswerGraph, Exists, regVars, Critical, Places
<1>k. key[c] \in Keys /\ live[key[c]] \in Versions
  BY DEF IInv, TypeOK, CallerInv
<1>1. TypeOK'
  <2>1. CASE AnswerVersions(c)
    <3>1. ver' \in [Callers -> Versions]
      BY <2>1, <1>k DEF IInv, TypeOK, Versions
    <3> QED
      BY <2>1, <3>1 DEF IInv, TypeOK
  <2>2. CASE AnswerGraph(c)
    BY <2>2, <1>k DEF IInv, TypeOK
  <2> QED
    BY <2>1, <2>2
<1>2. LockOwned'
  BY DEF IInv, TypeOK, LockOwned
<1>3. CallerInv'
  BY DEF IInv, TypeOK, CallerInv
<1>4. VersionInv'
  <2>1. CASE AnswerVersions(c)
    <3>1. ver'[c] # 0 => ver'[c] = live[key[c]]
      BY <2>1 DEF IInv, TypeOK
    <3>2. graphs[key[c]] \in Entry
      BY <1>k DEF IInv, TypeOK
    <3>3. /\ floor[c] <= live[key[c]]
          /\ live[key[c]] <= live[key[c]]
          /\ graphs[key[c]].there =>
               /\ graphs[key[c]].version <= live[key[c]]
               /\ ~graphs[key[c]].open => graphs[key[c]].version < live[key[c]]
      BY <2>1, <1>k, <3>2 DEF IInv, CallerInv, EntryInv, RecordedNotAhead, Versions, Entry
    <3> QED
      BY <2>1, <3>1, <3>3 DEF IInv, TypeOK, VersionInv, TolVersion
  <2>2. CASE AnswerGraph(c)
    BY <2>2 DEF IInv, TypeOK, VersionInv, TolVersion
  <2> QED
    BY <2>1, <2>2
<1>5. RebuildInv'
  <2>1. CASE AnswerVersions(c)
    BY <2>1 DEF IInv, TypeOK, RebuildInv
  <2>2. CASE AnswerGraph(c)
    <3>1. ver[c] <= live[key[c]] /\ served[key[c]] <= live[key[c]]
      BY <2>2, <1>k DEF IInv, RebuildInv, VersionInv, TolVersion, EntryInv
    <3> QED
      BY <2>2, <1>k, <3>1 DEF IInv, TypeOK, RebuildInv, Versions
  <2> QED
    BY <2>1, <2>2
<1>6. EntryInv' /\ RecordedNotAhead'
  BY DEF IInv, EntryInv, RecordedNotAhead
<1>7. \A j : Halves(j)' = Halves(j)
  BY HalvesKept DEF IInv, TypeOK
<1>8. NoLeakedGraph'
  BY <1>7 DEF IInv, NoLeakedGraph
<1> QED
  BY <1>8, <1>1, <1>2, <1>3, <1>4, <1>5, <1>6 DEF IInv

LEMMA CallStep ==
  ASSUME IInv, NEW c \in Callers, NEW k \in Keys, Call(c, k)
  PROVE  IInv'
<1> USE RegistryAssumption DEF Call, Critical, Places
<1>1. TypeOK'
  <2>0. Append(waiters[k], c) \in Seq(Callers)
    BY DEF IInv, TypeOK
  <2>1. waiters' \in [Keys -> Seq(Callers)]
    BY <2>0, Zenon DEF IInv, TypeOK
  <2>4. holder' \in [Keys -> Callers \cup {NoCaller}]
    <3>1. holder \in [Keys -> Callers \cup {NoCaller}]
      BY DEF IInv, TypeOK
    <3>2. UNCHANGED holder \/ holder' = [holder EXCEPT ![k] = c]
      OBVIOUS
    <3> QED
      BY <3>1, <3>2
  <2>2. floor' \in [Callers -> Versions] /\ key' \in [Callers -> Keys \cup {NoKey}]
    BY DEF IInv, TypeOK
  <2>3. pc' \in [Callers -> Places]
    BY DEF IInv, TypeOK
  <2> QED
    BY <2>1, <2>2, <2>3, <2>4 DEF IInv, TypeOK
<1>2. LockOwned'
  BY DEF IInv, TypeOK, LockOwned
<1>3. CallerInv'
  BY SMTT(20) DEF IInv, TypeOK, CallerInv, Versions
<1>4. VersionInv' /\ RebuildInv'
  BY DEF IInv, TypeOK, VersionInv, RebuildInv, TolVersion
<1>6. EntryInv' /\ RecordedNotAhead'
  BY DEF IInv, EntryInv, RecordedNotAhead
<1>7. \A j : Halves(j)' = Halves(j)
  BY HalvesKept DEF IInv, TypeOK
<1>8. NoLeakedGraph'
  BY <1>7 DEF IInv, NoLeakedGraph
<1> QED
  BY <1>8, <1>1, <1>2, <1>3, <1>4, <1>6 DEF IInv

LEMMA AcquireStep ==
  ASSUME IInv, NEW c \in Callers, Acquire(c)
  PROVE  IInv'
<1> USE RegistryAssumption DEF Acquire, Critical, Places
<1>k. key[c] \in Keys
  BY DEF IInv, TypeOK, CallerInv
<1>1. TypeOK'
  BY <1>k DEF IInv, TypeOK
<1>2. LockOwned' /\ CallerInv'
  BY <1>k DEF IInv, TypeOK, LockOwned, CallerInv
<1>4. VersionInv' /\ RebuildInv'
  BY <1>k DEF IInv, TypeOK, VersionInv, RebuildInv, TolVersion
<1>6. EntryInv' /\ RecordedNotAhead'
  BY DEF IInv, EntryInv, RecordedNotAhead
<1>7. \A j : Halves(j)' = Halves(j)
  BY HalvesKept DEF IInv, TypeOK
<1>8. NoLeakedGraph'
  BY <1>7 DEF IInv, NoLeakedGraph
<1> QED
  BY <1>8, <1>1, <1>2, <1>4, <1>6 DEF IInv

LEMMA CancelStep ==
  ASSUME IInv, NEW c \in Callers, CancelWaiting(c)
  PROVE  IInv'
<1> USE RegistryAssumption DEF CancelWaiting, Leave, Critical, Places
<1>k. key[c] \in Keys
  BY DEF IInv, TypeOK, CallerInv
<1>w. waiters' \in [Keys -> Seq(Callers)]
  BY <1>k, RemoveAtType DEF IInv, TypeOK
<1>1. TypeOK'
  <2>1. pc' \in [Callers -> Places]
    BY DEF IInv, TypeOK
  <2>2. key' \in [Callers -> Keys \cup {NoKey}] /\ served' = served
    BY DEF IInv, TypeOK
  <2>3. /\ got' \in [Callers -> Versions]
        /\ floor' \in [Callers -> Versions]
        /\ ver' \in [Callers -> Versions]
        /\ raw' \in [Callers -> Versions]
    BY DEF IInv, TypeOK, Versions
  <2> QED
    BY <1>w, <2>1, <2>2, <2>3 DEF IInv, TypeOK
<1>2. LockOwned' /\ CallerInv'
  BY <1>k DEF IInv, TypeOK, LockOwned, CallerInv
<1>4. VersionInv' /\ RebuildInv'
  BY <1>k DEF IInv, TypeOK, VersionInv, RebuildInv, TolVersion
<1>6. EntryInv' /\ RecordedNotAhead'
  BY DEF IInv, EntryInv, RecordedNotAhead
<1>7. \A j : Halves(j)' = Halves(j)
  BY HalvesKept DEF IInv, TypeOK
<1>8. NoLeakedGraph'
  BY <1>7 DEF IInv, NoLeakedGraph
<1> QED
  BY <1>8, <1>1, <1>2, <1>4, <1>6 DEF IInv

LEMMA MissStep ==
  ASSUME IInv, NEW c \in Callers, Miss(c)
  PROVE  IInv'
<1> USE RegistryAssumption DEF Miss, Close, IsHit, Critical, Places
<1>k. /\ key[c] \in Keys
      /\ holder[key[c]] = c
      /\ graphs[key[c]] \in Entry
      /\ ver[c] \in Versions
      /\ live[key[c]] \in Versions
  BY DEF IInv, TypeOK, CallerInv, LockOwned
<1>g. /\ graphs'[key[c]] = [graphs[key[c]] EXCEPT !.open = FALSE]
      /\ \A k \in Keys : k # key[c] => graphs'[k] = graphs[k]
      /\ graphs' \in [Keys -> Entry]
  BY <1>k DEF IInv, TypeOK, Entry
<1>b. graphs[key[c]].there => graphs[key[c]].version < live[key[c]]
  BY <1>k DEF IInv, VersionInv, TolVersion, Versions, Entry
<1>d. \A d \in Callers : pc'[d] \in Critical /\ d # c => key[d] # key[c]
  BY <1>k DEF IInv, TypeOK, LockOwned
<1>1. TypeOK'
  <2>1. opened' \in [Keys -> Nat]
    <3>1. graphs[key[c]].open => opened[key[c]] - 1 \in Nat
      BY <1>k, HalvesCount DEF IInv, NoLeakedGraph
    <3> QED
      BY <1>k, <3>1 DEF IInv, TypeOK
  <2>2. pc' \in [Callers -> Places]
    BY DEF IInv, TypeOK
  <2> QED
    BY <1>g, <2>1, <2>2 DEF IInv, TypeOK
<1>2. LockOwned' /\ CallerInv'
  BY <1>k DEF IInv, TypeOK, LockOwned, CallerInv
<1>4. VersionInv'
  BY <1>k, <1>g, <1>d DEF IInv, TypeOK, CallerInv, VersionInv, TolVersion
<1>5. RebuildInv'
  BY <1>k, <1>g, <1>d DEF IInv, TypeOK, CallerInv, RebuildInv, Entry
<1>6. EntryInv'
  BY <1>k, <1>g, <1>b DEF IInv, TypeOK, EntryInv, Entry
<1>7. RecordedNotAhead'
  BY <1>k, <1>g DEF IInv, TypeOK, RecordedNotAhead, Entry
<1>h. \A k : Halves(k)' = Halves(k)
  BY HalvesKept DEF IInv, TypeOK
<1>8. NoLeakedGraph'
  <2> SUFFICES ASSUME NEW k \in Keys
               PROVE  opened'[k] = (IF graphs'[k].open THEN 1 ELSE 0) + Cardinality(Halves(k))
    BY <1>h DEF NoLeakedGraph
  <2>1. /\ opened[k] = (IF graphs[k].open THEN 1 ELSE 0) + Cardinality(Halves(k))
        /\ Cardinality(Halves(k)) \in Nat /\ opened[k] \in Nat
    BY HalvesCount DEF IInv, TypeOK, NoLeakedGraph
  <2>2. /\ k # key[c] => opened'[k] = opened[k] /\ graphs'[k] = graphs[k]
        /\ k = key[c] => /\ opened'[k] = IF graphs[k].open THEN opened[k] - 1 ELSE opened[k]
                         /\ ~ graphs'[k].open
    BY <1>k, <1>g DEF IInv, TypeOK, Entry
  <2> QED
    BY <2>1, <2>2
<1> QED
  BY <1>1, <1>2, <1>4, <1>5, <1>6, <1>7, <1>8 DEF IInv

LEMMA RebuildStep ==
  ASSUME IInv, NEW c \in Callers, Rebuild(c)
  PROVE  IInv'
<1> USE RegistryAssumption DEF Rebuild, Leave, Release, Critical, Places
<1>k. /\ key[c] \in Keys
      /\ holder[key[c]] = c
      /\ ver[c] \in Versions
      /\ raw[c] \in Versions
      /\ live[key[c]] \in Versions
  BY DEF IInv, TypeOK, CallerInv, LockOwned
<1>r. /\ ver[c] # 0
      /\ ver[c] <= raw[c]
      /\ raw[c] <= live[key[c]]
      /\ served[key[c]] <= raw[c]
      /\ ~graphs[key[c]].open
  BY DEF IInv, RebuildInv
<1>s. raw[c] # 0 /\ served' = [served EXCEPT ![key[c]] = raw[c]]
  BY <1>k, <1>r DEF Versions
<1>d. \A d \in Callers : pc'[d] \in Critical => d # c /\ key[d] # key[c]
  BY <1>k DEF IInv, TypeOK, LockOwned
<1>1. TypeOK'
  <2>1. graphs' \in [Keys -> Entry] /\ served' \in [Keys -> Versions]
    BY <1>k, <1>s DEF IInv, TypeOK, Entry
  <2>2. /\ got' \in [Callers -> Versions]
        /\ floor' \in [Callers -> Versions]
        /\ ver' \in [Callers -> Versions]
        /\ raw' \in [Callers -> Versions]
    BY <1>k DEF IInv, TypeOK, Versions
  <2>3. opened' \in [Keys -> Nat]
    BY <1>k DEF IInv, TypeOK
  <2>4. /\ holder' \in [Keys -> Callers \cup {NoCaller}]
        /\ pc' \in [Callers -> Places]
        /\ key' \in [Callers -> Keys \cup {NoKey}]
    BY <1>k DEF IInv, TypeOK
  <2> QED
    BY <2>1, <2>2, <2>3, <2>4 DEF IInv, TypeOK
<1>2. LockOwned' /\ CallerInv'
  BY <1>k DEF IInv, TypeOK, LockOwned, CallerInv
<1>4. VersionInv'
  BY <1>k, <1>d DEF IInv, TypeOK, CallerInv, VersionInv, TolVersion
<1>5. RebuildInv'
  BY <1>k, <1>d, <1>s DEF IInv, TypeOK, CallerInv, RebuildInv
<1>6. EntryInv'
  BY <1>k, <1>r, <1>s DEF IInv, TypeOK, EntryInv, Versions
<1>7. RecordedNotAhead'
  BY <1>k, <1>r DEF IInv, TypeOK, RecordedNotAhead
<1>h. \A k : Halves(k)' = Halves(k)
  BY HalvesKept DEF IInv, TypeOK
<1>8. NoLeakedGraph'
  <2> SUFFICES ASSUME NEW k \in Keys
               PROVE  opened'[k] = (IF graphs'[k].open THEN 1 ELSE 0) + Cardinality(Halves(k))
    BY <1>h DEF NoLeakedGraph
  <2>1. /\ opened[k] = (IF graphs[k].open THEN 1 ELSE 0) + Cardinality(Halves(k))
        /\ Cardinality(Halves(k)) \in Nat /\ opened[k] \in Nat
    BY HalvesCount DEF IInv, TypeOK, NoLeakedGraph
  <2>2. /\ k # key[c] => opened'[k] = opened[k] /\ graphs'[k] = graphs[k]
        /\ k = key[c] => opened'[k] = opened[k] + 1 /\ graphs'[k].open /\ ~ graphs[k].open
    BY <1>k, <1>r DEF IInv, TypeOK
  <2> QED
    BY <2>1, <2>2
<1> QED
  BY <1>1, <1>2, <1>4, <1>5, <1>6, <1>7, <1>8 DEF IInv

LEMMA CloseAllStep ==
  ASSUME IInv, CloseAll
  PROVE  IInv'
<1> USE RegistryAssumption DEF CloseAll, callVars, NoEntry
<1>k. \A k \in Keys : opened'[k] = Cardinality(Halves(k))
  BY HalvesCount DEF IInv, TypeOK, NoLeakedGraph
<1>1. TypeOK'
  <2>1. graphs' \in [Keys -> Entry]
    BY DEF Entry, Versions
  <2>2. opened' \in [Keys -> Nat]
    BY <1>k, HalvesCount
  <2> QED
    BY <2>1, <2>2 DEF IInv, TypeOK
<1>2. LockOwned' /\ CallerInv'
  BY DEF IInv, LockOwned, CallerInv
<1>4. VersionInv' /\ RebuildInv'
  BY DEF IInv, TypeOK, CallerInv, VersionInv, RebuildInv, TolVersion
<1>6. EntryInv' /\ RecordedNotAhead'
  BY DEF IInv, TypeOK, EntryInv, RecordedNotAhead
<1>7. NoLeakedGraph'
  <2>1. \A k : Halves(k)' = Halves(k)
    BY DEF Halves
  <2> QED
    BY <1>k, <2>1, HalvesCount DEF NoLeakedGraph
<1> QED
  BY <1>1, <1>2, <1>4, <1>6, <1>7 DEF IInv

\* An import that fails opens a database more, for the call that fails; the lock
\* is free again.
LEMMA ImportFailsStep ==
  ASSUME IInv, NEW c \in Callers, ImportFails(c)
  PROVE  IInv'
<1> USE RegistryAssumption DEF ImportFails, Release, Critical, Places
<1>k. key[c] \in Keys /\ holder[key[c]] = c
  BY DEF IInv, TypeOK, CallerInv, LockOwned
<1>1. TypeOK'
  <2>1. opened' \in [Keys -> Nat]
    BY <1>k DEF IInv, TypeOK
  <2>2. holder' \in [Keys -> Callers \cup {NoCaller}] /\ pc' \in [Callers -> Places]
    BY <1>k DEF IInv, TypeOK
  <2> QED
    BY <2>1, <2>2 DEF IInv, TypeOK
<1>2. LockOwned' /\ CallerInv'
  BY <1>k DEF IInv, TypeOK, LockOwned, CallerInv
<1>4. VersionInv' /\ RebuildInv'
  BY <1>k DEF IInv, TypeOK, VersionInv, RebuildInv, TolVersion
<1>6. EntryInv' /\ RecordedNotAhead'
  BY DEF IInv, EntryInv, RecordedNotAhead
<1>7. NoLeakedGraph'
  <2> SUFFICES ASSUME NEW k \in Keys
               PROVE  opened'[k] = (IF graphs[k].open THEN 1 ELSE 0) + Cardinality(Halves(k)')
    BY DEF NoLeakedGraph
  <2>1. /\ opened[k] = (IF graphs[k].open THEN 1 ELSE 0) + Cardinality(Halves(k))
        /\ Cardinality(Halves(k)) \in Nat /\ IsFiniteSet(Halves(k))
    BY HalvesCount DEF IInv, NoLeakedGraph
  <2>2. CASE k = key[c]
    <3>1. Halves(k)' = Halves(k) \cup {c} /\ c \notin Halves(k)
      BY <2>2 DEF IInv, TypeOK, Halves
    <3>2. Cardinality(Halves(k)') = Cardinality(Halves(k)) + 1
      BY <2>1, <3>1, FS_AddElement
    <3>3. opened'[k] = opened[k] + 1
      BY <1>k, <2>2 DEF IInv, TypeOK
    <3> QED
      BY <2>1, <3>2, <3>3
  <2>3. CASE k # key[c]
    <3>1. Halves(k)' = Halves(k)
      BY <2>3 DEF IInv, TypeOK, Halves
    <3>2. opened'[k] = opened[k]
      BY <2>3 DEF IInv, TypeOK
    <3> QED
      BY <2>1, <3>1, <3>2
  <2> QED
    BY <2>2, <2>3
<1> QED
  BY <1>1, <1>2, <1>4, <1>6, <1>7 DEF IInv

\* The call that ends with the exception takes that database with it.
LEMMA UnwindStep ==
  ASSUME IInv, NEW c \in Callers, Unwind(c)
  PROVE  IInv'
<1> USE RegistryAssumption DEF Unwind, Leave, Critical, Places
<1>k. key[c] \in Keys
  BY DEF IInv, TypeOK, CallerInv
<1>7. ASSUME NEW k \in Keys
      PROVE  /\ opened'[k] = (IF graphs[k].open THEN 1 ELSE 0) + Cardinality(Halves(k)')
             /\ opened'[k] \in Nat
  <2>1. /\ opened[k] = (IF graphs[k].open THEN 1 ELSE 0) + Cardinality(Halves(k))
        /\ Cardinality(Halves(k)) \in Nat /\ IsFiniteSet(Halves(k))
    BY HalvesCount DEF IInv, NoLeakedGraph
  <2>2. CASE k = key[c]
    <3>1. Halves(k)' = Halves(k) \ {c} /\ c \in Halves(k)
      BY <1>k, <2>2 DEF IInv, TypeOK, Halves
    <3>2. Cardinality(Halves(k)') = Cardinality(Halves(k)) - 1
      BY <2>1, <3>1, FS_RemoveElement
    <3>3. IsFiniteSet(Halves(k)') /\ Cardinality(Halves(k)') \in Nat
      BY <2>1, <3>1, FS_RemoveElement, FS_CardinalityType
    <3>4. opened'[k] = opened[k] - 1
      BY <1>k, <2>2 DEF IInv, TypeOK
    <3> QED
      BY <2>1, <3>2, <3>3, <3>4
  <2>3. CASE k # key[c]
    <3>1. Halves(k)' = Halves(k)
      BY <2>3 DEF IInv, TypeOK, Halves
    <3>2. opened'[k] = opened[k]
      BY <2>3 DEF IInv, TypeOK
    <3> QED
      BY <2>1, <3>1, <3>2
  <2> QED
    BY <2>2, <2>3
<1>1. TypeOK'
  <2>1. opened' \in [Keys -> Nat]
    BY <1>7 DEF IInv, TypeOK
  <2>2. pc' \in [Callers -> Places] /\ key' \in [Callers -> Keys \cup {NoKey}] /\ served' = served
    BY DEF IInv, TypeOK
  <2>3. /\ got' \in [Callers -> Versions]
        /\ floor' \in [Callers -> Versions]
        /\ ver' \in [Callers -> Versions]
        /\ raw' \in [Callers -> Versions]
    BY DEF IInv, TypeOK, Versions
  <2> QED
    BY <2>1, <2>2, <2>3 DEF IInv, TypeOK
<1>2. LockOwned' /\ CallerInv'
  BY <1>k DEF IInv, TypeOK, LockOwned, CallerInv
<1>4. VersionInv' /\ RebuildInv'
  BY <1>k DEF IInv, TypeOK, VersionInv, RebuildInv, TolVersion
<1>6. EntryInv' /\ RecordedNotAhead'
  BY DEF IInv, EntryInv, RecordedNotAhead
<1>8. NoLeakedGraph'
  BY <1>7 DEF NoLeakedGraph
<1> QED
  BY <1>1, <1>2, <1>4, <1>6, <1>8 DEF IInv

\* Each way of leaving the lock other than a rebuild meets LeaveStep.
LEMMA LeavingStep ==
  ASSUME IInv, NEW c \in Callers,
         Raise(c) \/ NotFound(c) \/ Hit(c)
  PROVE  IInv'
<1>0. pc[c] \in Critical /\ Release(c) /\ UNCHANGED <<graphs, opened, waiters>>
  BY DEF Raise, NotFound, Hit, Critical
<1>k. key[c] \in Keys /\ 0 \in Versions /\ graphs[key[c]] \in Entry
  BY <1>0, RegistryAssumption DEF IInv, TypeOK, CallerInv, Critical, Versions
<1>1. CASE Leave(c, 0)
  BY <1>0, <1>1, <1>k, LeaveStep
<1>2. CASE Hit(c) /\ graphs[key[c]].open
  <2> DEFINE v == graphs[key[c]].content
  <2>1. v \in Versions /\ Leave(c, v)
    BY <1>2, <1>k DEF Hit, Entry
  <2>2. v <= live[key[c]] /\ served[key[c]] <= v /\ v <= v
    BY <1>2, <1>k, <2>1 DEF IInv, EntryInv, RecordedNotAhead, Versions
  <2> HIDE DEF v
  <2>3. v # 0 => /\ v <= live[key[c]]
                 /\ served[key[c]] <= v
                 /\ graphs[key[c]].open => v <= graphs[key[c]].content
    BY <2>2 DEF v
  <2> QED
    BY <1>0, <2>1, <2>3, LeaveStep
<1> QED
  BY <1>1, <1>2 DEF Raise, NotFound, Hit

\* No caller, edit, failure or close breaks the invariant.
THEOREM IInvNext == IInv /\ [Next]_vars => IInv'
<1> SUFFICES ASSUME IInv, [Next]_vars PROVE IInv'
  OBVIOUS
<1>1. CASE UNCHANGED vars
  BY <1>1 DEF vars, regVars, callVars, IInv, TypeOK, LockOwned, CallerInv,
     VersionInv, TolVersion, RebuildInv, EntryInv, RecordedNotAhead, NoLeakedGraph, Halves
<1>2. CASE Next
  BY <1>2, ServerStep, AnswerStep, CallStep, AcquireStep, CancelStep,
     LeavingStep, MissStep, RebuildStep, ImportFailsStep, UnwindStep, CloseAllStep DEF Next
<1> QED
  BY <1>1, <1>2

-----------------------------------------------------------------------------
\* The invariant holds in every reachable state.
THEOREM Invariance == Spec => []IInv
  BY IInvInit, IInvNext, PTL DEF Spec

\* Every variable of the registry keeps its type.
THEOREM TypeCorrect == Spec => []TypeOK
<1>1. IInv => TypeOK
  BY DEF IInv
<1> QED
  BY <1>1, Invariance, PTL

\* One caller at most is past the lock of a blueprint, the one it records.
THEOREM LockExcludes == Spec => []LockOwned
<1>1. IInv => LockOwned
  BY DEF IInv
<1> QED
  BY <1>1, Invariance, PTL

\* A rebuild never loses an open Kuzu database, whatever fails on its way: but
\* for those of calls that are just failing, the entry's is the only one.
THEOREM NoGraphLeaks == Spec => []NoLeakedGraph
<1>1. IInv => NoLeakedGraph
  BY DEF IInv
<1> QED
  BY <1>1, Invariance, PTL

\* The version recorded with a graph is never ahead of the graph's content.
THEOREM RecordedBehindContent == Spec => []RecordedNotAhead
<1>1. IInv => RecordedNotAhead
  BY DEF IInv
<1> QED
  BY <1>1, Invariance, PTL

\* The closed graph that a failed rebuild leaves behind is never a hit.
THEOREM ClosedGraphNeverServed == Spec => []ClosedNeverHit
<1>1. IInv => ClosedNeverHit
  <2> SUFFICES ASSUME IInv, NEW c \in Callers, pc[c] = "toldVersions",
                      ver[c] # 0, IsHit(c), ~graphs[key[c]].open
               PROVE  FALSE
    BY DEF ClosedNeverHit
  <2>1. ver[c] \in Versions /\ ver[c] < ver[c]
    BY DEF IInv, TypeOK, VersionInv, TolVersion, IsHit
  <2> QED
    BY <2>1, RegistryAssumption DEF Versions
<1> QED
  BY <1>1, Invariance, PTL
-----------------------------------------------------------------------------
\* A step that leaves the lock with version v is a step of the abstract read.
LEMMA LeaveReads ==
  ASSUME IInv, NEW c \in Callers, NEW v \in Versions, Leave(c, v), key[c] \in Keys,
         v # 0 => /\ v <= live[key[c]]
                  /\ floor[c] <= v
                  /\ served[key[c]] <= v
  PROVE  Reads!Next
<1>0. key[c] # NoKey
  BY RegistryAssumption
<1>1. CASE v = 0
  BY <1>0, <1>1 DEF Leave, Reads!Next, Reads!Raise, Reads!End
<1>2. CASE v # 0
  <2>1. v \in 1..live[key[c]]
    BY <1>2 DEF IInv, TypeOK, Versions
  <2>2. v >= floor[c] /\ v >= served[key[c]]
    BY <1>2, <2>1 DEF IInv, TypeOK, Versions
  <2>3. Reads!Answer(c)
    BY <1>0, <1>2, <2>1, <2>2 DEF Leave, Reads!Answer, Reads!End
  <2> QED
    BY <2>3 DEF Reads!Next
<1> QED
  BY <1>1, <1>2

LEMMA StepReads == IInv /\ [Next]_vars => [Reads!Next]_(Reads!vars)
<1> SUFFICES ASSUME IInv, [Next]_vars PROVE [Reads!Next]_(Reads!vars)
  OBVIOUS
<1>k. \A c \in Callers : pc[c] # "idle" => key[c] \in Keys
  BY DEF IInv, TypeOK, CallerInv
<1>z. 0 \in Versions
  BY RegistryAssumption DEF Versions
<1>1. CASE UNCHANGED vars
  BY <1>1 DEF vars, callVars, Reads!vars
<1>2. ASSUME NEW k \in Keys, Edit(k) \/ Delete(k)
      PROVE  [Reads!Next]_(Reads!vars)
  BY <1>2 DEF Edit, Delete, callVars, Reads!vars, Reads!Next, Reads!Edit
<1>3. ASSUME NEW c \in Callers, NEW k \in Keys, Call(c, k)
      PROVE  [Reads!Next]_(Reads!vars)
  <2>1. key[c] = NoKey
    BY <1>3 DEF Call, IInv, CallerInv
  <2> QED
    BY <1>3, <2>1 DEF Call, Reads!Next, Reads!Begin
<1>4. ASSUME NEW c \in Callers,
             AnswerVersions(c) \/ AnswerGraph(c) \/ Acquire(c) \/ Miss(c) \/ ImportFails(c)
      PROVE  UNCHANGED Reads!vars
  BY <1>4 DEF AnswerVersions, AnswerGraph, Acquire, Miss, ImportFails, Reads!vars
<1>5. ASSUME NEW c \in Callers,
             CancelWaiting(c) \/ Raise(c) \/ NotFound(c) \/ Unwind(c)
      PROVE  Reads!Next
  <2>1. Leave(c, 0) /\ key[c] \in Keys
    BY <1>5, <1>k DEF CancelWaiting, Raise, NotFound, Unwind, Critical
  <2> QED
    BY <2>1, <1>z, LeaveReads
<1>6. ASSUME NEW c \in Callers, Hit(c)
      PROVE  Reads!Next
  <2> DEFINE v == graphs[key[c]].content
  <2>1. key[c] \in Keys /\ graphs[key[c]] \in Entry
    BY <1>6, <1>k DEF Hit, IInv, TypeOK
  <2>2. CASE graphs[key[c]].open
    <3>1. v \in Versions /\ Leave(c, v)
      BY <1>6, <2>1, <2>2 DEF Hit, Entry
    <3>2. v <= live[key[c]] /\ floor[c] <= v /\ served[key[c]] <= v
      <4>1. floor[c] <= ver[c] /\ ver[c] <= v
        BY <1>6, <2>1, <2>2 DEF Hit, IsHit, IInv, VersionInv, TolVersion, RecordedNotAhead
      <4>2. floor[c] \in Versions /\ ver[c] \in Versions
        BY DEF IInv, TypeOK
      <4>3. floor[c] <= v
        BY <4>1, <4>2, <3>1 DEF Versions
      <4> QED
        BY <4>3, <1>6, <2>1, <2>2 DEF Hit, IsHit, IInv, EntryInv, RecordedNotAhead
    <3> HIDE DEF v
    <3> QED
      BY <3>1, <3>2, <2>1, LeaveReads
  <2>3. CASE ~graphs[key[c]].open
    BY <1>6, <2>1, <2>3, <1>z, LeaveReads DEF Hit
  <2> QED
    BY <2>2, <2>3
<1>7. ASSUME NEW c \in Callers, Rebuild(c)
      PROVE  Reads!Next
  <2>1. key[c] \in Keys /\ raw[c] \in Versions /\ Leave(c, raw[c])
    BY <1>7, <1>k DEF Rebuild, IInv, TypeOK
  <2>2. /\ ver[c] <= raw[c]
        /\ raw[c] <= live[key[c]]
        /\ served[key[c]] <= raw[c]
        /\ floor[c] <= ver[c]
    BY <1>7 DEF Rebuild, IInv, RebuildInv, VersionInv, TolVersion
  <2>3. floor[c] <= raw[c]
    BY <2>1, <2>2, RegistryAssumption DEF IInv, TypeOK, Versions
  <2> QED
    BY <2>1, <2>2, <2>3, LeaveReads
<1>8. ASSUME CloseAll
      PROVE  UNCHANGED Reads!vars
  BY <1>8 DEF CloseAll, callVars, Reads!vars
<1> QED
  BY <1>1, <1>2, <1>3, <1>4, <1>5, <1>6, <1>7, <1>8 DEF Next

\* The cache implements the abstract read: every answer is at least as new as
\* the blueprint was when the call began, and answers never go back in time.
THEOREM ImplementsReads == Spec => ReadsSpec
<1>1. Init => Reads!Init
  BY DEF Init, Reads!Init
<1> QED
  BY <1>1, StepReads, Invariance, PTL DEF Spec, ReadsSpec, Reads!Spec
=============================================================================
