------------------------ MODULE FabricToolsProofs ------------------------
(***************************************************************************)
(* Theorems about the tools that read a fabric: the comparison of a design *)
(* with its catalogue, the MTU check, the routing policy tool, the first   *)
(* look at a fabric and the reads of it, for any fabric and configuration. *)
(* Each part says first what its proof rests on.                           *)
(***************************************************************************)
EXTENDS DesignDrift, MtuCheck, RoutingPolicy, Triage, FabricReads,
        FiniteSetTheorems, WellFoundedInduction, TLAPS

(***************************************************************************)
(* DesignDrift: a report is true of one moment of its call.                *)
(*                                                                         *)
(* What a report compares, the copies read and the catalogue of now, need  *)
(* not be a moment of the call.  It is one until both sides were edited:   *)
(* an edit of the catalogue takes it away only if the copies have changed  *)
(* before, and that makes a third moment.                                  *)
(***************************************************************************)
DriftTypes ==
  /\ copies \in [Copies -> Entry \cup {Missing}]
  /\ catalogue \in [Items -> Entry \cup {Missing}]
  /\ IsFiniteSet(moments)
  /\ \A m \in moments : /\ m[1] \in [Copies -> Entry \cup {Missing}]
                        /\ m[2] \in [Items -> Entry \cup {Missing}]

\* While a report waits, what it would compare is a moment of its call.
DriftReadInv ==
  seen # Missing =>
    /\ report = Missing
    /\ <<copies, catalogue>> \in moments
    /\ <<seen, catalogue>> \in moments \/ Cardinality(moments) > 2

\* And so was what the last report compared.
DriftReportInv ==
  report # Missing =>
    (\E m \in moments : report = Compared(m[1], m[2])) \/ Cardinality(moments) > 2

\* What DriftHonest asks of a report at one of the moments of its call.
HonestAt(m, r) ==
  /\ \A c \in Present(m[1]) :
       Unique(m, m[1][c].key) /\ m[1][c].key # NoKey =>
         c \in DOMAIN r.drift /\ r.drift[c] = InDrift(m, c)
  /\ DOMAIN r.drift \cup r.only = Present(m[1])
  /\ r.unused = Named(m[2]) \ {m[1][c].key : c \in DOMAIN r.drift}

DriftInv == DriftTypes /\ DriftReadInv /\ DriftReportInv
-----------------------------------------------------------------------------
(* Lemmas about the comparison. *)

LEMMA DriftAssumptions ==
  /\ Items \subseteq Nat
  /\ \A a \in Contents : a = [k \in DOMAIN a |-> a[k]]
  BY DriftAssumption

\* Position by position to the end of the longer list is equality.
LEMMA SameGeneratorsIsEquality ==
  ASSUME NEW a \in Contents, NEW b \in Contents
  PROVE  SameGenerators(a, b) <=> a = b
<1>1. a = b => SameGenerators(a, b)
  BY DEF SameGenerators
<1>2. ASSUME SameGenerators(a, b) PROVE a = b
  <2>1. DOMAIN a = DOMAIN b
    BY <1>2 DEF SameGenerators
  <2>2. \A k \in DOMAIN a : a[k] = b[k]
    BY <1>2, <2>1 DEF SameGenerators
  <2>3. a = [k \in DOMAIN a |-> a[k]] /\ b = [k \in DOMAIN b |-> b[k]]
    BY DriftAssumptions
  <2>4. [k \in DOMAIN a |-> a[k]] = [k \in DOMAIN b |-> b[k]]
    BY <2>1, <2>2
  <2> QED
    BY <2>3, <2>4
<1> QED
  BY <1>1, <1>2

\* A name that the catalogue has once is found where it is.
LEMMA FoundUnique ==
  ASSUME NEW m, m[2] \in [Items -> Entry \cup {Missing}],
         NEW n \in Present(m[2]), Unique(m, m[2][n].key)
  PROVE  /\ Found(m[2], m[2][n].key) = n
         /\ \A k \in Present(m[2]) : m[2][k].key = m[2][n].key => k = n
<1> DEFINE Same == {k \in Present(m[2]) : m[2][k].key = m[2][n].key}
<1>1. Cardinality(Same) = 1 /\ n \in Same
  BY DEF Unique
<1>2. IsFiniteSet(Same)
  <2>1. Same \subseteq Items
    BY DEF Present
  <2> QED
    BY <2>1, DriftAssumption, FS_Subset
<1>3. PICK one : Same = {one}
  BY <1>1, <1>2, FS_Singleton
<1>4. Same = {n}
  BY <1>1, <1>3
<1>5. \A k \in Present(m[2]) : m[2][k].key = m[2][n].key => k = n
  BY <1>4
<1>6. n \in Nat
  BY DriftAssumptions DEF Present
<1>7. Found(m[2], m[2][n].key) = n
  <2> DEFINE LastOne(k) == /\ m[2][k].key = m[2][n].key
                        /\ \A j \in Present(m[2]) : m[2][j].key = m[2][n].key => j <= k
  <2>1. LastOne(n)
    BY <1>5, <1>6
  <2>2. \A k \in Present(m[2]) : LastOne(k) => k = n
    BY <1>5
  <2>3. Found(m[2], m[2][n].key) = CHOOSE k \in Present(m[2]) : LastOne(k)
    BY DEF Found
  <2> HIDE DEF LastOne
  <2> QED
    BY <2>1, <2>2, <2>3
<1> QED
  BY <1>5, <1>7

\* What the comparison of a moment says is true of that moment.
LEMMA ComparedTrue ==
  ASSUME NEW m,
         m[1] \in [Copies -> Entry \cup {Missing}],
         m[2] \in [Items -> Entry \cup {Missing}],
         NEW r, r = Compared(m[1], m[2])
  PROVE  HonestAt(m, r)
<1> DEFINE matched == {c \in Present(m[1]) : m[1][c].key \in Named(m[2])}
<1>1. /\ r.drift = [c \in matched |->
           ~ SameGenerators(m[1][c].content, m[2][Found(m[2], m[1][c].key)].content)]
      /\ r.only = Present(m[1]) \ matched
      /\ r.unused = Named(m[2]) \ {m[1][c].key : c \in matched}
  BY DEF Compared
<1>2. DOMAIN r.drift = matched
  BY <1>1
<1>3. ASSUME NEW c \in Present(m[1]), Unique(m, m[1][c].key), m[1][c].key # NoKey
      PROVE  c \in matched /\ r.drift[c] = InDrift(m, c)
  <2>0. \E n : n \in Present(m[2]) /\ m[2][n].key = m[1][c].key
    <3>1. {n \in Present(m[2]) : m[2][n].key = m[1][c].key} # {}
      <4>1. Cardinality({n \in Present(m[2]) : m[2][n].key = m[1][c].key}) = 1
        BY <1>3 DEF Unique
      <4>2. Cardinality({}) = 0
        BY FS_EmptySet
      <4> QED
        BY <4>1, <4>2
    <3> QED
      BY <3>1
  <2>1. PICK n \in Present(m[2]) : m[2][n].key = m[1][c].key
    BY <2>0
  <2>2. c \in matched
    BY <2>1, <1>3 DEF Named
  <2>3. Found(m[2], m[1][c].key) = n
        /\ \A k \in Present(m[2]) : m[2][k].key = m[1][c].key => k = n
    BY <2>1, <1>3, FoundUnique
  <2>4. m[1][c].content \in Contents /\ m[2][n].content \in Contents
    <3>1. m[1][c] \in Entry /\ m[2][n] \in Entry
      BY <2>1, <1>3 DEF Present
    <3> QED
      BY <3>1 DEF Entry
  <2>5. r.drift[c] = ~ SameGenerators(m[1][c].content, m[2][n].content)
    BY <1>1, <2>2, <2>3
  <2>6. InDrift(m, c) <=> m[2][n].content # m[1][c].content
    BY <2>1, <2>3 DEF InDrift
  <2>7. SameGenerators(m[1][c].content, m[2][n].content)
          <=> m[1][c].content = m[2][n].content
    BY <2>4, SameGeneratorsIsEquality
  <2>8. r.drift[c] = (m[2][n].content # m[1][c].content)
    BY <2>5, <2>7
  <2>9. InDrift(m, c) = (m[2][n].content # m[1][c].content)
    BY <2>6 DEF InDrift
  <2> QED
    BY <2>2, <2>8, <2>9
<1>4. DOMAIN r.drift \cup r.only = Present(m[1])
  BY <1>1, <1>2
<1> QED
  BY <1>1, <1>2, <1>3, <1>4 DEF HonestAt
-----------------------------------------------------------------------------
(* Lemmas about the moments of a call. *)

LEMMA ThreeMoments ==
  ASSUME NEW S, IsFiniteSet(S), NEW a \in S, NEW b \in S, NEW c \in S,
         a # b, b # c, a # c
  PROVE  Cardinality(S) > 2
<1>1. IsFiniteSet({}) /\ Cardinality({}) = 0
  BY FS_EmptySet
<1>2. IsFiniteSet({a}) /\ Cardinality({a}) = 1
  BY FS_Singleton
<1>3. IsFiniteSet({a, b}) /\ Cardinality({a, b}) = 2
  <2> DEFINE A == {a}
  <2>1. {a, b} = A \cup {b} /\ b \notin A
    OBVIOUS
  <2>0. IsFiniteSet(A) /\ Cardinality(A) = 1
    BY <1>2
  <2> HIDE DEF A
  <2>2. IsFiniteSet(A \cup {b}) /\ Cardinality(A \cup {b}) = 1 + 1
    BY <2>0, <2>1, FS_AddElement
  <2> QED
    BY <2>1, <2>2
<1>4. IsFiniteSet({a, b, c}) /\ Cardinality({a, b, c}) = 3
  <2> DEFINE A == {a, b}
  <2>1. {a, b, c} = A \cup {c} /\ c \notin A
    OBVIOUS
  <2>0. IsFiniteSet(A) /\ Cardinality(A) = 2
    BY <1>3
  <2> HIDE DEF A
  <2>2. IsFiniteSet(A \cup {c}) /\ Cardinality(A \cup {c}) = 2 + 1
    BY <2>0, <2>1, FS_AddElement
  <2> QED
    BY <2>1, <2>2
<1>5. Cardinality({a, b, c}) <= Cardinality(S) /\ Cardinality(S) \in Nat
  BY FS_Subset, FS_CardinalityType
<1> QED
  BY <1>4, <1>5

\* A moment more does not make fewer.
LEMMA MoreMoments ==
  ASSUME NEW S, IsFiniteSet(S), NEW x
  PROVE  /\ IsFiniteSet(S \cup {x})
         /\ Cardinality(S) > 2 => Cardinality(S \cup {x}) > 2
<1>1. Cardinality(S) \in Nat /\ IsFiniteSet(S \cup {x})
  BY FS_AddElement, FS_CardinalityType
<1>2. Cardinality(S \cup {x}) = IF x \in S THEN Cardinality(S) ELSE Cardinality(S) + 1
  BY FS_AddElement, Zenon
<1> QED
  BY <1>1, <1>2
-----------------------------------------------------------------------------
LEMMA DriftInvInit == DriftInit => DriftInv
<1> SUFFICES ASSUME DriftInit PROVE DriftInv
  OBVIOUS
<1>1. IsFiniteSet({})
  BY FS_EmptySet
<1> QED
  BY <1>1 DEF DriftInit, DriftInv, DriftTypes, DriftReadInv, DriftReportInv

LEMMA ReadCopiesStep ==
  ASSUME DriftInv, ReadCopies
  PROVE  DriftInv'
<1>1. moments' = {<<copies, catalogue>>} /\ IsFiniteSet(moments')
  BY FS_Singleton DEF ReadCopies
<1>2. DriftTypes'
  BY <1>1 DEF ReadCopies, DriftInv, DriftTypes
<1>3. DriftReadInv' /\ DriftReportInv'
  BY <1>1 DEF ReadCopies, DriftReadInv, DriftReportInv
<1> QED
  BY <1>2, <1>3 DEF DriftInv

LEMMA ReadCatalogueStep ==
  ASSUME DriftInv, ReadCatalogue
  PROVE  DriftInv'
<1> USE DEF ReadCatalogue
<1>1. DriftTypes'
  BY DEF DriftInv, DriftTypes
<1>2. DriftReadInv'
  BY DEF DriftReadInv
<1>3. DriftReportInv'
  <2>1. CASE <<seen, catalogue>> \in moments
    <3> DEFINE m == <<seen, catalogue>>
    <3>1. m \in moments' /\ m[1] = seen /\ m[2] = catalogue
      BY <2>1
    <3>2. report' = Compared(m[1], m[2])
      BY <3>1
    <3> HIDE DEF m
    <3> QED
      BY <3>1, <3>2 DEF DriftReportInv
  <2>2. CASE Cardinality(moments) > 2
    BY <2>2 DEF DriftReportInv
  <2> QED
    BY <2>1, <2>2 DEF DriftInv, DriftReadInv
<1> QED
  BY <1>1, <1>2, <1>3 DEF DriftInv

LEMMA CatalogueFailsStep ==
  ASSUME DriftInv, CatalogueFails
  PROVE  DriftInv'
<1>1. IsFiniteSet({})
  BY FS_EmptySet
<1> QED
  BY <1>1 DEF CatalogueFails, DriftInv, DriftTypes, DriftReadInv, DriftReportInv

\* An edit adds a moment; what was compared is still one, or there are three.
LEMMA EditStep ==
  ASSUME DriftInv, EditCopy \/ EditItem
  PROVE  DriftInv'
<1>c. Changed
  BY DEF EditCopy, EditItem
<1>m. /\ seen # Missing /\ report = Missing
      /\ moments' = moments \cup {<<copies', catalogue'>>}
      /\ UNCHANGED <<seen, report>>
  BY <1>c DEF Changed, DriftInv, DriftReadInv
<1>f. IsFiniteSet(moments) /\ IsFiniteSet(moments')
      /\ (Cardinality(moments) > 2 => Cardinality(moments') > 2)
  BY <1>m, MoreMoments DEF DriftInv, DriftTypes
<1>1. DriftTypes'
  <2>1. copies' \in [Copies -> Entry \cup {Missing}]
    BY DEF EditCopy, EditItem, DriftInv, DriftTypes
  <2>2. catalogue' \in [Items -> Entry \cup {Missing}]
    BY DEF EditCopy, EditItem, DriftInv, DriftTypes
  <2> QED
    BY <1>m, <1>f, <2>1, <2>2 DEF DriftInv, DriftTypes
<1>2. DriftReadInv'
  <2>1. <<copies', catalogue'>> \in moments'
    BY <1>m
  <2>2. CASE Cardinality(moments) > 2
    BY <2>1, <2>2, <1>m, <1>f DEF DriftReadInv
  <2>3. CASE <<seen, catalogue>> \in moments
    <3>1. CASE EditCopy
      BY <2>1, <2>3, <3>1, <1>m DEF EditCopy, DriftReadInv
    <3>2. CASE EditItem
      <4>0. copies' = copies
        BY <3>2 DEF EditItem
      <4>1. CASE copies = seen
        BY <2>1, <4>0, <4>1, <1>m DEF DriftReadInv
      <4>2. CASE copies # seen
        <5>0. PICK n \in Items : \E e \in Entry \cup {Missing} :
                e # catalogue[n] /\ catalogue' = [catalogue EXCEPT ![n] = e]
          BY <3>2 DEF EditItem
        <5>1. PICK e \in Entry \cup {Missing} :
                e # catalogue[n] /\ catalogue' = [catalogue EXCEPT ![n] = e]
          BY <5>0
        <5>2. catalogue'[n] = e /\ catalogue' # catalogue
          BY <5>1 DEF DriftInv, DriftTypes
        <5>3. /\ <<copies, catalogue>> \in moments'
              /\ <<seen, catalogue>> \in moments'
              /\ <<copies, catalogue'>> \in moments'
          BY <2>1, <2>3, <4>0, <1>m DEF DriftInv, DriftReadInv
        <5>4. Cardinality(moments') > 2
          BY <5>2, <5>3, <4>2, <1>f, ThreeMoments
        <5> QED
          BY <2>1, <5>4, <1>m DEF DriftReadInv
      <4> QED
        BY <4>1, <4>2
    <3> QED
      BY <3>1, <3>2
  <2> QED
    BY <2>2, <2>3, <1>m DEF DriftInv, DriftReadInv
<1>3. DriftReportInv'
  BY <1>m DEF DriftReportInv
<1> QED
  BY <1>1, <1>2, <1>3 DEF DriftInv

\* Neither a report nor an edit during it breaks the invariant.
THEOREM DriftInvNext == DriftInv /\ [DriftNext]_driftVars => DriftInv'
<1> SUFFICES ASSUME DriftInv, [DriftNext]_driftVars PROVE DriftInv'
  OBVIOUS
<1>1. CASE UNCHANGED driftVars
  BY <1>1 DEF driftVars, DriftInv, DriftTypes, DriftReadInv, DriftReportInv
<1>2. CASE DriftNext
  BY <1>2, ReadCopiesStep, ReadCatalogueStep, CatalogueFailsStep, EditStep DEF DriftNext
<1> QED
  BY <1>1, <1>2

\* The invariant holds in every reachable state.
THEOREM DriftInvariance == DriftSpec => []DriftInv
  BY DriftInvInit, DriftInvNext, PTL DEF DriftSpec

\* Whatever is edited while a report waits for the catalogue, the report is
\* true of one moment of its call, unless there were three of them.
THEOREM ReportsHonest == DriftSpec => []DriftHonest
<1>1. ASSUME DriftInv, report # Missing, ~ Cardinality(moments) > 2
      PROVE  \E m \in moments : HonestAt(m, report)
  <2>1. PICK m \in moments : report = Compared(m[1], m[2])
    BY <1>1 DEF DriftInv, DriftReportInv
  <2>2. /\ m[1] \in [Copies -> Entry \cup {Missing}]
        /\ m[2] \in [Items -> Entry \cup {Missing}]
    BY <1>1 DEF DriftInv, DriftTypes
  <2> QED
    BY <2>1, <2>2, ComparedTrue
<1>2. DriftInv => DriftHonest
  BY <1>1 DEF DriftHonest, HonestAt
<1> QED
  BY <1>2, DriftInvariance, PTL

-----------------------------------------------------------------------------
(***************************************************************************)
(* MtuCheck: a fabric that is found in order passes the same packets       *)
(* everywhere.                                                             *)
(*                                                                         *)
(* A report is computed once, from what was fetched until then, and what   *)
(* it was computed from does not change afterwards; a switch that could    *)
(* not be read is among the errors.  If the report finds nothing, the set  *)
(* of values of a role has one element; and the headroom is computed from  *)
(* the least value of the fabric, which exists because there are no        *)
(* infinite descents in the natural numbers.                               *)
(***************************************************************************)
MtuTypes ==
  /\ config \in [Links -> [Sides -> Configs]]
  /\ model \in [Links -> [Sides -> InetMtus \cup {Unknown}]]
  /\ links \subseteq Links

\* The report is that of the state it stands in.
MtuReportInv ==
  check # Unknown => links # {} /\ todo = {} /\ check = Report

\* Whoever could not be read is named.
UnreadNamed == errors = unread

MtuInv == MtuTypes /\ UnreadNamed /\ MtuReportInv
-----------------------------------------------------------------------------
LEMMA MtuAssumptions ==
  /\ InetMtus \subseteq Nat \ {0} /\ IsFiniteSet(InetMtus)
  /\ Unknown \notin Nat /\ Unknown \notin [inner : Int, assessment : {"ok", "limited", "critical"}]
  /\ Configs \subseteq [phys : Nat \cup {Unknown}, inet : InetMtus \cup {Unknown}]
  BY MtuAssumption

\* A set of natural numbers has a least element.
LEMMA LeastExists ==
  ASSUME NEW S \in SUBSET Nat, S # {}
  PROVE  Min(S) \in S /\ \A y \in S : Min(S) <= y
<1>1. PICK x \in S : \A y \in S : ~ (<<y, x>> \in OpToRel(<, Nat))
  BY NatLessThanWellFounded, WFMin
<1>2. OpToRel(<, Nat) = {p \in Nat \X Nat : p[1] < p[2]}
  BY Zenon DEF OpToRel
<1>3. \A y \in S : x <= y
  <2>1. ASSUME NEW y \in S PROVE ~ y < x
    <3>1. <<y, x>> \in Nat \X Nat
      OBVIOUS
    <3> QED
      BY <1>1, <1>2, <3>1
  <2> QED
    BY <2>1
<1> DEFINE Least(z) == \A y \in S : z <= y
<1>4. Least(x) /\ Min(S) = CHOOSE z \in S : Least(z)
  BY <1>3 DEF Min
<1> HIDE DEF Least
<1>5. Min(S) \in S /\ Least(Min(S))
  BY <1>4
<1> QED
  BY <1>5 DEF Least

\* What is in a set of at most one element is equal.
LEMMA AtMostOne ==
  ASSUME NEW S, IsFiniteSet(S), ~ Cardinality(S) > 1, NEW x \in S, NEW y \in S
  PROVE  x = y
<1>1. Cardinality(S) \in Nat /\ Cardinality(S) # 0
  BY FS_EmptySet, FS_CardinalityType
<1>2. Cardinality(S) = 1
  BY <1>1
<1>3. PICK z : S = {z}
  BY <1>2, FS_Singleton
<1> QED
  BY <1>3
-----------------------------------------------------------------------------
LEMMA MtuInvInit == MtuInit => MtuInv
  BY DEF MtuInit, MtuInv, MtuTypes, UnreadNamed, MtuReportInv

\* The parts of a report.
IssuesFound == (UNION {LinkIssues(l) : l \in links}) \cup FabricIssues
OkLinks == {l \in links : LinkIssues(l) = {}}
InetKnown == {Side(l, s).inet : l \in links, s \in Sides} \ {Unknown}

MtuParts ==
  [assessment |-> Assessment(IssuesFound),
   ok_links   |-> OkLinks,
   vxlan      |-> Headroom(Lowest(AllFabricInet)),
   ecmp_risk  |-> Cardinality(AllFabricInet) > 1,
   path       |-> Lowest(InetKnown),
   errors     |-> errors]

LEMMA MtuReportParts == Report = MtuParts
  BY DEF MtuParts, Report, IssuesFound, OkLinks, InetKnown

\* A report depends on nothing but these.
LEMMA SameMtuReport ==
  ASSUME UNCHANGED <<config, model, links, unread, errors>>
  PROVE  Report' = Report
<1>1. \A l, s : Side(l, s)' = Side(l, s)
  BY DEF Side
<1>2. \A l : LinkIssues(l)' = LinkIssues(l)
  BY <1>1 DEF LinkIssues, SideIssues
<1>3. \A r : FabricInet(r)' = FabricInet(r) /\ FabricPhys(r)' = FabricPhys(r)
  BY <1>1 DEF FabricInet, FabricPhys
<1>4. AllFabricInet' = AllFabricInet
  BY <1>3 DEF AllFabricInet
<1>5. FabricIssues' = FabricIssues
  BY <1>3 DEF FabricIssues
<1>6. InetKnown' = InetKnown
  BY <1>1 DEF InetKnown
<1>7. OkLinks' = OkLinks
  BY <1>2 DEF OkLinks
<1>8. IssuesFound' = IssuesFound
  BY <1>2, <1>5 DEF IssuesFound
<1>9. MtuParts' = MtuParts
  BY <1>4, <1>6, <1>7, <1>8 DEF MtuParts
<1>10. (Report = MtuParts)'
  BY MtuReportParts, PTL
<1> QED
  BY <1>9, <1>10, MtuReportParts

\* Nothing a report depends on changes after it.
THEOREM MtuInvNext == MtuInv /\ [MtuNext]_mtuVars => MtuInv'
<1> SUFFICES ASSUME MtuInv, [MtuNext]_mtuVars PROVE MtuInv'
  OBVIOUS
<1>1. CASE Begin
  BY <1>1 DEF Begin, MtuInv, MtuTypes, UnreadNamed, MtuReportInv
<1>2. CASE Fetch \/ FetchFails
  BY <1>2 DEF Fetch, FetchFails, MtuInv, MtuTypes, UnreadNamed, MtuReportInv
<1>3. CASE Assess
  <2>1. Report' = Report
    BY <1>3, SameMtuReport DEF Assess
  <2> QED
    BY <1>3, <2>1 DEF Assess, MtuInv, MtuTypes, UnreadNamed, MtuReportInv
<1>4. CASE UNCHANGED mtuVars
  <2>1. Report' = Report
    BY <1>4, SameMtuReport DEF mtuVars
  <2> QED
    BY <1>4, <2>1 DEF mtuVars, MtuInv, MtuTypes, UnreadNamed, MtuReportInv
<1> QED
  BY <1>1, <1>2, <1>3, <1>4 DEF MtuNext

\* The invariant holds in every reachable state.
THEOREM MtuInvariance == MtuSpec => []MtuInv
  BY MtuInvInit, MtuInvNext, PTL DEF MtuSpec
-----------------------------------------------------------------------------
\* What the check took for the inet MTU of a side is what the side carries.
LEMMA MtuValues ==
  ASSUME MtuTypes, UnreadNamed, check.errors = errors, NEW l \in links, NEW s \in Sides
  PROVE  /\ Side(l, s).inet = Carries(l, s)
         /\ Carries(l, s) \in InetMtus \cup {Unknown}
         /\ Role[l] \in FabricRoles /\ IsTold(l, s) =>
              /\ Carries(l, s) \in FabricInet(Role[l])
              /\ Carries(l, s) \in AllFabricInet
<1>1. /\ config[l][s] \in [phys : Nat \cup {Unknown}, inet : InetMtus \cup {Unknown}]
      /\ model[l][s] \in InetMtus \cup {Unknown}
  BY MtuAssumptions DEF MtuTypes
<1>2. Side(l, s).inet = Carries(l, s)
  BY DEF Side, Silent, Carries, UnreadNamed
<1>3. Carries(l, s) \in InetMtus \cup {Unknown}
  BY <1>1 DEF Carries
<1>4. ASSUME Role[l] \in FabricRoles, IsTold(l, s)
      PROVE  Carries(l, s) \in FabricInet(Role[l]) /\ Carries(l, s) \in AllFabricInet
  <2>1. Carries(l, s) \in FabricInet(Role[l])
    BY <1>2, <1>4 DEF FabricInet, IsTold
  <2> QED
    BY <1>4, <2>1 DEF AllFabricInet
<1> QED
  BY <1>2, <1>3, <1>4

LEMMA FabricInetTypes ==
  ASSUME MtuTypes, UnreadNamed, check.errors = errors
  PROVE  /\ \A r \in FabricRoles : FabricInet(r) \subseteq InetMtus /\ IsFiniteSet(FabricInet(r))
         /\ AllFabricInet \subseteq Nat
<1>1. ASSUME NEW r \in FabricRoles PROVE FabricInet(r) \subseteq InetMtus
  <2>1. \A l \in links, s \in Sides : Side(l, s).inet \in InetMtus \cup {Unknown}
    BY MtuValues
  <2> QED
    BY <2>1 DEF FabricInet
<1>2. \A r \in FabricRoles : IsFiniteSet(FabricInet(r))
  BY <1>1, MtuAssumptions, FS_Subset
<1>3. AllFabricInet \subseteq Nat
  BY <1>1, MtuAssumptions DEF AllFabricInet
<1> QED
  BY <1>1, <1>2, <1>3

\* A fabric found in order passes the same packets on all links of a role, and
\* those that fit the headroom reported pass every fabric link, as far as
\* configurations and graph tell and but for the switches named as unread.
THEOREM OkMeansCarries == MtuSpec => []OkCarries
<1>1. ASSUME MtuInv, check # Unknown, check.assessment = "ok",
             NEW l \in links, NEW s \in Sides, Role[l] \in FabricRoles, IsTold(l, s)
      PROVE  /\ \A k \in links, t \in Sides : Role[k] = Role[l] /\ IsTold(k, t) =>
                   \A size \in InetMtus : Passes(size, l, s) = Passes(size, k, t)
             /\ check.vxlan # Unknown
             /\ Passes(check.vxlan.inner + VxlanOverhead + InnerEthHeader, l, s)
  <2>0. check = Report /\ MtuTypes /\ UnreadNamed
    BY <1>1 DEF MtuInv, MtuReportInv
  <2>1. check.errors = errors
    BY <1>1, <2>0, MtuReportParts DEF MtuParts
  <2>2. FabricIssues = {}
    <3>1. check.assessment = Assessment(IssuesFound)
      BY <2>0, MtuReportParts DEF MtuParts
    <3>2. IssuesFound = {}
      BY <1>1, <3>1 DEF Assessment
    <3>3. FabricIssues \subseteq IssuesFound
      BY DEF IssuesFound
    <3> QED
      BY <3>2, <3>3
  <2>3. ASSUME NEW r \in FabricRoles PROVE ~ Cardinality(FabricInet(r)) > 1
    <3>1. When(Cardinality(FabricInet(r)) > 1, r, "fabric_inet_mtu_inconsistency", "critical") = {}
      BY <2>2 DEF FabricIssues
    <3> QED
      BY <3>1 DEF When
  <2>4. ASSUME NEW k \in links, NEW t \in Sides, Role[k] = Role[l], IsTold(k, t)
        PROVE  Carries(l, s) = Carries(k, t)
    <3>1. Carries(l, s) \in FabricInet(Role[l]) /\ Carries(k, t) \in FabricInet(Role[l])
      BY <1>1, <2>0, <2>1, <2>4, MtuValues
    <3> QED
      BY <1>1, <2>0, <2>1, <2>3, <3>1, FabricInetTypes, AtMostOne
  <2>5. \A k \in links, t \in Sides : Role[k] = Role[l] /\ IsTold(k, t) =>
          \A size \in InetMtus : Passes(size, l, s) = Passes(size, k, t)
    BY <2>4 DEF Passes
  <2>6. /\ check.vxlan # Unknown
        /\ Passes(check.vxlan.inner + VxlanOverhead + InnerEthHeader, l, s)
    <3>1. Carries(l, s) \in AllFabricInet /\ AllFabricInet \subseteq Nat
      BY <1>1, <2>0, <2>1, MtuValues, FabricInetTypes
    <3>2. Lowest(AllFabricInet) \in Nat /\ Lowest(AllFabricInet) <= Carries(l, s)
      BY <3>1, LeastExists DEF Lowest
    <3>3. check.vxlan = Headroom(Lowest(AllFabricInet))
      BY <2>0, MtuReportParts DEF MtuParts
    <3>4. /\ check.vxlan \in [inner : Int, assessment : {"ok", "limited", "critical"}]
          /\ check.vxlan.inner = Lowest(AllFabricInet) - VxlanOverhead - InnerEthHeader
      <4> DEFINE size == MaxInnerIp(Lowest(AllFabricInet))
                 grade == IF size >= 9000 THEN "ok"
                          ELSE IF size >= 1500 THEN "limited" ELSE "critical"
      <4>1. size \in Int /\ size = Lowest(AllFabricInet) - VxlanOverhead - InnerEthHeader
        BY <3>2 DEF MaxInnerIp, VxlanOverhead, InnerEthHeader
      <4>2. Lowest(AllFabricInet) # Unknown
        BY <3>2, MtuAssumptions
      <4>3. grade \in {"ok", "limited", "critical"}
        OBVIOUS
      <4>4. check.vxlan = [inner |-> size, assessment |-> grade]
        BY <3>3, <4>2 DEF Headroom
      <4> HIDE DEF size, grade
      <4> QED
        BY <4>1, <4>3, <4>4
    <3>5. check.vxlan.inner + VxlanOverhead + InnerEthHeader = Lowest(AllFabricInet)
      BY <3>2, <3>4 DEF VxlanOverhead, InnerEthHeader
    <3> QED
      BY <3>2, <3>4, <3>5, MtuAssumptions DEF Passes
  <2> QED
    BY <2>5, <2>6
<1>2. MtuInv => OkCarries
  BY <1>1 DEF OkCarries
<1> QED
  BY <1>2, MtuInvariance, PTL

(***************************************************************************)
(* RoutingPolicy: the parts of an audit are about one peer, and the term   *)
(* that a diagnosis blames is the one that decided.                        *)
(*                                                                         *)
(* A part resolves its peer anew, in a catalogue that may have changed.    *)
(* It finds one of the address of the peer of the audit, or none; one that *)
(* has the hostname is that peer, and one that has another name of the     *)
(* switch is on that switch if it has its names to itself, as is the       *)
(* switch the last part finds.  What a diagnosis says is computed          *)
(* from the routes and the terms that its result carries; where these      *)
(* terms can be evaluated, the first that matches and ends the search is   *)
(* the one the switch stopped at.                                          *)
(***************************************************************************)
\* Where a peer stands in a sorted catalogue.
PeerPosition(S, p) == Cardinality(UpTo(S, p))

LEMMA PeerTypes ==
  /\ IsFiniteSet(Peerings) /\ Null \notin Nat /\ Null \notin Range(Switches)
  /\ Len(Switches) \in Nat /\ DOMAIN Switches = 1 .. Len(Switches)
  /\ \A p \in Peerings : p.device \in Nat /\ p.ip \in Nat /\ p # Null
  /\ \A p, q \in Peerings : /\ p.device # q.serial
                            /\ p.device = q.device /\ p.ip = q.ip => p = q
  /\ DOMAIN Reasons \subseteq Routes
  BY PolicyAssumption

\* Of two peers the lower one has the lower position.
LEMMA PositionsDiffer ==
  ASSUME NEW S \in SUBSET Peerings, NEW p \in S, NEW q \in S, p # q
  PROVE  PeerPosition(S, p) # PeerPosition(S, q)
<1>0. IsFiniteSet(S)
  BY PeerTypes, FS_Subset
<1>1. \A a, b \in S : a \in UpTo(S, b) /\ a # b => PeerPosition(S, a) # PeerPosition(S, b)
  <2> SUFFICES ASSUME NEW a \in S, NEW b \in S, a \in UpTo(S, b), a # b
               PROVE  PeerPosition(S, a) # PeerPosition(S, b)
    OBVIOUS
  <2>t. \A x \in S : x.device \in Nat /\ x.ip \in Nat
    BY PeerTypes
  <2>1. UpTo(S, a) \subseteq UpTo(S, b)
    BY <2>t DEF UpTo
  <2>2. b \in UpTo(S, b) /\ b \notin UpTo(S, a)
    <3>1. ~ (a.device = b.device /\ a.ip = b.ip)
      BY PeerTypes
    <3> QED
      BY <2>t, <3>1 DEF UpTo
  <2>3. IsFiniteSet(UpTo(S, b))
    BY <1>0, FS_Subset DEF UpTo
  <2>4. UpTo(S, a) # UpTo(S, b)
    BY <2>2
  <2> QED
    BY <2>1, <2>3, <2>4, FS_Subset DEF PeerPosition
<1>2. p \in UpTo(S, q) \/ q \in UpTo(S, p)
  BY PeerTypes DEF UpTo
<1> QED
  BY <1>1, <1>2

\* A sorted catalogue has the peers of the catalogue, and each position one.
LEMMA SortedPeers ==
  ASSUME NEW S \in SUBSET Peerings
  PROVE  /\ Cardinality(S) \in Nat
         /\ DOMAIN Sorted(S) = 1 .. Cardinality(S)
         /\ Len(Sorted(S)) = Cardinality(S)
         /\ \A n \in 1 .. Cardinality(S) : Sorted(S)[n] \in S
         /\ Sorted(S) # <<>> => Cardinality(S) >= 1
<1>0. IsFiniteSet(S) /\ Cardinality(S) \in Nat
  BY PeerTypes, FS_Subset, FS_CardinalityType
<1> DEFINE N == Cardinality(S)
           T == 1 .. N
           pos == [p \in S |-> PeerPosition(S, p)]
           image == {pos[p] : p \in S}
<1>1. \A p \in S : pos[p] \in T
  <2> SUFFICES ASSUME NEW p \in S PROVE PeerPosition(S, p) \in T
    OBVIOUS
  <2>1. p \in UpTo(S, p) /\ UpTo(S, p) \subseteq S
    BY PeerTypes DEF UpTo
  <2>2. IsFiniteSet(UpTo(S, p)) /\ Cardinality(UpTo(S, p)) <= Cardinality(S)
        /\ Cardinality(UpTo(S, p)) \in Nat /\ Cardinality(UpTo(S, p)) # 0
    BY <1>0, <2>1, FS_Subset, FS_CardinalityType, FS_EmptySet
  <2> QED
    BY <1>0, <2>2 DEF PeerPosition
<1>2. IsFiniteSet(T) /\ Cardinality(T) = N
  BY <1>0, FS_Interval
<1>3. image \subseteq T
  BY <1>1
<1>4. pos \in Bijection(S, image)
  <2>1. pos \in [S -> image]
    OBVIOUS
  <2>2. \A p, q \in S : pos[p] = pos[q] => p = q
    BY PositionsDiffer
  <2>3. \A t \in image : \E p \in S : pos[p] = t
    OBVIOUS
  <2> HIDE DEF pos, image
  <2> QED
    BY <2>1, <2>2, <2>3 DEF Bijection, Injection, Surjection, IsInjective
<1>5. IsFiniteSet(image) /\ Cardinality(image) = N
  BY <1>0, <1>4, FS_Bijection DEF ExistsBijection
<1>6. image = T
  BY <1>2, <1>3, <1>5, FS_Subset
<1>7. \A n \in T : \E p \in S : PeerPosition(S, p) = n
  BY <1>6
<1>8. \A n \in T : Sorted(S)[n] \in S
  BY <1>7 DEF Sorted, PeerPosition
<1>9. DOMAIN Sorted(S) = T /\ Len(Sorted(S)) = N
  BY <1>0 DEF Sorted
<1>10. Sorted(S) # <<>> => N >= 1
  <2> SUFFICES ASSUME N = 0 PROVE Sorted(S) = <<>>
    BY <1>0
  <2> QED
    BY DEF Sorted
<1> QED
  BY <1>0, <1>8, <1>9, <1>10
-----------------------------------------------------------------------------
\* What the parts of an audit may be.
AuditedParts == {"peer_summary", "explain_policy", "diagnose_hidden_routes", "compare_rib",
                 "resolve_next_hop"}

LEMMA AuditPartsAre ==
  /\ Head(PeerParts) = "peer_summary"
  /\ \A hop : Tail(AuditParts(hop)) \in Seq(AuditedParts)
<1>1. AuditedParts # {} /\ PeerParts \in Seq(AuditedParts) /\ Len(PeerParts) = 4
  BY DEF AuditedParts, PeerParts
<1>2. Head(PeerParts) = "peer_summary"
  BY DEF PeerParts
<1>3. "resolve_next_hop" \in AuditedParts
  BY DEF AuditedParts
<1>4. ASSUME NEW hop PROVE Tail(AuditParts(hop)) \in Seq(AuditedParts)
  <2>1. AuditParts(hop) \in Seq(AuditedParts) /\ Len(AuditParts(hop)) >= 1
    BY <1>1, <1>3 DEF AuditParts
  <2> QED
    BY <2>1, SMT
<1> QED
  BY <1>2, <1>4

\* The last of a set of positions.
LEMMA LastExists ==
  ASSUME NEW n \in Nat, NEW S \in SUBSET (1 .. n), S # {}
  PROVE  Max(S) \in S
<1> DEFINE Above == {m \in Nat : \A j \in S : j <= m}
           m == Min(Above)
<1>1. n \in Above
  OBVIOUS
<1>2. m \in Above /\ \A k \in Above : m <= k
  BY <1>1, LeastExists
<1> HIDE DEF m
<1>3. m \in S
  <2> SUFFICES ASSUME m \notin S PROVE FALSE
    OBVIOUS
  <2>1. \A j \in S : j \in Nat /\ j >= 1 /\ j <= m /\ j # m
    BY <1>2
  <2>m. m \in Nat /\ \E j \in S : j >= 1 /\ j <= m
    BY <1>2, <2>1
  <2>2. m - 1 \in Nat /\ \A j \in S : j <= m - 1
    BY <2>1, <2>m
  <2>3. m - 1 \in Above
    BY <2>2
  <2> HIDE DEF Above
  <2> QED
    BY <1>2, <2>m, <2>3
<1>4. \A j \in S : m >= j
  BY <1>2
<1> QED
  BY <1>3, <1>4 DEF Max

\* A switch that a name resolves to is one of the fabric and has that name.
LEMMA KnownHasName ==
  ASSUME NEW systems \in {Switches, <<>>}, NEW name, Known(systems, name) # Null
  PROVE  Known(systems, name) \in Range(Switches) /\ name \in Names(Known(systems, name))
<1> DEFINE named == {i \in DOMAIN systems : name \in Names(systems[i])}
<1>1. named # {} /\ Known(systems, name) = systems[Max(named)]
  BY DEF Known
<1>2. systems = Switches
  BY <1>1
<1>3. named \in SUBSET (1 .. Len(Switches))
  BY <1>2, PeerTypes
<1>4. Max(named) \in named
  BY <1>1, <1>3, PeerTypes, LastExists
<1> QED
  BY <1>1, <1>2, <1>4 DEF Range

LEMMA ErrorsAreNone == \A e \in Errors : e # Null
  BY PolicyAssumption

\* What the resolution of a peer finds is a peer the filter leaves, with a serial.
LEMMA ResolvedIsFiltered ==
  ASSUME NEW systems, NEW S \in SUBSET Peerings, NEW device, NEW ip,
         Resolved(systems, S, device, ip).error = Null
  PROVE  /\ Resolved(systems, S, device, ip).target \in Filtered(systems, S, device, ip)
         /\ Resolved(systems, S, device, ip).target.serial # Null
<1> DEFINE F == Filtered(systems, S, device, ip)
           found == Sorted(F)
<1>1. F \in SUBSET Peerings
  BY DEF Filtered
<1>2. Null \notin Errors
  BY PolicyAssumption
<1>3. /\ found # <<>> /\ found[1].serial # Null
      /\ Resolved(systems, S, device, ip).target = found[1]
  BY <1>2 DEF Resolved, Errors
<1>4. found # <<>> => found[1] \in F
  BY <1>1, SortedPeers
<1> QED
  BY <1>3, <1>4

\* The first of a page of one is the first of the list.
LEMMA PageOfOne ==
  ASSUME NEW S \in SUBSET Peerings, Page(Sorted(S), 0, 1).items # <<>>
  PROVE  Page(Sorted(S), 0, 1).items[1] \in S
<1> DEFINE items == Sorted(S)
           n == Min({0 + 1, Len(items)})
           page == SubSeq(items, 0 + 1, n)
<1>1. Len(items) \in Nat /\ DOMAIN items = 1 .. Len(items)
      /\ \A k \in 1 .. Len(items) : items[k] \in S
  BY SortedPeers
<1> HIDE DEF items
<1>2. Page(Sorted(S), 0, 1).items = page
  BY Zenon DEF Page, items
<1>3. n = IF Len(items) = 0 THEN 0 ELSE 1
  BY <1>1 DEF Min
<1> HIDE DEF n
<1>4. CASE Len(items) = 0
  <2>1. page = <<>>
    BY <1>1, <1>3, <1>4
  <2> QED
    BY <1>2, <2>1
<1>5. CASE Len(items) # 0
  <2>1. page[1] = items[1]
    BY <1>1, <1>3, <1>5
  <2>2. items[1] \in S
    BY <1>1, <1>5
  <2> HIDE DEF page
  <2> QED
    BY <1>2, <2>1, <2>2
<1> QED
  BY <1>4, <1>5

\* What is asked is the address of peer a and, if its switch has its names to
\* itself, that switch.
Tells(t, a) == t.ip = a.ip /\ (NamesTell(a) => t.serial = a.serial)

\* A filter by a switch's name and an address leaves that peer.
LEMMA FilterTells ==
  ASSUME NEW systems \in {Switches, <<>>}, NEW S \in SUBSET Peerings, NEW a \in Peerings,
         NEW p \in Filtered(systems, S, a.device, a.ip)
  PROVE  Tells(p, a)
<1>1. p \in Peerings /\ a.device \in Nat /\ a.ip \in Nat /\ a.device # p.serial
  BY PeerTypes DEF Filtered
<1>2. {p.device, p.serial} \cap CalledAs(systems, a.device) # {} /\ p.ip = a.ip
  BY <1>1, PeerTypes DEF Filtered
<1>3. CASE p.device = a.device
  BY <1>1, <1>2, <1>3, PeerTypes DEF Tells
<1>4. CASE p.device # a.device
  <2> DEFINE s == Known(systems, a.device)
  <2>1. s # Null /\ {p.device, p.serial} \cap Names(s) # {}
    BY <1>1, <1>2, <1>4 DEF CalledAs
  <2>2. s \in Range(Switches) /\ a.device \in Names(s)
    BY <2>1, KnownHasName
  <2> HIDE DEF s
  <2>3. NamesTell(a) => p.serial = a.serial
    BY <1>1, <2>1, <2>2 DEF NamesTell
  <2> QED
    BY <1>2, <2>3 DEF Tells
<1> QED
  BY <1>3, <1>4

\* The commands for a switch that has a serial run there.
LEMMA RunsThere ==
  ASSUME NEW s, s.serial # Null
  PROVE  RunsOn(s) = s.serial
  BY DEF RunsOn

-----------------------------------------------------------------------------
\* Where the tool can read all of a policy it finds the deciding term.
LEMMA ResponsibleIsFate ==
  ASSUME NEW terms, NEW p \in Routes, Readable(terms)
  PROVE  Responsible(terms, p) = IF Rejects(terms, p) THEN Fate(terms, p) ELSE 0
<1>1. \A i \in DOMAIN terms : TermMatches(terms[i], p) <=> Matches(terms[i], p)
  BY DEF TermMatches, Matches, Readable, Unrestricted
<1>2. \A i : ~ Passed(terms, p, i)
  BY DEF Passed, Readable
<1>3. {i \in DOMAIN terms : TermMatches(terms[i], p) /\ terms[i].action \in {"accept", "reject"}}
        = Deciding(terms, p)
  BY <1>1, <1>2 DEF Deciding
<1> DEFINE D == Deciding(terms, p)
<1>4. Responsible(terms, p) =
        IF D = {} THEN 0 ELSE IF terms[Min(D)].action = "reject" THEN Min(D) ELSE 0
  BY <1>3 DEF Responsible
<1> HIDE DEF D
<1>5. Fate(terms, p) = IF D = {} THEN 0 ELSE Min(D)
  BY DEF Fate, D
<1> QED
  BY <1>4, <1>5 DEF Rejects
-----------------------------------------------------------------------------
CallFields == {"part", "device", "ip", "hop", "audited", "todo", "stage", "systems", "catalogue",
               "target", "rounds", "out", "asOf"}
OutFields == {"routes", "names", "terms", "received", "active", "table", "global"}

\* What is read and printed is of the fabric.
CallInv ==
  /\ peerings \subseteq Peerings
  /\ call # NoCall => /\ CallFields \subseteq DOMAIN call
                    /\ OutFields \subseteq DOMAIN call.out
                    /\ call.out.routes \subseteq Routes
                    /\ call.catalogue \subseteq Peerings
                    /\ call.systems \in {Switches, <<>>}

\* A diagnosis is that of the routes and the terms it names.
Judged(r) ==
  r.part = "diagnose_hidden_routes" /\ r.error = Null =>
    r.out.routes \subseteq Routes /\ r.said = Diagnosed(r.out.routes, r.out.terms)

\* A part of an audit is about peer a, or found nothing to be about.
About(r, a) == r.target # Null => Tells(r.target, a)

PartsInv ==
  /\ Len(parts) \in Nat /\ DOMAIN parts = 1 .. Len(parts)
  /\ \A k \in DOMAIN parts : Judged(parts[k])

\* A part of an audit was started with the switch and the address of the peer
\* audited; a call that is not part of one has no other parts.
AuditInv ==
  call # NoCall =>
    \/ call.audited = Null /\ call.todo = <<>> /\ parts = <<>>
    \/ /\ call.audited \in Peerings /\ call.audited.serial # Null
       /\ call.device = call.audited.device /\ call.ip = call.audited.ip
       /\ call.part \in AuditedParts /\ call.todo \in Seq(AuditedParts)
       /\ call.target # Null => Tells(call.target, call.audited)
       /\ \A k \in DOMAIN parts : About(parts[k], call.audited)

VerdictInv ==
  /\ call = NoCall /\ verdict = NoVerdict => parts = <<>>
  /\ verdict # NoVerdict =>
       /\ call = NoCall
       /\ \A k \in DOMAIN verdict.parts :
            /\ Judged(verdict.parts[k])
            /\ verdict.about # Null => About(verdict.parts[k], verdict.about)

PolicyInv == CallInv /\ PartsInv /\ AuditInv /\ VerdictInv
-----------------------------------------------------------------------------
LEMMA PolicyInvInit == PolicyInit => PolicyInv
<1> SUFFICES ASSUME PolicyInit PROVE PolicyInv
  OBVIOUS
<1>1. parts = <<>> /\ call = NoCall /\ verdict = NoVerdict /\ peerings \subseteq Peerings
  BY DEF PolicyInit
<1>2. PartsInv
  BY <1>1 DEF PartsInv
<1> QED
  BY <1>1, <1>2 DEF PolicyInv, CallInv, AuditInv, VerdictInv

\* A call is never mistaken for none.
LEMMA CallsAreCalls ==
  ASSUME NEW c, CallFields \subseteq DOMAIN c
  PROVE  c # NoCall
  BY DEF CallFields, NoCall

LEMMA StartedIs ==
  ASSUME NEW part, NEW device, NEW ip, NEW hop, NEW audited, NEW rest
  PROVE  LET c == Started(part, device, ip, hop, audited, rest)
         IN  /\ CallFields \subseteq DOMAIN c /\ OutFields \subseteq DOMAIN c.out
             /\ c.out.routes \subseteq Routes /\ c.catalogue \subseteq Peerings
             /\ c.systems \in {Switches, <<>>}
             /\ c.part = part /\ c.device = device /\ c.ip = ip /\ c.audited = audited
             /\ c.todo = rest /\ c.target = Null
  BY DEF Started, CallFields, OutFields, NoOutput

LEMMA AskStep ==
  ASSUME PolicyInv, Ask
  PROVE  PolicyInv'
<1>1. PICK part, device, ip, hop : call' = Started(part, device, ip, hop, Null, <<>>)
  BY DEF Ask
<1>2. call = NoCall /\ verdict = NoVerdict /\ UNCHANGED <<peerings, chain, parts, verdict, changes>>
  BY DEF Ask
<1>3. CallInv'
  BY <1>1, <1>2, StartedIs DEF PolicyInv, CallInv
<1>4. AuditInv'
  BY <1>1, <1>2, StartedIs DEF PolicyInv, VerdictInv, AuditInv
<1>5. PartsInv' /\ VerdictInv'
  BY <1>2 DEF PolicyInv, PartsInv, VerdictInv, Judged, About
<1> QED
  BY <1>3, <1>4, <1>5 DEF PolicyInv

LEMMA AskWithoutHopStep ==
  ASSUME PolicyInv, AskWithoutHop
  PROVE  PolicyInv'
<1>1. /\ call = NoCall /\ parts = <<>> /\ UNCHANGED <<peerings, chain, call, parts, changes>>
      /\ verdict' = [error |-> "next_hop_ip_required", about |-> Null, parts |-> <<>>]
  BY DEF AskWithoutHop, PolicyInv, VerdictInv
<1>2. verdict'.about = Null /\ DOMAIN verdict'.parts = {}
  BY <1>1
<1>3. VerdictInv'
  BY <1>1, <1>2 DEF VerdictInv
<1> QED
  BY <1>1, <1>3 DEF PolicyInv, CallInv, PartsInv, AuditInv, Judged, About

\* A step within a part: who it is about, and what its parts said, stays.
LEMMA StepWithinPart ==
  ASSUME PolicyInv, call # NoCall, UNCHANGED <<parts, verdict>>,
         peerings' \subseteq Peerings,
         CallFields \subseteq DOMAIN call', OutFields \subseteq DOMAIN call'.out,
         call'.out.routes \subseteq Routes, call'.catalogue \subseteq Peerings,
         call'.systems \in {Switches, <<>>},
         UNCHANGED <<call.audited, call.device, call.ip, call.part, call.todo>>,
         call'.target # Null /\ call.audited # Null => Tells(call'.target, call.audited)
  PROVE  PolicyInv'
<1>1. call' # NoCall
  BY CallsAreCalls
<1>2. CallInv'
  BY DEF CallInv
<1>3. AuditInv'
  BY PeerTypes DEF PolicyInv, AuditInv, About
<1>4. PartsInv'
  BY DEF PolicyInv, PartsInv, Judged
<1>5. VerdictInv'
  BY <1>1 DEF PolicyInv, VerdictInv, Judged, About
<1> QED
  BY <1>2, <1>3, <1>4, <1>5 DEF PolicyInv

LEMMA ReadContextStep ==
  ASSUME PolicyInv, ReadContext
  PROVE  PolicyInv'
<1>1. PICK systems \in {Switches, <<>>}, listed \in {peerings, {}} :
        call' = [call EXCEPT !.stage = "resolve", !.systems = systems, !.catalogue = listed]
  BY DEF ReadContext
<1>2. call # NoCall /\ UNCHANGED <<peerings, chain, parts, verdict>>
  BY DEF ReadContext
<1>3. /\ CallFields \subseteq DOMAIN call'
      /\ call'.catalogue = listed /\ call'.systems = systems
      /\ UNCHANGED <<call.out, call.audited, call.device, call.ip, call.part, call.todo, call.target>>
  BY <1>1, <1>2 DEF PolicyInv, CallInv, CallFields
<1>4. call.target # Null /\ call.audited # Null => Tells(call.target, call.audited)
  BY <1>2 DEF PolicyInv, AuditInv
<1>5. OutFields \subseteq DOMAIN call'.out /\ call'.out.routes \subseteq Routes
      /\ call'.catalogue \subseteq Peerings /\ peerings' \subseteq Peerings
  BY <1>2, <1>3 DEF PolicyInv, CallInv
<1> QED
  BY <1>2, <1>3, <1>4, <1>5, StepWithinPart

LEMMA RunCommandsStep ==
  ASSUME PolicyInv, RunCommands
  PROVE  PolicyInv'
<1>1. call # NoCall /\ UNCHANGED <<peerings, chain, parts, verdict>>
  BY DEF RunCommands
<1>c. CallFields \subseteq DOMAIN call /\ OutFields \subseteq DOMAIN call.out
      /\ call.out.routes \subseteq Routes /\ call.catalogue \subseteq Peerings
      /\ peerings \subseteq Peerings /\ call.systems \in {Switches, <<>>}
  BY <1>1 DEF PolicyInv, CallInv
<1>2. \A round : \A o \in Printed(round) : OutFields \subseteq DOMAIN o /\ o.routes \subseteq Routes
  <2> SUFFICES ASSUME NEW round, NEW o \in Printed(round)
               PROVE  OutFields \subseteq DOMAIN o /\ o.routes \subseteq Routes
    OBVIOUS
  <2> DEFINE terms == chain[call.target.device]
  <2>1. Hidden(terms) \subseteq Routes
    BY PeerTypes DEF Hidden, HiddenBy
  <2> HIDE DEF terms
  <2>2. CASE round = "routes"
    <3>1. o = [call.out EXCEPT !.routes = Hidden(terms)]
      BY <2>2 DEF Printed, terms
    <3> QED
      BY <1>c, <2>1, <3>1 DEF OutFields
  <2>3. CASE round # "routes"
    <3>1. CASE round = "names"
      <4>1. PICK x : o = [call.out EXCEPT !.names = x]
        BY <3>1 DEF Printed
      <4> QED
        BY <1>c, <4>1 DEF OutFields
    <3>2. CASE round = "terms"
      <4>1. PICK x : o = [call.out EXCEPT !.terms = x]
        BY <3>2 DEF Printed
      <4> QED
        BY <1>c, <4>1 DEF OutFields
    <3>3. CASE round \in {"received", "counts"}
      <4>0. Printed(round) = {[call.out EXCEPT !.received = Cardinality(Routes),
                                 !.active = Cardinality(Routes \ Hidden(terms))]}
        BY <3>3 DEF Printed, terms
      <4>1. o = [call.out EXCEPT !.received = Cardinality(Routes),
                                 !.active = Cardinality(Routes \ Hidden(terms))]
        BY <4>0
      <4> QED
        BY <1>c, <4>1 DEF OutFields
    <3>4. CASE round \notin {"routes", "names", "terms", "received", "counts"}
      <4>0. Printed(round) = {[call.out EXCEPT !.table = at[1], !.global = at[2]] : at \in BOOLEAN \X BOOLEAN}
        BY <3>4 DEF Printed
      <4>1. PICK at \in BOOLEAN \X BOOLEAN : o = [call.out EXCEPT !.table = at[1], !.global = at[2]]
        BY <4>0
      <4> QED
        BY <1>c, <4>1 DEF OutFields
    <3> QED
      BY <2>3, <3>1, <3>2, <3>3, <3>4
  <2> QED
    BY <2>2, <2>3
<1>3. /\ CallFields \subseteq DOMAIN call'
      /\ OutFields \subseteq DOMAIN call'.out /\ call'.out.routes \subseteq Routes
      /\ UNCHANGED <<call.catalogue, call.systems, call.audited, call.device, call.ip, call.part, call.todo, call.target>>
  <2>1. CASE \E printed \in Printed(Head(call.rounds)) :
               call' = [call EXCEPT !.rounds = Tail(@), !.out = printed,
                          !.asOf = IF Head(call.rounds) = "routes" THEN chain[call.target.device] ELSE @]
    BY <1>c, <1>2, <2>1 DEF CallFields
  <2>2. CASE call' = [call EXCEPT !.rounds = Tail(@)]
    BY <1>c, <2>2 DEF CallFields
  <2> QED
    BY <2>1, <2>2 DEF RunCommands
<1>4. call.target # Null /\ call.audited # Null => Tells(call.target, call.audited)
  BY <1>1 DEF PolicyInv, AuditInv
<1> QED
  BY <1>1, <1>c, <1>3, <1>4, StepWithinPart

LEMMA ChangeFabricStep ==
  ASSUME PolicyInv, ChangeFabric
  PROVE  PolicyInv'
<1>1. UNCHANGED <<call, parts, verdict>> /\ peerings' \subseteq Peerings
  BY DEF ChangeFabric, PolicyInv, CallInv
<1> QED
  BY <1>1 DEF PolicyInv, CallInv, PartsInv, AuditInv, VerdictInv, Judged, About

\* A part ends: what it said is added, and the next one is about the same peer.
LEMMA ConcludedStep ==
  ASSUME PolicyInv, call # NoCall, UNCHANGED peerings,
         NEW r, Concluded(r), Judged(r),
         call.audited # Null => About(r, call.audited)
  PROVE  PolicyInv'
<1>1. /\ Len(parts) \in Nat /\ DOMAIN parts = 1 .. Len(parts)
      /\ parts' = Append(parts, r)
  BY DEF Concluded, PolicyInv, PartsInv
<1>2. /\ Len(parts') = Len(parts) + 1
      /\ DOMAIN parts' = 1 .. Len(parts')
      /\ \A k \in DOMAIN parts' : 
           \/ parts'[k] = r
           \/ k \in DOMAIN parts /\ parts'[k] = parts[k]
  <2> HIDE DEF Concluded
  <2> QED
    BY <1>1
<1>3. PartsInv'
  BY <1>1, <1>2 DEF PolicyInv, PartsInv, Judged
<1>a. call.audited # Null => /\ call.audited \in Peerings
                             /\ \A k \in DOMAIN parts : About(parts[k], call.audited)
  BY DEF PolicyInv, AuditInv
<1>4. call.audited # Null => \A k \in DOMAIN parts' : About(parts'[k], call.audited)
  BY <1>2, <1>a
<1>5. verdict = NoVerdict
  BY DEF PolicyInv, VerdictInv
<1>6. CASE call.todo = <<>>
  <2>1. /\ call' = NoCall
        /\ verdict' = [error |-> Null, about |-> call.audited, parts |-> parts']
    BY <1>6 DEF Concluded
  <2>2. verdict'.parts = parts' /\ verdict'.about = call.audited /\ verdict' # NoVerdict
    BY <2>1 DEF NoVerdict
  <2>3. CallInv' /\ AuditInv'
    BY <2>1 DEF PolicyInv, CallInv, AuditInv
  <2>4. VerdictInv'
    BY <1>3, <1>4, <2>1, <2>2 DEF VerdictInv, PartsInv, Judged, About
  <2> QED
    BY <1>3, <2>3, <2>4 DEF PolicyInv
<1>7. CASE call.todo # <<>>
  <2>1. /\ call' = Started(Head(call.todo), call.device, call.ip, call.hop, call.audited, Tail(call.todo))
        /\ UNCHANGED verdict
    BY <1>7 DEF Concluded
  <2>2. /\ call.audited \in Peerings /\ call.audited # Null /\ call.audited.serial # Null
        /\ call.device = call.audited.device /\ call.ip = call.audited.ip
        /\ call.todo \in Seq(AuditedParts)
    BY <1>7, PeerTypes DEF PolicyInv, AuditInv
  <2>3. Head(call.todo) \in AuditedParts /\ Tail(call.todo) \in Seq(AuditedParts)
    BY <1>7, <2>2
  <2>4. CallInv' /\ call' # NoCall
    BY <2>1, StartedIs, CallsAreCalls DEF PolicyInv, CallInv
  <2>5. AuditInv'
    <3>1. /\ call'.audited = call.audited /\ call'.device = call.device /\ call'.ip = call.ip
          /\ call'.part = Head(call.todo) /\ call'.todo = Tail(call.todo) /\ call'.target = Null
      BY <2>1, StartedIs
    <3> QED
      BY <1>4, <2>2, <2>3, <3>1 DEF AuditInv, About
  <2>6. VerdictInv'
    BY <1>5, <2>1, <2>4 DEF VerdictInv
  <2> QED
    BY <1>3, <2>4, <2>5, <2>6 DEF PolicyInv
<1> QED
  BY <1>6, <1>7

LEMMA ConcludeStep ==
  ASSUME PolicyInv, Conclude
  PROVE  PolicyInv'
<1> DEFINE r == Result(Null, call.target, Said)
<1>1. call # NoCall /\ UNCHANGED peerings /\ Concluded(r)
  BY DEF Conclude
<1>2. r.part = call.part /\ r.target = call.target /\ r.said = Said /\ r.out = call.out
  BY DEF Result
<1> HIDE DEF r
<1>3. Judged(r)
  BY <1>1, <1>2 DEF Judged, Said, PolicyInv, CallInv
<1>4. call.audited # Null => About(r, call.audited)
  BY <1>1, <1>2 DEF PolicyInv, AuditInv, About
<1> QED
  BY <1>1, <1>3, <1>4, ConcludedStep

LEMMA ResolveStep ==
  ASSUME PolicyInv, Resolve
  PROVE  PolicyInv'
<1>1. call # NoCall /\ UNCHANGED <<peerings, chain, changes>>
  BY DEF Resolve
<1>c. /\ CallFields \subseteq DOMAIN call /\ OutFields \subseteq DOMAIN call.out
      /\ call.out.routes \subseteq Routes /\ call.catalogue \subseteq Peerings
      /\ peerings \subseteq Peerings /\ call.systems \in {Switches, <<>>}
  BY <1>1 DEF PolicyInv, CallInv
<1>a. call.audited # Null => /\ call.audited \in Peerings /\ call.audited.serial # Null
                             /\ call.device = call.audited.device /\ call.ip = call.audited.ip
                             /\ call.part \in AuditedParts
  BY <1>1 DEF PolicyInv, AuditInv
<1>n. call.audited = Null => parts = <<>> /\ call.todo = <<>>
  BY <1>1, PeerTypes DEF PolicyInv, AuditInv
<1> DEFINE Filters == Filtered(call.systems, call.catalogue, call.device, call.ip)
<1>f. Filters \subseteq Peerings /\ \A p \in Filters : call.audited # Null => Tells(p, call.audited)
  <2>1. Filters \subseteq Peerings
    BY <1>c DEF Filtered
  <2> QED
    BY <1>a, <1>c, <2>1, FilterTells
<1> HIDE DEF Filters
\* The part goes on to its commands.
<1>r. ASSUME NEW p, call.audited # Null => Tells(p, call.audited), UNCHANGED <<parts, verdict>>,
             call' = [call EXCEPT !.stage = "run", !.target = p, !.rounds = Rounds(call.part)]
      PROVE  PolicyInv'
  <2>1. /\ CallFields \subseteq DOMAIN call' /\ call'.target = p
        /\ UNCHANGED <<call.out, call.catalogue, call.systems, call.audited, call.device, call.ip, call.part, call.todo>>
    BY <1>r, <1>c DEF CallFields
  <2> QED
    BY <1>1, <1>c, <1>r, <2>1, StepWithinPart
<1> DEFINE page == Page(Listed, 0, 1).items
<1>2. CASE ListsPeers
  <2>1. CASE page = <<>> \/ call.part = "discover" \/ page[1].serial = Null
    <3> DEFINE r == Result(Null, Null, page)
    <3>1. Concluded(r)
      BY <1>2, <2>1 DEF Resolve
    <3>2. r.part = call.part /\ r.target = Null
      BY DEF Result
    <3> HIDE DEF r, page
    <3>3. Judged(r) /\ About(r, call.audited)
      BY <1>2, <3>2 DEF Judged, About, ListsPeers
    <3> QED
      BY <1>1, <3>1, <3>3, ConcludedStep
  <2>2. CASE ~ (page = <<>> \/ call.part = "discover" \/ page[1].serial = Null)
    <3>1. /\ call' = [call EXCEPT !.stage = "run", !.target = page[1], !.rounds = Rounds(call.part)]
          /\ UNCHANGED <<parts, verdict>>
      BY <1>2, <2>2 DEF Resolve
    <3>2. Listed = Sorted(Filters)
      BY <2>2 DEF Listed, Filters
    <3>3. page # <<>>
      BY <2>2
    <3>4. page[1] \in Filters
      BY <1>f, <3>2, <3>3, PageOfOne
    <3> HIDE DEF page
    <3>5. call.audited # Null => Tells(page[1], call.audited)
      BY <1>f, <3>4
    <3> QED
      BY <3>1, <3>5, <1>r
  <2> HIDE DEF page
  <2> QED
    BY <2>1, <2>2
<1>3. CASE ~ ListsPeers /\ Target.error # Null
  <2>1. CASE call.audited # Null
    <3> DEFINE r == Result(Target.error, Null, <<>>)
    <3>1. Concluded(r)
      BY <1>3, <2>1 DEF Resolve
    <3>2. r.error # Null /\ r.target = Null
      BY <1>3 DEF Result
    <3> HIDE DEF r
    <3>3. Judged(r) /\ About(r, call.audited)
      BY <3>2 DEF Judged, About
    <3> QED
      BY <1>1, <3>1, <3>3, ConcludedStep
  <2>2. CASE call.audited = Null
    <3>1. /\ verdict' = [error |-> Target.error, about |-> Null, parts |-> <<>>]
          /\ call' = NoCall /\ UNCHANGED parts
      BY <1>3, <2>2 DEF Resolve
    <3>2. verdict'.about = Null /\ DOMAIN verdict'.parts = {}
      BY <3>1
    <3>3. VerdictInv'
      BY <1>n, <2>2, <3>1, <3>2 DEF VerdictInv
    <3>4. PartsInv'
      BY <3>1 DEF PolicyInv, PartsInv, Judged
    <3> QED
      BY <1>1, <3>1, <3>3, <3>4 DEF PolicyInv, CallInv, AuditInv
  <2> QED
    BY <2>1, <2>2
<1>4. CASE ~ ListsPeers /\ ~ (Target.error # Null) /\ call.part = "full_audit"
  <2> DEFINE a == Target.target
  <2>1. /\ call' = Started(Head(PeerParts), a.device, a.ip, call.hop, a, Tail(AuditParts(call.hop)))
        /\ UNCHANGED <<parts, verdict>>
    BY <1>4 DEF Resolve
  <2>2. a \in Filters /\ a.serial # Null
    <3>1. Target = Resolved(call.systems, call.catalogue, call.device, call.ip)
      BY <1>4 DEF Target, Peer
    <3> QED
      BY <1>4, <1>c, <3>1, ResolvedIsFiltered DEF Filters
  <2> HIDE DEF a
  <2>3. a \in Peerings /\ parts = <<>>
    BY <1>4, <1>a, <1>f, <1>n, <2>2 DEF AuditedParts
  <2>4. CallInv' /\ call' # NoCall
    BY <1>1, <1>c, <2>1, StartedIs, CallsAreCalls DEF CallInv
  <2>5. AuditInv'
    <3>1. /\ call'.audited = a /\ call'.device = a.device /\ call'.ip = a.ip
          /\ call'.part = Head(PeerParts) /\ call'.todo = Tail(AuditParts(call.hop))
          /\ call'.target = Null
      BY <2>1 DEF Started
    <3>2. DOMAIN parts' = {}
      BY <2>1, <2>3
    <3> QED
      BY <2>2, <2>3, <3>1, <3>2, AuditPartsAre DEF AuditInv, AuditedParts
  <2>6. PartsInv' /\ VerdictInv'
    BY <1>1, <2>1, <2>4 DEF PolicyInv, PartsInv, VerdictInv, Judged
  <2> QED
    BY <2>4, <2>5, <2>6 DEF PolicyInv
<1>5. CASE ~ ListsPeers /\ ~ (Target.error # Null) /\ call.part # "full_audit"
  <2>1. /\ call' = [call EXCEPT !.stage = "run", !.target = Target.target, !.rounds = Rounds(call.part)]
        /\ UNCHANGED <<parts, verdict>>
    BY <1>5 DEF Resolve
  <2>2. ASSUME call.audited # Null PROVE Tells(Target.target, call.audited)
    <3> DEFINE a == call.audited
    <3>p. ASSUME Peer.error = Null
          PROVE  Tells(Peer.target, a) /\ Peer.target.serial # Null
      BY <1>c, <1>f, <2>2, <3>p, ResolvedIsFiltered DEF Peer, Filters
    <3>1. CASE call.part # "resolve_next_hop"
      <4>1. Target = Peer
        BY <3>1 DEF Target
      <4> QED
        BY <1>5, <3>p, <4>1
    <3>2. CASE call.part = "resolve_next_hop"
      <4> DEFINE s == HopSwitch
      <4>1. s # Null /\ Target.target = [device |-> s.hostname, serial |-> RunsOn(s), ip |-> call.ip]
        <5>1. CASE s = Null
          <6>1. Target.error = "device_required"
            BY <3>2, <5>1 DEF Target
          <6> QED
            BY <1>5, <6>1, ErrorsAreNone DEF Errors
        <5>2. CASE s # Null
          BY <3>2, <5>2 DEF Target
        <5> QED
          BY <5>1, <5>2
      <4>2. ASSUME NamesTell(a) PROVE s.serial = a.serial
        <5>1. CASE Known(call.systems, call.device) # Null
          <6>1. s = Known(call.systems, call.device)
            BY <5>1 DEF HopSwitch
          <6>2. s \in Range(Switches) /\ a.device \in Names(s)
            BY <1>a, <1>c, <2>2, <5>1, <6>1, KnownHasName
          <6> HIDE DEF s
          <6> QED
            BY <4>2, <6>2 DEF NamesTell
        <5>2. CASE Known(call.systems, call.device) = Null
          <6>1. Peer.error = Null /\ s = Known(call.systems, Peer.target.serial)
            BY <4>1, <5>2 DEF HopSwitch
          <6>2. Peer.target.serial = a.serial
            BY <3>p, <4>2, <6>1 DEF Tells
          <6>3. s \in Range(Switches) /\ a.serial \in Names(s)
            BY <1>c, <4>1, <6>1, <6>2, KnownHasName
          <6> HIDE DEF s
          <6> QED
            BY <4>2, <6>3 DEF NamesTell
        <5> QED
          BY <5>1, <5>2
      <4> HIDE DEF s
      <4>3. NamesTell(a) => RunsOn(s) = a.serial
        BY <1>a, <2>2, <4>2, RunsThere
      <4> QED
        BY <1>a, <2>2, <4>1, <4>3 DEF Tells
    <3> QED
      BY <3>1, <3>2
  <2> QED
    BY <2>1, <2>2, <1>r
<1> QED
  BY <1>2, <1>3, <1>4, <1>5
-----------------------------------------------------------------------------
\* No step of a call, and no change of the fabric in between, breaks it.
THEOREM PolicyInvNext == PolicyInv /\ [PolicyNext]_policyVars => PolicyInv'
<1> SUFFICES ASSUME PolicyInv, [PolicyNext]_policyVars PROVE PolicyInv'
  OBVIOUS
<1>1. CASE UNCHANGED policyVars
  BY <1>1 DEF policyVars, PolicyInv, CallInv, PartsInv, AuditInv, VerdictInv, Judged, About
<1>2. CASE PolicyNext
  BY <1>2, AskStep, AskWithoutHopStep, ReadContextStep, ResolveStep, RunCommandsStep, ConcludeStep, ChangeFabricStep
     DEF PolicyNext
<1> QED
  BY <1>1, <1>2

\* The invariant holds in every reachable state.
THEOREM PolicyInvariance == PolicySpec => []PolicyInv
  BY PolicyInvInit, PolicyInvNext, PTL DEF PolicySpec

\* The term a diagnosis blames for a hidden route is the one by which the
\* switch rejected it, and a route it rejected has one, whatever changes while
\* the routes and the terms are read: it is enough that the terms read are
\* those that stood when the routes were read.
THEOREM BlameIsRight == PolicySpec => []BlameRejects
<1>1. ASSUME NEW r, Judged(r), r.part = "diagnose_hidden_routes", r.error = Null,
             r.asOf = r.out.terms, Readable(r.asOf), NEW p \in r.out.routes
      PROVE  /\ r.said[p].term # 0 => r.said[p].term = Fate(r.asOf, p)
             /\ p \in HiddenBy(r.asOf) \ DOMAIN Reasons => r.said[p].term # 0
  <2>1. p \in Routes /\ r.said = Diagnosed(r.out.routes, r.asOf)
    BY <1>1 DEF Judged
  <2> DEFINE R == Responsible(r.asOf, p)
             printed == IF p \in DOMAIN Reasons THEN Reasons[p] ELSE "policy_rejected"
  <2>2. R = IF Rejects(r.asOf, p) THEN Fate(r.asOf, p) ELSE 0
    BY <1>1, <2>1, ResponsibleIsFate
  <2>3. r.said[p].term = IF printed \in {"policy_rejected", "other"} /\ R # 0 THEN R ELSE 0
    BY <2>1 DEF Diagnosed
  <2> HIDE DEF R
  <2>4. p \in HiddenBy(r.asOf) => Rejects(r.asOf, p) /\ Fate(r.asOf, p) # 0
    BY DEF HiddenBy, Rejects
  <2> QED
    BY <2>2, <2>3, <2>4
<1>2. PolicyInv => BlameRejects
  BY <1>1 DEF PolicyInv, VerdictInv, BlameRejects
<1> QED
  BY <1>2, PolicyInvariance, PTL

\* However peerings come and go between the parts of an audit, and whichever
\* reads fail, each part asks about the address of the peer the audit began
\* with, or about nothing, and where the switch of that peer has its names to
\* itself it asks that switch.
THEOREM AuditsOnePeer == PolicySpec => []AuditOnePeer
<1>1. PolicyInv => AuditOnePeer
  BY DEF PolicyInv, VerdictInv, AuditOnePeer, About, Tells
<1> QED
  BY <1>1, PolicyInvariance, PTL

-----------------------------------------------------------------------------
(***************************************************************************)
(* Triage: a call sees what stands all through it, and tells nothing that  *)
(* was never there.                                                        *)
(*                                                                         *)
(* What stood at every moment is wrong now, and what is wrong now was so   *)
(* at some moment: each read gives something between the two, and the more *)
(* is wrong the more it gives.  An answer is put together from all the     *)
(* reads of its call.  For a blueprint whose reads did not fail, each      *)
(* trouble that stood is then in the read that asks for it; a job finds    *)
(* its way to the blueprint of its device because the agents know the      *)
(* serial of the device or, where they do not, its name, and every         *)
(* inventory of the instance was read.                                     *)
(***************************************************************************)
\* What stands all along is wrong now, and what is wrong now was so at a moment.
MomentsInv ==
  /\ trouble \subseteq Troubles
  /\ request # Refused => stood \subseteq trouble /\ trouble \subseteq shown /\ shown \subseteq Troubles

RequestInv ==
  request # Refused =>
    /\ request.intent \in Questions
    /\ request.intent # "drift" => request.devices = {}
    /\ IsFiniteSet(request.sites)

\* What a read gave lies between what stood and what was there at a moment; it
\* was made where it could be, and of the devices that were listed.
GotAs(x) ==
  /\ Value(x, stood) \subseteq got[x] /\ got[x] \subseteq Value(x, shown)
  /\ x.kind \in {"live", "build", "inventory"} => x.plant \in Plants /\ Site[x.plant] = x.site
  /\ x.kind = "config" => \/ request.devices = {} /\ x.device \in Machines /\ Home[x.device] = x.plant
                         \/ x.device \in request.devices
GotInv == request # Refused => \A x \in DOMAIN got : Gave(x) => GotAs(x)

\* The answer is made of all the reads there were to make.
Answered ==
  [reachable |-> IF request.intent = "baseline" THEN SaysReachable ELSE Refused,
   jobs |-> IF request.intent # "active_jobs" THEN {}
            ELSE IF request.every THEN UNION {JobsAt(s) : s \in request.sites}
            ELSE JobsIn(request.scope),
   parts |-> IF request.intent = "active_jobs" THEN <<>> ELSE [b \in request.scope |-> Part(b)]]
AnswerInv ==
  answer # Refused => request # Refused /\ Reads \subseteq DOMAIN got /\ answer = Answered

TriageInv == MomentsInv /\ RequestInv /\ GotInv /\ AnswerInv
-----------------------------------------------------------------------------
LEMMA ValueGrows ==
  ASSUME NEW x, NEW S, NEW T, S \subseteq T
  PROVE  Value(x, S) \subseteq Value(x, T)
<1>1. \A k : Of(k, S) \subseteq Of(k, T)
  BY DEF Of
<1>j. CASE x.kind = "jobs"
  BY <1>1, <1>j DEF Value
<1>l. CASE x.kind = "live"
  BY <1>1, <1>l DEF Value
<1>b. CASE x.kind = "build"
  BY <1>1, <1>b DEF Value
<1>0. CASE x.kind = "store"
  BY <1>1, <1>0 DEF Value
<1>i. CASE x.kind = "inventory"
  BY <1>i DEF Value
<1>c. CASE x.kind = "config"
  BY <1>1, <1>c DEF Value
<1>o. CASE x.kind \notin {"jobs", "live", "build", "store", "inventory", "config"}
  BY <1>o DEF Value
<1> QED
  BY <1>j, <1>l, <1>b, <1>0, <1>i, <1>c, <1>o

LEMMA TriageInvInit == TriageInit => TriageInv
  BY DEF TriageInit, TriageInv, MomentsInv, RequestInv, GotInv, AnswerInv

LEMMA TriageAskStep ==
  ASSUME TriageInv, AskTriage
  PROVE  TriageInv'
<1>1. /\ stood' = trouble /\ shown' = trouble /\ got' = <<>> /\ answer' = Refused
      /\ UNCHANGED trouble
  BY DEF AskTriage
<1>2. PICK intent \in Questions, ref \in References, up \in SUBSET Sites,
           sites \in {Sites} \cup {{s} : s \in Sites}, devices \in {{}} \cup {{d} : d \in Machines} :
        /\ intent # "drift" => devices = {}
        /\ request' = [intent |-> intent, scope |-> ScopeOf(ref, up), sites |-> sites,
                       devices |-> devices, every |-> ref.plants = Plants]
  BY DEF AskTriage
<1>3. /\ request'.intent = intent /\ (intent # "drift" => request'.devices = {})
      /\ request'.sites = sites
  BY <1>2
<1>7. IsFiniteSet(sites)
  BY TriageAssumption, FS_Singleton
<1>4. RequestInv'
  BY <1>2, <1>3, <1>7 DEF RequestInv
<1>5. MomentsInv'
  BY <1>1 DEF TriageInv, MomentsInv
<1>6. DOMAIN got' = {}
  BY <1>1
<1> QED
  BY <1>1, <1>4, <1>5, <1>6 DEF TriageInv, GotInv, AnswerInv

LEMMA TriageTurnStep ==
  ASSUME TriageInv, Turn
  PROVE  TriageInv'
<1>1. /\ request # Refused /\ answer = Refused
      /\ stood' = stood \cap trouble' /\ shown' = shown \cup trouble'
      /\ UNCHANGED <<request, got, answer>>
  BY DEF Turn
<1>2. trouble' \subseteq Troubles
  BY DEF Turn, TriageInv, MomentsInv
<1>3. MomentsInv'
  BY <1>1, <1>2 DEF TriageInv, MomentsInv
<1>4. \A x : Value(x, stood') \subseteq Value(x, stood) /\ Value(x, shown) \subseteq Value(x, shown')
  BY <1>1, ValueGrows
<1>5. GotInv'
  BY <1>1, <1>4 DEF TriageInv, GotInv, GotAs, Gave
<1> QED
  BY <1>1, <1>3, <1>5 DEF TriageInv, RequestInv, AnswerInv

\* The devices whose configuration is read were in the inventory, or are named.
LEMMA ConfigReads ==
  ASSUME TriageInv, request # Refused, NEW x \in Reads, x.kind = "config"
  PROVE  \/ request.devices = {} /\ x.device \in Machines /\ Home[x.device] = x.plant
         \/ x.device \in request.devices
<1>1. PICK s, b : x \in PlantReadsAt(s, b)
  <2>1. \A s : x \notin JobReads(s)
    BY DEF JobReads, Asking
  <2>2. PICK b : x \in PlantReads(b)
    BY <2>1 DEF Reads
  <2>3. x # Asking(<<"store", 0, b, 0>>)
    BY DEF Asking
  <2> QED
    BY <2>2, <2>3 DEF PlantReads
<1>2. x \in DriftReads(s, b)
  BY <1>1 DEF PlantReadsAt, Asking
<1> DEFINE y == Asking(<<"inventory", s, b, 0>>)
<1>3. y.kind = "inventory" /\ y.plant = b
  BY DEF Asking
<1> DEFINE known == IF request.devices # {} THEN request.devices
                    ELSE IF Gave(y) THEN got[y] ELSE {}
<1>4. PICK d \in known : x = Asking(<<"config", s, b, d>>)
  BY <1>2 DEF DriftReads, Asking
<1>5. x.device = d /\ x.plant = b
  BY <1>4 DEF Asking
<1>6. CASE request.devices # {}
  BY <1>4, <1>5, <1>6
<1>7. CASE request.devices = {}
  <2>1. Gave(y) /\ d \in got[y]
    BY <1>4, <1>7
  <2>2. d \in Value(y, shown)
    BY <2>1 DEF TriageInv, GotInv, GotAs, Gave
  <2> QED
    BY <1>3, <1>5, <1>7, <2>2 DEF Value
<1> QED
  BY <1>6, <1>7

LEMMA TriageReadStep ==
  ASSUME TriageInv, Read
  PROVE  TriageInv'
<1>1. /\ request # Refused /\ answer = Refused
      /\ UNCHANGED <<trouble, stood, shown, request, answer>>
  BY DEF Read
<1>2. PICK x \in NextReads : \E value :
        /\ value = Refused \/ (value = Value(x, trouble) /\ CanRead(x))
        /\ got' = [y \in DOMAIN got \cup {x} |-> IF y = x THEN value ELSE got[y]]
  BY DEF Read
<1>3. x \in Reads
  BY DEF NextReads
<1>4. x.kind = "config" => \/ request.devices = {} /\ x.device \in Machines /\ Home[x.device] = x.plant
                           \/ x.device \in request.devices
  BY <1>1, <1>3, ConfigReads
<1>5. Value(x, stood) \subseteq Value(x, trouble) /\ Value(x, trouble) \subseteq Value(x, shown)
  BY <1>1, ValueGrows DEF TriageInv, MomentsInv
<1>6. GotInv'
  <2> SUFFICES ASSUME NEW y \in DOMAIN got', got'[y] # Refused
               PROVE  GotAs(y)'
    BY DEF GotInv, Gave
  <2>1. CASE y = x
    <3>1. got'[y] = Value(x, trouble) /\ CanRead(x)
      BY <1>2, <2>1
    <3> QED
      BY <1>1, <1>4, <1>5, <2>1, <3>1 DEF GotAs, CanRead
  <2>2. CASE y # x
    <3>1. y \in DOMAIN got /\ got'[y] = got[y]
      BY <1>2, <2>2
    <3>2. GotAs(y)
      BY <1>1, <3>1 DEF TriageInv, GotInv, Gave
    <3> QED
      BY <1>1, <3>1, <3>2 DEF GotAs
  <2> QED
    BY <2>1, <2>2
<1> QED
  BY <1>1, <1>6 DEF TriageInv, MomentsInv, RequestInv, AnswerInv

\* The reads to make and the answer to give depend on what was asked and read.
LEMMA SameAnswer ==
  ASSUME UNCHANGED <<request, got>>
  PROVE  Reads' = Reads /\ Answered' = Answered
<1>1. Reads' = Reads
  BY DEF Reads, JobReads, PlantReads, PlantReadsAt, DriftReads, Gave
<1>2. SaysReachable' = SaysReachable
  BY DEF SaysReachable, Counted, Given, Gave
<1>3. \A s : JobsAt(s)' = JobsAt(s) /\ \A d : PlantsOf(d, s)' = PlantsOf(d, s)
  BY DEF JobsAt, PlantsOf, BySerial, ByName, Indexed, Gave
<1>4. \A S : JobsIn(S)' = JobsIn(S)
  BY <1>3 DEF JobsIn
<1>5. \A b : Part(b)' = Part(b)
  <2>1. \A k, b : Given(k, b)' = Given(k, b)
    BY DEF Given
  <2>2. \A k, b : Counted(k, b)' = Counted(k, b)
    BY <2>1 DEF Counted
  <2>3. \A b : Deviating(b)' = Deviating(b)
    BY <2>2 DEF Deviating, Failed
  <2> QED
    BY <1>4, <2>1, <2>2, <2>3 DEF Part
<1>6. Answered' = Answered
  BY <1>2, <1>3, <1>4, <1>5 DEF Answered
<1> QED
  BY <1>1, <1>6

LEMMA SameCall ==
  ASSUME TriageInv, UNCHANGED <<trouble, stood, shown, request, got>>, answer' \in {answer, Refused}
  PROVE  TriageInv'
  BY SameAnswer DEF TriageInv, MomentsInv, RequestInv, GotInv, GotAs, Gave, AnswerInv

LEMMA TriageReplyStep ==
  ASSUME TriageInv, Reply
  PROVE  TriageInv'
<1>1. /\ request # Refused /\ Reads \subseteq DOMAIN got
      /\ UNCHANGED <<trouble, stood, shown, turns, request, got>>
      /\ answer' = Answered
  BY DEF Reply, Answered
<1>2. AnswerInv'
  BY <1>1, SameAnswer DEF AnswerInv
<1> QED
  BY <1>1, <1>2 DEF TriageInv, MomentsInv, RequestInv, GotInv, GotAs, Gave

\* Every step of a call keeps its parts together: what stands, what was read and
\* what is answered.
THEOREM TriageInvNext == TriageInv /\ [TriageNext]_triageVars => TriageInv'
<1> SUFFICES ASSUME TriageInv, [TriageNext]_triageVars PROVE TriageInv'
  OBVIOUS
<1>1. CASE UNCHANGED triageVars
  BY <1>1, SameCall DEF triageVars
<1>2. CASE TriageNext
  BY <1>2, TriageAskStep, TriageReadStep, TriageReplyStep, TriageTurnStep DEF TriageNext
<1> QED
  BY <1>1, <1>2

\* A read of src/tools/triage_dispatch.py gives what was wrong when it was made,
\* and the answer is made of all the reads of its call.
THEOREM TriageInvariance == TriageSpec => []TriageInv
  BY TriageInvInit, TriageInvNext, PTL DEF TriageSpec
-----------------------------------------------------------------------------
LEMMA OfIs ==
  ASSUME NEW S \in SUBSET Troubles, NEW k, NEW d
  PROVE  d \in Of(k, S) <=> <<k, d>> \in S
<1>1. \A f \in S : f = <<f[1], f[2]>>
  BY TriageAssumption
<1> QED
  BY <1>1 DEF Of

\* What is wrong with a device is of a machine.
LEMMA TroubleTypes ==
  ASSUME NEW k, NEW d, <<k, d>> \in Troubles
  PROVE  /\ k \in {"down", "job", "drift", "blocked", "raised"}
         /\ k \in {"down", "job", "drift"} => d \in Machines /\ Home[d] \in Plants /\ Home[d] # 0
  BY TriageAssumption

\* The reads of a call that ended were made.
LEMMA ReadsMade ==
  ASSUME TriageInv, answer # Refused, NEW s \in request.sites
  PROVE  /\ request.intent \in {"baseline", "active_jobs", "incident_snapshot"} =>
              JobReads(s) \subseteq DOMAIN got
         /\ request.intent # "active_jobs" => \A b \in request.scope :
              /\ PlantReadsAt(s, b) \subseteq DOMAIN got
              /\ request.intent \in {"active_anomalies", "incident_snapshot"} =>
                   Asking(<<"store", 0, b, 0>>) \in DOMAIN got
<1>1. Reads \subseteq DOMAIN got
  BY DEF TriageInv, AnswerInv
<1>2. request.intent \in {"baseline", "active_jobs", "incident_snapshot"} => JobReads(s) \subseteq Reads
  BY DEF Reads
<1>3. ASSUME NEW b \in request.scope, request.intent # "active_jobs" PROVE PlantReads(b) \subseteq Reads
  BY <1>3 DEF Reads
<1>4. \A b : PlantReadsAt(s, b) \subseteq PlantReads(b)
  BY DEF PlantReads
<1>5. \A b : request.intent \in {"active_anomalies", "incident_snapshot"} =>
               Asking(<<"store", 0, b, 0>>) \in PlantReads(b)
  BY DEF PlantReads
<1> QED
  BY <1>1, <1>2, <1>3, <1>4, <1>5

\* What was read and given, given what it was asked.
LEMMA GaveIs ==
  ASSUME TriageInv, answer # Refused, NEW x \in DOMAIN got, Gave(x)
  PROVE  GotAs(x) /\ stood \subseteq Troubles /\ shown \subseteq Troubles
  BY DEF TriageInv, GotInv, AnswerInv, MomentsInv

LEMMA GivenIs ==
  ASSUME NEW k, NEW b, NEW v
  PROVE  v \in Given(k, b) <=> \E x \in DOMAIN got : x.kind = k /\ x.plant = b /\ Gave(x) /\ v \in got[x]
  BY DEF Given, Gave
-----------------------------------------------------------------------------
(* What stands is told. *)

\* A read of a call of one instance that ended, and gave what stood.
LEMMA StandingGiven ==
  ASSUME TriageInv, answer # Refused, NEW k, NEW s, NEW b, NEW e,
         Asking(<<k, s, b, e>>) \in DOMAIN got, ReadOf(b)
  PROVE  Value(Asking(<<k, s, b, e>>), stood) \subseteq Given(k, b)
<1> DEFINE x == Asking(<<k, s, b, e>>)
<1>1. x.kind = k /\ x.plant = b
  BY DEF Asking
<1>2. x \in DOMAIN got /\ Gave(x)
  BY <1>1 DEF ReadOf
<1> HIDE DEF x
<1>3. Value(x, stood) \subseteq got[x]
  BY <1>2, GaveIs DEF GotAs
<1>4. Value(x, stood) \subseteq Given(k, b)
  BY <1>1, <1>2, <1>3, GivenIs
<1> QED
  BY <1>4 DEF x

LEMMA DownTold ==
  ASSUME TriageInv, answer # Refused, NEW s \in request.sites, NEW b \in request.scope, ReadOf(b),
         request.intent \in {"baseline", "incident_snapshot"},
         NEW d, <<"down", d>> \in stood, Home[d] = b
  PROVE  d \in Given("live", b)
<1> DEFINE x == Asking(<<"live", s, b, 0>>)
<1>1. x \in DOMAIN got
  BY ReadsMade DEF PlantReadsAt
<1>2. d \in Value(x, stood)
  <2>1. x.kind = "live" /\ x.plant = b
    BY DEF Asking
  <2>2. d \in Of("down", stood)
    BY OfIs DEF TriageInv, MomentsInv, AnswerInv
  <2> HIDE DEF x
  <2> QED
    BY <2>1, <2>2 DEF Value
<1> QED
  BY <1>1, <1>2, StandingGiven

LEMMA BlockedTold ==
  ASSUME TriageInv, answer # Refused, NEW s \in request.sites, NEW b \in request.scope, ReadOf(b),
         request.intent \in {"commit_blockers", "incident_snapshot"}, <<"blocked", b>> \in stood
  PROVE  b \in Given("build", b)
<1> DEFINE x == Asking(<<"build", s, b, 0>>)
<1>1. x \in DOMAIN got
  BY ReadsMade DEF PlantReadsAt
<1>2. b \in Value(x, stood)
  <2>1. x.kind = "build" /\ x.plant = b
    BY DEF Asking
  <2>2. b \in Of("blocked", stood)
    BY OfIs DEF TriageInv, MomentsInv, AnswerInv
  <2> HIDE DEF x
  <2> QED
    BY <2>1, <2>2 DEF Value
<1> QED
  BY <1>1, <1>2, StandingGiven

LEMMA RaisedTold ==
  ASSUME TriageInv, answer # Refused, NEW s \in request.sites, NEW b \in request.scope, ReadOf(b),
         request.intent \in {"active_anomalies", "incident_snapshot"}, <<"raised", b>> \in stood
  PROVE  b \in Given("store", b)
<1> DEFINE x == Asking(<<"store", 0, b, 0>>)
<1>1. x \in DOMAIN got
  BY ReadsMade
<1>2. b \in Value(x, stood)
  <2>1. x.kind = "store" /\ x.plant = b
    BY DEF Asking
  <2>2. b \in Of("raised", stood)
    BY OfIs DEF TriageInv, MomentsInv, AnswerInv
  <2> HIDE DEF x
  <2> QED
    BY <2>1, <2>2 DEF Value
<1> QED
  BY <1>1, <1>2, StandingGiven

LEMMA DriftTold ==
  ASSUME TriageInv, answer # Refused, NEW s \in request.sites, NEW b \in request.scope, ReadOf(b),
         request.intent = "drift", NEW d, <<"drift", d>> \in stood, Home[d] = b,
         request.devices \in {{}, {d}}
  PROVE  d \in Given("config", b)
<1> DEFINE x == Asking(<<"config", s, b, d>>)
           y == Asking(<<"inventory", s, b, 0>>)
<1>1. DriftReads(s, b) \subseteq DOMAIN got
  BY ReadsMade DEF PlantReadsAt
<1>2. y \in DOMAIN got /\ y.kind = "inventory" /\ y.plant = b
  BY <1>1 DEF DriftReads, Asking
<1>3. Gave(y)
  BY <1>2 DEF ReadOf
<1>4. d \in got[y]
  <2>1. d \in Machines
    BY TroubleTypes DEF TriageInv, MomentsInv, AnswerInv
  <2> HIDE DEF y
  <2>2. d \in Value(y, stood)
    BY <1>2, <2>1 DEF Value
  <2> QED
    BY <1>2, <1>3, <2>2, GaveIs DEF GotAs
<1>5. x \in DOMAIN got
  BY <1>1, <1>2, <1>3, <1>4 DEF DriftReads
<1>6. d \in Value(x, stood)
  <2>1. x.kind = "config" /\ x.device = d
    BY DEF Asking
  <2>2. d \in Of("drift", stood)
    BY OfIs DEF TriageInv, MomentsInv, AnswerInv
  <2> HIDE DEF x
  <2> QED
    BY <2>1, <2>2 DEF Value
<1> QED
  BY <1>5, <1>6, StandingGiven

\* A job that stood is found, and under the blueprint of its device.
LEMMA JobTold ==
  ASSUME TriageInv, answer # Refused, NEW s \in request.sites,
         request.intent \in {"baseline", "active_jobs", "incident_snapshot"},
         NEW d, <<"job", d>> \in stood, Site[Home[d]] = s, ReadOf(Home[d])
  PROVE  d \in JobsAt(s) /\ Home[d] \in PlantsOf(d, s)
<1> DEFINE jobs   == Asking(<<"jobs", s, 0, 0>>)
           agents == Asking(<<"agents", s, 0, 0>>)
           list   == Asking(<<"list", s, 0, 0>>)
           system == Asking(<<"systems", s, Home[d], 0>>)
<1>1. /\ jobs.kind = "jobs" /\ jobs.site = s /\ jobs.plant = 0
      /\ agents.plant = 0 /\ list.plant = 0 /\ system.plant = Home[d]
  BY DEF Asking
<1>2. JobReads(s) \subseteq DOMAIN got
  BY ReadsMade
<1>3. d \in Machines /\ Home[d] \in Plants
  BY TroubleTypes DEF TriageInv, MomentsInv, AnswerInv
<1>4. Gave(jobs)
  BY <1>1, <1>2 DEF JobReads, ReadOf
<1>5. d \in got[jobs]
  <2>1. d \in Of("job", stood)
    BY OfIs DEF TriageInv, MomentsInv, AnswerInv
  <2>2. d \in Value(jobs, stood)
    BY <1>1, <2>1 DEF Value
  <2> QED
    BY <1>4, <2>2, GaveIs DEF GotAs, Gave
<1>6. Gave(agents) /\ Gave(list)
  <2>1. agents \in DOMAIN got /\ list \in DOMAIN got
    BY <1>2, <1>4, <1>5 DEF JobReads
  <2> QED
    BY <1>1, <2>1 DEF ReadOf
<1>7. Gave(system)
  <2>1. system \in DOMAIN got
    BY <1>2, <1>3, <1>6 DEF JobReads
  <2> QED
    BY <1>1, <2>1 DEF ReadOf
<1>8. Home[d] \in Indexed(s)
  BY <1>3, <1>7 DEF Indexed
<1>9. Home[d] \in ByName(d, s) /\ BySerial(d, s) \subseteq {Home[d]}
  BY <1>3, <1>8 DEF ByName, BySerial
<1>10. Home[d] \in PlantsOf(d, s)
  BY <1>6, <1>9 DEF PlantsOf
<1> QED
  BY <1>4, <1>5, <1>10 DEF JobsAt
-----------------------------------------------------------------------------
(* What is told was there. *)

LEMMA GivenTrue ==
  ASSUME TriageInv, answer # Refused, NEW k, NEW b, NEW v \in Given(k, b)
  PROVE  \E x \in DOMAIN got : /\ x.kind = k /\ x.plant = b /\ v \in Value(x, shown) /\ GotAs(x)
                               /\ shown \subseteq Troubles
<1>1. PICK x \in DOMAIN got : x.kind = k /\ x.plant = b /\ Gave(x) /\ v \in got[x]
  BY GivenIs
<1>2. GotAs(x) /\ shown \subseteq Troubles
  BY <1>1, GaveIs
<1> QED
  BY <1>1, <1>2 DEF GotAs

LEMMA DownTrue ==
  ASSUME TriageInv, answer # Refused, NEW b, NEW d \in Given("live", b)
  PROVE  <<"down", d>> \in shown /\ Home[d] = b /\ b \in Plants
<1>1. PICK x \in DOMAIN got : /\ x.kind = "live" /\ x.plant = b /\ d \in Value(x, shown)
                              /\ GotAs(x) /\ shown \subseteq Troubles
  BY GivenTrue
<1>2. d \in Of("down", shown) /\ Home[d] = b
  BY <1>1 DEF Value
<1> QED
  BY <1>1, <1>2, OfIs DEF GotAs

LEMMA BlockedTrue ==
  ASSUME TriageInv, answer # Refused, NEW b, NEW d \in Given("build", b)
  PROVE  <<"blocked", d>> \in shown /\ d = b
<1>1. PICK x \in DOMAIN got : /\ x.kind = "build" /\ x.plant = b /\ d \in Value(x, shown)
                              /\ GotAs(x) /\ shown \subseteq Troubles
  BY GivenTrue
<1>2. d \in Of("blocked", shown) /\ d = b
  BY <1>1 DEF Value
<1> QED
  BY <1>1, <1>2, OfIs

LEMMA RaisedTrue ==
  ASSUME TriageInv, answer # Refused, NEW b, NEW d \in Given("store", b)
  PROVE  <<"raised", d>> \in shown /\ d = b
<1>1. PICK x \in DOMAIN got : /\ x.kind = "store" /\ x.plant = b /\ d \in Value(x, shown)
                              /\ GotAs(x) /\ shown \subseteq Troubles
  BY GivenTrue
<1>2. d \in Of("raised", shown) /\ d = b
  BY <1>1 DEF Value
<1> QED
  BY <1>1, <1>2, OfIs

LEMMA DriftTrue ==
  ASSUME TriageInv, answer # Refused, NEW b, NEW d \in Given("config", b)
  PROVE  /\ <<"drift", d>> \in shown
         /\ d \in request.devices \/ (Home[d] = b /\ b \in Plants)
<1>1. PICK x \in DOMAIN got : /\ x.kind = "config" /\ x.plant = b /\ d \in Value(x, shown)
                              /\ GotAs(x) /\ shown \subseteq Troubles
  BY GivenTrue
<1>2. d \in Of("drift", shown) /\ d = x.device
  BY <1>1 DEF Value
<1>3. <<"drift", d>> \in shown
  BY <1>1, <1>2, OfIs
<1>4. d \in request.devices \/ (d \in Machines /\ Home[d] = b)
  BY <1>1, <1>2 DEF GotAs
<1>5. d \in Machines => Home[d] \in Plants
  BY TriageAssumption
<1> QED
  BY <1>3, <1>4, <1>5

\* A job that is told was there, and its device is of the blueprint or, where
\* it has no serial, has the name of one there.
LEMMA JobTrue ==
  ASSUME TriageInv, answer # Refused, NEW s \in request.sites, ReadAll,
         request.intent \in {"baseline", "active_jobs", "incident_snapshot"},
         NEW d \in JobsAt(s)
  PROVE  /\ <<"job", d>> \in shown /\ d \in Machines /\ Home[d] \in Plants
         /\ \A b \in PlantsOf(d, s) : Home[d] = b \/ <<"job", d>> \in Namesakes(b)
<1> DEFINE jobs   == Asking(<<"jobs", s, 0, 0>>)
           list   == Asking(<<"list", s, 0, 0>>)
           system == Asking(<<"systems", s, Home[d], 0>>)
<1>1. jobs.kind = "jobs" /\ jobs.site = s
  BY DEF Asking
<1>2. JobReads(s) \subseteq DOMAIN got
  BY ReadsMade
<1>3. Gave(jobs) /\ d \in got[jobs]
  BY DEF JobsAt
<1>4. d \in Of("job", shown) /\ Site[Home[d]] = s /\ shown \subseteq Troubles
  <2>1. d \in Value(jobs, shown) /\ shown \subseteq Troubles
    BY <1>3, GaveIs DEF GotAs, Gave
  <2> HIDE DEF jobs
  <2> QED
    BY <1>1, <2>1 DEF Value
<1>5. <<"job", d>> \in shown
  BY <1>4, OfIs
<1>6. d \in Machines /\ Home[d] \in Plants
  BY <1>4, <1>5, TroubleTypes
<1>7. Gave(list)
  BY <1>2, <1>3 DEF JobReads, ReadAll
<1>8. Home[d] \in Indexed(s)
  <2>1. system \in DOMAIN got
    BY <1>2, <1>4, <1>6, <1>7 DEF JobReads
  <2> QED
    BY <1>6, <2>1 DEF Indexed, ReadAll
<1>9. ASSUME NEW b \in PlantsOf(d, s), Home[d] # b
      PROVE  <<"job", d>> \in Namesakes(b)
  <2>1. b \notin BySerial(d, s)
    BY <1>9 DEF BySerial
  <2>2. BySerial(d, s) = {} /\ b \in ByName(d, s)
    BY <2>1 DEF PlantsOf
  <2>3. d \in Nameless
    BY <1>8, <2>2 DEF BySerial
  <2> QED
    BY <2>2, <2>3 DEF ByName, Namesakes
<1> QED
  BY <1>5, <1>6, <1>9
-----------------------------------------------------------------------------
LEMMA PartIs ==
  ASSUME Cardinality(request.sites) = 1, NEW b
  PROVE  /\ Part(b).down = IF request.intent \in {"baseline", "incident_snapshot"} THEN Given("live", b) ELSE {}
         /\ Part(b).job = IF request.intent \in {"baseline", "incident_snapshot"} THEN JobsIn({b}) ELSE {}
         /\ Part(b).blocked = Given("build", b) /\ Part(b).raised = Given("store", b)
         /\ Part(b).drift = Given("config", b) \cup
                            {x.device : x \in {y \in DOMAIN got : Failed(y) /\ y.kind = "config" /\ y.plant = b}}
         /\ Part(b).attention =
              (request.intent = "incident_snapshot" /\
                 (Given("live", b) \cup JobsIn({b}) \cup Given("build", b) \cup Given("store", b)) # {})
<1>1. \A k : Counted(k, b) = Given(k, b)
  BY DEF Counted
<1>2. Deviating(b) = Given("config", b) \cup
                     {x.device : x \in {y \in DOMAIN got : Failed(y) /\ y.kind = "config" /\ y.plant = b}}
  BY <1>1 DEF Deviating
<1> QED
  BY <1>1, <1>2 DEF Part

\* The parts of a call of one instance.
LEMMA ToldIs ==
  ASSUME TriageInv, answer # Refused, Cardinality(request.sites) = 1, NEW b \in DOMAIN answer.parts
  PROVE  /\ b \in request.scope /\ request.intent # "active_jobs" /\ answer.parts[b] = Part(b)
         /\ \A k, d : <<k, d>> \in Told(b) <=>
              \/ k = "down" /\ d \in Part(b).down
              \/ k = "job" /\ d \in Part(b).job
              \/ k = "blocked" /\ d \in Part(b).blocked
              \/ k = "raised" /\ d \in Part(b).raised
              \/ k = "drift" /\ d \in Part(b).drift
         /\ \A f \in Told(b) : f = <<f[1], f[2]>>
<1>1. answer.parts = IF request.intent = "active_jobs" THEN <<>> ELSE [c \in request.scope |-> Part(c)]
  BY DEF TriageInv, AnswerInv, Answered
<1>2. b \in request.scope /\ request.intent # "active_jobs" /\ answer.parts[b] = Part(b)
  BY <1>1
<1> QED
  BY <1>2 DEF Told

\* The intents that ask for a kind of trouble.
LEMMA SoughtIs ==
  ASSUME request.intent \in Questions \ {"active_jobs"}
  PROVE  /\ "down" \in Sought \/ "job" \in Sought => request.intent \in {"baseline", "incident_snapshot"}
         /\ "blocked" \in Sought => request.intent \in {"commit_blockers", "incident_snapshot"}
         /\ "raised" \in Sought => request.intent \in {"active_anomalies", "incident_snapshot"}
         /\ "drift" \in Sought => request.intent = "drift"
<1>1. CASE request.intent = "baseline"
  BY <1>1 DEF Sought
<1>2. CASE request.intent = "commit_blockers"
  BY <1>2 DEF Sought
<1>3. CASE request.intent = "drift"
  BY <1>3 DEF Sought
<1>4. CASE request.intent = "active_anomalies"
  BY <1>4 DEF Sought
<1>5. CASE request.intent = "incident_snapshot"
  BY <1>5 DEF Sought
<1> QED
  BY <1>1, <1>2, <1>3, <1>4, <1>5 DEF Questions

\* What stands in a blueprint is told in its part.
LEMMA StandingTold ==
  ASSUME TriageInv, answer # Refused, NEW s, request.sites = {s}, Cardinality(request.sites) = 1,
         NEW b \in DOMAIN answer.parts, ReadOf(b)
  PROVE  /\ Standing(b) \subseteq Told(b)
         /\ request.intent = "incident_snapshot" /\ Standing(b) # {} => answer.parts[b].attention
<1>1. b \in request.scope /\ request.intent # "active_jobs" /\ answer.parts[b] = Part(b)
  BY ToldIs
<1>2. stood \subseteq Troubles /\ request.intent \in Questions
  BY DEF TriageInv, MomentsInv, AnswerInv, RequestInv
<1>3. \A k, d : <<k, d>> \in Standing(b) =>
        /\ <<k, d>> \in stood /\ k \in Sought
        /\ k \in {"blocked", "raised"} => d = b
        /\ k \in {"down", "job", "drift"} => b \in Plants /\ Home[d] = b
        /\ k = "drift" => request.devices \in {{}, {d}}
  <2> SUFFICES ASSUME NEW k, NEW d, <<k, d>> \in Standing(b)
               PROVE  /\ <<k, d>> \in stood /\ k \in Sought
                      /\ k \in {"blocked", "raised"} => d = b
                      /\ k \in {"down", "job", "drift"} => b \in Plants /\ Home[d] = b
                      /\ k = "drift" => request.devices \in {{}, {d}}
    OBVIOUS
  <2>1. <<k, d>> \in Within(b, stood) /\ k \in Sought /\ (k = "drift" => request.devices \in {{}, {d}})
    BY DEF Standing
  <2>2. <<k, d>> \in stood /\ IF k \in {"blocked", "raised"} THEN d = b ELSE b \in Plants /\ Home[d] = b
    BY <2>1 DEF Within
  <2>3. k \in {"blocked", "raised"} => d = b
    BY <2>2
  <2>4. k \in {"down", "job", "drift"} => b \in Plants /\ Home[d] = b
    BY <2>2
  <2> QED
    BY <2>1, <2>2, <2>3, <2>4
<1>0. /\ "down" \in Sought \/ "job" \in Sought => request.intent \in {"baseline", "incident_snapshot"}
      /\ "blocked" \in Sought => request.intent \in {"commit_blockers", "incident_snapshot"}
      /\ "raised" \in Sought => request.intent \in {"active_anomalies", "incident_snapshot"}
      /\ "drift" \in Sought => request.intent = "drift"
  BY <1>1, <1>2, SoughtIs
<1>4. ASSUME request.intent \in {"baseline", "incident_snapshot"}, b \in Plants
      PROVE  Site[b] = s
  <2> DEFINE x == Asking(<<"live", s, b, 0>>)
  <2>1. x \in DOMAIN got
    BY <1>1, <1>4, ReadsMade DEF PlantReadsAt
  <2>2. x.kind = "live" /\ x.plant = b /\ x.site = s
    BY DEF Asking
  <2>3. Gave(x)
    BY <2>1, <2>2 DEF ReadOf
  <2> HIDE DEF x
  <2> QED
    BY <2>1, <2>2, <2>3, GaveIs DEF GotAs
<1>5. ASSUME NEW d, <<"down", d>> \in Standing(b)
      PROVE  request.intent \in {"baseline", "incident_snapshot"} /\ d \in Given("live", b)
  <2>1. request.intent \in {"baseline", "incident_snapshot"} /\ Home[d] = b /\ <<"down", d>> \in stood
    BY <1>3, <1>0, <1>5
  <2> QED
    BY <1>1, <2>1, DownTold
<1>6. ASSUME NEW d, <<"job", d>> \in Standing(b)
      PROVE  request.intent \in {"baseline", "incident_snapshot"} /\ d \in JobsIn({b})
  <2>1. /\ request.intent \in {"baseline", "incident_snapshot"} /\ Home[d] = b /\ b \in Plants
        /\ <<"job", d>> \in stood
    BY <1>3, <1>0, <1>6
  <2>2. d \in JobsAt(s) /\ b \in PlantsOf(d, s)
    BY <1>4, <2>1, JobTold
  <2> QED
    BY <2>1, <2>2 DEF JobsIn
<1>7. ASSUME NEW d, <<"blocked", d>> \in Standing(b)
      PROVE  request.intent \in {"commit_blockers", "incident_snapshot"} /\ d \in Given("build", b)
  <2>1. request.intent \in {"commit_blockers", "incident_snapshot"} /\ d = b /\ <<"blocked", d>> \in stood
    BY <1>3, <1>0, <1>7
  <2> QED
    BY <1>1, <2>1, BlockedTold
<1>8. ASSUME NEW d, <<"raised", d>> \in Standing(b)
      PROVE  request.intent \in {"active_anomalies", "incident_snapshot"} /\ d \in Given("store", b)
  <2>1. request.intent \in {"active_anomalies", "incident_snapshot"} /\ d = b /\ <<"raised", d>> \in stood
    BY <1>3, <1>0, <1>8
  <2> QED
    BY <1>1, <2>1, RaisedTold
<1>9. ASSUME NEW d, <<"drift", d>> \in Standing(b)
      PROVE  request.intent = "drift" /\ d \in Given("config", b)
  <2>1. request.intent = "drift" /\ Home[d] = b /\ <<"drift", d>> \in stood /\ request.devices \in {{}, {d}}
    BY <1>3, <1>0, <1>9
  <2> QED
    BY <1>1, <2>1, DriftTold
<1>10. \A f \in Standing(b) : f = <<f[1], f[2]>> /\ f[1] \in {"down", "job", "blocked", "raised", "drift"}
  BY <1>2, TriageAssumption DEF Standing, Within
<1>11. Standing(b) \subseteq Told(b)
  <2>1. \A k, d : <<k, d>> \in Standing(b) =>
          \/ k = "down" /\ d \in Part(b).down
          \/ k = "job" /\ d \in Part(b).job
          \/ k = "blocked" /\ d \in Part(b).blocked
          \/ k = "raised" /\ d \in Part(b).raised
          \/ k = "drift" /\ d \in Part(b).drift
    <3>1. SUFFICES ASSUME NEW k, NEW d, <<k, d>> \in Standing(b)
                   PROVE  \/ k = "down" /\ d \in Part(b).down
                          \/ k = "job" /\ d \in Part(b).job
                          \/ k = "blocked" /\ d \in Part(b).blocked
                          \/ k = "raised" /\ d \in Part(b).raised
                          \/ k = "drift" /\ d \in Part(b).drift
      OBVIOUS
    <3>2. k \in {"down", "job", "blocked", "raised", "drift"}
      BY <1>10, <3>1
    <3>3. CASE k = "down"
      BY <1>5, <3>1, <3>3, PartIs
    <3>4. CASE k = "job"
      BY <1>6, <3>1, <3>4, PartIs
    <3>5. CASE k = "blocked"
      BY <1>7, <3>1, <3>5, PartIs
    <3>6. CASE k = "raised"
      BY <1>8, <3>1, <3>6, PartIs
    <3>7. CASE k = "drift"
      BY <1>9, <3>1, <3>7, PartIs
    <3> QED
      BY <3>2, <3>3, <3>4, <3>5, <3>6, <3>7
  <2>2. \A k, d : <<k, d>> \in Standing(b) => <<k, d>> \in Told(b)
    BY <2>1, ToldIs
  <2> QED
    BY <1>10, <2>2
<1>12. ASSUME request.intent = "incident_snapshot", NEW f \in Standing(b)
       PROVE  Part(b).attention
  <2>1. f[2] \in Given("live", b) \cup JobsIn({b}) \cup Given("build", b) \cup Given("store", b)
    BY <1>5, <1>6, <1>7, <1>8, <1>9, <1>10, <1>12
  <2> QED
    BY <1>12, <2>1, PartIs
<1> QED
  BY <1>1, <1>11, <1>12

\* What the part of a blueprint tells was there.
LEMMA ToldTrue ==
  ASSUME TriageInv, answer # Refused, NEW s, request.sites = {s}, Cardinality(request.sites) = 1,
         NEW b \in DOMAIN answer.parts, ReadAll
  PROVE  Told(b) \subseteq MayTell(b)
<1>1. b \in request.scope /\ request.intent # "active_jobs" /\ answer.parts[b] = Part(b)
  BY ToldIs
<1>2. SUFFICES ASSUME NEW k, NEW d, <<k, d>> \in Told(b)
               PROVE  <<k, d>> \in shown /\ <<k, d>> \in Within(b, shown) \cup Namesakes(b) \cup NamedDrift
  BY ToldIs DEF MayTell
<1>3. CASE k = "down" /\ d \in Part(b).down
  <2>1. d \in Given("live", b)
    BY <1>3, PartIs
  <2> QED
    BY <1>3, <2>1, DownTrue DEF Within
<1>4. CASE k = "job" /\ d \in Part(b).job
  <2>1. request.intent \in {"baseline", "incident_snapshot"} /\ d \in JobsIn({b})
    BY <1>4, PartIs
  <2>2. d \in JobsAt(s) /\ b \in PlantsOf(d, s)
    BY <2>1 DEF JobsIn
  <2>3. <<"job", d>> \in shown /\ Home[d] \in Plants /\ (Home[d] = b \/ <<"job", d>> \in Namesakes(b))
    BY <2>1, <2>2, JobTrue
  <2> QED
    BY <1>4, <2>3 DEF Within
<1>5. CASE k = "blocked" /\ d \in Part(b).blocked
  <2>1. d \in Given("build", b)
    BY <1>5, PartIs
  <2> QED
    BY <1>5, <2>1, BlockedTrue DEF Within
<1>6. CASE k = "raised" /\ d \in Part(b).raised
  <2>1. d \in Given("store", b)
    BY <1>6, PartIs
  <2> QED
    BY <1>6, <2>1, RaisedTrue DEF Within
<1>7. CASE k = "drift" /\ d \in Part(b).drift
  <2>1. \A y \in DOMAIN got : ~ Failed(y)
    BY DEF ReadAll, Gave, Failed
  <2>2. d \in Given("config", b)
    BY <1>7, <2>1, PartIs, ZenonT(20)
  <2> QED
    BY <1>7, <2>2, DriftTrue DEF Within, NamedDrift
<1> QED
  BY <1>2, <1>3, <1>4, <1>5, <1>6, <1>7, ToldIs

\* The jobs of a call for the jobs alone.
LEMMA JobsSeen ==
  ASSUME TriageInv, answer # Refused, NEW s, request.sites = {s}, request.intent = "active_jobs", ReadAll
  PROVE  /\ {d \in Of("job", stood) : Site[Home[d]] \in request.sites /\ Home[d] \in request.scope}
              \subseteq answer.jobs
         /\ answer.jobs \subseteq Of("job", shown)
         /\ ~ request.every => {"job"} \X answer.jobs \subseteq UNION {MayTell(b) : b \in request.scope}
<1>1. answer.jobs = IF request.every THEN JobsAt(s)
                    ELSE {d \in JobsAt(s) : PlantsOf(d, s) \cap request.scope # {}}
  <2>1. answer.jobs = IF request.every THEN UNION {JobsAt(t) : t \in request.sites}
                      ELSE JobsIn(request.scope)
    BY DEF TriageInv, AnswerInv, Answered
  <2>2. UNION {JobsAt(t) : t \in {s}} = JobsAt(s)
    OBVIOUS
  <2>3. JobsIn(request.scope) = {d \in JobsAt(s) : PlantsOf(d, s) \cap request.scope # {}}
    BY DEF JobsIn
  <2> QED
    BY <2>1, <2>2, <2>3
<1>2. stood \subseteq Troubles /\ shown \subseteq Troubles
  BY DEF TriageInv, MomentsInv, AnswerInv
<1>3. ASSUME NEW d \in Of("job", stood), Site[Home[d]] = s
      PROVE  d \in JobsAt(s) /\ Home[d] \in PlantsOf(d, s)
  <2>1. <<"job", d>> \in stood
    BY <1>2, OfIs
  <2>2. ReadOf(Home[d])
    BY DEF ReadAll, ReadOf
  <2> QED
    BY <1>3, <2>1, <2>2, JobTold
<1>4. ASSUME NEW d \in JobsAt(s) PROVE d \in Of("job", shown)
  BY <1>2, OfIs, JobTrue
<1>5. ASSUME NEW d \in JobsAt(s), NEW b \in PlantsOf(d, s) \cap request.scope
      PROVE  <<"job", d>> \in MayTell(b)
  <2>1. <<"job", d>> \in shown /\ Home[d] \in Plants /\ (Home[d] = b \/ <<"job", d>> \in Namesakes(b))
    BY JobTrue
  <2> QED
    BY <2>1 DEF MayTell, Within
<1> QED
  BY <1>1, <1>3, <1>4, <1>5

\* Where every system is said to be reachable, no device was down all along.
LEMMA ReachableSeen ==
  ASSUME TriageInv, answer # Refused, NEW s, request.sites = {s}, Cardinality(request.sites) = 1,
         answer.reachable = TRUE, ReadAll
  PROVE  {d \in Of("down", stood) : Home[d] \in request.scope} = {}
<1>1. answer.reachable = IF request.intent = "baseline" THEN SaysReachable ELSE Refused
  BY DEF TriageInv, AnswerInv, Answered
<1>2. request.intent = "baseline" /\ SaysReachable
  BY <1>1, TriageAssumption
<1>3. \A b \in request.scope : Given("live", b) = {}
  BY <1>2 DEF SaysReachable, Counted
<1>4. ASSUME NEW d \in Of("down", stood), Home[d] \in request.scope PROVE FALSE
  <2>1. <<"down", d>> \in stood
    BY OfIs DEF TriageInv, MomentsInv, AnswerInv
  <2>2. ReadOf(Home[d])
    BY DEF ReadAll, ReadOf
  <2> QED
    BY <1>2, <1>3, <1>4, <2>1, <2>2, DownTold
<1> QED
  BY <1>4

\* A call of the triage tool that is answered by one instance tells each trouble
\* of a blueprint that stood while it ran, if the reads of this blueprint did not
\* fail; a call without failures tells nothing that was never there, nor of another
\* blueprint, save the jobs of a device without a serial; and it calls every
\* system reachable only if none was down all along.
THEOREM SeesWhatStands == TriageSpec => []TriageSees
<1>1. TriageInv => TriageSees
  <2> SUFFICES ASSUME TriageInv, answer # Refused, Cardinality(request.sites) = 1
               PROVE  TriageSees
    BY DEF TriageSees
  <2>1. PICK s : request.sites = {s}
    <3>1. IsFiniteSet(request.sites)
      BY DEF TriageInv, RequestInv, AnswerInv
    <3> QED
      BY <3>1, FS_Singleton
  <2>2. \A b \in DOMAIN answer.parts : ReadOf(b) =>
          /\ Standing(b) \subseteq Told(b)
          /\ request.intent = "incident_snapshot" /\ Standing(b) # {} => answer.parts[b].attention
    BY <2>1, StandingTold
  <2>3. \A b \in DOMAIN answer.parts : ReadAll =>
          Told(b) \subseteq MayTell(b)
    BY <2>1, ToldTrue
  <2>4. request.intent = "active_jobs" /\ ReadAll =>
          /\ {d \in Of("job", stood) : Site[Home[d]] \in request.sites /\ Home[d] \in request.scope}
               \subseteq answer.jobs
          /\ answer.jobs \subseteq Of("job", shown)
          /\ ~ request.every => {"job"} \X answer.jobs \subseteq UNION {MayTell(b) : b \in request.scope}
    BY <2>1, JobsSeen
  <2>5. answer.reachable = TRUE /\ ReadAll =>
          {d \in Of("down", stood) : Home[d] \in request.scope} = {}
    BY <2>1, ReachableSeen
  <2> QED
    BY <2>2, <2>3, <2>4, <2>5 DEF TriageSees
<1> QED
  BY <1>1, TriageInvariance, PTL

-----------------------------------------------------------------------------
(***************************************************************************)
(* FabricReads: a narrow read and a wide read tell the same story.         *)
(*                                                                         *)
(* A row of a device is one of the fabric with the device on either side:  *)
(* the narrow query has the interfaces of a link in both orders, and the   *)
(* wide one in the order of their ids or of the ids of their systems.      *)
(***************************************************************************)
\* What was read of an instance is what a query gave on its graph; and a wide
\* read that names nothing has nothing to agree with.
ReadsInv == graph \in [Instances -> Graphs] /\ ReadsAgree

-----------------------------------------------------------------------------
LEMMA JoinsHas ==
  ASSUME NEW E, NEW x \in DOMAIN E, NEW m \in E[x], NEW n \in E[x]
  PROVE  <<x, m, n>> \in Joins(E)
<1>1. m \in UNION {E[y] : y \in DOMAIN E} /\ n \in UNION {E[y] : y \in DOMAIN E}
  OBVIOUS
<1> QED
  BY <1>1 DEF Joins

LEMMA JoinsIs ==
  ASSUME NEW E, NEW t \in Joins(E)
  PROVE  t[1] \in DOMAIN E /\ t[2] \in E[t[1]] /\ t[3] \in E[t[1]]
  BY DEF Joins

LEMMA LowerFirst ==
  ASSUME NEW m \in Int, NEW n \in Int, m < n
  PROVE  Min({m, n}) = m /\ Max({m, n}) = n /\ Min({n, m}) = m /\ Max({n, m}) = n
<1>1. \A x \in {m, n} : (\A y \in {m, n} : x <= y) <=> x = m
  OBVIOUS
<1>2. \A x \in {m, n} : (\A y \in {m, n} : x >= y) <=> x = n
  OBVIOUS
<1>3. Min({m, n}) = m
  BY <1>1 DEF Min
<1>4. Max({m, n}) = n
  BY <1>2 DEF Max
<1>5. {n, m} = {m, n}
  OBVIOUS
<1> QED
  BY <1>3, <1>4, <1>5

LEMMA LinksAgree ==
  ASSUME NEW g, IsGraph(g), NEW serial
  PROVE  LinkRowsOf(g, serial) = {r \in LinkRowsAll(g) : AboutSerial(g, serial, {r.near, r.far})}
<1>0. \A x \in DOMAIN g.ends : g.ends[x] \subseteq Int
  BY DEF IsGraph
<1>1. ASSUME NEW r \in LinkRowsOf(g, serial)
      PROVE  r \in LinkRowsAll(g) /\ AboutSerial(g, serial, {r.near, r.far})
  <2>1. PICK t \in Joins(g.ends) :
          /\ r = LinkRow(t[1], Min({t[2], t[3]}), Max({t[2], t[3]}))
          /\ g.serial[g.host[t[2]]] = serial /\ t[2] # t[3]
    BY <1>1 DEF LinkRowsOf
  <2> DEFINE x == t[1]
             m == t[2]
             n == t[3]
  <2>2. x \in DOMAIN g.ends /\ m \in g.ends[x] /\ n \in g.ends[x]
    BY JoinsIs
  <2>3. r = LinkRow(x, Min({m, n}), Max({m, n})) /\ g.serial[g.host[m]] = serial /\ m # n
    BY <2>1
  <2> HIDE DEF x, m, n
  <2>4. m \in Int /\ n \in Int
    BY <1>0, <2>2
  <2>5. ASSUME m < n PROVE r \in LinkRowsAll(g) /\ r.near = m /\ r.far = n
    <3>1. r = LinkRow(x, m, n)
      BY <2>3, <2>4, <2>5, LowerFirst
    <3>2. <<x, m, n>> \in Joins(g.ends)
      BY <2>2, JoinsHas
    <3> QED
      BY <2>5, <3>1, <3>2 DEF LinkRowsAll, LinkRow
  <2>6. ASSUME n < m PROVE r \in LinkRowsAll(g) /\ r.near = n /\ r.far = m
    <3>1. r = LinkRow(x, n, m)
      BY <2>3, <2>4, <2>6, LowerFirst
    <3>2. <<x, n, m>> \in Joins(g.ends)
      BY <2>2, JoinsHas
    <3> QED
      BY <2>6, <3>1, <3>2 DEF LinkRowsAll, LinkRow
  <2> QED
    BY <2>3, <2>4, <2>5, <2>6 DEF AboutSerial
<1>2. ASSUME NEW r \in LinkRowsAll(g), AboutSerial(g, serial, {r.near, r.far})
      PROVE  r \in LinkRowsOf(g, serial)
  <2>1. PICK t \in Joins(g.ends) : r = LinkRow(t[1], t[2], t[3]) /\ t[2] < t[3]
    BY <1>2 DEF LinkRowsAll
  <2> DEFINE x == t[1]
             m == t[2]
             n == t[3]
  <2>2. x \in DOMAIN g.ends /\ m \in g.ends[x] /\ n \in g.ends[x]
    BY JoinsIs
  <2>3. r = LinkRow(x, m, n) /\ m < n
    BY <2>1
  <2> HIDE DEF x, m, n
  <2>4. m \in Int /\ n \in Int /\ m # n
    BY <1>0, <2>2, <2>3
  <2>5. g.serial[g.host[m]] = serial \/ g.serial[g.host[n]] = serial
    BY <1>2, <2>3 DEF AboutSerial, LinkRow
  <2>6. <<x, m, n>> \in Joins(g.ends) /\ <<x, n, m>> \in Joins(g.ends)
    BY <2>2, JoinsHas
  <2>7. /\ Min({m, n}) = m /\ Max({m, n}) = n
        /\ Min({n, m}) = m /\ Max({n, m}) = n
    BY <2>3, <2>4, LowerFirst
  <2>8. ASSUME NEW u \in Joins(g.ends), g.serial[g.host[u[2]]] = serial, u[2] # u[3]
        PROVE  LinkRow(u[1], Min({u[2], u[3]}), Max({u[2], u[3]})) \in LinkRowsOf(g, serial)
    BY <2>8 DEF LinkRowsOf
  <2>9. CASE g.serial[g.host[m]] = serial
    <3> DEFINE u == <<x, m, n>>
    <3>1. u \in Joins(g.ends) /\ u[1] = x /\ u[2] = m /\ u[3] = n
      BY <2>6
    <3> HIDE DEF u
    <3> QED
      BY <2>3, <2>4, <2>7, <2>8, <2>9, <3>1
  <2>10. CASE g.serial[g.host[n]] = serial
    <3> DEFINE u == <<x, n, m>>
    <3>1. u \in Joins(g.ends) /\ u[1] = x /\ u[2] = n /\ u[3] = m
      BY <2>6
    <3> HIDE DEF u
    <3> QED
      BY <2>3, <2>4, <2>7, <2>8, <2>10, <3>1
  <2> QED
    BY <2>5, <2>9, <2>10
<1> QED
  BY <1>1, <1>2

LEMMA ExternalAgrees ==
  ASSUME NEW g, IsGraph(g), NEW device
  PROVE  ExternalRowsOf(g, device) = {r \in ExternalRowsAll(g) : AboutName(g, device, {r.local})}
<1>0. ASSUME NEW t \in Joins(g.over) PROVE g.host[t[2]] \in Systems(g)
  BY JoinsIs DEF IsGraph, Systems
<1>1. ASSUME NEW r \in ExternalRowsOf(g, device)
      PROVE  r \in ExternalRowsAll(g) /\ AboutName(g, device, {r.local})
  <2>1. PICK t \in Joins(g.over) :
          /\ r = ExternalRow(t[1], t[2], t[3])
          /\ t[2] # t[3] /\ g.host[t[3]] \in g.external
          /\ g.host[t[2]] \in Systems(g) \ g.external /\ device \in NamesOf(g, g.host[t[2]])
    BY <1>1 DEF ExternalRowsOf
  <2>2. r.local = t[2]
    BY <2>1 DEF ExternalRow
  <2>3. r \in ExternalRowsAll(g)
    BY <2>1 DEF ExternalRowsAll
  <2> QED
    BY <2>1, <2>2, <2>3 DEF AboutName
<1>2. ASSUME NEW r \in ExternalRowsAll(g), AboutName(g, device, {r.local})
      PROVE  r \in ExternalRowsOf(g, device)
  <2>1. PICK t \in Joins(g.over) :
          /\ r = ExternalRow(t[1], t[2], t[3]) /\ t[2] # t[3]
          /\ g.host[t[2]] \notin g.external /\ g.host[t[3]] \in g.external
    BY <1>2 DEF ExternalRowsAll
  <2>2. r.local = t[2]
    BY <2>1 DEF ExternalRow
  <2>3. device \in NamesOf(g, g.host[t[2]]) /\ g.host[t[2]] \in Systems(g)
    BY <1>0, <1>2, <2>2 DEF AboutName
  <2> QED
    BY <2>1, <2>3 DEF ExternalRowsOf
<1> QED
  BY <1>1, <1>2

LEMMA FabricAgrees ==
  ASSUME NEW g, IsGraph(g), NEW device
  PROVE  {<<r.link, {r.a, r.b}>> : r \in FabricRowsOf(g, device)} =
         {<<r.link, {r.a, r.b}>> : r \in {q \in FabricRowsAll(g) : AboutName(g, device, {q.a, q.b})}}
<1>0. \A x \in DOMAIN g.ends : \A m, n \in g.ends[x] :
        /\ g.host[m] \in Int /\ g.host[n] \in Int
        /\ m # n => g.host[m] # g.host[n]
  BY DEF IsGraph
<1>1. ASSUME NEW r \in FabricRowsOf(g, device)
      PROVE  \E q \in FabricRowsAll(g) : /\ AboutName(g, device, {q.a, q.b})
                                         /\ <<r.link, {r.a, r.b}>> = <<q.link, {q.a, q.b}>>
  <2>1. PICK t \in Joins(g.ends) :
          /\ r = FabricRow(t[1], t[2], t[3]) /\ Underlay(g, t[2], t[3])
          /\ device \in NamesOf(g, g.host[t[2]]) /\ t[2] # t[3]
    BY <1>1 DEF FabricRowsOf
  <2> DEFINE x == t[1]
             m == t[2]
             n == t[3]
  <2>2. x \in DOMAIN g.ends /\ m \in g.ends[x] /\ n \in g.ends[x]
    BY JoinsIs
  <2>3. /\ r = FabricRow(x, m, n) /\ Underlay(g, m, n)
        /\ device \in NamesOf(g, g.host[m]) /\ m # n
    BY <2>1
  <2> HIDE DEF x, m, n
  <2>4. g.host[m] < g.host[n] \/ g.host[n] < g.host[m]
    BY <1>0, <2>2, <2>3
  <2>5. <<x, m, n>> \in Joins(g.ends) /\ <<x, n, m>> \in Joins(g.ends)
    BY <2>2, JoinsHas
  <2>6. Underlay(g, n, m)
    BY <2>3 DEF Underlay
  <2>7. r.link = x /\ r.a = m /\ r.b = n
    BY <2>3 DEF FabricRow
  <2>8. CASE g.host[m] < g.host[n]
    <3>1. r \in FabricRowsAll(g)
      BY <2>3, <2>5, <2>8 DEF FabricRowsAll
    <3> QED
      BY <2>3, <2>7, <3>1 DEF AboutName
  <2>9. CASE g.host[n] < g.host[m]
    <3> DEFINE q == FabricRow(x, n, m)
    <3>1. q \in FabricRowsAll(g)
      BY <2>5, <2>6, <2>9 DEF FabricRowsAll
    <3>2. q.link = x /\ q.a = n /\ q.b = m
      BY DEF FabricRow
    <3> HIDE DEF q
    <3>3. {r.a, r.b} = {q.a, q.b} /\ r.link = q.link
      BY <2>7, <3>2
    <3> QED
      BY <2>3, <3>1, <3>2, <3>3 DEF AboutName
  <2> QED
    BY <2>4, <2>8, <2>9
<1>2. ASSUME NEW q \in FabricRowsAll(g), AboutName(g, device, {q.a, q.b})
      PROVE  \E r \in FabricRowsOf(g, device) : <<r.link, {r.a, r.b}>> = <<q.link, {q.a, q.b}>>
  <2>1. PICK t \in Joins(g.ends) :
          /\ q = FabricRow(t[1], t[2], t[3]) /\ Underlay(g, t[2], t[3])
          /\ g.host[t[2]] < g.host[t[3]]
    BY <1>2 DEF FabricRowsAll
  <2> DEFINE x == t[1]
             m == t[2]
             n == t[3]
  <2>2. x \in DOMAIN g.ends /\ m \in g.ends[x] /\ n \in g.ends[x]
    BY JoinsIs
  <2>3. q = FabricRow(x, m, n) /\ Underlay(g, m, n) /\ g.host[m] < g.host[n]
    BY <2>1
  <2> HIDE DEF x, m, n
  <2>4. m # n
    BY <1>0, <2>2, <2>3
  <2>5. <<x, m, n>> \in Joins(g.ends) /\ <<x, n, m>> \in Joins(g.ends)
    BY <2>2, JoinsHas
  <2>6. Underlay(g, n, m)
    BY <2>3 DEF Underlay
  <2>7. q.link = x /\ q.a = m /\ q.b = n
    BY <2>3 DEF FabricRow
  <2>8. CASE device \in NamesOf(g, g.host[m])
    <3>1. q \in FabricRowsOf(g, device)
      BY <2>3, <2>4, <2>5, <2>8 DEF FabricRowsOf
    <3> QED
      BY <3>1
  <2>9. CASE device \in NamesOf(g, g.host[n])
    <3> DEFINE r == FabricRow(x, n, m)
    <3>1. r \in FabricRowsOf(g, device)
      BY <2>4, <2>5, <2>6, <2>9 DEF FabricRowsOf
    <3>2. r.link = x /\ r.a = n /\ r.b = m
      BY DEF FabricRow
    <3> HIDE DEF r
    <3>3. {r.a, r.b} = {q.a, q.b} /\ r.link = q.link
      BY <2>7, <3>2
    <3> QED
      BY <3>1, <3>3
  <2> QED
    BY <1>2, <2>7, <2>8, <2>9 DEF AboutName
<1> DEFINE S == FabricRowsOf(g, device)
           T == {q \in FabricRowsAll(g) : AboutName(g, device, {q.a, q.b})}
<1>3. \A r \in S : \E q \in T : <<r.link, {r.a, r.b}>> = <<q.link, {q.a, q.b}>>
  BY <1>1
<1>4. \A q \in T : \E r \in S : <<r.link, {r.a, r.b}>> = <<q.link, {q.a, q.b}>>
  BY <1>2
<1> HIDE DEF S, T
<1>5. {<<r.link, {r.a, r.b}>> : r \in S} = {<<r.link, {r.a, r.b}>> : r \in T}
  <2>1. ASSUME NEW p \in {<<r.link, {r.a, r.b}>> : r \in S}
        PROVE  p \in {<<r.link, {r.a, r.b}>> : r \in T}
    <3>1. PICK r \in S : p = <<r.link, {r.a, r.b}>>
      OBVIOUS
    <3>2. PICK q \in T : <<r.link, {r.a, r.b}>> = <<q.link, {q.a, q.b}>>
      BY <1>3
    <3> QED
      BY <3>1, <3>2
  <2>2. ASSUME NEW p \in {<<r.link, {r.a, r.b}>> : r \in T}
        PROVE  p \in {<<r.link, {r.a, r.b}>> : r \in S}
    <3>1. PICK q \in T : p = <<q.link, {q.a, q.b}>>
      OBVIOUS
    <3>2. PICK r \in S : <<r.link, {r.a, r.b}>> = <<q.link, {q.a, q.b}>>
      BY <1>4
    <3> QED
      BY <3>1, <3>2
  <2> QED
    BY <2>1, <2>2
<1> QED
  BY <1>5 DEF S, T

LEMMA NetworksAgree ==
  ASSUME NEW g, IsGraph(g), NEW serial
  PROVE  {r.network : r \in NetworkRowsOf(g, serial)} \subseteq {r.network : r \in NetworkList(g)}
<1>1. ASSUME NEW r \in NetworkRowsOf(g, serial)
      PROVE  \E q \in NetworkList(g) : q.network = r.network
  <2>1. PICK t \in g.vni : r = NetworkRow(t)
    BY <1>1 DEF NetworkRowsOf
  <2>2. t[2] \in DOMAIN g.zone /\ r.network = t[2]
    BY <2>1 DEF IsGraph, NetworkRow
  <2>3. DesignRow(t[2], g.zone[t[2]]) \in NetworkList(g)
    BY <2>2 DEF NetworkList
  <2> QED
    BY <2>2, <2>3 DEF DesignRow
<1> QED
  BY <1>1

LEMMA ZonesAgree ==
  ASSUME NEW g, NEW z \in DOMAIN g.zname, NEW term, ZonesNamed(g, term) = {z}
  PROVE  \E d \in ZoneDetail(g, term) : ZoneRow(z, d.networks) \in ZoneList(g)
<1>1. PICK d \in ZoneDetail(g, term) : d.networks = UNION {MembersOf(g, y) : y \in ZonesNamed(g, term)}
  BY DEF ZoneDetail
<1>2. d.networks = MembersOf(g, z)
  BY <1>1
<1> QED
  BY <1>2 DEF ZoneList
-----------------------------------------------------------------------------
\* A call gives, of every instance that can be read, what its query gives.
LEMMA CallGives ==
  ASSUME ReadsInv, NEW tl, NEW arg, NEW i \in Asks, NEW query, Call(tl, arg, i, query),
         \A g \in Graphs : AgreesWith(g, [tool |-> tl, arg |-> arg, results |-> Results(i, query)], query[g])
  PROVE  ReadsInv'
<1>1. reply' = [tool |-> tl, arg |-> arg, results |-> Results(i, query)] /\ UNCHANGED <<graph, readable>>
  BY DEF Call
<1>2. ASSUME NEW j \in DOMAIN Results(i, query), ~ Results(i, query)[j].error
      PROVE  graph[j] \in Graphs /\ Results(i, query)[j].rows = query[graph[j]]
  BY <1>2 DEF Results, Selected, Asks, ReadsInv
<1>3. ReadsAgree'
  BY <1>1, <1>2, ZenonT(40) DEF ReadsAgree, AgreesWith
<1> QED
  BY <1>1, <1>3 DEF ReadsInv

\* The queries that have a wider one to agree with.
LEMMA NarrowReads ==
  ASSUME ReadsInv, NEW i \in Asks, NEW arg
  PROVE  /\ Call("links", arg, i, [g \in Graphs |-> LinkRowsOf(g, arg)]) => ReadsInv'
         /\ Call("external", arg, i, [g \in Graphs |-> ExternalRowsOf(g, arg)]) => ReadsInv'
         /\ Call("fabric", arg, i, [g \in Graphs |-> FabricRowsOf(g, arg)]) => ReadsInv'
         /\ Call("networks", arg, i, [g \in Graphs |-> NetworkRowsOf(g, arg)]) => ReadsInv'
         /\ Call("zone", arg, i, [g \in Graphs |-> ZoneDetail(g, arg)]) => ReadsInv'
<1>1. ASSUME Call("links", arg, i, [g \in Graphs |-> LinkRowsOf(g, arg)]) PROVE ReadsInv'
  <2> DEFINE query == [g \in Graphs |-> LinkRowsOf(g, arg)]
  <2>1. ASSUME NEW g \in Graphs, NEW results
        PROVE  AgreesWith(g, [tool |-> "links", arg |-> arg, results |-> results], query[g])
    BY ReadsAssumption, LinksAgree DEF AgreesWith
  <2> HIDE DEF query
  <2>2. Call("links", arg, i, query)
    BY <1>1 DEF query
  <2> QED
    BY <2>1, <2>2, CallGives
<1>2. ASSUME Call("external", arg, i, [g \in Graphs |-> ExternalRowsOf(g, arg)]) PROVE ReadsInv'
  <2> DEFINE query == [g \in Graphs |-> ExternalRowsOf(g, arg)]
  <2>1. ASSUME NEW g \in Graphs, NEW results
        PROVE  AgreesWith(g, [tool |-> "external", arg |-> arg, results |-> results], query[g])
    BY ReadsAssumption, ExternalAgrees DEF AgreesWith
  <2> HIDE DEF query
  <2>2. Call("external", arg, i, query)
    BY <1>2 DEF query
  <2> QED
    BY <2>1, <2>2, CallGives
<1>3. ASSUME Call("fabric", arg, i, [g \in Graphs |-> FabricRowsOf(g, arg)]) PROVE ReadsInv'
  <2> DEFINE query == [g \in Graphs |-> FabricRowsOf(g, arg)]
  <2>1. ASSUME NEW g \in Graphs, NEW results
        PROVE  AgreesWith(g, [tool |-> "fabric", arg |-> arg, results |-> results], query[g])
    BY ReadsAssumption, FabricAgrees DEF AgreesWith
  <2> HIDE DEF query
  <2>2. Call("fabric", arg, i, query)
    BY <1>3 DEF query
  <2> QED
    BY <2>1, <2>2, CallGives
<1>4. ASSUME Call("networks", arg, i, [g \in Graphs |-> NetworkRowsOf(g, arg)]) PROVE ReadsInv'
  <2> DEFINE query == [g \in Graphs |-> NetworkRowsOf(g, arg)]
  <2>1. ASSUME NEW g \in Graphs, NEW results
        PROVE  AgreesWith(g, [tool |-> "networks", arg |-> arg, results |-> results], query[g])
    BY ReadsAssumption, NetworksAgree DEF AgreesWith
  <2> HIDE DEF query
  <2>2. Call("networks", arg, i, query)
    BY <1>4 DEF query
  <2> QED
    BY <2>1, <2>2, CallGives
<1>5. ASSUME Call("zone", arg, i, [g \in Graphs |-> ZoneDetail(g, arg)]) PROVE ReadsInv'
  <2> DEFINE query == [g \in Graphs |-> ZoneDetail(g, arg)]
  <2>1. ASSUME NEW g \in Graphs, NEW results
        PROVE  AgreesWith(g, [tool |-> "zone", arg |-> arg, results |-> results], query[g])
    BY ZonesAgree DEF AgreesWith
  <2> HIDE DEF query
  <2>2. Call("zone", arg, i, query)
    BY <1>5 DEF query
  <2> QED
    BY <2>1, <2>2, CallGives
<1> QED
  BY <1>1, <1>2, <1>3, <1>4, <1>5

\* The others have none.
LEMMA OtherReads ==
  ASSUME ReadsInv, NEW tl, NEW arg, NEW i \in Asks, NEW query, Call(tl, arg, i, query),
         arg = Nothing \/ tl \notin {"links", "external", "fabric", "networks", "zone"}
  PROVE  ReadsInv'
<1>1. ASSUME NEW g, NEW results, NEW rows
      PROVE  AgreesWith(g, [tool |-> tl, arg |-> arg, results |-> results], rows)
  BY DEF AgreesWith
<1> QED
  BY <1>1, CallGives

LEMMA ReadsInvNext == ReadsInv /\ [ReadsNext]_readVars => ReadsInv'
<1> SUFFICES ASSUME ReadsInv, [ReadsNext]_readVars PROVE ReadsInv'
  OBVIOUS
<1>0. CASE UNCHANGED readVars
  BY <1>0 DEF readVars, ReadsInv, ReadsAgree
<1>1. CASE GetSystems
  BY <1>1, OtherReads DEF GetSystems
<1>2. CASE GetInterfaceList
  <2>1. PICK i \in Asks, s \in Serials : Call("interfaces", s, i, [g \in Graphs |-> InterfaceRows(g, s)])
    BY <1>2 DEF GetInterfaceList
  <2> QED
    BY <2>1, OtherReads
<1>3. CASE GetLinkList
  <2>1. CASE \E i \in Asks : Call("links", Nothing, i, [g \in Graphs |-> LinkRowsAll(g)])
    BY <2>1, OtherReads
  <2>2. CASE \E i \in Asks, s \in Serials : Call("links", s, i, [g \in Graphs |-> LinkRowsOf(g, s)])
    BY <2>2, NarrowReads
  <2> QED
    BY <1>3, <2>1, <2>2 DEF GetLinkList
<1>4. CASE GetExternalPeerings
  <2>1. CASE \E i \in Asks : Call("external", Nothing, i, [g \in Graphs |-> ExternalRowsAll(g)])
    BY <2>1, OtherReads
  <2>2. CASE \E i \in Asks, d \in Terms : Call("external", d, i, [g \in Graphs |-> ExternalRowsOf(g, d)])
    BY <2>2, NarrowReads
  <2> QED
    BY <1>4, <2>1, <2>2 DEF GetExternalPeerings
<1>5. CASE GetFabricPeerings
  <2>1. CASE \E i \in Asks : Call("fabric", Nothing, i, [g \in Graphs |-> FabricRowsAll(g)])
    BY <2>1, OtherReads
  <2>2. CASE \E i \in Asks, d \in Terms : Call("fabric", d, i, [g \in Graphs |-> FabricRowsOf(g, d)])
    BY <2>2, NarrowReads
  <2> QED
    BY <1>5, <2>1, <2>2 DEF GetFabricPeerings
<1>6. CASE GetVirtualNetworks
  <2>1. CASE \E i \in Asks : Call("networks", Nothing, i, [g \in Graphs |-> NetworkRowsAll(g)])
    BY <2>1, OtherReads
  <2>2. CASE \E i \in Asks, s \in Serials : Call("networks", s, i, [g \in Graphs |-> NetworkRowsOf(g, s)])
    BY <2>2, NarrowReads
  <2> QED
    BY <1>6, <2>1, <2>2 DEF GetVirtualNetworks
<1>7. CASE GetVirtualNetworkList
  BY <1>7, OtherReads DEF GetVirtualNetworkList
<1>8. CASE GetRoutingZones
  BY <1>8, OtherReads DEF GetRoutingZones
<1>9. CASE GetRoutingZoneDetail
  BY <1>9, NarrowReads DEF GetRoutingZoneDetail
<1>10. CASE GetVirtualNetworkDetail
  <2>1. PICK i \in Asks, v \in Terms : \E query : Call("network", v, i, query)
    BY <1>10 DEF GetVirtualNetworkDetail
  <2> QED
    BY <2>1, OtherReads
<1> QED
  BY <1>0, <1>1, <1>2, <1>3, <1>4, <1>5, <1>6, <1>7, <1>8, <1>9, <1>10 DEF ReadsNext

\* A narrow read and a wide read agree, whatever the graphs of the instances are
\* and whichever of them can be read.
THEOREM NarrowReadsAgree == ReadsSpec => []ReadsAgree
<1>1. ReadsInit => ReadsInv
  BY DEF ReadsInit, ReadsInv, ReadsAgree
<1>2. ReadsInv => ReadsAgree
  BY DEF ReadsInv
<1> QED
  BY <1>1, <1>2, ReadsInvNext, PTL DEF ReadsSpec
=============================================================================
