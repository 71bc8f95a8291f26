--------------------------- MODULE FaultClusters ---------------------------
(***************************************************************************)
(* The analysis of raise events (src/primitives/anomaly_clustering.py and  *)
(* its tools in src/tools/anomaly_analytics.py): raises close in time are  *)
(* a cluster; of a cluster, what Apstra stores twice is made one, every    *)
(* anomaly is given the OSI layer of its type, and the anomaly of the      *)
(* lowest layer that others refer to most is the candidate for the cause.  *)
(*                                                                         *)
(* A raise has an identity, the values of its JSON in a fixed order (the   *)
(* two addresses of a BGP session first), and perhaps the device it is     *)
(* stored with and the neighbour that was expected.                        *)
(***************************************************************************)
EXTENDS Integers, FiniteSets, FiniteSetsExt, Sequences, SequencesExt, Functions

CONSTANTS
  RaiseSets,    \* the contents a window can have: sets of raises
  Gaps,         \* idle_gap_seconds
  MinSizes,     \* min_cluster_size
  Layer,        \* OSI_LAYER, of every type
  NoOne         \* None

VARIABLES
  raises,       \* the raises in the window
  found         \* the answer of the last call, or NoOne

faultVars == <<raises, found>>

Cabling == "cabling"
Bgp == "bgp"
Types == DOMAIN Layer

\* _identity_key: the identity with its type.
IdentityKey(r) == <<r.type, r.identity>>

\* The events are rows with an id of their own; the store keeps one row of an
\* identity, and with it one device, which a ghost does not have.  The tools
\* keep the gap between 5 and 3600 seconds, and a layer is a small number.
ASSUME FaultAssumption ==
  /\ \A S \in RaiseSets :
       /\ IsFiniteSet(S)
       /\ \A r \in S : r.id \in Int /\ r.ts \in Int
       /\ \A r, s \in S :
            /\ r.id = s.id => r = s
            /\ IdentityKey(r) = IdentityKey(s) =>
                 r.device = s.device \/ NoOne \in {r.device, s.device}
  /\ Gaps \subseteq Nat
  /\ Layer \in [Types -> Nat]
-----------------------------------------------------------------------------
(* Clusters in time. *)

\* ORDER BY timestamp; the rows of one timestamp in the order of their ids.
Earlier(r, s) == r.ts < s.ts \/ (r.ts = s.ts /\ r.id < s.id)

\* The rows of a set as a sequence, in an order in which no two are equal.
Ordered(S, before(_, _)) ==
  CHOOSE q \in [1 .. Cardinality(S) -> S] :
    \A i, j \in DOMAIN q : i < j => before(q[i], q[j])
InOrder(S) == Ordered(S, Earlier)

\* cluster_raises: a gap begins a new cluster.
Extended(gap, clusters, r) ==
  IF clusters = <<>> \/ r.ts - Last(Last(clusters)).ts > gap
  THEN Append(clusters, <<r>>)
  ELSE [clusters EXCEPT ![Len(clusters)] = Append(@, r)]

Clusters(q, gap) == FoldLeft(LAMBDA cs, r : Extended(gap, cs, r), <<>>, q)
Clustered(S, gap, least) == {c \in Range(Clusters(InOrder(S), gap)) : Len(c) >= least}
-----------------------------------------------------------------------------
(* One row for one fault. *)

\* Mutation: the rows are looked at in the order of time.
OldestFirst(r, s) == Earlier(r, s)

\* Rows with a device before those without, then by time.
DeviceFirst(r, s) ==
  IF (r.device = NoOne) = (s.device = NoOne) THEN Earlier(r, s) ELSE s.device = NoOne

\* Ghosts: of the rows of a key the first stays.
Logical(r) == [row |-> r, raw |-> 1, peers |-> {}, both |-> FALSE]
Canonical(S) ==
  {r \in S : \A s \in S \ {r} : IdentityKey(s) = IdentityKey(r) => DeviceFirst(r, s)}
WithoutGhosts(S) ==
  LET ordered == Ordered(Canonical(S), DeviceFirst)
  IN  [i \in DOMAIN ordered |-> Logical(ordered[i])]

Device(r) == {r.device} \ {NoOne}

\* _bgp_session_key: the two ends without their direction; NoOne for a row
\* that is of no session.
SessionKey(r) ==
  IF r.type = Bgp /\ Len(r.identity) >= 2
  THEN <<{r.identity[1], r.identity[2]}, SubSeq(r.identity, 3, Len(r.identity))>>
  ELSE NoOne

Merged(a, b, peers) ==
  [a EXCEPT !.raw = @ + b.raw, !.both = TRUE, !.peers = peers \cup Device(b.row)]

\* _collapse_bgp: the second row of a session is added to the first.
WithSession(out, x) ==
  LET key == SessionKey(x.row)
      at  == {i \in DOMAIN out : key # NoOne /\ SessionKey(out[i].row) = key}
  IN  IF key = NoOne THEN Append(out, x)
      ELSE IF at = {} THEN Append(out, [x EXCEPT !.peers = Device(x.row)])
      ELSE [out EXCEPT ![Min(at)] = Merged(@, x, @.peers)]

CollapseBgp(rows) == FoldLeft(WithSession, <<>>, rows)

\* _collapse_cabling: a row takes in the first later one whose expected
\* neighbour is its own device.  That its own neighbour is the other's device,
\* as the comment there says, is not asked.
MirrorsOf(rows, i, dropped) ==
  {j \in i + 1 .. Len(rows) : /\ j \notin dropped
                              /\ rows[j].row.type = Cabling
                              /\ rows[j].row.neighbor = rows[i].row.device}

WithMirror(rows, acc, i) ==
  LET x == rows[i]
      mirrors == MirrorsOf(rows, i, acc.dropped)
  IN  IF i \in acc.dropped THEN acc
      ELSE IF x.row.type # Cabling \/ x.row.neighbor = NoOne \/ mirrors = {}
      THEN [acc EXCEPT !.out = Append(@, x)]
      ELSE [dropped |-> acc.dropped \cup {Min(mirrors)},
            out |-> Append(acc.out, Merged(x, rows[Min(mirrors)],
                      IF x.peers = {} THEN Device(x.row) ELSE x.peers))]

CollapseCabling(rows) ==
  FoldLeft(LAMBDA acc, i : WithMirror(rows, acc, i),
    [dropped |-> {}, out |-> <<>>], [i \in DOMAIN rows |-> i]).out

Deduplicated(S) == CollapseCabling(CollapseBgp(WithoutGhosts(S)))
-----------------------------------------------------------------------------
(* The cause. *)

LayerOf(type) == IF type \in Types THEN Layer[type] ELSE 99
Layers(rows) == {LayerOf(rows[i].row.type) : i \in DOMAIN rows}

\* What the rows name, in their identities and in what was expected.
NamesIn(rows) ==
  UNION {Range(rows[i].row.identity) \cup {rows[i].row.neighbor} : i \in DOMAIN rows}

\* The devices of a row that some row names other than by its own identity.
Centrality(x, rows) ==
  Cardinality((x.peers \cup Device(x.row)) \cap (NamesIn(rows) \ Range(x.row.identity)))

\* score_root_cause: the first of the most central rows of the lowest layer.
Candidates(rows) == {i \in DOMAIN rows : LayerOf(rows[i].row.type) = Min(Layers(rows))}
RootCause(rows) ==
  LET best == Max({Centrality(rows[i], rows) : i \in Candidates(rows)})
  IN  [row |-> rows[Min({i \in Candidates(rows) : Centrality(rows[i], rows) = best})].row,
       confidence |-> IF Min(Layers(rows)) <= 2 /\ Cardinality(Layers(rows)) > 1 THEN "high"
                      ELSE IF Cardinality(Candidates(rows)) = 1 THEN "medium" ELSE "low"]

\* enrich_cluster
Enriched(cluster) ==
  LET rows == Deduplicated(Range(cluster))
  IN  [started |-> cluster[1].ts, raw |-> Range(cluster), logical |-> rows,
       devices |-> UNION {rows[i].peers \cup Device(rows[i].row) : i \in DOMAIN rows},
       chain |-> Layers(rows), cause |-> RootCause(rows)]
-----------------------------------------------------------------------------
\* The tools keep nothing, so one call is enough.
FaultInit == raises \in RaiseSets /\ found = NoOne

\* correlate_anomaly_events; a type keeps the clusters that contain it.
Correlate ==
  /\ found = NoOne
  /\ \E gap \in Gaps, least \in MinSizes, type \in Types \cup {NoOne} :
       LET kept == {c \in Clustered(raises, gap, least) :
                      type = NoOne \/ \E r \in Range(c) : r.type = type}
       IN  found' = [tool |-> "correlate", gap |-> gap, least |-> least, type |-> type,
                     clusters |-> {Enriched(c) : c \in kept}]
  /\ UNCHANGED raises

\* get_correlated_faults: the whole window, of one type if one is given.
CorrelatedFaults ==
  /\ found = NoOne
  /\ \E type \in Types \cup {NoOne} :
       LET S == {r \in raises : type \in {NoOne, r.type}}
       IN  found' = [tool |-> "faults", raw |-> Cardinality(S), logical |-> Deduplicated(S)]
  /\ UNCHANGED raises

\* get_device_anomaly_heatmap: raises by device, and whether they are of
\* several layers.
Heatmap ==
  /\ found = NoOne
  /\ found' = [tool |-> "heatmap", rows |->
       [d \in {r.device : r \in raises} |->
         LET S == {r \in raises : r.device = d}
         IN  [total |-> Cardinality(S), crosses |-> Cardinality({LayerOf(r.type) : r \in S}) > 1]]]
  /\ UNCHANGED raises

FaultNext == Correlate \/ CorrelatedFaults \/ Heatmap

FaultSpec == FaultInit /\ [][FaultNext]_faultVars
-----------------------------------------------------------------------------
\* Said without the order of the code: two raises are of one cluster unless
\* there is a raise, from the first on and before the second, that none
\* follows within the gap.
Apart(S, r, s, gap) ==
  \E x \in S : /\ r.ts <= x.ts /\ x.ts < s.ts
               /\ \A y \in S : y.ts <= x.ts \/ y.ts > x.ts + gap
Together(S, r, s, gap) == ~ Apart(S, r, s, gap) /\ ~ Apart(S, s, r, gap)
Around(S, r, gap) == {s \in S : Together(S, r, s, gap)}

RawSum(rows) == MapThenSumSet(LAMBDA i : rows[i].raw, DOMAIN rows)
TotalSum(rows) == MapThenSumSet(LAMBDA d : rows[d].total, DOMAIN rows)

\* The answer to a call about the window S.
Faithful(answer, S) ==
  CASE answer.tool = "correlate" ->
         /\ {c.raw : c \in answer.clusters} =
              {g \in {Around(S, r, answer.gap) : r \in S} :
                 /\ Cardinality(g) >= answer.least
                 /\ answer.type = NoOne \/ \E r \in g : r.type = answer.type}
         /\ \A c \in answer.clusters :
              /\ UNION {Device(r) : r \in c.raw} \subseteq c.devices
              /\ RawSum(c.logical) = Cardinality({IdentityKey(r) : r \in c.raw})
              /\ \A r \in c.raw : LayerOf(c.cause.row.type) <= LayerOf(r.type)
    [] answer.tool = "faults" -> RawSum(answer.logical) <= answer.raw
    [] OTHER -> TotalSum(answer.rows) = Cardinality(S)

\* The clusters reported are exactly the groups of raises the gaps leave that
\* are large enough and contain the type; and what a cluster says of its
\* raises loses none of their devices, counts every fault that is not a ghost
\* once, although the rows of it are merged in three passes, and names a cause
\* of the lowest layer there is among the raises themselves.
ClustersFaithful == found # NoOne => Faithful(found, raises)
=============================================================================
