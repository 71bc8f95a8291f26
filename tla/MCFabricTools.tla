--------------------------- MODULE MCFabricTools ---------------------------
(***************************************************************************)
(* The tools that look at a fabric and keep nothing between calls.  One of *)
(* them runs; the others stand still.                                      *)
(***************************************************************************)
EXTENDS FabricReads, DesignDrift, MtuCheck, RoutingPolicy, FaultClusters, MCTriage

VARIABLE tool

-----------------------------------------------------------------------------
(* Small fabrics: switches 1 and 2, an external system 3; interface 5, of   *)
(* switch 2, lies between the two of switch 1 in the order of the ids.      *)
AGraph(names, bgp, zones) ==
  [switches |-> {1, 2}, external |-> {3},
   label |-> names.label, hostname |-> names.hostname, serial |-> <<"S1", "S2", "none">>,
   host |-> (4 :> 1 @@ 5 :> 2 @@ 6 :> 1 @@ 7 :> 3),
   ends |-> ("l1" :> {4, 5} @@ "l2" :> {5, 6} @@ "l3" :> {6, 7}),
   ebgp |-> bgp.ebgp, asn |-> bgp.asn,
   over |-> ("s1" :> {6, 7} @@ "s2" :> {5, 7}),
   vni |-> {<<1, "n1">>, <<2, "n1">>, <<2, "n2">>},
   vname |-> zones.vname, zone |-> zones.zone, zname |-> zones.zname, vrf |-> zones.vrf]

Namings == {[label |-> <<"A", "B", "X">>, hostname |-> <<"a", "b", "x">>],
            [label |-> <<"A", "B", "X">>, hostname |-> <<"B", "b", "x">>]}
Sessions == {[ebgp |-> {4, 5, 6}, asn |-> {1, 2}], [ebgp |-> {4, 5}, asn |-> {1, 2, 3}]}
Zonings ==
  {[vname |-> ("n1" :> "web" @@ "n2" :> w), zone |-> ("n1" :> "z1" @@ "n2" :> z),
    zname |-> ("z1" :> "red" @@ "z2" :> "blue"), vrf |-> ("z1" :> "vr" @@ "z2" :> v)] :
     <<w, z, v>> \in {<<"db", "z2", "vb">>, <<"web", "z1", "red">>, <<"web", "z2", "red">>}}

SmallGraphs == {AGraph(n, b, z) : n \in Namings, b \in Sessions, z \in Zonings}
-----------------------------------------------------------------------------
(* What a configlet holds: the texts of its generators. *)
SmallContents == {<<>>, <<"a">>, <<"a", "b">>}
-----------------------------------------------------------------------------
(* Two links of one role between three switches. *)
TwoLinkEnds == [l1 |-> [a |-> "w1", b |-> "w2"], l2 |-> [a |-> "w2", b |-> "w3"]]
TwoLinkRoles == [l1 |-> "spine_leaf", l2 |-> "spine_leaf"]
\* An interface with both MTUs, one of two inet MTUs, or with one or none of them.
SixConfigs ==
  {[phys |-> 9192, inet |-> 9170], [phys |-> 9192, inet |-> 9050],
   [phys |-> 9192, inet |-> Unknown], [phys |-> Unknown, inet |-> 9170],
   [phys |-> Unknown, inet |-> 9050], Silent}
AllOrW1 == {{}, {"w1"}}
-----------------------------------------------------------------------------
(* Three peerings, two of one address, one on a switch without a serial,    *)
(* which goes by the name of the first.                                     *)
ThreeSwitches ==
  <<[label |-> 4, hostname |-> 2, serial |-> 12], [label |-> 1, hostname |-> 1, serial |-> 11],
    [label |-> 1, hostname |-> 3, serial |-> Null]>>
ThreePeerings ==
  {[device |-> 1, serial |-> 11, ip |-> 21], [device |-> 2, serial |-> 12, ip |-> 21],
   [device |-> 3, serial |-> Null, ip |-> 22]}

Term(policy, filter, opaque, action) ==
  [policy |-> policy, filter |-> filter, opaque |-> opaque, action |-> action]
ThreeChains ==
  {<<Term("P", {"r1", "r3"}, Routes, "accept"), Term("P", Routes, Routes, "reject")>>,
   <<Term("P", {"r1", "r2"}, Routes, "next_term"), Term("Q", {"r2"}, Routes, "reject")>>,
   <<Term("P", Routes, {"r1"}, "accept"), Term("P", {"r2"}, Routes, "next_policy"),
     Term("P", Routes, Routes, "reject"), Term("Q", Routes, Routes, "accept")>>}
OneReason == [r \in {"r3"} |-> "other"]
-----------------------------------------------------------------------------
(* Windows of up to three raises: a cable seen from both ends and a third    *)
(* switch, a session seen from both ends and by a ghost, an interface.       *)
Kind(type, device, identity, neighbor) ==
  [type |-> type, device |-> device, identity |-> identity, neighbor |-> neighbor]
Kinds ==
  <<Kind("cabling", "X", <<"p1">>, "Y"), Kind("cabling", "Y", <<"p2">>, "X"),
    Kind("cabling", "Z", <<"p3">>, "X"), Kind("bgp", "X", <<"a", "b">>, NoOne),
    Kind("bgp", "Y", <<"b", "a">>, NoOne), Kind("bgp", NoOne, <<"a", "b">>, NoOne),
    Kind("interface", "Y", <<"p2">>, NoOne)>>
Raise(k, t) ==
  [id |-> 10 * t + k, ts |-> t, type |-> Kinds[k].type, device |-> Kinds[k].device,
   identity |-> Kinds[k].identity, neighbor |-> Kinds[k].neighbor]
SmallWindows ==
  UNION {kSubset(n, {Raise(k, t) : k \in DOMAIN Kinds, t \in {0, 1, 3}}) : n \in 1 .. 3}
SmallLayers == [cabling |-> 1, interface |-> 2, bgp |-> 4]
-----------------------------------------------------------------------------
(* A tool that does not run. *)
ReadsIdle  == graph = <<>> /\ readable = {} /\ reply = Nothing
DriftIdle  == copies = <<>> /\ catalogue = <<>> /\ seen = Missing /\ moments = {} /\ report = Missing /\ edits = 0
MtuIdle    == config = <<>> /\ model = <<>> /\ links = {} /\ todo = {} /\ unread = {} /\ errors = {} /\ check = Unknown
PolicyIdle == peerings = {} /\ chain = <<>> /\ call = NoCall /\ parts = <<>> /\ verdict = NoVerdict /\ changes = 0
FaultIdle  == raises = {} /\ found = NoOne
TriageIdle == /\ trouble = {} /\ stood = {} /\ shown = {} /\ turns = 0
              /\ request = Refused /\ got = <<>> /\ answer = Refused

ToolsInit ==
  \/ tool = "reads"  /\ ReadsInit /\ DriftIdle /\ MtuIdle /\ PolicyIdle /\ FaultIdle /\ TriageIdle
  \/ tool = "drift"  /\ ReadsIdle /\ DriftInit /\ MtuIdle /\ PolicyIdle /\ FaultIdle /\ TriageIdle
  \/ tool = "mtu"    /\ ReadsIdle /\ DriftIdle /\ MtuInit /\ PolicyIdle /\ FaultIdle /\ TriageIdle
  \/ tool = "policy" /\ ReadsIdle /\ DriftIdle /\ MtuIdle /\ PolicyInit /\ FaultIdle /\ TriageIdle
  \/ tool = "faults" /\ ReadsIdle /\ DriftIdle /\ MtuIdle /\ PolicyIdle /\ FaultInit /\ TriageIdle
  \/ tool = "triage" /\ ReadsIdle /\ DriftIdle /\ MtuIdle /\ PolicyIdle /\ FaultIdle /\ TriageInit

ToolsNext ==
  /\ UNCHANGED tool
  /\ \/ tool = "reads"  /\ ReadsNext /\ UNCHANGED <<driftVars, mtuVars, policyVars, faultVars, triageVars>>
     \/ tool = "drift"  /\ DriftNext /\ UNCHANGED <<readVars, mtuVars, policyVars, faultVars, triageVars>>
     \/ tool = "mtu"    /\ MtuNext /\ UNCHANGED <<readVars, driftVars, policyVars, faultVars, triageVars>>
     \/ tool = "policy" /\ PolicyNext /\ UNCHANGED <<readVars, driftVars, mtuVars, faultVars, triageVars>>
     \/ tool = "faults" /\ FaultNext /\ UNCHANGED <<readVars, driftVars, mtuVars, policyVars, triageVars>>
     \/ tool = "triage" /\ TriageNext /\ UNCHANGED <<readVars, driftVars, mtuVars, policyVars, faultVars>>

ToolsSpec == ToolsInit /\ [][ToolsNext]_<<tool, readVars, driftVars, mtuVars, policyVars, faultVars, triageVars>>
=============================================================================
