------------------------------ MODULE MtuCheck ------------------------------
(***************************************************************************)
(* The MTU check of a fabric (src/handlers/mtu_check.py): the links come   *)
(* from the graph, the MTUs configured on their interfaces from the        *)
(* rendered configuration of every switch, one request after the other,    *)
(* and a request that fails leaves the values of its switch unknown, or    *)
(* those of the graph, if it has any.  The check judges every link, then   *)
(* all the links of a role together, passing over what is unknown, and     *)
(* reports one assessment.                                                 *)
(***************************************************************************)
EXTENDS Integers, FiniteSets, FiniteSetsExt

CONSTANTS
  Links,        \* links of the fabric
  Ends,         \* Ends[l]: the two switches of link l; Ends[l].a and Ends[l].b
  Role,         \* Role[l]: "spine_leaf", ..., or another role
  Unassigned,   \* switches without a system_id: no device, no configuration
  Configs,      \* what a configuration may set on an interface: [phys, inet]
  InetMtus,     \* inet MTUs a configuration, or the graph, may have
  Focus,        \* the choices of focus_systems: sets of switches, {} for none
  Unknown       \* None

ASSUME MtuAssumption ==
  /\ IsFiniteSet(Links) /\ Unknown \notin Nat \cup [inner : Int, assessment : {"ok", "limited", "critical"}]
  /\ InetMtus \subseteq Nat \ {0} /\ IsFiniteSet(InetMtus)
  /\ Configs \subseteq [phys : Nat \cup {Unknown}, inet : InetMtus \cup {Unknown}]

VxlanOverhead == 50
InnerEthHeader == 14
L2OverheadMin == 14
L2OverheadMax == 24
MinFabricInet == 9000
MinFabricPhysical == 9050
FabricRoles == {"spine_leaf", "leaf_peer_link", "spine_superspine"}

Sides == {"a", "b"}
Silent == [phys |-> Unknown, inet |-> Unknown]
SwitchesOf(ls) == UNION {{Ends[l].a, Ends[l].b} : l \in ls} \ Unassigned

VARIABLES
  config,       \* config[l][side]: what is configured there
  model,        \* model[l][side]: l3_mtu of the graph, Unknown where it has none
  links,        \* the links this check looks at
  todo,         \* switches whose configuration is still to be fetched
  unread,       \* switches whose configuration could not be fetched
  errors,       \* rendered_config_errors: the switches the report will name
  check         \* the report, or Unknown

mtuVars == <<config, model, links, todo, unread, errors, check>>

\* What the check knows of one side of a link: the physical MTU of the
\* rendered configuration, and its inet MTU or else that of the graph.  Either
\* may stay unknown.
Side(l, s) ==
  LET got == IF Ends[l][s] \in unread THEN Silent ELSE config[l][s]
  IN  [phys |-> got.phys, inet |-> IF got.inet = Unknown THEN model[l][s] ELSE got.inet]

When(condition, where, name, severity) ==
  IF condition THEN {[where |-> where, check |-> name, severity |-> severity]} ELSE {}

\* Both values are known and differ.
Differ(x, y) == x # Unknown /\ y # Unknown /\ x # y
Below(x, least) == x # Unknown /\ x < least

\* _validate_interface_pair: what is wrong with one side of a link, and with
\* the two sides together.
SideIssues(l, s) ==
  LET v == Side(l, s)
      both == v.phys # Unknown /\ v.inet # Unknown
      fabric == Role[l] \in FabricRoles
  IN  When(both /\ v.phys - v.inet < L2OverheadMin, <<l, s>>, "inet_exceeds_physical", "critical")
      \cup When(both /\ v.phys - v.inet > L2OverheadMax, <<l, s>>, "inet_mtu_too_low", "warning")
      \cup When(fabric /\ Below(v.inet, MinFabricInet), <<l, s>>, "fabric_inet_mtu_too_low",
                IF Below(v.inet, 1550) THEN "critical" ELSE "warning")
      \cup When(fabric /\ Below(v.phys, MinFabricPhysical), <<l, s>>, "fabric_physical_mtu_too_low",
                IF Below(v.phys, 1564) THEN "critical" ELSE "warning")

LinkIssues(l) ==
  When(Differ(Side(l, "a").phys, Side(l, "b").phys), l, "physical_mtu_asymmetry", "critical")
  \cup When(Differ(Side(l, "a").inet, Side(l, "b").inet), l, "inet_mtu_asymmetry", "critical")
  \cup SideIssues(l, "a") \cup SideIssues(l, "b")

\* The values known on the links of a role.
FabricInet(role) ==
  {Side(l, s).inet : l \in {k \in links : Role[k] = role}, s \in Sides} \ {Unknown}
FabricPhys(role) ==
  {Side(l, s).phys : l \in {k \in links : Role[k] = role}, s \in Sides} \ {Unknown}

AllFabricInet == UNION {FabricInet(r) : r \in FabricRoles}

\* _check_fabric_consistency: one value per role, or packets of one flow pass
\* and those of another are dropped.
FabricIssues ==
  UNION {When(Cardinality(FabricInet(r)) > 1, r, "fabric_inet_mtu_inconsistency", "critical")
         \cup When(Cardinality(FabricPhys(r)) > 1, r, "fabric_physical_mtu_inconsistency", "critical")
         : r \in FabricRoles}

Lowest(S) == IF S = {} THEN Unknown ELSE Min(S)

\* _vxlan_headroom, of the lowest inet MTU of the fabric.
MaxInnerIp(inet) == inet - VxlanOverhead - InnerEthHeader
Headroom(inet) ==
  IF inet = Unknown THEN Unknown
  ELSE [inner |-> MaxInnerIp(inet),
        assessment |-> IF MaxInnerIp(inet) >= 9000 THEN "ok"
                       ELSE IF MaxInnerIp(inet) >= 1500 THEN "limited" ELSE "critical"]

Assessment(issues) ==
  IF issues = {} THEN "ok"
  ELSE IF \E i \in issues : i.severity = "critical" THEN "critical" ELSE "warning"

Report ==
  LET issues == (UNION {LinkIssues(l) : l \in links}) \cup FabricIssues
      inets  == {Side(l, s).inet : l \in links, s \in Sides} \ {Unknown}
  IN  [assessment |-> Assessment(issues),
       ok_links   |-> {l \in links : LinkIssues(l) = {}},
       vxlan      |-> Headroom(Lowest(AllFabricInet)),
       ecmp_risk  |-> Cardinality(AllFabricInet) > 1,
       path       |-> Lowest(inets),
       errors     |-> errors]
-----------------------------------------------------------------------------
MtuInit ==
  /\ config \in [Links -> [Sides -> Configs]]
  /\ \A l \in Links, s \in Sides : Ends[l][s] \in Unassigned => config[l][s] = Silent
  /\ model \in [Links -> [Sides -> InetMtus \cup {Unknown}]]
  /\ links = {} /\ todo = {} /\ unread = {} /\ errors = {} /\ check = Unknown

\* The links of the graph, or those that touch a system in focus.
Begin ==
  /\ links = {}
  /\ \E f \in Focus :
       links' = IF f = {} THEN Links ELSE {l \in Links : {Ends[l].a, Ends[l].b} \cap f # {}}
  /\ todo' = SwitchesOf(links')
  /\ UNCHANGED <<config, model, unread, errors, check>>

\* The configuration of one switch is rendered and its interfaces parsed, in
\* an order that is of no consequence ...
NextSwitch == CHOOSE w \in todo : TRUE

Fetch ==
  /\ todo # {}
  /\ todo' = todo \ {NextSwitch}
  /\ UNCHANGED <<config, model, links, unread, errors, check>>

\* Mutation: the report does not name a switch that could not be read.
FetchFailsUnnamed ==
  /\ todo # {}
  /\ todo' = todo \ {NextSwitch}
  /\ unread' = unread \cup {NextSwitch}
  /\ UNCHANGED <<config, model, links, errors, check>>

\* ... or that request fails: nothing is known of its interfaces, and its name
\* goes to rendered_config_errors.
FetchFails ==
  /\ todo # {}
  /\ todo' = todo \ {NextSwitch}
  /\ unread' = unread \cup {NextSwitch}
  /\ errors' = errors \cup {NextSwitch}
  /\ UNCHANGED <<config, model, links, check>>

Assess ==
  /\ links # {} /\ todo = {} /\ check = Unknown
  /\ check' = Report
  /\ UNCHANGED <<config, model, links, todo, unread, errors>>

MtuNext == Begin \/ Fetch \/ FetchFails \/ Assess

MtuSpec == MtuInit /\ [][MtuNext]_mtuVars
-----------------------------------------------------------------------------
\* The inet MTU of a side of a link: what is configured; the graph's where that
\* says nothing, and for a switch the report names as one it could not read;
\* Unknown where the graph has none either.
Carries(l, s) ==
  IF config[l][s].inet = Unknown \/ Ends[l][s] \in check.errors THEN model[l][s]
  ELSE config[l][s].inet
Passes(size, l, s) == size <= Carries(l, s)
IsTold(l, s) == Carries(l, s) # Unknown

\* A fabric that is found in order drops no packet on one path that passes
\* another, whatever configurations could not be read: of a role that was
\* looked at all sides agree on every size, and what fits the headroom passes
\* them.  Where this may be wrong the report says so: a side of a switch it
\* names counts as the graph has it.  Sides of which neither configuration nor
\* graph tells anything are passed over.
OkCarries ==
  check # Unknown /\ check.assessment = "ok" =>
    \A l, k \in links, s, t \in Sides :
      Role[l] \in FabricRoles /\ IsTold(l, s) =>
        /\ Role[k] = Role[l] /\ IsTold(k, t) =>
             \A size \in InetMtus : Passes(size, l, s) = Passes(size, k, t)
        /\ check.vxlan # Unknown /\ Passes(check.vxlan.inner + VxlanOverhead + InnerEthHeader, l, s)
=============================================================================
