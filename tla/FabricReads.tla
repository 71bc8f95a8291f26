---------------------------- MODULE FabricReads ----------------------------
(***************************************************************************)
(* The read handlers of the tools (src/handlers/systems.py, links.py,      *)
(* interfaces.py, bgp.py, virtual_networks.py) and the parsers of their    *)
(* rows (src/primitives/response_parser.py).  A handler asks every chosen  *)
(* instance for its graph of the blueprint, runs one query on it and       *)
(* answers with the rows, or with an error and no rows where that failed.  *)
(*                                                                         *)
(* A query is the set of rows it returns.  A row carries the identities of *)
(* the nodes it joins; the attributes that are copied along with them are  *)
(* functions of the node and are left out.                                 *)
(***************************************************************************)
EXTENDS Integers, FiniteSets, FiniteSetsExt

CONSTANTS
  Instances,   \* the sessions of the server
  Graphs,      \* the contents a blueprint can have
  Terms,       \* what a caller can name a device, a network or a zone by
  Everyone,    \* instance_name = "all"
  Nothing      \* None

\* A graph:
\*   switches, external   sets of systems; label, hostname, serial of a system
\*   host, ebgp           system of an interface; the interfaces with protocols = 'ebgp'
\*   ends, asn            interfaces of a link; the systems that have an ASN domain
\*   over                 interfaces a BGP session's endpoints are layered over
\*   vni                  <<system, network>> pairs; vname, zone of a network; zname, vrf of a zone
\* Interfaces are numbered, an end of a link or a session is an interface of a
\* system, a link joins two systems, and what is deployed is designed.
IsGraph(g) ==
  /\ DOMAIN g.host \subseteq Int
  /\ \A n \in DOMAIN g.host : g.host[n] \in Int /\ g.host[n] \in DOMAIN g.label
  /\ \A x \in DOMAIN g.ends : g.ends[x] \subseteq DOMAIN g.host
  /\ \A x \in DOMAIN g.over : g.over[x] \subseteq DOMAIN g.host
  /\ \A x \in DOMAIN g.ends : \A m, n \in g.ends[x] : m # n => g.host[m] # g.host[n]
  /\ \A t \in g.vni : t[2] \in DOMAIN g.zone

ASSUME ReadsAssumption == \A g \in Graphs : IsGraph(g)

VARIABLES
  graph,       \* graph[i]: the blueprint as instance i has it
  readable,    \* the instances whose graph can be fetched
  reply        \* reply of the last call

readVars == <<graph, readable, reply>>

Systems(g) == DOMAIN g.label
Interfaces(g) == DOMAIN g.host
\* A link or a session and an ordered pair of interfaces at its ends.
Joins(Ends) ==
  LET all == UNION {Ends[x] : x \in DOMAIN Ends}
  IN  {t \in (DOMAIN Ends) \X all \X all : {t[2], t[3]} \subseteq Ends[t[1]]}
NamesOf(g, s) == {g.label[s], g.hostname[s]}
-----------------------------------------------------------------------------
(* The queries. *)

\* Role and type of the managed switches.
SystemRows(g) == g.switches

InterfaceRows(g, serial) == {n \in Interfaces(g) : g.serial[g.host[n]] = serial}

LinkRow(l, m, n) == [link |-> l, near |-> m, far |-> n]

\* Every link once: the lower interface id comes first.
LinkRowsAll(g) ==
  {LinkRow(t[1], t[2], t[3]) : t \in {u \in Joins(g.ends) : u[2] < u[3]}}

\* Mutation: the links the system's interfaces begin, and not those they end.
LinkRowsBeginning(g, serial) ==
  {r \in LinkRowsAll(g) : g.serial[g.host[r.near]] = serial}

\* The links of one system, from its interface to the far one and then put
\* in the order of the ids: the system may be on either side of the row.
LinkRowsOf(g, serial) ==
  {LinkRow(t[1], Min({t[2], t[3]}), Max({t[2], t[3]})) : t \in
    {u \in Joins(g.ends) : g.serial[g.host[u[2]]] = serial /\ u[2] # u[3]}}

\* A session has an endpoint over an interface of the fabric, the local side,
\* and one over an interface of a system that is not part of it.
ExternalRow(s, m, n) == [session |-> s, local |-> m, remote |-> n]

ExternalRowsAll(g) ==
  {ExternalRow(t[1], t[2], t[3]) : t \in
    {u \in Joins(g.over) : /\ u[2] # u[3]
                           /\ g.host[u[2]] \notin g.external
                           /\ g.host[u[3]] \in g.external}}

ExternalRowsOf(g, device) ==
  LET anchors == {s \in Systems(g) \ g.external : device \in NamesOf(g, s)}
  IN  {ExternalRow(t[1], t[2], t[3]) : t \in
        {u \in Joins(g.over) : /\ u[2] # u[3]
                               /\ g.host[u[2]] \in anchors
                               /\ g.host[u[3]] \in g.external}}

\* An eBGP link between two systems of the fabric that both have an ASN.
FabricRow(l, m, n) == [link |-> l, a |-> m, b |-> n]

Underlay(g, m, n) ==
  /\ {m, n} \subseteq g.ebgp
  /\ g.host[m] \notin g.external /\ g.host[n] \notin g.external
  /\ {g.host[m], g.host[n]} \subseteq g.asn

\* sy_a.id < sy_b.id: each link once.
FabricRowsAll(g) ==
  {FabricRow(t[1], t[2], t[3]) : t \in
    {u \in Joins(g.ends) : Underlay(g, u[2], u[3]) /\ g.host[u[2]] < g.host[u[3]]}}

\* The named device is always the first side.
FabricRowsOf(g, device) ==
  {FabricRow(t[1], t[2], t[3]) : t \in
    {u \in Joins(g.ends) : /\ Underlay(g, u[2], u[3])
                           /\ device \in NamesOf(g, g.host[u[2]])
                           /\ u[2] # u[3]}}

\* A network as it is deployed on one switch.
NetworkRow(t) == [switch |-> t[1], network |-> t[2]]
NetworkRowsAll(g) == {NetworkRow(t) : t \in g.vni}
NetworkRowsOf(g, serial) == {NetworkRow(t) : t \in {u \in g.vni : g.serial[u[1]] = serial}}

\* A network as it is designed; its zone may be missing.
DesignRow(v, z) == [network |-> v, zone |-> z]
NetworkList(g) == {DesignRow(v, g.zone[v]) : v \in DOMAIN g.zone}

MembersOf(g, z) == {v \in DOMAIN g.zone : g.zone[v] = z}
ZoneRow(z, members) == [zone |-> z, count |-> Cardinality(members)]
ZoneList(g) == {ZoneRow(z, MembersOf(g, z)) : z \in DOMAIN g.zname}

\* The zones a term names: by label or by VRF name, so possibly several.
ZonesNamed(g, term) == {z \in DOMAIN g.zname : term \in {g.zname[z], g.vrf[z]}}

\* The rows of all the zones named are gathered into one zone: its networks
\* and the systems that host one of them.
ZoneDetail(g, term) ==
  LET zones == ZonesNamed(g, term)
      vns   == UNION {MembersOf(g, z) : z \in zones}
  IN  IF zones = {} THEN {}
      ELSE {[networks |-> vns, systems |-> {t[1] : t \in {u \in g.vni : u[2] \in vns}}]}

\* The network a term names by label or id, and where it is deployed.  The
\* first row gives the zone; the rows of networks of one name are merged.
NetworksNamed(g, term) == {v \in DOMAIN g.zone : term \in {v, g.vname[v]}}
NetworkDetail(g, term) ==
  LET vns == NetworksNamed(g, term)
  IN  IF vns = {} THEN {}
      ELSE {[zone |-> g.zone[v], systems |-> {t[1] : t \in {u \in g.vni : u[2] \in vns}}] : v \in vns}
-----------------------------------------------------------------------------
(* The calls. *)

\* _select_sessions: a name chooses one instance, no name or "all" all of them.
Selected(name) == IF name = Everyone THEN Instances ELSE {name}

\* One result per instance; a failure is an error with no rows and count 0.
Results(name, query) ==
  [i \in Selected(name) |->
    IF i \in readable THEN [error |-> FALSE, rows |-> query[graph[i]]]
                      ELSE [error |-> TRUE, rows |-> {}]]

\* A handler keeps nothing, so one call is enough.
Call(tool, arg, name, query) ==
  /\ reply = Nothing
  /\ reply' = [tool |-> tool, arg |-> arg, results |-> Results(name, query)]
  /\ UNCHANGED <<graph, readable>>

TotalCount(a) == MapThenSumSet(LAMBDA i : Cardinality(a.results[i].rows), DOMAIN a.results)

Asks == Instances \cup {Everyone}
Serials == UNION {{g.serial[s] : s \in Systems(g) \ g.external} : g \in Graphs}

GetSystems == \E i \in Asks : Call("systems", Nothing, i, [g \in Graphs |-> SystemRows(g)])
GetInterfaceList == \E i \in Asks, s \in Serials :
  Call("interfaces", s, i, [g \in Graphs |-> InterfaceRows(g, s)])
GetLinkList ==
  \/ \E i \in Asks : Call("links", Nothing, i, [g \in Graphs |-> LinkRowsAll(g)])
  \/ \E i \in Asks, s \in Serials : Call("links", s, i, [g \in Graphs |-> LinkRowsOf(g, s)])
GetExternalPeerings ==
  \/ \E i \in Asks : Call("external", Nothing, i, [g \in Graphs |-> ExternalRowsAll(g)])
  \/ \E i \in Asks, d \in Terms : Call("external", d, i, [g \in Graphs |-> ExternalRowsOf(g, d)])
GetFabricPeerings ==
  \/ \E i \in Asks : Call("fabric", Nothing, i, [g \in Graphs |-> FabricRowsAll(g)])
  \/ \E i \in Asks, d \in Terms : Call("fabric", d, i, [g \in Graphs |-> FabricRowsOf(g, d)])
GetVirtualNetworks ==
  \/ \E i \in Asks : Call("networks", Nothing, i, [g \in Graphs |-> NetworkRowsAll(g)])
  \/ \E i \in Asks, s \in Serials : Call("networks", s, i, [g \in Graphs |-> NetworkRowsOf(g, s)])
GetVirtualNetworkList == \E i \in Asks : Call("network_list", Nothing, i, [g \in Graphs |-> NetworkList(g)])
GetRoutingZones == \E i \in Asks : Call("zones", Nothing, i, [g \in Graphs |-> ZoneList(g)])
GetRoutingZoneDetail == \E i \in Asks, z \in Terms :
  Call("zone", z, i, [g \in Graphs |-> ZoneDetail(g, z)])
GetVirtualNetworkDetail == \E i \in Asks, v \in Terms :
  Call("network", v, i, [g \in Graphs |->
    IF NetworkDetail(g, v) = {} THEN {} ELSE {CHOOSE d \in NetworkDetail(g, v) : TRUE}])
-----------------------------------------------------------------------------
ReadsInit ==
  /\ graph \in [Instances -> Graphs]
  /\ readable \in SUBSET Instances
  /\ reply = Nothing

ReadsNext ==
  \/ GetSystems \/ GetInterfaceList \/ GetLinkList
  \/ GetExternalPeerings \/ GetFabricPeerings
  \/ GetVirtualNetworks \/ GetVirtualNetworkList
  \/ GetRoutingZones \/ GetRoutingZoneDetail \/ GetVirtualNetworkDetail

ReadsSpec == ReadsInit /\ [][ReadsNext]_readVars
-----------------------------------------------------------------------------
\* The rows of a fabric-wide read that are about one device.
AboutSerial(g, serial, ifaces) == \E n \in ifaces : g.serial[g.host[n]] = serial
AboutName(g, device, ifaces) == \E n \in ifaces : device \in NamesOf(g, g.host[n])

\* A narrow read and a wide read of one blueprint tell the same story, although
\* they are separate queries: the links of a device are those of the fabric
\* that touch it, on whichever side of the row it is; so are its peerings, the
\* underlay ones as sessions without a direction; and the networks of a zone
\* are as many as the list of zones says, where the term names one zone only.
AgreesWith(g, a, rows) ==
  a.arg # Nothing =>
  CASE a.tool = "links" -> rows = {r \in LinkRowsAll(g) : AboutSerial(g, a.arg, {r.near, r.far})}
    [] a.tool = "external" -> rows = {r \in ExternalRowsAll(g) : AboutName(g, a.arg, {r.local})}
    [] a.tool = "fabric" ->
         {<<r.link, {r.a, r.b}>> : r \in rows} =
         {<<r.link, {r.a, r.b}>> : r \in {q \in FabricRowsAll(g) : AboutName(g, a.arg, {q.a, q.b})}}
    [] a.tool = "networks" -> {r.network : r \in rows} \subseteq {r.network : r \in NetworkList(g)}
    [] a.tool = "zone" -> \A z \in DOMAIN g.zname : ZonesNamed(g, a.arg) = {z} =>
         \E d \in rows : ZoneRow(z, d.networks) \in ZoneList(g)
    [] OTHER -> TRUE

ReadsAgree ==
  reply # Nothing =>
    \A i \in DOMAIN reply.results :
      ~ reply.results[i].error => AgreesWith(graph[i], reply, reply.results[i].rows)
=============================================================================
