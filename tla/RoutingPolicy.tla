--------------------------- MODULE RoutingPolicy ---------------------------
(***************************************************************************)
(* The routing policy tool (src/handlers/routing_policy.py).  A call has   *)
(* an intent.  Every intent reads the switches and the external peerings   *)
(* from the graph, resolves the peer it is about, runs show commands on    *)
(* the switch, parses what they print and concludes.  A full audit does    *)
(* all of that again for each of its parts, one after the other, while the *)
(* fabric and the configuration of the switches can change.                *)
(*                                                                         *)
(* A term of a policy is what its printed form says: the prefixes its      *)
(* route filters match, the prefixes its other conditions match, which     *)
(* only the switch can tell, and its action.                               *)
(***************************************************************************)
EXTENDS Integers, FiniteSets, FiniteSetsExt, Sequences, SequencesExt

CONSTANTS
  Switches,      \* the switches, as the graph lists them: [label, hostname, serial]
  Peerings,     \* external peerings there can be: [device, serial, ip]
  Routes,       \* what the peers announce
  Chains,       \* import policies of a switch: sequences of terms
  Reasons,      \* why routes can be hidden, other than by policy: prefix -> reason
  Null,
  MaxChanges    \* bound on the changes of the fabric

Errors == {"peer_not_found", "peer_required", "system_resolution_failed",
           "device_required", "next_hop_ip_required"}

\* A peering has the hostname of its switch, its serial, if it has one, and the
\* address of the peer; hostname and address tell it from the others, and no
\* hostname is a serial.  The reasons that are known are those of routes.
ASSUME PolicyAssumption ==
  /\ Switches \in Seq([label : Nat, hostname : Nat \cup {Null}, serial : Nat \cup {Null}])
  /\ IsFiniteSet(Peerings) /\ Null \notin Nat \cup Range(Switches) \cup Peerings \cup Errors
  /\ Peerings \subseteq [device : Nat, serial : Nat \cup {Null}, ip : Nat]
  /\ \A p, q \in Peerings : /\ p.device # q.serial
                            /\ p.device = q.device /\ p.ip = q.ip => p = q
  /\ DOMAIN Reasons \subseteq Routes

VARIABLES
  peerings,     \* the peerings in the graph
  chain,        \* chain[d]: import policy of switch d, the policies in order
  call,         \* the call in progress, or NoCall
  parts,        \* what its parts have concluded: a sequence
  verdict,      \* the verdict of the last call, or NoVerdict
  changes       \* number of changes so far

policyVars == <<peerings, chain, call, parts, verdict, changes>>

Devices == {p.device : p \in Peerings}
Ips == {p.ip : p \in Peerings}

\* The names of a switch.  (The graph's id of it is one more, and unique.)
Names(s) == {s.label, s.hostname, s.serial} \ {Null}
AllNames == UNION {Names(s) : s \in Range(Switches)}

\* The parts of a full audit, in order; the last if a next hop is given.
PeerParts == <<"peer_summary", "explain_policy", "diagnose_hidden_routes", "compare_rib">>
AuditParts(hop) == IF hop THEN Append(PeerParts, "resolve_next_hop") ELSE PeerParts
Intents == Range(PeerParts) \cup {"discover", "resolve_next_hop", "full_audit"}
-----------------------------------------------------------------------------
(* What a switch does with a prefix: its terms in order, until one accepts *)
(* or rejects it.  "next policy" passes over the rest of a policy.         *)

Unrestricted == Routes   \* the term has no such condition

Matches(t, p) == p \in t.filter /\ p \in t.opaque

\* An earlier term of the same run of one policy took the prefix past term i.
Passed(terms, p, i) ==
  \E j \in DOMAIN terms :
    /\ j < i /\ Matches(terms[j], p) /\ terms[j].action = "next_policy"
    /\ \A k \in j .. i : terms[k].policy = terms[j].policy

\* The term that decides is the first of these; 0 for none.
Deciding(terms, p) ==
  {i \in DOMAIN terms : /\ Matches(terms[i], p) /\ terms[i].action \in {"accept", "reject"}
                        /\ ~ Passed(terms, p, i)}
Fate(terms, p) == IF Deciding(terms, p) = {} THEN 0 ELSE Min(Deciding(terms, p))

Rejects(terms, p) == Fate(terms, p) # 0 /\ terms[Fate(terms, p)].action = "reject"

\* show route receive-protocol bgp ... hidden detail: the routes a policy
\* rejects and those hidden for another reason.
HiddenBy(terms) == {p \in Routes : Rejects(terms, p)}
Hidden(terms) == HiddenBy(terms) \cup DOMAIN Reasons
-----------------------------------------------------------------------------
(* Reading the switches and the catalogue of peers. *)

\* _resolve_system_from_input: of several switches that go by a name, the last
\* in the list has it.
Known(systems, name) ==
  LET named == {i \in DOMAIN systems : name \in Names(systems[i])}
  IN  IF named = {} THEN Null ELSE systems[Max(named)]

\* What a device may be called: as it was given, or as the switch is that goes
\* by that name.
CalledAs(systems, device) ==
  {device} \cup (IF Known(systems, device) = Null THEN {} ELSE Names(Known(systems, device)))

\* Mutation: the device given is not used once there is an address.
FilteredByIp(systems, catalogue, device, ip) ==
  {p \in catalogue :
     /\ device # Null /\ ip = Null => {p.device, p.serial} \cap CalledAs(systems, device) # {}
     /\ ip \in {Null, p.ip}}

\* _filter_peer_catalog, by device and by address.
Filtered(systems, catalogue, device, ip) ==
  {p \in catalogue :
     /\ device # Null => {p.device, p.serial} \cap CalledAs(systems, device) # {}
     /\ ip \in {Null, p.ip}}

\* The catalogue is sorted by device and address; devices and addresses are
\* numbers here, so that they have an order.  A peer's position is the number
\* of peers up to it.
UpTo(catalogue, p) ==
  {q \in catalogue : q.device < p.device \/ (q.device = p.device /\ q.ip <= p.ip)}
Sorted(catalogue) ==
  [n \in 1 .. Cardinality(catalogue) |->
     CHOOSE p \in catalogue : Cardinality(UpTo(catalogue, p)) = n]

\* _resolve_single_peer.
Resolved(systems, catalogue, device, ip) ==
  LET found == Sorted(Filtered(systems, catalogue, device, ip))
  IN  IF found = <<>> THEN [error |-> "peer_not_found", target |-> Null]
      ELSE IF Len(found) > 1 /\ ip = Null THEN [error |-> "peer_required", target |-> Null]
      ELSE IF found[1].serial = Null THEN [error |-> "system_resolution_failed", target |-> Null]
      ELSE [error |-> Null, target |-> found[1]]

\* _paginate_list: one page from an offset.
Page(items, offset, limit) ==
  [items |-> SubSeq(items, offset + 1, Min({offset + limit, Len(items)})),
   next  |-> IF offset + limit < Len(items) THEN offset + limit ELSE Null]
-----------------------------------------------------------------------------
(* What the tool makes of the terms it reads. *)

\* _term_matches_prefix: no condition matches all; route filters decide alone
\* if there are any; other conditions cannot be evaluated and match nothing.
TermMatches(t, p) ==
  IF t.filter = Unrestricted /\ t.opaque = Unrestricted THEN TRUE
  ELSE t.filter # Unrestricted /\ p \in t.filter

\* Mutation: an accepting term does not end the search.
ResponsibleAnyReject(terms, p) ==
  LET hits == {i \in DOMAIN terms : TermMatches(terms[i], p) /\ terms[i].action = "reject"}
  IN  IF hits = {} THEN 0 ELSE Min(hits)

\* _infer_responsible_term_for_prefix: the first term that matches and ends
\* the evaluation, if it rejects; 0 for none.
Responsible(terms, p) ==
  LET ends == {i \in DOMAIN terms : TermMatches(terms[i], p) /\ terms[i].action \in {"accept", "reject"}}
  IN  IF ends = {} THEN 0
      ELSE IF terms[Min(ends)].action = "reject" THEN Min(ends) ELSE 0

\* The category of a hidden route: what the switch printed, or policy if a
\* responsible term is inferred for one it printed no known reason for.
Diagnosed(routes, terms) ==
  [p \in routes |->
    LET printed == IF p \in DOMAIN Reasons THEN Reasons[p] ELSE "policy_rejected"
        infers  == printed \in {"policy_rejected", "other"} /\ Responsible(terms, p) # 0
    IN  [category |-> IF infers THEN "policy_rejected" ELSE printed,
         term     |-> IF infers THEN Responsible(terms, p) ELSE 0]]

\* _summarize_policy_explanation.
Warnings(terms) ==
  LET rejects == {i \in DOMAIN terms : terms[i].action = "reject"}
      catches == {i \in rejects : terms[i].filter = Unrestricted /\ terms[i].opaque = Unrestricted}
  IN  (IF terms # <<>> /\ rejects = {} THEN {"no_reject"} ELSE {}) \cup
      (IF rejects # {} /\ catches = {} THEN {"no_catch_all"} ELSE {})
-----------------------------------------------------------------------------
(* The call. *)

\* What the commands of a part print, one round after the other.
Rounds(part) ==
  CASE part = "diagnose_hidden_routes" -> <<"routes", "names", "terms">>
    [] part = "explain_policy" -> <<"names", "terms">>
    [] part = "compare_rib" -> <<"received", "routes">>
    [] part = "peer_summary" -> <<"counts">>
    [] part = "resolve_next_hop" -> <<"next_hop">>
    [] OTHER -> <<>>

NoCall == <<>>
NoVerdict == <<>>
NoOutput == [routes |-> {}, names |-> {}, terms |-> <<>>, received |-> 0,
             active |-> 0, table |-> FALSE, global |-> FALSE]

\* A part of a call begins: what it is asked about, whether a next hop is given,
\* the audit it belongs to and the parts after it.
Started(part, device, ip, hop, audited, todo) ==
  [part |-> part, device |-> device, ip |-> ip, hop |-> hop, audited |-> audited, todo |-> todo,
   stage |-> "context", systems |-> <<>>, catalogue |-> {}, target |-> Null, rounds |-> <<>>,
   out |-> NoOutput, asOf |-> <<>>]

PolicyInit ==
  /\ peerings \in SUBSET Peerings
  /\ chain \in [Devices -> Chains]
  /\ call = NoCall /\ parts = <<>> /\ verdict = NoVerdict /\ changes = 0

\* An unknown intent is an error; an unknown direction or limit is replaced.
\* One intent needs next_hop_ip, and one does more with it.
HopsOf(part) ==
  CASE part = "resolve_next_hop" -> {TRUE} [] part = "full_audit" -> BOOLEAN [] OTHER -> {FALSE}
Ask ==
  /\ call = NoCall /\ verdict = NoVerdict
  /\ \E part \in Intents, device \in Devices \cup AllNames \cup {Null}, ip \in Ips \cup {Null} :
       \E hop \in HopsOf(part) :
         call' = Started(part, device, ip, hop, Null, <<>>)
  /\ UNCHANGED <<peerings, chain, parts, verdict, changes>>

AskWithoutHop ==
  /\ call = NoCall /\ verdict = NoVerdict
  /\ verdict' = [error |-> "next_hop_ip_required", about |-> Null, parts |-> <<>>]
  /\ UNCHANGED <<peerings, chain, call, parts, changes>>

\* _build_context: two reads of the graph.  One that fails finds nothing.
ReadContext ==
  /\ call # NoCall /\ call.stage = "context"
  /\ \E systems \in {Switches, <<>>}, catalogue \in {peerings, {}} :
       /\ call' = [call EXCEPT !.stage = "resolve", !.systems = systems, !.catalogue = catalogue]
       /\ IF systems = Switches /\ catalogue = peerings THEN UNCHANGED changes
          ELSE changes < MaxChanges /\ changes' = changes + 1
  /\ UNCHANGED <<peerings, chain, parts, verdict>>

\* The call goes on to its next part, or answers with all of them.
Concluded(result) ==
  /\ parts' = Append(parts, result)
  /\ IF call.todo = <<>>
     THEN /\ verdict' = [error |-> Null, about |-> call.audited, parts |-> parts']
          /\ call' = NoCall
     ELSE /\ call' = Started(Head(call.todo), call.device, call.ip, call.hop, call.audited, Tail(call.todo))
          /\ UNCHANGED verdict

Result(error, target, said) ==
  [part |-> call.part, error |-> error, target |-> target, said |-> said, asOf |-> call.asOf, out |-> call.out]

\* peer_summary lists what the filter leaves and discover everything, a page at
\* a time; the page is of one peer.  A peer without a serial is passed over.
ListsPeers == call.part \in {"discover", "peer_summary"}
Listed == IF call.part = "discover" THEN Sorted(call.catalogue)
          ELSE Sorted(Filtered(call.systems, call.catalogue, call.device, call.ip))

\* Where the commands for a switch run.  Without a serial they run on every
\* switch that has one, and what the first of them prints is taken.
RunsOn(s) ==
  LET onboarded == SelectSeq(Switches, LAMBDA t : t.serial # Null)
  IN  IF s.serial # Null \/ onboarded = <<>> THEN s.serial ELSE onboarded[1].serial

\* resolve_next_hop needs a switch only: the one that goes by the name, or else
\* the one that goes by the serial of the peer.
Peer == Resolved(call.systems, call.catalogue, call.device, call.ip)
HopSwitch ==
  LET named == Known(call.systems, call.device)
  IN  IF named # Null \/ call.ip = Null \/ Peer.error # Null THEN named
      ELSE Known(call.systems, Peer.target.serial)
Target ==
  IF call.part # "resolve_next_hop" THEN Peer
  ELSE IF HopSwitch = Null THEN [error |-> "device_required", target |-> Null]
  ELSE [error |-> Null,
        target |-> [device |-> HopSwitch.hostname, serial |-> RunsOn(HopSwitch), ip |-> call.ip]]

Resolve ==
  /\ call # NoCall /\ call.stage = "resolve"
  /\ IF ListsPeers
     THEN LET page == Page(Listed, 0, 1).items
          IN  IF page = <<>> \/ call.part = "discover" \/ page[1].serial = Null
              THEN Concluded(Result(Null, Null, page))
              ELSE /\ call' = [call EXCEPT !.stage = "run", !.target = page[1], !.rounds = Rounds(call.part)]
                   /\ UNCHANGED <<parts, verdict>>
     ELSE IF Target.error # Null
     THEN IF call.audited # Null THEN Concluded(Result(Target.error, Null, <<>>))
          ELSE /\ verdict' = [error |-> Target.error, about |-> Null, parts |-> <<>>]
               /\ call' = NoCall
               /\ UNCHANGED parts
     ELSE IF call.part = "full_audit"
     THEN /\ call' = Started(Head(PeerParts), Target.target.device, Target.target.ip, call.hop,
                            Target.target, Tail(AuditParts(call.hop)))
          /\ UNCHANGED <<parts, verdict>>
     ELSE /\ call' = [call EXCEPT !.stage = "run", !.target = Target.target, !.rounds = Rounds(call.part)]
          /\ UNCHANGED <<parts, verdict>>
  /\ UNCHANGED <<peerings, chain, changes>>

\* What a round of commands prints now on the switch of the target.
Printed(round) ==
  LET terms  == chain[call.target.device]
      counts == [call.out EXCEPT !.received = Cardinality(Routes),
                                 !.active = Cardinality(Routes \ Hidden(terms))]
  IN  CASE round = "routes" -> {[call.out EXCEPT !.routes = Hidden(terms)]}
        [] round = "names"  -> {[call.out EXCEPT !.names = {terms[i].policy : i \in DOMAIN terms}]}
        [] round = "terms"  -> {[call.out EXCEPT !.terms = SelectSeq(terms, LAMBDA t : t.policy \in call.out.names)]}
        [] round \in {"received", "counts"} -> {counts}
        [] OTHER -> {[call.out EXCEPT !.table = at[1], !.global = at[2]] : at \in BOOLEAN \X BOOLEAN}

\* _run_commands_for_system.  A round that fails leaves its outputs empty.
RunCommands ==
  /\ call # NoCall /\ call.stage = "run" /\ call.rounds # <<>>
  /\ \/ /\ \E printed \in Printed(Head(call.rounds)) :
             call' = [call EXCEPT !.rounds = Tail(@), !.out = printed,
                        !.asOf = IF Head(call.rounds) = "routes" THEN chain[call.target.device] ELSE @]
        /\ UNCHANGED changes
     \/ /\ changes < MaxChanges /\ changes' = changes + 1
        /\ call' = [call EXCEPT !.rounds = Tail(@)]
  /\ UNCHANGED <<peerings, chain, parts, verdict>>

\* filtering_suspected, the explanation, the diagnosis, mismatch_flag, the note.
Said ==
  CASE call.part = "peer_summary" -> call.out.received > 0 /\ call.out.active < Max({1, call.out.received \div 2})
    [] call.part = "explain_policy" -> Warnings(call.out.terms)
    [] call.part = "diagnose_hidden_routes" -> Diagnosed(call.out.routes, call.out.terms)
    [] call.part = "compare_rib" -> call.out.received > call.out.active + Cardinality(call.out.routes)
    [] OTHER -> ~ call.out.table /\ call.out.global

Conclude ==
  /\ call # NoCall /\ call.stage = "run" /\ call.rounds = <<>>
  /\ Concluded(Result(Null, call.target, Said))
  /\ UNCHANGED <<peerings, chain, changes>>

\* The fabric changes: a peering comes or goes, a switch gets another policy.
ChangeFabric ==
  /\ call # NoCall /\ changes < MaxChanges /\ changes' = changes + 1
  /\ \/ \E p \in Peerings : /\ peerings' = (peerings \ {p}) \cup ({p} \ peerings)
                            /\ UNCHANGED chain
     \/ \E d \in Devices, c \in Chains : /\ chain' = [chain EXCEPT ![d] = c]
                                         /\ UNCHANGED peerings
  /\ UNCHANGED <<call, parts, verdict>>

PolicyNext == Ask \/ AskWithoutHop \/ ReadContext \/ Resolve \/ RunCommands \/ Conclude \/ ChangeFabric

PolicySpec == PolicyInit /\ [][PolicyNext]_policyVars
-----------------------------------------------------------------------------
\* Terms the tool can evaluate as the switch does.
Readable(terms) == \A i \in DOMAIN terms : terms[i].opaque = Unrestricted /\ terms[i].action # "next_policy"

\* The term that a diagnosis holds responsible for a hidden route is the one
\* by which the switch rejected it, and a route that the switch rejected has
\* one: for terms the tool can evaluate, read while they stood as they did
\* when the routes were read.
BlameRejects ==
  verdict # NoVerdict =>
    \A k \in DOMAIN verdict.parts :
      LET r == verdict.parts[k]
      IN  r.part = "diagnose_hidden_routes" /\ r.error = Null /\ r.asOf = r.out.terms /\ Readable(r.asOf) =>
            \A p \in r.out.routes :
              /\ r.said[p].term # 0 => r.said[p].term = Fate(r.asOf, p)
              /\ p \in HiddenBy(r.asOf) \ DOMAIN Reasons => r.said[p].term # 0

\* Nothing else goes by a name of the switch that has peering a: who goes by its
\* hostname or its serial is that switch, and so is each switch of a peering
\* that has one of the names of that switch.
NamesTell(a) ==
  \A s \in Range(Switches) :
    {a.device, a.serial} \cap Names(s) # {} =>
      /\ s.serial = a.serial
      /\ \A p \in Peerings : {p.device, p.serial} \cap Names(s) # {} => p.serial = a.serial

\* Every part of a full audit asks the switch of the peer the audit began with,
\* about the address of that peer, although each part resolves that peer anew
\* while peerings come and go and reads fail, and the last part resolves the
\* switch alone: for peers whose switch has its names to itself.  Where another
\* switch goes by one of them the address still is that of the peer.
AuditOnePeer ==
  verdict # NoVerdict /\ verdict.about # Null =>
    \A k \in DOMAIN verdict.parts :
      LET asked == verdict.parts[k].target
      IN  asked # Null => /\ asked.ip = verdict.about.ip
                          /\ NamesTell(verdict.about) => asked.serial = verdict.about.serial
=============================================================================
