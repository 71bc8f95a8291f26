------------------------------- MODULE Triage -------------------------------
(***************************************************************************)
(* The first look at a fabric (src/tools/triage_dispatch.py, over          *)
(* src/handlers/system_health.py and src/handlers/blueprints.py): a call   *)
(* is many reads of one or several Apstra instances, one after the other   *)
(* or side by side, while the fabric goes on changing; what cannot be read *)
(* is left out; the answer puts the parts together by blueprint.           *)
(*                                                                         *)
(* A trouble is a pair of its kind and its subject: a device that is down, *)
(* has a job in progress or differs from its configuration, a blueprint    *)
(* whose commit is blocked or that has an anomaly raised.                  *)
(***************************************************************************)
EXTENDS Integers, FiniteSets, FiniteSetsExt

CONSTANTS
  Sites,        \* the Apstra instances, numbered in the order of the settings
  Site,         \* the instance of every blueprint; blueprints are numbered
  Home,         \* the blueprint of every device
  Hostname,     \* the hostname of every device
  Nameless,     \* the devices whose agent has no hardware serial yet
  Troubles,     \* the troubles there can be
  MaxTurns,     \* how often the fabric changes in a call (bound)
  MaxRefusals,  \* how many reads fail in a call (bound)
  Refused       \* what a failed read gives

Plants == DOMAIN Site
Machines == DOMAIN Home
Questions == {"baseline", "active_jobs", "commit_blockers", "drift", "active_anomalies",
            "incident_snapshot"}

ASSUME TriageAssumption ==
  /\ Sites \subseteq Nat \ {0} /\ IsFiniteSet(Sites)
  /\ Plants \subseteq Nat \ {0} /\ IsFiniteSet(Plants)
  /\ \A b \in Plants : Site[b] \in Sites
  /\ \A d \in Machines : Home[d] \in Plants
  /\ Nameless \subseteq Machines
  /\ Troubles \subseteq ({"down", "job", "drift"} \X Machines) \cup ({"blocked", "raised"} \X Plants)
  /\ Refused \notin BOOLEAN

VARIABLES
  trouble,      \* what is wrong now
  stood,        \* what was wrong at every moment of the call
  shown,        \* what was wrong at some moment of the call
  turns,        \* how often the fabric changed in the call
  request,      \* the call, or Refused
  got,          \* the reads done and what they gave
  answer        \* the answer, or Refused

triageVars == <<trouble, stood, shown, turns, request, got, answer>>

Of(kind, S) == {f[2] : f \in {g \in S : g[1] = kind}}
Asking(r) == [kind |-> r[1], site |-> r[2], plant |-> r[3], device |-> r[4]]
-----------------------------------------------------------------------------
(* What is read, in which order. *)

JobKinds == {"jobs", "agents", "list", "systems"}
Failed(x) == x \in DOMAIN got /\ got[x] = Refused
Gave(x) == x \in DOMAIN got /\ got[x] # Refused

\* handle_get_active_system_agent_jobs: the jobs of an instance; the agents and
\* the inventory of its blueprints only when there is a job.
JobReads(s) ==
  LET jobs == Asking(<<"jobs", s, 0, 0>>)
      list == Asking(<<"list", s, 0, 0>>)
  IN  {jobs} \cup
      (IF Gave(jobs) /\ got[jobs] # {} THEN {Asking(<<"agents", s, 0, 0>>), list} ELSE {}) \cup
      (IF Gave(list) THEN {Asking(<<"systems", s, b, 0>>) : b \in {c \in Plants : Site[c] = s}} ELSE {})

\* handle_get_config_deviations: the inventory, then the devices of it or, if
\* devices are named, those, whatever blueprint they are of.
DriftReads(s, b) ==
  LET systems == Asking(<<"inventory", s, b, 0>>)
      known   == IF request.devices # {} THEN request.devices
                 ELSE IF Gave(systems) THEN got[systems] ELSE {}
  IN  {systems} \cup
      (IF systems \in DOMAIN got THEN {Asking(<<"config", s, b, d>>) : d \in known} ELSE {})

PlantReadsAt(s, b) ==
  CASE request.intent = "baseline"          -> {Asking(<<"live", s, b, 0>>)}
    [] request.intent = "commit_blockers"   -> {Asking(<<"build", s, b, 0>>)}
    [] request.intent = "drift"             -> DriftReads(s, b)
    [] request.intent = "incident_snapshot" -> {Asking(<<"live", s, b, 0>>), Asking(<<"build", s, b, 0>>)}
    [] OTHER -> {}

PlantReads(b) ==
  (UNION {PlantReadsAt(s, b) : s \in request.sites}) \cup
  (IF request.intent \in {"active_anomalies", "incident_snapshot"}
   THEN {Asking(<<"store", 0, b, 0>>)} ELSE {})

Reads ==
  (IF request.intent \in {"baseline", "active_jobs", "incident_snapshot"}
   THEN UNION {JobReads(s) : s \in request.sites} ELSE {}) \cup
  (IF request.intent = "active_jobs" THEN {} ELSE UNION {PlantReads(b) : b \in request.scope})

\* The jobs first; then blueprint after blueprint, or, in the snapshot, all at
\* once, each with its store read last; within a handler the instances in turn.
Rank(x) == IF x.kind \in {"jobs", "inventory"} THEN 1 ELSE IF x.kind = "agents" THEN 2
           ELSE IF x.kind = "list" THEN 3 ELSE 4
Place(x) == <<x.site, Rank(x), x.plant, x.device>>
Sooner(p, q) == \E i \in DOMAIN p : p[i] < q[i] /\ \A j \in 1 .. i - 1 : p[j] = q[j]

OfJobs(x) == x.kind \in JobKinds
SideBySide(x, y) == {x.kind, y.kind} = {"live", "build"} /\ x.plant = y.plant
OtherPlants(x, y) ==
  request.intent = "incident_snapshot" /\ ~ OfJobs(x) /\ ~ OfJobs(y) /\ x.plant # y.plant
Precedes(x, y) ==
  /\ ~ SideBySide(x, y) /\ ~ OtherPlants(x, y)
  /\ \/ OfJobs(x) /\ ~ OfJobs(y)
     \/ x.plant = y.plant /\ y.kind = "store" /\ x.kind # "store"
     \/ ~ OfJobs(x) /\ ~ OfJobs(y) /\ x.plant < y.plant
     \/ /\ OfJobs(x) = OfJobs(y) /\ (OfJobs(x) \/ x.plant = y.plant)
        /\ "store" \notin {x.kind, y.kind} /\ Sooner(Place(x), Place(y))

NextReads ==
  LET todo == Reads \ DOMAIN got
  IN  {x \in todo : ~ \E y \in todo : Precedes(y, x)}

\* A request for a blueprint of another instance is refused by that instance;
\* what comes from the graphs and the store is a local matter.
CanRead(x) == x.kind \in {"live", "build", "inventory"} => x.plant \in Plants /\ Site[x.plant] = x.site

\* What a read gives when S is wrong.
Value(x, S) ==
  CASE x.kind = "jobs"      -> {d \in Of("job", S) : Site[Home[d]] = x.site}
    [] x.kind = "live"      -> {d \in Of("down", S) : Home[d] = x.plant}
    [] x.kind = "build"     -> Of("blocked", S) \cap {x.plant}
    [] x.kind = "store"     -> Of("raised", S) \cap {x.plant}
    [] x.kind = "inventory" -> {d \in Machines : Home[d] = x.plant}
    [] x.kind = "config"    -> Of("drift", S) \cap {x.device}
    [] OTHER -> {}
-----------------------------------------------------------------------------
(* The jobs, by blueprint. *)

\* The blueprints whose inventory was read; one that failed is left out.
Indexed(s) == {b \in Plants : Gave(Asking(<<"systems", s, b, 0>>))}

BySerial(d, s) == IF d \in Nameless THEN {} ELSE Indexed(s) \cap {Home[d]}
ByName(d, s) == {b \in Indexed(s) : \E e \in Machines : Home[e] = b /\ Hostname[e] = Hostname[d]}

\* Mutation: the names are looked up for every device.
PlantsOfBoth(d, s) ==
  IF ~ Gave(Asking(<<"agents", s, 0, 0>>)) THEN {} ELSE BySerial(d, s) \cup ByName(d, s)

\* _resolve_blueprint_matches: by the serial of the agent, by its name only
\* when that gives nothing; without the agents a job has neither.
PlantsOf(d, s) ==
  IF ~ Gave(Asking(<<"agents", s, 0, 0>>)) THEN {}
  ELSE IF BySerial(d, s) # {} THEN BySerial(d, s) ELSE ByName(d, s)

JobsAt(s) == LET x == Asking(<<"jobs", s, 0, 0>>) IN IF Gave(x) THEN got[x] ELSE {}

\* _filter_active_jobs_result: what matches none of the blueprints is dropped.
JobsIn(scope) ==
  UNION {{d \in JobsAt(s) : PlantsOf(d, s) \cap scope # {}} : s \in request.sites}
-----------------------------------------------------------------------------
(* The answer. *)

Given(kind, b) ==
  UNION {got[x] : x \in {y \in DOMAIN got : y.kind = kind /\ y.plant = b /\ got[y] # Refused}}

\* What the part of a blueprint says under the key the callers count: an answer
\* of several instances has no such key, and a failed one has zero.
Counted(kind, b) == IF Cardinality(request.sites) = 1 THEN Given(kind, b) ELSE {}

\* A device whose configuration could not be read is counted as deviating.
Deviating(b) ==
  Counted("config", b) \cup
  (IF Cardinality(request.sites) = 1
   THEN {x.device : x \in {y \in DOMAIN got : Failed(y) /\ y.kind = "config" /\ y.plant = b}} ELSE {})

\* has_active_jobs and the counts of one blueprint.
Part(b) ==
  LET down    == IF request.intent \in {"baseline", "incident_snapshot"} THEN Counted("live", b) ELSE {}
      jobs    == IF request.intent \in {"baseline", "incident_snapshot"} THEN JobsIn({b}) ELSE {}
      blocked == Counted("build", b)
      raised  == Given("store", b)
  IN  [down |-> down, job |-> jobs, blocked |-> blocked, raised |-> raised, drift |-> Deviating(b),
       attention |-> request.intent = "incident_snapshot" /\ (down \cup jobs \cup blocked \cup raised) # {}]

\* all_systems_reachable: of several blueprints, that nothing was counted; of
\* one, that nothing was found and every instance answered.
SaysReachable ==
  IF Cardinality(request.scope) > 1
  THEN \A b \in request.scope : Counted("live", b) = {}
  ELSE \A b \in request.scope : /\ Given("live", b) = {}
                                /\ \A s \in request.sites : Gave(Asking(<<"live", s, b, 0>>))

TriageInit ==
  /\ trouble \in SUBSET Troubles /\ Cardinality(trouble) <= 1
  /\ stood = {} /\ shown = {} /\ turns = 0
  /\ request = Refused /\ got = <<>> /\ answer = Refused

\* resolve_blueprints: an instance that cannot be listed is passed over; an id
\* is taken as it is; if nothing is listed, so is any reference (0: none).
ScopeOf(ref, up) ==
  LET listed == {b \in Plants : Site[b] \in up}
  IN  IF ref.id THEN ref.plants ELSE IF listed = {} THEN {0} ELSE ref.plants \cap listed

References ==
  {[id |-> FALSE, plants |-> Plants]} \cup {[id |-> i, plants |-> {b}] : i \in BOOLEAN, b \in Plants}

\* An intent that needs blueprints and finds none answers with an error.
AskTriage ==
  /\ request = Refused
  /\ \E intent \in Questions, ref \in References, up \in SUBSET Sites,
        sites \in {Sites} \cup {{s} : s \in Sites}, devices \in {{}} \cup {{d} : d \in Machines} :
       /\ Cardinality(Sites \ up) <= MaxRefusals
       /\ intent # "drift" => devices = {}
       /\ ScopeOf(ref, up) # {}
       /\ request' = [intent |-> intent, scope |-> ScopeOf(ref, up), sites |-> sites, devices |-> devices,
                      every |-> ref.plants = Plants]
  /\ stood' = trouble /\ shown' = trouble /\ turns' = 0
  /\ got' = <<>> /\ answer' = Refused
  /\ UNCHANGED trouble

Read ==
  /\ request # Refused /\ answer = Refused
  /\ \E x \in NextReads :
       \E value \in (IF CanRead(x) THEN {Value(x, trouble)} ELSE {}) \cup
                    (IF ~ CanRead(x) \/ (x.kind # "store" /\ Cardinality({y \in DOMAIN got : Failed(y) /\ CanRead(y)}) < MaxRefusals)
                     THEN {Refused} ELSE {}) :
         got' = [y \in DOMAIN got \cup {x} |-> IF y = x THEN value ELSE got[y]]
  /\ UNCHANGED <<trouble, stood, shown, turns, request, answer>>

Reply ==
  /\ request # Refused /\ answer = Refused
  /\ Reads \subseteq DOMAIN got
  /\ answer' = [reachable |-> IF request.intent = "baseline" THEN SaysReachable ELSE Refused,
                jobs |-> IF request.intent # "active_jobs" THEN {}
                         ELSE IF request.every THEN UNION {JobsAt(s) : s \in request.sites}
                         ELSE JobsIn(request.scope),
                parts |-> IF request.intent = "active_jobs" THEN <<>> ELSE [b \in request.scope |-> Part(b)]]
  /\ UNCHANGED <<trouble, stood, shown, turns, request, got>>

\* Something goes wrong or is put right while the reads are made.
Turn ==
  /\ request # Refused /\ answer = Refused /\ turns < MaxTurns
  /\ turns' = turns + 1
  /\ \E f \in Troubles : trouble' = (trouble \ {f}) \cup ({f} \ trouble)
  /\ stood' = stood \cap trouble' /\ shown' = shown \cup trouble'
  /\ UNCHANGED <<request, got, answer>>

TriageNext == AskTriage \/ Read \/ Reply \/ Turn
TriageSpec == TriageInit /\ [][TriageNext]_triageVars
-----------------------------------------------------------------------------
\* The troubles of a blueprint.
Within(b, S) ==
  {f \in S : IF f[1] \in {"blocked", "raised"} THEN f[2] = b ELSE b \in Plants /\ Home[f[2]] = b}
Told(b) ==
  LET p == answer.parts[b]
  IN  ({"down"} \X p.down) \cup ({"job"} \X p.job) \cup ({"blocked"} \X p.blocked) \cup
      ({"raised"} \X p.raised) \cup ({"drift"} \X p.drift)
Sought ==
  CASE request.intent = "baseline" -> {"down", "job"}
    [] request.intent = "commit_blockers" -> {"blocked"}
    [] request.intent = "drift" -> {"drift"}
    [] request.intent = "active_anomalies" -> {"raised"}
    [] OTHER -> {"down", "job", "blocked", "raised"}

Standing(b) ==
  {f \in Within(b, stood) : f[1] \in Sought /\ (f[1] = "drift" => request.devices \in {{}, {f[2]}})}
\* Jobs of devices without a serial, which are told by a name of the blueprint.
Namesakes(b) ==
  {"job"} \X {d \in Nameless : \E e \in Machines : Home[e] = b /\ Hostname[e] = Hostname[d]}
\* The drift of the devices a call names, which is told under every blueprint.
NamedDrift == {"drift"} \X request.devices
MayTell(b) == Within(b, shown) \cup (shown \cap (Namesakes(b) \cup NamedDrift))
ReadOf(b) == \A x \in DOMAIN got : x.plant \in {0, b} => Gave(x)
ReadAll == \A x \in DOMAIN got : Gave(x)

\* A call of one instance sees every trouble of a blueprint which stood while it
\* ran, whatever failed of the other blueprints, although its parts are of
\* different moments and the jobs are matched to blueprints by what the agents
\* know, and a snapshot asks for attention to it.  If nothing failed, it reports
\* no trouble that was not there at some moment, and of another blueprint only
\* the job of a device without a serial that has the name of a device of this
\* one, and the drift of a device the call names, which it tells, and counts,
\* under each of its blueprints.  A call for the jobs of some blueprints keeps
\* to them in the same way.
TriageSees ==
  (answer # Refused /\ Cardinality(request.sites) = 1) =>
     /\ \A b \in DOMAIN answer.parts :
          /\ ReadOf(b) =>
               /\ Standing(b) \subseteq Told(b)
               /\ request.intent = "incident_snapshot" /\ Standing(b) # {} => answer.parts[b].attention
          /\ ReadAll => Told(b) \subseteq MayTell(b)
     /\ request.intent = "active_jobs" /\ ReadAll =>
          /\ {d \in Of("job", stood) : Site[Home[d]] \in request.sites /\ Home[d] \in request.scope} \subseteq answer.jobs
          /\ answer.jobs \subseteq Of("job", shown)
          /\ ~ request.every => {"job"} \X answer.jobs \subseteq UNION {MayTell(b) : b \in request.scope}
     /\ answer.reachable = TRUE /\ ReadAll => {d \in Of("down", stood) : Home[d] \in request.scope} = {}

\* "True only when zero liveness anomalies are present": a baseline that calls
\* every system reachable was made while no device of its blueprints was down
\* all the time.
ReachableIsTrue ==
  (answer # Refused /\ answer.reachable = TRUE) =>
     \A d \in Of("down", stood) : Home[d] \notin request.scope \/ Site[Home[d]] \notin request.sites
=============================================================================
