# A TLA+ verification of mcp-apstra

mcp-apstra is a read-only MCP server in front of Juniper Apstra: a language
model calls tools, tools call handlers, handlers read Apstra's REST API through
one authenticated session per instance. What can go wrong without a test
noticing sits in two places. Six components keep state across awaits, polls or
restarts: the cache of blueprint graphs, the token of a session, the log of
anomalies, the poller that fills it, the runner of CLI commands, and the series
of interface counters. And the tools that keep nothing put one answer together
from many reads, of different moments and partly failed, or compute it by an
algorithm of some length. This directory models both, and the installation that
decides what a server starts with; it checks them with TLC and proves what
matters most with TLAPS.

`src/` is Python on one event loop. A task is atomic between two awaits, so an
action here is what a task does from one await to the next; threads occur
nowhere. SQLite calls are synchronous and commit one by one, so where a crash
can separate two commits there are two actions.

## Inventory

| Component | State | Operations | Talks to | Hard part |
|---|---|---|---|---|
| `primitives/graph_client.py` BlueprintGraphRegistry | cached graph, version and lock per (instance, blueprint) | `get_or_rebuild`, `close_all` | every graph handler calls it; it makes two requests | edits between the requests, failure after the stale graph is closed, cancelled waiters |
| `primitives/auth_manager.py` ApstraSession | token, expiry, `token_valid`, `host_reachable` | `authenticate`, refresh loop, probe loop, `get_token` | all requests read the token | two loops log in with nothing ordering them |
| `primitives/anomaly_store.py` AnomalyStore | tables anomalies, events, poll_state | `upsert_anomaly`, `insert_event`, `prune`, `get_currently_active`, poll state, analytic queries | written by poller and traces, read by tools | ids kept across awaits, crashes between commits, two orders of events |
| `handlers/anomaly_poller.py` | carried snapshots and counts, trace tasks | backfill in five steps, incremental poll, trace | store, history API | answers that describe different moments, failures, restarts |
| `handlers/run_commands.py` | semaphore, tasks, jobs on the Apstra server | batch and single submission, poll, delete | fetchcmd API | retries of what was done, siblings of a failed command, jobs left behind |
| `primitives/counter_store.py`, `handlers/counter_poller.py` | snapshots of cumulative counters; list of systems | upsert, insert, prune, deltas; discovery, poll | counters API | resets, gaps, systems that come and go |
| `tools/anomaly_timeline.py`, `tools/anomaly_analytics.py` | none; a cursor the client keeps | pages of events, summary, histories, episodes, trends | store | pages turned while pollers write and prune |
| `primitives/anomaly_clustering.py` | none | raises to clusters, ghosts and mirror images to one row, root cause | store | three merges in a row |
| `tools/triage_dispatch.py`, `handlers/system_health.py` | none | six intents, each a fan-out of reads | session, graph, store | parts of different moments, failed parts, jobs matched to blueprints |
| `handlers/mtu_check.py` | none | links, a configuration per switch, checks, assessment | graph, session | failed reads that fall back to the graph |
| `handlers/routing_policy.py` | none | seven intents: peer, rounds of commands, parsing, inference | graph, run_commands | each part of an audit resolves its peer again |
| `handlers/bgp.py`, `links.py`, `interfaces.py`, `systems.py`, `virtual_networks.py`, `primitives/response_parser.py` | none | query and projection | registry | the same rows asked in two ways |
| `handlers/design_catalogue.py` | none | two reads and their comparison | graph, session | edits between the reads |
| `config/settings.py`, `primitives/rag_client.py` | settings as read, index as first loaded | start of a server, documentation queries | files | which file counts; an index replaced while it is used |
| `setup_cli.py` | files, backups, rollback scripts | one run: settings, client files, embeddings, script | files of other programs | cut short anywhere; others write the same files |
| `primitives/live_data_client.py` | one HTTP client per session | one request per function | session | |
| `server.py` lifespan | the objects above | start, shutdown | all | closing stores under tasks that still run |

What makes them correct:

- the registry answers every call with a blueprint at least as new as when the
  call began, never goes back in time, leaks no database, and hands out no closed graph;
- the session never hands out an expired token, does not storm the login
  endpoint, and recovers by itself after the last outage;
- the log keeps every event under one identity and never loses the last one;
- the poller invents nothing, notes a change in its baseline only after the log
  has it, and catches up when the fabric settles;
- the runner bounds what it loads the server with, accounts for every job, and ends;
- the counter series never reports growth or resets that did not happen, and no
  managed system is left out for good;
- a client that turned every page has missed nothing, and the queries on the log
  agree with each other;
- an answer put together from many reads reports what stood all along, nothing
  that never was, and puts it where it belongs; what a part could not read does
  not make it look healthy;
- an algorithm gives what its definition without loops gives;
- the wizard loses nothing of anybody, and the server serves what was set up.

## Modules

    BlueprintReads   <- implemented by -  GraphRegistry  <- GraphRegistryProofs
                                          AuthSession    <- AuthSessionProofs
    AnomalyLog       <- implemented by -  AnomalyStore   <- AnomalyStoreProofs
        ^                                     ^-- extended by -- EventQueries
        ^---------- implemented by and used in --  AnomalyPoller  <- AnomalyPollerProofs
                                          RunCommands    <- RunCommandsProofs
                                          CounterSeries  <- CounterSeriesProofs
    FabricReads, DesignDrift, MtuCheck, RoutingPolicy, Triage  <- FabricToolsProofs
    FaultClusters  <- AnomalyStoreProofs, with the queries that feed it
        - these six side by side in MCFabricTools
    Settings  <- extended by - Setup  <- SetupProofs

Each `MCxxx` module instantiates one of them for TLC, or the six tools that keep
nothing, of which one runs at a time and the others stand still. Definitions
called `Mutation: ...` are wrong variants of the definition after them; no
specification uses them, and each shows that some property would notice it.

### GraphRegistry, BlueprintReads

`GraphRegistry` is `BlueprintGraphRegistry`: `graphs` is `_graphs`, `holder` and
`waiters` are the `asyncio.Lock` of a key, first come first served. A call is
`Call`, `Acquire`, a version request, then `NotFound`, `Hit` or `Miss`, and after
a miss a full request and `Rebuild` or `ImportFails`. The code opens the new graph
before it imports into it and does not close it when the import fails
(graph_client.py:511-512): such a graph stays open with the exception, after the
lock is released, until the failing call is over and Python collects it
(`Unwind`). Every request has two instants, the one at which the server evaluates it
and the one at which the
caller resumes; `Edit` and `Delete` happen between any of them, `Raise` and
`CancelWaiting` at any await. `close_all` closes what the registry holds.
`BlueprintReads` is the promise: an answer lies between the blueprint's version
at the start of the call and the present, and is no older than an earlier answer.
The Cypher data is abstracted to the version of the blueprint it came from.

### AuthSession

Both loops of `ApstraSession`, in units of 15 seconds. A login of loop `a` lives
in `login[a]`, its reply in `tokens[a]`, and storing it is the step in which the
loop resumes. Everything measured in time is kept as what is left of it.
`HostChanges` and `Revoke` are the environment until `Settle`.

### AnomalyLog, AnomalyStore

`AnomalyStore` has the two tables with their ids and `sqlite_sequence`. An
upsert and an insert are two commits, with a `Crash` possible between them; a
trace keeps a row id in `held` across its request. `AnomalyLog` is the log
without rows: record in order and once, prune but keep the last one recorded.
Timestamps are numbers; `ts` (when it happened) and `n` (when it was recorded)
are separate because a trace reports the past.

### AnomalyPoller

One blueprint of one session, over `AnomalyLog`. `hist` is the fabric, one set
of active anomalies per tick. A request describes the fabric at any tick from
when it was sent to when it was answered. Backfill: `BackfillHistory` (steps 1
to 3: counts, snapshots at the change points, events), `LiveReconcile` (step 4),
`BaselineSnapshot` and `BaselineCounts` (step 5). Poll: `CountsArrive`,
`SnapshotArrives`, `Write`, `PollSaved`. Traces: `TraceArrives`, `TraceFails`.
`Write` makes one commit, so a crash may fall between any two events.

### RunCommands

One call on the systems of one instance. `system[s]` is the task under the
semaphore, `task[t]` the task of a command, `jobs[t]` what the Apstra server
holds for it. A submission may be accepted, fail, or be accepted with its reply
lost; a poll may find the job, find a 404, time out or raise; `gather` ends with
the first exception and leaves the siblings running; the client may cancel.

### CounterSeries

`counter_poller.py` and the deltas of `counter_store.py`. A system stands for one
interface and one field; beside each sampled `value` the model keeps whether the
reply had the field (`sent`) and the `truth`, what the device counted and how often
it was reset, neither of which the code can see. A field that is missing or null is
stored as zero (`Kept`, counter_store.py:208).
The poller goes from `Discover` to `Wake`, `Sample` or `SampleFails` per system,
and `PollEnds`, which prunes and decides on the next discovery; `Restart` loses
its list. `Steps`, `Delta`, `HasReset`, `IntervalOf` and `Growth` are what a query
computes from the rows. `poll_count` is kept modulo the two periods it is used
with.

### EventQueries

The statements `AnomalyStore` runs for the tools, over the same tables, and a
client that reads `get_anomaly_events` page by page: `GetEvents` is the first
call, `GetMoreEvents` one with the cursor of the page before, between any two
steps of the store. A window is fixed, or slides when it is given as hours back.
`walk` is what the client has, has had, and is owed.

### FabricReads

The ten read handlers over a graph of systems, interfaces, links, sessions,
networks and zones. A query is the set of rows it returns; `LinkRowsAll` and
`LinkRowsOf`, and so on, are the wide and the narrow Cypher query of one handler.
`Results` is the loop over the instances with its error branch.

### DesignDrift

`ReadCopies` and `ReadCatalogue` are the two awaits of a drift report, `EditCopy`
and `EditItem` happen between them. `moments` is the history of the call.

### MtuCheck

`Begin` reads the links, `Fetch` and `FetchFails` the rendered configuration of
one switch after the other, `Assess` makes the report with every check of a side,
a link and a role. `Side` is the order in which values are taken: the inet MTU of
the configuration first, that of the graph otherwise, and unknown if neither has
one; every check passes over what is unknown. `unread` are the switches whose
request failed, `errors` those the report names.

### RoutingPolicy

A call goes through its stages: `ReadContext` (two graph reads), `Resolve` (the
peer), `RunCommands` (one round of commands), `Conclude`; a full audit goes
through them again for each of its parts: the four about the peer, and
`resolve_next_hop` if a next hop was given, which resolves a switch only. A name a
caller gives is looked up among labels, hostnames and serials, of several switches
that go by it the last (`Known`), and a peering is kept if it has the name given or
one of that switch (`Filtered`). `chain` is what the switch really
evaluates (`Fate`), `Responsible` what the tool infers of the printed terms.

### FaultClusters

`Clustered`, `WithoutGhosts`, `CollapseBgp`, `CollapseCabling` and `RootCause`
are the passes of `anomaly_clustering.py`, written as folds in the order of the
loops, because the order is what decides the result; the bodies of the loops are
`Extended`, `WithSession` and `WithMirror`. `Faithful` says what an answer about a
window has to be, and `Apart`, without the passes, which raises belong together.

### Triage

A request is known by its kind, instance, blueprint and device. `Precedes` is the
order the code makes its requests in, side by side under `gather`; `Read` makes
one, `Turn` changes the fabric in between, `Reply` puts the answer together.
`JobReads`, `DriftReads` and `PlantReads` are what an intent asks, given what was
answered so far; `PlantsOf` matches a job to blueprints by the serial of its agent
and by name only if that gives nothing. `MayTell` is what may be under a blueprint: its own
troubles, jobs of namesakes without a serial, and drift of devices the call names.

### Settings, Setup

`Settings` is the life of a server. `Import` is what happens when its modules are
imported: the documentation block is read from the settings and the index is looked
at, and one that is no JSON ends the server. `Start` is the lifespan: the settings
are read again, for the instances (`ConfigPath`, `Sessions`, `RagOf`). `Query` answers
from documentation: `Found` is the index kept or, while there is none, the one on
disk; an index of another model, a provider other than Ollama and a failed embedding
are errors. `Setup` adds the wizard, whose runs replace the files the
server reads. `Examine` reads a file and may wait for an answer of the user;
`Replace` is backup and write, whole or cut short at three points; `Edit` is
another program. The wizard's prompts before the first file change nothing and
are one step, `Begin`.

## Runs

| Run | Instance | What it shows |
|---|---|---|
| `graph_registry` | 1 blueprint, 3 callers, 2 versions | `NoLeakedGraph`, `ClosedNeverHit`, `RecordedNotAhead`, the refinement `ReadsSpec`, and `CallsFinish` |
| `auth_session` | life 10, margin 5, probe 2, retry 1 (units of 15 s) | `ServedTokenUnexpired`, `RefreshLoginsPaced`, `Recovers` |
| `anomaly_store` | 2 identities, 2 stamps, 2 rows, 4 events, pages of one event | `HeldRowsStay`, `OneIdentityPerEvent`, the refinement `LogSpec`, `PagesComplete`, `QueriesAgree` |
| `anomaly_poller` | 2 anomalies of one type, window 2, 4 ticks, 1 fault | `LogSpec`, `EventsTrue`, `BaselineAfterLog`, `CatchesUp` |
| `poller_prune` | window 2, 6 ticks, no fault | violated: `PruneKeepsActive` |
| `poller_flap` | window 3, 4 ticks, no fault | violated: `BackfillKeepsClears` |
| `run_commands` | 2 systems, 2 commands, cap 1, 1 retry | `ActiveBounded`, `JobsAccounted`, `Attended`, `NothingHangs`, `EndsByItself` |
| `counter_series` | 2 systems of which one counts, window 1, 4 ticks, 2 counts, 1 reset, 1 fault | `GrowthSound`, `FlagMeansReset`, `Covers` |
| `counter_interval` | window 3, 4 ticks | violated: `IntervalTrue` |
| `fabric_tools` | see below | `ReadsAgree`, `DriftHonest`, `OkCarries`, `BlameRejects`, `AuditOnePeer`, `ClustersFaithful`, `TriageSees` |
| `triage_reachable` | 2 instances, 3 blueprints, 3 devices, 1 change, no failed read | violated: `ReachableIsTrue` |
| `installation` | 2 clients, 2 runs of the wizard, 1 foreign write, 3 environments | `NothingLost`, `ServesAsSetUp` |

Why the bounds are enough to meet the interesting cases: three callers are one
in the lock, one queued and one that can be cancelled or overtake; two
versions allow a stale entry, and an edit during the first build, which makes the
entry newer than its record (the proofs have any number, so edits during the rebuild
of a stale entry too). The durations of
`auth_session` keep the order of the code's constants (retry and login within a
probe interval, that within the margin, that within a token's life), on which
the logic depends, and not their ratios. Two identities share a type, so counts
can agree while contents differ; a window of two ticks lets events grow old while
a trace is out; two stamps with four events allow a late trace, a duplicate and a
prune of either. Two systems under a cap of one make the semaphore matter and two
commands give every failed command a sibling. Two counts and a reset are the
least with which growth may hide a reset; a discovery every second poll and a
prune every second poll allow a system to arrive after a discovery and an old
sample to go before its successor is compared; four ticks are three polls, so two
steps of growth and a prune that removes a row; the one fault may be a failed
discovery, a failed request, a reply without the field or a restart. The counters of
one system move, because no step relates those of two. A page of one event with four events is
three turns of the page, between which anything can be recorded or pruned.

`fabric_tools` has, per tool: 12 graphs on two instances of which any may fail,
with an interface whose id lies between two others, a device whose hostname is
another's label, two zones and networks of one name; two copies and two catalogue
items of one name or none, with up to two generators and one edit during the
call; two links of a role between three switches, one of them without a device, six
configurations of every side, one of them empty, and two values or none in the
graph; three switches, two of one label that is also a hostname, one without a
serial, and three peerings on them, two of one address;
three policies (accept before reject, next term, next policy),
one change or failed round per call; windows of up to three raises out of seven
kinds at three times; one instance with two blueprints, two devices of one
hostname, a device without a serial, one trouble at first, one change and one
failed read. Every hazard listed for these tools needs one change or one failure,
or two rows that collide. `installation` needs two runs for a second backup of a
file and one foreign write, which may come before, between or after them; its two
environments name a file or none; a machine has at first neither settings nor an
index, or both, the index of no known model; a build leaves one of the model asked
for, the old one, or one cut short; the other file of settings wants a provider the server cannot ask.

What every bound is for is said at
its declaration (`MaxVersion`, `MaxRows`, `MaxEvents`, `MaxTime`, `MaxFaults`,
`Patience`).

Deadlock is checked in `auth_session` and `anomaly_store`, which run for ever.
Elsewhere the system may stop: after `close_all`, when a call has returned, when
the enumeration of blueprints failed, or at the bound of ticks; a tool that has
answered; a machine on which nobody installs anything more.

### Fairness

A task that can run is resumed: the event loop is fair, and an `asyncio.Lock`
and a semaphore are granted in order. A request ends: httpx gives each a
timeout, so an answer or an exception comes. Both are weak fairness on the step
that resumes the task, never on success: a request may fail every time, unless
the property speaks of what happens after the last fault (`Recovers`, from
`Settle` on; `CatchesUp` and `Covers`, with a bounded number of faults and a
fabric at rest from the last tick on). `AuthSession` also
lets time pass. `RunCommands` states its progress without fairness:
`NothingHangs` says that until all has ended the program can move without help
from server or client, and `EndsByItself` that no step takes anything back and
each step of the program takes the call, a system or a command forward, by a
finite rank. The two make the call end under any scheduler that lets the program
move at all.

## Where code and text disagree

With a run that shows it:

- `poller_prune`: anomaly_store.py:186 promises that pruning never loses the
  raised state. It keeps the event recorded last, the view uses the newest
  timestamp, and after a late trace these differ.
- `poller_flap`: anomaly_poller.py:156 says raise and clear history is
  reconstructed accurately. A count that touches zero in the middle of the
  history gives no clear and no second raise.
- `counter_interval`: counter_store.py:296 says `interval_seconds` is the seconds
  between two snapshots. The stamps the poller writes already have an offset, a
  second one is appended, and the result is always the fallback of 300.
- `triage_reachable`: tools/system_health.py:104 says `all_systems_reachable` is
  True only when zero liveness anomalies are present. With several blueprints the
  tools sum a key that answers of several instances do not have
  (triage_dispatch.py:265, system_health.py:123): the sum is 0 whatever is down.

Seen while modelling, without a run of their own:

Stores and pollers
- DESIGN.md:94-96 has the refresh loop retry every 15 seconds until successful.
  After a failure the loop looks at the expiry of the token held; if the probe
  loop stored a fresh one meanwhile, it sleeps for that token's life with
  `token_valid` False (auth_manager.py:184). The probe loop logs in only after a
  failed probe, and it probes with the token held whatever `token_valid` says
  (auth_manager.py:358): it mends this only if that token is revoked or the host goes
  down. Otherwise the refresh loop does, when it wakes. `Recovers` is about both.
- tools/anomaly_timeline.py:238 says the view always reflects the present. A clear
  and a raise of one type between two polls leave the counts equal and are not seen
  (anomaly_poller.py:389).
- run_commands.py:288 says the semaphore limits simultaneous active systems. The
  commands that survive a failed sibling run outside of it (line 248).
- anomaly_store.py:6 says the log is complete, but what is raised between the
  live reconcile and the baseline (anomaly_poller.py:352) is never logged.
- counter_store.py:208 stores a field that is missing or null as zero: a sample that
  lacks it raises `has_reset` without a reset, and the one after it reports the whole
  counter as growth. counter_poller.py:30 says values "are stored as-is", and
  counter_store.py:306 has `has_reset` for a reset or a reboot. `GrowthSound` and
  `FlagMeansReset` are stated for samples that have the field.
- A graph whose import failed is never closed (graph_client.py:511-512); it goes
  with the exception. Under `asyncio.gather` that may be when the whole tool call ends.
- counter_store.py:306-308 says a reset zeroes all error deltas of its row, the
  code zeroes the fields that fell.
- The comment at anomaly_store.py:197 speaks of a heartbeat for active anomalies
  which no code writes; the docstring of the poller speaks of 7 days and the
  constants of 30.

Queries on the log
- anomaly_timeline.py:499 and :549 say a history has no limit on its events; the
  store clamps every limit to 500 (anomaly_store.py:339).
- anomaly_analytics.py:379 says open episodes mean the anomaly is raised now. A
  clear with the timestamp of its raise closes no episode (anomaly_store.py:663);
  `QueriesAgree` says so. Two raises before one clear share it, and the downtime is
  counted twice.
- Asked about several blueprints, the history tool asks about each without its
  `days_back`; the same blueprint id on two instances makes a tool that recurses by
  id recurse without end.

Tools
- handlers/links.py puts the lower interface id first, so "local" is not always
  the device asked about.
- Two zones, or two networks, that one term names are merged into one answer
  (virtual_networks.py:254, :300).
- mtu_check.py:24-25 wants an inet MTU of 9050 for jumbo frames, the check accepts
  9000; `ok` is possible while `ecmp_risk` is set, across roles. `ok` is also possible
  while configurations could not be read, which only `rendered_config_errors` says, and
  while MTUs are unknown (mtu_check.py:430, :434), which nothing says: `OkCarries` takes
  the switches named there as the graph has them, and passes over unknown sides.
- An address that several peers have takes the first of them
  (routing_policy.py:905); a round of commands that fails reads as nothing hidden;
  a graph that cannot be read is an empty catalogue; terms with `next policy` or with
  conditions the tool cannot evaluate are blamed wrongly, and so `BlameRejects` is
  stated without them. A full audit is not of one moment.
- A label or hostname that is also another switch's name selects the last of the two
  (routing_policy.py:119-137), so a part of an audit may ask another switch about the
  peer's address; `AuditOnePeer` has the switch only where its names are its own.
  `resolve_next_hop` on a switch without a system_id runs its commands on every
  onboarded switch (routing_policy.py:1501, run_commands.py:312) and reports the first
  output as that device's (routing_policy.py:250).
- `_collapse_cabling` (anomaly_clustering.py:251) says "and vice versa" and asks one
  direction only; `ClustersFaithful` holds because no device is lost by it.
- A failed read counts 0 in `commit_blockers` and `incident_snapshot` with several
  instances; an inventory that cannot be read gives `all_compliant` with nothing
  checked; a blueprint whose inventory fails is left out of the matching of jobs
  without a word; devices of one hostname in two blueprints get each other's jobs
  if their agents have no serial; `resolve_blueprints` drops the blueprints of an
  instance that does not answer.
- Asked about devices by name, `drift` and `incident_snapshot` report each of them
  under every blueprint of the call and count it there, so `total_deviated` counts one
  device several times (triage_dispatch.py:317-335, system_health.py:227-229);
  `TriageSees` exempts this (`NamedDrift`).
- A drift report can mix two moments of the catalogue if both sides are edited
  during the call: `DriftHonest` is stated for one edit.

Setup
- README.md:153-157 documents backups and a rollback script. A run that fails
  half-way has backups and no script; the script does not remove files the run
  created; two clients configured with one path share a backup name, and so do two
  runs of one second, and the second overwrites the first (`SetupAssumption` and
  `BackupTarget` exclude both).
- What another program writes between the backup and the write of one file is
  lost; nothing waits there, and the model has the two as one step.
- knowledge/RAG_CONFIGURATION.md:107, :158-188 and setup_cli.py:28 offer several
  providers of embeddings; the wizard and the settings accept them, and the server then
  refuses every query (rag_client.py:137-141).
- The docstring of `preflight_rag` (rag_client.py:222-226) says it does not raise. An
  index that is no JSON raises (rag_client.py:109), while the tools are imported
  (tools/docs.py:11), and the server does not start.
- rag_client.py:119 warns that queries fail "until this is resolved". Rebuilding the
  index does not resolve it: the index is kept as loaded, until the server is restarted.
- The settings are read twice, at import for the documentation (server.py:295) and in
  the lifespan for the instances (server.py:171): written in between, a server serves
  the instances of one file with the documentation of another. `ServesAsSetUp` speaks of
  both where both reads found one file.
- `knowledge/build/build_index.py`, which the wizard calls, is not in the repository;
  the model lets it leave an index of the model asked for or, if it fails, the old
  index or a part of one.
- The wizard accepts a blank instance name or model which `settings.py` refuses; `dc-a` and `dc_a` share
  the variables of their credentials (settings.py:121).
- A default `instances.yaml` that was cut short is passed over in silence, and
  the server starts from the environment.

## Proofs

TLAPS proves, for every value of the constants that satisfies the named
assumption of the module:

- `GraphRegistryProofs` (from `RegistryAssumption`): `TypeCorrect`,
  `LockExcludes` (`LockOwned`, on which `NoLeakedGraph` rests and which no run checks
  by itself), `NoGraphLeaks`, `RecordedBehindContent`,
  `ClosedGraphNeverServed`, `ImplementsReads`. None of the five safety
  properties is inductive alone. `IInv` adds what a caller in the lock knows:
  the version it was told lies between the start of its call and the present and
  is ahead of a closed entry (`VersionInv`); a rebuilding caller has closed the
  entry and holds content no older than that version (`RebuildInv`); an entry
  that is closed is behind the blueprint (`EntryInv`). The half-built graphs of failing
  calls are counted (`HalvesCount`), for which the callers must be finite. From these a step of any
  caller that is not in the lock leaves them alone, and a rebuild restores them.
  Refinement needs nothing more: each step is a step of `BlueprintReads` or a
  stutter under `IInv`.
- `AuthSessionProofs` (from `AuthAssumption`): `TypeCorrect`,
  `NoExpiredTokenServed`, `LoginsPaced`. The held token may come from either loop and the sleep
  may belong to another token. `HeldInv` bounds what the held token has left by
  the place of the refresh loop: while it sleeps, the sleep plus the margin less
  one login; while it logs in, the margin less the age of that login and of
  another. `Margin > 2 * LoginTimeout` is what keeps this positive, and the
  proof shows that this assumption is enough. `LoginsPaced` is the action property
  `RefreshLoginsPaced`: `PaceInv` bounds from below what the refresh loop has slept
  since its last login.
- `AnomalyStoreProofs` (from `StoreAssumption`): `TypeCorrect`, `HeldRowsLive`,
  `EventsHaveOneIdentity`, `ImplementsLog`. A held row survives a prune because it
  has an event (`HeldLogged`), the event recorded last of a row survives
  (`LastExists`), and ids grow (`IdsInv`). `NoDuplicates` and one row per identity
  give the refinement. From `QueryAssumption` as well (limits are integers, the mark
  of "no walk" is neither an event nor a time, time has an end): `NothingMissed` and
  `AnswersAgree`. `PagesInv` says that what was
  seen and what is still beyond the oldest event of the page read last make up every
  event that stood when the walk began and stands now. A page is the newest
  rows of what was asked for, so it is closed upwards, and a page that is not full
  was everything (`PageOfRows`). `AnswersAgree` is `QueriesAgree`, of any log under
  `IInv`: an identity has a newest event (`NewestOfExists`), which decides whether it
  is active (`ActiveIs`), ends its episode and is on any page that shows the identity;
  and a trend's sum up to any set of buckets is the number of events in them.
  From `FaultAssumption`: `ClustersAreFaithful`, which is `ClustersFaithful`. The
  assumption: windows are finite, ids and times are integers and ids unique (rows of
  the events table); two raises of one type and identity name one device or none, as
  the store keeps one row of an identity and a ghost has no device; gaps and layers
  are natural numbers. `WindowsAreAsAssumed` proves of the store what is its part of
  this, for every window it returns: finitely many raises, ids unique, one row and
  so one device for an identity (a ghost is a row of its own, whose JSON has one
  field more). The argument goes along the passes, each of them an induction
  over places in a sequence (`InductionUpTo`). `Parted`: the clusters of the first rows
  are the runs of rows between two gaps, and the next row extends the last run or
  begins one (`PartedStep`); the run of a row is the group around it (`RunIsAround`).
  `Stands`: every raise that is no ghost has one row that is its `own`, of its type
  and with its device among the devices it names, and a row counts the raises whose
  own it is; the first pass gives such rows (`CanonicalIs`), and a row that takes in another, in `_collapse_bgp`
  (`BgpStep`) or in `_collapse_cabling` (`CablingStep`), gets what the other stood for.
  So the counts add up (`FibersAddUp`) to the raises of different keys, and the layers
  of the rows are those of the raises (`LayersAre`), which gives the cause (`CauseIs`).
- `CounterSeriesProofs` (from `CounterAssumption`): `TypeCorrect`,
  `FlagsMeanResets`, `GrowthIsSound`. What a counter has lost to resets is what was
  counted less what it shows; it never falls. `RowsInv` says so of any two rows that
  have the field, in the order of their stamps, `NowInv` of each of these and the
  present; a row without the field is a zero (`ZeroInv`), after which a delta is the
  whole counter and before which it is none; `StampInv` makes the row of a running
  poll the newest. The delta of two rows
  and its flag are then arithmetic. The growth over a window is a sum of deltas
  (`GrowthSums`); the first row up to which the sum exceeded what was counted would
  have a row before it up to which it did not (`RowBefore`, `OneStepMore`).
- `AnomalyPollerProofs` (from `PollerAssumption`): `TypeCorrect`,
  `BaselineFollowsLog`, `ImplementsLog`. `DiffInv` says what a poll that is writing
  owes: of every anomaly in which the new baseline differs from the old, the event
  is still to be written or in the log already; when nothing is left to write it
  is in the log, which is `BaselineAfterLog`. It holds because nothing prunes, no
  trace writes and no tick passes between two writes of a poll (`Writing`).
  `BackfillInv` keeps the baselines a backfill stores out of it. For the refinement,
  `RecordedAppends`: whatever set of events of different stamps is recorded,
  the new ones are numbered after all others, none twice. It needs a greatest
  number in the log (`Bounded`) and that a trace says one thing of a tick.
  `NothingMadeUp` is `EventsTrue`: by `TruthInv` what is still to be written is
  true of the fabric at its tick unless a request failed (`TrueEvent`), and a trace
  was started of an anomaly that was there at the stamp it was given (`Dated`).
- `RunCommandsProofs` (from `RunAssumption`): `TypeCorrect`, `LoadBounded`,
  `EveryJobAccounted`, `NothingUnattended`. `SemInv` is the semaphore; `BatchInv` and
  `SubmitInv` bound the jobs of a command by the attempts made for its batch and,
  after that failed, for itself; `PollInv` says that what is polled exists, so only
  the last job of a command can be alive. Of the end of the call: `NoEndlessWork` is
  `EndsByItself`, with ranks that are natural numbers under `IInv`
  (`RanksAreNatural`); `AlwaysAWayOn` is what of `NothingHangs` can be said without
  `ENABLED`: some action of the program has its guard (`CanGoOn`), because nothing
  is cancelled while the call runs and a system that gathers has started its
  commands (`RunningInv`), and the semaphore lets at least one in.
- `FabricToolsProofs` (from `DriftAssumption`, `MtuAssumption`, `PolicyAssumption`,
  `TriageAssumption`, `ReadsAssumption`), on the tools that keep nothing.
  `ReportsHonest`: what a report would compare, the copies it read and the
  catalogue of now, is a moment of the call until both sides were edited; an edit of
  the catalogue takes it away only if the copies have changed since they were read,
  and that makes a third moment. `OkMeansCarries`: a report is computed once from
  values that stay; one without issues has a single known value per role, a
  switch that could not be read is one the report names, and the headroom
  comes from a least element, which exists. `BlameIsRight`: a
  diagnosis is always that of the routes and the terms it names (`Judged`), and the
  first term that matches as the tool reads terms is the one the switch stopped
  at, when the tool can read them. `AuditsOnePeer`: each part of an audit asks with
  the hostname and the address of the peer the first resolved (`About`), so about that
  address; where the names of the switch are its own (`NamesTell`), whatever they are
  expanded to finds that switch, for the next hop too. `SeesWhatStands`:
  what a read gave lies between what stood and what was there at a moment (`GotAs`),
  and the answer is made of all the reads there were to make (`Answered`), each of
  its own blueprint but for the two exemptions of `MayTell`.
  `NarrowReadsAgree`: a read of one system and the read of the
  whole fabric give the same rows of that system (`ReadsAssumption`: interfaces are
  numbered, a link joins two different systems, what is deployed was designed).
- `SetupProofs` (from `SetupAssumption`: no two targets are configured with one
  file, and the user the wizard is told is never blank): `NothingIsLost`,
  `ServesWhatWasSetUp`. `KeptInv` says that what another program wrote is where it put
  it or in a backup of that file, `SavedBy` that what a run saved is what it
  replaced. They hold because a run has a stamp of its own and a file to come has no
  backup of that stamp yet (`RunInv`). `ServerInv`: what a server read at its import and at its
  start stays with it, and so does an index once it is kept, so all its answers are
  found in one.

`Invariance` in each module is `Spec => []IInv`; the named theorems follow from it.

The library's induction theorems take an operator as a parameter and cannot be
used here. Where a proof needs an induction it takes the least counterexample
instead: naturals are well founded (`NatLessThanWellFounded`), so there is a first
place at which the claim fails (`LeastExists`), and the claim at the place before it
gives the contradiction (`SumTakesOut`, `TrendAgrees`; `InductionUpTo` states it once
for sets of places). Sums and folds are recursive functions that the community
modules choose; that there is such a function is shown the same way
(`FoldExists`), and so is that sorting a finite set by a strict order exists and gives
every member one place (`OrderExists`, `OrderOnto`).

Only model-checked: liveness (`CallsFinish`, `Recovers`, `CatchesUp`, `Covers`) and
`NothingHangs`, which speaks of `ENABLED`, are out of the prover's reach. Every other
property of a run that passes is proved. No module uses a RECURSIVE operator.

## What the models leave out

- The poller has one blueprint: blueprints share nothing but the store, whose
  rows are kept apart by key, and the loop that joins their polls.
- The identity of an anomaly leaves out its type (anomaly_store.py:121), so two
  anomalies of different types may share a row. The models take identities as
  distinct.
- Of the counters: the metadata of an interface, the ranking of interfaces over a
  window, several fields (a row's `has_reset` is the disjunction of its fields').
- The cap on backfill snapshots and mixed timestamp formats.
- `reset` and `get_collection_status` of the stores and the migration of their
  schema, which run before any task or change nothing.
- Of the tools: the wording of summaries and guidance, scores other than by their
  order, the text shapes the CLI parsers accept.
- Timeouts of httpx by their length: a request takes at most `Patience` ticks, or
  `LoginTimeout` and `ProbeTimeout` units.
- The instances of a `run_commands` call after the first: they run one after
  the other and share nothing. A limit of zero, with which the code hangs
  (run_commands.py:336), is excluded by `RunAssumption`.
- The shutdown of the server.
- Everything the components list of PROJECT.json calls not modelled, with the reason.

### Not modelled

`config_rendering.py` (the JunOS section parser), `system_context.py` and `audit.py`
make one request and cut or reshape its answer. `tools/probes.py` and
`tools/telemetry.py` look up a probe, a blueprint or a name and then ask for what
they found; nothing is compared between the answers. `tools/charting.py` and
`tools/reference.py` draw and quote; the dispatchers of `tools/` register
functions and check arguments. A model of these would be a copy. `rag_client.py` ranks by the
product of vectors; its load and its checks are in `Settings`. The history calls
of `live_data_client.py` turn pages of a server whose order this repository does
not state.

## Plan

Done: the stores, pollers and loops, the queries on the log, the fabric tools, the
installation. What is left, the most important first.

1. Server lifecycle: shutdown against pollers, traces and session loops.
2. Backfill by itself: the cap on snapshots, several blueprints, identities that
   collide across types, timestamps as text.
3. The pagination of the history calls, with an order of the server assumed.
4. Theorems: the lemmas on orders, folds and sums, which the queries and the
   clusters share, in a module of their own.

A new component shares a run with what it stands beside, as the fabric tools do:
each run is one question of the system, and the answers to twelve are already as
much as a reader keeps in mind.
