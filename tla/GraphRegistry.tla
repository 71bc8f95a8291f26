--------------------------- MODULE GraphRegistry ----------------------------
(***************************************************************************)
(* BlueprintGraphRegistry (src/primitives/graph_client.py): one Kuzu graph *)
(* per (instance, blueprint), rebuilt from the Apstra API when the         *)
(* blueprint's version changes.  get_or_rebuild runs under an asyncio lock *)
(* per key and awaits two API calls, the cheap version map and the full    *)
(* blueprint; between the two the blueprint may be edited or deleted, any  *)
(* await may raise, and a tool call may be cancelled.  Each API call has   *)
(* two instants here: the server evaluates it, and the caller resumes.     *)
(* The handlers query the graph in the step that resumes them, with no     *)
(* await in between, so an answer stands for the rows that the query read. *)
(***************************************************************************)
EXTENDS Integers, SequencesExt

CONSTANTS Keys,        \* (instance, blueprint) pairs
          Callers,     \* concurrent tool calls
          MaxVersion,  \* bound on the edits of one blueprint
          NoKey,       \* "this caller is not inside a call"
          NoCaller     \* "this lock is free"

ASSUME RegistryAssumption ==
  /\ MaxVersion \in Nat \ {0}
  /\ NoKey \notin Keys
  /\ NoCaller \notin Callers
  /\ IsFiniteSet(Callers)

VARIABLES
  live,     \* live[k]: version of blueprint k on the server, 0 before it exists
  gone,     \* gone[k]: the blueprint was deleted
  up,       \* the lifespan has not reached close_all
  graphs,   \* graphs[k]: the registry's entry for k
  opened,   \* opened[k]: Kuzu databases opened for k and not closed
  holder,   \* holder[k]: caller inside the lock of k
  waiters,  \* waiters[k]: callers queued on the lock of k, first come first
  pc,       \* pc[c]: where caller c is suspended
  key,      \* key[c]: blueprint that c asked for
  floor,    \* floor[c]: live[key[c]] when c made the call it is in, else 0
  ver,      \* ver[c]: current_version, as the version map gave it to c
  raw,      \* raw[c]: version of the blueprint that c's full fetch returned
  got,      \* got[c]: version in the graph c's last call returned, 0 if it raised
  served    \* served[k]: newest version that a call returned

regVars  == <<graphs, opened, holder, waiters>>
callVars == <<pc, key, floor, ver, raw, got, served>>
vars     == <<live, gone, up, regVars, callVars>>

Versions == 0..MaxVersion

\* An entry keeps the version recorded with the graph, the version of the
\* content the graph was built from, and whether the graph is still open.
Entry == [there : BOOLEAN, version : Versions, content : Versions, open : BOOLEAN]
NoEntry == [there |-> FALSE, version |-> 0, content |-> 0, open |-> FALSE]

\* Inside the lock: a version map or a full fetch is awaited ("ask...") or
\* has been answered and not yet read ("told...").
Critical == {"askVersions", "toldVersions", "askGraph", "toldGraph"}
Places == {"idle", "waiting", "failed"} \cup Critical

Init ==
  /\ live \in [Keys -> {0, 1}]
  /\ gone = [k \in Keys |-> FALSE]
  /\ up = TRUE
  /\ graphs = [k \in Keys |-> NoEntry]
  /\ opened = [k \in Keys |-> 0]
  /\ holder = [k \in Keys |-> NoCaller]
  /\ waiters = [k \in Keys |-> <<>>]
  /\ pc = [c \in Callers |-> "idle"]
  /\ key = [c \in Callers |-> NoKey]
  /\ floor = [c \in Callers |-> 0]
  /\ ver = [c \in Callers |-> 0]
  /\ raw = [c \in Callers |-> 0]
  /\ got = [c \in Callers |-> 0]
  /\ served = [k \in Keys |-> 0]
-----------------------------------------------------------------------------
(* The Apstra server. *)

\* A commit or a staged change: the version of a blueprint only grows.
Edit(k) ==
  /\ ~gone[k]
  /\ live[k] < MaxVersion
  /\ live' = [live EXCEPT ![k] = @ + 1]
  /\ UNCHANGED <<gone, up, regVars, callVars>>

Delete(k) ==
  /\ live[k] > 0
  /\ ~gone[k]
  /\ gone' = [gone EXCEPT ![k] = TRUE]
  /\ UNCHANGED <<live, up, regVars, callVars>>

Exists(k) == live[k] > 0 /\ ~gone[k]

\* GET /api/blueprints: the version of k, 0 when k is not in the map.
AnswerVersions(c) ==
  /\ pc[c] = "askVersions"
  /\ ver' = [ver EXCEPT ![c] = IF Exists(key[c]) THEN live[key[c]] ELSE 0]
  /\ pc' = [pc EXCEPT ![c] = "toldVersions"]
  /\ UNCHANGED <<live, gone, up, regVars, key, floor, raw, got, served>>

\* GET /api/blueprints/{id}: the nodes and relationships of one version.
\* A blueprint that is gone answers 404, which raises (see Raise).
AnswerGraph(c) ==
  /\ pc[c] = "askGraph"
  /\ Exists(key[c])
  /\ raw' = [raw EXCEPT ![c] = live[key[c]]]
  /\ pc' = [pc EXCEPT ![c] = "toldGraph"]
  /\ UNCHANGED <<live, gone, up, regVars, key, floor, ver, got, served>>
-----------------------------------------------------------------------------
(* get_or_rebuild. *)

\* The call returns version v of the blueprint, or raises when v is 0, and
\* its local variables are gone; the lock is released either way.
Leave(c, v) ==
  /\ pc' = [pc EXCEPT ![c] = "idle"]
  /\ key' = [key EXCEPT ![c] = NoKey]
  /\ got' = [got EXCEPT ![c] = v]
  /\ served' = IF v = 0 THEN served ELSE [served EXCEPT ![key[c]] = v]
  /\ floor' = [floor EXCEPT ![c] = 0]
  /\ ver' = [ver EXCEPT ![c] = 0]
  /\ raw' = [raw EXCEPT ![c] = 0]
  /\ UNCHANGED <<live, gone, up>>

Release(c) == holder' = [holder EXCEPT ![key[c]] = NoCaller]

\* Mutation: the call does not look at the lock.
CallWithoutLock(c, k) ==
  /\ up
  /\ pc[c] = "idle"
  /\ key' = [key EXCEPT ![c] = k]
  /\ floor' = [floor EXCEPT ![c] = live[k]]
  /\ holder' = [holder EXCEPT ![k] = c]
  /\ pc' = [pc EXCEPT ![c] = "askVersions"]
  /\ UNCHANGED <<live, gone, up, graphs, opened, waiters, ver, raw, got, served>>

\* A free lock that nobody is queued on is taken at once; the version map is
\* then awaited.  Otherwise the call joins the queue.
Call(c, k) ==
  /\ up
  /\ pc[c] = "idle"
  /\ key' = [key EXCEPT ![c] = k]
  /\ floor' = [floor EXCEPT ![c] = live[k]]
  /\ \/ /\ holder[k] = NoCaller
        /\ waiters[k] = <<>>
        /\ holder' = [holder EXCEPT ![k] = c]
        /\ pc' = [pc EXCEPT ![c] = "askVersions"]
        /\ UNCHANGED waiters
     \/ /\ holder[k] # NoCaller \/ waiters[k] # <<>>
        /\ waiters' = [waiters EXCEPT ![k] = Append(@, c)]
        /\ pc' = [pc EXCEPT ![c] = "waiting"]
        /\ UNCHANGED holder
  /\ UNCHANGED <<live, gone, up, graphs, opened, ver, raw, got, served>>

\* The lock was released: its first waiter resumes with it.
Acquire(c) ==
  /\ pc[c] = "waiting"
  /\ holder[key[c]] = NoCaller
  /\ waiters[key[c]] # <<>>
  /\ Head(waiters[key[c]]) = c
  /\ waiters' = [waiters EXCEPT ![key[c]] = Tail(@)]
  /\ holder' = [holder EXCEPT ![key[c]] = c]
  /\ pc' = [pc EXCEPT ![c] = "askVersions"]
  /\ UNCHANGED <<live, gone, up, graphs, opened, key, floor, ver, raw, got, served>>

\* A queued call that is cancelled leaves the queue and never held the lock.
CancelWaiting(c) ==
  /\ pc[c] = "waiting"
  /\ \E i \in 1..Len(waiters[key[c]]) :
       /\ waiters[key[c]][i] = c
       /\ waiters' = [waiters EXCEPT ![key[c]] = RemoveAt(@, i)]
  /\ Leave(c, 0)
  /\ UNCHANGED <<graphs, opened, holder>>

\* Mutation: the lock is not released on the error path.
RaiseKeepingLock(c) ==
  /\ pc[c] \in Critical
  /\ Leave(c, 0)
  /\ UNCHANGED regVars

\* The API call fails, times out or is cancelled while awaited.
Raise(c) ==
  /\ pc[c] \in Critical
  /\ Leave(c, 0)
  /\ Release(c)
  /\ UNCHANGED <<graphs, opened, waiters>>

\* `if blueprint_id not in version_map: raise KeyError`.
NotFound(c) ==
  /\ pc[c] = "toldVersions"
  /\ ver[c] = 0
  /\ Leave(c, 0)
  /\ Release(c)
  /\ UNCHANGED <<graphs, opened, waiters>>

\* Mutation: a graph is a hit whatever its version.
AnyHit(c) == graphs[key[c]].there

IsHit(c) == graphs[key[c]].there /\ graphs[key[c]].version = ver[c]

\* The graph of the registry is returned, and the handler queries it: on a
\* graph that was closed `connection` raises.
Hit(c) ==
  /\ pc[c] = "toldVersions"
  /\ ver[c] # 0
  /\ IsHit(c)
  /\ Leave(c, IF graphs[key[c]].open THEN graphs[key[c]].content ELSE 0)
  /\ Release(c)
  /\ UNCHANGED <<graphs, opened, waiters>>

\* Mutation: a closed graph is closed again.
CloseTwice(k) ==
  /\ graphs' = [graphs EXCEPT ![k].open = FALSE]
  /\ opened' = [opened EXCEPT ![k] = @ - 1]

\* close(): closing a closed graph again changes nothing.
Close(k) ==
  /\ graphs' = [graphs EXCEPT ![k].open = FALSE]
  /\ opened' = [opened EXCEPT ![k] = IF graphs[k].open THEN @ - 1 ELSE @]

\* Mutation: the new version is recorded before the fetch that may fail.
MissRecordsEarly(c) ==
  /\ pc[c] = "toldVersions"
  /\ ver[c] # 0
  /\ ~IsHit(c)
  /\ graphs' = [graphs EXCEPT ![key[c]].open = FALSE, ![key[c]].version = ver[c]]
  /\ opened' = [opened EXCEPT ![key[c]] = IF graphs[key[c]].open THEN @ - 1 ELSE @]
  /\ pc' = [pc EXCEPT ![c] = "askGraph"]
  /\ UNCHANGED <<live, gone, up, holder, waiters, key, floor, ver, raw, got, served>>

\* The stale graph is closed before the full fetch is awaited, and its entry
\* stays in the registry meanwhile.
Miss(c) ==
  /\ pc[c] = "toldVersions"
  /\ ver[c] # 0
  /\ ~IsHit(c)
  /\ Close(key[c])
  /\ pc' = [pc EXCEPT ![c] = "askGraph"]
  /\ UNCHANGED <<live, gone, up, holder, waiters, key, floor, ver, raw, got, served>>

\* Mutation: the version is read again after the fetch.
RebuildRecordsLive(c) ==
  /\ pc[c] = "toldGraph"
  /\ graphs' = [graphs EXCEPT ![key[c]] =
       [there |-> TRUE, version |-> live[key[c]], content |-> raw[c], open |-> TRUE]]
  /\ opened' = [opened EXCEPT ![key[c]] = @ + 1]
  /\ Leave(c, raw[c])
  /\ Release(c)
  /\ UNCHANGED waiters

\* The new graph is recorded with the version that the version map gave,
\* which is not necessarily the version of the content fetched after it.
Rebuild(c) ==
  /\ pc[c] = "toldGraph"
  /\ graphs' = [graphs EXCEPT ![key[c]] =
       [there |-> TRUE, version |-> ver[c], content |-> raw[c], open |-> TRUE]]
  /\ opened' = [opened EXCEPT ![key[c]] = @ + 1]
  /\ Leave(c, raw[c])
  /\ Release(c)
  /\ UNCHANGED waiters

\* The import of the nodes or of the relationships raises: the half-built
\* graph is open, and only the exception that is on its way refers to it; the
\* entry keeps the graph that was closed.
ImportFails(c) ==
  /\ pc[c] = "toldGraph"
  /\ opened' = [opened EXCEPT ![key[c]] = @ + 1]
  /\ pc' = [pc EXCEPT ![c] = "failed"]
  /\ Release(c)
  /\ UNCHANGED <<live, gone, up, graphs, waiters, key, floor, ver, raw, got, served>>

\* The call ends with the exception; nothing refers to the half-built graph any
\* more, and the database goes with it.
Unwind(c) ==
  /\ pc[c] = "failed"
  /\ opened' = [opened EXCEPT ![key[c]] = @ - 1]
  /\ Leave(c, 0)
  /\ UNCHANGED <<graphs, holder, waiters>>

\* Shutdown: every graph is closed and the registry emptied; the calls that
\* are still in flight go on.
CloseAll ==
  /\ up
  /\ up' = FALSE
  /\ graphs' = [k \in Keys |-> NoEntry]
  /\ opened' = [k \in Keys |-> IF graphs[k].open THEN opened[k] - 1 ELSE opened[k]]
  /\ UNCHANGED <<live, gone, holder, waiters, callVars>>
-----------------------------------------------------------------------------
Next ==
  \/ \E k \in Keys : Edit(k) \/ Delete(k)
  \/ \E c \in Callers, k \in Keys : Call(c, k)
  \/ \E c \in Callers :
       \/ AnswerVersions(c) \/ AnswerGraph(c)
       \/ Acquire(c) \/ CancelWaiting(c) \/ Raise(c)
       \/ NotFound(c) \/ Hit(c) \/ Miss(c) \/ Rebuild(c) \/ ImportFails(c) \/ Unwind(c)
  \/ CloseAll

\* The event loop resumes every task that can run, and httpx bounds every
\* request by a timeout, so an API call is answered or raises.
Fairness ==
  \A c \in Callers :
    /\ WF_vars(Acquire(c))
    /\ WF_vars(AnswerVersions(c) \/ (pc[c] = "askVersions" /\ Raise(c)))
    /\ WF_vars(AnswerGraph(c) \/ (pc[c] = "askGraph" /\ Raise(c)))
    /\ WF_vars(NotFound(c) \/ Hit(c) \/ Miss(c))
    /\ WF_vars(Rebuild(c) \/ ImportFails(c))
    /\ WF_vars(Unwind(c))

Spec == Init /\ [][Next]_vars
FairSpec == Spec /\ Fairness
-----------------------------------------------------------------------------
TypeOK ==
  /\ live \in [Keys -> Versions]
  /\ gone \in [Keys -> BOOLEAN]
  /\ up \in BOOLEAN
  /\ graphs \in [Keys -> Entry]
  /\ opened \in [Keys -> Nat]
  /\ holder \in [Keys -> Callers \cup {NoCaller}]
  /\ waiters \in [Keys -> Seq(Callers)]
  /\ pc \in [Callers -> Places]
  /\ key \in [Callers -> Keys \cup {NoKey}]
  /\ floor \in [Callers -> Versions]
  /\ ver \in [Callers -> Versions]
  /\ raw \in [Callers -> Versions]
  /\ got \in [Callers -> Versions]
  /\ served \in [Keys -> Versions]

\* "An asyncio lock per blueprint prevents simultaneous rebuilds from
\* concurrent tool calls" (graph_client.py:458): at any time one caller at
\* most is past the lock of a key, and it is the one the lock records.
LockOwned ==
  \A c \in Callers, k \in Keys :
    holder[k] = c <=> pc[c] \in Critical /\ key[c] = k

\* The calls that end with the exception of an import of k.
Halves(k) == {c \in Callers : pc[c] = "failed" /\ key[c] = k}

\* No Kuzu database is lost: the databases open for a blueprint are the one that
\* its entry holds and those of calls that are just failing, although a rebuild
\* does not close the graph that it could not fill (graph_client.py:511-512); so
\* however many rebuilds fail or follow one another, when no call is failing one
\* database is open at most.
NoLeakedGraph ==
  \A k \in Keys : opened[k] = (IF graphs[k].open THEN 1 ELSE 0) + Cardinality(Halves(k))

\* A rebuild that fails after the stale graph was closed leaves a closed
\* graph in the registry.  Nobody is ever handed it: whenever a caller is
\* about to compare versions, a closed entry's version is behind.
ClosedNeverHit ==
  \A c \in Callers :
    pc[c] = "toldVersions" /\ ver[c] # 0 /\ IsHit(c) => graphs[key[c]].open

\* The version recorded beside a graph never runs ahead of the graph's
\* content, although the two come from different API calls: a recorded
\* version ahead of the content would make later hits return stale data.
RecordedNotAhead ==
  \A k \in Keys : graphs[k].there =>
    /\ graphs[k].version <= graphs[k].content
    /\ graphs[k].content <= live[k]

\* Every answer is as new as the blueprint was when its call began, and the
\* answers for a blueprint never go back in time, for overlapping calls too:
\* the cache is a correct read of the blueprint (BlueprintReads).
Reads == INSTANCE BlueprintReads
ReadsSpec == Reads!Spec

\* A call comes back: nobody waits for ever on the lock or on the server.
CallsFinish == \A c \in Callers : pc[c] # "idle" ~> pc[c] = "idle"
=============================================================================
