---------------------------- MODULE EventQueries ----------------------------
(***************************************************************************)
(* The queries on the event log: those of AnomalyStore                     *)
(* (src/primitives/anomaly_store.py) and the tools that answer with them   *)
(* (src/tools/anomaly_timeline.py, src/tools/anomaly_analytics.py).  A     *)
(* query is one statement on the tables.  A client that wants more than a  *)
(* page asks again with the cursor it was given, while the pollers write   *)
(* and prune and while the window, if it is given as so many hours back,   *)
(* moves.                                                                  *)
(***************************************************************************)
EXTENDS AnomalyStore, FiniteSetsExt

CONSTANTS
  Selections,   \* filters: [keys |-> the identities it leaves, raised |-> raises only]
  Limits,       \* page sizes a client asks for
  MaxPage,      \* 500
  NoWalk        \* no client reads pages

\* "Now", the end of a window that has none, is the last stamp.
ASSUME QueryAssumption ==
  /\ MaxPage \in Nat \ {0} /\ Limits \subseteq Int
  /\ Selections \subseteq [keys : SUBSET Ids, raised : BOOLEAN]
  /\ NoWalk \notin EventRow \cup Stamps
  /\ \E now \in Stamps : \A ts \in Stamps : ts <= now

VARIABLE walk   \* the pages a client reads: its request and what it got

queryVars == <<anomalies, events, seq, writing, held, walk>>
-----------------------------------------------------------------------------
(* The queries. *)

Newer(e, f) == e.ts > f.ts \/ (e.ts = f.ts /\ e.id > f.id)

\* Mutation: the cursor compares the timestamp only.
BeyondStamp(cursor, e) == cursor = NoWalk \/ e.ts < cursor.ts

Beyond(cursor, e) == cursor = NoWalk \/ Newer(cursor, e)

Matching(keys, since, until, raisedOnly) ==
  {e \in events : KeyOf(e) \in keys /\ since <= e.ts /\ e.ts <= until /\ (raisedOnly => e.raised)}

PageLimit(limit) == Max({1, Min({limit, MaxPage})})

\* ORDER BY timestamp DESC, id DESC LIMIT n
Newest(n, rows) == {e \in rows : Cardinality({f \in rows : Newer(f, e)}) < n}

\* The row a page ends with.
Oldest(page) == CHOOSE e \in page : \A f \in page \ {e} : Newer(f, e)

\* query_events_page: newest first, one row more than the page to know if
\* there is another.
EventsPage(keys, since, until, raisedOnly, limit, cursor) ==
  LET rows == {e \in Matching(keys, since, until, raisedOnly) : Beyond(cursor, e)}
      page == Newest(PageLimit(limit), rows)
  IN  [events |-> page, more |-> page # rows,
       next |-> IF page # rows THEN Oldest(page) ELSE NoWalk]

\* query_events: one page, whatever the limit.
EventList(keys, since, until, limit) ==
  EventsPage(keys, since, until, FALSE, limit, NoWalk).events

\* get_raises_in_window
RaisesInWindow(keys, since, until) == Matching(keys, since, until, TRUE)

\* get_currently_active
ActiveKeys == Log!Active(LogOf)

\* Mutation: any clear closes an episode, also one before the raise.
ClearsAnyOf(r) == {c \in events : c.aid = r.aid /\ ~ c.raised}

\* get_fault_episodes: a raise and the first clear after it.
ClearsOf(r) == {c \in events : c.aid = r.aid /\ ~ c.raised /\ c.ts > r.ts}
Episodes(keys, since) ==
  {[key |-> KeyOf(r), raise |-> r.id, at |-> r.ts,
    cleared |-> IF ClearsOf(r) = {} THEN NoWalk ELSE Min({c.ts : c \in ClearsOf(r)})] :
     r \in {e \in events : e.raised /\ KeyOf(e) \in keys /\ since <= e.ts}}

\* get_summary, get_trend_buckets and get_device_type_matrix, for one type
\* and device: an identity stands for both.
Count(S) == Cardinality(S)
Summary(keys, since) ==
  [active |-> Count(ActiveKeys \cap keys),
   events |-> Count({e \in events : KeyOf(e) \in keys /\ since <= e.ts}),
   by     |-> [k \in keys |->
                 [raises |-> Count({e \in events : KeyOf(e) = k /\ since <= e.ts /\ e.raised}),
                  clears |-> Count({e \in events : KeyOf(e) = k /\ since <= e.ts /\ ~ e.raised})]]]

\* Bucket sizes in minutes, by the hours looked back.
BucketMinutes(hours) ==
  IF hours <= 6 THEN 15 ELSE IF hours <= 24 THEN 60 ELSE IF hours <= 72 THEN 240 ELSE 720
Bucket(ts, size) == (ts \div size) * size
Trend(keys, since, size) ==
  LET all == {e \in events : KeyOf(e) \in keys /\ since <= e.ts}
      In(b) == {e \in all : Bucket(e.ts, size) = b}
  IN  [b \in {Bucket(e.ts, size) : e \in all} |->
         [raises |-> Count({e \in In(b) : e.raised}), clears |-> Count({e \in In(b) : ~ e.raised})]]

\* get_device_anomaly_history: the events of a window, by identity.
History(keys, since, until) ==
  LET list == EventList(keys, since, until, 10000)
  IN  [k \in {KeyOf(e) : e \in list} |->
        [events |-> {e \in list : KeyOf(e) = k}, active |-> k \in ActiveKeys]]
-----------------------------------------------------------------------------
(* get_anomaly_events, page by page. *)

Windows == {w \in Stamps \X Stamps : w[1] <= w[2]}

\* A page is read: what it brings is not owed any more, and what a prune took
\* cannot be.
Turn(w, since, until) ==
  LET page == EventsPage(w.keys, since, until, w.raised, w.limit, w.cursor)
  IN  walk' = [w EXCEPT !.since = since, !.until = until,
                        !.cursor = page.next, !.more = page.more,
                        !.got = @ \cup page.events,
                        !.twice = @ \/ page.events \cap w.got # {},
                        !.owed = (@ \cap events) \ page.events]

\* The first page; a window without from_time slides, and one without to_time
\* ends now.
GetEvents ==
  /\ walk = NoWalk
  /\ writing = {}
  /\ \E f \in Selections, slides \in BOOLEAN, limit \in Limits, w \in Windows :
       Turn([keys |-> f.keys, raised |-> f.raised, slides |-> slides, limit |-> limit,
             since |-> w[1], until |-> w[2], cursor |-> NoWalk, more |-> TRUE, got |-> {},
             twice |-> FALSE, owed |-> Matching(f.keys, w[1], w[2], f.raised)], w[1], w[2])
  /\ UNCHANGED vars

GetMoreEvents ==
  /\ walk # NoWalk
  /\ writing = {}
  /\ walk.more
  /\ \E w \in Windows :
       /\ IF walk.slides THEN w[1] >= walk.since /\ w[2] >= walk.until
                         ELSE w = <<walk.since, walk.until>>
       /\ Turn(walk, w[1], w[2])
  /\ UNCHANGED vars

\* The client has its last page, or asks for no more.  What happens after the
\* last page is nothing to it, so it is done before anything else happens.
StopReading ==
  /\ walk # NoWalk
  /\ walk' = NoWalk
  /\ UNCHANGED vars

Finished == walk # NoWalk /\ ~ walk.more

QueryInit == Init /\ walk = NoWalk

QueryNext ==
  \/ ~ Finished /\ Next /\ UNCHANGED walk
  \/ GetEvents \/ GetMoreEvents \/ StopReading

QuerySpec == QueryInit /\ [][QueryNext]_queryVars
-----------------------------------------------------------------------------
\* A client that turned every page has every event that was there when it
\* began, that no prune has taken and that is still in its window, and has
\* none of them twice, whatever was recorded, late or on time, meanwhile.
PagesComplete ==
  walk # NoWalk =>
    /\ ~ walk.twice
    /\ ~ walk.more => \A e \in walk.owed : e.ts < walk.since

\* The queries agree on one log, whatever was recorded late and whatever was
\* pruned: an identity that is active has an open episode, and "open episodes
\* mean the anomaly is currently raised", unless it was cleared in the instant
\* it was raised; every raise of the summary begins one episode and enters the
\* clustering, and the buckets of a trend hold every event it counts once; and what a history up to now shows last
\* of an identity is what the view of the active ones says.  Stated of each log
\* once, while nobody turns pages.
QueriesAgree ==
  walk = NoWalk =>
    /\ \A k \in Ids :
         LET open == {x \in Episodes({k}, 0) : x.cleared = NoWalk}
         IN  /\ k \in ActiveKeys => open # {}
             /\ open # {} => k \in ActiveKeys \/
                  \E e, f \in events : e.aid = f.aid /\ KeyOf(e) = k /\ e.raised /\ ~ f.raised /\ e.ts = f.ts
    /\ \A since \in Stamps, size \in {1, BucketMinutes(1)} :
         LET summary == Summary(Ids, since)
             trend   == Trend(Ids, since, size)
         IN  /\ summary.events = MapThenSumSet(LAMBDA b : trend[b].raises + trend[b].clears, DOMAIN trend)
             /\ \A k \in Ids : /\ summary.by[k].raises = Count(Episodes({k}, since))
                              /\ summary.by[k].raises = Count(RaisesInWindow({k}, since, Max(Stamps)))
    /\ LET shown == History(Ids, 0, Max(Stamps))
       IN  \A k \in DOMAIN shown :
             shown[k].active <=> \E e \in shown[k].events : e.raised /\ \A f \in shown[k].events \ {e} : Newer(e, f)
=============================================================================
