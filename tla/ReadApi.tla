------------------------------ MODULE ReadApi ------------------------------
(***************************************************************************)
(* The readers of a catalogue that changes under them: the cached answers  *)
(* of the API (routes/events.py), the list view that pages through it      *)
(* (ListView.tsx), the base of the feed that requests share                *)
(* (services/recommend.py), the count of views, and the search index that  *)
(* a flow rebuilds (worker/tasks/search_index.py, core/search/meili.py).   *)
(*                                                                         *)
(* The readers never touch what another one keeps.  A behaviour follows    *)
(* one of them, its scene, while the others rest, or none ("calls").       *)
(***************************************************************************)
EXTENDS Feed

CONSTANTS Scenes,     \* the readers that a behaviour may follow
          Rows,       \* the first catalogue's occurrences
          MaxNow,     \* of a scene: bound of the clock
          MaxChanges, \* of a scene: bound on changes of the catalogue, failures, switches of the order
          Watched,    \* events whose sheet is asked for
          ListSorts,  \* orders the reader of the list picks
          PageLen,    \* page of the list
          Requests, Workers, \* requests for the feed, each served by a worker
          Hot, Viewers, StartViews, \* the event that some users open, the counts before
          Intents,    \* intents on an event: routes, clicks, shares
          Batch, MaxBacklog \* documents per POST to the index, tasks it may be behind

\* event_occurrences, unique by event, place and start.
Occurrences == [ev : Events, place : Places, from : Nat, to : Nat]
Unique(O) == \A o, p \in O : o.ev = p.ev /\ o.place = p.place /\ o.from = p.from => o = p

ASSUME ReadApiAssumption ==
  /\ Scenes \subseteq {"cache", "list", "feed", "views", "index", "calls"} /\ Scenes # {}
  /\ \A s \in Scenes : MaxNow[s] \in Nat /\ MaxChanges[s] \in Nat
  /\ 0 \notin Events /\ Watched \subseteq Events
  /\ Rows \subseteq Occurrences /\ Unique(Rows)
  /\ ListSorts \subseteq Sorts /\ ListSorts # {}
  /\ PageLen \in Nat \ {0} /\ Batch \in Nat \ {0} /\ MaxBacklog \in Nat
  /\ Hot \in Events /\ StartViews \in [Events -> Nat] /\ Intents \in [Events -> Nat]
  /\ DOMAIN Workers = Requests /\ IsFiniteSet(Requests) /\ IsFiniteSet(Viewers)

VARIABLES
  scene, cat, now, changes,
  cache, asked,          \* answers in Redis, answers on their way there
  list,                  \* the list view of one reader
  base, lock, feed,      \* per worker the base and its lock, the requests
  opened, views, seenBy, until, viewing, \* openings so far; rec:views, rec:seen and its expiry
  index, tasks, indexer  \* live and throwaway index, the tasks of Meilisearch, the flow

cacheVars == <<cache, asked>>
feedVars == <<base, lock, feed>>
viewVars == <<opened, views, seenBy, until, viewing>>
indexVars == <<index, tasks, indexer>>
readers == <<cacheVars, list, feedVars, viewVars, indexVars>>
vars == <<scene, cat, now, changes, readers>>

None == [at |-> "none"]
TheMap == 0
Keys == {TheMap} \cup Watched
Empty == [docs |-> {}, run |-> {}, clean |-> TRUE]
Closed == [sort |-> "closed", items |-> <<>>, total |-> 0, loading |-> FALSE, more |-> None, calm |-> TRUE]

Init ==
  /\ scene \in Scenes
  /\ cat = [rows |-> Events, active |-> Events, occs |-> Rows]
  /\ now = 0 /\ changes = 0
  /\ cache = [k \in Keys |-> None] /\ asked = [k \in Keys |-> None]
  /\ list = Closed
  /\ base = [w \in {Workers[r] : r \in Requests} |-> None] /\ lock = [w \in DOMAIN base |-> FALSE]
  /\ feed = [r \in Requests |-> None]
  /\ opened = {} /\ views = StartViews
  /\ seenBy = {} /\ until = 0 /\ viewing = [u \in Viewers |-> None]
  /\ index = [live |-> None, tmp |-> Empty] /\ tasks = <<>> /\ indexer = None

-----------------------------------------------------------------------------
(* What changes the catalogue: the ingestion, the self-heal, the panel.    *)

Change == changes < MaxChanges[scene] /\ changes' = changes + 1
Disturbed == list' = [list EXCEPT !.calm = (list = Closed)]

Withdraw(e) ==
  /\ e \in cat.active /\ Change /\ Disturbed
  /\ cat' = [cat EXCEPT !.active = @ \ {e}]
  /\ UNCHANGED <<scene, now, cacheVars, feedVars, viewVars, indexVars>>

\* A merge deletes the row of a duplicate with all that hangs on it.
Vanish(e) ==
  /\ e \in cat.rows /\ Change /\ Disturbed
  /\ cat' = [rows |-> cat.rows \ {e}, active |-> cat.active \ {e}, occs |-> {o \in cat.occs : o.ev # e}]
  /\ UNCHANGED <<scene, now, cacheVars, feedVars, viewVars, indexVars>>

Reschedule(o) ==
  /\ o \in cat.occs /\ Change /\ Disturbed
  /\ cat' = [cat EXCEPT !.occs = (@ \ {o}) \cup
       {[ev |-> o.ev, place |-> o.place, from |-> o.from + 1, to |-> o.to + 1]}]
  /\ Unique(cat'.occs)
  /\ UNCHANGED <<scene, now, cacheVars, feedVars, viewVars, indexVars>>

\* A unit of the clock is longer than the moment between two commands to Redis.
Tick ==
  /\ now < MaxNow[scene] /\ now' = now + 1 /\ Disturbed
  /\ \A u \in Viewers : viewing[u].at # "expire"
  /\ UNCHANGED <<scene, cat, changes, cacheVars, feedVars, viewVars, indexVars>>

-----------------------------------------------------------------------------
(* Cached answers: the map under its key, each sheet under its event.      *)

\* An intent is worth four openings.
Effective == [e \in Events |-> views[e] + 4 * Intents[e]]

Query(k) == IF k = TheMap THEN Pins(cat, Everything, now) ELSE Sheet(cat, k, now).occs
Found(k) == k = TheMap \/ k \in cat.rows

\* A miss is answered from the database, and not stored when there is no such event.
Ask(k) ==
  /\ scene = "cache" /\ cache[k] = None /\ asked[k] = None /\ Found(k)
  /\ asked' = [asked EXCEPT ![k] = [at |-> "read", is |-> Query(k)]]
  /\ UNCHANGED <<scene, cat, now, changes, cache, list, feedVars, viewVars, indexVars>>

Store(k) ==
  /\ asked[k] # None
  /\ cache' = [cache EXCEPT ![k] = asked[k]]
  /\ asked' = [asked EXCEPT ![k] = None]
  /\ UNCHANGED <<scene, cat, now, changes, list, feedVars, viewVars, indexVars>>

\* Fault: the sheets are stored for good.
ExpireMap(k) ==
  /\ cache[k] # None /\ k = TheMap
  /\ cache' = [cache EXCEPT ![k] = None]
  /\ UNCHANGED <<scene, cat, now, changes, asked, list, feedVars, viewVars, indexVars>>

\* _MAP_CACHE_TTL, _DETAIL_TTL.
Expire(k) ==
  /\ cache[k] # None
  /\ cache' = [cache EXCEPT ![k] = None]
  /\ UNCHANGED <<scene, cat, now, changes, asked, list, feedVars, viewVars, indexVars>>

-----------------------------------------------------------------------------
(* The list view: one page at a time, the next one from where the last one *)
(* ended.                                                                  *)

Answer(offset) ==
  [at |-> "read", total |-> CountPinnable(cat, Everything, now),
   is |-> ListEvents(cat, Everything, now, list.sort, Pos[Placeholder], offset, PageLen, Effective)]

\* Opening it or choosing another order loads the first page, and aborts an earlier load
\* of a first page - not one of a further page.
Choose(sort) ==
  /\ scene = "list" /\ list.sort # sort
  /\ IF list = Closed THEN UNCHANGED changes ELSE Change
  /\ list' = [list EXCEPT !.sort = sort, !.loading = TRUE, !.calm = (list.more = None)]
  /\ UNCHANGED <<scene, cat, now, cacheVars, feedVars, viewVars, indexVars>>

\* An error empties the list.
Loaded ==
  /\ list.loading
  /\ \/ /\ list' = [list EXCEPT !.items = Answer(0).is, !.total = Answer(0).total, !.loading = FALSE]
        /\ UNCHANGED changes
     \/ list' = [list EXCEPT !.items = <<>>, !.total = 0, !.loading = FALSE] /\ Change
  /\ UNCHANGED <<scene, cat, now, cacheVars, feedVars, viewVars, indexVars>>

MayLoadMore ==
  /\ list # Closed /\ list.more = None /\ ~list.loading
  /\ list.total = 0 \/ Len(list.items) < list.total

\* Fault: the next page begins with the last event shown.
LoadMoreEarly ==
  /\ MayLoadMore /\ list.items # <<>>
  /\ list' = [list EXCEPT !.more = Answer(Len(list.items) - 1)]
  /\ UNCHANGED <<scene, cat, now, changes, cacheVars, feedVars, viewVars, indexVars>>

\* Never while a first page is loading, and one at a time.
LoadMore ==
  /\ MayLoadMore
  /\ list' = [list EXCEPT !.more = Answer(Len(list.items))]
  /\ UNCHANGED <<scene, cat, now, changes, cacheVars, feedVars, viewVars, indexVars>>

\* The answer is appended to whatever the list shows by now; an error leaves it alone.
MoreLoaded ==
  /\ list.more # None
  /\ \/ /\ list' = [list EXCEPT !.items = @ \o list.more.is, !.total = list.more.total, !.more = None]
        /\ UNCHANGED changes
     \/ list' = [list EXCEPT !.more = None] /\ Change
  /\ UNCHANGED <<scene, cat, now, cacheVars, feedVars, viewVars, indexVars>>

-----------------------------------------------------------------------------
(* The feed.  A request keeps the time of its arrival; the base of its     *)
(* worker serves it within one day and quarter of a day.  A base is kept   *)
(* as what it was scored from.                                             *)

Scored(b) == Base(b.of, b.t, Effective)
Own(b, t) == b # None /\ b.today = Day(t) /\ b.hour6 = Hour6(t)
Serve(r, t, b) == feed' = [feed EXCEPT ![r] = [at |-> "done", t |-> t, base |-> b]]

FeedAsk(r) ==
  /\ scene = "feed" /\ feed[r].at \in {"none", "done"}
  /\ IF Own(base[Workers[r]], now) THEN Serve(r, now, base[Workers[r]])
     ELSE feed' = [feed EXCEPT ![r] = [at |-> "wait", t |-> now]]
  /\ UNCHANGED <<scene, cat, now, changes, list, base, lock, cacheVars, viewVars, indexVars>>

\* Fault: who waited takes what is there.
FeedLockTrusting(r) ==
  /\ feed[r].at = "wait" /\ ~lock[Workers[r]]
  /\ IF base[Workers[r]] # None
     THEN Serve(r, feed[r].t, base[Workers[r]]) /\ UNCHANGED lock
     ELSE /\ lock' = [lock EXCEPT ![Workers[r]] = TRUE]
          /\ feed' = [feed EXCEPT ![r] = [at |-> "score", t |-> @.t, of |-> cat]]
  /\ UNCHANGED <<scene, cat, now, changes, list, base, cacheVars, viewVars, indexVars>>

\* With the lock the base is looked at again: another request may have refreshed it.
FeedLock(r) ==
  /\ feed[r].at = "wait" /\ ~lock[Workers[r]]
  /\ IF Own(base[Workers[r]], feed[r].t)
     THEN Serve(r, feed[r].t, base[Workers[r]]) /\ UNCHANGED lock
     ELSE /\ lock' = [lock EXCEPT ![Workers[r]] = TRUE]
          /\ feed' = [feed EXCEPT ![r] = [at |-> "score", t |-> @.t, of |-> cat]]
  /\ UNCHANGED <<scene, cat, now, changes, list, base, cacheVars, viewVars, indexVars>>

FeedStore(r) ==
  /\ feed[r].at = "score"
  /\ lock' = [lock EXCEPT ![Workers[r]] = FALSE]
  /\ LET b == [at |-> "base", today |-> Day(feed[r].t), hour6 |-> Hour6(feed[r].t), of |-> feed[r].of, t |-> feed[r].t]
     IN \/ base' = [base EXCEPT ![Workers[r]] = b] /\ Serve(r, feed[r].t, b) /\ UNCHANGED changes
        \/ Change /\ feed' = [feed EXCEPT ![r] = None] /\ UNCHANGED base
  /\ UNCHANGED <<scene, cat, now, list, cacheVars, viewVars, indexVars>>

\* _BASE_TTL.
BaseExpire(w) ==
  /\ base[w] # None
  /\ base' = [base EXCEPT ![w] = None]
  /\ UNCHANGED <<scene, cat, now, changes, list, lock, feed, cacheVars, viewVars, indexVars>>

-----------------------------------------------------------------------------
(* log_view: SADD, EXPIRE and HINCRBY; a request may end between any two.   *)

ViewVars(nextUntil, nextViewing) == until' = nextUntil /\ viewing' = nextViewing
Seen == IF until # 0 /\ now >= until THEN {} ELSE seenBy

SAdd(u) ==
  /\ scene = "views" /\ viewing[u] = None /\ Hot \in cat.active
  /\ opened' = opened \cup {<<u, Day(now)>>}
  /\ seenBy' = Seen \cup {u}
  /\ ViewVars(IF Seen = {} THEN 0 ELSE until, [viewing EXCEPT ![u] = [at |-> "expire", new |-> u \notin Seen]])
  /\ UNCHANGED <<scene, cat, now, changes, list, views, cacheVars, feedVars, indexVars>>

\* Fault: only who opens first starts the clock.
SExpireFirst(u) ==
  /\ viewing[u].at = "expire"
  /\ ViewVars(IF until = 0 THEN now + DayLen ELSE until,
              [viewing EXCEPT ![u] = IF @.new THEN [at |-> "count"] ELSE None])
  /\ UNCHANGED <<scene, cat, now, changes, list, opened, views, seenBy, cacheVars, feedVars, indexVars>>

\* A day from now, whoever opened.
SExpire(u) ==
  /\ viewing[u].at = "expire"
  /\ ViewVars(now + DayLen, [viewing EXCEPT ![u] = IF @.new THEN [at |-> "count"] ELSE None])
  /\ UNCHANGED <<scene, cat, now, changes, list, opened, views, seenBy, cacheVars, feedVars, indexVars>>

HIncr(u) ==
  /\ viewing[u].at = "count"
  /\ views' = [views EXCEPT ![Hot] = @ + 1]
  /\ ViewVars(until, [viewing EXCEPT ![u] = None])
  /\ UNCHANGED <<scene, cat, now, changes, list, opened, seenBy, cacheVars, feedVars, indexVars>>

ViewLost(u) ==
  /\ viewing[u] # None /\ Change
  /\ ViewVars(until, [viewing EXCEPT ![u] = None])
  /\ UNCHANGED <<scene, cat, now, list, opened, views, seenBy, cacheVars, feedVars, indexVars>>

-----------------------------------------------------------------------------
(* The search index.  Meilisearch takes each POST as a task and works      *)
(* through them in order.                                                  *)

\* The flow reads the active events and makes sure that there are two indexes.
Reindex ==
  /\ scene = "index" /\ indexer = None /\ Len(tasks) <= MaxBacklog
  /\ indexer' = [at |-> "clear", all |-> Documents(cat, now), left |-> Documents(cat, now),
                 clean |-> TRUE]
  /\ index' = [index EXCEPT !.live = IF @ = None THEN Empty ELSE @]
  /\ UNCHANGED <<scene, cat, now, changes, list, tasks, cacheVars, feedVars, viewVars>>

\* Fault: what an earlier run left in the throwaway index stays.
PostNoClear ==
  /\ indexer.at = "clear"
  /\ indexer' = [indexer EXCEPT !.at = "post"] /\ UNCHANGED tasks
  /\ UNCHANGED <<scene, cat, now, changes, list, index, cacheVars, feedVars, viewVars>>

\* Nobody looks at the answer: what is refused is not noticed.
PostClear ==
  /\ indexer.at = "clear"
  /\ \/ /\ indexer' = [indexer EXCEPT !.at = "post"]
        /\ tasks' = Append(tasks, [do |-> "clear", add |-> Empty]) /\ UNCHANGED changes
     \/ indexer' = [[indexer EXCEPT !.at = "post"] EXCEPT !.clean = FALSE] /\ Change /\ UNCHANGED tasks
  /\ UNCHANGED <<scene, cat, now, list, index, cacheVars, feedVars, viewVars>>

\* A batch of documents, and the swap after the last one.
Post ==
  /\ indexer.at = "post"
  /\ IF indexer.left = {}
     THEN indexer' = None /\ tasks' = Append(tasks, [do |-> "swap", add |-> [Empty EXCEPT !.clean = indexer.clean]])
     ELSE \E some \in SUBSET indexer.left :
            /\ Cardinality(some) = Batch \/ (some = indexer.left /\ Cardinality(some) < Batch)
            /\ indexer' = [indexer EXCEPT !.left = @ \ some]
            /\ tasks' = Append(tasks, [do |-> "add", add |-> [docs |-> some, run |-> indexer.all, clean |-> indexer.clean]])
  /\ UNCHANGED <<scene, cat, now, changes, list, index, cacheVars, feedVars, viewVars>>

\* A death, or a POST that fails; the next run begins from the start.
IndexerDies ==
  /\ indexer # None /\ Change
  /\ indexer' = None
  /\ UNCHANGED <<scene, cat, now, list, index, tasks, cacheVars, feedVars, viewVars>>

\* A document replaces the one of the same event.
Worked(i, t) ==
  CASE t.do = "clear" -> [live |-> i.live, tmp |-> Empty]
    [] t.do = "add" -> [live |-> i.live,
                        tmp |-> [docs |-> t.add.docs \cup {d \in i.tmp.docs : d.ev \notin Evs(t.add.docs)},
                                 run |-> t.add.run, clean |-> t.add.clean]]
    [] OTHER -> [live |-> [i.tmp EXCEPT !.clean = @ /\ t.add.clean], tmp |-> i.live]

Work ==
  /\ tasks # <<>> /\ tasks' = Tail(tasks)
  /\ index' = Worked(index, Head(tasks))
  /\ UNCHANGED <<scene, cat, now, changes, list, indexer, cacheVars, feedVars, viewVars>>

-----------------------------------------------------------------------------

World ==
  \/ \E e \in Events : Withdraw(e) \/ Vanish(e)
  \/ \E o \in cat.occs : Reschedule(o)
  \/ Tick

CacheNext == \E k \in Keys : Ask(k) \/ Store(k) \/ Expire(k)
ListNext == (\E s \in ListSorts : Choose(s)) \/ Loaded \/ LoadMore \/ MoreLoaded
FeedNext == \/ \E r \in Requests : FeedAsk(r) \/ FeedLock(r) \/ FeedStore(r)
            \/ \E w \in DOMAIN base : BaseExpire(w)
ViewNext == \E u \in Viewers : SAdd(u) \/ SExpire(u) \/ HIncr(u) \/ ViewLost(u)
IndexNext == Reindex \/ PostClear \/ Post \/ IndexerDies \/ Work
Next == World \/ CacheNext \/ ListNext \/ FeedNext \/ ViewNext \/ IndexNext

Spec == Init /\ [][Next]_vars

\* Entries expire, requests come to an end, the flow runs every two minutes and
\* Meilisearch works through its tasks.
Fairness ==
  /\ \A k \in Keys : WF_vars(Store(k)) /\ WF_vars(Expire(k))
  /\ \A r \in Requests : SF_vars(FeedLock(r)) /\ WF_vars(FeedStore(r))
  /\ \A w \in {Workers[r] : r \in Requests} : WF_vars(BaseExpire(w))
  /\ WF_vars(Reindex) /\ WF_vars(PostClear) /\ WF_vars(Post) /\ WF_vars(Work)

-----------------------------------------------------------------------------
(* Properties.                                                             *)

Filters == {[Everything EXCEPT !.city = {a}] : a \in Cities}
           \cup {[Everything EXCEPT !.cats = {k}] : k \in Categories}
           \cup {[Everything EXCEPT !.least = Price[e]] : e \in Events}
           \cup {Everything, [[Everything EXCEPT !.from = now] EXCEPT !.to = now]}

\* Every count of a filter is that of its pins; the list may have more than they when it is
\* the lowest price that they are filtered by.
CountsAgree(f) ==
  LET n == Cardinality(Pins(cat, f, now))
      counts == CategoryCounts(cat, f, now)
  IN /\ \A z \in 0..MaxZoom : MapEvents(cat, f, now, z).total = n
     /\ MapThenSumSet(LAMBDA k : counts[k], Categories) = n
     /\ Len(Listing(cat, f, now, "date", 0)) >= n
     /\ f.least = 0 => Len(Listing(cat, f, now, "date", 0)) = n

\* Asked for around a pin, its event is near, unless as many others as were asked for stand
\* at the very same point.
NearPin(f, o) ==
  \A r \in {Pos[p] : p \in Places}, n \in 1..Cardinality(Events) :
    \A near \in Nearby(cat, f, now, Pos[o.place], r, n) :
      o.ev \in Evs(near) \/ (Cardinality(near) = n /\ \A p \in near : Pos[p.place] = Pos[o.place])

\* A pin is counted at its city, and its event is found wherever else it is asked for.
PinsAgree(f) ==
  LET pins == Pins(cat, f, now) IN
  /\ MapEvents(cat, f, now, MaxZoom).total = Cardinality(pins)
  /\ \A a \in f.city : f = [Everything EXCEPT !.city = {a}] => Cardinality(pins) <= CityCount(cat, a)
  /\ f.from = NoTime => \A o \in pins :
       /\ o \in Sheet(cat, o.ev, now).occs
       /\ o.ev \in Evs(VenuePage(cat, o.place, now))
       /\ o.ev \in Evs(ByIds(cat, {o.ev}, now)) /\ o.ev \in Evs(SearchCode(cat, o.ev, now))
       /\ o.ev \in Evs(SearchWords(cat, {o.ev}, {}, f.city, now))
       /\ NearPin(f, o)

\* The queries of events_service are written one by one, each with its own joins and its
\* own DISTINCT, and have to agree on the same catalogue: the number on the map, far out and
\* close, with its clusters, its pins, its chips, the length of the list and the number at
\* the name of the city; and whatever occurrence a pin stands for is there in the sheet, and
\* its event on the page of the venue, in the favourites and in the search, and near it but
\* for a limit filled by others at that point.  The catalogue changes alike in every scene;
\* it is enough to look at it in one.
QueriesAgree == scene = "cache" => \A f \in Filters : CountsAgree(f) /\ PinsAgree(f)

\* ListView appends page after page, each asked for with the number of events shown so far.
\* As long as nothing happened since the first page - no change, no start that passed, no
\* other order chosen while a page was on its way - no event is repeated or left out.
PagesWhole ==
  list.calm /\ ~list.loading /\ list # Closed =>
    LET n == Len(list.items)
        first == Page(Listing(cat, Everything, now, list.sort, Pos[Placeholder]), 0, n)
    IN Cardinality(ToSet(list.items)) = n /\ ToSet(list.items) = ToSet(first)

\* Users the rails are built for: somewhere or not, with a liking or none.
Someone == [here : {NoTime} \cup {Pos[p] : p \in Places \ {Placeholder}},
            aff : {Cold} \cup {Affinity({k}, <<k>>) : k \in DateCats}]

\* _build_rails and _collections cut one scored pool in overlapping ways: a rail never
\* repeats an event of an earlier one but for the nearest, and a collection's tile counts
\* what its full list counts and previews nothing else.
CutHonestly(s, u, today) ==
  LET rails == Rails(s, u, today)
      shelf == Shelf(s, today)
  IN /\ \A i, j \in DOMAIN rails :
          i < j /\ rails[j].key # "near" => RailEvs(rails[i]) \cap RailEvs(rails[j]) = {}
     /\ \A slug \in DOMAIN shelf :
          LET full == Collection(s, slug, today, 0, Cardinality(s))
          IN shelf[slug].count = full.count /\ ToSet(shelf[slug].look) \subseteq ToSet(full.items)

ServedInTime ==
  /\ \A r \in Requests : feed[r].at = "done" => Own(feed[r].base, feed[r].t)
  /\ \A q, r \in Requests :
       feed[q].at = "score" /\ feed[r].at = "score" /\ Workers[q] = Workers[r] => q = r

\* _base_scored under concurrent requests: the base that serves a request was scored for
\* the day and the quarter of its arrival, a worker scores once at a time, and what any
\* user gets out of it is cut honestly.
FeedHonest ==
  /\ ServedInTime
  /\ \A w \in DOMAIN base : base[w] # None =>
       \A u \in Someone : CutHonestly(Personalize(Scored(base[w]), u), u, base[w].today)

\* log_view counts a user at most once per event and day, however openings, expiries and
\* requests that die between their commands to Redis fall together.
ViewsHonest == views[Hot] - StartViews[Hot] <= Cardinality(opened)

\* What search reads is always the whole result of one run of the flow: no half-filled
\* index is swapped in and no withdrawn event survives from an earlier, broken run - unless
\* the index refused to be cleared, which the flow does not see.
IndexWhole == index.live # None /\ index.live.clean => index.live.docs = index.live.run

\* When the catalogue comes to rest the readers come to agree with it: every answer still
\* cached is the one the database gives, every base scored from this catalogue at this time, and the
\* search index holds the active events.
AllCurrent ==
  /\ \A k \in Keys : cache[k] # None => Found(k) /\ cache[k].is = Query(k)
  /\ \A w \in DOMAIN base : base[w] # None => base[w].of = cat /\ base[w].t = now
  /\ scene = "index" => index.live # None /\ index.live.docs = Documents(cat, now)
Converges == <>[]AllCurrent

\* "Reuses the SAME filters as map_events, so the list matches the pins"
\* (events_service.py:569).
ListMatchesPins ==
  \A f \in Filters : Len(Listing(cat, f, now, "date", 0)) = Cardinality(Pins(cat, f, now))

\* ListView.tsx: "never page while a sort/filter reload is in flight (old offset under a
\* new sort)" - so that, in a catalogue nobody touches, no event is shown twice.
NeverMixed ==
  cat.occs = Rows /\ cat.active = Events /\ now = 0 /\ ~list.loading =>
    Cardinality(ToSet(list.items)) = Len(list.items)
=============================================================================
