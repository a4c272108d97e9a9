-------------------------------- MODULE Feed --------------------------------
(***************************************************************************)
(* The recommendation feed (apps/api/services/recommend.py): a pool of     *)
(* the soonest events is scored without regard to the user (Base), then    *)
(* re-ranked for one user and cut into rails and collections (Rails,       *)
(* Shelf, Collection).  Scores are in hundredths; the logarithm of the     *)
(* popularity is taken for its order alone.                                *)
(***************************************************************************)
EXTENDS Catalogue

CONSTANTS Venue,     \* the venue name of a place, "" without one
          Created,   \* the day an event was added
          Quality,   \* how complete its listing is
          Exclusive, \* events that no aggregator has
          Evening, Daytime, DateCats, \* sets of categories
          PoolCap, PerRail, MinRail, MaxRails, CapCat, CapVenue, \* tunables
          Wide,      \* pools of this size drop a collection of nearly everything
          Near,      \* _NEAR_KM
          Friday     \* the first Friday of the calendar

ASSUME FeedAssumption ==
  /\ Created \in [Events -> Nat] /\ Quality \in [Events -> Nat]
  /\ PoolCap \in Nat /\ PerRail \in Nat

Day(t) == t \div DayLen
Hour(t) == (24 * (t % DayLen)) \div DayLen
Hour6(t) == Hour(t) \div 6
Free == 0
NoPrice == 1000

\* What is known of a user: chosen categories count fully, opened ones by their share.
Affinity(favs, recent) ==
  LET n(k) == Cardinality({i \in DOMAIN recent : recent[i] = k})
      top == IF recent = <<>> THEN 1
             ELSE CHOOSE m \in {n(k) : k \in ToSet(recent)} : \A k \in ToSet(recent) : n(k) <= m
  IN [k \in Categories |-> (IF k \in favs THEN 100 ELSE 0) + (70 * n(k)) \div top]
Cold == [k \in Categories |-> 0]

-----------------------------------------------------------------------------
(* The base, shared by all users of a city.                                *)

\* The soonest occurrence of each event that has not ended before today, wherever it has
\* coordinates; runs that have begun count as today's.
Pool(c, now) ==
  LET rows == {First({o \in Shown(c, Everything, now) : o.ev = e}) : e \in Evs(Shown(c, Everything, now))}
      when(o) == IF o.from < Midnight(now) THEN Midnight(now) ELSE o.from
  IN Page(Sorted(rows, LAMBDA o, p : when(o) < when(p) \/ (when(o) = when(p) /\ o.ev < p.ev)), 0, PoolCap)

\* A session can be caught before it begins, a run while its place is open.
Timed(o) == o.from % DayLen # 0 /\ o.to - o.from <= DayLen
IsLive(o, now) ==
  IF Timed(o) THEN now < o.from /\ o.from <= now + 1
  ELSE /\ o.from <= now /\ (o.to = o.from \/ now <= o.to)
       /\ IsOpen(o.place, now)

Context(k, now) ==
  IF Hour(now) >= 17 \/ Hour(now) <= 4 THEN (IF k \in Evening THEN 100 ELSE 35)
  ELSE IF k \in Daytime THEN 100 ELSE 50

AtLeast0(i) == IF i < 0 THEN 0 ELSE i
Soon(o, now) ==
  IF IsLive(o, now) \/ Day(o.from) <= Day(now) THEN 100
  ELSE AtLeast0(100 - (100 * (Day(o.from) - Day(now))) \div 14)
Pop(e, views, most) == IF most = 0 THEN 0 ELSE (100 * views[e]) \div most
Fresh(e, now) == AtLeast0(100 - (100 * (Day(now) - Created[e])) \div 14)

\* An occurrence that has its place in the pool, scored.
Entry(o, i, now, views, most) ==
  [at |-> i, ev |-> o.ev, o |-> o, ds |-> Day(o.from), de |-> Day(o.to), live |-> IsLive(o, now),
   free |-> Price[o.ev] = Free, views |-> views[o.ev], dist |-> NoTime,
   score |-> 15 * Soon(o, now) + 13 * Pop(o.ev, views, most) + 8 * Context(Cat[o.ev], now)
             + 7 * Quality[o.ev] + 6 * Fresh(o.ev, now) + 4 * (IF Price[o.ev] = Free THEN 100 ELSE 0)]
Base(c, now, views) ==
  LET pool == Pool(c, now)
      most == CHOOSE m \in {0} \cup {views[o.ev] : o \in ToSet(pool)} : \A o \in ToSet(pool) : views[o.ev] <= m
  IN {Entry(pool[i], i, now, views, most) : i \in DOMAIN pool}

-----------------------------------------------------------------------------
(* One user's feed.                                                        *)

Personalized(x, u) ==
  LET d == IF u.here = NoTime THEN NoTime ELSE Away(x.o, u.here)
  IN [x EXCEPT !.dist = d,
               !.score = @ + 30 * u.aff[Cat[x.ev]] + IF d = NoTime THEN 0 ELSE (20 * 200) \div (2 + d)]
Personalize(base, u) == {Personalized(x, u) : x \in base}

\* sorted(): a stable sort, so that what has the same key keeps its place in the pool.
Arranged(s, key) == Sorted(s, LAMBDA x, y : key[x] < key[y] \/ (key[x] = key[y] /\ x.at < y.at))
ByScore(s) == [x \in s |-> -x.score]

\* At most CapCat of a category and CapVenue of a venue.
Fits(out, x) ==
  /\ Len(out) < PerRail
  /\ Cardinality({i \in DOMAIN out : Cat[out[i].ev] = Cat[x.ev]}) < CapCat
  /\ \/ Venue[x.o.place] = ""
     \/ Cardinality({i \in DOMAIN out : Venue[out[i].o.place] = Venue[x.o.place]}) < CapVenue
Diverse(s) == FoldLeft(LAMBDA out, x : IF Fits(out, x) THEN Append(out, x) ELSE out, <<>>, s)

Rail(key, s) == [key |-> key, items |-> Page(s, 0, PerRail)]
RailEvs(r) == {x.ev : x \in ToSet(r.items)}

\* Saturday and Sunday of the current or the coming weekend.
Weekend(today) ==
  LET wd == (today + 7 - (Friday % 7)) % 7
      sat == IF wd = 2 THEN today - 1 ELSE today + ((8 - wd) % 7)
  IN {sat, sat + 1}

\* The categories of the rails at the end, the user's own first, then the busiest.
Of(s, k) == {x \in s : Cat[x.ev] = k}
FirstOf(s, k) == CHOOSE i \in {x.at : x \in Of(s, k)} : \A x \in Of(s, k) : i <= x.at
Busiest(s, u) ==
  Sorted({k \in Categories \ {"other"} : Of(s, k) # {}}, LAMBDA k, l :
    \/ u.aff[k] > u.aff[l]
    \/ /\ u.aff[k] = u.aff[l]
       /\ \/ Cardinality(Of(s, k)) > Cardinality(Of(s, l))
          \/ Cardinality(Of(s, k)) = Cardinality(Of(s, l)) /\ FirstOf(s, k) < FirstOf(s, l))

\* The rails in their order of precedence: key, entries and their order, what they ask of
\* their size, and whether they are diverse and leave out what an earlier rail shows.
Want(key, entries, by, diverse, least, fresh) ==
  [key |-> key, entries |-> entries, by |-> by, diverse |-> diverse, least |-> least, fresh |-> fresh]
Wanted(s, u, today) ==
  LET best(key, entries, diverse) == Want(key, entries, ByScore(s), diverse, MinRail, TRUE)
      usual == {k \in Categories : u.aff[k] > 0}
      cats == Busiest(s, u)
      days == Weekend(today)
      touches(x) == \/ x.ds \in days
                    \/ (\E d \in days : d <= x.de) /\ (\E d \in days : x.ds <= d)
  IN <<Want("for_you", s, ByScore(s), TRUE, 1, TRUE)>>
     \o (IF u.here = NoTime THEN <<>>
         ELSE <<Want("near", {x \in s : x.dist <= Near}, [x \in s |-> x.dist], FALSE, MinRail, FALSE)>>)
     \o <<best("today", {x \in s : x.live \/ (x.ds <= today /\ today <= x.de)}, FALSE),
          best("exclusive", {x \in s : x.ev \in Exclusive}, TRUE),
          best("weekend", {x \in s : touches(x)}, FALSE),
          Want("popular", {x \in s : x.views > 0}, [x \in s |-> -x.views], FALSE, MinRail, TRUE)>>
     \o (IF usual = {} THEN <<>> ELSE <<best("explore", {x \in s : Cat[x.ev] \notin usual}, TRUE)>>)
     \o [i \in DOMAIN cats |-> best(cats[i], Of(s, cats[i]), FALSE)]

\* What is left of it when these events are seen.
RailOf(w, seen) ==
  LET left == IF w.fresh THEN {x \in w.entries : x.ev \notin seen} ELSE w.entries
      all == Arranged(left, w.by)
  IN Rail(w.key, IF w.diverse THEN Diverse(all) ELSE all)

\* Fault: a rail that is not filtered marks nothing as seen.
RailsUnseen(s, u, today) ==
  LET Mark(out, w) ==
        LET rail == RailOf(w, out.seen)
        IN IF Len(out.rails) >= MaxRails \/ Len(rail.items) < w.least THEN out
           ELSE [rails |-> Append(out.rails, rail), seen |-> IF w.fresh THEN out.seen \cup RailEvs(rail) ELSE out.seen]
  IN FoldLeft(Mark, [rails |-> <<>>, seen |-> {}], Wanted(s, u, today)).rails

\* A rail is shown when enough is left for it; what it shows is seen.
Add(out, w) ==
  LET rail == RailOf(w, out.seen)
  IN IF Len(out.rails) >= MaxRails \/ Len(rail.items) < w.least THEN out
     ELSE [rails |-> Append(out.rails, rail), seen |-> out.seen \cup RailEvs(rail)]
Rails(s, u, today) == FoldLeft(LAMBDA out, w : Add(out, w), [rails |-> <<>>, seen |-> {}], Wanted(s, u, today)).rails

-----------------------------------------------------------------------------
(* Collections.                                                            *)

Slugs == <<"date", "free", "last-chance", "fresh", "kids">>
Belongs(x, slug, today) ==
  CASE slug = "date" -> Cat[x.ev] \in DateCats
    [] slug = "free" -> x.free
    [] slug = "last-chance" -> x.ds < x.de /\ today <= x.de /\ x.de <= today + 3
    [] slug = "fresh" -> Created[x.ev] >= today - 7
    [] OTHER -> Cat[x.ev] = "kids"
Varied == {"date", "free", "kids"}

Those(s, slug, today) == {x \in s : Belongs(x, slug, today)}

\* One page of a collection, in an order that pages can be cut from, and its true size.
Canonical(s) == Sorted(s, LAMBDA x, y : x.score > y.score \/ (x.score = y.score /\ x.ev < y.ev))
Collection(s, slug, today, offset, limit) ==
  LET all == Canonical(Those(s, slug, today))
  IN [count |-> Len(all), items |-> Page(all, offset, limit)]

\* The tiles of the shelf: the size of each collection and a first look at it.
Shelf(s, today) ==
  LET all(slug) == Arranged(Those(s, slug, today), ByScore(s))
      tile(slug) == [look |-> Page(IF slug \in Varied THEN Diverse(all(slug)) ELSE all(slug), 0, PerRail),
                     count |-> Len(all(slug))]
      shown(slug) == /\ Cardinality(s) >= Wide => 10 * Len(all(slug)) < 7 * Cardinality(s)
                     /\ Len(tile(slug).look) >= MinRail
  IN [slug \in {sl \in ToSet(Slugs) : shown(sl)} |-> tile(slug)]
=============================================================================
