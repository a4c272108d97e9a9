----------------------------- MODULE Catalogue -----------------------------
(***************************************************************************)
(* The queries of the read API over a catalogue of events                  *)
(* (apps/api/services/events_service.py): the map with its pins, clusters  *)
(* and totals, the list, the favourites by id, the event sheet, the venue  *)
(* page, the nearby events and the search.                                 *)
(*                                                                         *)
(* A catalogue is a value c: the events whose row exists, those among them *)
(* that are active, and their occurrences, each at a place from one time   *)
(* to another (to = from when date_end is null).  Places lie on a line.    *)
(* The highest price and the text of a filter are left out: they restrict  *)
(* an occurrence like the category does.                                   *)
(***************************************************************************)
EXTENDS Integers, FiniteSets, SequencesExt

CONSTANTS Events,      \* numbers, in the order of their ids
          Places,      \* numbers
          Placeholder, \* the place of an event whose source told none
          Cat, Price,  \* of an event; a price nobody knows is above all others
          Area, Pos,   \* the city around the coordinates of a place, its position
          Hours,       \* the clock units of a day at which a place is open, or Unknown
          Unknown,
          Cities,      \* active cities
          DayLen,      \* clock units of a day
          MaxZoom      \* the zoom below which the map is clustered

Categories == {Cat[e] : e \in Events}
NoTime == -1
Midnight(t) == (t \div DayLen) * DayLen

ASSUME CatalogueAssumption ==
  /\ Events \subseteq Nat /\ IsFiniteSet(Events)
  /\ Places \subseteq Nat /\ IsFiniteSet(Places) /\ Placeholder \in Places
  /\ DOMAIN Cat = Events /\ Price \in [Events -> Nat]
  /\ DOMAIN Area = Places /\ Pos \in [Places -> Nat]
  /\ DayLen \in Nat \ {0} /\ MaxZoom \in Nat

\* What a request asks for: a window of time, categories, a lowest price, a viewport, a city.
Everything == [from |-> NoTime, to |-> NoTime, cats |-> Categories, least |-> 0,
               box |-> {Pos[p] : p \in Places}, city |-> Cities]

-----------------------------------------------------------------------------
(* What a request sees.                                                    *)

\* Without a date the window opens at the start of today; what ended before is hidden.
Kept(o, f, now) ==
  /\ o.to >= IF f.from = NoTime THEN Midnight(now) ELSE f.from
  /\ f.to = NoTime \/ o.from <= f.to
  /\ Cat[o.ev] \in f.cats

InRegion(o, f) == Area[o.place] \in f.city
Priced(o, f) == f.least <= Price[o.ev]

\* _detail, _cluster, _count_pinnable and _category_counts all look at these.
Shown(c, f, now) ==
  {o \in c.occs : /\ o.ev \in c.active /\ Kept(o, f, now) /\ Priced(o, f) /\ InRegion(o, f)
                  /\ o.place # Placeholder /\ Pos[o.place] \in f.box}

Evs(S) == {o.ev : o \in S}
\* ORDER BY, with a strict total order.
Sorted(S, Before(_, _)) ==
  CHOOSE s \in [1..Cardinality(S) -> S] : \A j \in DOMAIN s : \A i \in 1..(j - 1) : Before(s[i], s[j])

\* Future first, then the earliest.
Started(o, now) == o.from < now
Sooner(o, p, now) ==
  \/ ~Started(o, now) /\ Started(p, now)
  \/ /\ Started(o, now) = Started(p, now)
     /\ o.from < p.from \/ (o.from = p.from /\ o.place < p.place)
Soonest(S, now) == CHOOSE o \in S : \A p \in S : p = o \/ Sooner(o, p, now)
First(S) == Soonest(S, NoTime)

\* DISTINCT ON (event_id).
OnePer(S, now) == {Soonest({o \in S : o.ev = e}, now) : e \in Evs(S)}

\* The place has opened its doors, says its week in its own city's clock; nobody knows
\* without a week, or with one that never closes.
IsOpen(p, now) == Hours[p] # Unknown /\ now % DayLen \in Hours[p] /\ Hours[p] # 0..(DayLen - 1)

-----------------------------------------------------------------------------
(* The map.                                                                *)

Pins(c, f, now) == OnePer(Shown(c, f, now), now)
CountPinnable(c, f, now) == Cardinality(Evs(Shown(c, f, now)))
CategoryCounts(c, f, now) ==
  [k \in Categories |-> Cardinality({e \in Evs(Shown(c, f, now)) : Cat[e] = k})]

\* The number at the name of a city: past events too.
CityCount(c, a) == Cardinality({e \in c.active : \E o \in c.occs : o.ev = e /\ o.place # Placeholder /\ Area[o.place] = a})

\* The grid and the distance of two markers, in units of the line: 45 and 118 degrees at
\* zoom 0, half as much at every further one.
Scale(z) == 2 ^ (MaxZoom - z)
Cell(p, z) == (p + Scale(z)) \div (2 * Scale(z))
Apart(z) == 5 * Scale(z)

\* One point per event, that of its earliest occurrence in view.
Points(c, f, now) == {First({o \in Shown(c, f, now) : o.ev = e}) : e \in Evs(Shown(c, f, now))}

\* A cell keeps the sum of its positions, so that sum / n is its centroid.
Cells(P, z) ==
  {LET here == {o \in P : Cell(Pos[o.place], z) = k}
   IN [k |-> k, sum |-> MapThenSumSet(LAMBDA o : Pos[o.place], here), n |-> Cardinality(here)]
     : k \in {Cell(Pos[o.place], z) : o \in P}}

Absolute(i) == IF i < 0 THEN -i ELSE i
Close(m, d, z) == Absolute(d.sum * m.n - m.sum * d.n) <= Apart(z) * m.n * d.n

\* A cell joins the first cluster close to it, whose centre moves.
Join(ms, d, z) ==
  LET near == {i \in DOMAIN ms : Close(ms[i], d, z)}
  IN IF near = {} THEN Append(ms, d)
     ELSE [ms EXCEPT ![CHOOSE i \in near : \A j \in near : i <= j] =
             [k |-> @.k, sum |-> @.sum + d.sum, n |-> @.n + d.n]]

\* The biggest first.
Merge(S, z) ==
  FoldLeft(LAMBDA ms, d : Join(ms, d, z), <<>>,
           Sorted(S, LAMBDA d, e : d.n > e.n \/ (d.n = e.n /\ d.k < e.k)))

Clusters(c, f, now, z) == Merge(Cells(Points(c, f, now), z), z)
ClusterTotal(ms) == FoldLeft(LAMBDA t, m : t + m.n, 0, ms)

MapEvents(c, f, now, z) ==
  IF z < MaxZoom
  THEN [pins |-> {}, total |-> ClusterTotal(Clusters(c, f, now, z)), counts |-> CategoryCounts(c, f, now)]
  ELSE LET pins == Pins(c, f, now)
       IN [pins |-> pins,
           total |-> IF f.box = Everything.box THEN Cardinality(pins) ELSE CountPinnable(c, f, now),
           counts |-> CategoryCounts(c, f, now)]

-----------------------------------------------------------------------------
(* The list, favourites, sheet, venue page, nearby, search.                *)

Sorts == {"date", "price", "distance", "popularity"}
Away(o, here) == Absolute(Pos[o.place] - here)

\* The list has no filter by the lowest price.
AnyPrice(f) == [f EXCEPT !.least = 0]
Listing(c, f, now, sort, here) ==
  Sorted(Pins(c, AnyPrice(f), now), LAMBDA o, p :
    LET key(q) == CASE sort = "price" -> <<Price[q.ev], q.from>>
                    [] sort = "distance" -> <<Away(q, here), 0>>
                    [] OTHER -> <<IF Started(q, now) THEN 1 ELSE 0, q.from>>
    IN \/ key(o)[1] < key(p)[1]
       \/ key(o)[1] = key(p)[1] /\ (key(o)[2] < key(p)[2] \/ (key(o)[2] = key(p)[2] /\ o.ev < p.ev)))

Page(s, offset, limit) == SubSeq(s, offset + 1, IF offset + limit < Len(s) THEN offset + limit ELSE Len(s))

\* Popularity ranks each page by itself; ties keep the order of the dates.
Ranked(page, views) ==
  LET at(o) == CHOOSE i \in DOMAIN page : page[i] = o
  IN Sorted(ToSet(page), LAMBDA o, p :
       views[o.ev] > views[p.ev] \/ (views[o.ev] = views[p.ev] /\ at(o) < at(p)))

ListEvents(c, f, now, sort, here, offset, limit, views) ==
  LET page == Page(Listing(c, f, now, sort, here), offset, limit)
  IN IF sort = "popularity" THEN Ranked(page, views) ELSE page

\* Withdrawn and past events too; one without any occurrence is not joined.
ByIds(c, ids, now) == OnePer({o \in c.occs : o.ev \in ids}, now)

\* Fault: what has begun is over.
SheetUpcoming(c, e, now) ==
  IF e \notin c.rows THEN [found |-> FALSE, occs |-> {}]
  ELSE [found |-> TRUE, occs |-> {o \in c.occs : o.ev = e /\ o.to >= now}]

\* The occurrences since the start of today, wherever they are.
Sheet(c, e, now) ==
  IF e \notin c.rows THEN [found |-> FALSE, occs |-> {}]
  ELSE [found |-> TRUE, occs |-> {o \in c.occs : o.ev = e /\ o.to >= Midnight(now)}]

VenuePage(c, v, now) ==
  IF v = Placeholder THEN {}
  ELSE OnePer({o \in c.occs : o.ev \in c.active /\ o.place = v /\ o.to >= Midnight(now)}, now)

\* One row per event, at its nearest place, and of these a limit of the nearest: nothing
\* says which of those at one distance.  The answers that there may be.
Nearby(c, f, now, here, radius, limit) ==
  LET hits == {o \in c.occs : /\ o.ev \in c.active /\ Kept(o, f, now)
                               /\ o.place # Placeholder /\ Away(o, here) <= radius}
      nearest(S) == {o \in S : \A p \in S : Away(o, here) <= Away(p, here)}
      rows == {Soonest(nearest({o \in hits : o.ev = e}), now) : e \in Evs(hits)}
      n == IF Cardinality(rows) < limit THEN Cardinality(rows) ELSE limit
  IN {A \in SUBSET rows : Cardinality(A) = n /\ \A o \in A, p \in rows \ A : Away(o, here) <= Away(p, here)}

\* A code names one active event, a past one too.  Words find the active events by their
\* title and any event by the name of its place; of these the map's rows are shown.
SearchCode(c, e, now) == OnePer({o \in c.occs : o.ev = e /\ e \in c.active}, now)
SearchWords(c, titled, named, city, now) ==
  LET cand == (titled \cap c.active) \cup {o.ev : o \in {p \in c.occs : p.place \in named}}
  IN OnePer({o \in c.occs : /\ o.ev \in cand /\ o.place # Placeholder
                              /\ o.to >= Midnight(now) /\ Area[o.place] \in city}, now)

\* The documents of the search index and a query of them around a city.
Documents(c, now) == OnePer({o \in c.occs : o.ev \in c.active}, now)
SearchIndex(docs, found, city) == {o \in docs : o.ev \in found /\ Area[o.place] \in city}
=============================================================================
