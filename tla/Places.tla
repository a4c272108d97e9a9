------------------------------- MODULE Places -------------------------------
(***************************************************************************)
(* How candidates get a venue: enrich-candidates resolves them side by     *)
(* side and writes them one by one (apps/worker/tasks/enrich.py,           *)
(* get_or_create_venue in core/db/repositories/ingestion.py, the geocoder  *)
(* of pipeline/geocoding), backfill-venues-osm completes what has no       *)
(* address or no coordinates, dedup-candidates puts the sessions on        *)
(* events, and merge_fuzzy_venues joins the rows that the writes left      *)
(* apart (pipeline/maintenance/venues.py).                                 *)
(*                                                                         *)
(* Everything is in one city; places lie on a line, in metres, and -x is   *)
(* x with its coordinates swapped.  A name or address is the set of its    *)
(* words, so that two spellings of one name are equal.  A pass that merges *)
(* is one step (Heal has its statements apart), and rows that a merge      *)
(* removed are not drawn again.  What moves a pin that a venue has, and    *)
(* its opening hours, are left out.                                        *)
(***************************************************************************)
EXTENDS Matching

CONSTANTS Cands,    \* numbers
          Cand,     \* of a candidate: name, address, coordinates in the payload, title, start
          Venues,   \* numbers of venue rows, in the order they are drawn
          Unknown,  \* the name of a venue that the source does not name
          CityOnly, \* addresses that name no street
          Geo,      \* Geo[p][q]: what provider p may find for the query q
          VenueKinds,    \* of venue, which stand before a name: "club", "theatre"
          Areas,    \* where the Yandex API puts cities, districts and regions
          Land,     \* plausible coordinates
          Centre,   \* of the city
          Nowhere, NoVenue, NoEvent,
          MaxDone   \* bound on merges, backfills and deaths

ASSUME PlacesAssumption ==
  /\ Cands \subseteq Nat \ {0} /\ Venues \subseteq Nat /\ IsFiniteSet(Cands) /\ IsFiniteSet(Venues)
  /\ DOMAIN Cand = Cands /\ Land \subseteq Nat /\ Centre \in Int /\ Areas \subseteq Int
  /\ DOMAIN Geo = {"api", "maps", "osm"} /\ VenueKinds \subseteq Words
  /\ Nowhere \notin Int /\ NoVenue \notin Venues /\ NoEvent \notin Cands
  /\ MaxDone \in Nat

VARIABLES
  venues, \* the rows of events.venues: name, addr, at
  seat,   \* event_candidates.venue_id
  plan,   \* what phase 1 of the enrichment found for a candidate
  phase,  \* of the enrichment: "resolve" or "write"
  writer, \* the candidate whose venue is about to be inserted
  fill,   \* the row that the backfill has read, and what it was answered
  event,  \* of a candidate
  shows,  \* event_occurrences: event, venue, start
  done    \* of MaxDone

enrichment == <<seat, plan, phase, writer>>
placeVars == <<venues, enrichment, fill, event, shows, done>>

NoRow == [name |-> {}, addr |-> {}, at |-> Nowhere]
Deleted == [name |-> {}, addr |-> Words, at |-> Nowhere]
NoPlan == NoRow
NoFill == [venue |-> NoVenue, row |-> NoRow, found |-> NoRow]
NoWriter == 0

Live == {v \in Venues : venues[v].name # {}}

PlacesInit ==
  /\ venues = [v \in Venues |-> NoRow]
  /\ seat = [c \in Cands |-> NoVenue]
  /\ plan = [c \in Cands |-> NoPlan]
  /\ phase = "resolve" /\ writer = NoWriter /\ fill = NoFill
  /\ event = [c \in Cands |-> NoEvent]
  /\ shows = {} /\ done = 0

Done == done < MaxDone /\ done' = done + 1

NameOf(c) == IF Cand[c].name = {} THEN Unknown ELSE Cand[c].name
Distance(x, y) == IF x < y THEN y - x ELSE x - y
Near(x, metres) == {v \in Live : venues[v].at # Nowhere /\ Distance(venues[v].at, x) <= metres}
Nearest(S, x) == {v \in S : \A w \in S : Distance(venues[v].at, x) <= Distance(venues[w].at, x)}

-----------------------------------------------------------------------------
(* Phase 1: what is known of the place, read and asked side by side.       *)

\* _coords_sane: swapped coordinates are swapped back.
Sane(x) == IF x \in Land THEN x ELSE IF x \in Int /\ -x \in Land THEN -x ELSE Nowhere

\* Three geocoders are asked in turn, each may have no answer.  An area is none, nor is what
\* lies outside the country; OpenStreetMap is asked for a name also without what kind it is.
YandexGeocoder(q) == {g \in Geo["api"][q] : g.at \notin Areas}
YandexMapsScraper(q) == {g \in Geo["maps"][q] : g.at \in Land}
NominatimGeocoder(queries) == UNION {Geo["osm"][q] : q \in queries}
VenueQueries(name) == {name} \cup {name \ {w} : w \in name \cap VenueKinds}

\* The first answer counts, and the centre of the city is none.
NoAnswer == [at |-> Nowhere, addr |-> {}]
Answers(q, queries) ==
  {g \in YandexGeocoder(q) \cup YandexMapsScraper(q) \cup NominatimGeocoder(queries) : g.at # Centre}
    \cup {NoAnswer}
Geocode(addr) == Answers(addr, {addr})
GeocodeVenue(name) == Answers(name, VenueQueries(name))

Cached(name) ==
  {v \in Live : venues[v].name = name /\ venues[v].addr # {} /\ venues[v].at # Nowhere}
Oldest(S) == CHOOSE v \in S : \A w \in S : v <= w

Plans(c) ==
  LET name == NameOf(c)  addr == Cand[c].addr  x == Sane(Cand[c].at)
  IN IF x # Nowhere THEN {[name |-> name, addr |-> addr, at |-> x]}
     ELSE IF addr # {} THEN
       {[name |-> name, addr |-> addr, at |-> g.at] :
          g \in IF addr \in CityOnly THEN {NoAnswer} ELSE Geocode(addr)}
     ELSE IF name = Unknown THEN {[name |-> name, addr |-> {}, at |-> Nowhere]}
     ELSE IF Cached(name) # {} THEN
       {[name |-> name, addr |-> venues[Oldest(Cached(name))].addr, at |-> Nowhere]}
     ELSE {[name |-> name, addr |-> g.addr, at |-> g.at] : g \in GeocodeVenue(name)}

Resolve(c) ==
  /\ phase = "resolve" /\ seat[c] = NoVenue /\ plan[c] = NoPlan
  /\ \E p \in Plans(c) : plan' = [plan EXCEPT ![c] = p]
  /\ UNCHANGED <<venues, seat, phase, writer, fill, event, shows, done>>

\* Whoever failed to resolve is left for the next batch.
Planned == {c \in Cands : plan[c] # NoPlan}
TurnToWrite ==
  /\ phase = "resolve" /\ Planned # {} /\ phase' = "write"
  /\ UNCHANGED <<venues, seat, plan, writer, fill, event, shows, done>>

-----------------------------------------------------------------------------
(* Phase 2: get_or_create_venue, one candidate after the other.            *)

Exact(p) == {v \in Live : venues[v].name = p.name /\ venues[v].addr = p.addr}
Namesakes(p) == {v \in Near(p.at, 200) : venues[v].name = p.name}
ScoreOf(p, v) == NameMatchScore(p.name, venues[v].name, FALSE, p.addr, venues[v].addr)
Variants(p) ==
  LET S == {v \in Near(p.at, 150) : ScoreOf(p, v) > 0}
  IN Nearest({v \in S : \A w \in S : ScoreOf(p, w) <= ScoreOf(p, v)}, p.at)

\* The same name and address, or the same name nearby, or the best match close by.
Found(p) ==
  IF Exact(p) # {} \/ p.at = Nowhere THEN Exact(p)
  ELSE IF Namesakes(p) # {} THEN Nearest(Namesakes(p), p.at)
  ELSE Variants(p)

Seated(c, v) ==
  /\ seat' = [seat EXCEPT ![c] = v]
  /\ plan' = [plan EXCEPT ![c] = NoPlan]
  /\ phase' = IF Planned = {c} THEN "resolve" ELSE "write"

LookUp(c) ==
  /\ phase = "write" /\ writer = NoWriter /\ c \in Planned
  /\ IF Found(plan[c]) = {} THEN writer' = c /\ UNCHANGED <<seat, plan, phase>>
     ELSE /\ \E v \in Found(plan[c]) : Seated(c, v)
          /\ UNCHANGED writer
  /\ UNCHANGED <<venues, fill, event, shows, done>>

\* A row of that name and address may have come up since.
Insert ==
  /\ writer # NoWriter
  /\ LET p == plan[writer]
         unused == {v \in Venues : venues[v] = NoRow}
     IN IF Exact(p) # {} THEN (\E v \in Exact(p) : Seated(writer, v)) /\ UNCHANGED venues
        ELSE /\ unused # {}
             /\ Seated(writer, Oldest(unused))
             /\ venues' = [venues EXCEPT ![Oldest(unused)] = p]
  /\ writer' = NoWriter
  /\ UNCHANGED <<fill, event, shows, done>>

\* The run is killed, or meets its time limit.
EnrichDies ==
  /\ Planned # {} /\ Done
  /\ plan' = [c \in Cands |-> NoPlan] /\ phase' = "resolve" /\ writer' = NoWriter
  /\ UNCHANGED <<venues, seat, fill, event, shows>>

-----------------------------------------------------------------------------
(* Backfill: a venue without an address or coordinates is asked for by its *)
(* name, and what it lacked when it was read is filled in.                 *)

BackfillRead(v) ==
  /\ fill = NoFill /\ v \in Live /\ venues[v].name # Unknown
  /\ venues[v].addr = {} \/ venues[v].at = Nowhere
  /\ \E g \in GeocodeVenue(venues[v].name) \ {NoAnswer} :
       fill' = [venue |-> v, row |-> venues[v], found |-> g]
  /\ UNCHANGED <<venues, enrichment, event, shows, done>>

Filled(row) ==
  [row EXCEPT !.addr = IF fill.row.addr = {} /\ fill.found.addr # {} THEN fill.found.addr ELSE @,
              !.at = IF fill.row.at = Nowhere THEN fill.found.at ELSE @]

\* The venue was merged away, or another has its name and the new address: the run ends.
BackfillWrite ==
  /\ fill # NoFill /\ Done
  /\ LET v == fill.venue
         row == Filled(venues[v])
     IN venues' = IF v \in Live /\ \A w \in Live \ {v} : venues[w].name # row.name \/ venues[w].addr # row.addr
                  THEN [venues EXCEPT ![v] = row] ELSE venues
  /\ fill' = NoFill
  /\ UNCHANGED <<enrichment, event, shows>>

-----------------------------------------------------------------------------
(* Dedup: a session joins the event of its venue and day that it matches.  *)

DayOf(start) == start \div 2
Title(e) == Cand[e].title
Strong(e, c, start) ==
  \/ SameEvent(Title(e), Title(c), "auto", TRUE)
  \/ start = Cand[c].start
       /\ (SameSlotTitle(Title(e), Title(c)) \/ SameEvent(Title(e), Title(c), "fuzzy", FALSE))

\* The rules decide; a model may, of two at one minute with a telling word in common.
Joins(c) ==
  LET here == {o \in shows : o.venue = seat[c] /\ DayOf(o.start) = DayOf(Cand[c].start)}
      strong == {o \in here : Strong(o.event, c, o.start)}
      asked == {o \in here : o.start = Cand[c].start
                   /\ \E w \in Range(Title(c)), u \in Range(Title(o.event)) : Latin[w] = Latin[u] /\ Length[w] >= 4}
  IN IF strong # {} THEN {o.event : o \in strong} ELSE {o.event : o \in asked} \cup {c}

Dedup(c) ==
  /\ seat[c] # NoVenue /\ event[c] = NoEvent
  /\ \E e \in Joins(c) :
       /\ event' = [event EXCEPT ![c] = e]
       /\ shows' = shows \cup {[event |-> e, venue |-> seat[c], start |-> Cand[c].start]}
  /\ UNCHANGED <<venues, enrichment, fill, done>>

-----------------------------------------------------------------------------
(* Merging the rows of one place.                                          *)

CoHost(v, w) == \E o, q \in shows : o.venue = v /\ q.venue = w /\ o.event = q.event /\ o.start = q.start
ShareSameShow(v, w) ==
  \E o, q \in shows : /\ o.venue = v /\ q.venue = w /\ o.event # q.event /\ DayOf(o.start) = DayOf(q.start)
                      /\ SameEvent(Title(o.event), Title(q.event), "fuzzy", TRUE)

\* By their names, or side by side with the same show on the same day.
Alike(v, w) ==
  LET a == venues[v]  b == venues[w]
      score == NameMatchScore(a.name, b.name, CoHost(v, w), a.addr, b.addr)
  IN /\ v # w /\ a.at # Nowhere /\ b.at # Nowhere /\ Distance(a.at, b.at) <= 150
     /\ \/ score # NoMatch
        \/ Distance(a.at, b.at) <= 30 /\ ~Contrasts(a.name, b.name) /\ ShareSameShow(v, w)

\* Fault: the guard looks at the pair only.
RefusedPairwise(B, D) == \E v \in B, w \in D : Alike(v, w) /\ Contrasts(venues[v].name, venues[w].name)

\* _guarded_union: two clusters are not joined when any two of their members contrast.  A
\* name may tell of both halls itself.
Refused(B, D) == \E v \in B, w \in D : v # w /\ Contrasts(venues[v].name, venues[w].name)

\* The pairs come in any order, and a refusal stands, for clusters only grow: the outcome is
\* any clustering into refusal-free, connected clusters of which no two alike could be joined.
Linked(B) == \A S \in SUBSET B : S \notin {{}, B} => \E v \in S, w \in B \ S : Alike(v, w)
Clusterings ==
  {f \in [Live -> Live] :
     LET Block(v) == {w \in Live : f[w] = f[v]}
     IN \A v \in Live :
          /\ f[v] \in Block(v) /\ \A w \in Block(v) : f[v] <= w
          /\ ~Refused(Block(v), Block(v)) /\ Linked(Block(v))
          /\ \A w \in Live \ Block(v) : Alike(v, w) => Refused(Block(v), Block(w))}

\* The row with the most sessions stays, then the oldest.
Shown(v) == Cardinality({o \in shows : o.venue = v})
Canonical(B) ==
  CHOOSE v \in B : \A w \in B : Shown(w) < Shown(v) \/ (Shown(w) = Shown(v) /\ v <= w)

MergeVenues ==
  /\ Done
  /\ \E f \in Clusterings :
       LET canon == [v \in Live |-> Canonical({w \in Live : f[w] = f[v]})]
           To(v) == IF v \in Live THEN canon[v] ELSE v
       IN /\ \E v \in Live : canon[v] # v
          /\ venues' = [v \in Venues |-> IF To(v) = v THEN venues[v] ELSE Deleted]
          /\ seat' = [c \in Cands |-> To(seat[c])]
          /\ shows' = {[o EXCEPT !.venue = To(@)] : o \in shows}
  /\ UNCHANGED <<plan, phase, writer, fill, event>>

-----------------------------------------------------------------------------
PlacesNext ==
  \/ \E c \in Cands : Resolve(c) \/ LookUp(c) \/ Dedup(c)
  \/ TurnToWrite \/ Insert \/ EnrichDies
  \/ (\E v \in Venues : BackfillRead(v)) \/ BackfillWrite
  \/ MergeVenues

PlacesSpec == PlacesInit /\ [][PlacesNext]_placeVars

-----------------------------------------------------------------------------
(* Properties.                                                             *)

PlacesTypeOK ==
  /\ \A v \in Venues : venues[v].name \subseteq Words /\ venues[v].addr \subseteq Words /\ venues[v].at \in Int \cup {Nowhere}
  /\ seat \in [Cands -> Venues \cup {NoVenue}]
  /\ \A c \in Cands : plan[c].name \subseteq Words /\ plan[c].addr \subseteq Words /\ plan[c].at \in Int \cup {Nowhere}
  /\ phase \in {"resolve", "write"} /\ writer \in Cands \cup {NoWriter}
  /\ fill.venue \in Venues \cup {NoVenue}
  /\ event \in [Cands -> Cands \cup {NoEvent}]
  /\ shows \subseteq [event : Cands, venue : Venues, start : Nat]
  /\ done \in 0..MaxDone

\* A pass that merges venues in whatever order, or a write, never puts on one row what stood
\* on two rows whose names are opposite halls of a building, however many generic names lie
\* between them; and no candidate is given the row of the hall opposite its own.
HallsApart ==
  [][/\ \A c, d \in Cands :
          seat[c] \in Live /\ seat[d] \in Live /\ seat[c] # seat[d]
            /\ Contrasts(venues[seat[c]].name, venues[seat[d]].name)
            => seat'[c] # seat'[d]
     /\ \A c \in Cands :
          seat[c] = NoVenue /\ seat'[c] # NoVenue =>
            LET name == venues'[seat'[c]].name
            IN name = NameOf(c) \/ ~Contrasts(NameOf(c), name)]_placeVars

\* "Antonym-aware, so [the big and the small hall] of one building stay distinct"
\* (ingestion.py:332): candidates of opposite halls have different venues.
HallsDistinct ==
  \A c, d \in Cands : seat[c] # NoVenue /\ seat[c] = seat[d] => ~Contrasts(NameOf(c), NameOf(d))

\* "a sequel/part number IS distinctive even inside one slot" (title_match.py:170).
SequelsApart ==
  \A c, d \in Cands : event[c] # NoEvent /\ event[c] = event[d] =>
    NumbersIn(Title(c)) \ Ages = NumbersIn(Title(d)) \ Ages
=============================================================================
