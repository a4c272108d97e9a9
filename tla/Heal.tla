-------------------------------- MODULE Heal --------------------------------
(***************************************************************************)
(* The catalogue and what keeps it tidy: dedup-candidates and              *)
(* reprocess-changed write sessions (core/db/repositories/ingestion.py),   *)
(* self-heal-dedup merges venue rows of one place and event rows of one    *)
(* show and splits events that stand at several places                     *)
(* (pipeline/maintenance/venues.py, events.py, resplit.py), the language   *)
(* model judges the pairs the rules leave open (apps/worker/tasks/         *)
(* dedup.py), resolve-afisha-dates rebuilds sessions, expire-past-events   *)
(* prunes and expires (prune_stale_occurrences.py, lifecycle.py), and the  *)
(* panel hides events (apps/api/routes/admin_events.py).                   *)
(*                                                                         *)
(* A merge is one transaction, but it reads its pairs, moves what it sees  *)
(* on the duplicates and deletes them in separate statements, and at READ  *)
(* COMMITTED others write in between.  All sessions lie in the future:     *)
(* time does not pass here.                                                *)
(***************************************************************************)
EXTENDS Naturals, FiniteSets

CONSTANTS Events,   \* identifiers, as many as may ever be drawn
          Raws,     \* raw events with a candidate
          Afisha,   \* those of the source whose schedule is authoritative
          Title,    \* Title[r]
          Sure,     \* pairs of titles that are one event by same_event "auto"
          Close,    \* ... by same_event "fuzzy" or same_slot_title
          Akin,     \* ... that share a distinctive word
          Slots,    \* session starts, two to a day: the even one is midnight
          Closing,  \* sessions that are told with an end on their own day (date_end)
          Venues,   \* numbers of venue rows
          Place,    \* Place[v]: the physical place of v
          NoVenue, NoEvent, NoTitle,
          Tour,     \* what the schedule says: pairs of a slot and a venue
          Lists,    \* the sets of sessions that a source may list
          FirstSeat, FirstList, \* what enrichment and the sources gave at first
          MaxSpent  \* bound on edits, rebuilds, toggles of the panel and failures

Titles == {Title[r] : r \in Raws}

ASSUME HealAssumption ==
  /\ Events \subseteq Nat /\ Venues \subseteq Nat /\ Slots \subseteq Nat
  /\ IsFiniteSet(Events) /\ IsFiniteSet(Venues) /\ IsFiniteSet(Slots)
  /\ Closing \subseteq Slots /\ Afisha \subseteq Raws /\ DOMAIN Title = Raws /\ DOMAIN Place = Venues
  /\ Sure \cup Close \cup Akin \subseteq SUBSET Titles
  /\ NoVenue \notin Venues /\ NoEvent \notin Events /\ NoTitle \notin Titles
  /\ Tour \subseteq Slots \X Venues
  /\ FirstSeat \in [Raws -> Venues] /\ FirstList \in [Raws -> Lists]
  /\ Lists \subseteq (SUBSET Slots) \ {{}}
  /\ MaxSpent \in Nat

VARIABLES
  status,  \* of each event row; "none" is unused, "gone" deleted
  title,   \* canonical_title
  occs,    \* event_occurrences: event, start, venue (unique together)
  link,    \* event_sources: the event of each raw
  seat,    \* event_candidates.venue_id
  lists,   \* the sessions that the raw's payload lists
  stale,   \* raws whose content_hash differs from processed_hash
  rooms,   \* rows of events.venues
  writer,  \* the candidate or raw being written
  jobs,    \* the transactions of the self-heal and of the judge
  spent,   \* of MaxSpent
  \* history: raws whose write met an open merge, that a schedule replaced, or whose
  \* source a split left at another place
  overtaken

catalogue == <<status, title, occs, link, rooms>>
vars == <<catalogue, seat, lists, stale, writer, jobs, spent, overtaken>>

Statuses == {"none", "active", "hidden", "expired", "gone"}
Names == {"heal", "judge"}
Idle == [at |-> "idle", kind |-> "none", pairs |-> {}, rows |-> {}, links |-> {}]
NoWrite == [op |-> "none"]

Init ==
  /\ status = [e \in Events |-> "none"]
  /\ title = [e \in Events |-> NoTitle]
  /\ occs = {}
  /\ link = [r \in Raws |-> NoEvent]
  /\ seat = FirstSeat
  /\ lists = FirstList
  /\ stale = {}
  /\ rooms = Venues
  /\ writer = NoWrite
  /\ jobs = [j \in Names |-> Idle]
  /\ spent = 0
  /\ overtaken = {}

-----------------------------------------------------------------------------
(* The rows.                                                               *)

Day(s) == s \div 2
Midnight(s) == s % 2 = 0
\* A date whose hour is unknown; a midnight that is open-ended or spans days is a real run.
Placeholder(s) == Midnight(s) /\ s \in Closing
Like(S, t, u) == t = u \/ {t, u} \in S
Exists(e) == status[e] \notin {"none", "gone"}
Alive == {e \in Events : Exists(e)}
Rows(e) == {o \in occs : o.e = e}
SourcesOf(e) == {r \in Raws : link[r] = e}
At(v) == {o \in occs : o.v = v}

Spend == spent < MaxSpent /\ spent' = spent + 1

\* Rows and events that an open transaction has locked against others.
Open == {j \in Names : jobs[j].at = "moved"}
Dups(j) == {p[1] : p \in jobs[j].pairs}
Touches(j) == IF jobs[j].kind = "venues" THEN {} ELSE UNION {{p[1], p[2]} : p \in jobs[j].pairs}
Free(e) == \A j \in Open : e \notin Touches(j) /\ Rows(e) \cap jobs[j].rows = {}

-----------------------------------------------------------------------------
(* Writing sessions: dedup_and_upsert_event and reprocess_raw.             *)

\* An event at the candidate's venue on the day of its first session, of whatever status.
FirstSlot(r) == CHOOSE s \in lists[r] : \A t \in lists[r] : s <= t
Matches(r) ==
  {e \in Alive : \E o \in Rows(e) :
     /\ o.v = seat[r] /\ Day(o.s) = Day(FirstSlot(r))
     /\ Like(Sure, title[e], Title[r]) \/ (o.s = FirstSlot(r) /\ Like(Close, title[e], Title[r]))}
Unused == {e \in Events : status[e] = "none"}
Fresh(n) == {e \in Unused : Cardinality({d \in Unused : d < e}) < n}

\* A new event is committed before its sessions are written.
DedupFind(r) ==
  /\ writer = NoWrite /\ link[r] = NoEvent /\ seat[r] \in rooms
  /\ \E e \in IF Matches(r) = {} THEN Fresh(1) ELSE Matches(r) :
       /\ writer' = [op |-> "dedup", raw |-> r, event |-> e, venue |-> seat[r]]
       /\ IF Exists(e) THEN UNCHANGED <<status, title>>
          ELSE /\ status' = [status EXCEPT ![e] = "active"]
               /\ title' = [title EXCEPT ![e] = Title[r]]
  /\ UNCHANGED <<occs, link, rooms, seat, lists, stale, jobs, spent, overtaken>>

ReprocessRead(r) ==
  /\ writer = NoWrite /\ r \in stale /\ link[r] # NoEvent
  /\ writer' = [op |-> "reprocess", raw |-> r, event |-> link[r], venue |-> seat[r]]
  /\ UNCHANGED <<catalogue, seat, lists, stale, jobs, spent, overtaken>>

\* An insert waits for a row that the judge holds FOR UPDATE, not for the self-heal.
Waits(e) == jobs["judge"].at = "moved" /\ e \in Touches("judge")

\* The event or the venue of the insert is a duplicate that is about to be deleted.
Overtakes(e, v) == \E j \in Open : (IF jobs[j].kind = "venues" THEN v ELSE e) \in Dups(j)

\* _upsert_occurrences.
Sessions(e, r, v) == {[e |-> e, s |-> s, v |-> v] : s \in lists[r]}

\* A write to a row that is gone violates its foreign key: dedup rolls back and comes
\* again, reprocess rolls back to its savepoint and stamps the raw all the same.
Write ==
  /\ writer # NoWrite /\ ~Waits(writer.event)
  /\ writer' = NoWrite
  /\ LET r == writer.raw  e == writer.event  v == writer.venue
         ok == Exists(e) /\ v \in rooms
     IN /\ occs' = IF ok THEN occs \cup Sessions(e, r, v) ELSE occs
        /\ link' = IF ok /\ writer.op = "dedup" THEN [link EXCEPT ![r] = e] ELSE link
        /\ stale' = IF writer.op = "reprocess" THEN stale \ {r} ELSE stale
        /\ overtaken' = IF ok /\ ~Overtakes(e, v) /\ link'[r] = e THEN overtaken \ {r}
                        ELSE IF ok \/ writer.op = "reprocess" THEN overtaken \cup {r}
                        ELSE overtaken
  /\ UNCHANGED <<status, title, rooms, seat, lists, jobs, spent>>

-----------------------------------------------------------------------------
(* Merging venues and events.                                              *)

\* Of the rows of one place the one with the most sessions stays, then the oldest.
VenueCanon(w) ==
  \A x \in {y \in rooms : Place[y] = Place[w]} :
    LET n == Cardinality(At(w))  m == Cardinality(At(x)) IN m < n \/ (m = n /\ w <= x)
VenuePairs ==
  {p \in rooms \X rooms : p[1] # p[2] /\ Place[p[1]] = Place[p[2]] /\ VenueCanon(p[2])}

SameDay(a, b) == \E o \in Rows(a), p \in Rows(b) : o.v = p.v /\ Day(o.s) = Day(p.s)
                   /\ (o.v = NoVenue => title[a] = title[b])
SameSlot(a, b) == \E o \in Rows(a), p \in Rows(b) : o.v = p.v /\ o.s = p.s /\ o.v # NoVenue

Actives == {e \in Events : status[e] = "active"}
Safe(a, b) ==
  \/ SameDay(a, b) /\ Like(Sure, title[a], title[b])
  \/ SameSlot(a, b) /\ Like(Close, title[a], title[b])
SafePairs == {q \in SUBSET Actives : Cardinality(q) = 2 /\ \A a, b \in q : a # b => Safe(a, b)}
Doubtful(a, b) ==
  \/ SameDay(a, b) /\ Like(Close, title[a], title[b])
  \/ SameSlot(a, b) /\ Like(Akin, title[a], title[b])
JudgePairs ==
  {q \in SUBSET Actives \ SafePairs : Cardinality(q) = 2 /\ \A a, b \in q : a # b => Doubtful(a, b)}

\* The cluster of an event under a set of pairs, what no closed set around it leaves out,
\* and the member that survives it.
Closed(P, S) == \A q \in P : q \cap S # {} => q \subseteq S
Cluster(P, a) ==
  {b \in (UNION P) : \A S \in SUBSET (UNION P) : a \in S /\ Closed(P, S) => b \in S}
Outranks(a, b) ==
  LET m == Cardinality(SourcesOf(a))  n == Cardinality(SourcesOf(b))
      k == Cardinality(Rows(a))       l == Cardinality(Rows(b))
  IN m > n \/ (m = n /\ (k > l \/ (k = l /\ a >= b)))
Canon(P, c) == \A b \in Cluster(P, c) : Outranks(c, b)
Merges(P) ==
  {p \in (UNION P) \X (UNION P) : p[1] # p[2] /\ p[2] \in Cluster(P, p[1]) /\ Canon(P, p[2])}

Read(j, kind, pairs) ==
  /\ jobs[j] = Idle /\ pairs # {}
  /\ jobs' = [jobs EXCEPT ![j] =
               [at |-> "read", kind |-> kind, pairs |-> pairs, rows |-> {}, links |-> {}]]
  /\ UNCHANGED <<catalogue, seat, lists, stale, writer, spent, overtaken>>

ReadVenues == Read("heal", "venues", VenuePairs)
ReadEvents == Read("heal", "events", Merges(SafePairs))
\* The model confirms what it likes, and takes its time.
ReadJudged == \E P \in SUBSET JudgePairs : Read("judge", "events", Merges(P))

Into(pairs, d) == IF \E p \in pairs : p[1] = d THEN (CHOOSE p \in pairs : p[1] = d)[2] ELSE d

\* _revalidate_canon_pairs: the judge drops the pairs of which a half is gone.
StillThere(j) ==
  IF j = "judge" THEN {p \in jobs[j].pairs : Exists(p[1]) /\ Exists(p[2])} ELSE jobs[j].pairs

\* The UPDATEs take what they see; they wait for rows another transaction has locked,
\* and one onto a canonical row that is gone ends the transaction.
Move(j) ==
  LET pairs == StillThere(j)
      dups == {p[1] : p \in pairs}
      rows == IF jobs[j].kind = "venues" THEN {o \in occs : o.v \in dups} ELSE {o \in occs : o.e \in dups}
      links == IF jobs[j].kind = "venues" THEN {} ELSE {r \in Raws : link[r] \in dups}
      held == {o.e : o \in rows} \cup (IF jobs[j].kind = "venues" THEN {} ELSE UNION {{p[1], p[2]} : p \in pairs})
      lost == jobs[j].kind = "events" /\ \E p \in pairs : ~Exists(p[2]) /\ Rows(p[1]) # {}
  IN /\ jobs[j].at = "read" /\ \A e \in held : Free(e)
     /\ jobs' = [jobs EXCEPT ![j] =
                   IF lost \/ pairs = {} THEN Idle
                   ELSE [at |-> "moved", kind |-> @.kind, pairs |-> pairs, rows |-> rows, links |-> links]]
     /\ UNCHANGED <<catalogue, seat, lists, stale, writer, spent, overtaken>>

\* Fault: whatever begins at midnight is taken for a date without its hour.
PlaceholdersAll(O, canons) ==
  {o \in O : o.e \in canons /\ Midnight(o.s)
             /\ \E t \in O : t.e = o.e /\ t.v = o.v /\ Day(t.s) = Day(o.s) /\ ~Midnight(t.s)}

\* A row that stands for an unknown time goes when the same day has a real one.
Placeholders(O, canons) ==
  {o \in O : o.e \in canons /\ Placeholder(o.s)
             /\ \E t \in O : t.e = o.e /\ t.v = o.v /\ Day(t.s) = Day(o.s) /\ ~Midnight(t.s)}

\* DELETE of the duplicate events cascades to what arrived on them in the meantime.
CommitEvents(j) ==
  LET pairs == jobs[j].pairs
      moved == {o \in occs : o.e \notin Dups(j)} \cup {[o EXCEPT !.e = Into(pairs, o.e)] : o \in jobs[j].rows}
  IN /\ jobs[j].at = "moved" /\ jobs[j].kind = "events"
     /\ occs' = moved \ Placeholders(moved, {p[2] : p \in pairs})
     /\ link' = [r \in Raws |-> IF link[r] \notin Dups(j) THEN link[r]
                                ELSE IF r \in jobs[j].links THEN Into(pairs, link[r]) ELSE NoEvent]
     /\ status' = [e \in Events |-> IF e \in Dups(j) THEN "gone" ELSE status[e]]
     /\ jobs' = [jobs EXCEPT ![j] = Idle]
     /\ UNCHANGED <<title, rooms, seat, lists, stale, writer, spent, overtaken>>

\* DELETE of the duplicate venues leaves what arrived at them without a place; it waits
\* for the sessions there that another transaction has locked.
CommitVenues(j) ==
  LET pairs == jobs[j].pairs
      Moved(o) == IF o.v \notin Dups(j) THEN o
                  ELSE IF o \in jobs[j].rows THEN [o EXCEPT !.v = Into(pairs, o.v)]
                  ELSE [o EXCEPT !.v = NoVenue]
  IN /\ jobs[j].at = "moved" /\ jobs[j].kind = "venues"
     /\ \A i \in Open \ {j} : \A o \in jobs[i].rows : o.v \notin Dups(j)
     /\ occs' = {Moved(o) : o \in occs}
     /\ seat' = [r \in Raws |-> Into(pairs, seat[r])]
     /\ rooms' = rooms \ Dups(j)
     /\ jobs' = [jobs EXCEPT ![j] = Idle]
     /\ UNCHANGED <<status, title, link, lists, stale, writer, spent, overtaken>>

\* A deadlock, a violated constraint, a lost connection or a killed flow.
Abort(j) ==
  /\ jobs[j].at # "idle" /\ Spend
  /\ jobs' = [jobs EXCEPT ![j] = Idle]
  /\ UNCHANGED <<catalogue, seat, lists, stale, writer, overtaken>>

-----------------------------------------------------------------------------
(* Splitting, rebuilding, pruning, expiring, hiding.                       *)

VenuesOf(e) == {o.v : o \in Rows(e)} \ {NoVenue}
PlacesOf(e) == {Place[v] : v \in VenuesOf(e)}
RowsAt(e, p) == {o \in Rows(e) : o.v # NoVenue /\ Place[o.v] = p}
\* The venue of a cluster that keeps the sessions, and the cluster that keeps the event.
Best(e, p) ==
  CHOOSE v \in {w \in VenuesOf(e) : Place[w] = p} :
    \A w \in {x \in VenuesOf(e) : Place[x] = p} :
      LET n == Cardinality(Rows(e) \cap At(v))  m == Cardinality(Rows(e) \cap At(w)) IN m < n \/ (m = n /\ v <= w)
Primary(e) ==
  CHOOSE p \in PlacesOf(e) : \A q \in PlacesOf(e) \ {p} :
    LET n == Cardinality(RowsAt(e, p))  m == Cardinality(RowsAt(e, q))
    IN m < n \/ (m = n /\ \E v \in VenuesOf(e) : Place[v] = p /\ \A w \in VenuesOf(e) : Place[w] = q => v < w)

\* Fault: an event at several places is consolidated within each of them and not split.
ResplitNever(e) ==
  /\ Cardinality(VenuesOf(e)) > 1 /\ Free(e) /\ jobs["heal"] = Idle
  /\ occs' = (occs \ Rows(e)) \cup {o \in Rows(e) : o.v = NoVenue}
               \cup {[o EXCEPT !.v = Best(e, Place[o.v])] : o \in {q \in Rows(e) : q.v # NoVenue}}
  /\ UNCHANGED <<status, title, link, rooms, seat, lists, stale, writer, jobs, spent, overtaken>>

\* A copy of the event for each further place.  A source follows its url, or stays put.
Resplit(e) ==
  LET others == PlacesOf(e) \ {Primary(e)}
      Target(f, o) == IF Place[o.v] = Primary(e) THEN e ELSE f[Place[o.v]]
  IN /\ Cardinality(VenuesOf(e)) > 1 /\ Free(e) /\ jobs["heal"] = Idle
     /\ \E f \in [others -> Fresh(Cardinality(others))] :
          /\ \A p, q \in others : p # q => f[p] # f[q]
          /\ LET copies == {f[p] : p \in others} IN
             /\ status' = [d \in Events |-> IF d \in copies THEN status[e] ELSE status[d]]
             /\ title' = [d \in Events |-> IF d \in copies THEN title[e] ELSE title[d]]
             /\ occs' = (occs \ Rows(e)) \cup {o \in Rows(e) : o.v = NoVenue}
                          \cup {[e |-> Target(f, o), s |-> o.s, v |-> Best(e, Place[o.v])] : o \in {q \in Rows(e) : q.v # NoVenue}}
             /\ \E g \in [SourcesOf(e) -> {e} \cup copies] :
                  /\ link' = [r \in Raws |-> IF r \in SourcesOf(e) THEN g[r] ELSE link[r]]
                  /\ overtaken' = overtaken \cup
                       {r \in SourcesOf(e) : g[r] # (IF Place[seat[r]] \in others THEN f[Place[seat[r]]] ELSE e)}
     /\ UNCHANGED <<rooms, seat, lists, stale, writer, jobs, spent>>

\* resolve-afisha-dates: an event with fewer sessions than its schedule is rebuilt from it.
Resolve(e) ==
  /\ Spend
  /\ status[e] = "active" /\ SourcesOf(e) \cap Afisha # {} /\ Free(e)
  /\ Cardinality(Tour) > 2 /\ Rows(e) # {} /\ Cardinality(Rows(e)) < Cardinality(Tour)
  /\ {o.s : o \in Rows(e)} # {t[1] : t \in Tour}
  /\ occs' = (occs \ Rows(e)) \cup {[e |-> e, s |-> t[1], v |-> t[2]] : t \in Tour}
  /\ rooms' = rooms \cup {t[2] : t \in Tour}
  /\ overtaken' = overtaken \cup SourcesOf(e)
  /\ UNCHANGED <<status, title, link, seat, lists, stale, writer, jobs>>

\* prune: sessions that no raw of the event lists any more, as long as one is still listed.
Listed(e) == UNION {lists[r] : r \in SourcesOf(e)}
Prune(e) ==
  /\ status[e] = "active" /\ SourcesOf(e) \cap Afisha = {} /\ Free(e)
  /\ \E o \in Rows(e) : o.s \in Listed(e)
  /\ \E o \in Rows(e) : o.s \notin Listed(e)
  /\ occs' = {o \in occs : o.e = e => o.s \in Listed(e)}
  /\ UNCHANGED <<status, title, link, rooms, seat, lists, stale, writer, jobs, spent, overtaken>>

\* Fault: whatever is not active and has a session to come is taken to have gained one.
StandingUp(e) ==
  CASE status[e] = "active" /\ Rows(e) = {} -> "expired"
    [] status[e] \in {"expired", "hidden"} /\ Rows(e) # {} -> "active"
    [] OTHER -> status[e]

\* lifecycle: an event without a session to come expires, one that gained one comes back.
Standing(e) ==
  CASE status[e] = "active" /\ Rows(e) = {} -> "expired"
    [] status[e] = "expired" /\ Rows(e) # {} -> "active"
    [] OTHER -> status[e]
Expire ==
  /\ status' = [e \in Events |-> Standing(e)]
  /\ status' # status
  /\ UNCHANGED <<title, occs, link, rooms, seat, lists, stale, writer, jobs, spent, overtaken>>

\* update_event.
Toggle(e) ==
  /\ Spend
  /\ Exists(e)
  /\ \E to \in {"active", "hidden"} \ {status[e]} : status' = [status EXCEPT ![e] = to]
  /\ UNCHANGED <<title, occs, link, rooms, seat, lists, stale, writer, jobs, overtaken>>

\* A fetch finds other sessions in the source.
Edit(r) ==
  /\ Spend
  /\ \E L \in Lists \ {lists[r]} : lists' = [lists EXCEPT ![r] = L]
  /\ stale' = stale \cup {r}
  /\ UNCHANGED <<catalogue, seat, writer, jobs, overtaken>>

Next ==
  \/ \E r \in Raws : DedupFind(r) \/ ReprocessRead(r) \/ Edit(r)
  \/ Write \/ ReadVenues \/ ReadEvents \/ ReadJudged \/ Expire
  \/ \E j \in Names : Move(j) \/ CommitEvents(j) \/ CommitVenues(j) \/ Abort(j)
  \/ \E e \in Events : Resplit(e) \/ Resolve(e) \/ Prune(e) \/ Toggle(e)

Spec == Init /\ [][Next]_vars

\* The self-heal runs every few minutes and a transaction that does not fail commits.
FairSpec ==
  /\ Spec /\ WF_vars(Write) /\ WF_vars(ReadVenues) /\ WF_vars(ReadEvents)
  /\ \A r \in Raws : SF_vars(DedupFind(r))
  /\ \A j \in Names : WF_vars(Move(j)) /\ WF_vars(CommitEvents(j)) /\ WF_vars(CommitVenues(j))
  /\ \A e \in Events : WF_vars(Resplit(e))

-----------------------------------------------------------------------------
(* Properties.                                                             *)

\* No merge, split, prune or clean-up loses a session: every session that a linked raw
\* lists, but for a date whose hour is unknown, is in the catalogue at the place of the
\* raw, unless the write of the raw met a merge that had already moved the rows it wrote
\* to, a schedule replaced it, or a split left its source at another place.
Untouched(r) == link[r] # NoEvent /\ r \notin stale \cup overtaken
Firm(r) == {s \in lists[r] : ~Placeholder(s)}
Stands(o, r, s) == o.s = s /\ o.v # NoVenue /\ Place[o.v] = Place[seat[r]]
WritesKept == \A r \in Raws : Untouched(r) => \A s \in Firm(r) : \E o \in occs : Stands(o, r, s)

\* Once nobody edits or rebuilds anything more, the self-heal comes to rest: one venue
\* row per place, no pair of events that the rules call one, no event at two places
\* (as long as there are identifiers left to draw).
AtRest == VenuePairs = {} /\ SafePairs = {} /\ \A e \in Events : Cardinality(VenuesOf(e)) <= 1
ComesToRest == <>[](AtRest \/ Unused = {})

\* What the panel hides stays hidden, until the panel shows it or a merge that took it
\* for a duplicate before it was hidden removes it.
HiddenStays ==
  [][\A e \in Events : status[e] = "hidden" /\ status'[e] # "hidden" =>
       spent' # spent \/ \E j \in Names : e \in Dups(j)]_vars

-----------------------------------------------------------------------------
(* The inductive invariant of WritesKept.                                  *)

Occurrences == [e : Events, s : Slots, v : Venues \cup {NoVenue}]
Jobs == [at : {"idle", "read", "moved"}, kind : {"none", "venues", "events"},
         pairs : SUBSET ((Venues \X Venues) \cup (Events \X Events)),
         rows : SUBSET Occurrences, links : SUBSET Raws]
Writes == [op : {"dedup", "reprocess"}, raw : Raws, event : Events, venue : Venues]

TypeOK ==
  /\ status \in [Events -> Statuses] /\ title \in [Events -> Titles \cup {NoTitle}]
  /\ occs \subseteq Occurrences
  /\ link \in [Raws -> Events \cup {NoEvent}] /\ seat \in [Raws -> Venues]
  /\ lists \in [Raws -> Lists]
  /\ stale \subseteq Raws /\ overtaken \subseteq Raws /\ rooms \subseteq Venues
  /\ writer \in Writes \cup {NoWrite}
  /\ jobs \in [Names -> Jobs]
  /\ spent \in Nat

\* A venue that is being written is at the place of the candidate, however the rows of
\* that place were merged since.
WriterThere == writer # NoWrite => Place[writer.venue] = Place[seat[writer.raw]]

\* Merges are of rows of one place, or of events that once existed; what an open one has
\* moved is still there.
JobsSound ==
  \A j \in Names :
    /\ jobs[j].at = "idle" => jobs[j] = Idle
    /\ jobs[j].kind = "venues" =>
         j = "heal" /\ \A p \in jobs[j].pairs : p \in Venues \X Venues /\ Place[p[1]] = Place[p[2]]
    /\ jobs[j].kind # "venues" =>
         \A p \in jobs[j].pairs : p \in Events \X Events /\ status[p[1]] # "none" /\ status[p[2]] # "none"
    /\ j \in Open => jobs[j].rows \subseteq occs

\* Two open merges have not locked the same event, nor a session of one.
Apart ==
  \A i, j \in Open : i # j =>
    Touches(i) \cap Touches(j) = {} /\ \A o \in jobs[i].rows : o.e \notin Touches(j)

\* Whatever an open merge is about to delete, it takes the session or the source along.
Secure(o) == \A j \in Open : (IF jobs[j].kind = "venues" THEN o.v ELSE o.e) \in Dups(j) => o \in jobs[j].rows
Followed(r) == \A j \in Open : jobs[j].kind # "venues" /\ link[r] \in Dups(j) => r \in jobs[j].links

\* The sessions of a raw stand on the event that the raw is linked to, and no open merge
\* would lose them.
Kept ==
  \A r \in Raws : Untouched(r) =>
    Followed(r) /\ \A s \in Firm(r) : \E o \in Rows(link[r]) : Stands(o, r, s) /\ Secure(o)

IInv == TypeOK /\ WriterThere /\ JobsSound /\ Apart /\ Kept

-----------------------------------------------------------------------------
(* A claim of the documentation.                                           *)

\* "one event per venue.  Idempotent once split." (flows.py:631): an event whose other
\* staging stands on an event of its own is not at two places again.
SplitStays ==
  [][\A e, d \in Events :
       /\ title[d] = title[e] /\ title[e] # NoTitle
       /\ Cardinality(PlacesOf(e)) = 1 /\ Cardinality(PlacesOf(d)) = 1 /\ PlacesOf(d) # PlacesOf(e)
       => Cardinality(PlacesOf(e)') <= 1]_vars
=============================================================================
