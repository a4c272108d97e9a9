----------------------------- MODULE Ingestion -----------------------------
(***************************************************************************)
(* The ingestion pipeline: fetchers upsert raw events; normalize-raw turns *)
(* them into candidates, asking the language model about Telegram posts;   *)
(* enrich-candidates gives a candidate its venue;                          *)
(* dedup-upsert links it to an event; reprocess-changed carries a changed  *)
(* raw to its event; retry-transient-skips reopens what the model failed   *)
(* on (apps/worker/tasks/{fetch,normalize,enrich,dedup}.py, apps/worker/   *)
(* flows.py, core/db/repositories/ingestion.py).                           *)
(*                                                                         *)
(* Every flow runs at most once at a time, all of them at the same time.   *)
(* A flow reads its batch in one transaction and writes it raw by raw,     *)
(* with a commit after each write: what it read may be old by then.        *)
(***************************************************************************)
EXTENDS Naturals, FiniteSets

CONSTANTS Raws,         \* numbers of the rows of events.raw_events
          Origin,       \* Origin[r]: the kind of source r comes from
          Parent,       \* Parent[r]: the schedule post that r was split from, or 0
          Wavering,     \* raws whose content may come back to an older one, once
          Poison,       \* raws whose candidate makes dedup-upsert raise, every time
          Show,         \* Show[r]: the event (place, day, title) r tells of
          Quotes,       \* the <<raw, version>> that tell a real price, neither free nor unknown
          MaxVersion,   \* bound on the contents of a raw
          BatchLimit,   \* LIMIT of the three batch queries (100, 300, 200)
          MaxAttempts,  \* reopenings by retry-transient-skips (5)
          RetryLimit,   \* LIMIT of retry-transient-skips (500)
          MaxFaults     \* bound on crashes and failed statements

Origins == {"post", "child", "kudago", "kudago_city", "timepad"}

ASSUME IngestionAssumption ==
  /\ Raws \subseteq Nat \ {0} /\ IsFiniteSet(Raws)
  /\ Origin \in [Raws -> Origins]
  /\ Parent \in [Raws -> Raws \cup {0}]
  /\ \A r \in Raws : Parent[r] # 0 <=> Origin[r] = "child"
  /\ Wavering \subseteq Raws /\ Poison \subseteq Raws
  /\ DOMAIN Show = Raws /\ Quotes \subseteq Raws \X (1..MaxVersion)
  /\ MaxVersion \in Nat /\ BatchLimit \in Nat \ {0}
  /\ MaxAttempts \in Nat /\ RetryLimit \in Nat \ {0} /\ MaxFaults \in Nat

\* A version stands for content_hash; 0 for a row that is not there, or NULL.
Versions == 0..MaxVersion
Retired == {"rejected", "telegram_split", "llm_error_dead"}
Reasons == Retired \cup {"", "llm_error"}

VARIABLES
  hash, skip, stamp, attempts,  \* events.raw_events
  cand,                         \* events.event_candidates
  link, shown, price, made,     \* event_sources, event_occurrences, events
  norm, enr, ded, rep,          \* the four flows in flight
  faults,
  \* history, read by no action but the bound of Fetch: the version a retired
  \* raw was judged by, the events of its last split, raws whose candidate was
  \* dropped, whose content came back, whose last refresh failed, that were
  \* edited since the last batch that read them
  judged, fan, dropped, reverted, frozen, edited

\* shown[r] are the versions of dates and price that the last upsert of r brought.  The
\* row of a session is shared by the sources of its event: price[e] is the quote in it.

raws == <<hash, skip, stamp, attempts>>
events == <<link, shown, price, made>>
flows == <<norm, enr, ded, rep>>
history == <<judged, fan, dropped, reverted, frozen, edited>>
vars == <<raws, cand, events, flows, faults, history>>

NoCand == [stage |-> "none", ver |-> 0]
Nothing == [dates |-> 0, offer |-> 0]
NoPrice == <<0, 0>>
Unread == [r \in Raws |-> 0]
IdleNorm == [pc |-> "batch", todo |-> {}, seen |-> Unread, kids |-> {}]
IdleDed == [pc |-> "batch", todo |-> {}, seen |-> Unread, event |-> 0]
IdleRep == [raw |-> 0, seen |-> 0]

Init ==
  /\ hash = Unread
  /\ skip = [r \in Raws |-> ""]
  /\ stamp = Unread
  /\ attempts = Unread
  /\ cand = [r \in Raws |-> NoCand]
  /\ link = Unread
  /\ shown = [r \in Raws |-> Nothing]
  /\ price = [e \in {} |-> NoPrice]
  /\ made = 0
  /\ norm = IdleNorm
  /\ enr = {}
  /\ ded = IdleDed
  /\ rep = IdleRep
  /\ faults = 0
  /\ judged = Unread
  /\ fan = Unread
  /\ dropped = {}
  /\ reverted = {}
  /\ frozen = {}
  /\ edited = {}

\* The first n elements of a set of numbers, and the last n.
FirstOf(S, n) == {x \in S : Cardinality({y \in S : y < x}) < n}
LastOf(S, n) == {x \in S : Cardinality({y \in S : y > x}) < n}
IsFirst(r, S) == r \in S /\ \A s \in S : r <= s

ReadNow(S) == [r \in Raws |-> IF r \in S THEN hash[r] ELSE 0]

-----------------------------------------------------------------------------
(* Fetching.                                                               *)

\* Fault: a new content does not reopen the raw.
UpsertClosed(r, v) ==
  /\ hash' = [hash EXCEPT ![r] = v]
  /\ UNCHANGED skip

\* INSERT ... ON CONFLICT DO UPDATE: the reason is cleared when the hash changes.
Upsert(r, v) ==
  /\ hash' = [hash EXCEPT ![r] = v]
  /\ skip' = [skip EXCEPT ![r] = IF hash[r] = v THEN @ ELSE ""]

\* A fetcher brings a new content of r.
Fetch(r, v) ==
  /\ Origin[r] # "child"
  /\ v # hash[r]
  /\ v > hash[r] \/ r \in Wavering \ reverted
  /\ Upsert(r, v)
  /\ reverted' = IF v < hash[r] THEN reverted \cup {r} ELSE reverted
  /\ edited' = IF r \in norm.todo THEN edited \cup {r} ELSE edited
  /\ UNCHANGED <<stamp, attempts, cand, events, flows, faults, judged, fan,
                 dropped, frozen>>

-----------------------------------------------------------------------------
(* normalize-raw.                                                          *)

Unprocessed ==
  {r \in Raws : hash[r] # 0 /\ skip[r] = "" /\ cand[r].stage = "none"}

\* The batch is read, then the model is asked about all of its posts at once.
NormalizeBatch ==
  /\ norm.pc = "batch" /\ norm.todo = {}
  /\ Unprocessed # {}
  /\ LET B == FirstOf(Unprocessed, BatchLimit)
     IN norm' = [IdleNorm EXCEPT !.todo = B, !.seen = ReadNow(B)] /\ edited' = edited \ B
  /\ UNCHANGED <<raws, cand, events, enr, ded, rep, faults, judged, fan, dropped,
                 reverted, frozen>>

Normalizing(r) == norm.pc = "batch" /\ IsFirst(r, norm.todo)

\* mark_raw_skipped writes the reason alone, whatever the row holds by now.
MarkSkipped(r, why) ==
  /\ skip' = [skip EXCEPT ![r] = why]
  /\ judged' = [judged EXCEPT ![r] = norm.seen[r]]
  /\ norm' = [norm EXCEPT !.todo = @ \ {r}]
  /\ UNCHANGED <<hash, stamp, attempts, cand, events, enr, ded, rep, faults, fan,
                 dropped, reverted, frozen, edited>>

\* The model fails, or answers that a post is no event.
SkipPost(r, why) ==
  /\ Normalizing(r)
  /\ Origin[r] = "post"
  /\ why \in {"llm_error", "rejected"}
  /\ MarkSkipped(r, why)

\* An event in the past or without title, date or place.  Only the bare kudago
\* source and Telegram have such a gate.
SkipCandidate(r) ==
  /\ Normalizing(r)
  /\ Origin[r] \in {"post", "child", "kudago"}
  /\ MarkSkipped(r, "rejected")

\* One candidate is saved and committed ...
SaveCandidate(r) ==
  /\ Normalizing(r)
  /\ cand' = [cand EXCEPT ![r] = [NoCand EXCEPT !.stage = "new",
                                                !.ver = norm.seen[r]]]
  /\ norm' = [norm EXCEPT !.pc = "stamp"]
  /\ UNCHANGED <<raws, events, enr, ded, rep, faults, history>>

\* ... then the raw is stamped with the hash it was read with.
StampRaw(r) ==
  /\ norm.pc = "stamp" /\ IsFirst(r, norm.todo)
  /\ stamp' = [stamp EXCEPT ![r] = norm.seen[r]]
  /\ norm' = [norm EXCEPT !.pc = "batch", !.todo = @ \ {r}]
  /\ UNCHANGED <<hash, skip, attempts, cand, events, enr, ded, rep, faults,
                 history>>

Children(r) == {c \in Raws : Parent[c] = r}

\* A schedule post of n events: its children are upserted one by one ...
SplitPost(r, n) ==
  /\ Normalizing(r)
  /\ Origin[r] = "post"
  /\ n > 1
  /\ norm' = [norm EXCEPT !.pc = "split", !.kids = FirstOf(Children(r), n)]
  /\ fan' = [fan EXCEPT ![r] = n]
  /\ UNCHANGED <<raws, cand, events, enr, ded, rep, faults, judged, dropped,
                 reverted, frozen, edited>>

\* (populate_existing renews the child's object if it is in the same batch.)
UpsertChild(r, c) ==
  /\ norm.pc = "split" /\ IsFirst(r, norm.todo)
  /\ IsFirst(c, norm.kids)
  /\ Upsert(c, norm.seen[r])
  /\ norm' = [norm EXCEPT !.kids = @ \ {c},
                          !.seen[c] = IF c \in norm.todo THEN norm.seen[r] ELSE @]
  /\ UNCHANGED <<stamp, attempts, cand, events, enr, ded, rep, faults, history>>

\* Fault: the post is retired while children are missing.
RetireEarly(r) ==
  /\ norm.pc = "split" /\ IsFirst(r, norm.todo)
  /\ stamp' = [stamp EXCEPT ![r] = norm.seen[r]]
  /\ skip' = [skip EXCEPT ![r] = "telegram_split"]
  /\ judged' = [judged EXCEPT ![r] = norm.seen[r]]
  /\ norm' = [norm EXCEPT !.pc = "batch", !.todo = @ \ {r}, !.kids = {}]
  /\ UNCHANGED <<hash, attempts, cand, events, enr, ded, rep, faults, fan,
                 dropped, reverted, frozen, edited>>

\* ... and the post itself is retired.
RetirePost(r) ==
  /\ norm.pc = "split" /\ IsFirst(r, norm.todo)
  /\ norm.kids = {}
  /\ stamp' = [stamp EXCEPT ![r] = norm.seen[r]]
  /\ skip' = [skip EXCEPT ![r] = "telegram_split"]
  /\ judged' = [judged EXCEPT ![r] = norm.seen[r]]
  /\ norm' = [norm EXCEPT !.pc = "batch", !.todo = @ \ {r}]
  /\ UNCHANGED <<hash, attempts, cand, events, enr, ded, rep, faults, fan,
                 dropped, reverted, frozen, edited>>

NormalizeStep ==
  \/ NormalizeBatch
  \/ \E r \in Raws : \/ \E why \in Reasons : SkipPost(r, why)
                     \/ SkipCandidate(r)
                     \/ SaveCandidate(r)
                     \/ StampRaw(r)
                     \/ \E n \in 2..Cardinality(Children(r)) : SplitPost(r, n)
                     \/ \E c \in Raws : UpsertChild(r, c)
                     \/ RetirePost(r)

-----------------------------------------------------------------------------
(* enrich-candidates.                                                      *)

Unresolved == {r \in Raws : cand[r].stage = "new" /\ link[r] = 0}

EnrichBatch ==
  /\ enr = {} /\ Unresolved # {}
  /\ enr' = FirstOf(Unresolved, BatchLimit)
  /\ UNCHANGED <<raws, cand, events, norm, ded, rep, faults, history>>

\* Venue and category are resolved for the whole batch and written one by one.
EnrichCandidate(r) ==
  /\ IsFirst(r, enr)
  /\ cand' = [cand EXCEPT ![r].stage = "placed"]
  /\ enr' = enr \ {r}
  /\ UNCHANGED <<raws, events, norm, ded, rep, faults, history>>

\* A candidate whose resolution or write fails waits for the next batch.
SkipEnrich(r) ==
  /\ IsFirst(r, enr)
  /\ faults < MaxFaults
  /\ faults' = faults + 1
  /\ enr' = enr \ {r}
  /\ UNCHANGED <<raws, cand, events, norm, ded, rep, history>>

EnrichStep == EnrichBatch \/ \E r \in Raws : EnrichCandidate(r)

-----------------------------------------------------------------------------
(* dedup-upsert.                                                           *)

Unlinked == {r \in Raws : cand[r].stage = "placed" /\ link[r] = 0}

\* The batch query loads candidates and raws; the model classifies what needs it
\* before the loop.
DedupBatch ==
  /\ ded.pc = "batch" /\ ded.todo = {}
  /\ Unlinked # {}
  /\ LET B == FirstOf(Unlinked, BatchLimit)
     IN ded' = [IdleDed EXCEPT !.todo = B, !.seen = ReadNow(B)]
  /\ UNCHANGED <<raws, cand, events, norm, enr, rep, faults, history>>

Deduping(r) == ded.pc = "batch" /\ IsFirst(r, ded.todo)

\* A lecture of the bare timepad source: its candidate is deleted.
DropLecture(r) ==
  /\ Deduping(r)
  /\ Origin[r] = "timepad"
  /\ cand' = [cand EXCEPT ![r] = NoCand]
  /\ dropped' = dropped \cup {r}
  /\ ded' = [ded EXCEPT !.todo = @ \ {r}]
  /\ UNCHANGED <<raws, events, norm, enr, rep, faults, judged, fan, reverted,
                 frozen, edited>>

\* Fault: only events of the same source are looked at.
TwinsOfSource(r) ==
  {s \in Raws : link[s] # 0 /\ Show[s] = Show[r] /\ Origin[s] = Origin[r]}

\* An event with an occurrence at the place and day of r, under its title.
Twins(r) == {s \in Raws : link[s] # 0 /\ Show[s] = Show[r]}

MatchEvent(r) ==
  /\ Deduping(r) /\ r \notin Poison
  /\ \E s \in Twins(r) : ded' = [ded EXCEPT !.pc = "link", !.event = link[s]]
  /\ UNCHANGED <<raws, cand, events, norm, enr, rep, faults, history>>

\* A new event is committed before it has an occurrence or a source.
CreateEvent(r) ==
  /\ Deduping(r) /\ r \notin Poison
  /\ Twins(r) = {}
  /\ made' = made + 1
  /\ price' = [e \in 1..made' |-> IF e <= made THEN price[e] ELSE NoPrice]
  /\ ded' = [ded EXCEPT !.pc = "link", !.event = made + 1]
  /\ UNCHANGED <<raws, cand, link, shown, norm, enr, rep, faults, history>>

\* Fault: a free or unknown price overwrites a known one.
AlwaysTaken(r, v) == TRUE

\* A row takes the incoming price only when it is a real one.
Taken(r, v) == <<r, v>> \in Quotes

\* Sessions and price of r are upserted onto event e.
UpsertOccurrences(r, e, dates, offer) ==
  /\ shown' = [shown EXCEPT ![r] = [dates |-> dates, offer |-> offer]]
  /\ price' = [price EXCEPT ![e] = IF Taken(r, offer) THEN <<r, offer>> ELSE @]

\* Occurrences and source are committed together: the dates from the raw as the
\* batch loaded it, the price from the candidate.
LinkEvent(r) ==
  /\ ded.pc = "link" /\ IsFirst(r, ded.todo)
  /\ link' = [link EXCEPT ![r] = ded.event]
  /\ UpsertOccurrences(r, ded.event, ded.seen[r], cand[r].ver)
  /\ ded' = [ded EXCEPT !.pc = "batch", !.todo = @ \ {r}, !.event = 0]
  /\ UNCHANGED <<raws, cand, made, norm, enr, rep, faults, history>>

\* Handling r raises.  The rollback expires every row that the batch loaded, and
\* to read the next one, in the loop and again in its handler, raises out of it:
\* the rest of the batch is left to the next pass.
RaiseDedup(r) ==
  /\ IsFirst(r, ded.todo)
  /\ faults' = IF r \in Poison THEN faults ELSE faults + 1
  /\ faults' <= MaxFaults
  /\ ded' = IdleDed
  /\ UNCHANGED <<raws, cand, events, norm, enr, rep, history>>

DedupStep ==
  \/ DedupBatch
  \/ \E r \in Raws : \/ DropLecture(r) \/ MatchEvent(r) \/ CreateEvent(r)
                     \/ LinkEvent(r) \/ RaiseDedup(r)

-----------------------------------------------------------------------------
(* reprocess-changed.                                                      *)

Structured == {"kudago", "timepad"}

\* Fault: only raws that were never stamped.
StaleUnstamped ==
  {r \in Raws : /\ Origin[r] \in Structured
                /\ cand[r].stage # "none" /\ link[r] # 0
                /\ stamp[r] = 0}

\* Linked raws of the structured sources, by their bare names, whose content is
\* not the one their candidate was built from.
Stale ==
  {r \in Raws : /\ Origin[r] \in Structured
                /\ cand[r].stage # "none" /\ link[r] # 0
                /\ stamp[r] # hash[r]}

ReadStale(r) ==
  /\ rep = IdleRep
  /\ r \in Stale
  /\ rep' = [raw |-> r, seen |-> hash[r]]
  /\ UNCHANGED <<raws, cand, events, norm, enr, ded, faults, history>>

\* Candidate, occurrences and stamp in one transaction.
RefreshRaw(r) ==
  /\ rep.raw = r
  /\ cand' = [cand EXCEPT ![r].ver = rep.seen]
  /\ IF link[r] = 0 THEN UNCHANGED <<shown, price>>
     ELSE UpsertOccurrences(r, link[r], rep.seen, rep.seen)
  /\ stamp' = [stamp EXCEPT ![r] = rep.seen]
  /\ frozen' = frozen \ {r}
  /\ rep' = IdleRep
  /\ UNCHANGED <<hash, skip, attempts, link, made, norm, enr, ded, faults,
                 judged, fan, dropped, reverted, edited>>

\* The occurrences fail and are rolled back to the savepoint, the rest stays.
RefreshWithout(r) ==
  /\ rep.raw = r
  /\ faults < MaxFaults
  /\ faults' = faults + 1
  /\ cand' = [cand EXCEPT ![r].ver = rep.seen]
  /\ stamp' = [stamp EXCEPT ![r] = rep.seen]
  /\ frozen' = frozen \cup {r}
  /\ rep' = IdleRep
  /\ UNCHANGED <<hash, skip, attempts, events, norm, enr, ded, judged, fan,
                 dropped, reverted, edited>>

\* All of it fails: the raw is read again and stamped.
StampFailed(r) ==
  /\ rep.raw = r
  /\ faults < MaxFaults
  /\ faults' = faults + 1
  /\ stamp' = [stamp EXCEPT ![r] = hash[r]]
  /\ frozen' = frozen \cup {r}
  /\ rep' = IdleRep
  /\ UNCHANGED <<hash, skip, attempts, cand, events, norm, enr, ded, judged, fan,
                 dropped, reverted, edited>>

ReprocessStep == \E r \in Raws : ReadStale(r) \/ RefreshRaw(r)

-----------------------------------------------------------------------------
(* retry-transient-skips: one transaction over the whole table.            *)

Failed == {r \in Raws : skip[r] = "llm_error"}
Exhausted == {r \in Failed : attempts[r] >= MaxAttempts}

\* The newest are reopened first.
Reopened == LastOf(Failed \ Exhausted, RetryLimit)

RetryTransient ==
  /\ Failed # {}
  /\ skip' = [r \in Raws |-> IF r \in Exhausted THEN "llm_error_dead"
                            ELSE IF r \in Reopened THEN "" ELSE skip[r]]
  /\ attempts' = [r \in Raws |-> IF r \in Reopened THEN attempts[r] + 1 ELSE attempts[r]]
  /\ UNCHANGED <<hash, stamp, cand, events, flows, faults, history>>

-----------------------------------------------------------------------------
\* A flow is killed: what it had not committed is lost.
LoseFlow ==
  /\ faults < MaxFaults
  /\ faults' = faults + 1
  /\ \/ norm # IdleNorm /\ norm' = IdleNorm /\ UNCHANGED <<enr, ded, rep>>
     \/ enr # {} /\ enr' = {} /\ UNCHANGED <<norm, ded, rep>>
     \/ ded # IdleDed /\ ded' = IdleDed /\ UNCHANGED <<norm, enr, rep>>
     \/ rep # IdleRep /\ rep' = IdleRep /\ UNCHANGED <<norm, enr, ded>>
  /\ UNCHANGED <<raws, cand, events, history>>

Failure ==
  \/ LoseFlow
  \/ \E r \in Raws : \/ SkipEnrich(r)
                     \/ RefreshWithout(r) \/ StampFailed(r)

Next ==
  \/ \E r \in Raws, v \in 1..MaxVersion : Fetch(r, v)
  \/ NormalizeStep \/ EnrichStep \/ DedupStep \/ ReprocessStep
  \/ RetryTransient
  \/ Failure

Spec == Init /\ [][Next]_vars

\* Prefect starts every flow again and again.
Fairness ==
  /\ WF_vars(NormalizeStep)
  /\ WF_vars(EnrichStep)
  /\ WF_vars(DedupStep)
  /\ WF_vars(ReprocessStep)
  /\ WF_vars(RetryTransient)

FairSpec == Spec /\ Fairness

-----------------------------------------------------------------------------
(* Properties.                                                             *)

\* Every variable has its type.
TypeOK ==
  /\ hash \in [Raws -> Versions]
  /\ skip \in [Raws -> Reasons]
  /\ stamp \in [Raws -> Versions]
  /\ attempts \in [Raws -> 0..MaxAttempts]
  /\ cand \in [Raws -> [stage : {"none", "new", "placed"}, ver : Versions]]
  /\ link \in [Raws -> 0..made]
  /\ shown \in [Raws -> [dates : Versions, offer : Versions]]
  /\ price \in [1..made -> (Raws \cup {0}) \X Versions]
  /\ made \in Nat
  /\ norm \in [pc : {"batch", "split", "stamp"}, todo : SUBSET Raws,
               seen : [Raws -> Versions], kids : SUBSET Raws]
  /\ enr \subseteq Raws
  /\ ded \in [pc : {"batch", "link"}, todo : SUBSET Raws,
              seen : [Raws -> Versions], event : 0..made]
  /\ rep \in [raw : Raws \cup {0}, seen : Versions]
  /\ faults \in 0..MaxFaults
  /\ judged \in [Raws -> Versions]
  /\ fan \in [Raws -> Nat]
  /\ dropped \subseteq Raws /\ reverted \subseteq Raws /\ frozen \subseteq Raws
  /\ edited \subseteq Raws

\* One event in the world is one event on the map, whichever sources tell of it
\* and whatever crashes leave behind (dedup.py: the upsert loop stays serial).
NoTwins ==
  \A r, s \in Raws :
    link[r] # 0 /\ link[s] # 0 /\ Show[r] = Show[s] => link[r] = link[s]

\* The map has the sessions of r's newest content.  Where that tells a real price, the event
\* has it, or a real one that another of its sources gave; no free or unknown price takes
\* its place.
Quoted(r) ==
  <<r, hash[r]>> \in Quotes =>
    LET q == price[link[r]] IN
      q \in Quotes /\ link[q[1]] = link[r] /\ (q[1] = r => q[2] = hash[r])
UpToDate(r) ==
  \/ shown[r] = [dates |-> hash[r], offer |-> hash[r]] /\ Quoted(r)
  \/ r \in reverted \cup frozen

\* A raw whose stamp is its hash has its content on the map, so that the
\* reprocess selector never passes over a stale event, and whatever the other sources of
\* the event bring later does not take its price away.  Excepted are a content
\* that came back to an older one and a refresh that failed.
StampMeansShown ==
  \A r \in Raws : Origin[r] \in Structured /\ link[r] # 0 /\ stamp[r] = hash[r] => UpToDate(r)

\* A schedule post is retired only when each of its events lives on as a child
\* with the content of that very version.
SplitWhole ==
  \A r \in Raws :
    skip[r] = "telegram_split" =>
      \A c \in FirstOf(Children(r), fan[r]) : hash[c] = judged[r]

\* Every raw ends on the map, is found to be a lecture, or is retired for a verdict on the
\* content it has: neither an outage of the model, nor a crash, nor the raws before it, nor
\* newer failures beyond the LIMIT of the retries keep it waiting for ever, and no edit is
\* left unread - but one that comes while a batch has the raw in hand (RetiredIsCurrent).
Settles ==
  \A r \in Raws :
    hash[r] # 0 ~> \/ link[r] # 0 \/ r \in dropped
                   \/ skip[r] \in Retired /\ (judged[r] = hash[r] \/ r \in edited)

\* A candidate that always raises "must not become a permanent head-of-line
\* block for every candidate ordered after it".
NotBlocked ==
  \A r \in Raws \ Poison : hash[r] # 0 ~> link[r] # 0 \/ skip[r] \in Retired

\* The newest content of a source reaches its event, "so updated dates/prices
\* propagate instead of freezing at first-ingest".
Refreshes ==
  \A r \in Raws : Origin[r] \in Structured => (link[r] # 0 ~> UpToDate(r))

\* The same of a price that has become free or unknown.
PricesPropagate ==
  \A r \in Raws :
    Origin[r] \in Structured =>
      (link[r] # 0 ~> \/ r \in reverted \cup frozen
                      \/ /\ link[r] # 0
                         /\ price[link[r]][1] = r => price[link[r]][2] = hash[r])

\* The same for the sources of the other cities, "kudago-spb" and its like.
CityRefreshes ==
  \A r \in Raws : Origin[r] = "kudago_city" => (link[r] # 0 ~> UpToDate(r))

\* "A genuine content change reopens it": no raw stays retired by a verdict on
\* a content that it no longer has.
RetiredIsCurrent ==
  \A r \in Raws :
    skip[r] \in {"rejected", "telegram_split"} => judged[r] = hash[r]

\* A dropped lecture "never becomes an event or re-loops".
DroppedStaysOut == [][\A r \in dropped : cand'[r] = NoCand]_vars

-----------------------------------------------------------------------------
(* The inductive invariant behind the safety properties.                   *)

\* The raw that normalize-raw has a candidate for and has not stamped yet.
Stamping(r) == norm.pc = "stamp" /\ IsFirst(r, norm.todo)
Splitting(r) == norm.pc = "split" /\ IsFirst(r, norm.todo)

\* Where the flows meet a raw tells the stage of its candidate.
StageInv ==
  /\ \A r \in Raws : link[r] # 0 => cand[r].stage = "placed"
  /\ \A r \in norm.todo : Stamping(r) \/ cand[r].stage = "none"
  /\ \A r \in enr : cand[r].stage = "new"
  /\ \A r \in ded.todo : cand[r].stage = "placed" /\ link[r] = 0
  /\ rep.raw # 0 => link[rep.raw] # 0

\* The event that a raw is about to be linked to is the one its twins have.
LinkInv ==
  ded.pc = "link" =>
    /\ ded.event # 0
    /\ \A r \in Raws : IsFirst(r, ded.todo) => \A s \in Twins(r) : link[s] = ded.event

\* The children upserted so far have the content of the post being split.
SplitInv ==
  /\ \A r \in norm.todo : skip[r] # "telegram_split"
  /\ \A r \in Raws :
       Splitting(r) =>
         /\ Origin[r] = "post"
         /\ norm.kids \subseteq Children(r)
         /\ \A c \in FirstOf(Children(r), fan[r]) \ norm.kids : hash[c] = norm.seen[r]

\* Structured raws whose content only ever moved on.
Monotone == {r \in Raws \ reverted : Origin[r] \in Structured}

\* What was read, saved, stamped or shown of r is no newer than r, and nothing is
\* stamped newer than it is shown.
Ordered(r) ==
  /\ stamp[r] <= hash[r] /\ cand[r].ver <= hash[r]
  /\ shown[r].dates <= hash[r] /\ shown[r].offer <= hash[r]
  /\ link[r] = 0 /\ cand[r].stage # "none" => stamp[r] <= cand[r].ver
  /\ link[r] # 0 /\ r \notin frozen =>
       stamp[r] <= shown[r].dates /\ stamp[r] <= shown[r].offer
  /\ r \in norm.todo =>
       /\ norm.seen[r] <= hash[r]
       /\ Stamping(r) \/ stamp[r] <= norm.seen[r]
  /\ Stamping(r) =>
       /\ cand[r].stage # "none" => norm.seen[r] <= cand[r].ver
       /\ link[r] # 0 => /\ norm.seen[r] <= shown[r].dates
                         /\ norm.seen[r] <= shown[r].offer
       /\ rep.raw = r => norm.seen[r] <= rep.seen
  /\ r \in ded.todo => cand[r].ver <= ded.seen[r] /\ ded.seen[r] <= hash[r]
  /\ rep.raw = r => rep.seen <= hash[r]

VersionInv == \A r \in Monotone : Ordered(r)

\* The price of an event is the last real one that one of its sources brought.
PriceInv ==
  \A r \in Raws :
    link[r] # 0 /\ <<r, shown[r].offer>> \in Quotes =>
      LET q == price[link[r]] IN
        q \in Quotes /\ link[q[1]] = link[r] /\ (q[1] = r => q[2] = shown[r].offer)

IInv ==
  TypeOK /\ StageInv /\ NoTwins /\ LinkInv /\ SplitInv /\ SplitWhole /\ VersionInv /\ PriceInv
=============================================================================
