# TLA+ verification of tg-bot-afisha

`tg-bot-afisha` collects events (concerts, plays, exhibitions) from websites and
Telegram channels, cleans and merges them, shows them on a map in a Telegram
Mini App, and writes to its users: reminders, digests and broadcasts. It is one
PostgreSQL database with several writers (an API, a bot, about forty scheduled
flows under one Prefect runner) and many readers: a cached API, a search index
and a single-page client that keeps a copy of its own. Hardly any of its
correctness is in one function. It is in what those writers do to each other's
rows between two commits, in what a crash, a lost answer or a slow language model
leaves behind, and in what a reader still believes after the rows have changed.
The modules here model that.

Contents: [inventory](#1-inventory), [modules](#2-modules),
[runs](#3-runs), [proofs](#4-proofs), [what the code does not keep](#5-what-the-code-does-not-keep),
[limits](#6-what-is-not-modelled), [plan](#7-plan), [how to run](#8-how-to-run).

## 1. Inventory

| Component | State it keeps | Operations | Hard behaviour | Module |
|---|---|---|---|---|
| Custom broadcasts (`api/routes/admin_broadcasts.py`, `worker/tasks/broadcasts.py`) | `ref.broadcast_campaigns`, `ref.broadcast_recipients` (the ledger) | create, edit, test, send now, schedule, cancel; dispatcher pass: reap, resolve audience, claim, send, record, close | passes that overlap after a restart, answers lost after Telegram took the message, edits and cancellations between a read and a write | `Broadcasts` |
| Ingestion pipeline (`worker/tasks/{fetch,normalize,enrich,dedup}.py`, `db/repositories/ingestion.py`) | `events.raw_events`, `event_candidates`, `events`, `event_occurrences`, `event_sources` | upsert, normalize, split a schedule post, enrich, match or create, refresh, reopen what the model failed on | a batch read, a wait for the model, writes to what was read; crashes between commits; two sources of one event | `Ingestion` |
| Reminders, digest, nudges (`worker/tasks/{reminders,digest,welcome}.py`, `api/routes/users.py`) | `ref.event_reminders`, three stamps of `ref.users` | save, arm, disarm, mute, merge; sweep: reap, read, send, stamp | a sweep after a lost answer, a re-arm or a mute during a send, windows that close | `Outreach` |
| Friends and blocks (`repositories/friends.py`, routes in `users.py`) | `ref.user_friends`, `ref.user_mutes`, link versions | link, invite, request, accept, decline, remove, block; the readers of a friend's favourites | a check and an insert in two statements under READ COMMITTED | `Friends` |
| Submissions (`suggest.py`, `admin_moderation.py`, the watch in `flows.py`) | `ref.pending_submissions`, a raw event or a channel each | suggest, approve, reject, watch | two administrators at once; approval and its effects in several transactions | `Submissions` |
| Self-heal of the catalogue (`pipeline/maintenance`, `tasks/dedup.py`) | the event, occurrence and venue rows | merge venues, merge events, judge, split, rebuild, prune, expire, hide | pairs read, rows moved and rows deleted in separate statements while ingestion writes | `Heal` |
| Runner and fetchers (`prefect_serve.py`, `tasks/fetch.py`, `connectors/`) | flow runs, concurrency slots, cursors, source runs | submit, sweep, restart; tick and full scan with their commits; freshness watch | runs killed at any point; slots nobody frees; silent sources | `Upkeep` |
| Language model budget (`services/llm_limiter.py`, `pipeline/llm/`) | a sorted set of leases in Redis, a semaphore and a breaker per process | ask, acquire, give up, fall back, answer, die | leases that expire, or stay behind the dead; limits that change | `Slots` |
| Read API and recommendations (`services/{events_service,recommend}.py`) | Redis answers, a shared base of the feed, view counts | map, list, sheet, venue, nearby, by ids, search, feed | several queries that must agree; caches and pages over rows that change | `Catalogue`, `Feed`, `ReadApi` |
| Search index (`tasks/search_index.py`, `core/search/meili.py`) | a live and a throwaway index, the tasks of Meilisearch | rebuild, swap | failures the rebuild does not see | `ReadApi` |
| Walks of the sites (`connectors/web`, the scans of `tasks/fetch.py`) | the page a walk is at, the ids it has come across | ask for a page or a batch of them, dedupe, build records, commit, stop | the list moves while it is walked; pages are lost; windows, caps and midnight | `Schedules`, `Crawl` |
| Matching and venues (`core/matching`, `tasks/enrich.py`, `maintenance/venues.py`, `pipeline/geocoding`) | `events.venues`, `event_candidates.venue_id`, `event_occurrences.venue_id` | resolve, geocode, find or create, backfill, match, merge | text rules that are not transitive, applied in no fixed order; what was read before a geocoder answered | `Matching`, `Places` |
| Mini App (`miniapp/src`) | hearts, follows and city per phone; panes; tabs and layers | tap, load, merge; fetch, abort, retry; open, close, Back | answers out of order, timers that outlive their reason, two phones | `MiniApp`, `Panes`, `Shell` |
| Rules of the normalizer, web accounts, Telegram bot, admin panel, adstat, media, admin web, migrations | see section 6 | | | none |

How they interact: the fetchers and the API put rows into `raw_events`; the
pipeline's flows hand a row on to each other through its columns (no queue, the
`WHERE` clause of a batch query is the queue); an approved submission is one more
raw (`Submissions` models its way through the pipeline as the pipeline's answer);
the self-heal works on what the pipeline wrote (`Heal` has the pipeline's writes as
actions of its own); every flow that needs the language model passes the limiter;
every message to a user goes through `tg_send.classify`, which turns an answer of
Telegram into a verdict; Prefect decides which flow runs when, and its restart is
the one event that can make two runs of one flow overlap; the readers see what is
committed, through caches. `PROJECT.json` lists each component with its sources,
and the hazards, each at the line where it bites.

What makes each component correct:

* Broadcasts: nobody gets a campaign twice, or a version that was not confirmed,
  or before their time, or against their will; nobody is left out; a confirmed
  campaign ends.
* Ingestion: one event in the world is one event on the map; no raw is stuck or
  lost; what changed at the source changes on the map; a verdict on an old
  content does not outlive it, unless the edit came while a batch had the row in hand.
* Outreach: one message per occasion, in time, to the willing; what was cancelled
  does not come back; no bell stays armed for ever.
* Friends: friendship by the consent of both, symmetric; nothing passes across a
  block; a used link dies.
* Submissions: one verdict per approval; an approved row is settled.
* Self-heal: no session is lost by tidying; tidying comes to rest; what the panel
  hid stays hidden.
* Runner and fetchers: no post that a fetch could reach is passed over, the catalogue is
  cycled, a killed run blocks nothing for ever, a dead connector is noticed.
* Walks: a walk that reaches the end misses no more than what moved under it; no date
  of an event is made up, none that was over is told but by KudaGo, and the next
  session is among them but where a cap or a list of two dates leaves it out.
* Venues: two halls of one building stay two venues, in whatever order rows are compared.
* Limiter: never more calls at once than the limit allows.
* Readers: queries agree with each other, pages neither repeat nor skip, an answer
  is no older than its time to live, the index is whole or as it was.
* Mini App: the last tap stands, where the server handles it last; a pane at rest shows what is wanted; Back unwinds.

## 2. Modules

| Module | What it is |
|---|---|
| `OnceDelivery` | what a broadcast promises, in two actions: release one content, deliver it at most once |
| `Broadcasts` | campaigns, ledger, the administrator's requests and the dispatcher's passes; `INSTANCE`s `OnceDelivery` with a refinement mapping |
| `Ingestion` | the raw, candidate and event rows under the five pipeline flows and the fetchers |
| `Outreach` | the four sweeps and the user's requests that feed them |
| `Friends` | the graph, its routes, and every reader that shows a friend's favourites |
| `Submissions` | the form, the administrators, the status watch |
| `Heal` | the maintenance transactions, statement by statement, with the writers they race |
| `Upkeep` | the runner, its slots, and the fetchers it runs |
| `Catalogue` | the queries of the read API as operators over a catalogue |
| `Feed` | the recommendation feed as operators; extends `Catalogue` |
| `ReadApi` | the readers with state: cached answers, paging list, shared base, view counts, index; extends `Feed` |
| `Slots` | the language model's budget |
| `Service` | composes `ReadApi` and `Slots` (one Redis, two key spaces) |
| `Schedules` | the dates that connectors and normalizer make of what a site tells, as operators |
| `Crawl` | the walks of the four sites over lists that change; extends `Schedules` |
| `Matching` | the rules for titles and names, as operators |
| `Places` | candidates and their venues, backfill, merging; extends `Matching` |
| `Panes` | the fetching effects of the Mini App as one machine with traits |
| `Shell` | the frame: tabs, layers, deep links, Back |
| `MiniApp` | the phones against the account; composes `Panes` and `Shell` |
| `MC*` | the instances for TLC |
| `*Proofs` | the theorems of the module they are named after; those of `Places`, `Schedules` and `Crawl` are in `IngestionProofs`, those of `MiniApp` (with `Panes` and `Shell`) and `Submissions` in `AppProofs` |

In the modules of the server a step is what the code does between two commits or
two awaits. The sessions are READ COMMITTED (no isolation level is set in
`core/db/session.py`), so one SQL statement is atomic and sees whatever others
committed before it, and two statements are two steps unless one transaction
writes both and nothing else could be seen in between. `expire_on_commit=False`
(`session.py:40-63`) means that an ORM object keeps the values it was read with:
that is why the models carry `seen` and `letter` fields. In the modules of the
client a step is one event of the browser: a tap, a timer, an answer; React's
effects belong to the step that causes them. Operators whose comment starts with
`Fault:` are no part of a specification. They are the plausible mistakes against
which the properties are measured.
### Broadcasts

Variables: `status`, `content`, `kind`, `tested`, `confirmed` are the columns of a
campaign; `ledger` is the recipient table (`none`, `pending`, `ok`, `permanent`)
and `aged` says which claims are older than the reaper's fifteen minutes; `due`,
`ripe` and `closed` are the clock; `testing` and `gating` are requests between
their first read and their write; `run[d]` is a dispatcher pass with everything
it holds in local variables. `inbox`, `proofed`, `signed`, `everIn`, `owed` are
history: no guard reads them.

| Code | Actions |
|---|---|
| `create_campaign`, `update_campaign`, `cancel_campaign` | `CreateCampaign`, `UpdateCampaign`, `CancelCampaign` |
| `test_campaign` (send, then stamp) | `TestCampaign`, `TestAccepted`, `TestRefused` |
| `_gate`, then `send_now` or `schedule_campaign` | `Gate`, `Confirm`, `ConfirmRefused` |
| `users.update_settings` and the bot's unsubscribe | `OptOut`, `OptIn` |
| `_dispatch_due_impl` (reaper, due list) | `StartPass` (with `Reap`), `EndPass` |
| `send_campaign_impl` | `LoadCampaign`/`SkipCampaign`, `MarkSending`, `ResolveAudience`, `Claim`/`AlreadyClaimed`, `RecordResult`, `FinishCampaign` |
| `_send_one` | `SendAccepted`, `SendRejected`, `SendFlooded`, `SendFailed` |
| the flow's timeout, a redeploy, a database error | `LosePass`, `AbandonCampaign` |

Abstractions. Title, body, image, button and audience are one *content*; the
audience of a content is a fixed set that only `notify_broadcasts` filters, for
the other audience conditions are not what changes while a campaign runs. Time is
the four events the code tells apart. A user's time zone does not change, so a
local hour that came stays past. Telegram's 429 and 5xx answers mean "not
delivered"; an exception (timeout, reset connection) leaves both outcomes open.
Counters, audit rows, the echo of the audience size and the photo fallback are
left out.

Overlap. `prefect_serve.py:6-9,186` gives each flow `concurrency_limit=1`, but a
restart deletes RUNNING runs and zeroes their slots (`prefect_serve.py:120-150`), so
a process that survived may meet its successor. `Dispatchers` is the set of
passes that may overlap. The safety properties are checked and proved for any
number of them, `SentIsFinal` excepted, which holds for one pass at a time only
(`OnePass`): the run that checks it has one, and it is proved for one. When two
passes overlap, the reaper of one may settle a claim whose answer the other still
waits for, and the answer is then recorded over it (the `UPDATE` of
`broadcasts.py:178-186` has no guard): `LedgerAdvances` says how far that goes. A row
given up may be reopened, but only by the pass that holds its claim, of which there is
one; 'ok' is said of messages that are out, and for good; no claim disappears.
That no user gets a campaign twice (`AtMostOnce`) and that it comes as it was
confirmed (`OneContent`) follow from the refinement `KeepsPromise` and are proved
by name.

### Ingestion

Variables: `hash`, `skip`, `stamp`, `attempts` are `content_hash`, `skip_reason`,
`processed_hash`, `llm_attempts` of a raw; `cand` its candidate (stage and the
version it was made from); `link` its row in `event_sources`; `shown` the versions of
dates and price that its last upsert brought; `price[e]` the quote that the session of
event `e` holds; `made` counts `events` rows; `norm`, `enr`, `ded`, `rep` are the
flows in flight, with what each has read. `judged`, `fan`, `dropped`, `reverted`,
`frozen`, `edited` are history (`reverted` also bounds how often a content may come back).

| Code | Actions |
|---|---|
| the fetchers through `upsert_raw_event`, `bulk_upsert_raw_events` | `Fetch` (with `Upsert`) |
| `_normalize_batch` | `NormalizeBatch`, `SkipPost`, `SkipCandidate`, `SaveCandidate`, `StampRaw`, `SplitPost`, `UpsertChild`, `RetirePost` |
| `_resolve_candidate`, `_enrich_batch` | `EnrichBatch`, `EnrichCandidate`, `SkipEnrich` |
| `_dedup_impl`, `dedup_and_upsert_event`, `_upsert_occurrences` | `DedupBatch`, `DropLecture`, `MatchEvent`, `CreateEvent`, `LinkEvent` (with `UpsertOccurrences`), `RaiseDedup` |
| `_reprocess_changed_impl`, `reprocess_raw` | `ReadStale`, `RefreshRaw` (with `UpsertOccurrences`), `RefreshWithout`, `StampFailed` |
| `retry_transient_skips` | `RetryTransient`, which reopens the newest `RetryLimit` |
| a kill or a timeout of a flow | `LoseFlow` |

Abstractions. A content hash is a version number. What the model answers is a
free choice. `Show[r]`, the event in the world that `r` tells of, is fixed, and two
raws with one `Show` are recognised as the same event by the matcher: its text
rules are those of `Matching`. An event is found by the matcher once it has an
occurrence, that is once some raw is linked to it (an event row that was
committed before a crash has none and stays invisible). The batch is read in one
step, though the code reads its raws one by one: every property is about what one
raw was read as. Candidates are taken in the order of their raws. `Quotes` are the contents that tell a real price: an upsert writes the price only then, and
otherwise leaves the one that is there, whichever source of the event it is from. The
session that the sources of an event share is one row whose time does not move (a session
at a new time starts with whatever price its source tells). Venue rows
and geocoding are a matter of `Places`; categories are left out, but for the lecture gate. One raw has one
candidate, as the rule normalizer always returns exactly one. Each flow runs once
at a time; the merges of self-heal do not run.

### Outreach

`now` is a clock of some hours a tick; `saved`, `reminder` (a fire time, `NoRow` or
`Sent`), `wantsReminders`, `wantsDigest`, `located`, `merged`, `openedAt` and `stamp`
are the columns; `sweep[k]` is each sweep with the list it has read. `got`,
`armings` and `unsaved` are history.

| Code | Actions |
|---|---|
| `set_favorite`, `add_favorites`, `toggle_reminder` | `Heart`, `Unheart`, `RingBell`, `SilenceBell` |
| `update_settings`, `digest_handler`, `save_location`, `sync_favorites` | `MuteReminders`, `UnmuteReminders`, `ToggleDigest`, `PickCity`, `OpenApp` |
| `due_reminders`, `opted_in_users`, `_due`, `_due_d4`, `reap_stale_reminders` | `StartSweep` |
| the sends and `mark_sent` or the stamp of a ledger | `StartSend`/`SkipItem`, `SendAccepted`, `SendRejected`, `SendFlooded`, `SendLost`, `Stamp` |
| a kill or a timeout of a sweep, a withdrawn event | `LoseSweep`, `Withdraw` |

The four sweeps share the accounts and nothing else, so `Lanes` names the sets of
them that are explored together. What a digest contains is left out.

### Friends

`edge`, `mutes`, `ver`, `links`, `inviters`, `private` and `fav` are the tables;
`job[w]` is a request between the statement that checks and the one that writes.

| Code | Actions |
|---|---|
| `make_friend_link`, share of an event | `MakeLink`, `ShareInvite` |
| `accept_friend_link`, an opened invite, `request_friend` | `OpenLink`, `OpenInvite`, `SendRequest`, then `Check`, then `Befriend`, `AcceptReciprocal` or `InsertPending` |
| `accept_request`, `decline_request`, unblock | `AcceptRequest`, `DeclineRequest`, `Unblock` |
| `remove_friend`, `set_mute` | `StartEnding`, then `Part` (the rows its `DELETE` saw) |
| an error in between | `Abort` |

`Faces`, `Activity`, `Profile`, `DigestSection` and `SaveAudience` are the five
queries that let a favourite or a save message reach somebody else. The daily caps
and deduplication of messages in Redis are left out.

### Submissions

`status` and `age` are the row; `raw` the way of an approved event through the
pipeline; `active` and `read` the channel; `request[a]` an administrator's request
between its transactions; `watch` the rows that the watch has read. `suggest_event` and
`suggest_channel` are `Suggest` and `Create`; approve and reject are `BeginDecision`,
`TakeUp` and `Approve` or `Reject`; the watch is `WatchBegin` and `WatchRow`;
`Pipeline`, `Fetch` and `SwitchOff` are what others do to the raw and the channel;
`Crash` cuts off a request or the watch. Uploads and quotas are left out.

### Heal

`occs` is `event_occurrences` with its unique key, `link` is `event_sources`, `seat`
the venue of a candidate, `rooms` the venue rows; `writer` is the candidate that
dedup or reprocess is writing, and `jobs` the transactions of the self-heal and of
the judge with the pairs they read and the rows they saw.

| Code | Actions |
|---|---|
| `dedup_and_upsert_event`, `reprocess_raw`, `_upsert_occurrences` | `DedupFind`, `ReprocessRead`, `Write` |
| `merge_fuzzy_venues` | `ReadVenues`, `CommitVenues` |
| `merge_duplicate_events` and `_commit_event_merges` | `ReadEvents`, `Move` (occurrences and sources), `CommitEvents` (delete what was a duplicate) |
| `_dedup_llm_impl`, `_revalidate_canon_pairs` | `ReadJudged`, then the same |
| `resplit`, `resolve`, `prune`, `expire_past_events`, the panel's toggle | `Resplit`, `Resolve`, `Prune`, `Expire`, `Toggle` |

Titles match by three given relations (sure, close, akin): the text rules are the
matcher's. Time does not pass: every session is to come.

### Upkeep

`up`, `run`, `slot` are Prefect's server side, `proc` the process; `cursor`,
`stored`, `top`, `aged` the channels (`aged[s]` are the newest posts older than the
lookback of a first fetch and of a later one), `passed` the history of posts that
fell out of reach of the next fetch; `active` the switch of a source, `retired` the
channels that are off, `dead`, `recent` what the freshness watch looks at. `Submit`, `KillRun`, `KillRunner`, `Restart`, `Age`, `StartSweep` and
`Sweep` are the runner with its two clean-ups; `Start`, `Read`, `Write`, `Advance` are a
tick with its commits; `ScanPart` and `ScanEnd` a full scan; `Fail` and `Budget`
its ends; `Post`, `Days`, `Dies`, `Toggle` and `Hours` the world. Channels are read
through their web preview: the Telethon fallback has larger windows and the same
lookbacks, and leaves the cursor before a post it cuts. In the run posts come only where
the web flows rest, since the two touch nothing in common but the runner. Prefect is modelled from
what `prefect_serve.py` and the sweep ask of it.

### Schedules and Crawl

An event is its sessions, on a clock of a few units a day of which the first is
midnight, and whether it runs from the first of them to the last. Each operator of
`Schedules` is one step of a connector: `BuildDates`, `NeedsSchedule`,
`RowsFromSessions` and `AugmentSchedules` of Yandex Afisha, `ListingDates` and
`GraphqlSchedule` of afisha.ru, `BuildRecord` of Timepad, `KudagoRows` and
`TrimmedDates` of KudaGo, and the normalizer's `ParseDates`. `Crawl` walks: `list` is
what the site lists now, `walk[l]` the page a lane is at with the answers in hand
(afisha.ru has a lane for each rubric, and they share one session), `seen` the ids
it has come across, `kept` what is stored. `FetchPage`, `FetchFails` and `NoCategories`
are the answers, `TakePage` and `WritePage` with `WriteFails` the walk page by page,
`TakeBatch` and `BatchFails` KudaGo's, `GatherBatch` and `StoreSweep` Timepad's; the
list gains and loses listings at any moment. `stood`, `gone`, `come` and `lost` are
history. How a fetch is scheduled, and where the next walk begins, is in `Upkeep`.

### Matching and Places

A title is a sequence of words, a name or an address a set of them; `Latin` is the
transliteration and `Stem` the ending rules. `SameSlotTitle` and `SameEvent` are
`title_match.py`, `Contrasts`, `NameWithin` and `NameMatchScore` are `venue_match.py`, with
the two fuzzy ratios as parameters. In `Places`, `venues` are the rows, `seat[c]` the
venue of a candidate, `plan[c]` what phase 1 of the enrichment found for it, `fill` the
row that the backfill has read, `shows` the occurrences.

| Code | Actions |
|---|---|
| `_resolve_candidate`, the three geocoders | `Resolve` (any number of candidates side by side), `TurnToWrite` |
| `get_or_create_venue` under the writer | `LookUp`, `Insert` (other writers may come between) |
| a kill or a timeout | `EnrichDies` |
| `backfill_venues_osm` | `BackfillRead`, `BackfillWrite` |
| `dedup_and_upsert_event` | `Dedup` |
| `merge_fuzzy_venues` with `_guarded_union` | `MergeVenues`: `Clusterings` are the outcomes of the unions in any order |

Everything is in one city and on a line, in metres. A merge is one step here; `Heal`
has its statements apart, with the pairs as given.

### Slots and Service

Scores and deadlines are kept as the time left of them, so that the state is
finite; `Elapse` lets a unit pass when no call must act at once. `Arrive`, `Acquire`,
`Blip` (the answer of Redis is lost, the lease may be there), `GiveUp`, `EnterLocal`
and `Answered` are `llm_slot` around one call; `Record` is `_cb_record`; `Die` ends
a process with its leases left behind; `Turns` is the change between day and night.
`Service` puts the module beside `ReadApi`: the two touch no variable of each other.

### Catalogue, Feed and ReadApi

A catalogue is a value: rows, active events, occurrences at places on a line. Each
query of `events_service.py` and each stage of `recommend.py` is an operator over
it, in the code's own order of joins, `DISTINCT ON`, sort, limit. `ReadApi` adds what
lives longer than a request. A behaviour follows one *scene*, because the readers
share only the catalogue: `cache` (`Ask`, `Store`, `Expire`), `list` (`Answer`,
`Choose`, `Loaded`, `LoadMore`, `MoreLoaded`), `feed` (`FeedAsk`, `FeedLock`,
`FeedStore`, `BaseExpire`), `views` (`Seen`, `SAdd`, `SExpire`, `HIncr`, `ViewLost`:
one action per command to Redis), `index` (`Reindex`, `PostClear`, `Post`, `Work`,
`IndexerDies`), `calls` (the scene of `Slots`). `Withdraw`, `Vanish` and `Reschedule` are
the writers' part. Meilisearch is modelled from how `meili.py` uses it: a queue of tasks
worked off in order. Texts, the highest price and the wire format are left out. `Nearby` is the set of
the answers that there may be: nothing orders what lies at one distance.

### Panes, Shell and MiniApp

Thirteen effects of the client fetch what a key names. They differ in whether
they wait, abort, clear, spin, flag, blank, retry and so on. `Panes` is one
machine (`Wants`, `Fired`, `Landed`, `Advanced`, `Failed`, `Repeated`) and a record
of traits for each effect, read off its component. `Shell` is a record: the tab,
the layers that are open, the selected event, the lit marker, the address, with
one operator per handler of `App.tsx`; `CloseTop` and `Back` are the ladder of
`closeTop`. `MiniApp` holds the account, the phones and the wire between them. `Tap`,
`Pick`, `OpenPage`, `ClosePage`, `AcceptInvite` and `Locate` are the user's; `Toggle`, `Merge`,
`Listed`, `SetCity`, `LookForCity` and `SaveLocation` the server's routes; `AdoptToggle`,
`AdoptLoad` and `Lose` what becomes of an answer. Each tap is a fetch of its own, so requests are
handled in any order, those of one phone too. A scene is the marks, the
city, the frame, or one pane.

## 3. Runs

Symmetry is used for `friends` only: campaigns, users, raws and events are numbers
elsewhere, because the code orders by them. The bounds have names in the modules:
`MaxRequests`, `MaxCrashes`, `MaxFaults`, `MaxVersion`, `MaxAttempts`, `RetryLimit`, `MaxTime`, `MaxTaps`,
`MaxDecisions`, `MaxSpent`, `MaxDeaths`, `MaxPosts`, `MaxNow`, `MaxChanges`, `MaxBlips`,
`MaxTurns`, `MaxOpens`, `MaxLosses`, `MaxMoves`, `MaxPages`, `MaxDone`.

| Run | Instance | What it shows |
|---|---|---|
| `broadcasts_overlap` | 1 campaign, 2 users, 2 contents, 2 passes, batches of 1, 1 crash | `NobodyForgotten`, `OptOutRespected`, `LedgerAdvances`, and the refinement `KeepsPromise` of `OnceDelivery`, with every interleaving of two passes |
| `broadcasts_live` | 2 campaigns, a due list of 1, 1 pass, 1 crash | liveness `ConfirmedSettles`; `SentIsFinal` |
| `broadcasts_cancel` | 1 campaign, 2 users | *violation* `CancelledIsFinal` |
| `ingestion` | a KudaGo raw, unpriced at first, and a priced Timepad raw of one event; or a post and 2 children; or 2 posts and a retry of 1 at a time; 2 versions, 1 attempt, 1 fault | `NoTwins`, `StampMeansShown`, `SplitWhole`, liveness `Refreshes`, `Settles` |
| `outreach` | 1 user, an event with a start and a run, 5 ticks, 2 requests, 1 fault; three lanes | `OnceEach`, `NotResurrected`, `WantedInTime`, liveness `BellSettles` |
| `friends` | 3 users, cap 2, 2 requests in flight, 5 in all | `NothingAcrossBlock`, `FriendsByConsent`, `LinkDies` |
| `submissions` | a dead channel, a live one and an event, a watch that reads 1 row, 2 administrators, 2 decisions, 1 crash | `VerdictPerApproval`, liveness `ApprovedSettles` |
| `heal` | 2 raws of one show, 3 venue rows at 2 places, 4 event rows, a tour, midnights with an end and without one, 2 edits or failures | `WritesKept`, `HiddenStays`, liveness `ComesToRest` |
| `upkeep` | tick and full scan of one site, the tick of a dead one of the same connector, a channel of 2 posts of any age, the sweep; a limit of 1 run; 1 death, 1 fault | `NothingSkipped`, liveness `CatalogueCycled`, `DeathIsNoticed` |
| `readapi` | 4 events at 4 places (one the placeholder), 2 cities, 2 days, up to 2 changes; 2 requests, 2 viewers; 3 calls to the model in 2 processes | `QueriesAgree`, `PagesWhole`, `FeedHonest`, `ViewsHonest`, `IndexWhole`, `Capped`, liveness `Converges` |
| `miniapp` | 2 phones, an event and a venue, 2 cities; each of 13 panes with 3 turns; the frame with 3 moves from every start | `TapsStand`, `ScreenHonest`, `BackUnwinds`, `LastActStands` |
| `intake` | 4 sites, 7 listings of which 5 are there at first, pages of 2, 2 changes, 1 fault, begun at midnight or later; then 4 candidates of 3 places, 4 venue rows, 2 of merges, backfills and deaths | `LittleMissed`, `DatesHonest`, `HallsApart` |

The run `intake` holds two machines that share no state, as a catalogue of listings and
a set of candidates do: a behaviour moves one of them. The type invariants
`CrawlTypeOK` and `PlacesTypeOK` hold in that run too and may be added to its cfg; those of
the modules with theorems are proved. Contents that come back to an older one (`Wavering`)
are left to the theorems, which hold for any; the run has none.

Why the bounds are enough. Two passes, one campaign and one row show every race on
a ledger row, and rows of different users share nothing but the campaign; the second
user is there because batches of 1 make the list be cut, the second campaign where
campaigns compete. Two versions of a raw are enough for each "read, then changed";
the second raw is needed where raws share an event or a post (two children are the
smallest split). A graph of friends is a matter of pairs; the third user is the one
who opens a used link, or over whom the cap is reached. Two administrators and the watch
are the three writers of a submission; a watch that reads one row is filled by the one dead
channel before it (`LIMIT 500`), and the event behind is never looked at. Merging needs two rows of one place and one
elsewhere, and two listings; a fourth event row is there to be split off. One site with
a tick and a scan, and a limit of one run, makes each wait for every other. The
queries are compared over a catalogue that has each kind of row: two showings, a run,
a placeholder with a second date, another city. A pane has to be turned away, back,
and away again to let an answer of the first turn look like one of the third. Three pages are the fewest with a
page that neither begins nor ends the list; two changes are a listing gone and one
come. Two halls and one row that names neither are the smallest building in which
similarity is not transitive; the fourth candidate shares a title with the third and stands
apart. One fault
at any moment is what a single commit has to survive; batches of 100 to 300 and
limits of 500 become 1 or 2, so that the boundary is reached.

Fairness. `WF` of each dispatcher pass, each pipeline flow, each step of a sweep, the
watch and the self-heal: Prefect starts them every 60 to 1800 s
(`prefect_serve.py:57-58, 67-76, 180-197`), for ever, and a run that is not killed goes
on. `WF` of the clock (`Tick`, `Day`, `Hours`, entries that expire). `SF` in three
places: a flow is submitted although its slot or the runner's limit is taken again and again
(`Submit`), a candidate is taken up although the rows it matches keep being busy
(`DedupFind`; Postgres queues for row locks), and a request for the feed gets the lock
of its worker (`asyncio.Lock` is a queue). Nothing is assumed of administrators, users,
sources or sites, nor of the outcome of a call: the model and Telegram may fail
whenever the bound of the run allows. Crashes are bounded in number, as a pass that is
killed each time ends nothing. The client's module states no fairness; its
properties are about states at rest.

Deadlock is checked for Broadcasts and Outreach. Elsewhere the system does stop when
nobody does anything any more, or when a bound is reached, and the runs say so with
`CHECK_DEADLOCK FALSE`.

## 4. Proofs

`BroadcastsProofs` proves for every set of campaigns, users and contents, any
number of overlapping passes, any batch sizes, requests and crashes, from the one
assumption `BroadcastsAssumption` (identifiers are positive numbers, an audience
is a set of users, "now" is one of the kinds):

| Theorem | Statement |
|---|---|
| `Invariance` | `Spec => []IInv` |
| `TypeCorrect`, `NoDuplicate`, `ConfirmedContent`, `OnTime`, `ConsentRespected`, `AllTried` | `TypeOK`, `AtMostOnce`, `OneContent`, `NotEarly`, `OptOutRespected`, `NobodyForgotten` |
| `Implements` | `Spec => KeepsPromise`: every step is a `Release`, a `Deliver` or a stutter of `OnceDelivery` |
| `RowsAdvance` | `LedgerAdvances`, whatever passes overlap |
| `SentStays` | `SentIsFinal`, when `OnePass`: no two passes overlap |

None of the properties is inductive alone. `AtMostOnce` needs to know that a pass in
the middle of a send holds the claim of that user (`ClaimInv`), that no two passes
hold one claim, that a user with no ledger row got nothing (`MailInv`), and that the
retry after a 429 happens only when nothing was delivered. `OneContent` needs that
what a pass loaded is what was confirmed (`PassInv`) although drafts may be edited,
and that a confirmed row is frozen (`RowInv`). `NobodyForgotten` needs that
everyone owed is claimed or in the list of each pass that may still close the
campaign. `RowsAdvance` rests on `HandsInv` beside it: a claim is in the hands of one
pass at most, from its insert to the recorded answer; until then its row is pending or given up,
for only that answer can make it anything else; and an accepted answer means that the message
is out. `SentStays` rests on `OwnInv`: while a single pass holds a campaign nobody else
finishes it. `IInv` is the conjunction of these named parts; there is one lemma per
part (`TypeStep`, `RowStep`, `MailStep`, `PassStep`, `ServedStep`, `ListStep`,
`ClaimStep`), each with a step per action.

`IngestionProofs` proves for every finite set of raws of any origin, with any
number of versions, attempts and failures and any batch size, from
`IngestionAssumption` (raws are positive numbers and finitely many, a raw has a
parent exactly when it is a child of a split):

| Theorem | Statement |
|---|---|
| `Invariance` | `Spec => []IInv` |
| `TypeCorrect`, `OneEvent`, `SplitComplete`, `StampSound` | `TypeOK`, `NoTwins`, `SplitWhole`, `StampMeansShown` |

Each property again needs to know what the flows in flight hold. `NoTwins` needs
`LinkInv`: between the commit of an events row and the commit of its link the flow
still holds the only event that the raw's twins have. That rests on `StageInv`,
which says where the flows can meet: a raw in a dedup batch is placed and not yet
linked, so normalization and reprocessing do not touch it meanwhile. `SplitWhole`
needs `SplitInv`: the children upserted so far have the content of the post that
the flow read. `StampMeansShown` needs `VersionInv`, an order on versions: what a
flow has read, stamped or shown is no newer than the row's content, and no stamp is
newer than what is shown; and `PriceInv`: the price of an event is a real one that one of
its sources brought, and of each source the last it brought, so that a content without a
price never takes one away. It speaks of the raws of the sources that the selector
takes, and not of those whose content went back to an older one (`reverted`) or
whose occurrences failed (`frozen`). The lemmas are `TypeStep`, `StageStep`,
`LinkStep`, `SplitStep`, `VersionStep`, `PriceStep`, each with a step per action.

The same module proves of `Places`, for any candidates, names, places and answers of the
geocoders (from `PlacesAssumption` and `MatchingAssumption`, which give constants their types):

| Theorem | Statement |
|---|---|
| `PlacesInvariance` | `PlacesSpec => []PlacesInv` |
| `HallsStayApart` | `PlacesSpec => HallsApart` |

A step that gives a candidate a venue does so under the name that was planned, minutes before,
and `PlacesInv` says that this is still the candidate's own name and that it has no venue
yet. `FoundFits` goes through the three ways a row is found; `ClustersFit` needs that the row which
stays is one of its cluster (`CanonicalWithin`), hence that rows with one heir were in one
cluster, in which no two contrast. The proof showed that a name that tells of both halls
contrasts with itself: the guard compares rows with others only, and so does `Refused` now.

Of `Schedules` and `Crawl` it proves, for any sites whose lists change in any order, any pages, widths
and horizons (from `SchedulesAssumption` and `CrawlAssumption`):

| Theorem | Statement |
|---|---|
| `WalkInvariance` | `CrawlSpec => []WalkInv` |
| `LittleIsMissed` | `CrawlSpec => []LittleMissed` |
| `DatesAreHonest` | `CrawlSpec => [](DatesHonest /\ \A e \in Tales : Honest(e))` |

`LittleMissed` counts. Of what was listed all along, what lies on pages that were read already and is
neither seen nor stored nor in hand is bounded (`FewOverlooked`): a withdrawal (`TakenOut`) lets at most one
listing slip over each border between a page to come and a page that was read, a publication (`PutIn`)
pushes some back, and a lost page costs no more than it holds. What a walk that stores one by one has
seen and not stored was on a page that was lost with it (`FewUnwritten`). `WalkInv` is the conjunction
with the types and with what a page in hand is, and TLC checked it on the `intake` instance first.
`DatesAreHonest` is arithmetic of days about each rule of `Schedules`, for every tale that a
site may tell and not only those of the instance. It says exactly when a connector leaves out
the next session: a listing of afisha.ru when it is neither the first nor the last one (its
schedule is asked for that reason), KudaGo when `Cap` sessions are over; Yandex Afisha,
afisha.ru's schedules and Timepad never do. Until then KudaGo tells of dates that are over, the
others of none; the least and greatest days it needs come from
well-founded induction's minimum.

The other six modules with theorems rest on the assumptions that are named in the
modules they extend, which say what kind of values the constants are (and, for
`Slots`, that a call ends before its lease; for `Catalogue`, that the rows obey the unique
index of migration 0005):

| Module | Theorems | Argument |
|---|---|---|
| `OutreachProofs` | `OutreachInvariance`; `NobodyTwice` (`OnceEach`), `NoneComesBack` (`NotResurrected`), `WantedOnly` (`WantedInTime`) | `Budget`: what came *and what may still come* of a reminder, a week or a nudge is within what was armed (or one) plus the faults. What may come is owed by a row that is armed, or by a sweep that has read it, but not by a sweep that has sent it and is about to stamp (`MayRemind`, `MayDigest`, `MayNudge`). `Unstamped`: what a sweep has read has no stamp yet, and no week has its digests before it comes; this is what lets the week turn during a sweep. `NotResurrected` needs that nothing counts as taken out before the account's merge (`AfterMerge`). `WantedOnly` needs `TInv`: whoever a sweep still has to write to was willing when it read (`Wanted`), a sweep straddles one tick at most, and a row it read in its grace that was armed anew since fires later still (`InGrace`) |
| `FriendsProofs` | `FriendsInvariance`; `BothAgreed` (`FriendsByConsent`), `BlockHolds` (`NothingAcrossBlock`), `LinksDie` (`LinkDies`) | what a request has checked may be stale when it writes, so the races are what has to be bounded: a pair that is being joined while it is being parted is known as raced from the start of the later request (`RacesKnown`), a plan in flight crosses no block that is not raced (`PlansClear`), a `DELETE` saw every row there was unless raced (`RowsSeen`, `Apart`), a pending row was asked for (`Asked`), and the links of a spent version are older than the version (`LinksSpent`) |
| `AppProofs` (Submissions) | `Invariance`; `VerdictsAnswerApprovals` (`VerdictPerApproval`) | a row that is approved, or that the watch has read as such, has had fewer verdicts than approvals, whatever the second administrator does to its status in between |
| `UpkeepProofs` | `UpkeepInvariance`; `SlotsAreOwned` (`OwnRow`), `PostsAreKept` (`NothingSkipped`) | `Remembered`: what the next fetch of a channel cannot reach, by its age or by the number of newer posts, is among the passed, so that a fetch brings everything else (`ReachedOrNot`). `Covered`: what it would move the cursor past is stored, or in its batch, or was passed; what is stored or was passed only grows, and the cursor stands still meanwhile, for one flow reads the channels. `OwnRow` is proved beside it: a process has its row and its slot, and there are no more of them than the limit |
| `HealProofs` | `HealInvariant`; `NoSessionLost` (`WritesKept`), `HiddenIsHidden` (`HiddenStays`) | a merge reads pairs, moves rows and deletes in three steps, while dedup and reprocess write. The `DELETE` cascades to whatever arrived on the duplicate after the move, so the invariant follows each session that a linked raw lists: it stands on the event of its raw, and of what an open merge is about to delete it is among the rows that the merge takes along (`Kept`, with `Secure` for the session and `Followed` for the link). That rests on the row locks, by which two open merges have no event and no session in common (`Apart`), on what an open merge moved being still there (`JobsSound`), and on a writer's venue staying at the candidate's place however rows were merged since (`WriterThere`) |
| `ServiceProofs` | `ReadersSound`; `ViewsCountedOnce` (`ViewsHonest`), `SearchReadsWhole` (`IndexWhole`), and those of the table below; `SlotInvariance`, `SlotsCapped`, `ServiceCapped` (`Capped`) | views: there is a set of openings, each by another user or day, that stands for what was counted and what is about to be, whatever of Redis has expired (`ViewInv`). Index: by running the waiting tasks in one's head (`Foreseen`), every live index on the way is whole, and the last throwaway is filled when its run is about to swap (`IndexInv`). Limit: a bound on all calls in flight is not inductive, for the limit changes while calls wait; of *any* set of calls in flight, one (the one admitted last) was admitted under a limit that holds the set (`Admitted`), which needs that a lease outlives its call (`Outlives`) |

`AppProofs` proves the four properties of the Mini App, for any number of phones, events and taps, from
`MiniAppAssumption` and those of the modules it composes:

| Theorem | Property | Argument |
|---|---|---|
| `LastTapStands` | `TapsStand` | each mark is followed from its last tap to the row, through requests in any order: the tap waits (`Awaited`), or the account says what it said, or that is unclear; and no answer that its phone still heeds tells otherwise, unless one was read before the tap was handled (`Standing`, `Shows`). That needs that taps are told apart, and that each message belongs to a page that has only tapped since (`Fits`, `Paged`) |
| `ScreenIsHonest` | `ScreenHonest` | of a pane's effect there is at most one request, or its one timer, that is for what is wanted now, for all thirteen traits alike (`Tidy`) |
| `FrameIsSteady` | | what was done last is what sheet and marker show, but for a swipe's timer (`Meant`); what is laid over a tab belongs to it (`Placed`); the address names the tab and no two neighbours in the history are alike (`Pathed`): `Steady`, through each handler of `App.tsx` |
| `BackTakesAway` | `BackUnwinds` | on a steady frame, Back removes one layer or leads one tab home; a case for each rung of `closeTop` |
| `LastActHolds` | `LastActStands` | from `Steady`, by the handlers |

Of what the readers sort and count, `ServiceProofs` proves, for any catalogue, positions, scores,
page lengths and limits of the feed:

| Theorem | Property | Argument |
|---|---|---|
| `PagesAreWhole` | `PagesWhole` | while nothing disturbs it the list shows the first of its order, and the page on its way is what comes next (`ListInv`, `Follows`). A strict order of finitely many rows puts each in one place (`InARow`), so that what `ORDER BY` promises decides the sequence (`OrderWhole`) and two pages cut from it apart are cut from the same |
| `CountsAreRight`, `QueriesAlwaysAgree` | `QueriesAgree` | the categories part the pins (`CategoriesSum`), and so do the cells of the grid (`CellsWeigh`); a cell that joins a cluster counts there and nowhere else (`JoinAdds`), so merging neither loses nor doubles an event (`MergeKeeps`, `ClustersWhole`). Pins and the rows they are looked up in are the soonest of one set (`PinFound`); near itself an event is left out only for as many as were asked for at the very same point (`NearFound`). The second theorem drops the scene: it holds while other readers work, too |
| `FeedIsHonest`, `FeedHonestToAll` | `FeedHonest` | who scores holds the lock (`FeedInv`), and a base was scored from a well-formed catalogue (`ScoredInv`). Then: a pool has an event once (`PoolWhole`), a sort keeps what it sorts (`ArrangedWhole`), a varied pick takes from what it is given (`DiversePicks`), a rail that leaves out what is seen meets none before it (`RailShows`, `AddKeeps`), and tile and full list hold the same entries in two orders (`ShelfAgrees`). The second theorem is about every user there could be, not those of the instance |

Sums, merges and picks are folds. What a fold runs through is a function that exists
(`FoldExists`, from well-founded induction's minimum), what every step keeps holds at the end
(`FoldKeeps`), and a sum over disjoint parts counts their union (`SumOfParts`). For this `Catalogue` and
`Feed` say what a sorted sequence is (`Sorted`) where the code says `ORDER BY` or `sorted`,
and keep the pool as a set whose entries know their place in it, by which a stable sort breaks ties.

The bounds on requests, faults, crashes and ticks are constants like any other:
what is proved holds for all of them.

Only model-checked:

* Liveness (`ConfirmedSettles`, `Settles`, `Refreshes`, `BellSettles`, `ApprovedSettles`,
  `ComesToRest`, `CatalogueCycled`, `DeathIsNoticed`, `Converges`): TLAPS cannot prove it
  under fairness here.

Every invariant and every action property of the runs, and `KeepsPromise`, is a theorem
(`SentIsFinal` when no two passes overlap, as in its run).
`AtMostOnce`, `OneContent` and `NotEarly` of Broadcasts, and the type invariants of the
modules with theorems, are proved and not listed in a run.

## 5. What the code does not keep

While the code was translated, statements of its own comments and routes came up that
it does not keep. Each is stated in its module, and TLC refutes it. One is a run with
a finding (`CancelledIsFinal`: a cancellation answered with success is overwritten by
the dispatcher, `broadcasts.py:150`); the others stand in the modules:

| Statement | Where | What happens |
|---|---|---|
| `LocalNobodyForgotten` | `broadcasts.py:187-196` | an `at_local` campaign is closed over users whose hour came during the pass, or who were cut by the `LIMIT` |
| `OnlyTestedSent` | `admin_broadcasts.py:189` | a draft edited after its test is sent untested |
| `CityRefreshes` | `ingestion.py:472` | changed raws of every city but the first are never refreshed |
| `RetiredIsCurrent` | `normalize.py:206` | a post edited while the model reads it is retired by the verdict on its older content (no other edit is left unread: `Settles`) |
| `PricesPropagate` | `normalize.py:259`, `ingestion.py:440` | "updated dates/prices propagate", but a price that has become free or unknown leaves the old one (every real one does: `Refreshes`) |
| `DroppedStaysOut` | `dedup.py:100` | a dropped Timepad lecture is normalized again and again |
| `NotBlocked` | `dedup.py:117` | the rollback expires the rest of the batch, so one failing candidate ends each pass |
| `BlockEndsFriendship` | `friends.py:82`, `:516` | a block between the check and the insert of a befriending leaves the friendship (but nothing passes across it: `NothingAcrossBlock`) |
| `NothingHangs` | `flows.py:317`, `:351`, `:397` | an approved channel that Telegram does not know stays "approved", and 500 of them keep the watch from every row behind (`Starved`; that nothing else holds a row back is `ApprovedSettles`) |
| `SplitStays` | `flows.py:630-631` | the rebuild from the schedule puts the halves of a split event together again |
| `SweepCatchesUp` | `prefect_serve.py:127` | a run killed before it was RUNNING, or a killed sweep, holds its slot until a clean restart |
| `SilentDeathIsNoticed` | `flows.py:251` | afisha.ru and Timepad take an error for an empty answer, and KudaGo's full scan ends in "success" whatever failed, so a connector that collects nothing is not stale (that the others are is `DeathIsNoticed`) |
| `NeverMixed` | `ListView.tsx:114` | a page of the old order is appended to the list of the new one |
| `FollowsTheClock` | `llm_limiter.py:32` | the limit is read once per call, not "on every acquire": a caller that waits past the hour is admitted under the old one |
| `OpenIsQuiet` | `extraction_service.py:29` | the breaker is asked before the wait for a slot, so calls that waited start behind an open one |
| `ListMatchesPins` | `events_service.py:569` | the list takes no `price_min`, the map does: under one the list has more than the pins (and never less: `QueriesAgree`). The Mini App sends none |
| `ListMatchesCount` | `FavoritesPanel.tsx:10` | the list of saved events aborts nothing, so an older answer may come last |
| `SweepsEveryOffset` | `yandex_afisha_connector.py:169` | a page without a single date in the window ends the walk, though more pages follow |
| `EndsPastTheList` | `fetch.py:182` | a page past the end is an error, for which the connector reads the first page instead: no page ever comes back empty, and the walk goes on past the end |
| `CountedIsStored` | `afisha_ru_connector.py:204` | the rubrics share one session: two writes at once break it, and what was counted as come across is not stored |
| `KudagoRelevant` | `kudago_connector.py:124` | an event let in for a session to come keeps the first `Cap` dates only, all of which may be over; `Honest` says that it is then, and only then, that its next session is left out |
| `SpansAreRuns` | `yandex_afisha_connector.py:384` | single sessions that lie before and after the window are told as one run through it |
| `HallsDistinct` | `ingestion.py:332` | a row that names neither hall takes the candidates of both, at the write or over two passes of merging (but no step joins two rows that name opposite halls, or gives a candidate the opposite one: `HallsApart`) |
| `SequelsApart` | `title_match.py:170` | both callers add `same_event` with `strict_numbers=False`, so parts one and two of a title at one minute become one event |
| `LatestWins` | `favorites.ts:26`, `:48-63` | each tap is a fetch of its own and no number goes with it: where an add and a remove are handled in the other order, the account keeps the older one, and so does every phone after its next load; and the guard counts the phone's taps only, so a load asked for after a tap, or the answer to the next one, that is read before the tap is handled takes the mark off its phone (whatever else comes late does not: `TapsStand`) |
| `PinInView` | `App.tsx:947` | a collection stays over the map that "show on map" goes to |

Further things the translation met, for which no statement of the code exists. Pipeline:
`llm_attempts` is never reset by a new content; `normalize` does not isolate its raws;
the category is appended to a JSON list that the ORM does not see as changed. Matching: a year
in a title is compared only when both have one, and `_cluster_to_canon` joins clusters without
a guard, so "Summer 2025", "Summer" and "Summer 2026" end as one; `_subset_extra` takes the words of a
Python set in no fixed order and the first that fits, so what is left over depends on the order;
`translit_key` keeps the order of words, though `same_event` says it does not matter. Venues:
`get_or_create_venue` matches an exact name with an empty address whatever the city, so two
cities may share a row; the backfill writes an address without looking whether another row
has it, and `uq_venue_name_address` then ends the run at that row, every day; it also
relabels the provider of a pin, so that `venue_coords` never reviews it; that review takes 800
rows by id, which rows it cannot resolve may fill for ever. Accounts:
`merge_web_into_telegram` sets the email on one row while the other still has it, which
the unique index of migration 0063 refuses: linking rolls back, and the one-time code is
spent. Outreach:
the merge of favourites of a late device may bring back one that was removed
before it. Friends: a link meant for one use makes friends of two who open it at once;
`accept_request` ignores the cap. Self-heal: merging deletes the favourites and reminders of
the duplicate with its row (foreign key cascade); a placeholder dropped in a merge loses
a day without an hour when the source is edited. Fetchers: errors of Afisha's full scan
and ticks, a missing Timepad token and an unauthorized Telethon session all end in
"success" with no records, so the freshness watch never sees those die (`Silent`); it
groups sources by connector, so of a dead source beside a living one of its connector it sees
nothing, and it counts the row of a retired channel, which stays active, with the rest. A post is
lost for good when the channel could not be read for the week it was young, or when more than a
page of newer ones came between two fetches. Search: the
first rebuild makes an empty live index; the answer to `DELETE` is not looked at
(`meili.py:70`). Limiter: a semaphore keeps the size of the hour of its first use;
after the cooldown all waiting calls pass the breaker, not one probe. Client: a
swipe's timer of 190 ms is not cancelled by the next event (`EventSheet.tsx:242`, the
`hasty` exemption of `Stands`); hearts stay on a browser after signing out.

## 6. What is not modelled

Categories, ages and prices of the normalizer: text heuristics; their results are free
choices. Web accounts and sign-in, the Telegram bot, the admin panel's CRUD,
the admin web and the landing: rows of one writer, or requests that appear as actions of the
modules of what they change. Advertising research (`adstat`): offline scraping into
its own tables. Media and card rendering: image processing. Migrations and
deployment: schema history; the constraints they create are used where the models need
them. Telegram, Redis, Prefect, Meilisearch and the websites: they appear as what they
may answer.

Inside the modelled parts: what moves a pin that a venue has (`venue_coords.py`), opening
hours, the three ending rules behind `Stem` (whose relation in the code is not transitive), more
than one city in `Places`, quotas and message dedupe in Redis (Friends, Submissions),
image uploads, one-off repair scripts, the run log, the pruning of dead channels and
their binding to a venue, texts and prices of a filter, the drawing of the map,
settings of the client other than hearts, follows and the city. `PROJECT.json` says so per
component, and notes for each hazard that no property covers why.

Assumptions that the results rest on, besides the abstractions above: a call to the model
ends before its lease does (`Longest < Lease`); a Telethon session, where there is one, is
authorized (`DeathIsNoticed`); a user's time zone does not change during a campaign;
each pipeline flow runs once at a time; the text of a title does not change; a walk
ends on the day it began on.

## 7. Plan

Done: every component above that keeps state under more than one writer or reader. Next:

1. An abstract specification of the pipeline (raws come and go, events of the world
   appear once) that `Ingestion` implements, and of the read side (an answer is one
   the database gave at most a time to live ago) that `ReadApi` implements.
2. Web accounts: linking a browser account to a Telegram account, whose present order of
   statements cannot commit (section 5).
3. The messages friends get on a save, with their daily cap and deduplication in Redis.
4. `prune_stale_channels` on its stale list, beside `Upkeep`'s channels.

## 8. How to run

Inside this directory, for each run of `PROJECT.json`:

    tlc -workers 2 -config MCBroadcastsOverlap.cfg MCBroadcasts
    tlc -workers 2 -config MCReadApi.cfg MCReadApi
    tlapm BroadcastsProofs.tla

and `tlapm` likewise for `IngestionProofs`, `OutreachProofs`, `FriendsProofs`,
`AppProofs`, `UpkeepProofs`, `HealProofs` and `ServiceProofs`. A run takes from a few seconds to
about two minutes (the one with most states, `miniapp`, has 920 000); the proofs of a module take from
seconds to some seven minutes.
