------------------------------- MODULE Upkeep -------------------------------
(***************************************************************************)
(* The Prefect runner and the fetchers it runs: schedules, concurrency     *)
(* slots and their sweep (apps/worker/prefect_serve.py, flows.py), the     *)
(* ticks and full scans of the sources with their cursors and run rows     *)
(* (apps/worker/tasks/fetch.py, connectors), and the watch that tells      *)
(* the owner of a source that fell silent.                                 *)
(*                                                                         *)
(* A flow run is a process of the runner.  Whatever kills it - a deploy,   *)
(* the OOM killer - leaves its flow_run row and its slot behind.  Each     *)
(* commit of a fetch is a step, so that a death or the budget of a city    *)
(* can come between any two.                                               *)
(***************************************************************************)
EXTENDS Naturals, FiniteSets

CONSTANTS Flows,     \* deployments
          Sweeper,   \* sweep-orphan-concurrency, one of them
          Src,       \* Src[f]: the source that f fetches
          Mode,      \* Mode[f]: "tick" or "full"
          Kind,      \* Kind[s]: the connector of a source
          Gone,      \* sources that answered no more before
          Limit,     \* flow runs in flight over all deployments
          Parts,     \* pages or rubrics of a web source, numbered from 0
          Deep,      \* the first offset that the site never answers
          MaxPages,  \* full_scan_max_pages
          MaxPosts,  \* bound on posts of a channel
          PageSize, BackfillPages, \* what one page of a channel shows, pages of a first fetch
          MaxDeaths, \* bound on killed runs, budgets run out and restarts
          MaxFaults  \* bound on errors of a site, deaths of a source and toggles

Fetchers == Flows \ {Sweeper}
Sources == {Src[f] : f \in Fetchers}
Kinds == {"telegram", "kudago", "yandex", "afisha", "timepad"}
Modes == {"tick", "full"}
FirstOf(k) == IF k = "kudago" THEN 1 ELSE 0
NoRun == "none"

ASSUME UpkeepAssumption ==
  /\ Sweeper \in Flows /\ IsFiniteSet(Flows)
  /\ DOMAIN Src = Fetchers /\ Mode \in [Fetchers -> Modes]
  /\ Kind \in [Sources -> Kinds] /\ Gone \subseteq Sources
  \* One flow reads the channels, and scans none of them in full.
  /\ \A f, g \in Fetchers : Kind[Src[f]] = "telegram" => Mode[f] = "tick" /\ (Src[f] = Src[g] => f = g)
  /\ Limit \in Nat \ {0} /\ MaxPosts \in Nat
  /\ Parts \in Nat \ {0} /\ Deep \in 1..Parts /\ MaxPages \in Nat \ {0}
  /\ PageSize \in Nat \ {0} /\ BackfillPages \in Nat \ {0}
  /\ MaxDeaths \in Nat /\ MaxFaults \in Nat

VARIABLES
  up,       \* the runner is alive
  run,      \* the started flow_run row: none, pending, running, or running for over 4 hours
  slot,     \* active_slots of the deployment's concurrency limit
  proc,     \* the process of the run
  cursor,   \* config_json.cursor
  stored,   \* posts in raw_events
  top,      \* newest post of a channel
  aged,     \* the newest post older than the lookback of a first fetch (TRUE), of a later one (FALSE)
  passed,   \* history: posts that turned too old, or were pushed off the page, before a fetch got to them
  active,   \* ref.sources.is_active
  retired,  \* channels with ref.telegram_channels.is_active off
  dead,     \* sources whose site answers no more
  recent,   \* sources with a success in the last 30 hours
  deaths, faults

runner == <<up, run, slot>>
fetched == <<cursor, stored>>
world == <<top, aged, active, retired, dead, recent>>
vars == <<runner, proc, fetched, world, passed, deaths, faults>>

Off == [at |-> "off"]
At(s) == [at |-> s]

Init ==
  /\ up = TRUE
  /\ run = [f \in Flows |-> NoRun]
  /\ slot = [f \in Flows |-> FALSE] /\ proc = [f \in Flows |-> Off]
  /\ cursor = [s \in Sources |-> FirstOf(Kind[s])] /\ stored = [s \in Sources |-> {}]
  /\ top = [s \in Sources |-> 0] /\ aged = [s \in Sources |-> [first \in BOOLEAN |-> 0]]
  /\ passed = [s \in Sources |-> {}]
  /\ active = [s \in Sources |-> TRUE] /\ retired = {} /\ dead = Gone /\ recent = Sources
  /\ deaths = 0 /\ faults = 0

Death == deaths < MaxDeaths /\ deaths' = deaths + 1
Fault == faults < MaxFaults /\ faults' = faults + 1
Channels == {s \in Sources : Kind[s] = "telegram"}

-----------------------------------------------------------------------------
(* The runner.                                                             *)

Live(f) == proc[f] # Off
InFlight == Cardinality({f \in Flows : Live(f)})

\* The schedule lives in the server, so that every flow is due sooner or later.  A held
\* slot makes the runner abort the submission.
Submit(f) ==
  /\ up /\ ~slot[f] /\ InFlight < Limit
  /\ run' = [run EXCEPT ![f] = "pending"]
  /\ slot' = [slot EXCEPT ![f] = TRUE]
  /\ proc' = [proc EXCEPT ![f] = At("boot")]
  /\ UNCHANGED <<up, fetched, world, passed, deaths, faults>>

\* The run reaches a terminal state, which frees its slot.
Complete(f) ==
  /\ proc' = [proc EXCEPT ![f] = Off]
  /\ run' = [run EXCEPT ![f] = NoRun]
  /\ slot' = [slot EXCEPT ![f] = FALSE]
  /\ UNCHANGED up

KillRun(f) ==
  /\ Live(f) /\ Death
  /\ proc' = [proc EXCEPT ![f] = Off]
  /\ UNCHANGED <<runner, fetched, world, passed, faults>>

KillRunner ==
  /\ up /\ Death
  /\ up' = FALSE
  /\ proc' = [f \in Flows |-> Off]
  /\ UNCHANGED <<run, slot, fetched, world, passed, faults>>

\* main(): the clean-up is skipped when the store cannot be reached.
Restart ==
  /\ ~up /\ up' = TRUE
  /\ \E clean \in BOOLEAN :
       /\ run' = IF clean THEN [f \in Flows |-> NoRun] ELSE run
       /\ slot' = IF clean THEN [f \in Flows |-> FALSE] ELSE slot
  /\ UNCHANGED <<proc, fetched, world, passed, deaths, faults>>

\* Every flow has a timeout of at most 90 minutes and one retry: a row that is RUNNING
\* for 4 hours has lost its process.
Age(f) ==
  /\ run[f] = "running" /\ ~Live(f)
  /\ run' = [run EXCEPT ![f] = "old"]
  /\ UNCHANGED <<up, slot, proc, fetched, world, passed, deaths, faults>>

StartSweep ==
  /\ proc[Sweeper].at = "boot"
  /\ run' = [run EXCEPT ![Sweeper] = "running"]
  /\ proc' = [proc EXCEPT ![Sweeper] = At("sweep")]
  /\ UNCHANGED <<up, slot, fetched, world, passed, deaths, faults>>

\* Delete the zombies, then release the slots that no pending or fresh run holds, in one
\* transaction; and end.
Held(f) == run[f] \in {"pending", "running"}
Sweep ==
  /\ proc[Sweeper].at = "sweep"
  /\ run' = [f \in Flows |-> IF run[f] = "old" \/ f = Sweeper THEN NoRun ELSE run[f]]
  /\ slot' = [f \in Flows |-> slot[f] /\ Held(f) /\ f # Sweeper]
  /\ proc' = [proc EXCEPT ![Sweeper] = Off]
  /\ UNCHANGED <<up, fetched, world, passed, deaths, faults>>

-----------------------------------------------------------------------------
(* Fetching.                                                               *)

\* The run turns RUNNING, and its process reads the cursor; a source that the panel has
\* switched off is passed over, and so is a retired channel.
Start(f) ==
  /\ f # Sweeper /\ proc[f].at = "boot"
  /\ IF ~active[Src[f]] \/ Src[f] \in retired THEN Complete(f)
     ELSE /\ run' = [run EXCEPT ![f] = "running"]
          /\ proc' = [proc EXCEPT ![f] = [at |-> IF Mode[f] = "full" THEN "scan" ELSE "read",
                                          from |-> IF Mode[f] = "full" THEN 0 ELSE cursor[Src[f]]]]
          /\ UNCHANGED <<up, slot>>
  /\ UNCHANGED <<fetched, world, passed, deaths, faults>>

\* What one page, or the pages of a first fetch, show beyond the cursor.
Window(from) == IF from = 0 THEN PageSize * BackfillPages ELSE PageSize
Seen(s, from) == {p \in (from + 1)..top[s] : p + Window(from) > top[s]}

\* Fault: a first fetch has the lookback of the later ones.
CutoffShort(s, from) == aged[s][FALSE]

\* The newest post that is older than the lookback: 14 days on a first fetch, 7 later.
Cutoff(s, from) == aged[s][from = 0]

\* The site's answer to a tick: records and the next cursor, or an error.  The newest post
\* of a channel moves its cursor, one that is cut for its age too.  A stable
\* offset of Yandex means its end; afisha goes to its next rubric even when it was
\* throttled; the newest-first tick of KudaGo stays on its first page.
Next1(s, from) ==
  CASE Kind[s] = "telegram" -> IF top[s] > from THEN top[s] ELSE from
    [] Kind[s] = "yandex" -> IF from + 1 < Parts THEN from + 1 ELSE 0
    [] Kind[s] = "afisha" -> (from + 1) % Parts
    [] OTHER -> FirstOf(Kind[s])
Answers(s, from) == s \notin dead /\ (Kind[s] = "yandex" => from < Deep)

\* For some connectors an error of the site is an empty answer.
Silent(s) == Kind[s] \in {"afisha", "timepad"}

\* Fault: Yandex starts over at any error, one at its first page too.
WrapsAnywhere(s, from) == Kind[s] = "yandex"

\* Past some offset Yandex times out for ever: an error there starts over from the first.
Wraps(s, from) == Kind[s] = "yandex" /\ from # 0

\* A post older than the lookback is no record.  Those of the other sources come again with
\* every round: only posts are told apart.
Records(s, from) == IF Kind[s] = "telegram" THEN {p \in Seen(s, from) : p > Cutoff(s, from)} ELSE {}

\* The posts of s beyond its cursor that came too early or too far back for the next fetch:
\* two weeks and the pages of a first fetch, a week and a page of any other.
OutOfReach(s) ==
  {p \in (cursor[s] + 1)..top[s] :
     /\ Kind[s] = "telegram"
     /\ \/ cursor[s] = 0 /\ (p <= aged[s][TRUE] \/ p + PageSize * BackfillPages <= top[s])
        \/ cursor[s] # 0 /\ (p <= aged[s][FALSE] \/ p + PageSize <= top[s])}
Forget(s) == passed' = [passed EXCEPT ![s] = @ \cup OutOfReach(s)']

Read(f) ==
  /\ proc[f].at = "read"
  /\ LET s == Src[f]  from == proc[f].from IN
     /\ \/ /\ Answers(s, from)
           /\ proc' = [proc EXCEPT ![f] = [at |-> "write", got |-> Records(s, from), to |-> Next1(s, from)]]
           /\ UNCHANGED faults
        \/ /\ IF Answers(s, from) THEN Fault ELSE UNCHANGED faults
           /\ proc' = [proc EXCEPT ![f] =
                IF Silent(s) THEN [at |-> "write", got |-> {}, to |-> Next1(s, from)]
                ELSE IF Wraps(s, from) THEN [at |-> "write", got |-> {}, to |-> 0]
                ELSE At("fail")]
  /\ UNCHANGED <<runner, fetched, world, passed, deaths>>

\* bulk_upsert_raw_events commits before the cursor does.
Write(f) ==
  /\ proc[f].at = "write"
  /\ stored' = [stored EXCEPT ![Src[f]] = @ \cup proc[f].got]
  /\ proc' = [proc EXCEPT ![f] = [at |-> "move", to |-> proc[f].to]]
  /\ UNCHANGED <<runner, cursor, world, passed, deaths, faults>>

\* Fault: the tick ends with the reset of the full scan.
AdvanceReset(f) ==
  /\ proc[f].at = "move"
  /\ cursor' = [cursor EXCEPT ![Src[f]] = IF Src[f] \in Channels THEN proc[f].to ELSE FirstOf(Kind[Src[f]])]
  /\ recent' = recent \cup {Src[f]}
  /\ Complete(f)
  /\ UNCHANGED <<stored, top, aged, active, retired, dead, deaths, faults>>
  /\ Forget(Src[f])

\* The run ends.  finish_source_run is one more commit: a death before it shows in the run
\* log alone.
Advance(f) ==
  /\ proc[f].at = "move"
  /\ cursor' = [cursor EXCEPT ![Src[f]] = proc[f].to]
  /\ recent' = recent \cup {Src[f]}
  /\ Complete(f)
  /\ UNCHANGED <<stored, top, aged, active, retired, dead, deaths, faults>>
  /\ Forget(Src[f])

\* A full scan.  Yandex walks its pages and an error ends it; KudaGo skips a page that
\* fails; a rubric of afisha that fails, or whose write meets another rubric's on the one
\* session, ends by itself, and the scan is none the wiser.
FullPages == IF Parts < MaxPages THEN Parts ELSE MaxPages
ScanPart(f) ==
  /\ proc[f].at = "scan" /\ proc[f].from < FullPages
  /\ LET s == Src[f]  next == [proc EXCEPT ![f].from = @ + 1] IN
     \/ Answers(s, proc[f].from) /\ proc' = next /\ UNCHANGED faults
     \/ /\ IF Answers(s, proc[f].from) THEN Fault ELSE UNCHANGED faults
        /\ proc' = IF Kind[s] = "yandex" THEN [proc EXCEPT ![f] = At("fail")] ELSE next
  /\ UNCHANGED <<runner, fetched, world, passed, deaths>>

ScanEnd(f) ==
  /\ proc[f].at = "scan" /\ proc[f].from = FullPages
  /\ proc' = [proc EXCEPT ![f] = [at |-> "move", to |-> FirstOf(Kind[Src[f]])]]
  /\ UNCHANGED <<runner, fetched, world, passed, deaths, faults>>

\* The error of one city or channel is recorded and goes no further.  Telethon may say that
\* the username is gone, and then the channel is retired; without a session there is only
\* a preview that does not open, which retires nothing.
Fail(f) ==
  /\ proc[f].at = "fail"
  /\ \/ UNCHANGED retired
     \/ Src[f] \in Channels \cap dead /\ retired' = retired \cup {Src[f]}
  /\ Complete(f)
  /\ UNCHANGED <<fetched, top, aged, active, dead, recent, passed, deaths, faults>>

\* The budget of a city, or the timeout of a flow, runs out: the fetch is cancelled where it stands.
Budget(f) ==
  /\ f # Sweeper /\ proc[f].at \in {"read", "scan", "write", "move", "fail"} /\ Death
  /\ Complete(f)
  /\ UNCHANGED <<fetched, world, passed, faults>>

-----------------------------------------------------------------------------
(* The sites, the panel and the watch.                                     *)

Post(s) ==
  /\ s \in Channels /\ top[s] < MaxPosts /\ s \notin dead
  /\ top' = [top EXCEPT ![s] = @ + 1]
  /\ UNCHANGED <<runner, proc, fetched, aged, active, retired, dead, recent, deaths, faults>>
  /\ Forget(s)

\* A post turns a week old, or two.
Days(s) ==
  /\ \E first \in BOOLEAN :
       /\ aged[s][first] < IF first THEN aged[s][FALSE] ELSE top[s]
       /\ aged' = [aged EXCEPT ![s][first] = @ + 1]
  /\ UNCHANGED <<runner, proc, fetched, top, active, retired, dead, recent, deaths, faults>>
  /\ Forget(s)

Dies(s) ==
  /\ s \notin dead /\ Fault
  /\ dead' = dead \cup {s}
  /\ UNCHANGED <<runner, proc, fetched, top, aged, active, retired, recent, passed, deaths>>

\* The panel has a switch for the source and one for the channel.
Toggle(s) ==
  /\ Fault
  /\ \/ active' = [active EXCEPT ![s] = ~@] /\ UNCHANGED retired
     \/ /\ s \in Channels /\ UNCHANGED active
        /\ retired' = IF s \in retired THEN retired \ {s} ELSE retired \cup {s}
  /\ UNCHANGED <<runner, proc, fetched, top, aged, dead, recent, passed, deaths>>

\* 30 hours go by.
Hours ==
  /\ recent # {}
  /\ recent' = {}
  /\ UNCHANGED <<runner, proc, fetched, top, aged, active, retired, dead, passed, deaths, faults>>

Steps(f) ==
  \/ Start(f) \/ Read(f) \/ Write(f) \/ Advance(f) \/ ScanPart(f) \/ ScanEnd(f) \/ Fail(f)

Next ==
  \/ \E f \in Flows : Submit(f) \/ KillRun(f) \/ Age(f)
  \/ \E f \in Flows : Steps(f) \/ Budget(f)
  \/ KillRunner \/ Restart \/ StartSweep \/ Sweep \/ Hours
  \/ \E s \in Sources : Post(s) \/ Days(s) \/ Dies(s) \/ Toggle(s)

Spec == Init /\ [][Next]_vars

\* The server keeps its schedule, a started run goes on until something kills it, the
\* container restarts the runner, and time goes by.
Fairness ==
  /\ WF_vars(Restart) /\ WF_vars(StartSweep) /\ WF_vars(Sweep) /\ WF_vars(Hours)
  /\ \A f \in Flows : SF_vars(Submit(f)) /\ WF_vars(Age(f)) /\ WF_vars(Steps(f))

FairSpec == Spec /\ Fairness

-----------------------------------------------------------------------------
(* Properties.                                                             *)

\* Whatever kills a fetch and wherever, no post is passed over: a post that the cursor
\* has gone by is stored, unless before a fetch got to it it turned older than the lookback
\* or newer ones pushed it off the page.
NothingSkipped == \A s \in Channels : 1..cursor[s] \subseteq stored[s] \cup passed[s]

Wedged(f) == run[f] = "pending" /\ ~Live(f)
WedgedAll == \E f \in Flows : Wedged(f) \/ (f = Sweeper /\ slot[f] /\ ~Live(f))
\* Every flow comes to run again, whatever was killed before - except when a run was
\* killed before it turned RUNNING, or the sweep itself was killed, and the runner was not
\* restarted cleanly since.
RunnerRecovers == \A f \in Flows : []<>(Live(f) \/ WedgedAll)

\* The cursor of a cyclic source never sticks: whatever was killed every flow comes to run
\* again, and as long as the source answers and is switched on, each part that can be
\* reached at all comes round again and again.
Cyclic == {s \in Sources : Kind[s] \in {"yandex", "afisha"}}
CatalogueCycled ==
  /\ RunnerRecovers
  /\ \A s \in Cyclic, p \in 0..(Deep - 1) :
       []<>(cursor[s] = p \/ s \in dead \/ ~active[s] \/ WedgedAll)

\* source_freshness_watch groups the active sources by connector, retired channels with them.
Stale(k) == \A s \in Sources : Kind[s] = k /\ active[s] => s \notin recent
AllDead(k) == \A s \in Sources : Kind[s] = k /\ active[s] => s \in dead

\* The connectors whose dead sources have no success in the run log: afisha and Timepad
\* take an error for an empty answer, and KudaGo's full scan ends well whatever failed.
Heard == {k \in Kinds : \A f \in Fetchers : Kind[Src[f]] = k =>
                           ~Silent(Src[f]) /\ ~(k = "kudago" /\ Mode[f] = "full")}

\* When the last source of such a connector has died, though each died and was switched off
\* and on at its own time, the watch finds the connector stale sooner or later, and so it stays.
DeathIsNoticed == \A k \in Heard : <>[](AllDead(k) => Stale(k))

\* "Alert the owner if a CONNECTOR (yandex/afisha/kudago/timepad/telegram) has stopped
\* collecting" (flows.py:251, translated): whichever it is.
SilentDeathIsNoticed == \A k \in Kinds : <>[](AllDead(k) => Stale(k))

\* "if the prefect store isn't reachable yet, skip (the periodic sweep-orphan-concurrency
\* catches up)" (prefect_serve.py:127): every deployment runs again all the same.
SweepCatchesUp == \A f \in Flows : []<>Live(f)

-----------------------------------------------------------------------------
(* The inductive invariant behind NothingSkipped.                          *)

\* What a process keeps: the offset it fetches from, or the batch and the next offset.
ProcStates ==
  [at : {"off", "boot", "sweep", "fail"}] \cup [at : {"read", "scan"}, from : Nat]
    \cup [at : {"write"}, got : SUBSET Nat, to : Nat] \cup [at : {"move"}, to : Nat]

\* Every variable has its type, and the sweep fetches nothing.
TypeOK ==
  /\ up \in BOOLEAN
  /\ run \in [Flows -> {NoRun, "pending", "running", "old"}] /\ slot \in [Flows -> BOOLEAN]
  /\ proc \in [Flows -> ProcStates] /\ proc[Sweeper].at \in {"off", "boot", "sweep"}
  /\ cursor \in [Sources -> Nat] /\ top \in [Sources -> Nat]
  /\ stored \in [Sources -> SUBSET Nat] /\ passed \in [Sources -> SUBSET Nat]
  /\ aged \in [Sources -> [BOOLEAN -> Nat]]

\* A process has a row and a slot of its own, and there are no more of them than the runner allows.
OwnRow ==
  /\ \A f \in Flows :
       Live(f) => up /\ slot[f] /\ run[f] = IF proc[f].at = "boot" THEN "pending" ELSE "running"
  /\ InFlight <= Limit

\* What a fetch of channel s would move the cursor past is stored, in its batch, or was
\* out of reach; the cursor stands still meanwhile.
Seized(s) == stored[s] \cup passed[s]
Covered ==
  \A f \in Fetchers : Src[f] \in Channels =>
    /\ proc[f].at # "scan"
    /\ proc[f].at = "read" => proc[f].from = cursor[Src[f]]
    /\ proc[f].at = "write" => 1..proc[f].to \subseteq Seized(Src[f]) \cup proc[f].got
    /\ proc[f].at = "move" => 1..proc[f].to \subseteq Seized(Src[f])

\* What the next fetch cannot reach is remembered.
Remembered == \A s \in Sources : OutOfReach(s) \subseteq passed[s]

IInv == TypeOK /\ OwnRow /\ NothingSkipped /\ Covered /\ Remembered
=============================================================================
