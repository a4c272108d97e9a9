---------------------------- MODULE Submissions ----------------------------
(***************************************************************************)
(* Events and Telegram channels suggested by the users: the form           *)
(* (apps/api/routes/suggest.py) files a row of ref.pending_submissions, an *)
(* administrator approves or rejects it (apps/api/routes/                  *)
(* admin_moderation.py), an approved event goes through the pipeline and   *)
(* an approved channel is fetched, and submissions-status-watch            *)
(* (apps/worker/flows.py) closes the row and tells the submitter.          *)
(*                                                                         *)
(* Every decision reads the status in one statement, does its work in a    *)
(* second transaction and writes the status in a third: two administrators *)
(* and the watch interleave between them, and any of them may die there.   *)
(***************************************************************************)
EXTENDS Naturals, FiniteSets

CONSTANTS Subs,        \* numbers of the submissions, in the order of created_at
          Handle,      \* Handle[s]: the channel that s suggests, or NoHandle
          NoHandle,
          Dead,        \* handles that Telegram does not know
          Admins,
          WatchLimit,  \* LIMIT of the watch's query (500)
          Backstop,    \* the age at which an approved event is given up (48 h)
          MaxDecisions, \* bound on the requests of the administrators
          MaxCrashes   \* bound on requests and flows that die

Handles == {Handle[s] : s \in Subs} \ {NoHandle}

ASSUME SubmissionsAssumption ==
  /\ Subs \subseteq Nat \ {0} /\ IsFiniteSet(Subs)
  /\ DOMAIN Handle = Subs
  /\ Dead \subseteq Handles
  /\ {WatchLimit, Backstop} \subseteq Nat \ {0}
  /\ {MaxDecisions, MaxCrashes} \subseteq Nat

IsEvent(s) == Handle[s] = NoHandle

VARIABLES
  status,    \* of the row; "none" before the form, "checked" past its checks
  age,       \* days since reviewed_at, up to one more than Backstop
  raw,       \* the raw event sub:<id> on its way through the pipeline
  active,    \* ref.telegram_channels: "absent", "on" or "off"
  read,      \* handles with a source run that ended in success
  request,   \* what each administrator's request is doing
  watch,     \* rows the watch has read and not yet settled
  decisions, crashes,
  \* history: approvals written, verdicts of the watch
  approvals, verdicts

rows == <<status, age>>
world == <<raw, active, read>>
history == <<approvals, verdicts>>
vars == <<rows, world, request, watch, decisions, crashes, history>>

Open == {"needs_review"}
Statuses == {"none", "checked", "refused", "approved", "rejected", "ingested", "failed"} \cup Open
Raws == {"none", "queued", "skipped", "linked"}
Idle == [op |-> "idle", sub |-> 0]
Doing == {"approve", "written", "reject"}

Init ==
  /\ status = [s \in Subs |-> "none"]
  /\ age = [s \in Subs |-> 0]
  /\ raw = [s \in Subs |-> "none"]
  /\ active \in [Handles -> {"absent", "on", "off"}]
  /\ read \in SUBSET {h \in Handles : active[h] # "absent"}
  /\ request = [a \in Admins |-> Idle]
  /\ watch = {}
  /\ decisions = 0
  /\ crashes = 0
  /\ approvals = [s \in Subs |-> 0]
  /\ verdicts = [s \in Subs |-> 0]

-----------------------------------------------------------------------------
(* The form.                                                               *)

Filed == {s \in Subs : status[s] \notin {"none", "checked", "refused"}}
Checking == {s \in Subs : status[s] = "checked"}

Suggestible(s) == IF IsEvent(s) THEN TRUE ELSE active[Handle[s]] # "on"

\* The checks of suggest_event and suggest_channel: the daily cap, which may refuse
\* anything, and a channel that is read already.  What follows is a probe of the channel.
Suggest(s) ==
  /\ status[s] = "none"
  /\ \A t \in Subs : t < s => status[t] # "none"
  /\ \E answer \in IF Suggestible(s) THEN {"checked", "refused"} ELSE {"refused"} :
       status' = [status EXCEPT ![s] = answer]
  /\ UNCHANGED <<age, world, request, watch, decisions, crashes, history>>

\* uq_pending_channel_open
Unclaimed(s) == IsEvent(s) \/ \A t \in Subs : Handle[t] = Handle[s] => status[t] \notin Open

\* The probe calls a dead channel gone, or fails; the INSERT meets the unique index.
Create(s) ==
  /\ status[s] = "checked"
  /\ \/ status' = [status EXCEPT ![s] = IF Unclaimed(s) THEN "needs_review" ELSE "refused"]
     \/ Handle[s] \in Dead /\ status' = [status EXCEPT ![s] = "refused"]
  /\ UNCHANGED <<age, world, request, watch, decisions, crashes, history>>

-----------------------------------------------------------------------------
(* Moderation.                                                             *)

Approvable(s) == status[s] \in Open
Rejectable(s) == s \in Filed /\ status[s] \notin {"rejected", "ingested"}

\* The status is read, and the decision goes on with what was read.
BeginDecision(a, s) ==
  /\ request[a] = Idle /\ decisions < MaxDecisions
  /\ decisions' = decisions + 1
  /\ \/ Approvable(s) /\ request' = [request EXCEPT ![a] = [op |-> "approve", sub |-> s]]
     \/ Rejectable(s) /\ request' = [request EXCEPT ![a] = [op |-> "reject", sub |-> s]]
  /\ UNCHANGED <<rows, world, watch, crashes, history>>

\* ingest_event_submission and approve_channel_submission, committed on their own.
TakeUp(a) ==
  LET s == request[a].sub
  IN /\ request[a].op = "approve"
     /\ request' = [request EXCEPT ![a].op = "written"]
     /\ IF IsEvent(s)
          THEN /\ raw' = [raw EXCEPT ![s] = IF @ = "none" THEN "queued" ELSE @]
               /\ UNCHANGED active
          ELSE /\ active' = [active EXCEPT ![Handle[s]] = "on"]
               /\ UNCHANGED raw
     /\ UNCHANGED <<rows, read, watch, decisions, crashes, history>>

\* set_status asks for the key alone, whatever the status is by now.
SetStatus(a, to) ==
  LET s == request[a].sub
  IN /\ status' = [status EXCEPT ![s] = to]
     /\ age' = [age EXCEPT ![s] = 0]
     /\ request' = [request EXCEPT ![a] = Idle]

Approve(a) ==
  /\ request[a].op = "written"
  /\ SetStatus(a, "approved")
  /\ approvals' = [approvals EXCEPT ![request[a].sub] = @ + 1]
  /\ UNCHANGED <<world, watch, decisions, crashes, verdicts>>

Reject(a) ==
  /\ request[a].op = "reject"
  /\ SetStatus(a, "rejected")
  /\ UNCHANGED <<world, watch, decisions, crashes, history>>

-----------------------------------------------------------------------------
(* What becomes of what was approved.                                      *)

\* normalize-raw retires the raw event, or the pipeline brings it to the map;
\* an event that is deleted frees its raw event for dedup-upsert.
Pipeline(s) ==
  /\ \/ raw[s] = "queued" /\ raw' = [raw EXCEPT ![s] = "skipped"]
     \/ raw[s] = "queued" /\ raw' = [raw EXCEPT ![s] = "linked"]
     \/ raw[s] = "linked" /\ raw' = [raw EXCEPT ![s] = "queued"]
  /\ UNCHANGED <<rows, active, read, request, watch, decisions, crashes, history>>

\* fetch-telegram reads a channel that is on, or retires one that Telegram denies.
Fetch(h) ==
  /\ active[h] = "on"
  /\ IF h \in Dead
       THEN active' = [active EXCEPT ![h] = "off"] /\ UNCHANGED read
       ELSE read' = read \cup {h} /\ UNCHANGED active
  /\ UNCHANGED <<rows, raw, request, watch, decisions, crashes, history>>

\* The sweeps of telegram_health and the panel's toggle switch a channel off.
SwitchOff(h) ==
  /\ active[h] = "on"
  /\ active' = [active EXCEPT ![h] = "off"]
  /\ UNCHANGED <<rows, raw, read, request, watch, decisions, crashes, history>>

-----------------------------------------------------------------------------
(* submissions-status-watch.                                               *)

\* Fault: the watch looks at what it has given up, too.
AwaitingAgain == {s \in Subs : status[s] \in {"approved", "failed"}}

Awaiting == {s \in Subs : status[s] = "approved"}
FirstOf(S, n) == {x \in S : Cardinality({y \in S : y < x}) < n}

\* One query for the first rows; reviewed_at is compared with the start of the pass.
WatchBegin ==
  /\ watch = {} /\ Awaiting # {}
  /\ watch' = {[sub |-> s, late |-> age[s] > Backstop] : s \in FirstOf(Awaiting, WatchLimit)}
  /\ UNCHANGED <<rows, world, request, decisions, crashes, history>>

\* Fault: an event that the pipeline never looks at is waited for for ever.
VerdictPatient(row) ==
  LET s == row.sub
  IN CASE IsEvent(s) /\ raw[s] = "linked" -> "ingested"
       [] IsEvent(s) /\ raw[s] = "skipped" -> "failed"
       [] ~IsEvent(s) /\ Handle[s] \in read -> "ingested"
       [] OTHER -> "none"

\* What the pass makes of a row it has read.
Verdict(row) ==
  LET s == row.sub
  IN CASE IsEvent(s) /\ raw[s] = "linked" -> "ingested"
       [] IsEvent(s) /\ (raw[s] = "skipped" \/ (row.late /\ raw[s] # "linked")) -> "failed"
       [] ~IsEvent(s) /\ Handle[s] \in read -> "ingested"
       [] OTHER -> "none"

\* The UPDATE, too, asks for the key alone; the submitter is told once it is committed.
WatchRow(row) ==
  /\ row \in watch
  /\ \A other \in watch : row.sub <= other.sub
  /\ watch' = watch \ {row}
  /\ IF Verdict(row) = "none"
       THEN UNCHANGED <<status, verdicts>>
       ELSE /\ status' = [status EXCEPT ![row.sub] = Verdict(row)]
            /\ verdicts' = [verdicts EXCEPT ![row.sub] = @ + 1]
  /\ UNCHANGED <<age, world, request, decisions, crashes, approvals>>

-----------------------------------------------------------------------------
(* Time and failures.                                                      *)

Day ==
  /\ \E s \in Awaiting : age[s] <= Backstop
  /\ age' = [s \in Subs |-> IF s \in Awaiting /\ age[s] <= Backstop THEN age[s] + 1 ELSE age[s]]
  /\ UNCHANGED <<status, world, request, watch, decisions, crashes, history>>

\* A request or the watch dies, between any two of its transactions.
Crash ==
  /\ crashes < MaxCrashes
  /\ crashes' = crashes + 1
  /\ \/ /\ \E a \in Admins : request[a] # Idle /\ request' = [request EXCEPT ![a] = Idle]
        /\ UNCHANGED <<status, watch>>
     \/ watch # {} /\ watch' = {} /\ UNCHANGED <<status, request>>
     \/ /\ \E s \in Checking : status' = [status EXCEPT ![s] = "refused"]
        /\ UNCHANGED <<request, watch>>
  /\ UNCHANGED <<age, world, decisions, history>>

Next ==
  \/ \E s \in Subs : Suggest(s) \/ Create(s) \/ Pipeline(s)
  \/ \E a \in Admins : (\E s \in Subs : BeginDecision(a, s)) \/ TakeUp(a) \/ Approve(a) \/ Reject(a)
  \/ \E h \in Handles : Fetch(h) \/ SwitchOff(h)
  \/ WatchBegin \/ (\E row \in watch : WatchRow(row))
  \/ Day \/ Crash

Spec == Init /\ [][Next]_vars

\* The watch runs every quarter of an hour, fetch-telegram every three minutes, and
\* a request that is not cut off ends.  Nobody has to decide anything, and the
\* pipeline has to do nothing.
FairSpec ==
  /\ Spec
  /\ WF_vars(WatchBegin) /\ WF_vars(\E row \in watch : WatchRow(row)) /\ WF_vars(Day)
  /\ \A h \in Handles : WF_vars(Fetch(h))
  /\ \A a \in Admins : WF_vars(TakeUp(a) \/ Approve(a) \/ Reject(a))

-----------------------------------------------------------------------------
(* Properties.                                                             *)

\* The submitter hears no more verdicts ("it is on the map", "it did not work") than
\* administrators wrote approvals, whatever decisions, passes and crashes overlap
\* (the watch writes a terminal status before it tells anybody).
VerdictPerApproval == \A s \in Subs : verdicts[s] <= approvals[s]

\* A channel that was approved and has no source run that ended in success: the watch
\* has no verdict for it, whatever its age.
Unread(s) == status[s] = "approved" /\ ~IsEvent(s) /\ Handle[s] \notin read

\* So many of them were suggested before s that the watch never comes to s.
Starved(s) == Cardinality({t \in Subs : t < s /\ Unread(t)}) >= WatchLimit

\* An approved row hangs for ever only where the watch has no verdict for it, or where
\* WatchLimit older rows without one fill its query (ORDER BY created_at LIMIT 500): an
\* event is settled even if the pipeline never looks at it, a channel once it was read,
\* whatever decisions, passes and crashes overlap.
ApprovedSettles ==
  \A s \in Subs : <>[](status[s] = "approved") => <>[](Unread(s) \/ Starved(s))

\* "Nothing should hang in 'approved'" (flows.py:317).
NothingHangs == \A s \in Subs : status[s] = "approved" ~> status[s] # "approved"
-----------------------------------------------------------------------------
(* The inductive invariant behind the safety property.                     *)

\* Every variable that the argument needs has its type.
TypeOK ==
  /\ status \in [Subs -> Statuses]
  /\ request \in [Admins -> {Idle} \cup [op : Doing, sub : Subs]]
  /\ watch \subseteq [sub : Subs, late : BOOLEAN]
  /\ approvals \in [Subs -> Nat] /\ verdicts \in [Subs -> Nat]

\* A row that is approved, or that the watch has read so, has a verdict coming.
Coming(s) == status[s] = "approved" \/ \E row \in watch : row.sub = s

IInv ==
  /\ TypeOK
  /\ \A one, other \in watch : one.sub = other.sub => one = other
  /\ VerdictPerApproval
  /\ \A s \in Subs : Coming(s) => verdicts[s] < approvals[s]
=============================================================================
