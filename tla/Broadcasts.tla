----------------------------- MODULE Broadcasts -----------------------------
(***************************************************************************)
(* Custom broadcasts: the administrator's routes                           *)
(* (apps/api/routes/admin_broadcasts.py), the paced sender and the         *)
(* dispatcher (apps/worker/tasks/broadcasts.py), and the two tables they   *)
(* share, ref.broadcast_campaigns and ref.broadcast_recipients.            *)
(*                                                                         *)
(* A step is what runs between two commits or two awaits: the sessions are *)
(* READ COMMITTED, so every statement sees what others committed before    *)
(* it.  Time is abstracted to the events that the code tells apart: a      *)
(* campaign falling due, a user's local hour arriving, the latest local    *)
(* hour plus its buffer passing, a claim growing older than the reaper's   *)
(* fifteen minutes.                                                        *)
(***************************************************************************)
EXTENDS Naturals, FiniteSets, Sequences

CONSTANTS Campaigns,      \* campaign numbers, in order of created_at
          Users,          \* telegram_user_id of every row of ref.users
          Fickle,         \* the users who ever switch notify_broadcasts
          Contents,       \* values of (title, body, image, button, audience)
          NoContent,      \* "none yet", outside Contents
          AudOf,          \* AudOf[k]: the users that k's audience kind selects
          Kinds,          \* the schedule kinds in use
          Dispatchers,    \* runs of the dispatch-broadcasts flow that may overlap
          DispatchLimit,  \* LIMIT of the due query (10 in the code)
          LocalBatch,     \* LIMIT of the at_local query (5000 in the code)
          MaxRequests,    \* bound on the tests and gates in flight for a campaign
          MaxCrashes      \* bound on the disrupted passes of a behaviour

ASSUME BroadcastsAssumption ==
  /\ Campaigns \subseteq Nat \ {0}
  /\ Users \subseteq Nat \ {0}
  /\ Fickle \subseteq Users
  /\ NoContent \notin Contents
  /\ AudOf \in [Contents -> SUBSET Users]
  /\ Kinds \subseteq {"now", "at_utc", "at_local"} /\ "now" \in Kinds
  /\ DispatchLimit \in Nat \ {0}
  /\ LocalBatch \in Nat \ {0}
  /\ MaxRequests \in Nat
  /\ MaxCrashes \in Nat

Statuses == {"absent", "draft", "scheduled", "sending", "sent", "cancelled"}
Rows == {"none", "pending", "ok", "permanent"}
Verdicts == {"ok", "permanent", "retry"}
Steps == {"idle", "list", "mark", "resolve", "loop", "send", "record"}

VARIABLES
  \* ref.broadcast_campaigns
  status, content, kind, tested, confirmed,
  \* ref.broadcast_recipients, and which of its rows are older than 15 minutes
  ledger, aged,
  \* the clock: due campaigns, users whose local hour came, at_local closed
  due, ripe, closed,
  \* users with notify_broadcasts
  optin,
  \* requests in flight: contents being tested, contents that passed the gate
  testing, gating,
  \* the dispatcher runs, and how many of them were disrupted
  run, crashes,
  \* history, read by no action: messages users got, contents proofed by a
  \* successful test, content at confirmation, users who were opted in at some
  \* moment since confirmation, users who stayed in the audience ever since
  inbox, proofed, signed, everIn, owed

table == <<status, content, kind, tested, confirmed>>
rows == <<ledger, aged>>
clock == <<due, ripe, closed>>
requests == <<testing, gating>>
history == <<inbox, proofed, signed, everIn, owed>>
vars == <<table, rows, clock, optin, requests, run, crashes, history>>

\* A run is working on a campaign.
Sending(r) == r.pc \in {"mark", "resolve", "loop", "send", "record"}

IdleRun == [pc |-> "idle", queue |-> {}, camp |-> 0, letter |-> NoContent,
            kind |-> "now", todo |-> {}, uid |-> 0, attempt |-> 1,
            verdict |-> "retry", asOf |-> "finish"]

Runs == [pc : Steps, queue : SUBSET Campaigns, camp : Campaigns \cup {0},
         letter : Contents \cup {NoContent}, kind : Kinds, todo : SUBSET Users,
         uid : Users \cup {0}, attempt : {1, 2}, verdict : Verdicts,
         asOf : {"finish", "open", "closed"}]

Init ==
  /\ status = [c \in Campaigns |-> "absent"]
  /\ content = [c \in Campaigns |-> NoContent]
  /\ kind = [c \in Campaigns |-> "now"]
  /\ tested = [c \in Campaigns |-> FALSE]
  /\ confirmed = [c \in Campaigns |-> FALSE]
  /\ ledger = [c \in Campaigns |-> [u \in Users |-> "none"]]
  /\ aged = [c \in Campaigns |-> {}]
  /\ due = [c \in Campaigns |-> FALSE]
  /\ ripe = [c \in Campaigns |-> {}]
  /\ closed = [c \in Campaigns |-> FALSE]
  /\ optin = Users
  /\ testing = [c \in Campaigns |-> {}]
  /\ gating = [c \in Campaigns |-> {}]
  /\ run = [d \in Dispatchers |-> IdleRun]
  /\ crashes = 0
  /\ inbox = [c \in Campaigns |-> [u \in Users |-> <<>>]]
  /\ proofed = [c \in Campaigns |-> {}]
  /\ signed = [c \in Campaigns |-> NoContent]
  /\ everIn = [c \in Campaigns |-> {}]
  /\ owed = [c \in Campaigns |-> {}]

-----------------------------------------------------------------------------
(* The administrator.  Several requests may be in flight at once.          *)

CreateCampaign(c, k) ==
  /\ status[c] = "absent"
  /\ \A b \in Campaigns : b < c => status[b] # "absent"
  /\ status' = [status EXCEPT ![c] = "draft"]
  /\ content' = [content EXCEPT ![c] = k]
  /\ UNCHANGED <<kind, tested, confirmed, rows, clock, optin, requests, run,
                 crashes, history>>

\* PATCH: one UPDATE guarded by status='draft'; test_sent_at is left as it is.
UpdateCampaign(c, k) ==
  /\ status[c] = "draft"
  /\ content' = [content EXCEPT ![c] = k]
  /\ UNCHANGED <<status, kind, tested, confirmed, rows, clock, optin, requests,
                 run, crashes, history>>

RequestFits(c) == Cardinality(testing[c]) + Cardinality(gating[c]) < MaxRequests

\* The test reads the campaign, whatever its status, and starts to send it to
\* the administrator's own account; no ledger row is written.
TestCampaign(c) ==
  /\ status[c] # "absent"
  /\ RequestFits(c)
  /\ testing' = [testing EXCEPT ![c] = @ \cup {content[c]}]
  /\ UNCHANGED <<table, rows, clock, optin, gating, run, crashes, history>>

\* Telegram accepted the test (res["sent"] == 1): test_sent_at is stamped on the
\* row, whatever the row says by now.
TestAccepted(c, k) ==
  /\ k \in testing[c]
  /\ testing' = [testing EXCEPT ![c] = @ \ {k}]
  /\ tested' = [tested EXCEPT ![c] = TRUE]
  /\ proofed' = [proofed EXCEPT ![c] = @ \cup {k}]
  /\ UNCHANGED <<status, content, kind, confirmed, rows, clock, optin, gating,
                 run, crashes, inbox, signed, everIn, owed>>

TestRefused(c, k) ==
  /\ k \in testing[c]
  /\ testing' = [testing EXCEPT ![c] = @ \ {k}]
  /\ UNCHANGED <<table, rows, clock, optin, gating, run, crashes, history>>

\* The gate of send-now and schedule, for a request that confirms and echoes
\* the recipient count of the audience stored at this moment.
Gate(c) ==
  /\ status[c] # "absent"
  /\ tested[c]
  /\ RequestFits(c)
  /\ gating' = [gating EXCEPT ![c] = @ \cup {content[c]}]
  /\ UNCHANGED <<table, rows, clock, optin, testing, run, crashes, history>>

\* The UPDATE behind the gate, guarded by status='draft'.
Confirm(c, k, w) ==
  /\ k \in gating[c]
  /\ gating' = [gating EXCEPT ![c] = @ \ {k}]
  /\ status[c] = "draft"
  /\ status' = [status EXCEPT ![c] = "scheduled"]
  /\ kind' = [kind EXCEPT ![c] = w]
  /\ confirmed' = [confirmed EXCEPT ![c] = TRUE]
  /\ due' = [due EXCEPT ![c] = (w = "now")]
  /\ signed' = [signed EXCEPT ![c] = content[c]]
  /\ everIn' = [everIn EXCEPT ![c] = optin]
  /\ owed' = [owed EXCEPT ![c] = AudOf[content[c]] \cap optin]
  /\ UNCHANGED <<content, tested, rows, ripe, closed, optin, testing, run,
                 crashes, inbox, proofed>>

\* 409: the row is no longer a draft.
ConfirmRefused(c, k) ==
  /\ k \in gating[c]
  /\ status[c] # "draft"
  /\ gating' = [gating EXCEPT ![c] = @ \ {k}]
  /\ UNCHANGED <<table, rows, clock, optin, testing, run, crashes, history>>

\* Fault: the cancellation without its guard, so a sent campaign can be cancelled.
CancelAnytime(c) ==
  /\ status[c] # "absent"
  /\ status' = [status EXCEPT ![c] = "cancelled"]
  /\ UNCHANGED <<content, kind, tested, confirmed, rows, clock, optin, requests,
                 run, crashes, history>>

CancelCampaign(c) ==
  /\ status[c] \in {"draft", "scheduled"}
  /\ status' = [status EXCEPT ![c] = "cancelled"]
  /\ UNCHANGED <<content, kind, tested, confirmed, rows, clock, optin, requests,
                 run, crashes, history>>

AdminStep(c) ==
  \/ \E k \in Contents : \/ CreateCampaign(c, k)
                         \/ UpdateCampaign(c, k)
                         \/ TestAccepted(c, k)
                         \/ TestRefused(c, k)
                         \/ \E w \in Kinds : Confirm(c, k, w)
                         \/ ConfirmRefused(c, k)
  \/ TestCampaign(c)
  \/ Gate(c)
  \/ CancelCampaign(c)

-----------------------------------------------------------------------------
(* Users switch notify_broadcasts in the Mini App at any time.             *)

OptOut(u) ==
  /\ u \in optin
  /\ optin' = optin \ {u}
  /\ owed' = [c \in Campaigns |-> owed[c] \ {u}]
  /\ UNCHANGED <<table, rows, clock, requests, run, crashes, inbox, proofed,
                 signed, everIn>>

OptIn(u) ==
  /\ u \notin optin
  /\ optin' = optin \cup {u}
  /\ everIn' = [c \in Campaigns |-> everIn[c] \cup {u}]
  /\ UNCHANGED <<table, rows, clock, requests, run, crashes, inbox, proofed,
                 signed, owed>>

-----------------------------------------------------------------------------
(* Time.                                                                   *)

Live(c) == status[c] \in {"scheduled", "sending"}

\* scheduled_at, or the local hour of the earliest zone, is reached.
FallDue(c) ==
  /\ Live(c)
  /\ ~due[c]
  /\ due' = [due EXCEPT ![c] = TRUE]
  /\ UNCHANGED <<table, rows, ripe, closed, optin, requests, run, crashes,
                 history>>

\* The local hour arrives where u lives.
Ripen(c, u) ==
  /\ Live(c) /\ kind[c] = "at_local" /\ due[c]
  /\ u \notin ripe[c]
  /\ ripe' = [ripe EXCEPT ![c] = @ \cup {u}]
  /\ UNCHANGED <<table, rows, due, closed, optin, requests, run, crashes,
                 history>>

\* Ten minutes after the local hour of the latest zone.
CloseLocal(c) ==
  /\ Live(c) /\ kind[c] = "at_local"
  /\ ripe[c] = Users
  /\ ~closed[c]
  /\ closed' = [closed EXCEPT ![c] = TRUE]
  /\ UNCHANGED <<table, rows, due, ripe, optin, requests, run, crashes, history>>

\* A claim becomes older than the reaper's interval.
Age(c, u) ==
  /\ ledger[c][u] = "pending"
  /\ u \notin aged[c]
  /\ aged' = [aged EXCEPT ![c] = @ \cup {u}]
  /\ UNCHANGED <<table, ledger, clock, optin, requests, run, crashes, history>>

TimeStep ==
  \/ \E c \in Campaigns : \/ FallDue(c)
                          \/ CloseLocal(c)
                          \/ \E u \in Users : Ripen(c, u) \/ Age(c, u)

-----------------------------------------------------------------------------
(* The dispatcher flow: one pass over the due campaigns.                   *)

\* The first n elements of a set of numbers.
FirstOf(S, n) == {x \in S : Cardinality({y \in S : y < x}) < n}

DueCampaigns == FirstOf({c \in Campaigns : Live(c) /\ due[c]}, DispatchLimit)

\* Fault: no reaper.
ReapNothing == UNCHANGED rows

\* The reaper settles the claims that no live pass will settle, then the due
\* campaigns are listed.
Reap ==
  /\ ledger' = [c \in Campaigns |->
                  [u \in Users |-> IF ledger[c][u] = "pending" /\ u \in aged[c]
                                   THEN "permanent" ELSE ledger[c][u]]]
  /\ aged' = [c \in Campaigns |-> {}]

StartPass(d) ==
  /\ run[d].pc = "idle"
  /\ Reap
  /\ run' = [run EXCEPT ![d] = [IdleRun EXCEPT !.pc = "list",
                                               !.queue = DueCampaigns]]
  /\ UNCHANGED <<table, clock, optin, requests, crashes, history>>

EndPass(d) ==
  /\ run[d].pc = "list"
  /\ run[d].queue = {}
  /\ run' = [run EXCEPT ![d] = IdleRun]
  /\ UNCHANGED <<table, rows, clock, optin, requests, crashes, history>>

IsNext(d, c) == c \in run[d].queue /\ \A b \in run[d].queue : c <= b

Sendable(c) == Live(c) /\ tested[c] /\ confirmed[c]

\* The SELECT of send_campaign_impl finds a campaign to send ...
LoadCampaign(d, c) ==
  /\ run[d].pc = "list"
  /\ IsNext(d, c)
  /\ Sendable(c)
  /\ run' = [run EXCEPT ![d] = [@ EXCEPT !.pc = "mark", !.camp = c,
                                         !.letter = content[c],
                                         !.kind = kind[c]]]
  /\ UNCHANGED <<table, rows, clock, optin, requests, crashes, history>>

\* ... or one that was cancelled or finished since it was listed.
SkipCampaign(d, c) ==
  /\ run[d].pc = "list"
  /\ IsNext(d, c)
  /\ ~Sendable(c)
  /\ run' = [run EXCEPT ![d].queue = @ \ {c}]
  /\ UNCHANGED <<table, rows, clock, optin, requests, crashes, history>>

\* The UPDATE to 'sending' names the id alone.
MarkSending(d) ==
  /\ run[d].pc = "mark"
  /\ status' = [status EXCEPT ![run[d].camp] = "sending"]
  /\ run' = [run EXCEPT ![d] = [@ EXCEPT !.pc = "resolve"]]
  /\ UNCHANGED <<content, kind, tested, confirmed, rows, clock, optin, requests,
                 crashes, history>>

\* Fault: the audience filter without notify_broadcasts.
AudienceUnfiltered(k) == AudOf[k]

\* Who gets the campaign now: the audience, minus the users who opted out; for
\* at_local those whose hour has come, a batch of them in order of user id.
Audience(k) == AudOf[k] \cap optin

\* Fault: the LIMIT on every audience query.
RecipientsBatched(r) ==
  IF r.kind = "at_local"
  THEN FirstOf(Audience(r.letter) \cap ripe[r.camp], LocalBatch)
  ELSE FirstOf(Audience(r.letter), LocalBatch)

Recipients(r) ==
  IF r.kind = "at_local"
  THEN FirstOf(Audience(r.letter) \cap ripe[r.camp], LocalBatch)
  ELSE Audience(r.letter)

\* The closing check of a pass with no recipient runs in this same transaction,
\* so it sees the clock of this moment; otherwise it reads the clock at the end.
ClosingClock(r) == IF Recipients(r) # {} THEN "finish"
                   ELSE IF closed[r.camp] THEN "closed" ELSE "open"

ResolveAudience(d) ==
  /\ run[d].pc = "resolve"
  /\ run' = [run EXCEPT ![d] = [@ EXCEPT !.pc = "loop",
                                         !.todo = Recipients(run[d]),
                                         !.asOf = ClosingClock(run[d])]]
  /\ UNCHANGED <<table, rows, clock, optin, requests, crashes, history>>

\* Fault: a claim that is still pending may be taken over.
ClaimUnlessSettled(d, u) ==
  /\ run[d].pc = "loop"
  /\ u \in run[d].todo
  /\ ledger[run[d].camp][u] \in {"none", "pending"}
  /\ ledger' = [ledger EXCEPT ![run[d].camp][u] = "pending"]
  /\ run' = [run EXCEPT ![d].pc = "send", ![d].uid = u, ![d].todo = @ \ {u}]
  /\ UNCHANGED <<table, aged, clock, optin, requests, crashes, history>>

\* INSERT ... ON CONFLICT DO NOTHING, committed before the message is sent.
Claim(d, u) ==
  /\ run[d].pc = "loop"
  /\ u \in run[d].todo
  /\ ledger[run[d].camp][u] = "none"
  /\ ledger' = [ledger EXCEPT ![run[d].camp][u] = "pending"]
  /\ run' = [run EXCEPT ![d].pc = "send", ![d].uid = u, ![d].todo = @ \ {u}]
  /\ UNCHANGED <<table, aged, clock, optin, requests, crashes, history>>

AlreadyClaimed(d, u) ==
  /\ run[d].pc = "loop"
  /\ u \in run[d].todo
  /\ ledger[run[d].camp][u] # "none"
  /\ run' = [run EXCEPT ![d].todo = @ \ {u}]
  /\ UNCHANGED <<table, rows, clock, optin, requests, crashes, history>>

\* Telegram's answer to one attempt of _send_one.  A 429 or 5xx envelope means
\* the message was not taken; an exception (timeout, reset) says nothing.
Deliver(r) == inbox' = [inbox EXCEPT ![r.camp][r.uid] = Append(@, r.letter)]

Answered(d, v) == run' = [run EXCEPT ![d] = [@ EXCEPT !.pc = "record",
                                                      !.verdict = v]]

SendAccepted(d) ==
  /\ run[d].pc = "send"
  /\ Deliver(run[d])
  /\ Answered(d, "ok")
  /\ UNCHANGED <<table, rows, clock, optin, requests, crashes, proofed, signed,
                 everIn, owed>>

SendRejected(d) ==
  /\ run[d].pc = "send"
  /\ Answered(d, "permanent")
  /\ UNCHANGED <<table, rows, clock, optin, requests, crashes, history>>

SendFlooded(d) ==
  /\ run[d].pc = "send"
  /\ \/ /\ run[d].attempt = 1
        /\ run' = [run EXCEPT ![d] = [@ EXCEPT !.attempt = 2]]
     \/ /\ run[d].attempt = 2
        /\ Answered(d, "retry")
  /\ UNCHANGED <<table, rows, clock, optin, requests, crashes, history>>

\* An exception is not retried within the pass.
AfterException(d) == Answered(d, "retry")

SendFailed(d) ==
  /\ run[d].pc = "send"
  /\ Deliver(run[d]) \/ UNCHANGED inbox
  /\ AfterException(d)
  /\ UNCHANGED <<table, rows, clock, optin, requests, crashes, proofed, signed,
                 everIn, owed>>

\* A 'retry' stays 'pending' for the reaper.
RowOf(v) == IF v = "retry" THEN "pending" ELSE v

\* UPDATE of the ledger row.
RecordResult(d) ==
  /\ run[d].pc = "record"
  /\ LET r == run[d]
     IN /\ ledger' = [ledger EXCEPT ![r.camp][r.uid] = RowOf(r.verdict)]
        /\ aged' = [aged EXCEPT ![r.camp] = @ \ {r.uid}]
        /\ run' = [run EXCEPT ![d] = [r EXCEPT !.pc = "loop", !.uid = 0,
                                               !.attempt = 1,
                                               !.verdict = "retry"]]
  /\ UNCHANGED <<table, clock, optin, requests, crashes, history>>

\* Nobody is left: 'sent', unless an at_local campaign has zones to come.
LatestZonePassed(r) == r.asOf = "closed" \/ (r.asOf = "finish" /\ closed[r.camp])

ClosingStatus(r) ==
  IF r.kind = "at_local" /\ ~LatestZonePassed(r) THEN "sending" ELSE "sent"

FinishCampaign(d) ==
  /\ run[d].pc = "loop"
  /\ run[d].todo = {}
  /\ status' = [status EXCEPT ![run[d].camp] = ClosingStatus(run[d])]
  /\ run' = [run EXCEPT ![d] = [IdleRun EXCEPT !.pc = "list",
                                  !.queue = run[d].queue \ {run[d].camp}]]
  /\ UNCHANGED <<content, kind, tested, confirmed, rows, clock, optin, requests,
                 crashes, history>>

\* The worker is killed, redeployed, or cancelled by the flow's timeout.
LosePass(d) ==
  /\ run[d].pc # "idle"
  /\ crashes < MaxCrashes
  /\ crashes' = crashes + 1
  /\ run' = [run EXCEPT ![d] = IdleRun]
  /\ UNCHANGED <<table, rows, clock, optin, requests, history>>

\* A database error in send_campaign_impl: _dispatch_due_impl catches it and goes
\* on with the next campaign.
AbandonCampaign(d) ==
  /\ Sending(run[d])
  /\ crashes < MaxCrashes
  /\ crashes' = crashes + 1
  /\ run' = [run EXCEPT ![d] = [IdleRun EXCEPT !.pc = "list",
                                  !.queue = run[d].queue \ {run[d].camp}]]
  /\ UNCHANGED <<table, rows, clock, optin, requests, history>>

Disruption(d) == LosePass(d) \/ AbandonCampaign(d)

SendStep(d) == SendAccepted(d) \/ SendRejected(d) \/ SendFlooded(d) \/ SendFailed(d)

DispatchStep(d) ==
  \/ StartPass(d)
  \/ EndPass(d)
  \/ \E c \in Campaigns : LoadCampaign(d, c) \/ SkipCampaign(d, c)
  \/ MarkSending(d)
  \/ ResolveAudience(d)
  \/ \E u \in Users : Claim(d, u) \/ AlreadyClaimed(d, u)
  \/ SendStep(d)
  \/ RecordResult(d)
  \/ FinishCampaign(d)

Next ==
  \/ \E c \in Campaigns : AdminStep(c)
  \/ \E u \in Fickle : OptOut(u) \/ OptIn(u)
  \/ TimeStep
  \/ \E d \in Dispatchers : DispatchStep(d) \/ Disruption(d)

\* Safety needs no fairness.
Spec == Init /\ [][Next]_vars

\* Prefect starts the flow every five minutes and a pass that is not killed runs
\* on; time does not stop.
Fairness ==
  /\ \A d \in Dispatchers : WF_vars(DispatchStep(d))
  /\ WF_vars(TimeStep)

FairSpec == Spec /\ Fairness

-----------------------------------------------------------------------------
(* Properties.                                                             *)

\* Every variable has its type.
TypeOK ==
  /\ status \in [Campaigns -> Statuses]
  /\ content \in [Campaigns -> Contents \cup {NoContent}]
  /\ kind \in [Campaigns -> Kinds]
  /\ tested \in [Campaigns -> BOOLEAN]
  /\ confirmed \in [Campaigns -> BOOLEAN]
  /\ ledger \in [Campaigns -> [Users -> Rows]]
  /\ aged \in [Campaigns -> SUBSET Users]
  /\ due \in [Campaigns -> BOOLEAN]
  /\ ripe \in [Campaigns -> SUBSET Users]
  /\ closed \in [Campaigns -> BOOLEAN]
  /\ optin \in SUBSET Users
  /\ testing \in [Campaigns -> SUBSET Contents]
  /\ gating \in [Campaigns -> SUBSET Contents]
  /\ run \in [Dispatchers -> Runs]
  /\ crashes \in 0..MaxCrashes
  /\ inbox \in [Campaigns -> [Users -> Seq(Contents)]]
  /\ proofed \in [Campaigns -> SUBSET Contents]
  /\ signed \in [Campaigns -> Contents \cup {NoContent}]
  /\ everIn \in [Campaigns -> SUBSET Users]
  /\ owed \in [Campaigns -> SUBSET Users]

\* No user receives a campaign twice, whatever crashes, retries and overlapping
\* passes happen: the claim committed before the send is what counts, and a
\* stranded claim is never sent again (broadcasts.py, module docstring).
AtMostOnce == \A c \in Campaigns, u \in Users : Len(inbox[c][u]) <= 1

\* Whatever a user received is what the campaign said when it was confirmed:
\* no edit, retest or cancellation reaches a confirmed campaign.
OneContent ==
  \A c \in Campaigns, u \in Users :
    \A i \in DOMAIN inbox[c][u] : inbox[c][u][i] = signed[c]

\* Nobody hears of a scheduled campaign before its time, and with at_local not
\* before that hour where they live.
NotEarly ==
  \A c \in Campaigns, u \in Users :
    inbox[c][u] # <<>> => due[c] /\ (kind[c] = "at_local" => u \in ripe[c])

\* Whoever was opted out at the confirmation and ever since receives nothing,
\* however often the campaign is resumed.
OptOutRespected ==
  \A c \in Campaigns, u \in Users : inbox[c][u] # <<>> => u \in everIn[c]

\* A pass waits for the answer of a claim, or has it and has not recorded it yet.
Holding(r) == r.pc \in {"send", "record"}
Holds(r, c, u) == Holding(r) /\ r.camp = c /\ r.uid = u

Claimed(c) == {u \in Users : ledger[c][u] # "none"}

\* A now or at_utc campaign is 'sent' only when every user who belonged to its
\* audience from the confirmation on has been tried: no crash, timeout or
\* resumed pass leaves somebody out.
NobodyForgotten ==
  \A c \in Campaigns :
    status[c] = "sent" /\ kind[c] # "at_local" => owed[c] \subseteq Claimed(c)

\* The same for at_local, where "диспетчер дошлёт остальным".
LocalNobodyForgotten ==
  \A c \in Campaigns :
    status[c] = "sent" /\ kind[c] = "at_local" => owed[c] \subseteq Claimed(c)

\* The ledger does not go back, even when passes overlap and the reaper gives up a
\* claim whose pass still waits for its answer: a claim never disappears, a row says
\* 'ok' only of a message that is out and says so for good, and a row given up is
\* reopened by nobody but the pass that holds the claim.
LedgerAdvances ==
  [][\A c \in Campaigns, u \in Users :
       /\ ledger[c][u] # "none" => ledger'[c][u] # "none"
       /\ ledger[c][u] = "ok" => ledger'[c][u] = "ok"
       /\ ledger'[c][u] = "ok" => inbox'[c][u] # <<>>
       /\ ledger[c][u] = "permanent" /\ ledger'[c][u] # "permanent" =>
            \E d \in Dispatchers : Holds(run[d], c, u)]_ledger

\* A finished campaign is never taken up again.
SentIsFinal ==
  [][\A c \in Campaigns : status[c] = "sent" => status'[c] = "sent"]_status

\* A cancelled campaign stays cancelled (lifecycle of migration 0046).
CancelledIsFinal ==
  [][\A c \in Campaigns : status[c] = "cancelled" => status'[c] = "cancelled"]_status

\* Only a content that the administrator tested successfully is sent out.
OnlyTestedSent ==
  \A c \in Campaigns, u \in Users :
    \A i \in DOMAIN inbox[c][u] : inbox[c][u][i] \in proofed[c]

\* A confirmed campaign is brought to an end, and no claim of it hangs as
\* 'pending': neither a backlog of other campaigns, nor a crash, nor an answer
\* that was lost, nor a zone to come keeps it from being settled.
ConfirmedSettles ==
  \A c \in Campaigns :
    status[c] = "scheduled" ~> /\ status[c] \in {"sent", "cancelled"}
                               /\ \A u \in Users : ledger[c][u] # "pending"

-----------------------------------------------------------------------------
(* The inductive invariant behind the safety properties.                   *)

Spooling(r) == r.pc \in {"loop", "send", "record"}

\* A campaign that exists says something, and once confirmed says it for good.
RowInv ==
  \A c \in Campaigns :
    /\ status[c] # "absent" => content[c] \in Contents
    /\ status[c] \in {"absent", "draft"} => signed[c] = NoContent
    /\ status[c] \in {"scheduled", "sending", "sent"} => signed[c] # NoContent
    /\ signed[c] # NoContent => signed[c] = content[c]
    /\ signed[c] = NoContent => owed[c] = {}
    /\ signed[c] # NoContent => owed[c] \subseteq AudOf[signed[c]] \cap optin
    /\ optin \subseteq everIn[c] \/ signed[c] = NoContent

\* A user without a ledger row got nothing; who got something got it rightly.
MailInv ==
  \A c \in Campaigns, u \in Users :
    \/ inbox[c][u] = <<>>
    \/ /\ inbox[c][u] = <<signed[c]>>
       /\ signed[c] # NoContent
       /\ ledger[c][u] # "none"
       /\ due[c] /\ u \in everIn[c]
       /\ kind[c] = "at_local" => u \in ripe[c]

\* What a pass listed and what it loaded are confirmed campaigns that fell due.
ListedOk(r) == \A c \in r.queue : due[c] /\ signed[c] # NoContent

LoadedOk(r) ==
  Sending(r) => /\ r.camp \in Campaigns
                /\ r.letter = signed[r.camp]
                /\ signed[r.camp] # NoContent
                /\ r.kind = kind[r.camp]
                /\ due[r.camp]
                /\ Holding(r) => r.uid \in Users

PassInv == \A d \in Dispatchers : ListedOk(run[d]) /\ LoadedOk(run[d])

\* Who is still to be sent to may be sent to; and a now or at_utc campaign has
\* everybody it owes on the list or in the ledger.
TodoOk(r) ==
  Spooling(r) => /\ r.todo \subseteq everIn[r.camp]
                 /\ r.kind = "at_local" => r.todo \subseteq ripe[r.camp]
                 /\ r.kind # "at_local" =>
                      owed[r.camp] \subseteq r.todo \cup Claimed(r.camp)

ListInv == \A d \in Dispatchers : TodoOk(run[d])

\* The claim a pass holds is its own, and its user is still to be served.
HeldOk(r) ==
  /\ Holding(r) => /\ ledger[r.camp][r.uid] # "none"
                   /\ r.uid \in everIn[r.camp]
                   /\ r.kind = "at_local" => r.uid \in ripe[r.camp]
  /\ r.pc = "send" => inbox[r.camp][r.uid] = <<>>

Disjoint(r, q) ==
  r.pc = "send" /\ q.pc = "send" => <<r.camp, r.uid>> # <<q.camp, q.uid>>

ClaimInv ==
  /\ \A d \in Dispatchers : HeldOk(run[d])
  /\ \A d, e \in Dispatchers : d # e => Disjoint(run[d], run[e])

IInv ==
  TypeOK /\ RowInv /\ MailInv /\ PassInv /\ ListInv /\ ClaimInv /\ NobodyForgotten

\* What LedgerAdvances needs: a claim is in the hands of one pass, undecided but for
\* the reaper, and what that pass or the ledger calls delivered is out.
HandOk(r) ==
  /\ Holding(r) => ledger[r.camp][r.uid] \in {"pending", "permanent"}
  /\ r.pc = "record" /\ r.verdict = "ok" => inbox[r.camp][r.uid] # <<>>

HandsInv ==
  /\ \A d \in Dispatchers : HandOk(run[d])
  /\ \A d, e \in Dispatchers, c \in Campaigns, u \in Users :
       Holds(run[d], c, u) /\ Holds(run[e], c, u) => d = e
  /\ \A c \in Campaigns, u \in Users : ledger[c][u] = "ok" => inbox[c][u] # <<>>

\* What SentIsFinal needs: that no two passes overlap.  Then nobody else finishes the
\* campaign of a pass.
OnePass == \A d, e \in Dispatchers : d = e

OwnOk(r) == Sending(r) => status[r.camp] # "sent"

OwnInv == \A d \in Dispatchers : OwnOk(run[d])

-----------------------------------------------------------------------------
\* The promise to the audience, of which the above is an implementation: a
\* campaign is released by its confirmation with the content it then has.
Promise == INSTANCE OnceDelivery WITH released <- signed

KeepsPromise == Promise!Spec
=============================================================================
