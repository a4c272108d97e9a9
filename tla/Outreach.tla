------------------------------ MODULE Outreach ------------------------------
(***************************************************************************)
(* The messages the product sends on its own: reminders of saved events    *)
(* (apps/worker/tasks/reminders.py, core/db/repositories/reminders.py),    *)
(* the weekly digest (digest.py) and the two onboarding nudges             *)
(* (welcome.py), with the user's routes that feed them                     *)
(* (apps/api/routes/users.py).                                             *)
(*                                                                         *)
(* Four sweeps share one shape: read who is due in one session, then send  *)
(* to one after another with no session open, and stamp each in a session  *)
(* of its own.  A user's route is one transaction: its upsert holds the    *)
(* user's row until the commit.  Time advances in ticks of some hours; the *)
(* flow's timeout of 300 seconds lets a sweep straddle at most one tick,   *)
(* and the 45 seconds of the shortest lead are no tick at all.             *)
(***************************************************************************)
EXTENDS Integers, FiniteSets

CONSTANTS Users,        \* telegram_user_id of every row of ref.users
          Events,       \* events that users save
          Sessions,     \* Sessions[e]: the occurrences of e, [start, end]
          Open,         \* the end of a session without date_end
          MaxTime,      \* bound on the clock
          Lead,         \* _REMINDER_LEAD (2 hours)
          ClosingLead,  \* _CLOSING_LEAD (2 days)
          Soon,         \* the shortest lead of a closing reminder (1 hour)
          Grace,        \* _FIRE_GRACE_HOURS (6 hours)
          Window,       \* Window[k]: the hours <<after, before>> since last_app_open_at of nudge k
          WeekLength,   \* the ISO week
          BatchLimit,   \* LIMIT of the due queries (200)
          Lanes,        \* the sets of flows that behaviours are explored with
          MaxTaps,      \* bound on the users' requests
          MaxFaults     \* bound on lost answers and disrupted sweeps

Nudges == {"welcome", "d4"}
Sweeps == {"reminders", "digest"} \cup Nudges
Time == 0 .. MaxTime

ASSUME OutreachAssumption ==
  /\ Lanes \subseteq SUBSET Sweeps
  /\ MaxTime \in Nat /\ Open \notin Nat
  /\ Sessions \in [Events -> SUBSET [start : Nat, end : Nat \cup {Open}]]
  /\ {Lead, ClosingLead, Soon, Grace, MaxTaps, MaxFaults} \subseteq Nat
  /\ Window \in [Nudges -> Nat \X Nat]
  /\ {WeekLength, BatchLimit} \subseteq Nat \ {0}

\* Values of a reminder row besides the fire time of an unsent one.
NoRow == -1
Sent == -2
Never == -1

WeekOf(t) == t \div WeekLength
Weeks == {WeekOf(t) : t \in Time}

\* What a sweep has one message for: a saved event, this week's digest, a nudge.
Slots(k) == CASE k = "reminders" -> Users \X Events
              [] k = "digest" -> Users \X Weeks
              [] OTHER -> Users \X {0}
Items(k) == IF k = "reminders" THEN Users \X Events ELSE Users \X {0}
AllItems == Users \X (Events \cup {0})
NoItem == <<0, 0>>

VARIABLES
  now,
  active,               \* events with status 'active'
  \* ref.users: notify_reminders, notify_digest, city_slug set, favorites_merged,
  \* last_app_open_at, and the weeks of last_digest_sent_at / *_nudge_at
  wantsReminders, wantsDigest, located, merged, openedAt, stamp,
  saved,                \* ref.user_favorites
  reminder,             \* ref.event_reminders: NoRow, Sent, or the unsent fire_at
  lane, sweep,          \* the flows that are scheduled, and where each is
  taps, faults,
  \* history, read by no action: messages users got, times a row became unsent,
  \* favourites taken out after the merge and not put back by hand
  got, armings, unsaved

account == <<wantsReminders, wantsDigest, located, merged, openedAt, stamp>>
vars == <<now, active, account, saved, reminder, lane, sweep, taps, faults, got, armings, unsaved>>

Resting == [pc |-> "idle", since |-> 0, todo |-> {}, item |-> NoItem,
            attempt |-> 1, willing |-> {}]

Init ==
  /\ now = 0
  /\ active = Events
  /\ wantsReminders = Users /\ wantsDigest = Users
  /\ located \in SUBSET Users /\ merged \in SUBSET Users
  /\ openedAt = [u \in Users |-> Never]
  /\ stamp = [k \in Sweeps \ {"reminders"} |-> [u \in Users |-> Never]]
  /\ saved = [u \in Users |-> {}]
  /\ reminder = [u \in Users |-> [e \in Events |-> NoRow]]
  /\ lane \in Lanes /\ sweep = [k \in Sweeps |-> Resting]
  /\ taps = 0 /\ faults = 0
  /\ got = [k \in Sweeps |-> [s \in Slots(k) |-> 0]]
  /\ armings = [u \in Users |-> [e \in Events |-> 0]]
  /\ unsaved = [u \in Users |-> {}]

-----------------------------------------------------------------------------
(* When to fire: Lead before the soonest start to come, else ClosingLead   *)
(* before the soonest end to come, else not at all.                        *)

Earliest(S) == CHOOSE t \in S : \A x \in S : t <= x
Later(a, b) == IF a > b THEN a ELSE b

StartsToCome(e) == {t \in {s.start : s \in Sessions[e]} : t >= now}
EndsToCome(e) == {t \in {s.end : s \in Sessions[e]} \ {Open} : t > now}

FireAt(e) ==
  CASE StartsToCome(e) # {} -> Later(now, Earliest(StartsToCome(e)) - Lead)
    [] StartsToCome(e) = {} /\ EndsToCome(e) # {} ->
         Later(now + Soon, Earliest(EndsToCome(e)) - ClosingLead)
    [] OTHER -> NoRow

Unsent(row) == row \notin {NoRow, Sent}

\* Past its grace a reminder is noise: neither sent nor left armed.
Stale(row) == row + Grace < now

\* set_reminder: the user's bell, armed again even after it was sent.
Rearm(row, fire) == IF fire = NoRow THEN row ELSE fire

\* Fault: a bulk arming overwrites like a bell.
ArmAnyway(row, fire) == Rearm(row, fire)

\* arm_reminder_if_unsent: insert, or move an unsent one.
ArmIfUnsent(row, fire) == IF fire = NoRow \/ row = Sent THEN row ELSE fire

\* The rows of one user after a request that arms the events of anew afresh.
PutReminders(u, rows, anew) ==
  /\ reminder' = [reminder EXCEPT ![u] = rows]
  /\ armings' = [armings EXCEPT ![u] = [e \in Events |->
       IF e \in anew /\ Unsent(rows[e]) THEN @[e] + 1 ELSE @[e]]]

Rowless(u) == {e \in Events : reminder[u][e] = NoRow}

-----------------------------------------------------------------------------
(* The user's requests.                                                    *)

Tap == taps < MaxTaps /\ taps' = taps + 1

\* POST /favorites on: save, and arm the reminder unless reminders are muted.
Heart(u, e) ==
  /\ Tap
  /\ saved' = [saved EXCEPT ![u] = @ \cup {e}]
  /\ unsaved' = [unsaved EXCEPT ![u] = @ \ {e}]
  /\ IF u \in wantsReminders
     THEN PutReminders(u, [reminder[u] EXCEPT ![e] = ArmIfUnsent(@, FireAt(e))],
                       Rowless(u) \cap {e})
     ELSE UNCHANGED <<reminder, armings>>
  /\ UNCHANGED <<lane, now, active, account, sweep, faults, got>>

\* POST /favorites off: drop the favourite and its reminder.
Unheart(u, e) ==
  /\ Tap
  /\ saved' = [saved EXCEPT ![u] = @ \ {e}]
  /\ unsaved' = IF u \in merged THEN [unsaved EXCEPT ![u] = @ \cup {e}] ELSE unsaved
  /\ PutReminders(u, [reminder[u] EXCEPT ![e] = NoRow], {})
  /\ UNCHANGED <<lane, now, active, account, sweep, faults, got>>

\* POST /reminders on, whatever the state of the favourite and of the mute.
RingBell(u, e) ==
  /\ Tap
  /\ PutReminders(u, [reminder[u] EXCEPT ![e] = Rearm(@, FireAt(e))],
                  IF Unsent(reminder[u][e]) THEN {} ELSE {e})
  /\ UNCHANGED <<lane, now, active, account, saved, sweep, faults, got, unsaved>>

\* POST /reminders off.
SilenceBell(u, e) ==
  /\ Tap
  /\ PutReminders(u, [reminder[u] EXCEPT ![e] = NoRow], {})
  /\ UNCHANGED <<lane, now, active, account, saved, sweep, faults, got, unsaved>>

\* POST /settings notify_reminders=false: delivery is gated, rows stay.
MuteReminders(u) ==
  /\ Tap
  /\ u \in wantsReminders
  /\ wantsReminders' = wantsReminders \ {u}
  /\ UNCHANGED <<lane, now, active, wantsDigest, located, merged, openedAt, stamp,
                 saved, reminder, sweep, faults, got, armings, unsaved>>

\* POST /settings notify_reminders=true, also when it is true already: every
\* favourite with something to come is armed unless its reminder was sent.
UnmuteReminders(u) ==
  /\ Tap
  /\ wantsReminders' = wantsReminders \cup {u}
  /\ PutReminders(u, [e \in Events |->
       IF e \in saved[u] THEN ArmIfUnsent(reminder[u][e], FireAt(e)) ELSE reminder[u][e]],
                  Rowless(u) \cap saved[u])
  /\ sweep' = [sweep EXCEPT !["reminders"].willing = @ \cup {u}]
  /\ UNCHANGED <<lane, now, active, wantsDigest, located, merged, openedAt, stamp,
                 saved, faults, got, unsaved>>

\* /digest in the bot, or POST /settings notify_digest: flip.
ToggleDigest(u) ==
  /\ Tap
  /\ wantsDigest' = IF u \in wantsDigest THEN wantsDigest \ {u} ELSE wantsDigest \cup {u}
  /\ sweep' = [k \in Sweeps |->
       IF k # "reminders" /\ u \notin wantsDigest
       THEN [sweep[k] EXCEPT !.willing = @ \cup {u}] ELSE sweep[k]]
  /\ UNCHANGED <<lane, now, active, wantsReminders, located, merged, openedAt, stamp,
                 saved, reminder, faults, got, armings, unsaved>>

\* POST /location or the city switcher.
PickCity(u) ==
  /\ Tap
  /\ u \notin located
  /\ located' = located \cup {u}
  /\ UNCHANGED <<lane, now, active, wantsReminders, wantsDigest, merged, openedAt, stamp,
                 saved, reminder, sweep, faults, got, armings, unsaved>>

\* Fault: the device's favourites are merged on every open.
MergeAlways(u, local) == IF local # {} THEN local ELSE {}

\* _claim_favorites_merge: the first open that brings favourites adds them.
MergedIn(u, local) == IF u \in merged THEN {} ELSE local

\* POST /bootstrap (or /favorites/sync): note the open, merge this device's
\* favourites once per account.  A merged favourite arms no reminder.
OpenApp(u, local) ==
  /\ Tap
  /\ openedAt' = [openedAt EXCEPT ![u] = now]
  /\ saved' = [saved EXCEPT ![u] = @ \cup MergedIn(u, local)]
  /\ merged' = IF local # {} THEN merged \cup {u} ELSE merged
  /\ UNCHANGED <<lane, now, active, wantsReminders, wantsDigest, located, stamp,
                 reminder, sweep, faults, got, armings, unsaved>>

UserStep ==
  \E u \in Users :
    \/ MuteReminders(u) \/ UnmuteReminders(u) \/ ToggleDigest(u) \/ PickCity(u)
    \/ \E local \in SUBSET Events : OpenApp(u, local)
    \/ \E e \in Events : \/ Heart(u, e) \/ Unheart(u, e)
                         \/ RingBell(u, e) \/ SilenceBell(u, e)

-----------------------------------------------------------------------------
(* The clock, and the pipeline that ends an event.                         *)

Tick ==
  /\ now < MaxTime
  /\ \A k \in Sweeps : sweep[k].pc # "idle" => sweep[k].since = now
  /\ now' = now + 1
  /\ UNCHANGED <<lane, active, account, saved, reminder, sweep, taps, faults, got,
                 armings, unsaved>>

Withdraw(e) ==
  /\ e \in active
  /\ active' = active \ {e}
  /\ UNCHANGED <<lane, now, account, saved, reminder, sweep, taps, faults, got,
                 armings, unsaved>>

-----------------------------------------------------------------------------
(* The sweeps.                                                             *)

Willing(k) == IF k = "reminders" THEN wantsReminders ELSE wantsDigest

\* Fault: the due query forgets the mute.
DueWhoever ==
  {i \in Items("reminders") : LET row == reminder[i[1]][i[2]] IN
     Unsent(row) /\ row <= now /\ ~Stale(row) /\ i[2] \in active}

DueReminders ==
  {i \in Items("reminders") : LET row == reminder[i[1]][i[2]] IN
     /\ Unsent(row) /\ row <= now /\ ~Stale(row)
     /\ i[1] \in wantsReminders
     /\ i[2] \in active}

\* opted_in_users; a digest of an earlier week lets the user through.
DueDigest ==
  {i \in Items("digest") : /\ i[1] \in wantsDigest
                           /\ stamp["digest"][i[1]] < WeekOf(now)}

\* _due, _due_d4: quiet since the last open for the window's hours, nothing saved.
DueNudge(k) ==
  {i \in Items(k) : /\ stamp[k][i[1]] = Never
                    /\ i[1] \in wantsDigest \cap located
                    /\ openedAt[i[1]] # Never
                    /\ now - openedAt[i[1]] > Window[k][1]
                    /\ now - openedAt[i[1]] < Window[k][2]
                    /\ saved[i[1]] = {}}

Due(k) == CASE k = "reminders" -> DueReminders
            [] k = "digest" -> DueDigest
            [] OTHER -> DueNudge(k)

\* The due query and its LIMIT (which rows it keeps is the database's choice);
\* the digest has no limit.
Batches(k) ==
  IF k = "digest" \/ Cardinality(Due(k)) <= BatchLimit THEN {Due(k)}
  ELSE {T \in SUBSET Due(k) : Cardinality(T) = BatchLimit}

\* Fault: nobody clears the bells of the muted and of the withdrawn.
ReapDueOnly ==
  reminder' = [u \in Users |-> [e \in Events |->
    IF Unsent(reminder[u][e]) /\ Stale(reminder[u][e]) /\ u \in wantsReminders /\ e \in active
    THEN Sent ELSE reminder[u][e]]]

\* reap_stale_reminders, for everyone.
ReapStale ==
  reminder' = [u \in Users |-> [e \in Events |->
    IF Unsent(reminder[u][e]) /\ Stale(reminder[u][e]) THEN Sent ELSE reminder[u][e]]]

StartSweep(k) ==
  /\ sweep[k].pc = "idle"
  /\ k \in lane
  /\ IF k = "reminders" THEN ReapStale ELSE UNCHANGED reminder
  /\ \E batch \in Batches(k) :
       sweep' = [sweep EXCEPT ![k] =
         IF batch = {} THEN Resting
         ELSE [Resting EXCEPT !.pc = "loop", !.since = now, !.todo = batch,
                              !.willing = Willing(k)]]
  /\ UNCHANGED <<lane, now, active, account, saved, taps, faults, got, armings, unsaved>>

StartSend(k, i) ==
  /\ sweep[k].pc = "loop"
  /\ i \in sweep[k].todo
  /\ k = "digest" => i[1] \in located
  /\ sweep' = [sweep EXCEPT ![k] = [sweep[k] EXCEPT !.pc = "send", !.item = i, !.attempt = 1,
                                                    !.todo = @ \ {i}]]
  /\ UNCHANGED <<lane, now, active, account, saved, reminder, taps, faults, got, armings, unsaved>>

\* No city, or nothing to show this week: the user stays unstamped.
SkipItem(k, i) ==
  /\ sweep[k].pc = "loop" /\ k # "reminders"
  /\ i \in sweep[k].todo
  /\ sweep' = [sweep EXCEPT ![k].todo = @ \ {i}]
  /\ UNCHANGED <<lane, now, active, account, saved, reminder, taps, faults, got, armings, unsaved>>

\* The message the user gets counts for the event, the week, or the nudge.
Deliver(k) ==
  LET i == sweep[k].item
      s == IF k = "digest" THEN <<i[1], WeekOf(now)>> ELSE i
  IN got' = [got EXCEPT ![k][s] = @ + 1]

NextItem(k) == [sweep EXCEPT ![k] = [@ EXCEPT !.pc = "loop", !.item = NoItem, !.attempt = 1]]
ToStamp(k) == [sweep EXCEPT ![k] = [@ EXCEPT !.pc = "stamp", !.attempt = 1]]

\* The picture, or the text after the picture was rejected, is accepted.
SendAccepted(k) ==
  /\ sweep[k].pc = "send"
  /\ Deliver(k)
  /\ sweep' = ToStamp(k)
  /\ UNCHANGED <<lane, now, active, account, saved, reminder, taps, faults, armings, unsaved>>

\* Both forms are rejected for good (the user blocked the bot).
SendRejected(k) ==
  /\ sweep[k].pc = "send"
  /\ sweep' = ToStamp(k)
  /\ UNCHANGED <<lane, now, active, account, saved, reminder, taps, faults, got, armings, unsaved>>

\* 429 or 5xx: once more after a pause, then left for the next sweep.
SendFlooded(k) ==
  /\ sweep[k].pc = "send"
  /\ sweep' = IF sweep[k].attempt = 1 THEN [sweep EXCEPT ![k].attempt = 2] ELSE NextItem(k)
  /\ UNCHANGED <<lane, now, active, account, saved, reminder, taps, faults, got, armings, unsaved>>

\* The connection breaks, before or after Telegram took the message: the
\* exception ends the item unstamped.
SendLost(k, arrived) ==
  /\ sweep[k].pc = "send"
  /\ faults < MaxFaults
  /\ faults' = faults + 1
  /\ IF arrived THEN Deliver(k) ELSE UNCHANGED got
  /\ sweep' = NextItem(k)
  /\ UNCHANGED <<lane, now, active, account, saved, reminder, taps, armings, unsaved>>

\* mark_sent and mark_digest_sent name the key alone: whatever row is there now
\* is stamped.
Stamp(k) ==
  LET u == sweep[k].item[1]
      e == sweep[k].item[2]
  IN /\ sweep[k].pc = "stamp"
     /\ IF k = "reminders"
        THEN /\ reminder' = [reminder EXCEPT ![u][e] = IF @ = NoRow THEN NoRow ELSE Sent]
             /\ UNCHANGED stamp
        ELSE /\ stamp' = [stamp EXCEPT ![k][u] = WeekOf(now)]
             /\ UNCHANGED reminder
     /\ sweep' = NextItem(k)
     /\ UNCHANGED <<lane, now, active, wantsReminders, wantsDigest, located, merged,
                    openedAt, saved, taps, faults, got, armings, unsaved>>

EndSweep(k) ==
  /\ sweep[k].pc = "loop" /\ sweep[k].todo = {}
  /\ sweep' = [sweep EXCEPT ![k] = Resting]
  /\ UNCHANGED <<lane, now, active, account, saved, reminder, taps, faults, got, armings, unsaved>>

\* A restart, the flow's timeout, or an error in a session.
LoseSweep(k) ==
  /\ sweep[k].pc # "idle"
  /\ faults < MaxFaults
  /\ faults' = faults + 1
  /\ sweep' = [sweep EXCEPT ![k] = Resting]
  /\ UNCHANGED <<lane, now, active, account, saved, reminder, taps, got, armings, unsaved>>

\* A sweep that was started goes on: a post ends by its time limit.
Proceed(k) ==
  \/ \E i \in Items(k) : StartSend(k, i) \/ SkipItem(k, i)
  \/ SendAccepted(k) \/ SendRejected(k) \/ SendFlooded(k)
  \/ \E arrived \in BOOLEAN : SendLost(k, arrived)
  \/ Stamp(k)
  \/ EndSweep(k)

Next ==
  \/ UserStep
  \/ Tick
  \/ \E e \in Events : Withdraw(e)
  \/ \E k \in Sweeps : StartSweep(k) \/ Proceed(k) \/ LoseSweep(k)

Spec == Init /\ [][Next]_vars

\* The scheduler starts the reminders every minute, and time passes.
FairSpec ==
  /\ Spec
  /\ WF_vars(Tick)
  /\ WF_vars(StartSweep("reminders"))
  /\ \A k \in Sweeps : WF_vars(Proceed(k))

-----------------------------------------------------------------------------
(* Properties.                                                             *)

\* A user is reminded of an event at most once for each time the reminder was armed anew:
\* switching the notifications on and a second heart bring no delivered reminder back, and
\* a cancellation during the send adds none.  The digest comes at most once a week, each
\* nudge at most once ever.  Lost answers and disrupted sweeps may add one each.
OnceEach ==
  /\ \A u \in Users, e \in Events : got["reminders"][<<u, e>>] <= armings[u][e] + faults
  /\ \A k \in Sweeps \ {"reminders"} : \A s \in Slots(k) : got[k][s] <= 1 + faults

\* Whoever gets a message wanted that kind of message at some moment since its sweep read
\* its list; and a reminder goes out in its grace (and the tick its sweep straddles) or not
\* at all: unmuting, or a worker that was down, sets off no burst of old ones.
WantedInTime ==
  [][/\ \A k \in Sweeps : got'[k] # got[k] => sweep[k].item[1] \in sweep[k].willing
     /\ \A u \in Users, e \in Events :
          got'["reminders"][<<u, e>>] > got["reminders"][<<u, e>>] /\ Unsent(reminder[u][e])
            => now <= reminder[u][e] + Grace + 1]_vars

\* A favourite that was removed after the account's merge comes back by the
\* user's hand alone: no late device resurrects it.
NotResurrected == \A u \in Users : saved[u] \cap unsaved[u] = {}

\* A bell does not stay armed for ever: it is sent, cancelled or cleared, for a
\* muted user and for a withdrawn event too.
BellSettles ==
  \A u \in Users, e \in Events :
    "reminders" \in lane /\ Unsent(reminder[u][e]) ~> ~Unsent(reminder[u][e])

-----------------------------------------------------------------------------
(* The inductive invariant behind OnceEach and NotResurrected.             *)

\* Every variable has its type; of a reminder it is enough that there is one value for
\* each user and event.
TypeOK ==
  /\ now \in Time
  /\ {wantsReminders, wantsDigest, merged} \subseteq SUBSET Users
  /\ stamp \in [Sweeps \ {"reminders"} -> [Users -> Nat \cup {Never}]]
  /\ saved \in [Users -> SUBSET Events] /\ unsaved \in [Users -> SUBSET Events]
  /\ reminder = [u \in Users |-> [e \in Events |-> reminder[u][e]]]
  /\ sweep \in [Sweeps -> [pc : {"idle", "loop", "send", "stamp"}, since : Time,
                           todo : SUBSET AllItems, item : AllItems \cup {NoItem},
                           attempt : {1, 2}, willing : SUBSET Users]]
  /\ faults \in Nat
  /\ DOMAIN got = Sweeps /\ \A k \in Sweeps : got[k] \in [Slots(k) -> Nat]
  /\ armings \in [Users -> [Events -> Nat]]

\* A sweep handles its own items, one at a time.
OwnItems ==
  \A k \in Sweeps :
    /\ sweep[k].todo \subseteq Items(k)
    /\ sweep[k].pc \in {"send", "stamp"} => sweep[k].item \in Items(k) \ sweep[k].todo
    /\ sweep[k].pc \in {"idle", "loop"} => sweep[k].item = NoItem
    /\ sweep[k].pc = "idle" => sweep[k].todo = {}

\* What a sweep has read and not sent yet, and what it sent and has not stamped yet.
Reading(k, i) == i \in sweep[k].todo \/ (sweep[k].pc = "send" /\ sweep[k].item = i)
Stamping(k, i) == sweep[k].pc = "stamp" /\ sweep[k].item = i

\* One more message may come of a reminder that is armed, or was when the sweep read it;
\* in week w, of a user whose last digest is older; of a user without the nudge's stamp.
MayRemind(u, e) ==
  Reading("reminders", <<u, e>>)
    \/ (Unsent(reminder[u][e]) /\ ~Stamping("reminders", <<u, e>>))
MayDigest(u, w) ==
  stamp["digest"][u] < w /\ WeekOf(now) <= w /\ ~Stamping("digest", <<u, 0>>)
MayNudge(k, u) == stamp[k][u] = Never /\ ~Stamping(k, <<u, 0>>)

Owed(may) == IF may THEN 1 ELSE 0

\* What came and what may come is within what was armed, or one.
RemindBudget ==
  \A u \in Users, e \in Events :
    got["reminders"][<<u, e>>] + Owed(MayRemind(u, e)) <= armings[u][e] + faults
DigestBudget ==
  \A u \in Users, w \in Weeks : got["digest"][<<u, w>>] + Owed(MayDigest(u, w)) <= 1 + faults
NudgeBudget ==
  \A k \in Nudges, u \in Users : got[k][<<u, 0>>] + Owed(MayNudge(k, u)) <= 1 + faults
Budget == RemindBudget /\ DigestBudget /\ NudgeBudget

\* What a sweep has read is still unstamped, and no week has its digests before it comes.
Unstamped ==
  /\ \A u \in Users :
       /\ Reading("digest", <<u, 0>>) => stamp["digest"][u] < WeekOf(now)
       /\ \A w \in Weeks : WeekOf(now) < w => got["digest"][<<u, w>>] = 0
  /\ \A k \in Nudges, u \in Users : Reading(k, <<u, 0>>) => stamp[k][u] = Never

\* Only after the merge is anything taken out for good.
AfterMerge == \A u \in Users : unsaved[u] # {} => u \in merged

IInv == TypeOK /\ OwnItems /\ Budget /\ Unstamped /\ AfterMerge /\ NotResurrected

-----------------------------------------------------------------------------
(* The inductive invariant behind WantedInTime, beside IInv.               *)

\* Whoever a sweep has read wanted its messages since then.
Wanted ==
  \A k \in Sweeps : \A i \in Items(k) : Reading(k, i) => i[1] \in sweep[k].willing

\* A sweep straddles one tick at most, and what it has read was in its grace when it began,
\* or was armed for later since.
InGrace ==
  /\ reminder \in [Users -> [Events -> Int]]
  /\ \A k \in Sweeps : sweep[k].pc # "idle" => now \in {sweep[k].since, sweep[k].since + 1}
  /\ \A u \in Users, e \in Events :
       Reading("reminders", <<u, e>>) /\ Unsent(reminder[u][e])
         => sweep["reminders"].since <= reminder[u][e] + Grace

TInv == Wanted /\ InGrace
=============================================================================
