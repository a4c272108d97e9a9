---------------------------- MODULE OutreachProofs ----------------------------
(***************************************************************************)
(* That nobody gets a message of the outreach twice, for any number of     *)
(* users, events, sessions, requests and faults, that whoever gets one     *)
(* wanted it and gets it in time, and that no late device brings a removed *)
(* favourite back.                                                         *)
(***************************************************************************)
EXTENDS Outreach, WellFoundedInduction, TLAPS

\* What each kind of sweep handles and counts.
LEMMA Kinds ==
  /\ Sweeps = {"reminders", "digest", "welcome", "d4"} /\ Nudges = {"welcome", "d4"}
  /\ Slots("reminders") = Users \X Events /\ Items("reminders") = Users \X Events
  /\ Slots("digest") = Users \X Weeks /\ Items("digest") = Users \X {0}
  /\ \A k \in Nudges : Slots(k) = Users \X {0} /\ Items(k) = Users \X {0}
  /\ \A k \in Sweeps : Items(k) \subseteq AllItems
  BY DEF Sweeps, Nudges, Slots, Items, AllItems

\* Weeks are numbers that follow the clock.
LEMMA WeeksPass ==
  /\ WeekLength \in Nat \ {0} /\ MaxTime \in Nat
  /\ \A t \in Nat : WeekOf(t) \in Nat
  /\ \A t \in Nat : WeekOf(t) <= WeekOf(t + 1)
  /\ \A t \in Time : WeekOf(t) \in Weeks
  /\ Weeks \subseteq Nat
<1>1. WeekLength \in Nat \ {0} /\ MaxTime \in Nat
  BY OutreachAssumption DEF OutreachAssumption
<1>2. ASSUME NEW t \in Nat PROVE WeekOf(t) \in Nat
  BY <1>1 DEF WeekOf
<1>3. ASSUME NEW t \in Nat PROVE WeekOf(t) <= WeekOf(t + 1)
  BY <1>1 DEF WeekOf
<1>4. Time \subseteq Nat
  BY <1>1 DEF Time
<1>5. QED
  BY <1>1, <1>2, <1>3, <1>4 DEF Weeks

-----------------------------------------------------------------------------
(* What a step does to the budgets.  Calm: it reads nobody and sends       *)
(* nothing, and forgets a stamp due only by a fault.                       *)

ArmedAnew ==
  \A u \in Users, e \in Events :
    /\ armings'[u][e] >= armings[u][e]
    /\ Unsent(reminder'[u][e]) /\ ~Unsent(reminder[u][e]) => armings'[u][e] >= armings[u][e] + 1

ReadsNobody == \A k \in Sweeps : \A i \in Items(k) : Reading(k, i)' => Reading(k, i)
KeepsStamps ==
  \A k \in Sweeps : \A i \in Items(k) :
    (Stamping(k, i) => Stamping(k, i)') \/ faults' >= faults + 1

\* The counters of the messages are numbers.
LEMMA GotType ==
  ASSUME TypeOK
  PROVE  /\ \A u \in Users, e \in Events : got["reminders"][<<u, e>>] \in Nat
         /\ \A u \in Users, w \in Weeks : got["digest"][<<u, w>>] \in Nat
         /\ \A k \in Nudges, u \in Users : got[k][<<u, 0>>] \in Nat
<1>1. \A k \in Sweeps : got[k] \in [Slots(k) -> Nat]
  BY DEF TypeOK
<1>2. got["reminders"] \in [Users \X Events -> Nat] /\ got["digest"] \in [Users \X Weeks -> Nat]
  BY <1>1, Kinds
<1>3. \A k \in Nudges : got[k] \in [Users \X {0} -> Nat]
  BY <1>1, Kinds
<1>4. QED
  BY <1>2, <1>3

\* A calm step keeps the budgets.
LEMMA Calm ==
  ASSUME TypeOK, TypeOK', Budget, Unstamped, UNCHANGED <<now, stamp, got>>, faults' >= faults,
         ArmedAnew, ReadsNobody, KeepsStamps
  PROVE  Budget' /\ Unstamped'
<1>1. faults \in Nat /\ faults' \in Nat
  BY DEF TypeOK
<1>2. RemindBudget'
  <2> SUFFICES ASSUME NEW u \in Users, NEW e \in Events
               PROVE  got["reminders"][<<u, e>>] + Owed(MayRemind(u, e)')
                        <= armings'[u][e] + faults'
    BY DEF RemindBudget
  <2>1. got["reminders"][<<u, e>>] + Owed(MayRemind(u, e)) <= armings[u][e] + faults
    BY DEF Budget, RemindBudget
  <2>2. /\ got["reminders"][<<u, e>>] \in Nat
        /\ armings[u][e] \in Nat /\ armings'[u][e] \in Nat /\ armings'[u][e] >= armings[u][e]
    BY GotType DEF TypeOK, ArmedAnew
  <2>3. CASE MayRemind(u, e)' /\ ~MayRemind(u, e)
    <3>1. "reminders" \in Sweeps /\ <<u, e>> \in Items("reminders")
      BY Kinds
    <3>2. ~Reading("reminders", <<u, e>>)'
      BY <2>3, <3>1 DEF MayRemind, ReadsNobody
    <3>3. Unsent(reminder'[u][e]) /\ ~Stamping("reminders", <<u, e>>)'
      BY <2>3, <3>2 DEF MayRemind
    <3>4. CASE Unsent(reminder[u][e])
      <4>1. Stamping("reminders", <<u, e>>)
        BY <2>3, <3>4 DEF MayRemind
      <4>2. faults' >= faults + 1
        BY <3>1, <3>3, <4>1 DEF KeepsStamps
      <4>3. QED
        BY <1>1, <2>1, <2>2, <2>3, <4>2 DEF Owed
    <3>5. CASE ~Unsent(reminder[u][e])
      <4>1. armings'[u][e] >= armings[u][e] + 1
        BY <3>3, <3>5 DEF ArmedAnew
      <4>2. QED
        BY <1>1, <2>1, <2>2, <2>3, <4>1 DEF Owed
    <3>6. QED
      BY <3>4, <3>5
  <2>4. CASE ~(MayRemind(u, e)' /\ ~MayRemind(u, e))
    BY <1>1, <2>1, <2>2, <2>4 DEF Owed
  <2>5. QED
    BY <2>3, <2>4
<1>3. DigestBudget'
  <2> SUFFICES ASSUME NEW u \in Users, NEW w \in Weeks
               PROVE  got["digest"][<<u, w>>] + Owed(MayDigest(u, w)') <= 1 + faults'
    BY DEF DigestBudget
  <2>1. got["digest"][<<u, w>>] + Owed(MayDigest(u, w)) <= 1 + faults
    BY DEF Budget, DigestBudget
  <2>2. got["digest"][<<u, w>>] \in Nat
    BY GotType
  <2>3. "digest" \in Sweeps /\ <<u, 0>> \in Items("digest")
    BY Kinds
  <2>4. MayDigest(u, w)' => MayDigest(u, w) \/ faults' >= faults + 1
    BY <2>3 DEF MayDigest, KeepsStamps, WeekOf
  <2>5. QED
    BY <1>1, <2>1, <2>2, <2>4 DEF Owed
<1>4. NudgeBudget'
  <2> SUFFICES ASSUME NEW k \in Nudges, NEW u \in Users
               PROVE  got[k][<<u, 0>>] + Owed(MayNudge(k, u)') <= 1 + faults'
    BY DEF NudgeBudget
  <2>1. got[k][<<u, 0>>] + Owed(MayNudge(k, u)) <= 1 + faults
    BY DEF Budget, NudgeBudget
  <2>2. got[k][<<u, 0>>] \in Nat
    BY GotType
  <2>3. k \in Sweeps /\ <<u, 0>> \in Items(k)
    BY Kinds
  <2>4. MayNudge(k, u)' => MayNudge(k, u) \/ faults' >= faults + 1
    BY <2>3 DEF MayNudge, KeepsStamps
  <2>5. QED
    BY <1>1, <2>1, <2>2, <2>4 DEF Owed
<1>5. Unstamped'
  <2>1. \A u \in Users : <<u, 0>> \in Items("digest") /\ "digest" \in Sweeps
    BY Kinds
  <2>2. \A k \in Nudges, u \in Users : <<u, 0>> \in Items(k) /\ k \in Sweeps
    BY Kinds
  <2>3. \A u \in Users : Reading("digest", <<u, 0>>)' => Reading("digest", <<u, 0>>)
    BY <2>1 DEF ReadsNobody
  <2>4. \A k \in Nudges, u \in Users : Reading(k, <<u, 0>>)' => Reading(k, <<u, 0>>)
    BY <2>2 DEF ReadsNobody
  <2>5. \A u \in Users : Reading("digest", <<u, 0>>)' => stamp'["digest"][u] < WeekOf(now')
    BY <2>3 DEF Unstamped
  <2>6. \A u \in Users, w \in Weeks : WeekOf(now') < w => got'["digest"][<<u, w>>] = 0
    BY DEF Unstamped
  <2>7. \A k \in Nudges, u \in Users : Reading(k, <<u, 0>>)' => stamp'[k][u] = Never
    BY <2>4 DEF Unstamped
  <2>8. QED
    BY <2>5, <2>6, <2>7 DEF Unstamped
<1>6. QED
  BY <1>2, <1>3, <1>4, <1>5 DEF Budget

-----------------------------------------------------------------------------
(* Types: requests change rows and favourites, a flow its own place.       *)

\* A request gives every user still one value of each row, and counts the armings.
LEMMA RowsType ==
  ASSUME TypeOK, NEW u \in Users, NEW rows, NEW anew, rows = [e \in Events |-> rows[e]],
         PutReminders(u, rows, anew)
  PROVE  /\ reminder' = [v \in Users |-> [e \in Events |-> reminder'[v][e]]]
         /\ armings' \in [Users -> [Events -> Nat]]
<1>1. reminder = [v \in Users |-> [e \in Events |-> reminder[v][e]]]
  BY DEF TypeOK
<1>2. reminder' = [v \in Users |-> [e \in Events |-> reminder'[v][e]]]
  BY <1>1 DEF PutReminders
<1>3. armings \in [Users -> [Events -> Nat]]
  BY DEF TypeOK
<1>4. [e \in Events |-> IF e \in anew /\ Unsent(rows[e]) THEN armings[u][e] + 1
                         ELSE armings[u][e]] \in [Events -> Nat]
  BY <1>3
<1>5. armings' \in [Users -> [Events -> Nat]]
  BY <1>3, <1>4 DEF PutReminders
<1>6. QED
  BY <1>2, <1>5

\* What a request arms, it counts.
LEMMA RowsArmed ==
  ASSUME TypeOK, NEW u \in Users, NEW rows, NEW anew, PutReminders(u, rows, anew),
         \A e \in Events : Unsent(rows[e]) => Unsent(reminder[u][e]) \/ e \in anew
  PROVE  ArmedAnew
<1>1. armings \in [Users -> [Events -> Nat]]
  BY DEF TypeOK
<1>2. reminder = [v \in Users |-> [e \in Events |-> reminder[v][e]]]
  BY DEF TypeOK
<1>3. ASSUME NEW v \in Users, NEW e \in Events
      PROVE  /\ armings'[v][e] >= armings[v][e]
             /\ Unsent(reminder'[v][e]) /\ ~Unsent(reminder[v][e])
                  => armings'[v][e] >= armings[v][e] + 1
  <2>1. armings[v][e] \in Nat
    BY <1>1
  <2>2. CASE v = u
    <3>1. reminder'[v][e] = rows[e]
      BY <1>2, <2>2 DEF PutReminders
    <3>2. armings'[v][e] = IF e \in anew /\ Unsent(rows[e]) THEN armings[v][e] + 1
                           ELSE armings[v][e]
      BY <1>1, <2>2 DEF PutReminders
    <3>3. QED
      BY <2>1, <2>2, <3>1, <3>2
  <2>3. CASE v # u
    BY <1>1, <1>2, <2>1, <2>3 DEF PutReminders
  <2>4. QED
    BY <2>2, <2>3
<1>4. QED
  BY <1>3 DEF ArmedAnew

\* The flows are where they were: what a request does to willing is nothing to the items.
SameFlow ==
  \A k \in Sweeps : /\ sweep'[k].pc = sweep[k].pc
                    /\ sweep'[k].todo = sweep[k].todo
                    /\ sweep'[k].item = sweep[k].item

FlowType == [Sweeps -> [pc : {"idle", "loop", "send", "stamp"}, since : Time,
                        todo : SUBSET AllItems, item : AllItems \cup {NoItem},
                        attempt : {1, 2}, willing : SUBSET Users]]

\* A user's request, and the end of an event, keep the invariant.
LEMMA RequestKeeps ==
  ASSUME TypeOK, OwnItems, Budget, Unstamped, TypeOK',
         UNCHANGED <<now, stamp, got, faults>>, SameFlow, ArmedAnew
  PROVE  OwnItems' /\ Budget' /\ Unstamped'
<1>1. OwnItems'
  BY DEF OwnItems, SameFlow
<1>2. ReadsNobody
  BY DEF ReadsNobody, Reading, SameFlow
<1>3. KeepsStamps
  BY DEF KeepsStamps, Stamping, SameFlow
<1>4. faults \in Nat
  BY DEF TypeOK
<1>5. QED
  BY <1>1, <1>2, <1>3, <1>4, Calm

\* Whom a request makes willing changes the flows in nothing else.
LEMMA WillingType ==
  ASSUME TypeOK, NEW u \in Users
  PROVE  /\ sweep' = [sweep EXCEPT !["reminders"].willing = @ \cup {u}]
              => sweep' \in FlowType /\ SameFlow
         /\ sweep' = [k \in Sweeps |->
                        IF k # "reminders" /\ u \notin wantsDigest
                        THEN [sweep[k] EXCEPT !.willing = @ \cup {u}] ELSE sweep[k]]
              => sweep' \in FlowType /\ SameFlow
<1>1. sweep \in FlowType
  BY DEF TypeOK, FlowType
<1>2. QED
  BY <1>1, Kinds DEF FlowType, SameFlow

\* The parts of the types that a request touches.
RowsOK == /\ reminder' = [v \in Users |-> [e \in Events |-> reminder'[v][e]]]
          /\ armings' \in [Users -> [Events -> Nat]]
WantsOK == wantsReminders' \subseteq Users /\ wantsDigest' \subseteq Users
SavesOK == /\ merged' \subseteq Users
           /\ saved' \in [Users -> SUBSET Events] /\ unsaved' \in [Users -> SUBSET Events]
           /\ AfterMerge' /\ NotResurrected'

\* Every request keeps the types, the favourites that were taken out and the flows, and
\* counts what it arms.
LEMMA RequestParts ==
  ASSUME TypeOK, AfterMerge, NotResurrected, UserStep
  PROVE  /\ WantsOK /\ RowsOK /\ SavesOK /\ ArmedAnew /\ SameFlow /\ sweep' \in FlowType
         /\ UNCHANGED <<now, stamp, got, faults>>
<1> PICK u \in Users :
      \/ MuteReminders(u) \/ UnmuteReminders(u) \/ ToggleDigest(u) \/ PickCity(u)
      \/ \E local \in SUBSET Events : OpenApp(u, local)
      \/ \E e \in Events : \/ Heart(u, e) \/ Unheart(u, e)
                           \/ RingBell(u, e) \/ SilenceBell(u, e)
  BY DEF UserStep
<1>1. /\ sweep \in FlowType /\ merged \subseteq Users
      /\ saved \in [Users -> SUBSET Events] /\ unsaved \in [Users -> SUBSET Events]
      /\ reminder = [v \in Users |-> [e \in Events |-> reminder[v][e]]]
      /\ armings \in [Users -> [Events -> Nat]]
  BY DEF TypeOK, FlowType
<1>2. UNCHANGED sweep => sweep' \in FlowType /\ SameFlow
  BY <1>1 DEF SameFlow
<1>3. UNCHANGED <<reminder, armings>> => RowsOK /\ ArmedAnew
  BY <1>1 DEF RowsOK, ArmedAnew
<1>4. UNCHANGED <<merged, saved, unsaved>> => SavesOK
  BY <1>1 DEF SavesOK, AfterMerge, NotResurrected
<1>a. WantsOK
  BY DEF TypeOK, WantsOK, account, MuteReminders, UnmuteReminders, ToggleDigest, PickCity,
         OpenApp, Heart, Unheart, RingBell, SilenceBell
<1>5. CASE MuteReminders(u)
  BY <1>a, <1>2, <1>3, <1>4, <1>5 DEF MuteReminders
<1>6. CASE UnmuteReminders(u)
  <2> DEFINE rows == [e \in Events |->
        IF e \in saved[u] THEN ArmIfUnsent(reminder[u][e], FireAt(e)) ELSE reminder[u][e]]
  <2>1. PutReminders(u, rows, Rowless(u) \cap saved[u])
    BY <1>6 DEF UnmuteReminders
  <2>2. \A e \in Events : Unsent(rows[e]) => Unsent(reminder[u][e]) \/ e \in Rowless(u) \cap saved[u]
    BY DEF ArmIfUnsent, Unsent, Rowless
  <2>3. rows = [e \in Events |-> rows[e]]
    OBVIOUS
  <2> HIDE DEF rows
  <2>4. RowsOK /\ ArmedAnew
    BY <2>1, <2>2, <2>3, RowsType, RowsArmed DEF RowsOK
  <2>5. sweep' \in FlowType /\ SameFlow
    BY <1>6, WillingType DEF UnmuteReminders
  <2>6. QED
    BY <1>a, <1>4, <1>6, <2>4, <2>5 DEF UnmuteReminders
<1>7. CASE ToggleDigest(u)
  <2>1. sweep' \in FlowType /\ SameFlow
    BY <1>7, WillingType DEF ToggleDigest
  <2>2. QED
    BY <1>a, <1>3, <1>4, <1>7, <2>1 DEF ToggleDigest
<1>8. CASE PickCity(u)
  BY <1>a, <1>2, <1>3, <1>4, <1>8 DEF PickCity
<1>9. CASE \E local \in SUBSET Events : OpenApp(u, local)
  <2> PICK local \in SUBSET Events : OpenApp(u, local)
    BY <1>9
  <2>1. merged' = (IF local # {} THEN merged \cup {u} ELSE merged) /\ UNCHANGED unsaved
    BY DEF OpenApp
  <2>2. saved' = [saved EXCEPT ![u] = saved[u] \cup MergedIn(u, local)]
    BY <1>1 DEF OpenApp
  <2>3. MergedIn(u, local) \subseteq Events
    BY DEF MergedIn
  <2>4. u \notin merged => unsaved[u] = {}
    BY DEF AfterMerge
  <2>5. saved'[u] \cap unsaved[u] = {}
    BY <1>1, <2>2, <2>4 DEF MergedIn, NotResurrected
  <2>6. AfterMerge'
    BY <2>1 DEF AfterMerge
  <2>7. NotResurrected'
    BY <1>1, <2>1, <2>2, <2>5 DEF NotResurrected
  <2>8. SavesOK
    BY <1>1, <2>1, <2>2, <2>3, <2>6, <2>7 DEF SavesOK
  <2>9. QED
    BY <1>a, <1>2, <1>3, <2>8 DEF OpenApp
<1>10. CASE \E e \in Events : Heart(u, e)
  <2> PICK e \in Events : Heart(u, e)
    BY <1>10
  <2>1. SavesOK
    BY <1>1 DEF Heart, account, SavesOK, AfterMerge, NotResurrected
  <2> DEFINE rows == [reminder[u] EXCEPT ![e] = ArmIfUnsent(@, FireAt(e))]
  <2>2. CASE u \in wantsReminders
    <3>1. PutReminders(u, rows, Rowless(u) \cap {e})
      BY <2>2 DEF Heart, account
    <3>2. \A x \in Events : Unsent(rows[x]) => Unsent(reminder[u][x]) \/ x \in Rowless(u) \cap {e}
      BY <1>1 DEF ArmIfUnsent, Unsent, Rowless
    <3>3. rows = [x \in Events |-> rows[x]]
      BY <1>1
    <3> HIDE DEF rows
    <3>4. RowsOK /\ ArmedAnew
      BY <3>1, <3>2, <3>3, RowsType, RowsArmed DEF RowsOK
    <3>5. QED
      BY <1>a, <1>2, <2>1, <3>4 DEF Heart, account
  <2>3. CASE u \notin wantsReminders
    BY <1>a, <1>2, <1>3, <2>1, <2>3 DEF Heart, account
  <2>4. QED
    BY <2>2, <2>3
<1>11. CASE \E e \in Events : Unheart(u, e)
  <2> PICK e \in Events : Unheart(u, e)
    BY <1>11
  <2>1. SavesOK
    BY <1>1 DEF Unheart, account, SavesOK, AfterMerge, NotResurrected
  <2> DEFINE rows == [reminder[u] EXCEPT ![e] = NoRow]
  <2>2. PutReminders(u, rows, {})
    BY DEF Unheart
  <2>3. \A x \in Events : Unsent(rows[x]) => Unsent(reminder[u][x]) \/ x \in {}
    BY <1>1 DEF Unsent
  <2>4. rows = [x \in Events |-> rows[x]]
    BY <1>1
  <2> HIDE DEF rows
  <2>5. RowsOK /\ ArmedAnew
    BY <2>2, <2>3, <2>4, RowsType, RowsArmed DEF RowsOK
  <2>6. QED
    BY <1>a, <1>2, <2>1, <2>5 DEF Unheart, account
<1>12. CASE \E e \in Events : RingBell(u, e)
  <2> PICK e \in Events : RingBell(u, e)
    BY <1>12
  <2> DEFINE rows == [reminder[u] EXCEPT ![e] = Rearm(@, FireAt(e))]
             anew == IF Unsent(reminder[u][e]) THEN {} ELSE {e}
  <2>1. PutReminders(u, rows, anew)
    BY DEF RingBell
  <2>2. \A x \in Events : Unsent(rows[x]) => Unsent(reminder[u][x]) \/ x \in anew
    BY <1>1
  <2>3. rows = [x \in Events |-> rows[x]]
    BY <1>1
  <2> HIDE DEF rows, anew
  <2>4. RowsOK /\ ArmedAnew
    BY <2>1, <2>2, <2>3, RowsType, RowsArmed DEF RowsOK
  <2>5. QED
    BY <1>a, <1>2, <1>4, <2>4 DEF RingBell, account
<1>13. CASE \E e \in Events : SilenceBell(u, e)
  <2> PICK e \in Events : SilenceBell(u, e)
    BY <1>13
  <2> DEFINE rows == [reminder[u] EXCEPT ![e] = NoRow]
  <2>1. PutReminders(u, rows, {})
    BY DEF SilenceBell, account
  <2>2. \A x \in Events : Unsent(rows[x]) => Unsent(reminder[u][x]) \/ x \in {}
    BY <1>1 DEF Unsent
  <2>3. rows = [x \in Events |-> rows[x]]
    BY <1>1
  <2> HIDE DEF rows
  <2>4. RowsOK /\ ArmedAnew
    BY <2>1, <2>2, <2>3, RowsType, RowsArmed DEF RowsOK
  <2>5. QED
    BY <1>a, <1>2, <1>4, <2>4 DEF SilenceBell, account
<1>14. QED
  BY <1>a, <1>5, <1>6, <1>7, <1>8, <1>9, <1>10, <1>11, <1>12, <1>13

\* A request keeps the invariant.
LEMMA UserStepKeeps ==
  ASSUME IInv, UserStep
  PROVE  IInv'
<1>1. /\ WantsOK /\ RowsOK /\ SavesOK /\ ArmedAnew /\ SameFlow /\ sweep' \in FlowType
      /\ UNCHANGED <<now, stamp, got, faults>>
  BY RequestParts DEF IInv
<1>2. TypeOK'
  BY <1>1 DEF IInv, TypeOK, WantsOK, RowsOK, SavesOK, FlowType, Slots
<1>3. OwnItems' /\ Budget' /\ Unstamped'
  BY <1>1, <1>2, RequestKeeps DEF IInv
<1>4. QED
  BY <1>1, <1>2, <1>3 DEF IInv, SavesOK

\* So does the end of an event, which no item depends on.
LEMMA WithdrawKeeps ==
  ASSUME IInv, NEW e \in Events, Withdraw(e)
  PROVE  IInv'
<1>1. TypeOK'
  BY DEF IInv, TypeOK, Withdraw, account, Slots
<1>2. ArmedAnew /\ SameFlow /\ UNCHANGED <<now, stamp, got, faults>>
  BY DEF IInv, TypeOK, Withdraw, account, ArmedAnew, SameFlow
<1>3. OwnItems' /\ Budget' /\ Unstamped'
  BY <1>1, <1>2, RequestKeeps DEF IInv
<1>4. AfterMerge' /\ NotResurrected'
  BY DEF IInv, Withdraw, account, AfterMerge, NotResurrected
<1>5. QED
  BY <1>1, <1>3, <1>4 DEF IInv

-----------------------------------------------------------------------------
(* The clock.                                                              *)

LEMMA TickKeeps ==
  ASSUME IInv, Tick
  PROVE  IInv'
<1>1. now \in Nat /\ now' = now + 1 /\ now' \in Time
  BY WeeksPass DEF IInv, TypeOK, Tick, Time
<1>2. WeekOf(now) <= WeekOf(now') /\ WeekOf(now) \in Nat /\ WeekOf(now') \in Nat
  BY <1>1, WeeksPass
<1>3. UNCHANGED <<wantsReminders, wantsDigest, merged, stamp, saved, unsaved, reminder,
                   sweep, faults, got, armings>>
  BY DEF Tick, account
<1>4. TypeOK'
  BY <1>1, <1>3 DEF IInv, TypeOK, Slots
<1>5. OwnItems' /\ AfterMerge' /\ NotResurrected'
  BY <1>3 DEF IInv, OwnItems, AfterMerge, NotResurrected
<1>6. RemindBudget' /\ NudgeBudget'
  BY <1>3 DEF IInv, Budget, RemindBudget, NudgeBudget, MayRemind, MayNudge, Reading, Stamping
<1>7. DigestBudget'
  <2> SUFFICES ASSUME NEW u \in Users, NEW w \in Weeks
               PROVE  got["digest"][<<u, w>>] + Owed(MayDigest(u, w)') <= 1 + faults
    BY <1>3 DEF DigestBudget
  <2>1. w \in Nat
    BY WeeksPass
  <2>2. MayDigest(u, w)' => MayDigest(u, w)
    BY <1>2, <1>3, <2>1 DEF MayDigest, Stamping
  <2>3. got["digest"][<<u, w>>] + Owed(MayDigest(u, w)) <= 1 + faults
    BY DEF IInv, Budget, DigestBudget
  <2>4. got["digest"][<<u, w>>] \in Nat /\ faults \in Nat
    BY GotType DEF IInv, TypeOK
  <2>5. QED
    BY <2>2, <2>3, <2>4 DEF Owed
<1>8. Unstamped'
  <2>1. \A u \in Users : Reading("digest", <<u, 0>>)' => stamp'["digest"][u] < WeekOf(now')
    <3> SUFFICES ASSUME NEW u \in Users, Reading("digest", <<u, 0>>)
                 PROVE  stamp["digest"][u] < WeekOf(now')
      BY <1>3 DEF Reading
    <3>1. stamp["digest"][u] < WeekOf(now)
      BY DEF IInv, Unstamped
    <3>2. stamp["digest"][u] \in Int
      BY Kinds DEF IInv, TypeOK, Never
    <3>3. QED
      BY <1>2, <3>1, <3>2
  <2>2. \A u \in Users, w \in Weeks : WeekOf(now') < w => got'["digest"][<<u, w>>] = 0
    <3> SUFFICES ASSUME NEW u \in Users, NEW w \in Weeks, WeekOf(now') < w
                 PROVE  got["digest"][<<u, w>>] = 0
      BY <1>3
    <3>1. w \in Nat
      BY WeeksPass
    <3>2. WeekOf(now) < w
      BY <1>2, <3>1
    <3>3. QED
      BY <3>2 DEF IInv, Unstamped
  <2>3. \A k \in Nudges, u \in Users : Reading(k, <<u, 0>>)' => stamp'[k][u] = Never
    BY <1>3 DEF IInv, Unstamped, Reading
  <2>4. QED
    BY <2>1, <2>2, <2>3 DEF Unstamped
<1>9. QED
  BY <1>4, <1>5, <1>6, <1>7, <1>8 DEF IInv, Budget

-----------------------------------------------------------------------------
(* The steps of a sweep.                                                   *)

\* What every step of a sweep leaves alone.
Aside == UNCHANGED <<now, wantsReminders, wantsDigest, merged, saved, unsaved, armings>>
LEMMA AsideKeeps ==
  ASSUME IInv, Aside
  PROVE  /\ AfterMerge' /\ NotResurrected'
         /\ now' \in Time /\ {wantsReminders', wantsDigest', merged'} \subseteq SUBSET Users
         /\ saved' \in [Users -> SUBSET Events] /\ unsaved' \in [Users -> SUBSET Events]
         /\ armings' \in [Users -> [Events -> Nat]]
  BY DEF IInv, TypeOK, Aside, AfterMerge, NotResurrected

\* A step of one sweep that reads nobody, and sends and stamps nothing.
LEMMA CalmSweep ==
  ASSUME IInv, NEW k \in Sweeps, NEW flow, sweep' = [sweep EXCEPT ![k] = flow],
         flow \in [pc : {"idle", "loop", "send", "stamp"}, since : Time,
                   todo : SUBSET AllItems, item : AllItems \cup {NoItem},
                   attempt : {1, 2}, willing : SUBSET Users],
         /\ flow.todo \subseteq sweep[k].todo
         /\ flow.pc \in {"send", "stamp"} => flow.item \in Items(k) \ flow.todo
         /\ flow.pc \in {"idle", "loop"} => flow.item = NoItem
         /\ flow.pc = "idle" => flow.todo = {},
         flow.pc = "send" => Reading(k, flow.item),
         (sweep[k].pc = "stamp" => flow.pc = "stamp" /\ flow.item = sweep[k].item)
           \/ faults' = faults + 1,
         faults' \in {faults, faults + 1},
         Aside, UNCHANGED <<reminder, stamp, got>>
  PROVE  IInv'
<1>1. TypeOK /\ OwnItems /\ Budget /\ Unstamped /\ sweep \in FlowType /\ faults \in Nat
  BY DEF IInv, TypeOK, FlowType
<1>2. sweep' \in FlowType /\ sweep'[k] = flow /\ \A j \in Sweeps \ {k} : sweep'[j] = sweep[j]
  BY <1>1 DEF FlowType
<1>3. TypeOK'
  <2>1. /\ reminder' = reminder /\ stamp' = stamp /\ got' = got
        /\ faults' \in Nat
    BY <1>1
  <2>2. \A j \in Sweeps : got'[j] \in [Slots(j) -> Nat]
    BY <1>1, <2>1 DEF TypeOK
  <2>3. stamp' \in [Sweeps \ {"reminders"} -> [Users -> Nat \cup {Never}]]
    BY <1>1, <2>1 DEF TypeOK
  <2>4. reminder' = [u \in Users |-> [e \in Events |-> reminder'[u][e]]]
    BY <1>1, <2>1 DEF TypeOK
  <2>5. DOMAIN got' = Sweeps
    BY <1>1, <2>1 DEF TypeOK
  <2>6. QED
    BY <1>2, <2>1, <2>2, <2>3, <2>4, <2>5, AsideKeeps DEF TypeOK, FlowType, Slots
<1>4. OwnItems'
  BY <1>1, <1>2 DEF OwnItems
<1>5. ReadsNobody
  BY <1>2 DEF ReadsNobody, Reading
<1>6. KeepsStamps
  BY <1>1, <1>2 DEF KeepsStamps, Stamping
<1>7. ArmedAnew
  BY <1>1 DEF ArmedAnew, Aside, TypeOK
<1>8. faults' >= faults /\ UNCHANGED <<now, stamp, got>>
  BY <1>1 DEF Aside
<1>9. QED
  BY <1>1, <1>3, <1>4, <1>5, <1>6, <1>7, <1>8, Calm, AsideKeeps DEF IInv

\* What a sweep is at, and its item while it has one.
LEMMA FlowParts ==
  ASSUME IInv, NEW k \in Sweeps
  PROVE  /\ sweep[k] \in [pc : {"idle", "loop", "send", "stamp"}, since : Time,
                          todo : SUBSET AllItems, item : AllItems \cup {NoItem},
                          attempt : {1, 2}, willing : SUBSET Users]
         /\ sweep[k].todo \subseteq Items(k)
         /\ sweep[k].pc \in {"send", "stamp"} => sweep[k].item \in Items(k) \ sweep[k].todo
         /\ sweep[k].pc \in {"idle", "loop"} => sweep[k].item = NoItem
         /\ sweep[k].pc = "idle" => sweep[k].todo = {}
  BY DEF IInv, TypeOK, OwnItems

\* Taking the next item, leaving one out, a rejected or flooded message, an end: calm.
LEMMA StartSendKeeps ==
  ASSUME IInv, NEW k \in Sweeps, NEW i \in Items(k), StartSend(k, i)
  PROVE  IInv'
<1> DEFINE flow == [sweep[k] EXCEPT !.pc = "send", !.item = i, !.attempt = 1, !.todo = @ \ {i}]
<1>1. sweep' = [sweep EXCEPT ![k] = flow] /\ sweep[k].pc = "loop" /\ i \in sweep[k].todo
  BY DEF StartSend
<1>2. Aside /\ UNCHANGED <<reminder, stamp, got, faults>>
  BY DEF StartSend, Aside, account
<1>3. i \in AllItems
  BY Kinds
<1>4. /\ flow \in [pc : {"idle", "loop", "send", "stamp"}, since : Time,
                   todo : SUBSET AllItems, item : AllItems \cup {NoItem},
                   attempt : {1, 2}, willing : SUBSET Users]
      /\ flow.todo \subseteq sweep[k].todo /\ flow.pc = "send" /\ flow.item = i
      /\ i \notin flow.todo
  BY <1>3, FlowParts
<1>5. Reading(k, i)
  BY <1>1 DEF Reading
<1> HIDE DEF flow
<1>6. QED
  BY <1>1, <1>2, <1>4, <1>5, CalmSweep

LEMMA SkipItemKeeps ==
  ASSUME IInv, NEW k \in Sweeps, NEW i \in Items(k), SkipItem(k, i)
  PROVE  IInv'
<1> DEFINE flow == [sweep[k] EXCEPT !.todo = @ \ {i}]
<1>1. sweep' = [sweep EXCEPT ![k] = flow] /\ sweep[k].pc = "loop"
  BY DEF SkipItem
<1>2. Aside /\ UNCHANGED <<reminder, stamp, got, faults>>
  BY DEF SkipItem, Aside, account
<1>3. /\ flow \in [pc : {"idle", "loop", "send", "stamp"}, since : Time,
                   todo : SUBSET AllItems, item : AllItems \cup {NoItem},
                   attempt : {1, 2}, willing : SUBSET Users]
      /\ flow.todo \subseteq sweep[k].todo /\ flow.pc = "loop" /\ flow.item = NoItem
  BY <1>1, FlowParts
<1> HIDE DEF flow
<1>4. QED
  BY <1>1, <1>2, <1>3, CalmSweep

LEMMA SendRejectedKeeps ==
  ASSUME IInv, NEW k \in Sweeps, SendRejected(k)
  PROVE  IInv'
<1> DEFINE flow == [sweep[k] EXCEPT !.pc = "stamp", !.attempt = 1]
<1>1. sweep' = [sweep EXCEPT ![k] = flow] /\ sweep[k].pc = "send"
  BY DEF SendRejected, ToStamp
<1>2. Aside /\ UNCHANGED <<reminder, stamp, got, faults>>
  BY DEF SendRejected, Aside, account
<1>3. /\ flow \in [pc : {"idle", "loop", "send", "stamp"}, since : Time,
                   todo : SUBSET AllItems, item : AllItems \cup {NoItem},
                   attempt : {1, 2}, willing : SUBSET Users]
      /\ flow.todo = sweep[k].todo /\ flow.pc = "stamp"
      /\ flow.item \in Items(k) \ flow.todo
  BY <1>1, FlowParts
<1> HIDE DEF flow
<1>4. QED
  BY <1>1, <1>2, <1>3, CalmSweep

\* Going on to the next item is calm unless a stamp was due.
LEMMA NextItemKeeps ==
  ASSUME IInv, NEW k \in Sweeps, sweep[k].pc = "send", sweep' = NextItem(k),
         faults' \in {faults, faults + 1}, Aside, UNCHANGED <<reminder, stamp, got>>
  PROVE  IInv'
<1> DEFINE flow == [sweep[k] EXCEPT !.pc = "loop", !.item = NoItem, !.attempt = 1]
<1>1. sweep' = [sweep EXCEPT ![k] = flow]
  BY DEF NextItem
<1>2. /\ flow \in [pc : {"idle", "loop", "send", "stamp"}, since : Time,
                   todo : SUBSET AllItems, item : AllItems \cup {NoItem},
                   attempt : {1, 2}, willing : SUBSET Users]
      /\ flow.todo = sweep[k].todo /\ flow.pc = "loop" /\ flow.item = NoItem
  BY FlowParts
<1> HIDE DEF flow
<1>3. QED
  BY <1>1, <1>2, CalmSweep

LEMMA SendFloodedKeeps ==
  ASSUME IInv, NEW k \in Sweeps, SendFlooded(k)
  PROVE  IInv'
<1>1. Aside /\ UNCHANGED <<reminder, stamp, got, faults>> /\ sweep[k].pc = "send"
  BY DEF SendFlooded, Aside, account
<1>2. CASE sweep[k].attempt = 1
  <2> DEFINE flow == [sweep[k] EXCEPT !.attempt = 2]
  <2>1. sweep' = [sweep EXCEPT ![k] = flow]
    BY <1>2 DEF SendFlooded
  <2>2. /\ flow \in [pc : {"idle", "loop", "send", "stamp"}, since : Time,
                     todo : SUBSET AllItems, item : AllItems \cup {NoItem},
                     attempt : {1, 2}, willing : SUBSET Users]
        /\ flow.todo = sweep[k].todo /\ flow.pc = "send" /\ flow.item = sweep[k].item
        /\ flow.item \in Items(k) \ flow.todo
    BY <1>1, FlowParts
  <2>3. Reading(k, sweep[k].item)
    BY <1>1 DEF Reading
  <2> HIDE DEF flow
  <2>4. QED
    BY <1>1, <2>1, <2>2, <2>3, CalmSweep
<1>3. CASE sweep[k].attempt # 1
  BY <1>1, <1>3, NextItemKeeps DEF SendFlooded
<1>4. QED
  BY <1>2, <1>3

\* Coming to rest at the end, or by a fault.
LEMMA RestKeeps ==
  ASSUME IInv, NEW k \in Sweeps, EndSweep(k) \/ LoseSweep(k)
  PROVE  IInv'
<1>1. sweep' = [sweep EXCEPT ![k] = Resting]
  BY DEF EndSweep, LoseSweep
<1>2. Aside /\ UNCHANGED <<reminder, stamp, got>>
  BY DEF EndSweep, LoseSweep, Aside, account
<1>3. (sweep[k].pc = "loop" /\ faults' = faults) \/ faults' = faults + 1
  BY DEF EndSweep, LoseSweep
<1>4. Resting \in [pc : {"idle", "loop", "send", "stamp"}, since : Time,
                   todo : SUBSET AllItems, item : AllItems \cup {NoItem},
                   attempt : {1, 2}, willing : SUBSET Users]
  BY WeeksPass DEF Resting, Time
<1>5. Resting.todo = {} /\ Resting.pc = "idle" /\ Resting.item = NoItem
  BY DEF Resting
<1>6. QED
  BY <1>1, <1>2, <1>3, <1>4, <1>5, CalmSweep

\* The slot that a message counts for.
SlotOf(k) == IF k = "digest" THEN <<sweep[k].item[1], WeekOf(now)>> ELSE sweep[k].item

LEMMA SlotType ==
  ASSUME IInv, NEW k \in Sweeps, sweep[k].pc = "send"
  PROVE  /\ SlotOf(k) \in Slots(k)
         /\ k = "reminders" => SlotOf(k) = sweep[k].item /\ sweep[k].item \in Users \X Events
         /\ k # "reminders" => sweep[k].item \in Users \X {0}
         /\ k \in Nudges => SlotOf(k) = sweep[k].item
         /\ k = "digest" => SlotOf(k) = <<sweep[k].item[1], WeekOf(now)>>
<1>1. sweep[k].item \in Items(k)
  BY FlowParts
<1>2. WeekOf(now) \in Weeks
  BY WeeksPass DEF IInv, TypeOK
<1>3. CASE k = "reminders"
  BY <1>1, <1>3, Kinds DEF SlotOf
<1>4. CASE k = "digest"
  BY <1>1, <1>2, <1>4, Kinds DEF SlotOf
<1>5. CASE k \in Nudges
  BY <1>1, <1>5, Kinds DEF SlotOf
<1>6. QED
  BY <1>3, <1>4, <1>5, Kinds

\* A message counts once, in its slot.
LEMMA DeliverCounts ==
  ASSUME IInv, NEW k \in Sweeps, sweep[k].pc = "send", Deliver(k)
  PROVE  /\ DOMAIN got' = Sweeps
         /\ \A j \in Sweeps \ {k} : got'[j] = got[j]
         /\ got'[k] = [got[k] EXCEPT ![SlotOf(k)] = @ + 1]
         /\ \A j \in Sweeps : got'[j] \in [Slots(j) -> Nat]
<1>1. DOMAIN got = Sweeps /\ \A j \in Sweeps : got[j] \in [Slots(j) -> Nat]
  BY DEF IInv, TypeOK
<1>2. got' = [got EXCEPT ![k] = [got[k] EXCEPT ![SlotOf(k)] = @ + 1]]
  BY DEF Deliver, SlotOf
<1>3. DOMAIN got' = Sweeps /\ \A j \in Sweeps \ {k} : got'[j] = got[j]
  BY <1>1, <1>2
<1>4. got'[k] = [got[k] EXCEPT ![SlotOf(k)] = @ + 1]
  BY <1>1, <1>2
<1>5. got'[k] \in [Slots(k) -> Nat]
  BY <1>1, <1>4, SlotType
<1>6. QED
  BY <1>1, <1>3, <1>4, <1>5

\* The message that comes was owed, and is owed no more once the sweep goes on to stamp it.
LEMMA Delivered ==
  ASSUME IInv, NEW k \in Sweeps, sweep[k].pc = "send", Deliver(k),
         NEW flow, sweep' = [sweep EXCEPT ![k] = flow],
         flow \in [pc : {"idle", "loop", "send", "stamp"}, since : Time,
                   todo : SUBSET AllItems, item : AllItems \cup {NoItem},
                   attempt : {1, 2}, willing : SUBSET Users],
         flow.todo = sweep[k].todo,
         \/ flow.pc = "stamp" /\ flow.item = sweep[k].item /\ faults' = faults
         \/ flow.pc = "loop" /\ flow.item = NoItem /\ faults' = faults + 1,
         Aside, UNCHANGED <<reminder, stamp>>
  PROVE  IInv'
<1>1. TypeOK /\ OwnItems /\ Budget /\ Unstamped /\ sweep \in FlowType /\ faults \in Nat
      /\ now' = now /\ armings' = armings /\ reminder' = reminder /\ stamp' = stamp
  BY DEF IInv, TypeOK, FlowType, Aside
<1>a. /\ \A j \in Sweeps \ {k} : got'[j] = got[j]
      /\ got'[k] = [got[k] EXCEPT ![SlotOf(k)] = got[k][SlotOf(k)] + 1]
      /\ got[k] \in [Slots(k) -> Nat]
  BY DeliverCounts DEF IInv, TypeOK
<1>b. /\ SlotOf(k) \in Slots(k)
      /\ k = "reminders" => SlotOf(k) = sweep[k].item
      /\ k \in Nudges => SlotOf(k) = sweep[k].item
      /\ k = "digest" => SlotOf(k) = <<sweep[k].item[1], WeekOf(now)>>
      /\ k # "reminders" => sweep[k].item \in Users \X {0}
  BY SlotType
<1>c. /\ got'[k][SlotOf(k)] = got[k][SlotOf(k)] + 1
      /\ \A x \in Slots(k) \ {SlotOf(k)} : got'[k][x] = got[k][x]
  BY <1>a, <1>b
<1>2. sweep' \in FlowType /\ sweep'[k] = flow /\ \A j \in Sweeps \ {k} : sweep'[j] = sweep[j]
  BY <1>1 DEF FlowType
<1>3. TypeOK'
  <2>1. stamp' \in [Sweeps \ {"reminders"} -> [Users -> Nat \cup {Never}]]
    BY <1>1 DEF TypeOK
  <2>2. reminder' = [u \in Users |-> [e \in Events |-> reminder'[u][e]]]
    BY <1>1 DEF TypeOK
  <2>3. faults' \in Nat
    BY <1>1
  <2>4. QED
    BY <1>2, <2>1, <2>2, <2>3, DeliverCounts, AsideKeeps DEF TypeOK, FlowType, Slots
<1>4. OwnItems'
  <2>1. /\ flow.todo \subseteq Items(k)
        /\ flow.pc \in {"send", "stamp"} => flow.item \in Items(k) \ flow.todo
        /\ flow.pc \in {"idle", "loop"} => flow.item = NoItem
        /\ flow.pc = "idle" => flow.todo = {}
    BY FlowParts
  <2>2. QED
    BY <1>1, <1>2, <2>1 DEF OwnItems
<1>5. \A j \in Sweeps : \A i \in Items(j) : /\ Reading(j, i)' => Reading(j, i)
                                            /\ Stamping(j, i) => Stamping(j, i)'
  BY <1>2 DEF Reading, Stamping
<1> PICK i \in Items(k) : i = sweep[k].item /\ i \notin sweep[k].todo
  BY FlowParts
<1>6. Reading(k, i) /\ ~Stamping(k, i)
  BY DEF Reading, Stamping
<1>7. \/ ~Reading(k, i)' /\ Stamping(k, i)' /\ faults' = faults
      \/ faults' = faults + 1
  BY <1>2 DEF Reading, Stamping
<1>8. RemindBudget'
  <2> SUFFICES ASSUME NEW u \in Users, NEW e \in Events
               PROVE  got'["reminders"][<<u, e>>] + Owed(MayRemind(u, e)')
                        <= armings[u][e] + faults'
    BY <1>1 DEF RemindBudget
  <2>1. got["reminders"][<<u, e>>] + Owed(MayRemind(u, e)) <= armings[u][e] + faults
    BY <1>1 DEF Budget, RemindBudget
  <2>2. got["reminders"][<<u, e>>] \in Nat /\ armings[u][e] \in Nat
    BY <1>1, GotType DEF TypeOK
  <2>3. "reminders" \in Sweeps /\ <<u, e>> \in Items("reminders")
    BY Kinds
  <2>4. MayRemind(u, e)' => MayRemind(u, e)
    BY <1>1, <1>5, <2>3 DEF MayRemind
  <2>5. CASE k = "reminders" /\ i = <<u, e>>
    <3>1. got'["reminders"][<<u, e>>] = got["reminders"][<<u, e>>] + 1
      BY <2>3, <2>5, <1>a, <1>b, <1>c
    <3>2. MayRemind(u, e)
      BY <1>6, <2>5 DEF MayRemind
    <3>3. (~MayRemind(u, e)' /\ faults' = faults) \/ faults' = faults + 1
      BY <1>7, <2>5 DEF MayRemind
    <3>4. QED
      BY <1>1, <2>1, <2>2, <3>1, <3>2, <3>3 DEF Owed
  <2>6. CASE ~(k = "reminders" /\ i = <<u, e>>)
    <3>1. got'["reminders"][<<u, e>>] = got["reminders"][<<u, e>>]
      BY <2>3, <2>6, <1>a, <1>b, <1>c, Kinds DEF IInv, TypeOK
    <3>2. QED
      BY <1>1, <1>7, <2>1, <2>2, <2>4, <3>1 DEF Owed
  <2>7. QED
    BY <2>5, <2>6
<1>9. DigestBudget'
  <2> SUFFICES ASSUME NEW u \in Users, NEW w \in Weeks
               PROVE  got'["digest"][<<u, w>>] + Owed(MayDigest(u, w)') <= 1 + faults'
    BY DEF DigestBudget
  <2>1. got["digest"][<<u, w>>] + Owed(MayDigest(u, w)) <= 1 + faults
    BY <1>1 DEF Budget, DigestBudget
  <2>2. got["digest"][<<u, w>>] \in Nat
    BY <1>1, GotType
  <2>3. "digest" \in Sweeps /\ <<u, 0>> \in Items("digest")
    BY Kinds
  <2>4. MayDigest(u, w)' => MayDigest(u, w)
    BY <1>1, <1>5, <2>3 DEF MayDigest, WeekOf
  <2>5. CASE k = "digest" /\ i = <<u, 0>> /\ w = WeekOf(now)
    <3>1. got'["digest"][<<u, w>>] = got["digest"][<<u, w>>] + 1
      BY <2>5, <1>a, <1>b, <1>c
    <3>2. MayDigest(u, w)
      <4>1. stamp["digest"][u] < WeekOf(now)
        BY <1>1, <1>6, <2>5 DEF Unstamped
      <4>2. WeekOf(now) <= w
        BY <2>5, WeeksPass
      <4>3. QED
        BY <1>6, <2>5, <4>1, <4>2 DEF MayDigest
    <3>3. (~MayDigest(u, w)' /\ faults' = faults) \/ faults' = faults + 1
      BY <1>7, <2>5 DEF MayDigest
    <3>4. QED
      BY <1>1, <2>1, <2>2, <3>1, <3>2, <3>3 DEF Owed
  <2>6. CASE ~(k = "digest" /\ i = <<u, 0>> /\ w = WeekOf(now))
    <3>1. got'["digest"][<<u, w>>] = got["digest"][<<u, w>>]
      <4>1. CASE k # "digest"
        BY <2>3, <4>1, <1>a, <1>b, <1>c
      <4>2. CASE k = "digest"
        <5>1. SlotOf(k) # <<u, w>>
          BY <2>6, <4>2, <1>b
        <5>2. got[k] \in [Users \X Weeks -> Nat]
          BY <1>1, <4>2, Kinds DEF TypeOK
        <5>3. QED
          BY <4>2, <5>1, <5>2, <1>a, <1>b, <1>c
      <4>3. QED
        BY <4>1, <4>2
    <3>2. QED
      BY <1>1, <1>7, <2>1, <2>2, <2>4, <3>1 DEF Owed
  <2>7. QED
    BY <2>5, <2>6
<1>10. NudgeBudget'
  <2> SUFFICES ASSUME NEW j \in Nudges, NEW u \in Users
               PROVE  got'[j][<<u, 0>>] + Owed(MayNudge(j, u)') <= 1 + faults'
    BY DEF NudgeBudget
  <2>1. got[j][<<u, 0>>] + Owed(MayNudge(j, u)) <= 1 + faults
    BY <1>1 DEF Budget, NudgeBudget
  <2>2. got[j][<<u, 0>>] \in Nat
    BY <1>1, GotType
  <2>3. j \in Sweeps /\ <<u, 0>> \in Items(j)
    BY Kinds
  <2>4. MayNudge(j, u)' => MayNudge(j, u)
    BY <1>1, <1>5, <2>3 DEF MayNudge
  <2>5. got[j] \in [Users \X {0} -> Nat]
    BY <1>1, <2>3, Kinds DEF TypeOK
  <2>6. CASE k = j /\ i = <<u, 0>>
    <3>1. got'[j][<<u, 0>>] = got[j][<<u, 0>>] + 1
      BY <2>5, <2>6, <1>a, <1>b, <1>c
    <3>2. MayNudge(j, u)
      BY <1>1, <1>6, <2>6 DEF MayNudge, Unstamped
    <3>3. (~MayNudge(j, u)' /\ faults' = faults) \/ faults' = faults + 1
      BY <1>7, <2>6 DEF MayNudge
    <3>4. QED
      BY <1>1, <2>1, <2>2, <3>1, <3>2, <3>3 DEF Owed
  <2>7. CASE ~(k = j /\ i = <<u, 0>>)
    <3>1. got'[j][<<u, 0>>] = got[j][<<u, 0>>]
      BY <2>3, <2>5, <2>7, <1>a, <1>b, <1>c
    <3>2. QED
      BY <1>1, <1>7, <2>1, <2>2, <2>4, <3>1 DEF Owed
  <2>8. QED
    BY <2>6, <2>7
<1>11. Unstamped'
  <2>1. \A u \in Users : Reading("digest", <<u, 0>>)' => stamp'["digest"][u] < WeekOf(now')
    BY <1>1, <1>5, Kinds DEF Unstamped
  <2>2. ASSUME NEW u \in Users, NEW w \in Weeks, WeekOf(now) < w
        PROVE  got'["digest"][<<u, w>>] = 0
    <3>1. got["digest"][<<u, w>>] = 0
      BY <1>1, <2>2 DEF Unstamped
    <3>2. CASE k # "digest"
      BY <3>1, <3>2, <1>a, <1>b, <1>c, Kinds
    <3>3. CASE k = "digest"
      <4>1. WeekOf(now) # w
        BY <2>2, WeeksPass DEF IInv, TypeOK
      <4>2. SlotOf(k) # <<u, w>>
        BY <3>3, <4>1, <1>b
      <4>3. got[k] \in [Users \X Weeks -> Nat]
        BY <1>1, <3>3, Kinds DEF TypeOK
      <4>4. QED
        BY <3>1, <3>3, <4>2, <4>3, <1>a, <1>b, <1>c
    <3>4. QED
      BY <3>2, <3>3
  <2>3. \A j \in Nudges, u \in Users : Reading(j, <<u, 0>>)' => stamp'[j][u] = Never
    BY <1>1, <1>5, Kinds DEF Unstamped
  <2>4. QED
    BY <1>1, <2>1, <2>2, <2>3 DEF Unstamped
<1>12. QED
  BY <1>3, <1>4, <1>8, <1>9, <1>10, <1>11, AsideKeeps DEF IInv, Budget

LEMMA SendAcceptedKeeps ==
  ASSUME IInv, NEW k \in Sweeps, SendAccepted(k)
  PROVE  IInv'
<1> DEFINE flow == [sweep[k] EXCEPT !.pc = "stamp", !.attempt = 1]
<1>1. sweep' = [sweep EXCEPT ![k] = flow] /\ sweep[k].pc = "send" /\ Deliver(k)
  BY DEF SendAccepted, ToStamp
<1>2. Aside /\ UNCHANGED <<reminder, stamp, faults>>
  BY DEF SendAccepted, Aside, account
<1>3. /\ flow \in [pc : {"idle", "loop", "send", "stamp"}, since : Time,
                   todo : SUBSET AllItems, item : AllItems \cup {NoItem},
                   attempt : {1, 2}, willing : SUBSET Users]
      /\ flow.todo = sweep[k].todo /\ flow.pc = "stamp" /\ flow.item = sweep[k].item
  BY FlowParts
<1> HIDE DEF flow
<1>4. QED
  BY <1>1, <1>2, <1>3, Delivered

LEMMA SendLostKeeps ==
  ASSUME IInv, NEW k \in Sweeps, NEW arrived \in BOOLEAN, SendLost(k, arrived)
  PROVE  IInv'
<1> DEFINE flow == [sweep[k] EXCEPT !.pc = "loop", !.item = NoItem, !.attempt = 1]
<1>1. sweep' = [sweep EXCEPT ![k] = flow] /\ sweep' = NextItem(k) /\ sweep[k].pc = "send"
  BY DEF SendLost, NextItem
<1>2. Aside /\ UNCHANGED <<reminder, stamp>> /\ faults' = faults + 1
  BY DEF SendLost, Aside, account
<1>3. CASE arrived
  <2>1. Deliver(k)
    BY <1>3 DEF SendLost
  <2>2. /\ flow \in [pc : {"idle", "loop", "send", "stamp"}, since : Time,
                     todo : SUBSET AllItems, item : AllItems \cup {NoItem},
                     attempt : {1, 2}, willing : SUBSET Users]
        /\ flow.todo = sweep[k].todo /\ flow.pc = "loop" /\ flow.item = NoItem
    BY FlowParts
  <2> HIDE DEF flow
  <2>3. QED
    BY <1>1, <1>2, <2>1, <2>2, Delivered
<1>4. CASE ~arrived
  <2>1. UNCHANGED got
    BY <1>4 DEF SendLost
  <2>2. QED
    BY <1>1, <1>2, <2>1, NextItemKeeps
<1>5. QED
  BY <1>3, <1>4

\* A stamp ends what was due: a reminder's row is unsent no more, a user's week or nudge
\* is taken.
LEMMA StampKeeps ==
  ASSUME IInv, NEW k \in Sweeps, Stamp(k)
  PROVE  IInv'
<1> DEFINE flow == [sweep[k] EXCEPT !.pc = "loop", !.item = NoItem, !.attempt = 1]
<1>1. TypeOK /\ OwnItems /\ Budget /\ Unstamped /\ sweep \in FlowType /\ faults \in Nat
      /\ now' = now /\ armings' = armings /\ got' = got /\ faults' = faults /\ Aside
  BY DEF IInv, TypeOK, FlowType, Aside, Stamp
<1>2. sweep' = [sweep EXCEPT ![k] = flow] /\ sweep[k].pc = "stamp"
  BY DEF Stamp, NextItem
<1>3. /\ flow \in [pc : {"idle", "loop", "send", "stamp"}, since : Time,
                   todo : SUBSET AllItems, item : AllItems \cup {NoItem},
                   attempt : {1, 2}, willing : SUBSET Users]
      /\ flow.todo = sweep[k].todo /\ flow.pc = "loop" /\ flow.item = NoItem
  BY FlowParts
<1> HIDE DEF flow
<1>4. sweep' \in FlowType /\ sweep'[k] = flow /\ \A j \in Sweeps \ {k} : sweep'[j] = sweep[j]
  BY <1>1, <1>2, <1>3 DEF FlowType
<1>5. PICK u \in Users, e \in Events \cup {0} :
        /\ <<u, e>> = sweep[k].item /\ <<u, e>> \in Items(k) /\ <<u, e>> \notin sweep[k].todo
  <2>1. sweep[k].item \in Items(k) \ sweep[k].todo /\ Items(k) \subseteq AllItems
    BY <1>2, FlowParts, Kinds
  <2>2. QED
    BY <2>1 DEF AllItems
<1>6. sweep[k].item[1] = u /\ sweep[k].item[2] = e
  BY <1>5
<1>7. OwnItems'
  BY <1>1, <1>3, <1>4 DEF OwnItems
<1>8. /\ \A j \in Sweeps : \A i \in Items(j) : Reading(j, i)' => Reading(j, i)
      /\ \A j \in Sweeps \ {k} : \A i \in Items(j) : Stamping(j, i)' <=> Stamping(j, i)
      /\ \A i \in Items(k) : Stamping(k, i) => i = <<u, e>>
      /\ ~Reading(k, <<u, e>>)'
  BY <1>3, <1>4, <1>5 DEF Reading, Stamping
<1>9. WeekOf(now) \in Nat
  BY WeeksPass DEF IInv, TypeOK, Time
<1>10. CASE k = "reminders"
  <2>1. stamp' = stamp /\ reminder' = [reminder EXCEPT ![u] =
                             [reminder[u] EXCEPT ![e] = IF @ = NoRow THEN NoRow ELSE Sent]]
    BY <1>6, <1>10 DEF Stamp
  <2>2. reminder = [v \in Users |-> [x \in Events |-> reminder[v][x]]]
    BY <1>1 DEF TypeOK
  <2>3. reminder' = [v \in Users |-> [x \in Events |-> reminder'[v][x]]]
    BY <2>1, <2>2
  <2>4. \A v \in Users, x \in Events : Unsent(reminder'[v][x])
          => Unsent(reminder[v][x]) /\ <<v, x>> # <<u, e>>
    <3> SUFFICES ASSUME NEW v \in Users, NEW x \in Events, Unsent(reminder'[v][x])
                 PROVE  Unsent(reminder[v][x]) /\ <<v, x>> # <<u, e>>
      OBVIOUS
    <3>1. CASE v = u /\ x = e
      BY <2>1, <2>2, <3>1 DEF Unsent
    <3>2. CASE ~(v = u /\ x = e)
      <4>1. reminder'[v][x] = reminder[v][x]
        BY <2>1, <2>2, <3>2
      <4>2. QED
        BY <3>2, <4>1
    <3>3. QED
      BY <3>1, <3>2
  <2>5. TypeOK'
    BY <1>1, <1>4, <2>1, <2>3, AsideKeeps DEF TypeOK, FlowType, Slots
  <2>6. RemindBudget'
    <3> SUFFICES ASSUME NEW v \in Users, NEW x \in Events
                 PROVE  got["reminders"][<<v, x>>] + Owed(MayRemind(v, x)')
                          <= armings[v][x] + faults
      BY <1>1 DEF RemindBudget
    <3>1. got["reminders"][<<v, x>>] + Owed(MayRemind(v, x)) <= armings[v][x] + faults
      BY <1>1 DEF Budget, RemindBudget
    <3>2. got["reminders"][<<v, x>>] \in Nat /\ armings[v][x] \in Nat
      BY <1>1, GotType DEF TypeOK
    <3>3. MayRemind(v, x)' => MayRemind(v, x)
      <4>1. <<v, x>> \in Items(k)
        BY <1>10, Kinds
      <4>2. QED
        BY <1>8, <1>10, <2>4, <4>1 DEF MayRemind
    <3>4. QED
      BY <1>1, <3>1, <3>2, <3>3 DEF Owed
  <2>7. DigestBudget' /\ NudgeBudget'
    <3>1. \A v \in Users : Stamping("digest", <<v, 0>>)' <=> Stamping("digest", <<v, 0>>)
      BY <1>8, <1>10, Kinds
    <3>2. \A j \in Nudges, v \in Users : Stamping(j, <<v, 0>>)' <=> Stamping(j, <<v, 0>>)
      BY <1>8, <1>10, Kinds
    <3>3. DigestBudget'
      BY <1>1, <2>1, <3>1 DEF Budget, DigestBudget, MayDigest, WeekOf
    <3>4. NudgeBudget'
      BY <1>1, <2>1, <3>2 DEF Budget, NudgeBudget, MayNudge
    <3>5. QED
      BY <3>3, <3>4
  <2>8. Unstamped'
    <3>1. \A v \in Users : Reading("digest", <<v, 0>>)' => Reading("digest", <<v, 0>>)
      BY <1>8, Kinds
    <3>2. \A j \in Nudges, v \in Users : Reading(j, <<v, 0>>)' => Reading(j, <<v, 0>>)
      BY <1>8, Kinds
    <3>3. QED
      BY <1>1, <2>1, <3>1, <3>2 DEF Unstamped
  <2>9. QED
    BY <1>1, <1>7, <2>5, <2>6, <2>7, <2>8, AsideKeeps DEF IInv, Budget
<1>11. CASE k # "reminders"
  <2>1. reminder' = reminder
        /\ stamp' = [stamp EXCEPT ![k] = [stamp[k] EXCEPT ![u] = WeekOf(now)]]
    BY <1>6, <1>11 DEF Stamp
  <2>2. stamp \in [Sweeps \ {"reminders"} -> [Users -> Nat \cup {Never}]]
    BY <1>1 DEF TypeOK
  <2>3. stamp' \in [Sweeps \ {"reminders"} -> [Users -> Nat \cup {Never}]]
    BY <1>9, <1>11, <2>1, <2>2
  <2>4. /\ stamp'[k][u] = WeekOf(now)
        /\ \A j \in Sweeps \ {"reminders"}, v \in Users :
             j # k \/ v # u => stamp'[j][v] = stamp[j][v]
    BY <1>11, <2>1, <2>2
  <2>5. e = 0
    BY <1>5, <1>11, Kinds
  <2>6. TypeOK'
    <3>1. reminder' = [v \in Users |-> [x \in Events |-> reminder'[v][x]]]
      BY <1>1, <2>1 DEF TypeOK
    <3>2. QED
      BY <1>1, <1>4, <2>3, <3>1, AsideKeeps DEF TypeOK, FlowType, Slots
  <2>7. RemindBudget'
    <3>1. "reminders" \in Sweeps \ {k} /\ Items("reminders") = Users \X Events
      BY <1>11, Kinds
    <3>2. sweep'["reminders"] = sweep["reminders"]
      BY <1>4, <3>1
    <3>3. QED
      BY <1>1, <2>1, <3>2 DEF Budget, RemindBudget, MayRemind, Reading, Stamping
  <2>8. DigestBudget'
    <3> SUFFICES ASSUME NEW v \in Users, NEW w \in Weeks
                 PROVE  got["digest"][<<v, w>>] + Owed(MayDigest(v, w)') <= 1 + faults
      BY <1>1 DEF DigestBudget
    <3>1. got["digest"][<<v, w>>] + Owed(MayDigest(v, w)) <= 1 + faults
      BY <1>1 DEF Budget, DigestBudget
    <3>2. got["digest"][<<v, w>>] \in Nat /\ w \in Nat
      BY <1>1, GotType, WeeksPass
    <3>3. "digest" \in Sweeps \ {"reminders"} /\ <<v, 0>> \in Items("digest")
      BY Kinds
    <3>4. CASE k = "digest" /\ v = u
      <4>1. MayDigest(v, w)' => WeekOf(now) < w
        BY <1>1, <2>4, <3>4 DEF MayDigest, WeekOf
      <4>2. WeekOf(now) < w => got["digest"][<<v, w>>] = 0
        BY <1>1 DEF Unstamped
      <4>3. QED
        BY <1>1, <3>1, <3>2, <4>1, <4>2 DEF Owed
    <3>5. CASE ~(k = "digest" /\ v = u)
      <4>1. stamp'["digest"][v] = stamp["digest"][v]
        BY <2>4, <3>3, <3>5
      <4>2. Stamping("digest", <<v, 0>>) => Stamping("digest", <<v, 0>>)'
        BY <1>8, <3>3, <3>5
      <4>3. MayDigest(v, w)' => MayDigest(v, w)
        BY <1>1, <4>1, <4>2 DEF MayDigest, WeekOf
      <4>4. QED
        BY <1>1, <3>1, <3>2, <4>3 DEF Owed
    <3>6. QED
      BY <3>4, <3>5
  <2>9. NudgeBudget'
    <3> SUFFICES ASSUME NEW j \in Nudges, NEW v \in Users
                 PROVE  got[j][<<v, 0>>] + Owed(MayNudge(j, v)') <= 1 + faults
      BY <1>1 DEF NudgeBudget
    <3>1. got[j][<<v, 0>>] + Owed(MayNudge(j, v)) <= 1 + faults
      BY <1>1 DEF Budget, NudgeBudget
    <3>2. got[j][<<v, 0>>] \in Nat
      BY <1>1, GotType
    <3>3. j \in Sweeps \ {"reminders"} /\ <<v, 0>> \in Items(j)
      BY Kinds
    <3>4. CASE k = j /\ v = u
      <4>1. ~MayNudge(j, v)'
        BY <1>9, <2>4, <3>4 DEF MayNudge, Never
      <4>2. QED
        BY <1>1, <3>1, <3>2, <4>1 DEF Owed
    <3>5. CASE ~(k = j /\ v = u)
      <4>1. stamp'[j][v] = stamp[j][v]
        BY <2>4, <3>3, <3>5
      <4>2. Stamping(j, <<v, 0>>) => Stamping(j, <<v, 0>>)'
        BY <1>8, <3>3, <3>5
      <4>3. MayNudge(j, v)' => MayNudge(j, v)
        BY <4>1, <4>2 DEF MayNudge
      <4>4. QED
        BY <1>1, <3>1, <3>2, <4>3 DEF Owed
    <3>6. QED
      BY <3>4, <3>5
  <2>10. Unstamped'
    <3>1. ASSUME NEW v \in Users, Reading("digest", <<v, 0>>)'
          PROVE  stamp'["digest"][v] < WeekOf(now)
      <4>1. Reading("digest", <<v, 0>>) /\ ~(k = "digest" /\ v = u)
        BY <1>8, <2>5, <3>1, Kinds
      <4>2. stamp'["digest"][v] = stamp["digest"][v]
        BY <2>4, <4>1, Kinds
      <4>3. QED
        BY <1>1, <4>1, <4>2 DEF Unstamped
    <3>2. ASSUME NEW j \in Nudges, NEW v \in Users, Reading(j, <<v, 0>>)'
          PROVE  stamp'[j][v] = Never
      <4>1. Reading(j, <<v, 0>>) /\ ~(k = j /\ v = u)
        BY <1>8, <2>5, <3>2, Kinds
      <4>2. stamp'[j][v] = stamp[j][v]
        BY <2>4, <4>1, Kinds
      <4>3. QED
        BY <1>1, <4>1, <4>2 DEF Unstamped
    <3>3. \A v \in Users, w \in Weeks : WeekOf(now') < w => got'["digest"][<<v, w>>] = 0
      BY <1>1 DEF Unstamped
    <3>4. QED
      BY <1>1, <3>1, <3>2, <3>3 DEF Unstamped
  <2>11. QED
    BY <1>1, <1>7, <2>6, <2>7, <2>8, <2>9, <2>10, AsideKeeps DEF IInv, Budget
<1>12. QED
  BY <1>10, <1>11

\* Whom a sweep reads is due.
LEMMA ReadDue ==
  ASSUME NEW k \in Sweeps, NEW batch \in Batches(k)
  PROVE  /\ batch \subseteq Items(k)
         /\ k = "reminders" => batch \subseteq DueReminders
         /\ k = "digest" => batch \subseteq DueDigest
         /\ k \in Nudges => batch \subseteq DueNudge(k)
<1>1. batch \subseteq Due(k)
  BY DEF Batches
<1>2. CASE k = "reminders"
  BY <1>1, <1>2, Kinds DEF Due, DueReminders
<1>3. CASE k = "digest"
  BY <1>1, <1>3, Kinds DEF Due, DueDigest
<1>4. CASE k \in Nudges
  BY <1>1, <1>4, Kinds DEF Due, DueNudge
<1>5. QED
  BY <1>2, <1>3, <1>4, Kinds

\* A sweep reads what may still come: armed reminders, users without the week's digest,
\* users without the nudge.  What it clears was armed.
LEMMA StartSweepKeeps ==
  ASSUME IInv, NEW k \in Sweeps, StartSweep(k)
  PROVE  IInv'
<1>1. TypeOK /\ OwnItems /\ Budget /\ Unstamped /\ sweep \in FlowType /\ faults \in Nat
      /\ now' = now /\ armings' = armings /\ got' = got /\ faults' = faults /\ stamp' = stamp
      /\ Aside /\ sweep[k].pc = "idle"
  BY DEF IInv, TypeOK, FlowType, Aside, StartSweep, account
<1>p. PICK batch \in Batches(k) :
      sweep' = [sweep EXCEPT ![k] =
        IF batch = {} THEN Resting
        ELSE [Resting EXCEPT !.pc = "loop", !.since = now, !.todo = batch,
                             !.willing = Willing(k)]]
  BY DEF StartSweep
<1> DEFINE flow == IF batch = {} THEN Resting
                   ELSE [Resting EXCEPT !.pc = "loop", !.since = now, !.todo = batch,
                                        !.willing = Willing(k)]
<1>2. sweep' = [sweep EXCEPT ![k] = flow]
  BY <1>p
<1>3. batch \subseteq Items(k) /\ Items(k) \subseteq AllItems
  BY ReadDue, Kinds
<1>4. Willing(k) \subseteq Users /\ now \in Time /\ 0 \in Time
  BY <1>1, WeeksPass DEF Willing, TypeOK, Time
<1>5. /\ flow \in [pc : {"idle", "loop", "send", "stamp"}, since : Time,
                   todo : SUBSET AllItems, item : AllItems \cup {NoItem},
                   attempt : {1, 2}, willing : SUBSET Users]
      /\ flow.todo = batch /\ flow.pc \in {"idle", "loop"} /\ flow.item = NoItem
      /\ flow.pc = "idle" => flow.todo = {}
  BY <1>3, <1>4 DEF Resting
<1> HIDE DEF flow
<1>6. sweep' \in FlowType /\ sweep'[k] = flow /\ \A j \in Sweeps \ {k} : sweep'[j] = sweep[j]
  BY <1>1, <1>2, <1>5 DEF FlowType
<1>7. OwnItems'
  BY <1>1, <1>3, <1>5, <1>6 DEF OwnItems
<1>8. /\ \A j \in Sweeps \ {k} : \A i \in Items(j) : Reading(j, i)' => Reading(j, i)
      /\ \A i \in Items(k) : Reading(k, i)' => i \in batch
      /\ \A j \in Sweeps : \A i \in Items(j) : Stamping(j, i) => Stamping(j, i)'
      /\ \A i \in Items(k) : ~Stamping(k, i)
  BY <1>1, <1>5, <1>6 DEF Reading, Stamping
<1>9. /\ reminder' = [u \in Users |-> [e \in Events |-> reminder'[u][e]]]
      /\ \A u \in Users, e \in Events : Unsent(reminder'[u][e]) => Unsent(reminder[u][e])
  <2>1. reminder = [u \in Users |-> [e \in Events |-> reminder[u][e]]]
    BY <1>1 DEF TypeOK
  <2>2. CASE k = "reminders"
    <3>1. reminder' = [u \in Users |-> [e \in Events |->
            IF Unsent(reminder[u][e]) /\ Stale(reminder[u][e]) THEN Sent ELSE reminder[u][e]]]
      BY <2>2 DEF StartSweep, ReapStale
    <3>2. QED
      BY <3>1 DEF Unsent
  <2>3. CASE k # "reminders"
    BY <2>1, <2>3 DEF StartSweep
  <2>4. QED
    BY <2>2, <2>3
<1>10. TypeOK'
  <2>1. DOMAIN got' = Sweeps /\ \A j \in Sweeps : got'[j] \in [Slots(j) -> Nat]
    BY <1>1 DEF TypeOK
  <2>2. stamp' \in [Sweeps \ {"reminders"} -> [Users -> Nat \cup {Never}]]
    BY <1>1 DEF TypeOK
  <2>3. QED
    BY <1>1, <1>6, <1>9, <2>1, <2>2, AsideKeeps DEF TypeOK, FlowType, Slots
<1>11. RemindBudget'
  <2> SUFFICES ASSUME NEW u \in Users, NEW e \in Events
               PROVE  got["reminders"][<<u, e>>] + Owed(MayRemind(u, e)')
                        <= armings[u][e] + faults
    BY <1>1 DEF RemindBudget
  <2>1. got["reminders"][<<u, e>>] + Owed(MayRemind(u, e)) <= armings[u][e] + faults
    BY <1>1 DEF Budget, RemindBudget
  <2>2. got["reminders"][<<u, e>>] \in Nat /\ armings[u][e] \in Nat
    BY <1>1, GotType DEF TypeOK
  <2>3. "reminders" \in Sweeps /\ <<u, e>> \in Items("reminders")
    BY Kinds
  <2>4. MayRemind(u, e)' => MayRemind(u, e)
    <3>1. CASE k # "reminders"
      BY <1>8, <1>9, <2>3, <3>1 DEF MayRemind
    <3>2. CASE k = "reminders"
      <4>1. <<u, e>> \in batch => Unsent(reminder[u][e])
        BY <3>2, ReadDue DEF DueReminders
      <4>2. QED
        BY <1>8, <1>9, <2>3, <3>2, <4>1 DEF MayRemind
    <3>3. QED
      BY <3>1, <3>2
  <2>5. QED
    BY <1>1, <2>1, <2>2, <2>4 DEF Owed
<1>12. DigestBudget' /\ NudgeBudget'
  <2>1. /\ \A u \in Users : Stamping("digest", <<u, 0>>) => Stamping("digest", <<u, 0>>)'
        /\ \A j \in Nudges, u \in Users : Stamping(j, <<u, 0>>) => Stamping(j, <<u, 0>>)'
    BY <1>8, Kinds
  <2>2. ASSUME NEW u \in Users, NEW w \in Weeks
        PROVE  got["digest"][<<u, w>>] + Owed(MayDigest(u, w)') <= 1 + faults
    <3>1. MayDigest(u, w)' => MayDigest(u, w)
      BY <1>1, <2>1 DEF MayDigest, WeekOf
    <3>2. got["digest"][<<u, w>>] \in Nat
      BY <1>1, GotType
    <3>3. got["digest"][<<u, w>>] + Owed(MayDigest(u, w)) <= 1 + faults
      BY <1>1 DEF Budget, DigestBudget
    <3>4. QED
      BY <1>1, <3>1, <3>2, <3>3 DEF Owed
  <2>3. ASSUME NEW j \in Nudges, NEW u \in Users
        PROVE  got[j][<<u, 0>>] + Owed(MayNudge(j, u)') <= 1 + faults
    <3>1. MayNudge(j, u)' => MayNudge(j, u)
      BY <1>1, <2>1 DEF MayNudge
    <3>2. got[j][<<u, 0>>] \in Nat
      BY <1>1, GotType
    <3>3. got[j][<<u, 0>>] + Owed(MayNudge(j, u)) <= 1 + faults
      BY <1>1 DEF Budget, NudgeBudget
    <3>4. QED
      BY <1>1, <3>1, <3>2, <3>3 DEF Owed
  <2>4. QED
    BY <1>1, <2>2, <2>3 DEF DigestBudget, NudgeBudget
<1>13. Unstamped'
  <2>1. ASSUME NEW u \in Users, Reading("digest", <<u, 0>>)'
        PROVE  stamp["digest"][u] < WeekOf(now)
    <3>1. "digest" \in Sweeps /\ <<u, 0>> \in Items("digest")
      BY Kinds
    <3>2. CASE k = "digest"
      <4>1. <<u, 0>> \in DueDigest
        BY <1>8, <2>1, <3>1, <3>2, ReadDue
      <4>2. QED
        BY <4>1 DEF DueDigest
    <3>3. CASE k # "digest"
      BY <1>1, <1>8, <2>1, <3>1, <3>3 DEF Unstamped
    <3>4. QED
      BY <3>2, <3>3
  <2>2. ASSUME NEW j \in Nudges, NEW u \in Users, Reading(j, <<u, 0>>)'
        PROVE  stamp[j][u] = Never
    <3>1. j \in Sweeps /\ <<u, 0>> \in Items(j)
      BY Kinds
    <3>2. CASE k = j
      <4>1. <<u, 0>> \in DueNudge(j)
        BY <1>8, <2>2, <3>1, <3>2, ReadDue
      <4>2. QED
        BY <4>1 DEF DueNudge
    <3>3. CASE k # j
      BY <1>1, <1>8, <2>2, <3>1, <3>3 DEF Unstamped
    <3>4. QED
      BY <3>2, <3>3
  <2>3. \A u \in Users, w \in Weeks : WeekOf(now') < w => got'["digest"][<<u, w>>] = 0
    BY <1>1 DEF Unstamped
  <2>4. QED
    BY <1>1, <2>1, <2>2, <2>3 DEF Unstamped
<1>14. QED
  BY <1>1, <1>7, <1>10, <1>11, <1>12, <1>13, AsideKeeps DEF IInv, Budget

-----------------------------------------------------------------------------
(* The theorems.                                                           *)

LEMMA InitHolds == Init => IInv
<1> SUFFICES ASSUME Init PROVE IInv
  OBVIOUS
<1>1. now \in Time /\ now = 0 /\ now \in Nat
  BY WeeksPass DEF Init, Time
<1>2. Resting \in [pc : {"idle", "loop", "send", "stamp"}, since : Time,
                   todo : SUBSET AllItems, item : AllItems \cup {NoItem},
                   attempt : {1, 2}, willing : SUBSET Users]
  BY <1>1 DEF Init, Resting
<1>3. TypeOK
  <2>1. \A k \in Sweeps : got[k] = [s \in Slots(k) |-> 0]
    BY DEF Init
  <2>2. ASSUME NEW k \in Sweeps PROVE got[k] \in [Slots(k) -> Nat]
    <3>1. got[k] = [s \in Slots(k) |-> 0]
      BY <2>1
    <3>2. QED
      BY <3>1
  <2>3. stamp \in [Sweeps \ {"reminders"} -> [Users -> Nat \cup {Never}]]
    BY DEF Init
  <2>4. QED
    BY <1>1, <1>2, <2>2, <2>3 DEF Init, TypeOK
<1>4. OwnItems
  BY DEF Init, OwnItems, Resting
<1>5. \A k \in Sweeps : \A i \in Items(k) : ~Reading(k, i)
  BY DEF Init, Resting, Reading
<1>6. \A k \in Sweeps : got[k] = [s \in Slots(k) |-> 0]
  BY DEF Init
<1>7. /\ \A u \in Users, e \in Events : got["reminders"][<<u, e>>] = 0
      /\ \A u \in Users, w \in Weeks : got["digest"][<<u, w>>] = 0
      /\ \A k \in Nudges, u \in Users : got[k][<<u, 0>>] = 0
  BY <1>6, Kinds
<1>8. RemindBudget
  <2>1. \A u \in Users, e \in Events : ~MayRemind(u, e)
    BY <1>5, Kinds DEF Init, MayRemind, Unsent
  <2>2. faults = 0 /\ \A u \in Users, e \in Events : armings[u][e] = 0
    BY DEF Init
  <2>3. ASSUME NEW u \in Users, NEW e \in Events
        PROVE  got["reminders"][<<u, e>>] + Owed(MayRemind(u, e)) <= armings[u][e] + faults
    <3>1. Owed(MayRemind(u, e)) = 0
      BY <2>1 DEF Owed
    <3>2. QED
      BY <1>7, <2>2, <3>1
  <2>4. QED
    BY <2>3 DEF RemindBudget
<1>9. DigestBudget /\ NudgeBudget
  <2>1. faults = 0
    BY DEF Init
  <2>2. QED
    BY <1>7, <2>1 DEF DigestBudget, NudgeBudget, Owed
<1>10. Unstamped
  BY <1>5, <1>7, Kinds DEF Unstamped
<1>11. AfterMerge /\ NotResurrected
  BY DEF Init, AfterMerge, NotResurrected
<1>12. QED
  BY <1>3, <1>4, <1>8, <1>9, <1>10, <1>11 DEF IInv, Budget

LEMMA NextKeeps == IInv /\ [Next]_vars => IInv'
<1> SUFFICES ASSUME IInv, [Next]_vars PROVE IInv'
  OBVIOUS
<1>1. CASE UserStep
  BY <1>1, UserStepKeeps
<1>2. CASE Tick
  BY <1>2, TickKeeps
<1>3. CASE \E e \in Events : Withdraw(e)
  BY <1>3, WithdrawKeeps
<1>4. CASE \E k \in Sweeps : StartSweep(k) \/ Proceed(k) \/ LoseSweep(k)
  <2> PICK k \in Sweeps : StartSweep(k) \/ Proceed(k) \/ LoseSweep(k)
    BY <1>4
  <2>1. CASE StartSweep(k)
    BY <2>1, StartSweepKeeps
  <2>2. CASE \E i \in Items(k) : StartSend(k, i) \/ SkipItem(k, i)
    BY <2>2, StartSendKeeps, SkipItemKeeps
  <2>3. CASE SendAccepted(k)
    BY <2>3, SendAcceptedKeeps
  <2>4. CASE SendRejected(k)
    BY <2>4, SendRejectedKeeps
  <2>5. CASE SendFlooded(k)
    BY <2>5, SendFloodedKeeps
  <2>6. CASE \E arrived \in BOOLEAN : SendLost(k, arrived)
    BY <2>6, SendLostKeeps
  <2>7. CASE Stamp(k)
    BY <2>7, StampKeeps
  <2>8. CASE EndSweep(k) \/ LoseSweep(k)
    BY <2>8, RestKeeps
  <2>9. QED
    BY <2>1, <2>2, <2>3, <2>4, <2>5, <2>6, <2>7, <2>8 DEF Proceed
<1>5. CASE UNCHANGED vars
  <2>1. TypeOK'
    BY <1>5 DEF vars, account, IInv, TypeOK, Slots
  <2>2. OwnItems' /\ AfterMerge' /\ NotResurrected'
    BY <1>5 DEF vars, account, IInv, OwnItems, AfterMerge, NotResurrected
  <2>3. ArmedAnew /\ SameFlow /\ UNCHANGED <<now, stamp, got, faults>>
    BY <1>5 DEF vars, account, IInv, TypeOK, ArmedAnew, SameFlow
  <2>4. Budget' /\ Unstamped'
    BY <2>1, <2>3, RequestKeeps DEF IInv
  <2>5. QED
    BY <2>1, <2>2, <2>4 DEF IInv
<1>6. QED
  BY <1>1, <1>2, <1>3, <1>4, <1>5 DEF Next

\* Whoever the sweeps have read, sent to and not stamped yet, whatever was armed, muted,
\* taken out or lost meanwhile: the budgets of the messages hold.
THEOREM OutreachInvariance == Spec => []IInv
<1>1. QED
  BY InitHolds, NextKeeps, PTL DEF Spec

\* The budgets bound what came.
LEMMA WithinBudget == IInv => OnceEach
<1> SUFFICES ASSUME IInv PROVE OnceEach
  OBVIOUS
<1>1. Budget /\ TypeOK /\ faults \in Nat
  BY DEF IInv, TypeOK
<1>2. ASSUME NEW u \in Users, NEW e \in Events
      PROVE  got["reminders"][<<u, e>>] <= armings[u][e] + faults
  <2>1. got["reminders"][<<u, e>>] \in Nat /\ armings[u][e] \in Nat
    BY <1>1, GotType DEF TypeOK
  <2>2. QED
    BY <1>1, <2>1 DEF Budget, RemindBudget, Owed
<1>3. ASSUME NEW u \in Users, NEW w \in Weeks PROVE got["digest"][<<u, w>>] <= 1 + faults
  <2>1. got["digest"][<<u, w>>] \in Nat
    BY <1>1, GotType
  <2>2. QED
    BY <1>1, <2>1 DEF Budget, DigestBudget, Owed
<1>4. ASSUME NEW k \in Nudges, NEW u \in Users PROVE got[k][<<u, 0>>] <= 1 + faults
  <2>1. got[k][<<u, 0>>] \in Nat
    BY <1>1, GotType
  <2>2. QED
    BY <1>1, <2>1 DEF Budget, NudgeBudget, Owed
<1>5. ASSUME NEW k \in Sweeps \ {"reminders"}, NEW s \in Slots(k)
      PROVE  got[k][s] <= 1 + faults
  <2>1. CASE k = "digest"
    <3>1. PICK u \in Users, w \in Weeks : s = <<u, w>>
      BY <2>1, Kinds
    <3>2. QED
      BY <1>3, <2>1, <3>1
  <2>2. CASE k \in Nudges
    <3>1. PICK u \in Users : s = <<u, 0>>
      BY <2>2, Kinds
    <3>2. QED
      BY <1>4, <2>2, <3>1
  <2>3. QED
    BY <2>1, <2>2, Kinds
<1>6. QED
  BY <1>2, <1>5 DEF OnceEach

\* No user is reminded more often than the reminder was armed anew, digested twice a week
\* or nudged twice, but for lost answers and disrupted sweeps (reminders.py, digest.py,
\* welcome.py).
THEOREM NobodyTwice == Spec => []OnceEach
<1>1. QED
  BY OutreachInvariance, WithinBudget, PTL

\* No late device brings back what was taken out after the merge (bootstrap and
\* favorites/sync, users.py).
THEOREM NoneComesBack == Spec => []NotResurrected
<1>1. IInv => NotResurrected
  BY DEF IInv
<1>2. QED
  BY OutreachInvariance, <1>1, PTL

-----------------------------------------------------------------------------
(* Who gets a message wanted it, and in time.                              *)

\* A time to come that is the first one of all.
LEMMA EarliestIsFirst ==
  ASSUME NEW S \in SUBSET Nat, S # {}
  PROVE  Earliest(S) \in Nat
<1>1. PICK t \in S : \A x \in S : <<x, t>> \notin OpToRel(<, Nat)
  BY WFMin, NatLessThanWellFounded, Zenon
<1>2. \A x \in S : ~(x < t)
  BY <1>1, Zenon DEF OpToRel
<1>3. \A x \in S : t <= x
  BY <1>2
<1>4. QED
  BY <1>3 DEF Earliest

\* A reminder is armed for now or later.
LEMMA FiresLater ==
  ASSUME now \in Nat, NEW e \in Events
  PROVE  FireAt(e) \in Int /\ (FireAt(e) # NoRow => FireAt(e) >= now)
<1>1. /\ Lead \in Nat /\ ClosingLead \in Nat /\ Soon \in Nat
      /\ Sessions[e] \subseteq [start : Nat, end : Nat \cup {Open}]
  BY OutreachAssumption DEF OutreachAssumption
<1>2. StartsToCome(e) \in SUBSET Nat /\ EndsToCome(e) \in SUBSET Nat
  BY <1>1 DEF StartsToCome, EndsToCome
<1>3. CASE StartsToCome(e) # {}
  <2>1. Earliest(StartsToCome(e)) \in Nat
    BY <1>2, <1>3, EarliestIsFirst
  <2>2. FireAt(e) = Later(now, Earliest(StartsToCome(e)) - Lead)
    BY <1>3 DEF FireAt
  <2>3. QED
    BY <1>1, <2>1, <2>2 DEF Later
<1>4. CASE StartsToCome(e) = {} /\ EndsToCome(e) # {}
  <2>1. Earliest(EndsToCome(e)) \in Nat
    BY <1>2, <1>4, EarliestIsFirst
  <2>2. FireAt(e) = Later(now + Soon, Earliest(EndsToCome(e)) - ClosingLead)
    BY <1>4 DEF FireAt
  <2>3. QED
    BY <1>1, <2>1, <2>2 DEF Later
<1>5. CASE StartsToCome(e) = {} /\ EndsToCome(e) = {}
  BY <1>5 DEF FireAt, NoRow
<1>6. QED
  BY <1>3, <1>4, <1>5

\* What may happen to one sweep in a step: it goes on, it rests, or it begins.
GoesOn(k) ==
  /\ sweep'[k].since = sweep[k].since
  /\ sweep[k].willing \subseteq sweep'[k].willing
  /\ sweep'[k].pc # "idle" => sweep[k].pc # "idle"
  /\ \A i \in Items(k) : Reading(k, i)' => Reading(k, i)
Begins(k) ==
  /\ now' = now /\ sweep'[k].since = now
  /\ \A i \in Items(k) : Reading(k, i)' => i[1] \in sweep'[k].willing
  /\ k = "reminders" =>
       \A u \in Users, e \in Events :
         Reading(k, <<u, e>>)' /\ Unsent(reminder'[u][e]) => now <= reminder'[u][e] + Grace

\* What may happen to the reminders: a row is left, cleared, or armed for later.
RowsLater ==
  /\ reminder' \in [Users -> [Events -> Int]]
  /\ \A u \in Users, e \in Events :
       Unsent(reminder'[u][e]) => reminder'[u][e] = reminder[u][e] \/ reminder'[u][e] >= now

\* What may happen to the clock: it stands, or every sweep has just begun.
ClockOn ==
  \/ now' = now
  \/ now' = now + 1 /\ \A k \in Sweeps : sweep[k].pc # "idle" => sweep[k].since = now

LEMMA TimelyStep ==
  ASSUME IInv, TInv, \A k \in Sweeps : GoesOn(k) \/ sweep'[k] = Resting \/ Begins(k),
         RowsLater, ClockOn
  PROVE  TInv'
<1>1. /\ now \in Nat /\ Grace \in Nat /\ TypeOK
      /\ \A k \in Sweeps : sweep[k].since \in Nat
  BY WeeksPass, OutreachAssumption DEF IInv, TypeOK, Time, OutreachAssumption
<1>2. \A k \in Sweeps : sweep'[k] = Resting =>
        sweep'[k].pc = "idle" /\ \A i \in Items(k) : ~Reading(k, i)'
  BY DEF Resting, Reading
<1>3. Wanted'
  <2> SUFFICES ASSUME NEW k \in Sweeps, NEW i \in Items(k), Reading(k, i)'
               PROVE  i[1] \in sweep'[k].willing
    BY DEF Wanted, Items
  <2>1. CASE GoesOn(k)
    BY <2>1 DEF GoesOn, TInv, Wanted
  <2>2. QED
    BY <1>2, <2>1 DEF Begins
<1>4. ASSUME NEW k \in Sweeps, sweep'[k].pc # "idle"
      PROVE  now' \in {sweep'[k].since, sweep'[k].since + 1}
  <2>1. CASE GoesOn(k)
    <3>1. sweep[k].pc # "idle" /\ sweep'[k].since = sweep[k].since
      BY <1>4, <2>1 DEF GoesOn
    <3>2. now \in {sweep[k].since, sweep[k].since + 1}
      BY <3>1 DEF TInv, InGrace
    <3>3. QED
      BY <3>1, <3>2 DEF ClockOn
  <2>2. QED
    BY <1>2, <1>4, <2>1 DEF Begins
<1>5. ASSUME NEW u \in Users, NEW e \in Events, Reading("reminders", <<u, e>>)',
             Unsent(reminder'[u][e])
      PROVE  sweep'["reminders"].since <= reminder'[u][e] + Grace
  <2>0. "reminders" \in Sweeps /\ <<u, e>> \in Items("reminders") /\ reminder'[u][e] \in Int
    BY Kinds DEF RowsLater
  <2>1. CASE GoesOn("reminders")
    <3>1. Reading("reminders", <<u, e>>) /\ sweep'["reminders"].since = sweep["reminders"].since
      BY <1>5, <2>0, <2>1 DEF GoesOn
    <3>2. sweep["reminders"].pc # "idle"
      BY <2>0, <3>1 DEF IInv, OwnItems, Reading
    <3>3. now \in {sweep["reminders"].since, sweep["reminders"].since + 1}
      BY <2>0, <3>2 DEF TInv, InGrace
    <3>4. reminder'[u][e] = reminder[u][e] \/ reminder'[u][e] >= now
      BY <1>5 DEF RowsLater
    <3>5. CASE reminder'[u][e] = reminder[u][e]
      <4>1. sweep["reminders"].since <= reminder[u][e] + Grace
        BY <1>5, <3>1, <3>5 DEF TInv, InGrace
      <4>2. QED
        BY <3>1, <3>5, <4>1
    <3>6. CASE reminder'[u][e] >= now
      BY <1>1, <2>0, <3>1, <3>3, <3>6
    <3>7. QED
      BY <3>4, <3>5, <3>6
  <2>2. CASE Begins("reminders")
    BY <1>5, <2>2 DEF Begins
  <2>3. QED
    BY <1>2, <1>5, <2>0, <2>1, <2>2
<1>6. InGrace'
  BY <1>4, <1>5 DEF InGrace, RowsLater
<1>7. QED
  BY <1>3, <1>6 DEF TInv

\* The rows of a request: each is left, cleared, or armed by FireAt.
LEMMA RequestRows ==
  ASSUME TypeOK, InGrace, UserStep
  PROVE  RowsLater
<1> PICK u \in Users :
      \/ MuteReminders(u) \/ UnmuteReminders(u) \/ ToggleDigest(u) \/ PickCity(u)
      \/ \E local \in SUBSET Events : OpenApp(u, local)
      \/ \E e \in Events : \/ Heart(u, e) \/ Unheart(u, e)
                           \/ RingBell(u, e) \/ SilenceBell(u, e)
  BY DEF UserStep
<1>1. now \in Nat /\ reminder \in [Users -> [Events -> Int]]
  BY WeeksPass DEF TypeOK, InGrace, Time
<1>2. \A e \in Events : FireAt(e) \in Int /\ (FireAt(e) # NoRow => FireAt(e) >= now)
  BY <1>1, FiresLater
<1>3. ASSUME NEW rows, NEW anew, PutReminders(u, rows, anew), rows \in [Events -> Int],
             \A e \in Events : rows[e] = NoRow \/ rows[e] = reminder[u][e] \/ rows[e] >= now
      PROVE  RowsLater
  <2>1. reminder' = [reminder EXCEPT ![u] = rows]
    BY <1>3 DEF PutReminders
  <2>2. reminder' \in [Users -> [Events -> Int]]
    BY <1>1, <1>3, <2>1
  <2>3. \A v \in Users, e \in Events :
          Unsent(reminder'[v][e]) => reminder'[v][e] = reminder[v][e] \/ reminder'[v][e] >= now
    BY <1>1, <1>3, <2>1 DEF Unsent
  <2>4. QED
    BY <2>2, <2>3 DEF RowsLater
<1>4. CASE UNCHANGED reminder
  BY <1>1, <1>4 DEF RowsLater
<1>5. ASSUME NEW rows, NEW e \in Events, NEW row \in Int,
             rows = [reminder[u] EXCEPT ![e] = row],
             row = NoRow \/ row = reminder[u][e] \/ row >= now
      PROVE  /\ rows \in [Events -> Int]
             /\ \A x \in Events : rows[x] = NoRow \/ rows[x] = reminder[u][x] \/ rows[x] >= now
  BY <1>1, <1>5
<1>6. ASSUME NEW e \in Events
      PROVE  /\ ArmIfUnsent(reminder[u][e], FireAt(e)) \in Int
             /\ Rearm(reminder[u][e], FireAt(e)) \in Int /\ NoRow \in Int
             /\ \/ ArmIfUnsent(reminder[u][e], FireAt(e)) = reminder[u][e]
                \/ ArmIfUnsent(reminder[u][e], FireAt(e)) >= now
             /\ \/ Rearm(reminder[u][e], FireAt(e)) = reminder[u][e]
                \/ Rearm(reminder[u][e], FireAt(e)) >= now
  <2>1. reminder[u][e] \in Int
    BY <1>1
  <2>2. QED
    BY <1>2, <2>1 DEF ArmIfUnsent, Rearm, NoRow
<1>7. ASSUME NEW e \in Events, Heart(u, e)
      PROVE  RowsLater
  <2>1. CASE u \in wantsReminders
    <3>1. PutReminders(u, [reminder[u] EXCEPT ![e] = ArmIfUnsent(reminder[u][e], FireAt(e))],
                       Rowless(u) \cap {e})
      BY <1>7, <2>1 DEF Heart
    <3>2. QED
      BY <1>3, <1>5, <1>6, <3>1
  <2>2. CASE u \notin wantsReminders
    BY <1>4, <1>7, <2>2 DEF Heart
  <2>3. QED
    BY <2>1, <2>2
<1>8. ASSUME NEW e \in Events, Unheart(u, e) \/ SilenceBell(u, e)
      PROVE  RowsLater
  <2>1. PutReminders(u, [reminder[u] EXCEPT ![e] = NoRow], {})
    BY <1>8 DEF Unheart, SilenceBell
  <2>2. QED
    BY <1>3, <1>5, <1>6, <2>1
<1>9. ASSUME NEW e \in Events, RingBell(u, e)
      PROVE  RowsLater
  <2>1. PutReminders(u, [reminder[u] EXCEPT ![e] = Rearm(reminder[u][e], FireAt(e))],
                     IF Unsent(reminder[u][e]) THEN {} ELSE {e})
    BY <1>9 DEF RingBell
  <2>2. QED
    BY <1>3, <1>5, <1>6, <2>1
<1>10. CASE UnmuteReminders(u)
  <2> DEFINE rows == [e \in Events |->
        IF e \in saved[u] THEN ArmIfUnsent(reminder[u][e], FireAt(e)) ELSE reminder[u][e]]
  <2>1. PutReminders(u, rows, Rowless(u) \cap saved[u])
    BY <1>10 DEF UnmuteReminders
  <2>2. /\ rows \in [Events -> Int]
        /\ \A e \in Events : rows[e] = NoRow \/ rows[e] = reminder[u][e] \/ rows[e] >= now
    BY <1>1, <1>6
  <2> HIDE DEF rows
  <2>3. QED
    BY <1>3, <2>1, <2>2
<1>11. CASE MuteReminders(u) \/ ToggleDigest(u) \/ PickCity(u)
            \/ \E local \in SUBSET Events : OpenApp(u, local)
  BY <1>4, <1>11 DEF MuteReminders, ToggleDigest, PickCity, OpenApp
<1>12. QED
  BY <1>7, <1>8, <1>9, <1>10, <1>11

\* A request lets every sweep go on, and may make a user willing.
LEMMA RequestGoesOn ==
  ASSUME TypeOK, UserStep
  PROVE  now' = now /\ \A k \in Sweeps : GoesOn(k)
<1> PICK u \in Users :
      \/ MuteReminders(u) \/ UnmuteReminders(u) \/ ToggleDigest(u) \/ PickCity(u)
      \/ \E local \in SUBSET Events : OpenApp(u, local)
      \/ \E e \in Events : \/ Heart(u, e) \/ Unheart(u, e)
                           \/ RingBell(u, e) \/ SilenceBell(u, e)
  BY DEF UserStep
<1>1. sweep \in FlowType
  BY DEF TypeOK, FlowType
<1>2. now' = now
  BY DEF MuteReminders, UnmuteReminders, ToggleDigest, PickCity, OpenApp, Heart, Unheart,
         RingBell, SilenceBell
<1>3. ASSUME NEW k \in Sweeps, NEW W, sweep'[k] = [sweep[k] EXCEPT !.willing = @ \cup W]
      PROVE  GoesOn(k)
  <2>1. /\ sweep'[k].pc = sweep[k].pc /\ sweep'[k].todo = sweep[k].todo
        /\ sweep'[k].item = sweep[k].item /\ sweep'[k].since = sweep[k].since
        /\ sweep[k].willing \subseteq sweep'[k].willing
    BY <1>1, <1>3 DEF FlowType
  <2>2. QED
    BY <2>1 DEF GoesOn, Reading
<1>4. ASSUME NEW k \in Sweeps, sweep'[k] = sweep[k]
      PROVE  GoesOn(k)
  BY <1>4 DEF GoesOn, Reading
<1>5. CASE UNCHANGED sweep
  BY <1>2, <1>4, <1>5
<1>6. CASE UnmuteReminders(u)
  <2>1. sweep' = [sweep EXCEPT !["reminders"].willing = @ \cup {u}]
    BY <1>6 DEF UnmuteReminders
  <2>2. /\ sweep'["reminders"] = [sweep["reminders"] EXCEPT !.willing = @ \cup {u}]
        /\ \A k \in Sweeps \ {"reminders"} : sweep'[k] = sweep[k]
    BY <1>1, <2>1, Kinds DEF FlowType
  <2>3. QED
    BY <1>2, <1>3, <1>4, <2>2
<1>7. CASE ToggleDigest(u)
  <2>1. sweep' = [k \in Sweeps |->
          IF k # "reminders" /\ u \notin wantsDigest
          THEN [sweep[k] EXCEPT !.willing = @ \cup {u}] ELSE sweep[k]]
    BY <1>7 DEF ToggleDigest
  <2>2. ASSUME NEW k \in Sweeps
        PROVE  sweep'[k] = [sweep[k] EXCEPT !.willing = @ \cup {u}] \/ sweep'[k] = sweep[k]
    BY <2>1
  <2>3. QED
    BY <1>2, <1>3, <1>4, <2>2
<1>8. CASE UNCHANGED sweep \/ UnmuteReminders(u) \/ ToggleDigest(u)
  BY <1>5, <1>6, <1>7, <1>8
<1>9. QED
  BY <1>2, <1>8 DEF MuteReminders, PickCity, OpenApp, Heart, Unheart, RingBell, SilenceBell

\* So does every step of a sweep but the first, for all of them but the one that rests.
LEMMA FlowGoesOn ==
  ASSUME IInv, InGrace, NEW k \in Sweeps, Proceed(k) \/ LoseSweep(k)
  PROVE  /\ \A j \in Sweeps : GoesOn(j) \/ sweep'[j] = Resting
         /\ RowsLater /\ now' = now
<1>1. sweep \in FlowType /\ reminder \in [Users -> [Events -> Int]]
  BY DEF IInv, TypeOK, InGrace, FlowType
<1>2. ASSUME NEW flow, sweep' = [sweep EXCEPT ![k] = flow],
             flow.since = sweep[k].since, flow.willing = sweep[k].willing,
             flow.pc # "idle" => sweep[k].pc # "idle", flow.todo \subseteq sweep[k].todo,
             flow.pc = "send" => flow.item \in sweep[k].todo
                                   \/ (sweep[k].pc = "send" /\ flow.item = sweep[k].item)
      PROVE  \A j \in Sweeps : GoesOn(j)
  <2>1. sweep'[k] = flow /\ \A j \in Sweeps \ {k} : sweep'[j] = sweep[j]
    BY <1>1, <1>2 DEF FlowType
  <2>2. GoesOn(k)
    BY <1>2, <2>1 DEF GoesOn, Reading
  <2>3. \A j \in Sweeps \ {k} : GoesOn(j)
    BY <2>1 DEF GoesOn, Reading
  <2>4. QED
    BY <2>2, <2>3
<1>3. /\ DOMAIN sweep[k] = {"pc", "since", "todo", "item", "attempt", "willing"}
      /\ sweep[k] = [pc |-> sweep[k].pc, since |-> sweep[k].since, todo |-> sweep[k].todo,
                     item |-> sweep[k].item, attempt |-> sweep[k].attempt,
                     willing |-> sweep[k].willing]
  BY <1>1 DEF FlowType
<1>4. CASE \E i \in Items(k) : StartSend(k, i) \/ SkipItem(k, i)
  <2> PICK i \in Items(k) : StartSend(k, i) \/ SkipItem(k, i)
    BY <1>4
  <2>1. CASE StartSend(k, i)
    <3> DEFINE flow == [sweep[k] EXCEPT !.pc = "send", !.item = i, !.attempt = 1, !.todo = @ \ {i}]
    <3>1. sweep' = [sweep EXCEPT ![k] = flow] /\ sweep[k].pc = "loop" /\ i \in sweep[k].todo
      BY <2>1 DEF StartSend
    <3>2. /\ flow.since = sweep[k].since /\ flow.willing = sweep[k].willing /\ flow.item = i
          /\ flow.todo \subseteq sweep[k].todo
      BY <1>3
    <3> HIDE DEF flow
    <3>3. \A j \in Sweeps : GoesOn(j)
      BY <1>2, <3>1, <3>2
    <3>4. QED
      BY <1>1, <2>1, <3>3 DEF StartSend, RowsLater
  <2>2. CASE SkipItem(k, i)
    <3> DEFINE flow == [sweep[k] EXCEPT !.todo = @ \ {i}]
    <3>1. sweep' = [sweep EXCEPT ![k] = flow] /\ sweep[k].pc = "loop"
      BY <2>2 DEF SkipItem
    <3>2. /\ flow.since = sweep[k].since /\ flow.willing = sweep[k].willing
          /\ flow.todo \subseteq sweep[k].todo /\ flow.pc = sweep[k].pc
      BY <1>3
    <3> HIDE DEF flow
    <3>3. \A j \in Sweeps : GoesOn(j)
      BY <1>2, <3>1, <3>2
    <3>4. QED
      BY <1>1, <2>2, <3>3 DEF SkipItem, RowsLater
  <2>3. QED
    BY <2>1, <2>2
<1>5. ASSUME sweep' = NextItem(k) \/ sweep' = ToStamp(k), sweep[k].pc # "idle"
      PROVE  \A j \in Sweeps : GoesOn(j)
  <2> DEFINE next == [sweep[k] EXCEPT !.pc = "loop", !.item = NoItem, !.attempt = 1]
             stmp == [sweep[k] EXCEPT !.pc = "stamp", !.attempt = 1]
  <2>1. sweep' = [sweep EXCEPT ![k] = next] \/ sweep' = [sweep EXCEPT ![k] = stmp]
    BY <1>5 DEF NextItem, ToStamp
  <2>2. /\ next.since = sweep[k].since /\ next.willing = sweep[k].willing /\ next.pc = "loop"
        /\ next.todo = sweep[k].todo
        /\ stmp.since = sweep[k].since /\ stmp.willing = sweep[k].willing /\ stmp.pc = "stamp"
        /\ stmp.todo = sweep[k].todo
    BY <1>3
  <2> HIDE DEF next, stmp
  <2>3. QED
    BY <1>2, <1>5, <2>1, <2>2
<1>6. CASE SendAccepted(k) \/ SendRejected(k) \/ \E arrived \in BOOLEAN : SendLost(k, arrived)
  BY <1>1, <1>5, <1>6 DEF SendAccepted, SendRejected, SendLost, RowsLater
<1>7. CASE SendFlooded(k)
  <2>1. sweep[k].pc = "send" /\ UNCHANGED <<now, reminder>>
    BY <1>7 DEF SendFlooded
  <2>2. CASE sweep' = NextItem(k)
    BY <1>1, <1>5, <2>1, <2>2 DEF RowsLater
  <2>3. CASE sweep' = [sweep EXCEPT ![k].attempt = 2]
    <3> DEFINE flow == [sweep[k] EXCEPT !.attempt = 2]
    <3>1. sweep' = [sweep EXCEPT ![k] = flow]
      BY <2>3
    <3>2. /\ flow.since = sweep[k].since /\ flow.willing = sweep[k].willing
          /\ flow.pc = sweep[k].pc /\ flow.todo = sweep[k].todo /\ flow.item = sweep[k].item
      BY <1>3
    <3> HIDE DEF flow
    <3>3. QED
      BY <1>1, <1>2, <2>1, <3>1, <3>2 DEF RowsLater
  <2>4. QED
    BY <1>7, <2>2, <2>3 DEF SendFlooded
<1>8. CASE Stamp(k)
  <2>1. \A j \in Sweeps : GoesOn(j)
    BY <1>5, <1>8 DEF Stamp
  <2>2. RowsLater
    <3>1. UNCHANGED reminder \/ reminder' = [reminder EXCEPT ![sweep[k].item[1]][sweep[k].item[2]] =
                                               IF @ = NoRow THEN NoRow ELSE Sent]
      BY <1>8 DEF Stamp
    <3>2. NoRow \in Int /\ Sent \in Int /\ ~Unsent(NoRow) /\ ~Unsent(Sent)
      BY DEF NoRow, Sent, Unsent
    <3> HIDE DEF NoRow, Sent, Unsent
    <3>3. QED
      BY <1>1, <3>1, <3>2 DEF RowsLater
  <2>3. QED
    BY <1>8, <2>1, <2>2 DEF Stamp
<1>9. CASE EndSweep(k) \/ LoseSweep(k)
  <2>1. sweep' = [sweep EXCEPT ![k] = Resting] /\ UNCHANGED <<now, reminder>>
    BY <1>9 DEF EndSweep, LoseSweep
  <2>2. \A j \in Sweeps : sweep'[j] = sweep[j] \/ sweep'[j] = Resting
    BY <1>1, <2>1 DEF FlowType
  <2>3. \A j \in Sweeps : GoesOn(j) \/ sweep'[j] = Resting
    BY <2>2 DEF GoesOn, Reading
  <2>4. QED
    BY <1>1, <2>1, <2>3 DEF RowsLater
<1>10. QED
  BY <1>4, <1>6, <1>7, <1>8, <1>9 DEF Proceed

\* A sweep begins with those who want its messages, and with reminders in their grace.
LEMMA StartBegins ==
  ASSUME IInv, InGrace, NEW k \in Sweeps, StartSweep(k)
  PROVE  /\ \A j \in Sweeps : GoesOn(j) \/ sweep'[j] = Resting \/ Begins(j)
         /\ RowsLater /\ now' = now
<1>1. /\ sweep \in FlowType /\ reminder \in [Users -> [Events -> Int]]
      /\ now \in Nat /\ Grace \in Nat /\ now' = now
  BY WeeksPass, OutreachAssumption
  DEF IInv, TypeOK, InGrace, FlowType, Time, OutreachAssumption, StartSweep
<1>2. PICK batch \in Batches(k) :
      sweep' = [sweep EXCEPT ![k] =
        IF batch = {} THEN Resting
        ELSE [Resting EXCEPT !.pc = "loop", !.since = now, !.todo = batch,
                             !.willing = Willing(k)]]
  BY DEF StartSweep
<1>3. RowsLater /\ \A u \in Users, e \in Events :
                     Unsent(reminder'[u][e]) => reminder'[u][e] = reminder[u][e]
  <2>1. CASE k = "reminders"
    <3>1. reminder' = [u \in Users |-> [e \in Events |->
            IF Unsent(reminder[u][e]) /\ Stale(reminder[u][e]) THEN Sent ELSE reminder[u][e]]]
      BY <2>1 DEF StartSweep, ReapStale
    <3>2. Sent \in Int /\ ~Unsent(Sent)
      BY DEF Sent, Unsent
    <3> HIDE DEF Unsent, Stale, Sent
    <3>3. reminder' \in [Users -> [Events -> Int]]
      BY <1>1, <3>1, <3>2
    <3>4. QED
      BY <3>1, <3>2, <3>3 DEF RowsLater
  <2>2. CASE k # "reminders"
    BY <1>1, <2>2 DEF StartSweep, RowsLater
  <2>3. QED
    BY <2>1, <2>2
<1>4. \A j \in Sweeps \ {k} : sweep'[j] = sweep[j]
  BY <1>1, <1>2 DEF FlowType
<1>5. \A j \in Sweeps \ {k} : GoesOn(j)
  BY <1>4 DEF GoesOn, Reading
<1>6. sweep'[k] = Resting \/ Begins(k)
  <2>1. CASE batch = {}
    BY <1>1, <1>2, <2>1 DEF FlowType
  <2>2. CASE batch # {}
    <3> DEFINE flow == [Resting EXCEPT !.pc = "loop", !.since = now, !.todo = batch,
                                       !.willing = Willing(k)]
    <3>1. /\ flow.since = now /\ flow.todo = batch /\ flow.willing = Willing(k)
          /\ flow.pc = "loop"
      BY DEF Resting
    <3>2. sweep'[k] = flow
      BY <1>1, <1>2, <2>2 DEF FlowType
    <3> HIDE DEF flow
    <3>3. \A i \in Items(k) : Reading(k, i)' => i \in batch
      BY <3>1, <3>2 DEF Reading
    <3>4. \A i \in batch : i[1] \in Willing(k)
      BY ReadDue, Kinds DEF DueReminders, DueDigest, DueNudge, Willing
    <3>5. ASSUME NEW u \in Users, NEW e \in Events, <<u, e>> \in batch, k = "reminders",
                 Unsent(reminder'[u][e])
          PROVE  now <= reminder'[u][e] + Grace
      <4>1. <<u, e>> \in DueReminders
        BY <3>5, ReadDue
      <4>2. ~Stale(reminder[u][e])
        BY <4>1 DEF DueReminders
      <4>3. reminder'[u][e] = reminder[u][e] /\ reminder[u][e] \in Int
        BY <1>1, <1>3, <3>5
      <4>4. QED
        BY <1>1, <4>2, <4>3 DEF Stale
    <3>6. "reminders" \in Sweeps /\ \A u \in Users, e \in Events : <<u, e>> \in Items("reminders")
      BY Kinds
    <3>7. QED
      BY <1>1, <3>1, <3>2, <3>3, <3>4, <3>5, <3>6 DEF Begins
  <2>3. QED
    BY <2>1, <2>2
<1>7. QED
  BY <1>1, <1>3, <1>5, <1>6

LEMMA TimelyInit == Init => TInv
<1> SUFFICES ASSUME Init PROVE TInv
  OBVIOUS
<1>1. \A k \in Sweeps : sweep[k] = Resting
  BY DEF Init
<1>2. \A k \in Sweeps : sweep[k].pc = "idle" /\ sweep[k].todo = {}
  BY <1>1 DEF Resting
<1>3. \A k \in Sweeps : \A i : ~Reading(k, i)
  BY <1>2 DEF Reading
<1>4. reminder \in [Users -> [Events -> Int]]
  BY DEF Init, NoRow
<1>5. QED
  BY <1>2, <1>3, <1>4, Kinds DEF TInv, Wanted, InGrace

LEMMA TimelyNext == IInv /\ TInv /\ [Next]_vars => TInv'
<1> SUFFICES ASSUME IInv, TInv, [Next]_vars PROVE TInv'
  OBVIOUS
<1>1. TypeOK /\ InGrace /\ reminder \in [Users -> [Events -> Int]]
  BY DEF IInv, TInv, InGrace
<1>2. ASSUME UNCHANGED <<sweep, reminder>>
      PROVE  (\A k \in Sweeps : GoesOn(k)) /\ RowsLater
  BY <1>1, <1>2 DEF GoesOn, Reading, RowsLater
<1>3. CASE UserStep
  <2>1. RowsLater /\ ClockOn /\ \A k \in Sweeps : GoesOn(k)
    BY <1>1, <1>3, RequestRows, RequestGoesOn DEF ClockOn
  <2>2. QED
    BY <2>1, TimelyStep
<1>4. CASE Tick
  <2>1. ClockOn /\ UNCHANGED <<sweep, reminder>>
    BY <1>4 DEF Tick, ClockOn
  <2>2. QED
    BY <1>2, <2>1, TimelyStep
<1>5. CASE UNCHANGED vars \/ \E e \in Events : Withdraw(e)
  <2>1. ClockOn /\ UNCHANGED <<sweep, reminder>>
    BY <1>5 DEF Withdraw, ClockOn, vars
  <2>2. QED
    BY <1>2, <2>1, TimelyStep
<1>6. ASSUME NEW k \in Sweeps, StartSweep(k)
      PROVE  TInv'
  <2>1. /\ \A j \in Sweeps : GoesOn(j) \/ sweep'[j] = Resting \/ Begins(j)
        /\ RowsLater /\ ClockOn
    BY <1>1, <1>6, StartBegins DEF ClockOn
  <2>2. QED
    BY <2>1, TimelyStep
<1>7. ASSUME NEW k \in Sweeps, Proceed(k) \/ LoseSweep(k)
      PROVE  TInv'
  <2>1. /\ \A j \in Sweeps : GoesOn(j) \/ sweep'[j] = Resting
        /\ RowsLater /\ ClockOn
    BY <1>1, <1>7, FlowGoesOn DEF ClockOn
  <2>2. QED
    BY <2>1, TimelyStep
<1>8. QED
  BY <1>3, <1>4, <1>5, <1>6, <1>7 DEF Next

\* Only a sweep that is sending delivers, and only to the item it sends.
LEMMA DeliversOwn ==
  ASSUME IInv, [Next]_vars, NEW k \in Sweeps, got'[k] # got[k]
  PROVE  /\ sweep[k].pc = "send"
         /\ k = "reminders" =>
              \A u \in Users, e \in Events :
                got'[k][<<u, e>>] # got[k][<<u, e>>] => sweep[k].item = <<u, e>>
<1>1. DOMAIN got = Sweeps /\ \A j \in Sweeps : got[j] \in [Slots(j) -> Nat]
  BY DEF IInv, TypeOK
<1>2. \E j \in Sweeps : Deliver(j) /\ sweep[j].pc = "send"
  <2>1. CASE UserStep
    BY <2>1 DEF UserStep, MuteReminders, UnmuteReminders, ToggleDigest, PickCity, OpenApp,
                Heart, Unheart, RingBell, SilenceBell
  <2>2. CASE Tick \/ (\E e \in Events : Withdraw(e)) \/ UNCHANGED vars
    BY <2>2 DEF Tick, Withdraw, vars
  <2>3. ASSUME NEW j \in Sweeps, StartSweep(j) \/ Proceed(j) \/ LoseSweep(j)
        PROVE  Deliver(j) /\ sweep[j].pc = "send"
    BY <2>3 DEF StartSweep, LoseSweep, Proceed, StartSend, SkipItem, SendAccepted,
                SendRejected, SendFlooded, SendLost, Stamp, EndSweep
  <2>4. QED
    BY <2>1, <2>2, <2>3 DEF Next
<1>3. PICK j \in Sweeps : Deliver(j) /\ sweep[j].pc = "send"
  BY <1>2
<1> DEFINE s == IF j = "digest" THEN <<sweep[j].item[1], WeekOf(now)>> ELSE sweep[j].item
<1>4. got' = [got EXCEPT ![j] = [got[j] EXCEPT ![s] = got[j][s] + 1]]
  BY <1>1, <1>3 DEF Deliver
<1> HIDE DEF s
<1>5. j = k
  BY <1>1, <1>4
<1>6. ASSUME k = "reminders", NEW u \in Users, NEW e \in Events,
             got'[k][<<u, e>>] # got[k][<<u, e>>]
      PROVE  sweep[k].item = <<u, e>>
  <2>1. s = sweep[k].item
    BY <1>5, <1>6 DEF s
  <2>2. got[k] \in [Users \X Events -> Nat] /\ got'[k] = [got[k] EXCEPT ![s] = got[k][s] + 1]
    BY <1>1, <1>4, <1>5, <1>6, Kinds
  <2>3. QED
    BY <1>6, <2>1, <2>2
<1>7. QED
  BY <1>3, <1>5, <1>6

\* The users' mutes and the grace are kept by every sweep, whatever users switch and
\* however long the worker was down (reminders.py, digest.py, welcome.py).
THEOREM WantedOnly == Spec => WantedInTime
<1>1. ASSUME IInv, TInv, [Next]_vars, NEW k \in Sweeps, got'[k] # got[k]
      PROVE  sweep[k].item[1] \in sweep[k].willing
  <2>1. sweep[k].pc = "send"
    BY <1>1, DeliversOwn
  <2>2. sweep[k].item \in Items(k) /\ Reading(k, sweep[k].item)
    BY <1>1, <2>1, FlowParts DEF Reading
  <2>3. QED
    BY <1>1, <2>2 DEF TInv, Wanted
<1>2. ASSUME IInv, TInv, [Next]_vars, NEW u \in Users, NEW e \in Events,
             got'["reminders"][<<u, e>>] > got["reminders"][<<u, e>>], Unsent(reminder[u][e])
      PROVE  now <= reminder[u][e] + Grace + 1
  <2>1. "reminders" \in Sweeps /\ got["reminders"][<<u, e>>] \in Nat
    BY <1>2, Kinds, GotType DEF IInv
  <2>2. got'["reminders"][<<u, e>>] # got["reminders"][<<u, e>>]
    BY <1>2, <2>1
  <2>3. sweep["reminders"].pc = "send" /\ sweep["reminders"].item = <<u, e>>
    BY <1>2, <2>1, <2>2, DeliversOwn
  <2>4. Reading("reminders", <<u, e>>)
    BY <2>3 DEF Reading
  <2>5. /\ sweep["reminders"].since <= reminder[u][e] + Grace
        /\ now \in {sweep["reminders"].since, sweep["reminders"].since + 1}
    BY <1>2, <2>1, <2>3, <2>4 DEF TInv, InGrace
  <2>6. /\ reminder[u][e] \in Int /\ Grace \in Nat /\ now \in Nat
        /\ sweep["reminders"].since \in Nat
    BY <1>2, <2>1, WeeksPass, OutreachAssumption
    DEF TInv, InGrace, IInv, TypeOK, Time, OutreachAssumption
  <2>7. QED
    BY <2>5, <2>6
<1>3. IInv /\ TInv /\ [Next]_vars =>
        [/\ \A k \in Sweeps : got'[k] # got[k] => sweep[k].item[1] \in sweep[k].willing
         /\ \A u \in Users, e \in Events :
              got'["reminders"][<<u, e>>] > got["reminders"][<<u, e>>] /\ Unsent(reminder[u][e])
                => now <= reminder[u][e] + Grace + 1]_vars
  BY <1>1, <1>2
<1>4. Spec => []TInv
  BY TimelyInit, TimelyNext, OutreachInvariance, PTL DEF Spec
<1>5. QED
  BY <1>3, <1>4, OutreachInvariance, PTL DEF Spec, WantedInTime
=============================================================================
