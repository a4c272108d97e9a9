-------------------------- MODULE BroadcastsProofs --------------------------
(***************************************************************************)
(* What holds of broadcasts for every number of campaigns, users, contents *)
(* and overlapping dispatcher passes.  The invariant IInv of Broadcasts is *)
(* inductive; there is one lemma per conjunct of it.  A lemma treats the   *)
(* actions that touch the variables of its conjunct one by one and leaves  *)
(* the others to a single case in which those variables do not change.     *)
(***************************************************************************)
EXTENDS Broadcasts, TLAPS

\* The batch of a LIMIT clause is a part of what it is taken from.
LEMMA FirstOfSubset == ASSUME NEW S, NEW n PROVE FirstOf(S, n) \subseteq S
  BY DEF FirstOf

\* The recipients of a pass are opted-in members of the audience, with at_local
\* those whose hour has come.
LEMMA RecipientsBounds ==
  ASSUME NEW r
  PROVE  /\ Recipients(r) \subseteq Audience(r.letter)
         /\ r.kind = "at_local" => Recipients(r) \subseteq ripe[r.camp]
         /\ r.kind # "at_local" => Recipients(r) = Audience(r.letter)
  BY FirstOfSubset DEF Recipients

\* The state of an idle dispatcher is a run.
LEMMA IdleRunType == IdleRun \in Runs
  BY BroadcastsAssumption DEF BroadcastsAssumption, IdleRun, Runs, Steps, Verdicts

\* A recorded result is a ledger row, never the absence of one.
LEMMA RowOfType == \A v \in Verdicts : RowOf(v) \in Rows \ {"none"}
  BY DEF Verdicts, RowOf, Rows

-----------------------------------------------------------------------------
(* Types.                                                                  *)

\* The dispatcher runs keep their type.
LEMMA RunTypeStep ==
  ASSUME TypeOK, PassInv, [Next]_vars
  PROVE  run' \in [Dispatchers -> Runs]
<1>1. run \in [Dispatchers -> Runs]
  BY DEF TypeOK
<1>2. ASSUME NEW d \in Dispatchers, NEW r \in Runs, run' = [run EXCEPT ![d] = r]
      PROVE  run' \in [Dispatchers -> Runs]
  BY <1>1, <1>2
<1>3. CASE UNCHANGED run
  BY <1>1, <1>3
<1>4. ASSUME NEW d \in Dispatchers, DispatchStep(d) \/ Disruption(d)
      PROVE  run' \in [Dispatchers -> Runs]
  <2> DEFINE r == run[d]
  <2>0. r \in Runs
    BY <1>1
  <2>1. CASE StartPass(d)
    <3>1. DueCampaigns \in SUBSET Campaigns
      BY FirstOfSubset DEF DueCampaigns
    <3>2. [IdleRun EXCEPT !.pc = "list", !.queue = DueCampaigns] \in Runs
      BY <3>1, IdleRunType DEF Runs, Steps
    <3>3. QED
      BY <2>1, <3>2, <1>2 DEF StartPass
  <2>2. CASE EndPass(d) \/ LosePass(d)
    BY <2>2, IdleRunType, <1>2 DEF EndPass, LosePass
  <2>3. ASSUME NEW c \in Campaigns, LoadCampaign(d, c)
        PROVE  run' \in [Dispatchers -> Runs]
    <3>1. content[c] \in Contents \cup {NoContent} /\ kind[c] \in Kinds
      BY DEF TypeOK
    <3>2. [r EXCEPT !.pc = "mark", !.camp = c, !.letter = content[c],
                    !.kind = kind[c]] \in Runs
      BY <2>0, <3>1 DEF Runs, Steps
    <3>3. QED
      BY <2>3, <3>2, <1>2 DEF LoadCampaign
  <2>4. ASSUME NEW c \in Campaigns, SkipCampaign(d, c)
        PROVE  run' \in [Dispatchers -> Runs]
    <3>1. [r EXCEPT !.queue = r.queue \ {c}] \in Runs
      BY <2>0 DEF Runs
    <3>2. run' = [run EXCEPT ![d] = [r EXCEPT !.queue = r.queue \ {c}]]
      BY <2>4 DEF SkipCampaign
    <3>3. QED
      BY <3>1, <3>2, <1>2
  <2>5. CASE MarkSending(d)
    <3>1. [r EXCEPT !.pc = "resolve"] \in Runs
      BY <2>0 DEF Runs, Steps
    <3>2. QED
      BY <2>5, <3>1, <1>2 DEF MarkSending
  <2>6. CASE ResolveAudience(d)
    <3>1. Recipients(r) \in SUBSET Users
      BY RecipientsBounds DEF Audience, TypeOK
    <3>2. ClosingClock(r) \in {"finish", "open", "closed"}
      BY DEF ClosingClock
    <3>3. [r EXCEPT !.pc = "loop", !.todo = Recipients(r),
                    !.asOf = ClosingClock(r)] \in Runs
      BY <2>0, <3>1, <3>2 DEF Runs, Steps
    <3>4. QED
      BY <2>6, <3>3, <1>2 DEF ResolveAudience
  <2>7. ASSUME NEW u \in Users, Claim(d, u) \/ AlreadyClaimed(d, u)
        PROVE  run' \in [Dispatchers -> Runs]
    <3>1. /\ [r EXCEPT !.pc = "send", !.uid = u, !.todo = r.todo \ {u}] \in Runs
          /\ [r EXCEPT !.todo = r.todo \ {u}] \in Runs
      BY <2>0 DEF Runs, Steps
    <3>2. \/ run' = [run EXCEPT ![d] = [r EXCEPT !.pc = "send", !.uid = u,
                                               !.todo = r.todo \ {u}]]
          \/ run' = [run EXCEPT ![d] = [r EXCEPT !.todo = r.todo \ {u}]]
      BY <2>7 DEF Claim, AlreadyClaimed
    <3>3. QED
      BY <3>1, <3>2, <1>2
  <2>8. CASE SendStep(d)
    <3>1. /\ \A v \in Verdicts : [r EXCEPT !.pc = "record", !.verdict = v] \in Runs
          /\ [r EXCEPT !.attempt = 2] \in Runs
      BY <2>0 DEF Runs, Steps
    <3>2. QED
      BY <2>8, <3>1, <1>2
      DEF SendStep, SendAccepted, SendRejected, SendFlooded, SendFailed, Answered,
          AfterException, Verdicts
  <2>9. CASE RecordResult(d)
    <3>1. [r EXCEPT !.pc = "loop", !.uid = 0, !.attempt = 1, !.verdict = "retry"]
            \in Runs
      BY <2>0 DEF Runs, Steps, Verdicts
    <3>2. QED
      BY <2>9, <3>1, <1>2 DEF RecordResult
  <2>10. CASE FinishCampaign(d) \/ AbandonCampaign(d)
    <3>1. [IdleRun EXCEPT !.pc = "list", !.queue = r.queue \ {r.camp}] \in Runs
      BY <2>0, IdleRunType DEF Runs, Steps
    <3>2. QED
      BY <2>10, <3>1, <1>2 DEF FinishCampaign, AbandonCampaign
  <2>11. QED
    BY <1>4, <2>1, <2>2, <2>3, <2>4, <2>5, <2>6, <2>7, <2>8, <2>9, <2>10
    DEF DispatchStep, Disruption
<1>5. QED
  BY <1>3, <1>4
  DEF Next, vars, AdminStep, TimeStep, CreateCampaign, UpdateCampaign,
      TestAccepted, TestRefused, Confirm, ConfirmRefused, TestCampaign, Gate,
      CancelCampaign, OptOut, OptIn, FallDue, CloseLocal, Ripen, Age

\* A delivery appends a content to what a user received.
LEMMA DeliverType ==
  ASSUME NEW box \in [Campaigns -> [Users -> Seq(Contents)]],
         NEW c \in Campaigns, NEW u \in Users, NEW k \in Contents
  PROVE  [box EXCEPT ![c][u] = Append(@, k)] \in [Campaigns -> [Users -> Seq(Contents)]]
<1>1. Append(box[c][u], k) \in Seq(Contents)
  OBVIOUS
<1>2. QED
  BY <1>1

\* Every other variable keeps its type as well.
LEMMA TypeStep == ASSUME IInv, [Next]_vars PROVE TypeOK'
<1>0. run' \in [Dispatchers -> Runs]
  BY RunTypeStep DEF IInv
<1> USE BroadcastsAssumption, <1>0
    DEF BroadcastsAssumption, IInv, TypeOK, table, rows, clock, requests, history
<1>1. ASSUME NEW c \in Campaigns, NEW k \in Contents,
             CreateCampaign(c, k) \/ UpdateCampaign(c, k)
      PROVE  TypeOK'
  BY <1>1 DEF CreateCampaign, UpdateCampaign, Statuses
<1>2. ASSUME NEW c \in Campaigns, NEW k \in Contents, TestAccepted(c, k)
      PROVE  TypeOK'
  BY <1>2 DEF TestAccepted
<1>3. ASSUME NEW c \in Campaigns, NEW k \in Contents, TestRefused(c, k)
      PROVE  TypeOK'
  BY <1>3 DEF TestRefused
<1>4. ASSUME NEW c \in Campaigns, NEW k \in Contents, NEW w \in Kinds, Confirm(c, k, w)
      PROVE  TypeOK'
  BY <1>4 DEF Confirm, Statuses
<1>5. ASSUME NEW c \in Campaigns, NEW k \in Contents, ConfirmRefused(c, k)
      PROVE  TypeOK'
  BY <1>5 DEF ConfirmRefused
<1>6. ASSUME NEW c \in Campaigns, TestCampaign(c) \/ Gate(c)
      PROVE  TypeOK'
  <2>1. content[c] \in Contents
    BY <1>6 DEF TestCampaign, Gate, RowInv
  <2>2. CASE TestCampaign(c)
    BY <2>1, <2>2 DEF TestCampaign
  <2>3. CASE Gate(c)
    BY <2>1, <2>3 DEF Gate
  <2>4. QED
    BY <1>6, <2>2, <2>3
<1>7. ASSUME NEW c \in Campaigns, CancelCampaign(c)
      PROVE  TypeOK'
  BY <1>7 DEF CancelCampaign, Statuses
<1>8. ASSUME NEW u \in Users, OptOut(u)
      PROVE  TypeOK'
  BY <1>8 DEF OptOut
<1>9. ASSUME NEW u \in Users, OptIn(u)
      PROVE  TypeOK'
  BY <1>9 DEF OptIn
<1>10. ASSUME NEW c \in Campaigns, FallDue(c) \/ CloseLocal(c)
       PROVE  TypeOK'
  BY <1>10 DEF FallDue, CloseLocal
<1>11. ASSUME NEW c \in Campaigns, NEW u \in Users, Ripen(c, u)
       PROVE  TypeOK'
  BY <1>11 DEF Ripen
<1>12. ASSUME NEW c \in Campaigns, NEW u \in Users, Age(c, u)
       PROVE  TypeOK'
  BY <1>12 DEF Age
<1>13. ASSUME NEW d \in Dispatchers, StartPass(d)
       PROVE  TypeOK'
  <2>1. ledger' \in [Campaigns -> [Users -> Rows]]
    BY <1>13 DEF StartPass, Reap, Rows
  <2>2. QED
    BY <1>13, <2>1 DEF StartPass, Reap
<1>14. ASSUME NEW d \in Dispatchers, EndPass(d) \/ ResolveAudience(d)
       PROVE  TypeOK'
  BY <1>14 DEF EndPass, ResolveAudience
<1>15. ASSUME NEW d \in Dispatchers, Disruption(d)
       PROVE  TypeOK'
  BY <1>15 DEF Disruption, LosePass, AbandonCampaign
<1>16. ASSUME NEW d \in Dispatchers, NEW c \in Campaigns,
              LoadCampaign(d, c) \/ SkipCampaign(d, c)
       PROVE  TypeOK'
  BY <1>16 DEF LoadCampaign, SkipCampaign
<1>17. ASSUME NEW d \in Dispatchers, MarkSending(d) \/ FinishCampaign(d)
       PROVE  TypeOK'
  BY <1>17 DEF MarkSending, FinishCampaign, ClosingStatus, Statuses
<1>18. ASSUME NEW d \in Dispatchers, NEW u \in Users, Claim(d, u)
       PROVE  TypeOK'
  <2>1. run[d].camp \in Campaigns
    BY <1>18 DEF Claim, PassInv, LoadedOk, Sending
  <2>2. ledger' \in [Campaigns -> [Users -> Rows]]
    BY <1>18, <2>1 DEF Claim, Rows
  <2>3. QED
    BY <1>18, <2>2 DEF Claim
<1>19. ASSUME NEW d \in Dispatchers, NEW u \in Users, AlreadyClaimed(d, u)
       PROVE  TypeOK'
  BY <1>19 DEF AlreadyClaimed
<1>20. ASSUME NEW d \in Dispatchers, SendStep(d)
       PROVE  TypeOK'
  <2>1. ASSUME Deliver(run[d]), run[d].pc = "send"
        PROVE  inbox' \in [Campaigns -> [Users -> Seq(Contents)]]
    <3>1. /\ run[d].letter \in Contents
          /\ run[d].camp \in Campaigns
          /\ run[d].uid \in Users
      BY <2>1 DEF PassInv, LoadedOk, Sending, Holding
    <3>2. QED
      BY <2>1, <3>1, DeliverType DEF Deliver
  <2>2. QED
    BY <1>20, <2>1
    DEF SendStep, SendAccepted, SendRejected, SendFlooded, SendFailed
<1>21. ASSUME NEW d \in Dispatchers, RecordResult(d)
       PROVE  TypeOK'
  <2>1. RowOf(run[d].verdict) \in Rows
    BY RowOfType DEF Runs
  <2>2. ledger' \in [Campaigns -> [Users -> Rows]]
    BY <1>21, <2>1 DEF RecordResult
  <2>3. aged' \in [Campaigns -> SUBSET Users]
    BY <1>21 DEF RecordResult
  <2>4. QED
    BY <1>21, <2>2, <2>3 DEF RecordResult
<1>22. CASE UNCHANGED vars
  BY <1>22 DEF vars
<1>23. QED
  BY <1>1, <1>2, <1>3, <1>4, <1>5, <1>6, <1>7, <1>8, <1>9, <1>10, <1>11, <1>12,
     <1>13, <1>14, <1>15, <1>16, <1>17, <1>18, <1>19, <1>20, <1>21, <1>22
  DEF Next, AdminStep, TimeStep, DispatchStep

-----------------------------------------------------------------------------
(* The conjuncts of the invariant.                                         *)

\* The campaign row: only the confirmation releases a content, and nothing
\* changes it afterwards; who is owed it is opted in.
LEMMA RowStep == ASSUME IInv, [Next]_vars PROVE RowInv'
<1> USE DEF IInv, RowInv
<1>1. CASE UNCHANGED <<status, content, signed, owed, optin, everIn>>
  BY <1>1
<1>2. ASSUME NEW c \in Campaigns, NEW k \in Contents,
             CreateCampaign(c, k) \/ UpdateCampaign(c, k)
      PROVE  RowInv'
  BY <1>2 DEF CreateCampaign, UpdateCampaign, TypeOK, history
<1>3. ASSUME NEW c \in Campaigns, NEW k \in Contents, NEW w \in Kinds, Confirm(c, k, w)
      PROVE  RowInv'
  BY <1>3, BroadcastsAssumption DEF BroadcastsAssumption, Confirm, TypeOK
<1>4. ASSUME NEW c \in Campaigns, CancelCampaign(c)
      PROVE  RowInv'
  BY <1>4 DEF CancelCampaign, TypeOK, history
<1>5. ASSUME NEW u \in Users, OptOut(u)
      PROVE  RowInv'
  BY <1>5 DEF OptOut, TypeOK, table
<1>6. ASSUME NEW u \in Users, OptIn(u)
      PROVE  RowInv'
  BY <1>6 DEF OptIn, TypeOK, table
<1>7. ASSUME NEW d \in Dispatchers, MarkSending(d) \/ FinishCampaign(d)
      PROVE  RowInv'
  BY <1>7 DEF MarkSending, FinishCampaign, ClosingStatus, TypeOK, PassInv, LoadedOk, Sending, history
<1>8. ASSUME NEW c \in Campaigns, TestCampaign(c) \/ Gate(c) \/ FallDue(c) \/ CloseLocal(c)
      PROVE  RowInv'
  BY <1>8, <1>1 DEF TestCampaign, Gate, FallDue, CloseLocal, table, history
<1>9. ASSUME NEW c \in Campaigns, NEW k \in Contents,
             TestAccepted(c, k) \/ TestRefused(c, k) \/ ConfirmRefused(c, k)
      PROVE  RowInv'
  BY <1>9, <1>1 DEF TestAccepted, TestRefused, ConfirmRefused, table, history
<1>10. ASSUME NEW c \in Campaigns, NEW u \in Users, Ripen(c, u) \/ Age(c, u)
       PROVE  RowInv'
  BY <1>10, <1>1 DEF Ripen, Age, table, history
<1>11. ASSUME NEW d \in Dispatchers,
              \/ StartPass(d) \/ EndPass(d) \/ Disruption(d) \/ ResolveAudience(d)
              \/ SendStep(d) \/ RecordResult(d)
       PROVE  RowInv'
  BY <1>11, <1>1
  DEF StartPass, EndPass, Disruption, LosePass, AbandonCampaign, ResolveAudience, SendStep, SendAccepted,
      SendRejected, SendFlooded, SendFailed, RecordResult, table, history
<1>12. ASSUME NEW d \in Dispatchers, NEW c \in Campaigns,
              LoadCampaign(d, c) \/ SkipCampaign(d, c)
       PROVE  RowInv'
  BY <1>12, <1>1 DEF LoadCampaign, SkipCampaign, table, history
<1>13. ASSUME NEW d \in Dispatchers, NEW u \in Users, Claim(d, u) \/ AlreadyClaimed(d, u)
       PROVE  RowInv'
  BY <1>13, <1>1 DEF Claim, AlreadyClaimed, table, history
<1>14. CASE UNCHANGED vars
  BY <1>14, <1>1 DEF vars, table, history
<1> HIDE DEF IInv, RowInv
<1>15. QED
  BY <1>2, <1>3, <1>4, <1>5, <1>6, <1>7, <1>8, <1>9, <1>10, <1>11, <1>12, <1>13,
     <1>14, BroadcastsAssumption
  DEF Next, AdminStep, TimeStep, DispatchStep, BroadcastsAssumption

\* Who has something in the inbox may have it: the send follows a claim.
LEMMA MailStep == ASSUME IInv, [Next]_vars PROVE MailInv'
<1> USE DEF IInv, MailInv
<1>1. CASE UNCHANGED <<inbox, signed, ledger, due, everIn, kind, ripe>>
  BY <1>1
<1>2. ASSUME NEW c \in Campaigns, NEW k \in Contents, NEW w \in Kinds, Confirm(c, k, w)
      PROVE  MailInv'
  <2>1. signed[c] = NoContent
    BY <1>2 DEF Confirm, RowInv
  <2>2. QED
    BY <1>2, <2>1 DEF Confirm, TypeOK, rows
<1>3. ASSUME NEW u \in Users, OptIn(u)
      PROVE  MailInv'
  BY <1>3 DEF OptIn, TypeOK, table, rows, clock
<1>4. ASSUME NEW u \in Users, OptOut(u)
      PROVE  MailInv'
  BY <1>4 DEF OptOut, table, rows, clock
<1>5. ASSUME NEW c \in Campaigns, FallDue(c)
      PROVE  MailInv'
  BY <1>5 DEF FallDue, TypeOK, table, rows, history
<1>6. ASSUME NEW c \in Campaigns, NEW u \in Users, Ripen(c, u)
      PROVE  MailInv'
  BY <1>6 DEF Ripen, TypeOK, table, rows, history
<1>7. ASSUME NEW d \in Dispatchers, StartPass(d)
      PROVE  MailInv'
  BY <1>7 DEF StartPass, Reap, TypeOK, table, clock, history
<1>8. ASSUME NEW d \in Dispatchers, NEW u \in Users, Claim(d, u)
      PROVE  MailInv'
  BY <1>8 DEF Claim, TypeOK, table, clock, history
<1>9. ASSUME NEW d \in Dispatchers, run[d].pc = "send", Deliver(run[d]),
             UNCHANGED <<signed, ledger, due, everIn, kind, ripe>>
      PROVE  MailInv'
  <2>1. /\ run[d].camp \in Campaigns /\ run[d].uid \in Users
        /\ run[d].letter = signed[run[d].camp]
        /\ signed[run[d].camp] # NoContent
        /\ due[run[d].camp]
        /\ run[d].kind = kind[run[d].camp]
    BY <1>9 DEF PassInv, LoadedOk, Sending, Holding
  <2>2. /\ inbox[run[d].camp][run[d].uid] = <<>>
        /\ ledger[run[d].camp][run[d].uid] # "none"
        /\ run[d].uid \in everIn[run[d].camp]
        /\ run[d].kind = "at_local" => run[d].uid \in ripe[run[d].camp]
    BY <1>9 DEF ClaimInv, HeldOk, Holding
  <2>3. inbox' = [inbox EXCEPT ![run[d].camp][run[d].uid] = <<signed[run[d].camp]>>]
    BY <1>9, <2>1, <2>2 DEF Deliver, TypeOK
  <2>4. QED
    BY <1>9, <2>1, <2>2, <2>3 DEF TypeOK
<1>10. ASSUME NEW d \in Dispatchers, SendStep(d)
       PROVE  MailInv'
  BY <1>10, <1>1, <1>9
  DEF SendStep, SendAccepted, SendRejected, SendFlooded, SendFailed, table, rows,
      clock, history
<1>11. ASSUME NEW d \in Dispatchers, RecordResult(d)
       PROVE  MailInv'
  <2>1. RowOf(run[d].verdict) # "none"
    BY RowOfType DEF TypeOK, Runs
  <2>2. QED
    BY <1>11, <2>1 DEF RecordResult, TypeOK, table, clock, history
<1>12. ASSUME NEW c \in Campaigns,
              TestCampaign(c) \/ Gate(c) \/ CancelCampaign(c) \/ CloseLocal(c)
       PROVE  MailInv'
  BY <1>12, <1>1
  DEF TestCampaign, Gate, CancelCampaign, CloseLocal, table, rows, clock, history
<1>13. ASSUME NEW c \in Campaigns, NEW k \in Contents,
              \/ CreateCampaign(c, k) \/ UpdateCampaign(c, k) \/ TestAccepted(c, k)
              \/ TestRefused(c, k) \/ ConfirmRefused(c, k)
       PROVE  MailInv'
  BY <1>13, <1>1
  DEF CreateCampaign, UpdateCampaign, TestAccepted, TestRefused, ConfirmRefused,
      table, rows, clock, history
<1>14. ASSUME NEW c \in Campaigns, NEW u \in Users, Age(c, u)
       PROVE  MailInv'
  BY <1>14, <1>1 DEF Age, table, clock, history
<1>15. ASSUME NEW d \in Dispatchers,
              \/ EndPass(d) \/ Disruption(d) \/ MarkSending(d) \/ ResolveAudience(d)
              \/ FinishCampaign(d)
       PROVE  MailInv'
  BY <1>15, <1>1
  DEF EndPass, Disruption, LosePass, AbandonCampaign, MarkSending, ResolveAudience, FinishCampaign, table, rows,
      clock, history
<1>16. ASSUME NEW d \in Dispatchers, NEW c \in Campaigns,
              LoadCampaign(d, c) \/ SkipCampaign(d, c)
       PROVE  MailInv'
  BY <1>16, <1>1 DEF LoadCampaign, SkipCampaign, table, rows, clock, history
<1>17. ASSUME NEW d \in Dispatchers, NEW u \in Users, AlreadyClaimed(d, u)
       PROVE  MailInv'
  BY <1>17, <1>1 DEF AlreadyClaimed, table, rows, clock, history
<1>18. CASE UNCHANGED vars
  BY <1>18, <1>1 DEF vars, table, rows, clock, history
<1> HIDE DEF IInv, MailInv
<1>19. QED
  BY <1>2, <1>3, <1>4, <1>5, <1>6, <1>7, <1>8, <1>10, <1>11, <1>12, <1>13, <1>14,
     <1>15, <1>16, <1>17, <1>18, BroadcastsAssumption
  DEF Next, AdminStep, TimeStep, DispatchStep, BroadcastsAssumption

\* A dispatcher changes no run but its own.
LEMMA OwnRun ==
  ASSUME TypeOK, NEW d \in Dispatchers, DispatchStep(d) \/ Disruption(d)
  PROVE  \A e \in Dispatchers : e # d => run'[e] = run[e]
<1>1. \E r : run' = [run EXCEPT ![d] = r]
  <2>1. CASE StartPass(d) \/ EndPass(d) \/ Disruption(d)
    BY <2>1 DEF StartPass, EndPass, Disruption, LosePass, AbandonCampaign
  <2>2. ASSUME NEW c \in Campaigns, LoadCampaign(d, c)
        PROVE  \E r : run' = [run EXCEPT ![d] = r]
    BY <2>2 DEF LoadCampaign
  <2>3. ASSUME NEW c \in Campaigns, SkipCampaign(d, c)
        PROVE  \E r : run' = [run EXCEPT ![d] = r]
    BY <2>3 DEF SkipCampaign
  <2>4. CASE MarkSending(d) \/ ResolveAudience(d)
    BY <2>4 DEF MarkSending, ResolveAudience
  <2>5. ASSUME NEW u \in Users, Claim(d, u) \/ AlreadyClaimed(d, u)
        PROVE  \E r : run' = [run EXCEPT ![d] = r]
    <3>1. run[d] \in Runs
      BY DEF TypeOK
    <3>2. \/ run' = [run EXCEPT ![d] = [run[d] EXCEPT !.pc = "send", !.uid = u,
                                                    !.todo = run[d].todo \ {u}]]
          \/ run' = [run EXCEPT ![d] = [run[d] EXCEPT !.todo = run[d].todo \ {u}]]
      BY <2>5 DEF Claim, AlreadyClaimed
    <3>3. QED
      BY <3>2
  <2>6. CASE SendStep(d)
    BY <2>6
    DEF SendStep, SendAccepted, SendRejected, SendFlooded, SendFailed, Answered,
        AfterException
  <2>7. CASE RecordResult(d) \/ FinishCampaign(d)
    BY <2>7 DEF RecordResult, FinishCampaign
  <2>8. QED
    BY <2>1, <2>2, <2>3, <2>4, <2>5, <2>6, <2>7 DEF DispatchStep
<1>2. QED
  BY <1>1 DEF TypeOK

\* What an attempt to send does to the run.
LEMMA SendRun ==
  ASSUME TypeOK, NEW d \in Dispatchers, SendStep(d)
  PROVE  /\ run[d].pc = "send"
         /\ run'[d].pc \in {"send", "record"}
         /\ run'[d].queue = run[d].queue /\ run'[d].camp = run[d].camp
         /\ run'[d].letter = run[d].letter /\ run'[d].kind = run[d].kind
         /\ run'[d].todo = run[d].todo /\ run'[d].uid = run[d].uid
<1>1. run[d] \in Runs
  BY DEF TypeOK
<1>2. \/ \E v : run' = [run EXCEPT ![d] = [run[d] EXCEPT !.pc = "record", !.verdict = v]]
      \/ run' = [run EXCEPT ![d] = [run[d] EXCEPT !.attempt = 2]]
  BY DEF SendStep, SendAccepted, SendRejected, SendFlooded, SendFailed, Answered,
         AfterException
<1>3. run[d].pc = "send"
  BY DEF SendStep, SendAccepted, SendRejected, SendFlooded, SendFailed
<1>4. run \in [Dispatchers -> Runs]
  BY DEF TypeOK
<1>5. ASSUME NEW v, run' = [run EXCEPT ![d] = [run[d] EXCEPT !.pc = "record", !.verdict = v]]
      PROVE  /\ run'[d].pc = "record"
             /\ run'[d].queue = run[d].queue /\ run'[d].camp = run[d].camp
             /\ run'[d].letter = run[d].letter /\ run'[d].kind = run[d].kind
             /\ run'[d].todo = run[d].todo /\ run'[d].uid = run[d].uid
  BY <1>1, <1>4, <1>5 DEF Runs
<1>6. CASE run' = [run EXCEPT ![d] = [run[d] EXCEPT !.attempt = 2]]
  BY <1>1, <1>3, <1>4, <1>6 DEF Runs
<1>7. QED
  BY <1>2, <1>3, <1>5, <1>6

\* What a pass listed and loaded: nothing can take back a confirmation, and a
\* campaign that was loaded had been confirmed.
LEMMA PassStep == ASSUME IInv, [Next]_vars PROVE PassInv'
<1> USE DEF IInv
<1>1. CASE UNCHANGED <<run, signed, kind, due>>
  BY <1>1 DEF PassInv, ListedOk, LoadedOk, Sending, Holding
<1>2. ASSUME NEW c \in Campaigns, NEW k \in Contents, NEW w \in Kinds, Confirm(c, k, w)
      PROVE  PassInv'
  <2>1. signed[c] = NoContent
    BY <1>2 DEF Confirm, RowInv
  <2>2. \A b \in Campaigns : b # c => /\ signed'[b] = signed[b]
                                     /\ kind'[b] = kind[b]
                                     /\ due'[b] = due[b]
    BY <1>2 DEF Confirm, TypeOK
  <2>3. \A d \in Dispatchers : run'[d] = run[d] /\ run[d].queue \subseteq Campaigns
    BY <1>2 DEF Confirm, TypeOK, Runs
  <2>4. QED
    BY <2>1, <2>2, <2>3 DEF PassInv, ListedOk, LoadedOk, Sending, Holding
<1>3. ASSUME NEW c \in Campaigns, FallDue(c)
      PROVE  PassInv'
  <2>1. /\ \A b \in Campaigns : due[b] => due'[b]
        /\ \A d \in Dispatchers : run[d].queue \subseteq Campaigns
        /\ UNCHANGED <<run, signed, kind>>
    BY <1>3 DEF FallDue, TypeOK, Runs, table, history
  <2>2. QED
    BY <2>1 DEF PassInv, ListedOk, LoadedOk, Sending, Holding
<1>4. ASSUME NEW d \in Dispatchers, DispatchStep(d) \/ Disruption(d),
             ListedOk(run[d])', LoadedOk(run[d])', UNCHANGED <<signed, kind, due>>
      PROVE  PassInv'
  BY <1>4, OwnRun DEF PassInv, ListedOk, LoadedOk, Sending, Holding
<1>5. ASSUME NEW d \in Dispatchers, DispatchStep(d) \/ Disruption(d)
      PROVE  /\ UNCHANGED <<signed, kind, due>>
             /\ ListedOk(run[d])' /\ LoadedOk(run[d])'
  <2> DEFINE r == run[d]
  <2> USE DEF ListedOk, LoadedOk, Sending, Holding
  <2>0. r \in Runs /\ ListedOk(r) /\ LoadedOk(r)
    BY DEF TypeOK, PassInv
  <2>1. UNCHANGED <<signed, kind, due>>
    BY <1>5
    DEF DispatchStep, Disruption, LosePass, AbandonCampaign, StartPass, EndPass, LoadCampaign, SkipCampaign,
        MarkSending, ResolveAudience, Claim, AlreadyClaimed, SendStep, SendAccepted,
        SendRejected, SendFlooded, SendFailed, RecordResult, FinishCampaign, table,
        clock, history
  <2>2. CASE StartPass(d)
    <3>1. \A c \in DueCampaigns : due[c] /\ signed[c] # NoContent
      BY FirstOfSubset DEF DueCampaigns, Live, RowInv
    <3>2. run'[d].pc = "list" /\ run'[d].queue = DueCampaigns
      BY <2>2 DEF StartPass, TypeOK, IdleRun
    <3>3. QED
      BY <2>1, <3>1, <3>2
  <2>3. CASE EndPass(d) \/ LosePass(d)
    <3>1. run'[d].pc = "idle" /\ run'[d].queue = {}
      BY <2>3 DEF EndPass, LosePass, TypeOK, IdleRun
    <3>2. QED
      BY <2>1, <3>1
  <2>4. ASSUME NEW c \in Campaigns, LoadCampaign(d, c)
        PROVE  ListedOk(run[d])' /\ LoadedOk(run[d])'
    <3>1. c \in r.queue /\ signed[c] = content[c]
      BY <2>4, <2>0 DEF LoadCampaign, IsNext, RowInv
    <3>2. /\ run'[d].pc = "mark" /\ run'[d].camp = c /\ run'[d].queue = r.queue
          /\ run'[d].letter = content[c] /\ run'[d].kind = kind[c]
      BY <2>4, <2>0 DEF LoadCampaign, TypeOK, Runs
    <3>3. QED
      BY <2>0, <2>1, <3>1, <3>2
  <2>5. ASSUME NEW c \in Campaigns, SkipCampaign(d, c)
        PROVE  ListedOk(run[d])' /\ LoadedOk(run[d])'
    <3>1. run'[d].pc = "list" /\ run'[d].queue = r.queue \ {c}
      BY <2>5, <2>0 DEF SkipCampaign, TypeOK, Runs
    <3>2. QED
      BY <2>0, <2>1, <3>1
  <2>6. CASE MarkSending(d) \/ ResolveAudience(d)
    <3>1. /\ run'[d].pc \in {"resolve", "loop"} /\ r.pc \in {"mark", "resolve"}
          /\ run'[d].queue = r.queue /\ run'[d].camp = r.camp
          /\ run'[d].letter = r.letter /\ run'[d].kind = r.kind
      <4>1. CASE MarkSending(d)
        BY <4>1, <2>0 DEF MarkSending, TypeOK, Runs
      <4>2. CASE ResolveAudience(d)
        BY <4>2, <2>0 DEF ResolveAudience, TypeOK, Runs
      <4>3. QED
        BY <2>6, <4>1, <4>2
    <3>2. QED
      BY <2>0, <2>1, <3>1
  <2>7. ASSUME NEW u \in Users, Claim(d, u)
        PROVE  ListedOk(run[d])' /\ LoadedOk(run[d])'
    <3>1. /\ run'[d].pc = "send" /\ r.pc = "loop" /\ run'[d].uid = u
          /\ run'[d].queue = r.queue /\ run'[d].camp = r.camp
          /\ run'[d].letter = r.letter /\ run'[d].kind = r.kind
      BY <2>7, <2>0 DEF Claim, TypeOK, Runs
    <3>2. QED
      BY <2>0, <2>1, <3>1
  <2>8. ASSUME NEW u \in Users, AlreadyClaimed(d, u)
        PROVE  ListedOk(run[d])' /\ LoadedOk(run[d])'
    <3>1. /\ run'[d].pc = "loop" /\ r.pc = "loop"
          /\ run'[d].queue = r.queue /\ run'[d].camp = r.camp
          /\ run'[d].letter = r.letter /\ run'[d].kind = r.kind
      BY <2>8, <2>0 DEF AlreadyClaimed, TypeOK, Runs
    <3>2. QED
      BY <2>0, <2>1, <3>1
  <2>9. CASE SendStep(d)
    BY <2>0, <2>1, <2>9, SendRun
  <2>10. CASE RecordResult(d)
    <3>1. /\ run'[d].pc = "loop" /\ r.pc = "record"
          /\ run'[d].queue = r.queue /\ run'[d].camp = r.camp
          /\ run'[d].letter = r.letter /\ run'[d].kind = r.kind
      BY <2>10, <2>0 DEF RecordResult, TypeOK, Runs
    <3>2. QED
      BY <2>0, <2>1, <3>1
  <2>11. CASE FinishCampaign(d) \/ AbandonCampaign(d)
    <3>1. run'[d].pc = "list" /\ run'[d].queue = r.queue \ {r.camp}
      <4>1. run' = [run EXCEPT ![d] = [IdleRun EXCEPT !.pc = "list",
                                                      !.queue = r.queue \ {r.camp}]]
        BY <2>11 DEF FinishCampaign, AbandonCampaign
      <4>2. QED
        BY <4>1 DEF TypeOK, IdleRun
    <3>2. QED
      BY <2>0, <2>1, <3>1
  <2> HIDE DEF ListedOk, LoadedOk
  <2>12. QED
    BY <1>5, <2>1, <2>2, <2>3, <2>4, <2>5, <2>6, <2>7, <2>8, <2>9, <2>10, <2>11
    DEF DispatchStep, Disruption
<1>12. ASSUME NEW c \in Campaigns,
              TestCampaign(c) \/ Gate(c) \/ CancelCampaign(c) \/ CloseLocal(c)
       PROVE  PassInv'
  BY <1>12, <1>1
  DEF TestCampaign, Gate, CancelCampaign, CloseLocal, table, clock, history
<1>13. ASSUME NEW c \in Campaigns, NEW k \in Contents,
              \/ CreateCampaign(c, k) \/ UpdateCampaign(c, k) \/ TestAccepted(c, k)
              \/ TestRefused(c, k) \/ ConfirmRefused(c, k)
       PROVE  PassInv'
  BY <1>13, <1>1
  DEF CreateCampaign, UpdateCampaign, TestAccepted, TestRefused, ConfirmRefused,
      table, clock, history
<1>14. ASSUME NEW c \in Campaigns, NEW u \in Users, Age(c, u) \/ Ripen(c, u)
       PROVE  PassInv'
  BY <1>14, <1>1 DEF Age, Ripen, table, clock, history
<1>15. ASSUME NEW u \in Users, OptOut(u) \/ OptIn(u)
       PROVE  PassInv'
  BY <1>15, <1>1 DEF OptOut, OptIn, table, clock
<1>16. CASE UNCHANGED vars
  BY <1>16, <1>1 DEF vars, table, clock, history
<1> HIDE DEF IInv
<1>17. QED
  BY <1>2, <1>3, <1>4, <1>5, <1>12, <1>13, <1>14, <1>15, <1>16, BroadcastsAssumption
  DEF Next, AdminStep, TimeStep, BroadcastsAssumption

-----------------------------------------------------------------------------
(* What the passes rely on between two of their steps.                     *)

\* Of a confirmed campaign, who may get it and who was claimed only grows, who
\* is owed it only shrinks, and its schedule kind is fixed.
LEMMA Grows ==
  ASSUME IInv, [Next]_vars, NEW c \in Campaigns, signed[c] # NoContent
  PROVE  /\ everIn[c] \subseteq everIn'[c]
         /\ ripe[c] \subseteq ripe'[c]
         /\ owed'[c] \subseteq owed[c]
         /\ Claimed(c) \subseteq Claimed(c)'
         /\ kind'[c] = kind[c]
<1> DEFINE Growing == /\ everIn[c] \subseteq everIn'[c]
                      /\ ripe[c] \subseteq ripe'[c]
                      /\ owed'[c] \subseteq owed[c]
                      /\ Claimed(c) \subseteq Claimed(c)'
                      /\ kind'[c] = kind[c]
<1> SUFFICES Growing
  OBVIOUS
<1>0. TypeOK /\ RowInv
  BY DEF IInv
<1> USE DEF Claimed
<1>1. CASE UNCHANGED <<everIn, ripe, owed, ledger, kind>>
  BY <1>1
<1>2. ASSUME NEW b \in Campaigns, NEW k \in Contents, NEW w \in Kinds, Confirm(b, k, w)
      PROVE  Growing
  <2>1. b # c
    BY <1>0, <1>2 DEF Confirm, RowInv
  <2>2. QED
    BY <1>0, <1>2, <2>1 DEF Confirm, TypeOK, rows
<1>3. ASSUME NEW u \in Users, OptOut(u) \/ OptIn(u)
      PROVE  Growing
  <2>1. CASE OptOut(u)
    BY <1>0, <2>1 DEF OptOut, TypeOK, table, rows, clock
  <2>2. CASE OptIn(u)
    BY <1>0, <2>2 DEF OptIn, TypeOK, table, rows, clock
  <2>3. QED
    BY <1>3, <2>1, <2>2
<1>4. ASSUME NEW b \in Campaigns, NEW u \in Users, Ripen(b, u)
      PROVE  Growing
  BY <1>0, <1>4 DEF Ripen, TypeOK, table, rows, history
<1>5. ASSUME NEW d \in Dispatchers, StartPass(d)
      PROVE  Growing
  <2>1. \A u \in Users : ledger[c][u] # "none" => ledger'[c][u] # "none"
    BY <1>5 DEF StartPass, Reap
  <2>2. UNCHANGED <<everIn, ripe, owed, kind>>
    BY <1>5 DEF StartPass, table, clock, history
  <2>3. QED
    BY <2>1, <2>2
<1>6. ASSUME NEW d \in Dispatchers, NEW u \in Users, Claim(d, u)
      PROVE  Growing
  <2>1. \A v \in Users : ledger[c][v] # "none" => ledger'[c][v] # "none"
    BY <1>0, <1>6 DEF Claim, TypeOK
  <2>2. UNCHANGED <<everIn, ripe, owed, kind>>
    BY <1>6 DEF Claim, table, clock, history
  <2>3. QED
    BY <2>1, <2>2
<1>7. ASSUME NEW d \in Dispatchers, RecordResult(d)
      PROVE  Growing
  <2>1. RowOf(run[d].verdict) # "none"
    BY <1>0, RowOfType DEF TypeOK, Runs
  <2>2. \A v \in Users : ledger[c][v] # "none" => ledger'[c][v] # "none"
    BY <1>0, <1>7, <2>1 DEF RecordResult, TypeOK
  <2>3. UNCHANGED <<everIn, ripe, owed, kind>>
    BY <1>7 DEF RecordResult, table, clock, history
  <2>4. QED
    BY <2>2, <2>3
<1>8. ASSUME NEW b \in Campaigns,
             \/ TestCampaign(b) \/ Gate(b) \/ CancelCampaign(b) \/ CloseLocal(b)
             \/ FallDue(b)
      PROVE  Growing
  BY <1>8, <1>1
  DEF TestCampaign, Gate, CancelCampaign, CloseLocal, FallDue, table, rows, clock,
      history
<1>9. ASSUME NEW b \in Campaigns, NEW k \in Contents,
             \/ CreateCampaign(b, k) \/ UpdateCampaign(b, k) \/ TestAccepted(b, k)
             \/ TestRefused(b, k) \/ ConfirmRefused(b, k)
      PROVE  Growing
  BY <1>9, <1>1
  DEF CreateCampaign, UpdateCampaign, TestAccepted, TestRefused, ConfirmRefused,
      table, rows, clock, history
<1>10. ASSUME NEW b \in Campaigns, NEW u \in Users, Age(b, u)
       PROVE  Growing
  BY <1>10, <1>1 DEF Age, table, clock, history
<1>11. ASSUME NEW d \in Dispatchers,
              \/ EndPass(d) \/ Disruption(d) \/ MarkSending(d) \/ ResolveAudience(d)
              \/ FinishCampaign(d) \/ SendStep(d)
       PROVE  Growing
  BY <1>11, <1>1
  DEF EndPass, Disruption, LosePass, AbandonCampaign, MarkSending, ResolveAudience, FinishCampaign, SendStep,
      SendAccepted, SendRejected, SendFlooded, SendFailed, table, rows, clock, history
<1>12. ASSUME NEW d \in Dispatchers, NEW b \in Campaigns,
              LoadCampaign(d, b) \/ SkipCampaign(d, b)
       PROVE  Growing
  BY <1>12, <1>1 DEF LoadCampaign, SkipCampaign, table, rows, clock, history
<1>13. ASSUME NEW d \in Dispatchers, NEW u \in Users, AlreadyClaimed(d, u)
       PROVE  Growing
  BY <1>13, <1>1 DEF AlreadyClaimed, table, rows, clock, history
<1>14. CASE UNCHANGED vars
  BY <1>14, <1>1 DEF vars, table, rows, clock, history
<1> HIDE DEF Growing
<1>15. QED
  BY <1>2, <1>3, <1>4, <1>5, <1>6, <1>7, <1>8, <1>9, <1>10, <1>11, <1>12, <1>13,
     <1>14, BroadcastsAssumption
  DEF Next, AdminStep, TimeStep, DispatchStep, BroadcastsAssumption

\* A campaign becomes 'sent' only by the end of a pass that had loaded it.
LEMMA SentBy ==
  ASSUME IInv, [Next]_vars, NEW c \in Campaigns, status[c] # "sent", status'[c] = "sent"
  PROVE  \E d \in Dispatchers : FinishCampaign(d) /\ run[d].camp = c
<1> DEFINE Finished == \E d \in Dispatchers : FinishCampaign(d) /\ run[d].camp = c
<1>0. status \in [Campaigns -> Statuses]
  BY DEF IInv, TypeOK
<1>1. CASE UNCHANGED status
  BY <1>1
<1>2. ASSUME NEW b \in Campaigns, NEW v \in Statuses \ {"sent"},
             status' = [status EXCEPT ![b] = v]
      PROVE  FALSE
  BY <1>0, <1>2
<1>3. /\ \A b \in Campaigns : ~CancelCampaign(b)
      /\ \A b \in Campaigns, k \in Contents : ~CreateCampaign(b, k)
      /\ \A b \in Campaigns, k \in Contents, w \in Kinds : ~Confirm(b, k, w)
  BY <1>2 DEF CreateCampaign, Confirm, CancelCampaign, Statuses
<1>4. ASSUME NEW d \in Dispatchers, MarkSending(d)
      PROVE  FALSE
  BY <1>0, <1>2, <1>4 DEF MarkSending, Statuses
<1>5. ASSUME NEW d \in Dispatchers, FinishCampaign(d)
      PROVE  Finished
  <2>1. CASE run[d].camp = c
    BY <1>5, <2>1
  <2>2. CASE run[d].camp # c
    BY <1>0, <1>5, <2>2 DEF FinishCampaign
  <2>3. QED
    BY <2>1, <2>2
<1>6. ASSUME NEW b \in Campaigns, NEW k \in Contents,
             \/ UpdateCampaign(b, k) \/ TestAccepted(b, k) \/ TestRefused(b, k)
             \/ ConfirmRefused(b, k)
      PROVE  FALSE
  BY <1>6 DEF UpdateCampaign, TestAccepted, TestRefused, ConfirmRefused, table
<1>7. ASSUME NEW b \in Campaigns,
             TestCampaign(b) \/ Gate(b) \/ FallDue(b) \/ CloseLocal(b)
      PROVE  FALSE
  BY <1>7 DEF TestCampaign, Gate, FallDue, CloseLocal, table
<1>8. ASSUME NEW b \in Campaigns, NEW u \in Users, Ripen(b, u) \/ Age(b, u)
      PROVE  FALSE
  BY <1>8 DEF Ripen, Age, table
<1>9. ASSUME NEW u \in Users, OptOut(u) \/ OptIn(u)
      PROVE  FALSE
  BY <1>9 DEF OptOut, OptIn, table
<1>10. ASSUME NEW d \in Dispatchers,
              \/ StartPass(d) \/ EndPass(d) \/ Disruption(d) \/ ResolveAudience(d)
              \/ SendStep(d) \/ RecordResult(d)
       PROVE  FALSE
  BY <1>10
  DEF StartPass, EndPass, Disruption, LosePass, AbandonCampaign, ResolveAudience, SendStep, SendAccepted,
      SendRejected, SendFlooded, SendFailed, RecordResult, table
<1>11. ASSUME NEW d \in Dispatchers, NEW b \in Campaigns,
              LoadCampaign(d, b) \/ SkipCampaign(d, b)
       PROVE  FALSE
  BY <1>11 DEF LoadCampaign, SkipCampaign, table
<1>12. ASSUME NEW d \in Dispatchers, NEW u \in Users, Claim(d, u) \/ AlreadyClaimed(d, u)
       PROVE  FALSE
  BY <1>12 DEF Claim, AlreadyClaimed, table
<1>13. CASE UNCHANGED vars
  BY <1>13 DEF vars, table
<1> HIDE DEF Finished
<1>14. Finished
  BY <1>3, <1>4, <1>5, <1>6, <1>7, <1>8, <1>9, <1>10, <1>11, <1>12, <1>13,
     BroadcastsAssumption
  DEF Next, AdminStep, TimeStep, DispatchStep, BroadcastsAssumption
<1>15. QED
  BY <1>14 DEF Finished

\* A now or at_utc campaign leaves nobody out: the pass that closes it had
\* everybody it owes on its list, and has claimed each of them.
LEMMA ServedStep == ASSUME IInv, [Next]_vars PROVE NobodyForgotten'
<1>1. SUFFICES ASSUME NEW c \in Campaigns, status'[c] = "sent", kind'[c] # "at_local"
               PROVE  owed'[c] \subseteq Claimed(c)'
  BY DEF NobodyForgotten
<1>2. CASE status[c] = "sent"
  <2>1. signed[c] # NoContent
    BY <1>2 DEF IInv, RowInv
  <2>2. owed[c] \subseteq Claimed(c)
    BY <1>1, <1>2, <2>1, Grows DEF IInv, NobodyForgotten
  <2>3. QED
    BY <2>1, <2>2, Grows
<1>3. CASE status[c] # "sent"
  <2>1. PICK d \in Dispatchers : FinishCampaign(d) /\ run[d].camp = c
    BY <1>1, <1>3, SentBy
  <2>2. run[d].pc = "loop" /\ run[d].todo = {}
    BY <2>1 DEF FinishCampaign
  <2>3. run[d].kind = kind[c] /\ signed[c] # NoContent
    BY <2>1, <2>2 DEF IInv, PassInv, LoadedOk, Sending
  <2>4. kind[c] # "at_local"
    BY <1>1, <2>3, Grows
  <2>5. owed[c] \subseteq Claimed(c)
    BY <2>1, <2>2, <2>3, <2>4 DEF IInv, ListInv, TodoOk, Spooling
  <2>6. QED
    BY <2>3, <2>5, Grows
<1>4. QED
  BY <1>2, <1>3

\* Only the dispatchers move the runs.
LEMMA RunBy ==
  ASSUME [Next]_vars
  PROVE  UNCHANGED run \/ \E d \in Dispatchers : DispatchStep(d) \/ Disruption(d)
<1>1. ASSUME NEW c \in Campaigns, AdminStep(c)
      PROVE  UNCHANGED run
  BY <1>1
  DEF AdminStep, CreateCampaign, UpdateCampaign, TestAccepted, TestRefused, Confirm,
      ConfirmRefused, TestCampaign, Gate, CancelCampaign
<1>2. CASE TimeStep
  BY <1>2 DEF TimeStep, FallDue, CloseLocal, Ripen, Age
<1>3. ASSUME NEW u \in Fickle, OptOut(u) \/ OptIn(u)
      PROVE  UNCHANGED run
  BY <1>3 DEF OptOut, OptIn
<1>4. CASE UNCHANGED vars
  BY <1>4 DEF vars
<1>5. QED
  BY <1>1, <1>2, <1>3, <1>4 DEF Next

\* The list of a pass: it is resolved from the opted-in audience of the moment,
\* and a user leaves it only claimed.
LEMMA ListStep == ASSUME IInv, [Next]_vars PROVE ListInv'
<1>1. ASSUME NEW d \in Dispatchers, run'[d] = run[d]
      PROVE  TodoOk(run[d])'
  <2>1. TodoOk(run[d]) /\ LoadedOk(run[d])
    BY DEF IInv, ListInv, PassInv
  <2>2. CASE ~Spooling(run[d])
    BY <1>1, <2>2 DEF TodoOk, Spooling
  <2>3. CASE Spooling(run[d])
    <3>1. run[d].camp \in Campaigns /\ signed[run[d].camp] # NoContent
      BY <2>1, <2>3 DEF LoadedOk, Sending, Spooling
    <3>2. QED
      BY <1>1, <2>1, <2>3, <3>1, Grows DEF TodoOk, Spooling
  <2>4. QED
    BY <2>2, <2>3
<1>2. ASSUME NEW d \in Dispatchers, DispatchStep(d) \/ Disruption(d)
      PROVE  TodoOk(run[d])'
  <2> DEFINE r == run[d]
  <2>0. r \in Runs /\ TodoOk(r) /\ LoadedOk(r) /\ run \in [Dispatchers -> Runs]
    BY DEF IInv, TypeOK, PassInv, ListInv
  <2>1. ASSUME run'[d].pc \notin {"loop", "send", "record"}
        PROVE  TodoOk(run[d])'
    BY <2>1 DEF TodoOk, Spooling
  <2>2. CASE StartPass(d) \/ EndPass(d) \/ Disruption(d) \/ FinishCampaign(d)
    <3>1. CASE StartPass(d) \/ FinishCampaign(d) \/ AbandonCampaign(d)
      BY <2>0, <2>1, <3>1 DEF StartPass, FinishCampaign, AbandonCampaign, IdleRun
    <3>2. CASE EndPass(d) \/ LosePass(d)
      BY <2>0, <2>1, <3>2 DEF EndPass, LosePass, IdleRun
    <3>3. QED
      BY <2>2, <3>1, <3>2 DEF Disruption
  <2>3. ASSUME NEW c \in Campaigns, LoadCampaign(d, c) \/ SkipCampaign(d, c)
        PROVE  TodoOk(run[d])'
    <3>1. CASE LoadCampaign(d, c)
      BY <2>0, <2>1, <3>1 DEF LoadCampaign, Runs
    <3>2. CASE SkipCampaign(d, c)
      BY <2>0, <2>1, <3>2 DEF SkipCampaign, Runs
    <3>3. QED
      BY <2>3, <3>1, <3>2
  <2>4. CASE MarkSending(d)
    BY <2>0, <2>1, <2>4 DEF MarkSending, Runs
  <2>5. CASE ResolveAudience(d)
    <3>1. /\ r.camp \in Campaigns /\ r.letter = signed[r.camp]
          /\ signed[r.camp] # NoContent /\ r.kind = kind[r.camp]
      BY <2>0, <2>5 DEF ResolveAudience, LoadedOk, Sending
    <3>2. /\ run'[d].todo = Recipients(r) /\ run'[d].camp = r.camp
          /\ run'[d].kind = r.kind
      BY <2>0, <2>5 DEF ResolveAudience, Runs
    <3>3. Audience(r.letter) \subseteq everIn[r.camp]
      BY <3>1 DEF IInv, RowInv, Audience
    <3>4. owed[r.camp] \subseteq Audience(r.letter)
      BY <3>1 DEF IInv, RowInv, Audience
    <3>5. UNCHANGED <<everIn, ripe, owed>>
      BY <2>5 DEF ResolveAudience, clock, history
    <3>6. QED
      BY <3>1, <3>2, <3>3, <3>4, <3>5, RecipientsBounds DEF TodoOk, Spooling
  <2>6. ASSUME NEW u \in Users, Claim(d, u) \/ AlreadyClaimed(d, u)
        PROVE  TodoOk(run[d])'
    <3>1. /\ r.pc = "loop" /\ r.camp \in Campaigns /\ signed[r.camp] # NoContent
      BY <2>0, <2>6 DEF Claim, AlreadyClaimed, LoadedOk, Sending
    <3>2. /\ run'[d].todo = r.todo \ {u} /\ run'[d].camp = r.camp
          /\ run'[d].kind = r.kind
      <4>1. CASE Claim(d, u)
        BY <2>0, <4>1 DEF Claim, Runs
      <4>2. CASE AlreadyClaimed(d, u)
        BY <2>0, <4>2 DEF AlreadyClaimed, Runs
      <4>3. QED
        BY <2>6, <4>1, <4>2
    <3>3. u \in Claimed(r.camp)'
      <4>1. CASE Claim(d, u)
        BY <3>1, <4>1 DEF Claim, Claimed, IInv, TypeOK
      <4>2. CASE AlreadyClaimed(d, u)
        BY <4>2 DEF AlreadyClaimed, Claimed, rows
      <4>3. QED
        BY <2>6, <4>1, <4>2
    <3>4. QED
      BY <2>0, <3>1, <3>2, <3>3, Grows DEF TodoOk, Spooling
  <2>7. ASSUME r.pc \in {"send", "record"}, run'[d].todo = r.todo,
               run'[d].camp = r.camp, run'[d].kind = r.kind
        PROVE  TodoOk(run[d])'
    <3>1. r.camp \in Campaigns /\ signed[r.camp] # NoContent
      BY <2>0, <2>7 DEF LoadedOk, Sending
    <3>2. QED
      BY <2>0, <2>7, <3>1, Grows DEF TodoOk, Spooling
  <2>8. CASE SendStep(d)
    BY <2>7, <2>8, SendRun DEF IInv
  <2>9. CASE RecordResult(d)
    <3>1. /\ r.pc = "record" /\ run'[d].todo = r.todo /\ run'[d].camp = r.camp
          /\ run'[d].kind = r.kind
      BY <2>0, <2>9 DEF RecordResult, Runs
    <3>2. QED
      BY <2>7, <3>1
  <2>10. QED
    BY <1>2, <2>2, <2>3, <2>4, <2>5, <2>6, <2>8, <2>9 DEF DispatchStep
<1>3. CASE UNCHANGED run
  BY <1>1, <1>3 DEF ListInv
<1>4. ASSUME NEW d \in Dispatchers, DispatchStep(d) \/ Disruption(d)
      PROVE  ListInv'
  BY <1>1, <1>2, <1>4, OwnRun DEF ListInv, IInv
<1>5. QED
  BY <1>3, <1>4, RunBy

\* A message enters an inbox only by an attempt that holds the user's claim.
LEMMA InboxBy ==
  ASSUME IInv, [Next]_vars
  PROVE  \/ UNCHANGED inbox
         \/ \E d \in Dispatchers : /\ SendStep(d) /\ Deliver(run[d])
                                  /\ run'[d].pc = "record"
<1>1. ASSUME NEW d \in Dispatchers, SendStep(d)
      PROVE  UNCHANGED inbox \/ (Deliver(run[d]) /\ run'[d].pc = "record")
  <2>1. run \in [Dispatchers -> Runs] /\ run[d] \in Runs
    BY DEF IInv, TypeOK
  <2>2. \A v : Answered(d, v) => run'[d].pc = "record"
    BY <2>1 DEF Answered, Runs
  <2>3. QED
    BY <1>1, <2>2
    DEF SendStep, SendAccepted, SendRejected, SendFlooded, SendFailed,
        AfterException, history
<1>2. ASSUME NEW d \in Dispatchers, DispatchStep(d) \/ Disruption(d), ~SendStep(d)
      PROVE  UNCHANGED inbox
  BY <1>2
  DEF DispatchStep, Disruption, LosePass, AbandonCampaign, StartPass, EndPass, LoadCampaign, SkipCampaign,
      MarkSending, ResolveAudience, Claim, AlreadyClaimed, RecordResult,
      FinishCampaign, history
<1>3. ASSUME NEW c \in Campaigns, AdminStep(c)
      PROVE  UNCHANGED inbox
  BY <1>3
  DEF AdminStep, CreateCampaign, UpdateCampaign, TestAccepted, TestRefused, Confirm,
      ConfirmRefused, TestCampaign, Gate, CancelCampaign, history
<1>4. CASE TimeStep
  BY <1>4 DEF TimeStep, FallDue, CloseLocal, Ripen, Age, history
<1>5. ASSUME NEW u \in Fickle, OptOut(u) \/ OptIn(u)
      PROVE  UNCHANGED inbox
  BY <1>5 DEF OptOut, OptIn
<1>6. CASE UNCHANGED vars
  BY <1>6 DEF vars, history
<1>7. QED
  BY <1>1, <1>2, <1>3, <1>4, <1>5, <1>6 DEF Next

\* The claim in a pass's hands: the insert that does not conflict makes it the
\* only pass that sends to this user, and the reaper cannot unmake the row.
LEMMA ClaimStep == ASSUME IInv, [Next]_vars PROVE ClaimInv'
<1>0. /\ run \in [Dispatchers -> Runs]
      /\ \A d \in Dispatchers : /\ run[d] \in Runs /\ LoadedOk(run[d])
                               /\ TodoOk(run[d]) /\ HeldOk(run[d])
  BY DEF IInv, TypeOK, PassInv, ListInv, ClaimInv
<1>1. ASSUME NEW d \in Dispatchers, run[d].pc = "send", run'[d].pc = "send",
             run'[d].camp = run[d].camp, run'[d].uid = run[d].uid
      PROVE  inbox'[run[d].camp][run[d].uid] = <<>>
  <2>1. inbox[run[d].camp][run[d].uid] = <<>>
    BY <1>0, <1>1 DEF HeldOk
  <2>2. ASSUME NEW e \in Dispatchers, SendStep(e), Deliver(run[e]), run'[e].pc = "record"
        PROVE  inbox'[run[d].camp][run[d].uid] = <<>>
    <3>1. e # d
      BY <1>1, <2>2
    <3>2. run[e].pc = "send"
      BY <2>2, SendRun DEF IInv
    <3>3. <<run[d].camp, run[d].uid>> # <<run[e].camp, run[e].uid>>
      BY <1>1, <3>1, <3>2 DEF IInv, ClaimInv, Disjoint
    <3>4. /\ run[d].camp \in Campaigns /\ run[e].camp \in Campaigns
          /\ run[d].uid \in Users /\ run[e].uid \in Users
      BY <1>0, <1>1, <3>2 DEF LoadedOk, Sending, Holding
    <3>5. QED
      BY <2>1, <2>2, <3>3, <3>4 DEF Deliver, IInv, TypeOK
  <2>3. QED
    BY <2>1, <2>2, InboxBy
<1>2. ASSUME NEW d \in Dispatchers, Holding(run[d]), run'[d].pc \in {run[d].pc, "record"},
             run'[d].camp = run[d].camp, run'[d].uid = run[d].uid,
             run'[d].kind = run[d].kind
      PROVE  HeldOk(run[d])'
  <2>1. /\ run[d].camp \in Campaigns /\ signed[run[d].camp] # NoContent
        /\ run[d].uid \in Users
    BY <1>0, <1>2 DEF LoadedOk, Sending, Holding
  <2>2. ledger'[run[d].camp][run[d].uid] # "none"
    BY <1>0, <1>2, <2>1, Grows DEF HeldOk, Claimed
  <2>3. QED
    BY <1>0, <1>1, <1>2, <2>1, <2>2, Grows DEF HeldOk, Holding
<1>3. ASSUME NEW d \in Dispatchers, run'[d] = run[d]
      PROVE  HeldOk(run[d])'
  BY <1>2, <1>3 DEF HeldOk, Holding
<1>4. ASSUME NEW d \in Dispatchers, NEW u \in Users, Claim(d, u)
      PROVE  HeldOk(run[d])' /\ \A e \in Dispatchers : e # d => Disjoint(run[d], run[e])'
  <2>1. /\ run[d].camp \in Campaigns /\ signed[run[d].camp] # NoContent
        /\ run[d].pc = "loop" /\ u \in run[d].todo
        /\ ledger[run[d].camp][u] = "none"
    BY <1>0, <1>4 DEF Claim, LoadedOk, Sending
  <2>2. /\ run'[d].pc = "send" /\ run'[d].uid = u /\ run'[d].camp = run[d].camp
        /\ run'[d].kind = run[d].kind
    BY <1>0, <1>4 DEF Claim, Runs
  <2>3. u \in everIn[run[d].camp] /\ (run[d].kind = "at_local" => u \in ripe[run[d].camp])
    BY <1>0, <2>1 DEF TodoOk, Spooling
  <2>4. inbox[run[d].camp][u] = <<>>
    BY <2>1 DEF IInv, MailInv
  <2>5. ledger'[run[d].camp][u] = "pending" /\ UNCHANGED <<inbox, everIn, ripe>>
    BY <1>4, <2>1 DEF Claim, IInv, TypeOK, clock, history
  <2>6. ASSUME NEW e \in Dispatchers, e # d
        PROVE  Disjoint(run[d], run[e])'
    <3>1. run'[e] = run[e]
      BY <1>4, <2>6, OwnRun DEF DispatchStep, IInv
    <3>2. run[e].pc = "send" => ledger[run[e].camp][run[e].uid] # "none"
      BY <1>0 DEF HeldOk, Holding
    <3>3. QED
      BY <2>1, <2>2, <3>1, <3>2 DEF Disjoint
  <2>7. QED
    BY <2>2, <2>3, <2>4, <2>5, <2>6 DEF HeldOk, Holding
<1>5. ASSUME NEW d \in Dispatchers, SendStep(d)
      PROVE  HeldOk(run[d])' /\ \A e \in Dispatchers : e # d => Disjoint(run[d], run[e])'
  <2>1. /\ run[d].pc = "send" /\ run'[d].pc \in {"send", "record"}
        /\ run'[d].camp = run[d].camp /\ run'[d].uid = run[d].uid
        /\ run'[d].kind = run[d].kind
    BY <1>5, SendRun DEF IInv
  <2>2. \A e \in Dispatchers : e # d => Disjoint(run[d], run[e])
    BY DEF IInv, ClaimInv
  <2>3. \A e \in Dispatchers : e # d => run'[e] = run[e]
    BY <1>5, OwnRun DEF DispatchStep, IInv
  <2>4. QED
    BY <1>2, <2>1, <2>2, <2>3 DEF Disjoint, Holding
<1>6. ASSUME NEW d \in Dispatchers, run'[d].pc \notin {"send", "record"}
      PROVE  HeldOk(run[d])' /\ \A e \in Dispatchers : e # d => Disjoint(run[d], run[e])'
  BY <1>6 DEF HeldOk, Holding, Disjoint
<1>7. ASSUME NEW d \in Dispatchers, DispatchStep(d) \/ Disruption(d)
      PROVE  HeldOk(run[d])' /\ \A e \in Dispatchers : e # d => Disjoint(run[d], run[e])'
  <2> DEFINE Ours == HeldOk(run[d])' /\ \A e \in Dispatchers : e # d => Disjoint(run[d], run[e])'
  <2>1. CASE StartPass(d) \/ FinishCampaign(d) \/ AbandonCampaign(d)
    BY <1>0, <1>6, <2>1 DEF StartPass, FinishCampaign, AbandonCampaign, IdleRun
  <2>2. CASE EndPass(d) \/ LosePass(d)
    BY <1>0, <1>6, <2>2 DEF EndPass, LosePass, IdleRun
  <2>3. ASSUME NEW c \in Campaigns, LoadCampaign(d, c)
        PROVE  Ours
    <3>1. run'[d].pc = "mark"
      BY <1>0, <2>3 DEF LoadCampaign, Runs
    <3>2. QED
      BY <1>6, <3>1
  <2>4. ASSUME NEW c \in Campaigns, SkipCampaign(d, c)
        PROVE  Ours
    <3>1. run'[d].pc = "list"
      BY <1>0, <2>4 DEF SkipCampaign, Runs
    <3>2. QED
      BY <1>6, <3>1
  <2>5. CASE MarkSending(d)
    <3>1. run'[d].pc = "resolve"
      BY <1>0, <2>5 DEF MarkSending, Runs
    <3>2. QED
      BY <1>6, <3>1
  <2>6. CASE ResolveAudience(d)
    <3>1. run'[d].pc = "loop"
      BY <1>0, <2>6 DEF ResolveAudience, Runs
    <3>2. QED
      BY <1>6, <3>1
  <2>7. ASSUME NEW u \in Users, AlreadyClaimed(d, u)
        PROVE  Ours
    <3>1. run'[d].pc = "loop"
      BY <1>0, <2>7 DEF AlreadyClaimed, Runs
    <3>2. QED
      BY <1>6, <3>1
  <2>8. CASE RecordResult(d)
    <3>1. run'[d].pc = "loop"
      BY <1>0, <2>8 DEF RecordResult, Runs
    <3>2. QED
      BY <1>6, <3>1
  <2> HIDE DEF Ours
  <2>9. Ours
    BY <1>4, <1>5, <1>7, <2>1, <2>2, <2>3, <2>4, <2>5, <2>6, <2>7, <2>8
    DEF DispatchStep, Disruption, Ours
  <2>10. QED
    BY <2>9 DEF Ours
<1>8. CASE UNCHANGED run
  <2>1. \A d \in Dispatchers : HeldOk(run[d])'
    BY <1>3, <1>8
  <2>2. QED
    BY <1>8, <2>1 DEF IInv, ClaimInv, Disjoint
<1>9. ASSUME NEW d \in Dispatchers, DispatchStep(d) \/ Disruption(d)
      PROVE  ClaimInv'
  <2>1. \A e \in Dispatchers : e # d => run'[e] = run[e]
    BY <1>9, OwnRun DEF IInv
  <2>2. \A e \in Dispatchers : HeldOk(run[e])'
    BY <1>3, <1>7, <1>9, <2>1
  <2>3. \A e \in Dispatchers : e # d => Disjoint(run[d], run[e])'
    BY <1>7, <1>9
  <2>4. \A e, f \in Dispatchers : e # f /\ e # d /\ f # d => Disjoint(run[e], run[f])'
    BY <2>1 DEF IInv, ClaimInv, Disjoint
  <2>5. \A e \in Dispatchers : e # d => Disjoint(run[e], run[d])'
    BY <2>3 DEF Disjoint
  <2>6. QED
    BY <2>2, <2>3, <2>4, <2>5 DEF ClaimInv
<1>10. QED
  BY <1>8, <1>9, RunBy

-----------------------------------------------------------------------------
(* The theorems.                                                           *)

\* The invariant holds of the empty tables.
LEMMA InitIInv == Init => IInv
<1> SUFFICES ASSUME Init PROVE IInv
  OBVIOUS
<1>1. inbox \in [Campaigns -> [Users -> Seq(Contents)]]
  BY DEF Init
<1>2. run \in [Dispatchers -> Runs]
  BY IdleRunType DEF Init
<1>3. TypeOK
  BY <1>1, <1>2, BroadcastsAssumption
  DEF Init, TypeOK, BroadcastsAssumption, Statuses, Rows
<1>4. RowInv /\ MailInv /\ NobodyForgotten
  BY DEF Init, RowInv, MailInv, NobodyForgotten
<1>5. PassInv /\ ListInv /\ ClaimInv
  BY DEF Init, IdleRun, PassInv, ListedOk, LoadedOk, ListInv, TodoOk, ClaimInv,
         HeldOk, Disjoint, Sending, Spooling, Holding
<1>6. QED
  BY <1>3, <1>4, <1>5 DEF IInv

\* The inductive invariant of broadcasts.
THEOREM Invariance == Spec => []IInv
<1>1. IInv /\ [Next]_vars => IInv'
  BY TypeStep, RowStep, MailStep, PassStep, ListStep, ClaimStep, ServedStep DEF IInv
<1>2. QED
  BY <1>1, InitIInv, PTL DEF Spec

\* Every variable keeps its type.
THEOREM TypeCorrect == Spec => []TypeOK
<1>1. IInv => TypeOK
  BY DEF IInv
<1>2. QED
  BY <1>1, Invariance, PTL

\* No user ever gets a campaign twice, however many passes overlap, crash and
\* resume.
THEOREM NoDuplicate == Spec => []AtMostOnce
<1>1. IInv => AtMostOnce
  <2>1. Len(<<>>) = 0 /\ \A x : Len(<<x>>) = 1
    OBVIOUS
  <2>2. SUFFICES ASSUME IInv, NEW c \in Campaigns, NEW u \in Users
                 PROVE  Len(inbox[c][u]) <= 1
    BY DEF AtMostOnce
  <2>3. inbox[c][u] = <<>> \/ inbox[c][u] = <<signed[c]>>
    BY <2>2 DEF IInv, MailInv
  <2>4. Len(inbox[c][u]) = 0 \/ Len(inbox[c][u]) = 1
    BY <2>1, <2>3, Zenon
  <2>5. \A n \in {0, 1} : n <= 1
    OBVIOUS
  <2>6. QED
    BY <2>4, <2>5, Zenon
<1>2. QED
  BY <1>1, Invariance, PTL

\* What is received is what was confirmed.
THEOREM ConfirmedContent == Spec => []OneContent
<1>1. IInv => OneContent
  BY DEF IInv, MailInv, OneContent
<1>2. QED
  BY <1>1, Invariance, PTL

\* Nobody hears of a campaign before its hour.
THEOREM OnTime == Spec => []NotEarly
<1>1. IInv => NotEarly
  BY DEF IInv, MailInv, NotEarly
<1>2. QED
  BY <1>1, Invariance, PTL

\* Who stayed opted out is never written to.
THEOREM ConsentRespected == Spec => []OptOutRespected
<1>1. IInv => OptOutRespected
  BY DEF IInv, MailInv, OptOutRespected
<1>2. QED
  BY <1>1, Invariance, PTL

\* A now or at_utc campaign that is 'sent' has tried everybody it owed.
THEOREM AllTried == Spec => []NobodyForgotten
<1>1. IInv => NobodyForgotten
  BY DEF IInv
<1>2. QED
  BY <1>1, Invariance, PTL

-----------------------------------------------------------------------------
(* Broadcasts implements the promise of OnceDelivery.                      *)

\* A confirmation is the only step that releases a campaign, and releases one.
LEMMA SignedBy ==
  ASSUME IInv, [Next]_vars
  PROVE  \/ UNCHANGED signed
         \/ \E c \in Campaigns : /\ signed[c] = NoContent
                                /\ \E k \in Contents : signed' = [signed EXCEPT ![c] = k]
                                /\ UNCHANGED inbox
<1>1. ASSUME NEW c \in Campaigns, NEW k \in Contents, NEW w \in Kinds, Confirm(c, k, w)
      PROVE  /\ signed[c] = NoContent
             /\ \E m \in Contents : signed' = [signed EXCEPT ![c] = m]
             /\ UNCHANGED inbox
  <2>1. status[c] = "draft"
    BY <1>1 DEF Confirm
  <2>2. signed[c] = NoContent /\ content[c] \in Contents
    BY <2>1 DEF IInv, RowInv
  <2>3. signed' = [signed EXCEPT ![c] = content[c]] /\ UNCHANGED inbox
    BY <1>1 DEF Confirm
  <2>4. QED
    BY <2>2, <2>3
<1>2. ASSUME NEW d \in Dispatchers, DispatchStep(d) \/ Disruption(d)
      PROVE  UNCHANGED signed
  BY <1>2
  DEF DispatchStep, Disruption, LosePass, AbandonCampaign, StartPass, EndPass, LoadCampaign, SkipCampaign,
      MarkSending, ResolveAudience, Claim, AlreadyClaimed, SendStep, SendAccepted,
      SendRejected, SendFlooded, SendFailed, RecordResult, FinishCampaign, history
<1>3. ASSUME NEW c \in Campaigns, NEW k \in Contents,
             \/ CreateCampaign(c, k) \/ UpdateCampaign(c, k) \/ TestAccepted(c, k)
             \/ TestRefused(c, k) \/ ConfirmRefused(c, k)
      PROVE  UNCHANGED signed
  BY <1>3
  DEF CreateCampaign, UpdateCampaign, TestAccepted, TestRefused, ConfirmRefused,
      history
<1>4. ASSUME NEW c \in Campaigns, TestCampaign(c) \/ Gate(c) \/ CancelCampaign(c)
      PROVE  UNCHANGED signed
  BY <1>4 DEF TestCampaign, Gate, CancelCampaign, history
<1>5. CASE TimeStep
  BY <1>5 DEF TimeStep, FallDue, CloseLocal, Ripen, Age, history
<1>6. ASSUME NEW u \in Fickle, OptOut(u) \/ OptIn(u)
      PROVE  UNCHANGED signed
  BY <1>6 DEF OptOut, OptIn
<1>7. CASE UNCHANGED vars
  BY <1>7 DEF vars, history
<1>8. QED
  BY <1>1, <1>2, <1>3, <1>4, <1>5, <1>6, <1>7 DEF Next, AdminStep

\* Whatever the administrator, the users, the clock and the dispatchers do, the
\* audience sees releases and single deliveries.
THEOREM Implements == Spec => KeepsPromise
<1>1. Init => Promise!Init
  BY DEF Init, Promise!Init
<1>2. ASSUME IInv, [Next]_vars
      PROVE  [Promise!Next]_(Promise!vars)
  <2>1. CASE UNCHANGED signed /\ UNCHANGED inbox
    BY <2>1 DEF Promise!vars
  <2>2. ASSUME NEW c \in Campaigns, signed[c] = NoContent,
               \E k \in Contents : signed' = [signed EXCEPT ![c] = k],
               UNCHANGED inbox
        PROVE  Promise!Next
    BY <2>2 DEF Promise!Next, Promise!Release
  <2>3. ASSUME NEW d \in Dispatchers, SendStep(d), Deliver(run[d]), UNCHANGED signed
        PROVE  Promise!Next
    <3>1. run[d].pc = "send"
      BY <1>2, <2>3, SendRun DEF IInv
    <3>2. /\ run[d].camp \in Campaigns /\ run[d].uid \in Users
          /\ run[d].letter = signed[run[d].camp]
          /\ signed[run[d].camp] # NoContent
          /\ inbox[run[d].camp][run[d].uid] = <<>>
      BY <1>2, <3>1 DEF IInv, PassInv, LoadedOk, Sending, Holding, ClaimInv, HeldOk
    <3>3. inbox' = [inbox EXCEPT ![run[d].camp][run[d].uid] = <<signed[run[d].camp]>>]
      BY <1>2, <2>3, <3>2 DEF Deliver, IInv, TypeOK
    <3>4. Promise!Deliver(run[d].camp, run[d].uid)
      BY <2>3, <3>2, <3>3 DEF Promise!Deliver
    <3>5. QED
      BY <3>2, <3>4 DEF Promise!Next
  <2>4. QED
    BY <1>2, <2>1, <2>2, <2>3, InboxBy, SignedBy
<1>3. QED
  BY <1>1, <1>2, Invariance, PTL DEF Spec, KeepsPromise, Promise!Spec

-----------------------------------------------------------------------------
(* The ledger: what is settled and who may reopen it.                      *)

\* Only the dispatchers touch the ledger.
LEMMA LedgerBy ==
  ASSUME [Next]_vars
  PROVE  UNCHANGED ledger \/ \E d \in Dispatchers : DispatchStep(d) \/ Disruption(d)
<1>1. ASSUME NEW c \in Campaigns, AdminStep(c)
      PROVE  UNCHANGED ledger
  BY <1>1
  DEF AdminStep, CreateCampaign, UpdateCampaign, TestAccepted, TestRefused, Confirm,
      ConfirmRefused, TestCampaign, Gate, CancelCampaign, rows
<1>2. CASE TimeStep
  BY <1>2 DEF TimeStep, FallDue, CloseLocal, Ripen, Age, rows
<1>3. ASSUME NEW u \in Fickle, OptOut(u) \/ OptIn(u)
      PROVE  UNCHANGED ledger
  BY <1>3 DEF OptOut, OptIn, rows
<1>4. CASE UNCHANGED vars
  BY <1>4 DEF vars, rows
<1>5. QED
  BY <1>1, <1>2, <1>3, <1>4 DEF Next

\* How a row changes: the reaper gives up a claim, a pass inserts one, or the pass that
\* holds it records the answer.
LEMMA RowBy ==
  ASSUME IInv, [Next]_vars, NEW c \in Campaigns, NEW u \in Users,
         ledger'[c][u] # ledger[c][u]
  PROVE  \/ ledger[c][u] = "pending" /\ ledger'[c][u] = "permanent"
         \/ \E d \in Dispatchers : Claim(d, u) /\ run[d].camp = c
         \/ \E d \in Dispatchers : /\ RecordResult(d) /\ Holds(run[d], c, u)
                                  /\ ledger'[c][u] = RowOf(run[d].verdict)
<1>0. ledger \in [Campaigns -> [Users -> Rows]]
  BY DEF IInv, TypeOK
<1>1. PICK d \in Dispatchers : DispatchStep(d) \/ Disruption(d)
  BY LedgerBy
<1>2. UNCHANGED ledger \/ StartPass(d) \/ (\E v \in Users : Claim(d, v)) \/ RecordResult(d)
  BY <1>1
  DEF DispatchStep, Disruption, EndPass, LosePass, AbandonCampaign, LoadCampaign,
      SkipCampaign, MarkSending, ResolveAudience, AlreadyClaimed, SendStep, SendAccepted,
      SendRejected, SendFlooded, SendFailed, FinishCampaign, rows
<1>3. CASE StartPass(d)
  BY <1>0, <1>3 DEF StartPass, Reap
<1>4. ASSUME NEW v \in Users, Claim(d, v)
      PROVE  Claim(d, u) /\ run[d].camp = c
  <2>1. ledger' = [ledger EXCEPT ![run[d].camp][v] = "pending"]
    BY <1>4 DEF Claim
  <2>2. run[d].camp = c /\ v = u
    BY <1>0, <2>1
  <2>3. QED
    BY <1>4, <2>2
<1>5. CASE RecordResult(d)
  <2> DEFINE r == run[d]
  <2>1. r.pc = "record" /\ ledger' = [ledger EXCEPT ![r.camp][r.uid] = RowOf(r.verdict)]
    BY <1>5 DEF RecordResult
  <2>2. r.camp = c /\ r.uid = u /\ ledger'[c][u] = RowOf(r.verdict)
    <3> HIDE DEF r
    <3>1. QED
      BY <1>0, <2>1
  <2>3. QED
    BY <1>5, <2>1, <2>2 DEF Holds, Holding
<1>6. QED
  BY <1>2, <1>3, <1>4, <1>5

\* How a pass comes to hold a claim.
LEMMA HoldsBy ==
  ASSUME IInv, [Next]_vars, NEW d \in Dispatchers, NEW c \in Campaigns, NEW u \in Users,
         Holds(run'[d], c, u)
  PROVE  \/ run'[d] = run[d] /\ ~RecordResult(d)
         \/ SendStep(d) /\ Holds(run[d], c, u)
         \/ Claim(d, u) /\ run[d].camp = c
<1>0. run \in [Dispatchers -> Runs] /\ run[d] \in Runs
  BY DEF IInv, TypeOK
<1>1. run'[d].pc \in {"send", "record"} /\ run'[d].camp = c /\ run'[d].uid = u
  BY DEF Holds, Holding
<1>2. ~RecordResult(d)
  <2>1. SUFFICES ASSUME RecordResult(d) PROVE FALSE
    OBVIOUS
  <2>2. run'[d].pc = "loop"
    BY <1>0, <2>1 DEF RecordResult, Runs
  <2>3. QED
    BY <1>1, <2>2
<1>3. CASE run'[d] # run[d]
  <2>1. PICK e \in Dispatchers : DispatchStep(e) \/ Disruption(e)
    BY <1>3, RunBy
  <2>2. e = d
    BY <1>3, <2>1, OwnRun DEF IInv
  <2>3. ~(StartPass(d) \/ EndPass(d) \/ Disruption(d) \/ FinishCampaign(d))
    <3>1. SUFFICES ASSUME StartPass(d) \/ EndPass(d) \/ Disruption(d) \/ FinishCampaign(d)
                   PROVE  run'[d].pc \in {"idle", "list"}
      BY <1>1
    <3>2. ASSUME NEW Q, \/ run' = [run EXCEPT ![d] = [IdleRun EXCEPT !.pc = "list",
                                                                    !.queue = Q]]
                        \/ run' = [run EXCEPT ![d] = IdleRun]
          PROVE  run'[d].pc \in {"idle", "list"}
      <4>1. [IdleRun EXCEPT !.pc = "list", !.queue = Q].pc = "list" /\ IdleRun.pc = "idle"
        BY DEF IdleRun
      <4>2. \/ run'[d] = [IdleRun EXCEPT !.pc = "list", !.queue = Q]
            \/ run'[d] = IdleRun
        BY <1>0, <3>2
      <4>3. QED
        BY <4>1, <4>2
    <3>3. QED
      BY <3>1, <3>2
      DEF StartPass, EndPass, Disruption, LosePass, AbandonCampaign, FinishCampaign
  <2>4. ASSUME NEW b \in Campaigns, LoadCampaign(d, b)
        PROVE  FALSE
    <3>1. run'[d].pc = "mark"
      BY <1>0, <2>4 DEF LoadCampaign, Runs
    <3>2. QED
      BY <1>1, <3>1
  <2>5. ASSUME NEW b \in Campaigns, SkipCampaign(d, b)
        PROVE  FALSE
    <3>1. run'[d].pc = "list"
      BY <1>0, <2>5 DEF SkipCampaign, Runs
    <3>2. QED
      BY <1>1, <3>1
  <2>6. ~MarkSending(d)
    <3>1. MarkSending(d) => run'[d].pc = "resolve"
      BY <1>0 DEF MarkSending, Runs
    <3>2. QED
      BY <1>1, <3>1
  <2>7. ~ResolveAudience(d)
    <3>1. ResolveAudience(d) => run'[d].pc = "loop"
      BY <1>0 DEF ResolveAudience, Runs
    <3>2. QED
      BY <1>1, <3>1
  <2>8. ASSUME NEW v \in Users, AlreadyClaimed(d, v)
        PROVE  FALSE
    <3>1. run'[d].pc = "loop"
      BY <1>0, <2>8 DEF AlreadyClaimed, Runs
    <3>2. QED
      BY <1>1, <3>1
  <2>9. ASSUME NEW v \in Users, Claim(d, v)
        PROVE  Claim(d, u) /\ run[d].camp = c
    <3>1. run'[d].uid = v /\ run'[d].camp = run[d].camp
      BY <1>0, <2>9 DEF Claim, Runs
    <3>2. QED
      BY <1>1, <2>9, <3>1
  <2>10. ASSUME SendStep(d)
         PROVE  Holds(run[d], c, u)
    BY <1>1, <2>10, SendRun DEF IInv, Holds, Holding
  <2>11. SendStep(d) \/ \E v \in Users : Claim(d, v)
    BY <1>2, <2>1, <2>2, <2>3, <2>4, <2>5, <2>6, <2>7, <2>8 DEF DispatchStep
  <2>12. QED
    BY <2>9, <2>10, <2>11
<1>4. QED
  BY <1>2, <1>3

\* A message that is out stays out.
LEMMA InboxGrows ==
  ASSUME IInv, [Next]_vars, NEW c \in Campaigns, NEW u \in Users, inbox[c][u] # <<>>
  PROVE  inbox'[c][u] # <<>>
<1>1. CASE UNCHANGED inbox
  BY <1>1
<1>2. ASSUME NEW d \in Dispatchers, SendStep(d), Deliver(run[d])
      PROVE  inbox'[c][u] # <<>>
  <2>1. run[d].pc = "send"
    BY <1>2, SendRun DEF IInv
  <2>2. /\ run[d].camp \in Campaigns /\ run[d].uid \in Users
        /\ inbox[run[d].camp][run[d].uid] = <<>>
    BY <2>1 DEF IInv, PassInv, LoadedOk, Sending, Holding, ClaimInv, HeldOk
  <2>3. <<c, u>> # <<run[d].camp, run[d].uid>>
    BY <2>2
  <2>4. inbox'[c][u] = inbox[c][u]
    BY <1>2, <2>2, <2>3 DEF Deliver, IInv, TypeOK
  <2>5. QED
    BY <2>4
<1>3. QED
  BY <1>1, <1>2, InboxBy

\* The answer of a pass that was accepted found the message out.
LEMMA AcceptedOut ==
  ASSUME IInv, NEW d \in Dispatchers, SendStep(d), run'[d].pc = "record",
         run'[d].verdict = "ok"
  PROVE  inbox'[run[d].camp][run[d].uid] # <<>>
<1>0. run \in [Dispatchers -> Runs] /\ run[d] \in Runs
  BY DEF IInv, TypeOK
<1>1. \A v : Answered(d, v) => run'[d].verdict = v
  BY <1>0 DEF Answered, Runs
<1>2. run[d].pc = "send"
  BY SendRun DEF IInv
<1>3. ~SendRejected(d) /\ ~SendFailed(d)
  BY <1>1 DEF SendRejected, SendFailed, AfterException
<1>4. ~SendFlooded(d)
  <2>1. ASSUME run' = [run EXCEPT ![d] = [run[d] EXCEPT !.attempt = 2]]
        PROVE  run'[d].pc = "send"
    BY <1>0, <1>2, <2>1 DEF Runs
  <2>2. QED
    BY <1>1, <2>1 DEF SendFlooded
<1>5. Deliver(run[d])
  BY <1>3, <1>4 DEF SendStep, SendAccepted
<1>6. /\ run[d].camp \in Campaigns /\ run[d].uid \in Users
      /\ run[d].letter \in Contents
      /\ inbox[run[d].camp][run[d].uid] = <<>>
  BY <1>0, <1>2
  DEF IInv, PassInv, LoadedOk, Sending, Holding, ClaimInv, HeldOk, Runs
<1>7. inbox'[run[d].camp][run[d].uid] = Append(<<>>, run[d].letter)
  BY <1>5, <1>6 DEF Deliver, IInv, TypeOK
<1>8. QED
  BY <1>7

LEMMA HandsStep == ASSUME IInv, HandsInv, [Next]_vars PROVE HandsInv'
<1>0. /\ ledger \in [Campaigns -> [Users -> Rows]]
      /\ \A d \in Dispatchers : run[d] \in Runs
  BY DEF IInv, TypeOK
<1>p. \A d \in Dispatchers : Holding(run'[d]) => /\ run'[d].camp \in Campaigns
                                                 /\ run'[d].uid \in Users
  BY PassStep DEF PassInv, LoadedOk, Sending, Holding
<1>h. \A d \in Dispatchers, c \in Campaigns, u \in Users :
        Holds(run[d], c, u) => /\ ledger[c][u] \in {"pending", "permanent"}
                               /\ run[d].pc = "record" /\ run[d].verdict = "ok" =>
                                    inbox[c][u] # <<>>
  BY DEF HandsInv, HandOk, Holds
<1>1. ASSUME NEW d \in Dispatchers
      PROVE  HandOk(run[d])'
  <2>1. SUFFICES ASSUME Holding(run'[d])
                 PROVE  /\ ledger'[run'[d].camp][run'[d].uid] \in {"pending", "permanent"}
                        /\ run'[d].pc = "record" /\ run'[d].verdict = "ok" =>
                             inbox'[run'[d].camp][run'[d].uid] # <<>>
    BY DEF HandOk, Holding
  <2>2. PICK c \in Campaigns, u \in Users : run'[d].camp = c /\ run'[d].uid = u
    BY <1>p, <2>1
  <2>3. Holds(run'[d], c, u)
    BY <2>1, <2>2 DEF Holds
  <2>4. CASE Claim(d, u) /\ run[d].camp = c
    <3>1. ledger'[c][u] = "pending"
      BY <1>0, <2>4 DEF Claim
    <3>2. run'[d].pc = "send"
      BY <1>0, <2>4 DEF Claim, IInv, TypeOK, Runs
    <3>3. QED
      BY <2>2, <3>1, <3>2
  <2>5. ASSUME Holds(run[d], c, u), ~RecordResult(d)
        PROVE  ledger'[c][u] \in {"pending", "permanent"}
    <3>1. ledger[c][u] \in {"pending", "permanent"}
      BY <1>h, <2>5
    <3>2. ASSUME NEW e \in Dispatchers, RecordResult(e), Holds(run[e], c, u)
          PROVE  FALSE
      BY <2>5, <3>2 DEF HandsInv
    <3>3. ASSUME NEW e \in Dispatchers, Claim(e, u), run[e].camp = c
          PROVE  FALSE
      BY <3>1, <3>3 DEF Claim
    <3>4. QED
      BY <3>1, <3>2, <3>3, RowBy
  <2>6. CASE run'[d] = run[d] /\ ~RecordResult(d)
    <3>1. Holds(run[d], c, u)
      BY <2>3, <2>6
    <3>2. run[d].pc = "record" /\ run[d].verdict = "ok" => inbox'[c][u] # <<>>
      BY <1>h, <3>1, InboxGrows
    <3>3. QED
      BY <2>2, <2>5, <2>6, <3>1, <3>2
  <2>7. CASE SendStep(d) /\ Holds(run[d], c, u)
    <3>1. ~RecordResult(d)
      BY <2>7, SendRun DEF IInv, RecordResult
    <3>2. run[d].camp = c /\ run[d].uid = u
      BY <2>7 DEF Holds
    <3>3. QED
      BY <2>2, <2>5, <2>7, <3>1, <3>2, AcceptedOut
  <2>8. QED
    BY <2>3, <2>4, <2>6, <2>7, HoldsBy
<1>2. ASSUME NEW d \in Dispatchers, NEW e \in Dispatchers, NEW c \in Campaigns,
             NEW u \in Users, Holds(run'[d], c, u), Holds(run'[e], c, u), d # e
      PROVE  FALSE
  <2>1. ASSUME NEW f \in Dispatchers, Holds(run'[f], c, u)
        PROVE  Holds(run[f], c, u) \/ (Claim(f, u) /\ run[f].camp = c)
    BY <2>1, HoldsBy
  <2>2. ASSUME NEW f \in Dispatchers, NEW g \in Dispatchers, Claim(f, u), run[f].camp = c
        PROVE  ~Holds(run[g], c, u)
    BY <1>h, <2>2 DEF Claim
  <2>3. CASE Claim(d, u) /\ run[d].camp = c /\ Claim(e, u)
    <3>1. run'[e] = run[e]
      BY <1>2, <2>3, OwnRun DEF DispatchStep, IInv
    <3>2. QED
      BY <1>2, <2>3, <3>1 DEF Claim, Holds, Holding
  <2>4. QED
    BY <1>2, <2>1, <2>2, <2>3 DEF HandsInv
<1>3. ASSUME NEW c \in Campaigns, NEW u \in Users, ledger'[c][u] = "ok"
      PROVE  inbox'[c][u] # <<>>
  <2>1. CASE ledger[c][u] = "ok"
    BY <2>1, InboxGrows DEF HandsInv
  <2>2. CASE ledger[c][u] # "ok"
    <3>1. ASSUME NEW d \in Dispatchers, Claim(d, u), run[d].camp = c
          PROVE  FALSE
      BY <1>0, <1>3, <3>1 DEF Claim
    <3>2. PICK d \in Dispatchers : /\ RecordResult(d) /\ Holds(run[d], c, u)
                                   /\ ledger'[c][u] = RowOf(run[d].verdict)
      BY <1>3, <2>2, <3>1, RowBy
    <3>3. run[d].verdict = "ok" /\ run[d].pc = "record"
      BY <1>3, <3>2 DEF RowOf, RecordResult
    <3>4. QED
      BY <1>h, <3>2, <3>3, InboxGrows
  <2>3. QED
    BY <2>1, <2>2
<1>4. QED
  BY <1>1, <1>2, <1>3 DEF HandsInv

LEMMA HandsAlways == Spec => []HandsInv
<1>1. Init => HandsInv
  BY DEF Init, HandsInv, HandOk, Holds, Holding, IdleRun
<1>2. IInv /\ HandsInv /\ [Next]_vars => HandsInv'
  BY HandsStep
<1>3. QED
  BY <1>1, <1>2, Invariance, PTL DEF Spec

\* However passes overlap, what the ledger says does not go back: a claim never
\* disappears, a row says 'ok' of a message that is out and for good, and a row that was
\* given up is reopened by nobody but the one pass that holds the claim (the fifteen
\* minutes of the reaper, broadcasts.py:205-212, against the UPDATE without a guard of
\* broadcasts.py:178-186).
THEOREM RowsAdvance == Spec => LedgerAdvances
<1> DEFINE Advances(c, u) ==
       /\ ledger[c][u] # "none" => ledger'[c][u] # "none"
       /\ ledger[c][u] = "ok" => ledger'[c][u] = "ok"
       /\ ledger'[c][u] = "ok" => inbox'[c][u] # <<>>
       /\ ledger[c][u] = "permanent" /\ ledger'[c][u] # "permanent" =>
            \E d \in Dispatchers : Holds(run[d], c, u)
<1>1. ASSUME IInv, HandsInv, [Next]_vars, NEW c \in Campaigns, NEW u \in Users
      PROVE  Advances(c, u)
  <2>1. ledger'[c][u] = "ok" => inbox'[c][u] # <<>>
    BY <1>1, HandsStep DEF HandsInv
  <2>2. CASE ledger'[c][u] = ledger[c][u]
    BY <2>1, <2>2
  <2>3. CASE ledger[c][u] = "pending" /\ ledger'[c][u] = "permanent"
    BY <2>1, <2>3
  <2>4. ASSUME NEW d \in Dispatchers, Claim(d, u), run[d].camp = c
        PROVE  Advances(c, u)
    BY <2>1, <2>4 DEF Claim
  <2>5. ASSUME NEW d \in Dispatchers, RecordResult(d), Holds(run[d], c, u),
               ledger'[c][u] = RowOf(run[d].verdict)
        PROVE  Advances(c, u)
    <3>1. ledger[c][u] \in {"pending", "permanent"}
      BY <1>1, <2>5 DEF HandsInv, HandOk, Holds
    <3>2. RowOf(run[d].verdict) # "none"
      BY <1>1, RowOfType DEF IInv, TypeOK, Runs
    <3>3. QED
      BY <2>1, <2>5, <3>1, <3>2
  <2> HIDE DEF Advances
  <2>6. QED
    BY <1>1, <2>2, <2>3, <2>4, <2>5, RowBy
<1>2. IInv /\ HandsInv /\ [Next]_vars =>
        [\A c \in Campaigns, u \in Users : Advances(c, u)]_ledger
  BY <1>1
<1>3. QED
  BY <1>2, HandsAlways, Invariance, PTL DEF Spec, LedgerAdvances

-----------------------------------------------------------------------------
(* One pass at a time: a campaign that is finished stays finished.         *)

\* A campaign leaves 'sent' only by the mark of a pass that had loaded it, or by the end
\* of one.
LEMMA UnsentBy ==
  ASSUME IInv, [Next]_vars, NEW c \in Campaigns, status[c] = "sent", status'[c] # "sent"
  PROVE  \E d \in Dispatchers : (MarkSending(d) \/ FinishCampaign(d)) /\ run[d].camp = c
<1>0. status \in [Campaigns -> Statuses]
  BY DEF IInv, TypeOK
<1>1. ASSUME NEW b \in Campaigns, AdminStep(b)
      PROVE  FALSE
  BY <1>0, <1>1
  DEF AdminStep, CreateCampaign, UpdateCampaign, TestAccepted, TestRefused, Confirm,
      ConfirmRefused, TestCampaign, Gate, CancelCampaign, table
<1>2. CASE TimeStep
  BY <1>2 DEF TimeStep, FallDue, CloseLocal, Ripen, Age, table
<1>3. ASSUME NEW u \in Fickle, OptOut(u) \/ OptIn(u)
      PROVE  FALSE
  BY <1>3 DEF OptOut, OptIn, table
<1>4. CASE UNCHANGED vars
  BY <1>4 DEF vars, table
<1>5. ASSUME NEW d \in Dispatchers, DispatchStep(d) \/ Disruption(d)
      PROVE  (MarkSending(d) \/ FinishCampaign(d)) /\ run[d].camp = c
  <2>1. MarkSending(d) \/ FinishCampaign(d)
    BY <1>5
    DEF DispatchStep, Disruption, StartPass, EndPass, LosePass, AbandonCampaign,
        LoadCampaign, SkipCampaign, ResolveAudience, Claim, AlreadyClaimed, SendStep,
        SendAccepted, SendRejected, SendFlooded, SendFailed, RecordResult, table
  <2>2. run[d].camp = c
    BY <1>0, <2>1 DEF MarkSending, FinishCampaign
  <2>3. QED
    BY <2>1, <2>2
<1>6. QED
  BY <1>1, <1>2, <1>3, <1>4, <1>5 DEF Next

\* What a single pass does to the row of the campaign it works on.
LEMMA OwnMove ==
  ASSUME OnePass, IInv, OwnInv, NEW d \in Dispatchers, DispatchStep(d) \/ Disruption(d)
  PROVE  OwnOk(run[d])'
<1> DEFINE r == run[d]
           s == run'[d]
<1>0. /\ run \in [Dispatchers -> Runs] /\ r \in Runs /\ status \in [Campaigns -> Statuses]
      /\ Sending(r) => r.camp \in Campaigns
  BY DEF IInv, TypeOK, PassInv, LoadedOk
<1>1. Sending(r) => status[r.camp] # "sent"
  BY DEF OwnInv, OwnOk
<1>s. SUFFICES Sending(s) => status'[s.camp] # "sent"
  BY DEF OwnOk, Sending
<1>2. CASE StartPass(d) \/ EndPass(d) \/ Disruption(d) \/ FinishCampaign(d)
  <2>1. ASSUME NEW Q, \/ run' = [run EXCEPT ![d] = [IdleRun EXCEPT !.pc = "list", !.queue = Q]]
                      \/ run' = [run EXCEPT ![d] = IdleRun]
        PROVE  s.pc \in {"idle", "list"}
    <3>1. [IdleRun EXCEPT !.pc = "list", !.queue = Q].pc = "list" /\ IdleRun.pc = "idle"
      BY DEF IdleRun
    <3>2. s = [IdleRun EXCEPT !.pc = "list", !.queue = Q] \/ s = IdleRun
      BY <1>0, <2>1
    <3>3. QED
      BY <3>1, <3>2
  <2>2. s.pc \in {"idle", "list"}
    BY <1>2, <2>1
    DEF StartPass, EndPass, Disruption, LosePass, AbandonCampaign, FinishCampaign
  <2>3. QED
    BY <2>2 DEF Sending
<1>3. ASSUME NEW c \in Campaigns, LoadCampaign(d, c)
      PROVE  Sending(s) => status'[s.camp] # "sent"
  <2>1. s.camp = c /\ Live(c) /\ status' = status
    BY <1>0, <1>3 DEF LoadCampaign, Sendable, Runs, table
  <2>2. QED
    BY <2>1 DEF Live
<1>4. ASSUME NEW c \in Campaigns, LoadCampaign(d, c) \/ SkipCampaign(d, c)
      PROVE  s.pc \in {"mark", "list"} /\ (SkipCampaign(d, c) => s.pc = "list")
  <2>1. CASE LoadCampaign(d, c)
    <3>1. s.pc = "mark" /\ r.pc = "list" /\ ~SkipCampaign(d, c)
      BY <1>0, <2>1 DEF LoadCampaign, SkipCampaign, Runs
    <3>2. QED
      BY <3>1
  <2>2. CASE SkipCampaign(d, c)
    <3>1. run' = [run EXCEPT ![d] = [r EXCEPT !.queue = r.queue \ {c}]] /\ r.pc = "list"
      BY <2>2 DEF SkipCampaign
    <3>2. s.pc = "list"
      BY <1>0, <3>1 DEF Runs
    <3>3. QED
      BY <3>2
  <2>3. QED
    BY <1>4, <2>1, <2>2
<1>5. CASE MarkSending(d)
  <2>1. s.camp = r.camp /\ s.pc = "resolve" /\ Sending(r)
    BY <1>0, <1>5 DEF MarkSending, Runs, Sending
  <2>2. status'[r.camp] = "sending"
    BY <1>0, <1>5, <2>1 DEF MarkSending
  <2>3. QED
    BY <2>1, <2>2
<1>6. CASE ResolveAudience(d)
  <2>1. s.camp = r.camp /\ s.pc = "loop" /\ Sending(r) /\ status' = status
    BY <1>0, <1>6 DEF ResolveAudience, Runs, Sending, table
  <2>2. QED
    BY <1>1, <2>1
<1>7. ASSUME NEW u \in Users, Claim(d, u)
      PROVE  status'[s.camp] # "sent"
  <2>1. run' = [run EXCEPT ![d] = [r EXCEPT !.pc = "send", !.uid = u, !.todo = r.todo \ {u}]]
    BY <1>7 DEF Claim
  <2>2. s.camp = r.camp /\ Sending(r) /\ status' = status
    BY <1>0, <1>7, <2>1 DEF Claim, Runs, Sending, table
  <2>3. QED
    BY <1>1, <2>2
<1>8. ASSUME NEW u \in Users, AlreadyClaimed(d, u)
      PROVE  s.camp = r.camp /\ s.pc = "loop" /\ Sending(r) /\ status' = status
  <2>1. run' = [run EXCEPT ![d] = [r EXCEPT !.todo = r.todo \ {u}]]
    BY <1>8 DEF AlreadyClaimed
  <2>2. QED
    BY <1>0, <1>8, <2>1 DEF AlreadyClaimed, Runs, Sending, table
<1>9. CASE SendStep(d)
  <2>1. s.camp = r.camp /\ Sending(r) /\ status' = status
    BY <1>9, SendRun
    DEF IInv, Sending, SendStep, SendAccepted, SendRejected, SendFlooded, SendFailed, table
  <2>2. QED
    BY <1>1, <2>1
<1>10. CASE RecordResult(d)
  <2>1. s.camp = r.camp /\ s.pc = "loop" /\ Sending(r) /\ status' = status
    BY <1>0, <1>10 DEF RecordResult, Runs, Sending, table
  <2>2. QED
    BY <1>1, <2>1
<1>11. ASSUME NEW c \in Campaigns, LoadCampaign(d, c) \/ SkipCampaign(d, c)
       PROVE  Sending(s) => status'[s.camp] # "sent"
  BY <1>3, <1>4, <1>11 DEF Sending
<1>12. ASSUME NEW u \in Users, AlreadyClaimed(d, u)
       PROVE  Sending(s) => status'[s.camp] # "sent"
  BY <1>1, <1>8, <1>12
<1> HIDE DEF r, s
<1>13. QED
  BY <1>2, <1>5, <1>6, <1>7, <1>9, <1>10, <1>11, <1>12 DEF DispatchStep

LEMMA OwnStep == ASSUME OnePass, IInv, OwnInv, [Next]_vars PROVE OwnInv'
<1>1. SUFFICES ASSUME NEW d \in Dispatchers PROVE OwnOk(run[d])'
  BY DEF OwnInv
<1>2. CASE \E e \in Dispatchers : DispatchStep(e) \/ Disruption(e)
  <2>1. DispatchStep(d) \/ Disruption(d)
    BY <1>2 DEF OnePass
  <2>2. QED
    BY <2>1, OwnMove
<1>3. CASE ~\E e \in Dispatchers : DispatchStep(e) \/ Disruption(e)
  <2>1. UNCHANGED run
    BY <1>3, RunBy
  <2>2. \A c \in Campaigns : status'[c] = "sent" => status[c] = "sent"
    BY <1>3, SentBy DEF DispatchStep
  <2>3. Sending(run[d]) => run[d].camp \in Campaigns
    BY DEF IInv, PassInv, LoadedOk
  <2>4. OwnOk(run[d])
    BY DEF OwnInv
  <2>5. QED
    BY <2>1, <2>2, <2>3, <2>4 DEF OwnOk, Sending
<1>4. QED
  BY <1>2, <1>3

LEMMA OwnAlways == ASSUME OnePass PROVE Spec => []OwnInv
<1>1. Init => OwnInv
  BY DEF Init, OwnInv, OwnOk, Sending, IdleRun
<1>2. IInv /\ OwnInv /\ [Next]_vars => OwnInv'
  BY OwnStep
<1>3. QED
  BY <1>1, <1>2, Invariance, PTL DEF Spec

\* When no two passes overlap, a finished campaign is not taken up again (send_campaign_impl
\* marks the row by its id alone).
THEOREM SentStays == ASSUME OnePass PROVE Spec => SentIsFinal
<1>1. IInv /\ OwnInv /\ [Next]_vars =>
        [\A c \in Campaigns : status[c] = "sent" => status'[c] = "sent"]_status
  <2> SUFFICES ASSUME IInv, OwnInv, [Next]_vars, NEW c \in Campaigns, status[c] = "sent",
                      status'[c] # "sent"
               PROVE  FALSE
    OBVIOUS
  <2>1. PICK d \in Dispatchers : (MarkSending(d) \/ FinishCampaign(d)) /\ run[d].camp = c
    BY UnsentBy
  <2>2. Sending(run[d])
    BY <2>1 DEF MarkSending, FinishCampaign, Sending
  <2>3. QED
    BY <2>1, <2>2 DEF OwnInv, OwnOk
<1>2. QED
  BY <1>1, OwnAlways, Invariance, PTL DEF Spec, SentIsFinal
=============================================================================
