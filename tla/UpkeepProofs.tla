----------------------------- MODULE UpkeepProofs -----------------------------
(***************************************************************************)
(* That no death of a fetch passes a post over, for any number of flows,   *)
(* sources, posts, deaths and errors, and that a process has its row and   *)
(* its slot.                                                               *)
(***************************************************************************)
EXTENDS Upkeep, FiniteSetTheorems, TLAPS

\* The source of a fetcher is a source.
LEMMA SrcType == \A f \in Flows : f # Sweeper => f \in Fetchers /\ Src[f] \in Sources
  BY DEF Fetchers, Sources

\* Only a fetcher is at a place where something is fetched.
LEMMA Fetching ==
  ASSUME TypeOK, NEW f \in Flows, proc[f].at \notin {"off", "boot", "sweep"}
  PROVE  f \in Fetchers /\ Src[f] \in Sources /\ f # Sweeper
  BY SrcType DEF TypeOK

\* What a process holds at each place.
LEMMA Holds ==
  ASSUME TypeOK, NEW f \in Flows
  PROVE  /\ proc[f].at \in {"off", "boot", "sweep", "fail", "read", "scan", "write", "move"}
         /\ proc[f].at \in {"read", "scan"} => proc[f] \in [at : {"read", "scan"}, from : Nat]
         /\ proc[f].at = "write" => proc[f].got \in SUBSET Nat /\ proc[f].to \in Nat
         /\ proc[f].at = "move" => proc[f].to \in Nat
<1>1. proc[f] \in ProcStates
  BY DEF TypeOK
<1>2. CASE proc[f] \in [at : {"off", "boot", "sweep", "fail"}]
  BY <1>2
<1>3. CASE proc[f] \in [at : {"read", "scan"}, from : Nat]
  BY <1>3
<1>4. CASE proc[f] \in [at : {"write"}, got : SUBSET Nat, to : Nat]
  BY <1>4
<1>5. CASE proc[f] \in [at : {"move"}, to : Nat]
  BY <1>5
<1>6. QED
  BY <1>1, <1>2, <1>3, <1>4, <1>5 DEF ProcStates

\* The flow of a channel is the only one that fetches it, and scans nothing.
LEMMA OneReader ==
  ASSUME NEW f \in Fetchers, Src[f] \in Channels
  PROVE  Mode[f] = "tick" /\ \A g \in Fetchers : Src[g] = Src[f] => g = f
  BY UpkeepAssumption DEF UpkeepAssumption, Channels

\* A place without data is a state of a process.
LEMMA PlainStates ==
  /\ Off \in ProcStates /\ Off.at = "off"
  /\ \A a \in {"boot", "sweep", "fail"} : At(a) \in ProcStates /\ At(a).at = a
  BY DEF ProcStates, Off, At

\* The next offset is a number, and so are the records that a site shows.
LEMMA SiteType ==
  ASSUME TypeOK, NEW s \in Sources, NEW from \in Nat
  PROVE  Next1(s, from) \in Nat /\ Records(s, from) \in SUBSET Nat
<1>1. top[s] \in Nat /\ Parts \in Nat \ {0}
  BY UpkeepAssumption DEF TypeOK, UpkeepAssumption
<1>2. (from + 1) % Parts \in Nat
  BY <1>1
<1>3. QED
  BY <1>1, <1>2 DEF Next1, FirstOf, Records, Seen

\* What is out of reach are posts of the channel.
LEMMA OutType ==
  ASSUME cursor' \in [Sources -> Nat], top' \in [Sources -> Nat], NEW s \in Sources
  PROVE  OutOfReach(s)' \in SUBSET Nat
<1>1. OutOfReach(s)' \subseteq (cursor'[s] + 1)..top'[s]
  BY DEF OutOfReach
<1>2. QED
  BY <1>1

LEMMA ForgetType ==
  ASSUME TypeOK, cursor' \in [Sources -> Nat], top' \in [Sources -> Nat], NEW s \in Sources, Forget(s)
  PROVE  passed' \in [Sources -> SUBSET Nat]
  BY OutType DEF Forget, TypeOK

-----------------------------------------------------------------------------
(* Types.                                                                  *)

LEMMA CompleteType ==
  ASSUME TypeOK, NEW f \in Flows, Complete(f), UNCHANGED <<top, aged, stored>>,
         cursor' \in [Sources -> Nat] /\ passed' \in [Sources -> SUBSET Nat]
  PROVE  TypeOK'
  BY PlainStates DEF TypeOK, Complete

\* A flow goes on to another place, and only what it fetched changes beside it.
LEMMA MoveType ==
  ASSUME TypeOK, NEW f \in Flows, NEW q \in ProcStates, f # Sweeper \/ q.at \in {"off", "boot", "sweep"},
         proc' = [proc EXCEPT ![f] = q],
         up' = up, aged' = aged, slot' \in [Flows -> BOOLEAN],
         run' \in [Flows -> {NoRun, "pending", "running", "old"}],
         cursor' \in [Sources -> Nat] /\ top' \in [Sources -> Nat],
         stored' \in [Sources -> SUBSET Nat] /\ passed' \in [Sources -> SUBSET Nat]
  PROVE  TypeOK'
  BY UpkeepAssumption DEF TypeOK, UpkeepAssumption

LEMMA RunnerType ==
  ASSUME TypeOK,
         \/ \E f \in Flows : Submit(f) \/ KillRun(f) \/ Age(f)
         \/ KillRunner \/ Restart \/ StartSweep \/ Sweep
  PROVE  TypeOK'
<1> USE UpkeepAssumption DEF UpkeepAssumption
<1>1. ASSUME NEW f \in Flows, Submit(f)
      PROVE  TypeOK'
  BY <1>1, PlainStates, MoveType DEF Submit, fetched, world, TypeOK
<1>2. ASSUME NEW f \in Flows, KillRun(f)
      PROVE  TypeOK'
  BY <1>2, PlainStates, MoveType DEF KillRun, runner, fetched, world, TypeOK
<1>3. ASSUME NEW f \in Flows, Age(f)
      PROVE  TypeOK'
  BY <1>3 DEF Age, fetched, world, TypeOK
<1>4. CASE KillRunner
  BY <1>4, PlainStates DEF KillRunner, fetched, world, TypeOK
<1>5. CASE Restart
  BY <1>5 DEF Restart, fetched, world, TypeOK
<1>6. CASE StartSweep
  BY <1>6, PlainStates, MoveType DEF StartSweep, fetched, world, TypeOK
<1>7. CASE Sweep
  BY <1>7, PlainStates, MoveType DEF Sweep, Held, fetched, world, TypeOK
<1>8. QED
  BY <1>1, <1>2, <1>3, <1>4, <1>5, <1>6, <1>7

LEMMA FetchType ==
  ASSUME TypeOK, NEW f \in Flows, Steps(f) \/ Budget(f)
  PROVE  TypeOK'
<1>1. CASE Start(f)
  <2>1. f \in Fetchers /\ Src[f] \in Sources
    BY <1>1, SrcType DEF Start
  <2>2. CASE ~active[Src[f]] \/ Src[f] \in retired
    BY <1>1, <2>2, CompleteType DEF Start, fetched, world, TypeOK
  <2>3. CASE active[Src[f]] /\ Src[f] \notin retired
    <3> DEFINE q == [at |-> IF Mode[f] = "full" THEN "scan" ELSE "read",
                     from |-> IF Mode[f] = "full" THEN 0 ELSE cursor[Src[f]]]
    <3>1. q \in ProcStates
      BY <2>1 DEF ProcStates, TypeOK
    <3>2. /\ proc' = [proc EXCEPT ![f] = q] /\ run' = [run EXCEPT ![f] = "running"]
          /\ UNCHANGED <<up, slot, fetched, top, aged, passed>> /\ f # Sweeper
      BY <1>1, <2>3 DEF Start, world
    <3> HIDE DEF q
    <3>3. QED
      BY <3>1, <3>2, MoveType DEF fetched, TypeOK
  <2>4. QED
    BY <2>2, <2>3
<1>2. CASE Read(f)
  <2> DEFINE s == Src[f]
             from == proc[f].from
  <2>1. f \in Fetchers /\ s \in Sources /\ f # Sweeper
    BY <1>2, Fetching DEF Read
  <2>2. from \in Nat
    BY <1>2, Holds DEF Read
  <2>3. Next1(s, from) \in Nat /\ Records(s, from) \in SUBSET Nat
    BY <2>1, <2>2, SiteType
  <2>4. PICK q : /\ proc' = [proc EXCEPT ![f] = q]
                 /\ \/ q = [at |-> "write", got |-> Records(s, from), to |-> Next1(s, from)]
                    \/ q = [at |-> "write", got |-> {}, to |-> Next1(s, from)]
                    \/ q = [at |-> "write", got |-> {}, to |-> 0]
                    \/ q = At("fail")
    BY <1>2 DEF Read
  <2>5. q \in ProcStates
    BY <2>3, <2>4, PlainStates DEF ProcStates
  <2>6. UNCHANGED <<runner, fetched, top, aged, passed>>
    BY <1>2 DEF Read, world
  <2>7. QED
    BY <2>1, <2>4, <2>5, <2>6, MoveType DEF runner, fetched, TypeOK
<1>3. CASE Write(f)
  <2>1. f \in Fetchers /\ Src[f] \in Sources /\ f # Sweeper
    BY <1>3, Fetching DEF Write
  <2>2. proc[f].got \in SUBSET Nat /\ proc[f].to \in Nat
    BY <1>3, Holds DEF Write
  <2>3. [at |-> "move", to |-> proc[f].to] \in ProcStates
    BY <2>2 DEF ProcStates
  <2>4. stored' \in [Sources -> SUBSET Nat]
    BY <1>3, <2>1, <2>2 DEF Write, TypeOK
  <2>5. QED
    BY <1>3, <2>1, <2>3, <2>4, MoveType DEF Write, runner, world, TypeOK
<1>4. CASE Advance(f)
  <2>1. proc[f].to \in Nat /\ f \in Fetchers /\ Src[f] \in Sources
    BY <1>4, Holds, Fetching DEF Advance
  <2>2. cursor' \in [Sources -> Nat] /\ top' \in [Sources -> Nat]
    BY <1>4, <2>1 DEF Advance, TypeOK
  <2>3. passed' \in [Sources -> SUBSET Nat]
    BY <1>4, <2>1, <2>2, ForgetType DEF Advance
  <2>4. QED
    BY <1>4, <2>2, <2>3, CompleteType DEF Advance
<1>5. CASE ScanPart(f)
  <2>1. f \in Fetchers /\ f # Sweeper
    BY <1>5, Fetching DEF ScanPart
  <2>2. proc[f] \in [at : {"read", "scan"}, from : Nat]
    BY <1>5, Holds DEF ScanPart
  <2>3. PICK q : proc' = [proc EXCEPT ![f] = q] /\ (q = [proc[f] EXCEPT !.from = @ + 1] \/ q = At("fail"))
    BY <1>5 DEF ScanPart
  <2>4. q \in ProcStates
    <3>1. [proc[f] EXCEPT !.from = @ + 1] \in [at : {"read", "scan"}, from : Nat]
      BY <2>2
    <3>2. QED
      BY <2>3, <3>1, PlainStates DEF ProcStates
  <2>5. QED
    BY <1>5, <2>1, <2>3, <2>4, MoveType DEF ScanPart, runner, fetched, world, TypeOK
<1>6. CASE ScanEnd(f)
  <2>1. f \in Fetchers /\ f # Sweeper
    BY <1>6, Fetching DEF ScanEnd
  <2>2. [at |-> "move", to |-> FirstOf(Kind[Src[f]])] \in ProcStates
    BY DEF ProcStates, FirstOf
  <2>3. QED
    BY <1>6, <2>1, <2>2, MoveType DEF ScanEnd, runner, fetched, world, TypeOK
<1>7. CASE Fail(f)
  BY <1>7, CompleteType DEF Fail, fetched, TypeOK
<1>8. CASE Budget(f)
  BY <1>8, CompleteType DEF Budget, fetched, world, TypeOK
<1>9. QED
  BY <1>1, <1>2, <1>3, <1>4, <1>5, <1>6, <1>7, <1>8 DEF Steps

LEMMA WorldType ==
  ASSUME TypeOK, Hours \/ \E s \in Sources : Post(s) \/ Days(s) \/ Dies(s) \/ Toggle(s)
  PROVE  TypeOK'
<1>1. CASE Hours \/ \E s \in Sources : Dies(s) \/ Toggle(s)
  BY <1>1 DEF TypeOK, Hours, Dies, Toggle, runner, fetched
<1>2. ASSUME NEW s \in Sources, Post(s)
      PROVE  TypeOK'
  <2>1. cursor' \in [Sources -> Nat] /\ top' \in [Sources -> Nat]
    BY <1>2 DEF Post, TypeOK, fetched
  <2>2. passed' \in [Sources -> SUBSET Nat]
    BY <1>2, <2>1, ForgetType DEF Post
  <2>3. QED
    BY <1>2, <2>1, <2>2 DEF Post, TypeOK, runner, fetched
<1>3. ASSUME NEW s \in Sources, Days(s)
      PROVE  TypeOK'
  <2>1. cursor' \in [Sources -> Nat] /\ top' \in [Sources -> Nat]
    BY <1>3 DEF Days, TypeOK, fetched
  <2>2. passed' \in [Sources -> SUBSET Nat]
    BY <1>3, <2>1, ForgetType DEF Days
  <2>3. aged' \in [Sources -> [BOOLEAN -> Nat]]
    <3>1. PICK first \in BOOLEAN : aged' = [aged EXCEPT ![s][first] = @ + 1]
      BY <1>3 DEF Days
    <3>2. aged[s] \in [BOOLEAN -> Nat]
      BY DEF TypeOK
    <3>3. [aged[s] EXCEPT ![first] = @ + 1] \in [BOOLEAN -> Nat]
      BY <3>2
    <3>4. QED
      BY <3>1, <3>3 DEF TypeOK
  <2>4. QED
    BY <1>3, <2>1, <2>2, <2>3 DEF Days, TypeOK, runner, fetched
<1>4. QED
  BY <1>1, <1>2, <1>3

LEMMA TypeStep == TypeOK /\ [Next]_vars => TypeOK'
<1> SUFFICES ASSUME TypeOK, [Next]_vars PROVE TypeOK'
  OBVIOUS
<1>1. CASE UNCHANGED vars
  BY <1>1 DEF vars, runner, fetched, world, TypeOK
<1>2. QED
  BY <1>1, RunnerType, FetchType, WorldType DEF Next

-----------------------------------------------------------------------------
(* Rows and slots.                                                         *)

\* When no flow starts, and each that goes on keeps its slot and has the row of its place,
\* every process has its own.
LEMMA GoesOn ==
  ASSUME TypeOK, OwnRow, UNCHANGED up,
         \A f \in Flows : proc'[f] # Off =>
           Live(f) /\ slot'[f] /\ run'[f] = IF proc'[f].at = "boot" THEN "pending" ELSE "running"
  PROVE  OwnRow'
<1> DEFINE before == {f \in Flows : Live(f)}
           after == {f \in Flows : proc'[f] # Off}
<1>1. IsFiniteSet(before) /\ after \subseteq before
  BY UpkeepAssumption, FS_Subset DEF UpkeepAssumption
<1>2. Cardinality(after) <= Cardinality(before) /\ Cardinality(before) \in Nat /\ Cardinality(after) \in Nat
  BY <1>1, FS_Subset, FS_CardinalityType
<1>3. InFlight' <= Limit
  BY <1>2, UpkeepAssumption DEF OwnRow, InFlight, Live, UpkeepAssumption
<1>4. QED
  BY <1>3 DEF OwnRow, Live

\* A flow ends, and frees its slot.
LEMMA CompleteRow ==
  ASSUME TypeOK, OwnRow, NEW f \in Flows, Complete(f)
  PROVE  OwnRow'
  BY GoesOn DEF Complete, TypeOK, OwnRow, Live

\* A flow goes on from a place past its start to another.
LEMMA MoveRow ==
  ASSUME TypeOK, OwnRow, NEW f \in Flows, NEW q, UNCHANGED runner,
         proc[f].at \notin {"off", "boot"}, q.at # "boot", proc' = [proc EXCEPT ![f] = q]
  PROVE  OwnRow'
  BY GoesOn, PlainStates DEF runner, TypeOK, OwnRow, Live

\* A flow that was booting turns RUNNING.
LEMMA BootRow ==
  ASSUME TypeOK, OwnRow, NEW f \in Flows, NEW q, UNCHANGED <<up, slot>>,
         proc[f].at = "boot", q.at # "boot", proc' = [proc EXCEPT ![f] = q],
         run' = [run EXCEPT ![f] = "running"]
  PROVE  OwnRow'
  BY GoesOn, PlainStates DEF TypeOK, OwnRow, Live

LEMMA RunnerRow ==
  ASSUME TypeOK, OwnRow,
         \/ \E f \in Flows : Submit(f) \/ KillRun(f) \/ Age(f)
         \/ KillRunner \/ Restart \/ StartSweep \/ Sweep
  PROVE  OwnRow'
<1> USE UpkeepAssumption DEF UpkeepAssumption
<1>1. ASSUME NEW f \in Flows, Submit(f)
      PROVE  OwnRow'
  <2> DEFINE before == {g \in Flows : Live(g)}
             after == {g \in Flows : proc'[g] # Off}
  <2>0. IsFiniteSet(before)
    BY FS_Subset
  <2>1. after \subseteq before \cup {f}
    BY <1>1 DEF Submit, TypeOK, Live
  <2>2. Cardinality(before \cup {f}) <= Cardinality(before) + 1 /\ Cardinality(before) \in Nat
        /\ IsFiniteSet(before \cup {f})
    <3> HIDE DEF before
    <3>1. Cardinality(before) \in Nat
      BY <2>0, FS_CardinalityType
    <3>2. /\ IsFiniteSet(before \cup {f})
          /\ Cardinality(before \cup {f}) = IF f \in before THEN Cardinality(before)
                                            ELSE Cardinality(before) + 1
      BY <2>0, FS_AddElement, Zenon
    <3>3. QED
      BY <3>1, <3>2
  <2>3. Cardinality(after) <= Cardinality(before \cup {f}) /\ Cardinality(after) \in Nat
        /\ Cardinality(before \cup {f}) \in Nat
    BY <2>1, <2>2, FS_Subset, FS_CardinalityType
  <2>4. Cardinality(before) < Limit
    BY <1>1 DEF Submit, InFlight
  <2>5. Cardinality(after) <= Limit
    BY <2>2, <2>3, <2>4
  <2>6. InFlight' <= Limit
    BY <2>5 DEF InFlight, Live
  <2>7. QED
    BY <1>1, <2>6, PlainStates DEF Submit, OwnRow, Live, TypeOK
<1>2. ASSUME NEW f \in Flows, KillRun(f)
      PROVE  OwnRow'
  BY <1>2, GoesOn DEF KillRun, runner, OwnRow, Live, TypeOK
<1>3. ASSUME NEW f \in Flows, Age(f)
      PROVE  OwnRow'
  BY <1>3, GoesOn DEF Age, OwnRow, Live, TypeOK
<1>4. CASE KillRunner
  <2>1. {f \in Flows : proc'[f] # Off} = {}
    BY <1>4 DEF KillRunner
  <2>2. InFlight' = 0
    BY <2>1, FS_EmptySet DEF InFlight, Live
  <2>3. QED
    BY <1>4, <2>2 DEF KillRunner, OwnRow, Live
<1>5. CASE Restart
  <2>1. \A f \in Flows : ~Live(f)
    BY <1>5 DEF Restart, OwnRow
  <2>2. UNCHANGED proc
    BY <1>5 DEF Restart
  <2>3. QED
    BY <2>1, <2>2 DEF OwnRow, Live, InFlight
<1>6. CASE StartSweep
  BY <1>6, BootRow, PlainStates DEF StartSweep
<1>7. CASE Sweep
  <2>1. \A f \in Flows : proc'[f] # Off => f # Sweeper /\ Live(f) /\ proc'[f] = proc[f]
    BY <1>7 DEF Sweep, TypeOK, Live
  <2>2. \A f \in Flows : proc'[f] # Off => slot'[f] /\ run'[f] = run[f]
    BY <1>7, <2>1 DEF Sweep, Held, OwnRow
  <2>3. UNCHANGED up
    BY <1>7 DEF Sweep
  <2>4. QED
    BY <2>1, <2>2, <2>3, GoesOn DEF OwnRow
<1>8. QED
  BY <1>1, <1>2, <1>3, <1>4, <1>5, <1>6, <1>7

LEMMA FetchRow ==
  ASSUME TypeOK, OwnRow, NEW f \in Flows, Steps(f) \/ Budget(f)
  PROVE  OwnRow'
<1>1. CASE Start(f)
  <2>1. CASE ~active[Src[f]] \/ Src[f] \in retired
    BY <1>1, <2>1, CompleteRow DEF Start
  <2>2. CASE active[Src[f]] /\ Src[f] \notin retired
    <3>1. PICK q : q.at # "boot" /\ proc' = [proc EXCEPT ![f] = q]
      BY <1>1, <2>2 DEF Start
    <3>2. QED
      BY <1>1, <2>2, <3>1, BootRow DEF Start
  <2>3. QED
    BY <2>1, <2>2
<1>2. CASE Read(f)
  <2>1. PICK q : q.at # "boot" /\ proc' = [proc EXCEPT ![f] = q]
    BY <1>2, PlainStates DEF Read
  <2>2. QED
    BY <1>2, <2>1, MoveRow DEF Read
<1>3. CASE Write(f)
  <2>1. PICK q : q.at # "boot" /\ proc' = [proc EXCEPT ![f] = q]
    BY <1>3 DEF Write
  <2>2. QED
    BY <1>3, <2>1, MoveRow DEF Write
<1>4. CASE Advance(f)
  BY <1>4, CompleteRow DEF Advance
<1>5. CASE ScanPart(f)
  <2>1. proc[f] \in [at : {"read", "scan"}, from : Nat]
    BY <1>5, Holds DEF ScanPart
  <2>2. [proc[f] EXCEPT !.from = @ + 1].at # "boot"
    BY <2>1
  <2>3. PICK q : q.at # "boot" /\ proc' = [proc EXCEPT ![f] = q]
    BY <1>5, <2>2, PlainStates DEF ScanPart
  <2>4. QED
    BY <1>5, <2>3, MoveRow DEF ScanPart
<1>6. CASE ScanEnd(f)
  <2>1. PICK q : q.at # "boot" /\ proc' = [proc EXCEPT ![f] = q]
    BY <1>6 DEF ScanEnd
  <2>2. QED
    BY <1>6, <2>1, MoveRow DEF ScanEnd
<1>7. CASE Fail(f)
  BY <1>7, CompleteRow DEF Fail
<1>8. CASE Budget(f)
  BY <1>8, CompleteRow DEF Budget
<1>9. QED
  BY <1>1, <1>2, <1>3, <1>4, <1>5, <1>6, <1>7, <1>8 DEF Steps

LEMMA RowStep == TypeOK /\ OwnRow /\ [Next]_vars => OwnRow'
<1> SUFFICES ASSUME TypeOK, OwnRow, [Next]_vars PROVE OwnRow'
  OBVIOUS
<1>1. ASSUME UNCHANGED <<up, run, slot, proc>>
      PROVE  OwnRow'
  BY <1>1 DEF OwnRow, InFlight, Live
<1>2. CASE UNCHANGED vars
  BY <1>1, <1>2 DEF vars, runner
<1>3. CASE Hours \/ \E s \in Sources : Post(s) \/ Days(s) \/ Dies(s) \/ Toggle(s)
  BY <1>1, <1>3 DEF Hours, Post, Days, Dies, Toggle, runner
<1>4. QED
  BY <1>2, <1>3, RunnerRow, FetchRow DEF Next

-----------------------------------------------------------------------------
(* Posts.                                                                  *)

Safe == NothingSkipped /\ Covered /\ Remembered

\* A step that takes no channel's flow to a place where something is fetched, and touches
\* neither posts nor cursors.
LEMMA Quiet ==
  ASSUME TypeOK, Safe, UNCHANGED <<cursor, stored, top, aged, passed>>,
         \A f \in Fetchers :
           \/ proc'[f] = proc[f] \/ Src[f] \notin Channels
           \/ proc'[f].at \notin {"scan", "read", "write", "move"}
  PROVE  Safe'
  BY DEF Safe, NothingSkipped, Covered, Remembered, Seized, Channels, OutOfReach

\* A flow goes on with what is covered, and more may have been stored.
LEMMA MoveSafe ==
  ASSUME TypeOK, Safe, NEW f \in Fetchers, NEW q,
         proc' = [proc EXCEPT ![f] = q], UNCHANGED <<cursor, top, aged, passed>>,
         \A s \in Channels : Seized(s) \subseteq Seized(s)',
         Src[f] \in Channels =>
           /\ q.at # "scan"
           /\ q.at = "read" => q.from = cursor[Src[f]]
           /\ q.at = "write" => 1..q.to \subseteq Seized(Src[f])' \cup q.got
           /\ q.at = "move" => 1..q.to \subseteq Seized(Src[f])'
  PROVE  Safe'
<1>1. NothingSkipped' /\ Remembered'
  BY DEF Safe, NothingSkipped, Remembered, Seized, Channels, OutOfReach
<1>2. ASSUME NEW g \in Fetchers, Src[g] \in Channels
      PROVE  /\ proc'[g].at # "scan"
             /\ proc'[g].at = "read" => proc'[g].from = cursor'[Src[g]]
             /\ proc'[g].at = "write" => 1..proc'[g].to \subseteq Seized(Src[g])' \cup proc'[g].got
             /\ proc'[g].at = "move" => 1..proc'[g].to \subseteq Seized(Src[g])'
  <2>1. CASE g = f
    <3>1. proc'[g] = q
      BY <2>1 DEF TypeOK, Fetchers
    <3>2. QED
      BY <1>2, <2>1, <3>1
  <2>2. CASE g # f
    <3>1. proc'[g] = proc[g]
      BY <2>2 DEF TypeOK, Fetchers
    <3>2. QED
      BY <1>2, <2>2, <3>1 DEF Safe, Covered
  <2>3. QED
    BY <2>1, <2>2
<1>3. QED
  BY <1>1, <1>2 DEF Safe, Covered, Channels

\* Posts come or grow old: what the next fetch cannot reach any more is remembered.
LEMMA WorldSafe ==
  ASSUME TypeOK, TypeOK', Safe, NEW s \in Sources, Post(s) \/ Days(s)
  PROVE  Safe'
<1>1. /\ UNCHANGED <<cursor, stored, proc>>
      /\ Forget(s)
      /\ \A c \in Sources : c # s => top'[c] = top[c] /\ aged'[c] = aged[c]
  BY DEF Post, Days, fetched, TypeOK
<1>2. /\ passed'[s] = passed[s] \cup OutOfReach(s)'
      /\ \A c \in Sources : c # s => passed'[c] = passed[c]
  BY <1>1 DEF Forget, TypeOK
<1>3. \A c \in Sources : Seized(c) \subseteq Seized(c)'
  BY <1>1, <1>2 DEF Seized
<1>4. NothingSkipped' /\ Covered'
  BY <1>1, <1>3 DEF Safe, NothingSkipped, Covered, Seized, Channels
<1>5. \A c \in Sources : c # s => OutOfReach(c)' = OutOfReach(c)
  BY <1>1 DEF OutOfReach, Channels
<1>6. Remembered'
  BY <1>2, <1>5 DEF Safe, Remembered
<1>7. QED
  BY <1>4, <1>6 DEF Safe

\* What a fetch from the cursor does not bring is out of its reach.
LEMMA ReachedOrNot ==
  ASSUME TypeOK, NEW s \in Channels
  PROVE  (cursor[s] + 1)..top[s] \subseteq Records(s, cursor[s]) \cup OutOfReach(s)
<1>1. cursor[s] \in Nat /\ top[s] \in Nat /\ s \in Sources /\ Kind[s] = "telegram"
  BY DEF TypeOK, Channels
<1>2. aged[s][TRUE] \in Nat /\ aged[s][FALSE] \in Nat
  BY <1>1 DEF TypeOK
<1>3. PageSize \in Nat /\ PageSize * BackfillPages \in Nat
  BY UpkeepAssumption DEF UpkeepAssumption
<1>4. SUFFICES ASSUME NEW p \in (cursor[s] + 1)..top[s], p \notin OutOfReach(s)
               PROVE  p \in Records(s, cursor[s])
  OBVIOUS
<1> DEFINE old == aged[s][cursor[s] = 0]
           far == Window(cursor[s])
<1>5. ~(p <= old) /\ ~(p + far <= top[s])
  <2>1. CASE cursor[s] = 0
    <3>1. (cursor[s] = 0) = TRUE
      BY <2>1
    <3>2. old = aged[s][TRUE] /\ far = PageSize * BackfillPages
      BY <2>1, <3>1, Zenon DEF Window
    <3>3. QED
      BY <1>1, <1>4, <2>1, <3>2, Zenon DEF OutOfReach
  <2>2. CASE cursor[s] # 0
    <3>1. (cursor[s] = 0) = FALSE
      BY <2>2
    <3>2. old = aged[s][FALSE] /\ far = PageSize
      BY <2>2, <3>1, Zenon DEF Window
    <3>3. QED
      BY <1>1, <1>4, <2>2, <3>2, Zenon DEF OutOfReach
  <2>3. QED
    BY <2>1, <2>2
<1>6. old \in Nat /\ far \in Nat /\ old = Cutoff(s, cursor[s])
  BY <1>1, <1>2, <1>3 DEF Window, Cutoff
<1>7. p > Cutoff(s, cursor[s]) /\ p + Window(cursor[s]) > top[s]
  <2> HIDE DEF old, far
  <2>1. p \in Nat
    BY <1>1
  <2>2. p > old /\ p + far > top[s]
    BY <1>1, <1>5, <1>6, <2>1
  <2>3. QED
    BY <1>6, <2>2 DEF far
<1>8. QED
  BY <1>1, <1>7 DEF Records, Seen

LEMMA FetchSafe ==
  ASSUME TypeOK, TypeOK', Safe, NEW f \in Flows, Steps(f)
  PROVE  Safe'
<1>1. CASE Start(f)
  <2>1. f \in Fetchers /\ Src[f] \in Sources
    BY <1>1, SrcType DEF Start
  <2>2. CASE ~active[Src[f]] \/ Src[f] \in retired
    BY <1>1, <2>2, Quiet, PlainStates DEF Start, Complete, fetched, world, TypeOK, Fetchers
  <2>3. CASE active[Src[f]] /\ Src[f] \notin retired
    <3> DEFINE q == [at |-> IF Mode[f] = "full" THEN "scan" ELSE "read",
                     from |-> IF Mode[f] = "full" THEN 0 ELSE cursor[Src[f]]]
    <3>1. proc' = [proc EXCEPT ![f] = q] /\ UNCHANGED <<cursor, stored, top, aged, passed>>
      BY <1>1, <2>3 DEF Start, fetched, world
    <3>2. Src[f] \in Channels => q.at = "read" /\ q.from = cursor[Src[f]]
      BY <2>1, OneReader
    <3>3. q.at \notin {"write", "move"}
      OBVIOUS
    <3> HIDE DEF q
    <3>4. QED
      BY <2>1, <3>1, <3>2, <3>3, MoveSafe DEF Seized
  <2>4. QED
    BY <2>2, <2>3
<1>2. CASE Read(f)
  <2> DEFINE s == Src[f]
             from == proc[f].from
  <2>1. f \in Fetchers /\ s \in Sources
    BY <1>2, Fetching DEF Read
  <2>2. from \in Nat
    BY <1>2, Holds DEF Read
  <2>3. \/ proc' = [proc EXCEPT ![f] =
                     [at |-> "write", got |-> Records(s, from), to |-> Next1(s, from)]]
        \/ /\ s \in Channels => proc' = [proc EXCEPT ![f] = At("fail")]
           /\ \E q : proc' = [proc EXCEPT ![f] = q]
    BY <1>2 DEF Read, Silent, Wraps, Channels
  <2>4. UNCHANGED <<cursor, stored, top, aged, passed>>
    BY <1>2 DEF Read, fetched, world
  <2>5. CASE s \notin Channels
    <3>1. PICK q : proc' = [proc EXCEPT ![f] = q]
      BY <2>3
    <3>2. QED
      BY <2>1, <2>4, <2>5, <3>1, MoveSafe DEF Seized
  <2>6. CASE s \in Channels /\ proc' = [proc EXCEPT ![f] = At("fail")]
    BY <2>1, <2>4, <2>6, MoveSafe, PlainStates DEF Seized
  <2>7. CASE /\ s \in Channels
             /\ proc' = [proc EXCEPT ![f] =
                          [at |-> "write", got |-> Records(s, from), to |-> Next1(s, from)]]
    <3>1. from = cursor[s]
      BY <1>2, <2>1, <2>7 DEF Read, Safe, Covered
    <3>2. 1..from \subseteq Seized(s)
      BY <2>7, <3>1 DEF Safe, NothingSkipped, Seized
    <3>3. (from + 1)..top[s] \subseteq Records(s, from) \cup Seized(s)
      BY <2>1, <2>7, <3>1, ReachedOrNot DEF Safe, Remembered, Seized
    <3>4. top[s] \in Nat /\ Next1(s, from) = IF top[s] > from THEN top[s] ELSE from
      BY <2>1, <2>7 DEF Next1, Channels, TypeOK
    <3>5. 1..Next1(s, from) \subseteq 1..from \cup (from + 1)..top[s]
      BY <2>2, <3>4
    <3>6. 1..Next1(s, from) \subseteq Seized(s)' \cup Records(s, from)
      BY <2>4, <3>2, <3>3, <3>5 DEF Seized
    <3> DEFINE q == [at |-> "write", got |-> Records(s, from), to |-> Next1(s, from)]
    <3>7. q.at = "write" /\ q.got = Records(s, from) /\ q.to = Next1(s, from)
          /\ proc' = [proc EXCEPT ![f] = q]
      BY <2>7
    <3>8. \A c \in Channels : Seized(c) \subseteq Seized(c)'
      BY <2>4 DEF Seized
    <3> HIDE DEF q
    <3>9. QED
      BY <2>1, <2>4, <3>6, <3>7, <3>8, MoveSafe
  <2>8. QED
    BY <2>3, <2>5, <2>6, <2>7
<1>3. CASE Write(f)
  <2>1. f \in Fetchers /\ Src[f] \in Sources
    BY <1>3, Fetching DEF Write
  <2>2. /\ stored' = [stored EXCEPT ![Src[f]] = @ \cup proc[f].got]
        /\ proc' = [proc EXCEPT ![f] = [at |-> "move", to |-> proc[f].to]]
        /\ UNCHANGED <<cursor, top, aged, passed>>
    BY <1>3 DEF Write, world
  <2>3. /\ Seized(Src[f])' = Seized(Src[f]) \cup proc[f].got
        /\ \A s \in Channels : Seized(s) \subseteq Seized(s)'
    BY <2>1, <2>2 DEF Seized, TypeOK, Channels
  <2>4. Src[f] \in Channels => 1..proc[f].to \subseteq Seized(Src[f]) \cup proc[f].got
    BY <1>3, <2>1 DEF Write, Safe, Covered
  <2>5. QED
    BY <2>1, <2>2, <2>3, <2>4, MoveSafe
<1>4. CASE Advance(f)
  <2>1. f \in Fetchers /\ Src[f] \in Sources
    BY <1>4, Fetching DEF Advance
  <2>2. Src[f] \in Channels => 1..proc[f].to \subseteq Seized(Src[f])
    BY <1>4, <2>1 DEF Advance, Safe, Covered
  <2>3. /\ cursor' = [cursor EXCEPT ![Src[f]] = proc[f].to]
        /\ proc' = [proc EXCEPT ![f] = Off] /\ UNCHANGED <<stored, top, aged>>
        /\ passed' = [passed EXCEPT ![Src[f]] = @ \cup OutOfReach(Src[f])']
    BY <1>4 DEF Advance, Complete, Forget
  <2>4. /\ cursor'[Src[f]] = proc[f].to
        /\ passed'[Src[f]] = passed[Src[f]] \cup OutOfReach(Src[f])'
        /\ \A c \in Sources : c # Src[f] => cursor'[c] = cursor[c] /\ passed'[c] = passed[c]
    BY <2>1, <2>3 DEF TypeOK
  <2>5. \A c \in Sources : Seized(c) \subseteq Seized(c)'
    BY <2>3, <2>4 DEF Seized
  <2>6. NothingSkipped'
    <3> SUFFICES ASSUME NEW c \in Channels PROVE 1..cursor'[c] \subseteq Seized(c)'
      BY DEF NothingSkipped, Seized, Channels
    <3>1. c \in Sources
      BY DEF Channels
    <3>2. CASE c = Src[f]
      BY <2>2, <2>4, <2>5, <3>1, <3>2
    <3>3. CASE c # Src[f]
      <4>1. 1..cursor[c] \subseteq Seized(c)
        BY DEF Safe, NothingSkipped, Seized
      <4>2. QED
        BY <2>4, <2>5, <3>1, <3>3, <4>1
    <3>4. QED
      BY <3>2, <3>3
  <2>7. \A c \in Sources : c # Src[f] => OutOfReach(c)' = OutOfReach(c)
    BY <2>3, <2>4 DEF OutOfReach, Channels
  <2>8. Remembered'
    BY <2>4, <2>7 DEF Safe, Remembered
  <2>9. Covered'
    <3> SUFFICES ASSUME NEW g \in Fetchers, Src[g] \in Channels
                 PROVE  /\ proc'[g].at # "scan"
                        /\ proc'[g].at = "read" => proc'[g].from = cursor'[Src[g]]
                        /\ proc'[g].at = "write" => 1..proc'[g].to \subseteq Seized(Src[g])' \cup proc'[g].got
                        /\ proc'[g].at = "move" => 1..proc'[g].to \subseteq Seized(Src[g])'
      BY DEF Covered, Channels
    <3>1. CASE g = f
      <4>1. proc'[g] = Off
        BY <2>1, <2>3, <3>1 DEF TypeOK, Fetchers
      <4>2. QED
        BY <4>1, PlainStates
    <3>2. CASE g # f
      <4>1. proc'[g] = proc[g] /\ Src[g] \in Sources
        BY <2>3, <3>2 DEF TypeOK, Fetchers, Channels
      <4>2. Src[g] # Src[f]
        BY <2>1, <3>2, OneReader
      <4>3. cursor'[Src[g]] = cursor[Src[g]] /\ Seized(Src[g]) \subseteq Seized(Src[g])'
        BY <2>4, <2>5, <4>1, <4>2
      <4>4. QED
        BY <4>1, <4>3 DEF Safe, Covered
    <3>3. QED
      BY <3>1, <3>2
  <2>10. QED
    BY <2>6, <2>8, <2>9 DEF Safe
<1>5. CASE ScanPart(f)
  <2>1. proc[f] \in [at : {"read", "scan"}, from : Nat]
    BY <1>5, Holds DEF ScanPart
  <2>2. PICK q : proc' = [proc EXCEPT ![f] = q] /\ q.at \in {"scan", "fail"}
    BY <1>5, <2>1, PlainStates DEF ScanPart
  <2>3. f \in Fetchers /\ Src[f] \notin Channels
    BY <1>5, Fetching DEF ScanPart, Safe, Covered
  <2>4. QED
    BY <1>5, <2>2, <2>3, Quiet DEF ScanPart, fetched, world, TypeOK, Fetchers
<1>6. CASE ScanEnd(f)
  <2>1. f \in Fetchers
    BY <1>6, Fetching DEF ScanEnd
  <2>2. Src[f] \notin Channels
    BY <1>6, <2>1 DEF ScanEnd, Safe, Covered
  <2>3. QED
    BY <1>6, <2>1, <2>2, Quiet DEF ScanEnd, fetched, world, TypeOK, Fetchers
<1>7. CASE Fail(f)
  BY <1>7, Quiet, PlainStates DEF Fail, Complete, fetched, TypeOK, Fetchers
<1>8. QED
  BY <1>1, <1>2, <1>3, <1>4, <1>5, <1>6, <1>7 DEF Steps

LEMMA SafeStep == TypeOK /\ Safe /\ [Next]_vars => Safe'
<1> SUFFICES ASSUME TypeOK, TypeOK', Safe, [Next]_vars PROVE Safe'
  BY TypeStep
<1>1. CASE UNCHANGED vars
  BY <1>1, Quiet DEF vars, runner, fetched, world
<1>2. ASSUME NEW f \in Flows, Submit(f) \/ KillRun(f) \/ Age(f) \/ Budget(f)
      PROVE  Safe'
  BY <1>2, Quiet, PlainStates DEF Submit, KillRun, Age, Budget, Complete, fetched, world, TypeOK, Fetchers
<1>3. CASE KillRunner \/ Restart
  BY <1>3, Quiet, PlainStates DEF KillRunner, Restart, fetched, world, Fetchers
<1>4. CASE StartSweep \/ Sweep
  BY <1>4, Quiet, PlainStates DEF StartSweep, Sweep, fetched, world, TypeOK, Fetchers
<1>5. CASE Hours \/ \E s \in Sources : Dies(s) \/ Toggle(s)
  BY <1>5, Quiet DEF Hours, Dies, Toggle, fetched
<1>6. QED
  BY <1>1, <1>2, <1>3, <1>4, <1>5, FetchSafe, WorldSafe DEF Next

-----------------------------------------------------------------------------

\* The invariant holds in every reachable state.
THEOREM UpkeepInvariance == Spec => []IInv
<1>1. Init => IInv
  <2> SUFFICES ASSUME Init PROVE IInv
    OBVIOUS
  <2>1. TypeOK
    BY UpkeepAssumption, PlainStates DEF Init, TypeOK, FirstOf, UpkeepAssumption
  <2>2. {f \in Flows : Live(f)} = {}
    BY DEF Init, Live
  <2>3. OwnRow
    BY <2>2, FS_EmptySet, UpkeepAssumption DEF OwnRow, InFlight, UpkeepAssumption
  <2>4. NothingSkipped /\ Covered /\ Remembered
    BY PlainStates DEF Init, NothingSkipped, Covered, Remembered, OutOfReach, Channels, FirstOf, Fetchers
  <2>5. QED
    BY <2>1, <2>3, <2>4 DEF IInv
<1>2. IInv /\ [Next]_vars => IInv'
  BY TypeStep, RowStep, SafeStep DEF IInv, Safe
<1>3. QED
  BY <1>1, <1>2, PTL DEF Spec

\* A process of the runner has a flow_run row and a slot of its own, and no more run at
\* once than the runner allows: neither the clean-up of a restart nor the sweep frees the
\* slot of a run that still lives.
THEOREM SlotsAreOwned == Spec => []OwnRow
<1>1. IInv => OwnRow
  BY DEF IInv
<1>2. QED
  BY <1>1, UpkeepInvariance, PTL

\* Whatever kills a fetch between its commits, and however posts come and grow old
\* meanwhile, the cursor of a channel never goes by a post that is not stored, unless the
\* post was older than the lookback, or off the page, before a fetch got to it.
THEOREM PostsAreKept == Spec => []NothingSkipped
<1>1. IInv => NothingSkipped
  BY DEF IInv
<1>2. QED
  BY <1>1, UpkeepInvariance, PTL
=============================================================================
