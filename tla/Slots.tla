-------------------------------- MODULE Slots --------------------------------
(***************************************************************************)
(* The budget of calls to the language model that all processes share:    *)
(* leases in a sorted set of Redis, a semaphore per process for when Redis *)
(* cannot tell or stays full (core/services/llm_limiter.py), and the       *)
(* breaker in front of the extraction of posts                             *)
(* (pipeline/llm/extraction_service.py).                                   *)
(*                                                                         *)
(* Scores and deadlines are kept as the time that is left of them.         *)
(***************************************************************************)
EXTENDS Naturals, FiniteSets

CONSTANTS Calls,      \* calls to the model, each made once
          Process,    \* Process[c]: the process that makes it
          Extracts,   \* those that extract a post, behind the breaker
          DayLimit, NightLimit, \* llm_max_concurrency, llm_night_max_concurrency
          Lease,      \* _LEASE_TTL
          Patience,   \* _ACQUIRE_TIMEOUT
          Longest,    \* the longest a call takes, its one retry included
          Threshold, Cooldown, \* _CB_THRESHOLD, _CB_COOLDOWN
          MaxBlips    \* bound on lost answers of Redis and deaths of processes

\* "comfortably above the LLM request timeout": a lease outlives the call it was taken for.
ASSUME SlotsAssumption ==
  /\ DOMAIN Process = Calls /\ IsFiniteSet(Calls) /\ Extracts \subseteq Calls
  /\ DayLimit \in Nat \ {0} /\ NightLimit \in Nat \ {0}
  /\ Longest \in Nat \ {0} /\ Lease \in Nat /\ Longest < Lease /\ Patience \in Nat
  /\ Threshold \in Nat \ {0} /\ Cooldown \in Nat /\ MaxBlips \in Nat

VARIABLES
  call,    \* of a call: where it is, the limit it read, the time left to wait or to be answered
  lease,   \* of a call: what is left of its lease in Redis
  local,   \* of a process: the size of its semaphore, 0 before the first use
  breaker, \* of a process: failures in a row, and the time it stays open
  night, blips

slotVars == <<call, lease, local, breaker, night, blips>>

Processes == {Process[c] : c \in Calls}
CurrentLimit == IF night THEN NightLimit ELSE DayLimit
Larger(a, b) == IF a >= b THEN a ELSE b
Less(n) == IF n = 0 THEN 0 ELSE n - 1

InFlight(how) == {c \in Calls : call[c].at = how}
Locals(p) == {c \in InFlight("local") : Process[c] = p}
Closed0 == [fails |-> 0, open |-> 0]
Over(c) == [call EXCEPT ![c] = [at |-> "over", limit |-> 0, left |-> 0]]

SlotInit ==
  /\ call = [c \in Calls |-> [at |-> "new", limit |-> 0, left |-> 0]]
  /\ lease = [c \in Calls |-> 0]
  /\ local = [p \in Processes |-> 0]
  /\ breaker = [p \in Processes |-> Closed0]
  /\ night \in BOOLEAN /\ blips = 0

-----------------------------------------------------------------------------

\* llm_slot reads the limit once; an extraction behind an open breaker is not made.
Arrive(c) ==
  /\ call[c].at = "new"
  /\ call' = IF c \in Extracts /\ breaker[Process[c]].open > 0 THEN Over(c)
             ELSE [call EXCEPT ![c] = [at |-> "ask", limit |-> CurrentLimit, left |-> Patience]]
  /\ UNCHANGED <<lease, local, breaker, night, blips>>

\* Fault: a lease is reclaimed at half its time.
HeldHalf == {c \in Calls : 2 * lease[c] > Lease}

\* _ACQUIRE drops what has expired, and counts the rest.
Held == {c \in Calls : lease[c] > 0}
Room(c) == Cardinality(Held) < call[c].limit

Acquire(c) ==
  /\ call[c].at = "ask" /\ Room(c)
  /\ lease' = [lease EXCEPT ![c] = Lease]
  /\ call' = [call EXCEPT ![c] = [@ EXCEPT !.at = "leased", !.left = Longest]]
  /\ UNCHANGED <<local, breaker, night, blips>>

\* The answer of Redis is lost, be the lease taken or not; so is that of giving it back.
Blip(c) ==
  /\ call[c].at = "ask" /\ blips < MaxBlips /\ blips' = blips + 1
  /\ \/ Room(c) /\ lease' = [lease EXCEPT ![c] = Lease]
     \/ UNCHANGED lease
  /\ call' = [call EXCEPT ![c].at = "queue"]
  /\ UNCHANGED <<local, breaker, night>>

\* The deadline is looked at after a refusal.
GiveUp(c) ==
  /\ call[c].at = "ask" /\ call[c].left = 0 /\ ~Room(c)
  /\ call' = [call EXCEPT ![c].at = "queue"]
  /\ UNCHANGED <<lease, local, breaker, night, blips>>

\* The semaphore of a process is made with its first use and keeps its size.
EnterLocal(c) ==
  LET p == Process[c]
      size == IF local[p] = 0 THEN CurrentLimit ELSE local[p]
  IN /\ call[c].at = "queue" /\ Cardinality(Locals(p)) < size
     /\ local' = [local EXCEPT ![p] = size]
     /\ call' = [call EXCEPT ![c] = [@ EXCEPT !.at = "local", !.left = Longest]]
     /\ UNCHANGED <<lease, breaker, night, blips>>

\* _cb_record; calls of other kinds do not tell the breaker.
Record(b, ok) ==
  IF ok THEN Closed0
  ELSE [fails |-> IF b.fails < Threshold THEN b.fails + 1 ELSE b.fails,
        open |-> IF b.fails + 1 >= Threshold THEN Cooldown ELSE b.open]

Answered(c) ==
  /\ call[c].at \in {"leased", "local"}
  /\ call' = Over(c)
  /\ \E ok \in BOOLEAN :
       breaker' = IF c \in Extracts THEN [breaker EXCEPT ![Process[c]] = Record(@, ok)] ELSE breaker
  /\ \/ lease' = (IF call[c].at = "leased" THEN [lease EXCEPT ![c] = 0] ELSE lease) /\ UNCHANGED blips
     \/ call[c].at = "leased" /\ blips < MaxBlips /\ blips' = blips + 1 /\ UNCHANGED lease
  /\ UNCHANGED <<local, night>>

\* A process dies: its leases stay behind.
Die(p) ==
  /\ blips < MaxBlips /\ blips' = blips + 1
  /\ call' = [c \in Calls |-> IF Process[c] = p /\ call[c].at # "new"
                              THEN [at |-> "over", limit |-> 0, left |-> 0] ELSE call[c]]
  /\ local' = [local EXCEPT ![p] = 0] /\ breaker' = [breaker EXCEPT ![p] = Closed0]
  /\ UNCHANGED <<lease, night>>

\* Time passes; no call takes longer than it may.
Elapse ==
  /\ \A c \in InFlight("leased") \cup InFlight("local") : call[c].left > 0
  /\ call' = [c \in Calls |-> [call[c] EXCEPT !.left = Less(@)]]
  /\ lease' = [c \in Calls |-> Less(lease[c])]
  /\ breaker' = [p \in Processes |-> [breaker[p] EXCEPT !.open = Less(@)]]
  /\ UNCHANGED <<local, night, blips>>

\* 22:00 and 06:00 in Moscow.
Turns == night' = ~night /\ UNCHANGED <<call, lease, local, breaker, blips>>

SlotNext ==
  \/ \E c \in Calls : Arrive(c) \/ Acquire(c) \/ Blip(c) \/ GiveUp(c) \/ EnterLocal(c) \/ Answered(c)
  \/ \E p \in Processes : Die(p)
  \/ Elapse \/ Turns

SlotSpec == SlotInit /\ [][SlotNext]_slotVars

-----------------------------------------------------------------------------

\* Whatever expires, is lost, dies or is turned down, and though the limit changes while
\* calls wait for a slot, the calls in flight on leases are never more than the limit that
\* one of them was admitted under, and those of a process beside them never more than its
\* semaphore holds.
Capped ==
  /\ InFlight("leased") # {} =>
       \E c \in InFlight("leased") : Cardinality(InFlight("leased")) <= call[c].limit
  /\ \A p \in Processes :
       Cardinality(Locals(p)) <= local[p] /\ local[p] <= Larger(DayLimit, NightLimit)

\* llm_limiter.py:32 "read FRESH on every acquire so it follows the clock with no restart":
\* who gets a lease is within the limit of the hour.
FollowsTheClock ==
  [][\A c \in Calls : Acquire(c) => Cardinality(InFlight("leased")) < CurrentLimit]_slotVars

\* extraction_service.py:29 "calls short-circuit to the fallback WITHOUT a slot or a network
\* hit": behind an open breaker no extraction starts.
OpenIsQuiet ==
  [][\A c \in Extracts : (Acquire(c) \/ EnterLocal(c)) => breaker[Process[c]].open = 0]_slotVars

-----------------------------------------------------------------------------
(* The inductive invariant behind Capped.                                  *)

\* Every variable that the argument needs has its type.
SlotTypeOK ==
  /\ call \in [Calls -> [at : {"new", "ask", "queue", "leased", "local", "over"},
                         limit : Nat, left : Nat]]
  /\ lease \in [Calls -> Nat]
  /\ local \in [Processes -> Nat]
  /\ night \in BOOLEAN

\* A lease outlives the call that it was taken for.
Outlives == \A c \in InFlight("leased") : call[c].left < lease[c]

\* Of any calls on leases the one admitted last saw the others.
Admitted ==
  \A S \in SUBSET InFlight("leased") : S # {} => \E c \in S : Cardinality(S) <= call[c].limit

LocalsFit ==
  \A p \in Processes :
    Cardinality(Locals(p)) <= local[p] /\ local[p] <= Larger(DayLimit, NightLimit)

SlotInv == SlotTypeOK /\ Outlives /\ Admitted /\ LocalsFit
=============================================================================
