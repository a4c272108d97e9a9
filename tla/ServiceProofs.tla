---------------------------- MODULE ServiceProofs ----------------------------
(***************************************************************************)
(* For any catalogue, any users, requests and workers, any bounds on the   *)
(* changes and the clock, that                                             *)
(*   - the counts of a filter are those of its pins, however they merge    *)
(*     into clusters, and a pin is found wherever else it is asked for,    *)
(*   - the pages of the list neither repeat nor leave out an event,        *)
(*   - a view is counted once per user and day,                            *)
(*   - a request for the feed is served within its day and quarter, no     *)
(*     rail repeats an earlier one, and a tile counts its collection,      *)
(*   - what search reads is the whole result of one run, and               *)
(*   - the calls to the language model stay within the limit.              *)
(***************************************************************************)
EXTENDS Service, FiniteSetTheorems, SequenceTheorems, WellFoundedInduction, TLAPS

\* Sets of calls are finite, and a part is no larger than the whole.
LEMMA Counting ==
  ASSUME NEW S \in SUBSET Calls, NEW T \in SUBSET S
  PROVE  /\ IsFiniteSet(S) /\ IsFiniteSet(T)
         /\ Cardinality(S) \in Nat /\ Cardinality(T) \in Nat
         /\ Cardinality(T) <= Cardinality(S)
<1>1. IsFiniteSet(S)
  BY SlotsAssumption, FS_Subset DEF SlotsAssumption
<1>2. QED
  BY <1>1, FS_Subset, FS_CardinalityType

\* One more call adds one at most.
LEMMA OneMore ==
  ASSUME NEW S \in SUBSET Calls, NEW c \in Calls
  PROVE  Cardinality(S \cup {c}) <= Cardinality(S) + 1
  BY Counting, FS_AddElement

\* The limit of any hour lies between the bounds.
LEMMA LimitBounds ==
  ASSUME night \in BOOLEAN
  PROVE  CurrentLimit \in Nat /\ CurrentLimit <= Larger(DayLimit, NightLimit)
  BY SlotsAssumption DEF SlotsAssumption, CurrentLimit, Larger

\* Counting time down stays in the naturals.
LEMMA LessType == \A n \in Nat : Less(n) \in Nat
  BY DEF Less

-----------------------------------------------------------------------------
(* Types.                                                                  *)

LEMMA TypeStep == SlotTypeOK /\ [SlotNext]_slotVars => SlotTypeOK'
<1> SUFFICES ASSUME SlotTypeOK, [SlotNext]_slotVars PROVE SlotTypeOK'
  OBVIOUS
<1>1. ASSUME NEW c \in Calls, Arrive(c)
      PROVE  SlotTypeOK'
  BY <1>1, LimitBounds, SlotsAssumption DEF Arrive, Over, SlotTypeOK, SlotsAssumption
<1>2. ASSUME NEW c \in Calls, Acquire(c)
      PROVE  SlotTypeOK'
  BY <1>2, SlotsAssumption DEF Acquire, SlotTypeOK, SlotsAssumption
<1>3. ASSUME NEW c \in Calls, Blip(c)
      PROVE  SlotTypeOK'
  BY <1>3, SlotsAssumption DEF Blip, SlotTypeOK, SlotsAssumption
<1>4. ASSUME NEW c \in Calls, GiveUp(c)
      PROVE  SlotTypeOK'
  BY <1>4 DEF GiveUp, SlotTypeOK
<1>5. ASSUME NEW c \in Calls, EnterLocal(c)
      PROVE  SlotTypeOK'
  <2>1. Process[c] \in Processes
    BY DEF Processes
  <2>2. QED
    BY <1>5, <2>1, LimitBounds, SlotsAssumption DEF EnterLocal, SlotTypeOK, SlotsAssumption
<1>6. ASSUME NEW c \in Calls, Answered(c)
      PROVE  SlotTypeOK'
  BY <1>6 DEF Answered, Over, SlotTypeOK
<1>7. ASSUME NEW p \in Processes, Die(p)
      PROVE  SlotTypeOK'
  BY <1>7 DEF Die, SlotTypeOK
<1>8. CASE Elapse
  BY <1>8, LessType DEF Elapse, SlotTypeOK
<1>9. CASE Turns
  BY <1>9 DEF Turns, SlotTypeOK
<1>10. CASE UNCHANGED slotVars
  BY <1>10 DEF slotVars, SlotTypeOK
<1>11. QED
  BY <1>1, <1>2, <1>3, <1>4, <1>5, <1>6, <1>7, <1>8, <1>9, <1>10 DEF SlotNext

-----------------------------------------------------------------------------
(* Calls in flight.                                                        *)

\* A step of one call leaves the others where they are, and gets it into flight by Acquire
\* and EnterLocal alone.
LEMMA CallMoves ==
  ASSUME SlotTypeOK, NEW c \in Calls
  PROVE  /\ Arrive(c) \/ Blip(c) \/ GiveUp(c) \/ EnterLocal(c) \/ Answered(c) =>
              \A d \in InFlight("leased")' : d \in InFlight("leased") /\ call'[d] = call[d]
         /\ Arrive(c) \/ Acquire(c) \/ Blip(c) \/ GiveUp(c) \/ Answered(c) =>
              InFlight("local")' \subseteq InFlight("local")
<1>1. CASE Arrive(c)
  BY <1>1 DEF Arrive, Over, SlotTypeOK, InFlight, EnterLocal, Acquire
<1>2. CASE Acquire(c)
  BY <1>2 DEF Acquire, SlotTypeOK, InFlight, Arrive, Blip, GiveUp, EnterLocal, Answered
<1>3. CASE Blip(c) \/ GiveUp(c)
  BY <1>3 DEF Blip, GiveUp, SlotTypeOK, InFlight
<1>4. CASE EnterLocal(c)
  BY <1>4 DEF EnterLocal, SlotTypeOK, InFlight, Arrive, Acquire, Blip, GiveUp, Answered
<1>5. CASE Answered(c)
  <2>1. call' = Over(c)
    BY <1>5 DEF Answered
  <2>2. QED
    BY <2>1 DEF Over, SlotTypeOK, InFlight
<1>6. QED
  BY <1>1, <1>2, <1>3, <1>4, <1>5

-----------------------------------------------------------------------------
(* Leases.                                                                 *)

\* When no call is admitted and those in flight keep the limit they read, what holds of
\* all parts of them goes on to hold.
LEMMA AdmittedShrinks ==
  ASSUME Admitted, InFlight("leased")' \subseteq InFlight("leased"),
         \A c \in InFlight("leased")' : call'[c].limit = call[c].limit
  PROVE  Admitted'
  BY DEF Admitted

\* Every call on a lease is among those that Redis counts.
LEMMA LeasedHeld == SlotInv => InFlight("leased") \subseteq Held
  BY DEF SlotInv, SlotTypeOK, Outlives, InFlight, Held

LEMMA OutlivesStep == SlotInv /\ [SlotNext]_slotVars => Outlives'
<1> SUFFICES ASSUME SlotInv, [SlotNext]_slotVars PROVE Outlives'
  OBVIOUS
<1> USE DEF SlotInv, SlotTypeOK, Outlives, InFlight
<1>1. ASSUME NEW c \in Calls, Arrive(c) \/ GiveUp(c) \/ EnterLocal(c)
      PROVE  Outlives'
  <2>1. UNCHANGED lease
    BY <1>1 DEF Arrive, GiveUp, EnterLocal
  <2>2. QED
    BY <1>1, <2>1, CallMoves
<1>2. ASSUME NEW c \in Calls, Acquire(c)
      PROVE  Outlives'
  BY <1>2, SlotsAssumption DEF Acquire, SlotsAssumption
<1>3. ASSUME NEW c \in Calls, Blip(c)
      PROVE  Outlives'
  BY <1>3 DEF Blip
<1>4. ASSUME NEW c \in Calls, Answered(c)
      PROVE  Outlives'
  <2>1. \A d \in Calls : lease'[d] = lease[d] \/ d = c
    BY <1>4 DEF Answered
  <2>2. call'[c].at = "over"
    BY <1>4 DEF Answered, Over
  <2>3. QED
    BY <1>4, <2>1, <2>2, CallMoves
<1>5. ASSUME NEW p \in Processes, Die(p)
      PROVE  Outlives'
  BY <1>5 DEF Die
<1>6. CASE Elapse
  BY <1>6 DEF Elapse, Less
<1>7. CASE Turns \/ UNCHANGED slotVars
  BY <1>7 DEF Turns, slotVars
<1>8. QED
  BY <1>1, <1>2, <1>3, <1>4, <1>5, <1>6, <1>7 DEF SlotNext

LEMMA AdmittedStep == SlotInv /\ [SlotNext]_slotVars => Admitted'
<1> SUFFICES ASSUME SlotInv, [SlotNext]_slotVars PROVE Admitted'
  OBVIOUS
<1>0. Admitted /\ SlotTypeOK
  BY DEF SlotInv
<1>1. ASSUME NEW c \in Calls, Acquire(c)
      PROVE  Admitted'
  <2>1. /\ InFlight("leased")' = InFlight("leased") \cup {c}
        /\ c \notin InFlight("leased")
        /\ \A d \in Calls : call'[d].limit = call[d].limit
    BY <1>0, <1>1 DEF Acquire, SlotTypeOK, InFlight
  <2>2. SUFFICES ASSUME NEW S \in SUBSET InFlight("leased")', S # {}
                 PROVE  \E d \in S : Cardinality(S) <= call'[d].limit
    BY DEF Admitted
  <2>3. CASE c \notin S
    <3>1. S \in SUBSET InFlight("leased")
      BY <2>1, <2>3
    <3>2. PICK d \in S : Cardinality(S) <= call[d].limit
      BY <1>0, <2>2, <3>1 DEF Admitted
    <3>3. d \in Calls
      BY <3>1 DEF InFlight
    <3>4. QED
      BY <2>1, <3>2, <3>3
  <2>4. CASE c \in S
    <3>1. Held \cup {c} \subseteq Calls /\ S \subseteq Held \cup {c}
      BY <2>1, LeasedHeld DEF Held
    <3>2. Cardinality(S) <= Cardinality(Held \cup {c}) /\ Cardinality(S) \in Nat
          /\ Cardinality(Held \cup {c}) \in Nat
      BY <3>1, Counting
    <3>3. Cardinality(Held \cup {c}) <= Cardinality(Held) + 1 /\ Cardinality(Held) \in Nat
      BY <3>1, OneMore, Counting
    <3>4. Cardinality(Held) < call[c].limit /\ call[c].limit \in Nat
      BY <1>0, <1>1 DEF Acquire, Room, SlotTypeOK
    <3>5. Cardinality(S) <= call'[c].limit
      BY <2>1, <3>2, <3>3, <3>4
    <3>6. QED
      BY <2>4, <3>5
  <2>5. QED
    BY <2>3, <2>4
<1>2. ASSUME NEW c \in Calls, Arrive(c) \/ Blip(c) \/ GiveUp(c) \/ EnterLocal(c) \/ Answered(c)
      PROVE  Admitted'
  <2>1. \A d \in InFlight("leased")' : d \in InFlight("leased") /\ call'[d] = call[d]
    BY <1>0, <1>2, CallMoves
  <2>2. QED
    BY <1>0, <2>1, AdmittedShrinks
<1>3. ASSUME NEW p \in Processes, Die(p)
      PROVE  Admitted'
  <2>1. \A d \in InFlight("leased")' : d \in InFlight("leased") /\ call'[d] = call[d]
    BY <1>0, <1>3 DEF Die, SlotTypeOK, InFlight
  <2>2. QED
    BY <1>0, <2>1, AdmittedShrinks
<1>4. CASE Elapse
  <2>1. \A d \in InFlight("leased")' : d \in InFlight("leased") /\ call'[d].limit = call[d].limit
    BY <1>0, <1>4 DEF Elapse, SlotTypeOK, InFlight
  <2>2. QED
    BY <1>0, <2>1, AdmittedShrinks
<1>5. CASE Turns \/ UNCHANGED slotVars
  BY <1>0, <1>5 DEF Turns, slotVars, Admitted, InFlight
<1>6. QED
  BY <1>1, <1>2, <1>3, <1>4, <1>5 DEF SlotNext

-----------------------------------------------------------------------------
(* The semaphores.                                                         *)

\* When no call enters and the semaphores keep their size, they hold what they held.
LEMMA LocalsShrink ==
  ASSUME LocalsFit, SlotTypeOK, UNCHANGED local, InFlight("local")' \subseteq InFlight("local")
  PROVE  LocalsFit'
<1> SUFFICES ASSUME NEW p \in Processes
             PROVE  /\ Cardinality(Locals(p)') <= local[p]
                    /\ local[p] <= Larger(DayLimit, NightLimit)
  BY DEF LocalsFit
<1>1. Locals(p) \in SUBSET Calls /\ Locals(p)' \in SUBSET Locals(p)
  BY DEF Locals, InFlight
<1>2. QED
  BY <1>1, Counting DEF LocalsFit, SlotTypeOK

LEMMA LocalsStep == SlotInv /\ [SlotNext]_slotVars => LocalsFit'
<1> SUFFICES ASSUME SlotInv, [SlotNext]_slotVars PROVE LocalsFit'
  OBVIOUS
<1>0. LocalsFit /\ SlotTypeOK
  BY DEF SlotInv
<1>1. ASSUME NEW c \in Calls, EnterLocal(c)
      PROVE  LocalsFit'
  <2> DEFINE p == Process[c]
             size == IF local[p] = 0 THEN CurrentLimit ELSE local[p]
  <2>1. /\ p \in Processes /\ local \in [Processes -> Nat]
        /\ local' = [local EXCEPT ![p] = size]
        /\ Cardinality(Locals(p)) < size
        /\ \A d \in Calls \ {c} : call'[d] = call[d]
        /\ call'[c].at = "local"
    BY <1>0, <1>1 DEF EnterLocal, Processes, SlotTypeOK
  <2>2. size \in Nat /\ size <= Larger(DayLimit, NightLimit)
    BY <1>0, <2>1, LimitBounds DEF LocalsFit, SlotTypeOK
  <2>3. Locals(p)' \subseteq Locals(p) \cup {c} /\ Locals(p) \in SUBSET Calls
    BY <2>1 DEF Locals, InFlight
  <2>4. Cardinality(Locals(p)') <= size
    <3>1. Locals(p) \cup {c} \in SUBSET Calls
      BY <2>3
    <3>2. Cardinality(Locals(p)') <= Cardinality(Locals(p) \cup {c})
          /\ Cardinality(Locals(p) \cup {c}) \in Nat /\ Cardinality(Locals(p)') \in Nat
      BY <2>3, <3>1, Counting
    <3>3. Cardinality(Locals(p) \cup {c}) <= Cardinality(Locals(p)) + 1 /\ Cardinality(Locals(p)) \in Nat
      BY <2>3, OneMore, Counting
    <3>4. QED
      BY <2>1, <2>2, <3>2, <3>3
  <2>5. ASSUME NEW q \in Processes, q # p
        PROVE  Locals(q)' = Locals(q) /\ local'[q] = local[q]
    BY <2>1, <2>5 DEF Locals, InFlight
  <2>6. local'[p] = size
    BY <2>1
  <2>7. QED
    BY <1>0, <2>2, <2>4, <2>5, <2>6 DEF LocalsFit
<1>2. ASSUME NEW c \in Calls, Arrive(c) \/ Acquire(c) \/ Blip(c) \/ GiveUp(c) \/ Answered(c)
      PROVE  LocalsFit'
  <2>1. InFlight("local")' \subseteq InFlight("local")
    BY <1>0, <1>2, CallMoves
  <2>2. UNCHANGED local
    BY <1>2 DEF Arrive, Acquire, Blip, GiveUp, Answered
  <2>3. QED
    BY <1>0, <2>1, <2>2, LocalsShrink
<1>3. ASSUME NEW p \in Processes, Die(p)
      PROVE  LocalsFit'
  <2>1. Locals(p)' = {} /\ local' = [local EXCEPT ![p] = 0]
    BY <1>0, <1>3 DEF Die, SlotTypeOK, Locals, InFlight
  <2>2. Cardinality({}) = 0
    BY FS_EmptySet
  <2>3. ASSUME NEW q \in Processes, q # p
        PROVE  Locals(q)' = Locals(q) /\ local'[q] = local[q]
    BY <1>0, <1>3, <2>1, <2>3 DEF Die, SlotTypeOK, Locals, InFlight
  <2>4. local'[p] = 0 /\ 0 <= Larger(DayLimit, NightLimit)
    BY <1>0, <2>1, SlotsAssumption DEF SlotTypeOK, SlotsAssumption, Larger
  <2>5. QED
    BY <1>0, <2>1, <2>2, <2>3, <2>4 DEF LocalsFit
<1>4. CASE Elapse
  <2>1. InFlight("local")' \subseteq InFlight("local") /\ UNCHANGED local
    BY <1>0, <1>4 DEF Elapse, SlotTypeOK, InFlight
  <2>2. QED
    BY <1>0, <2>1, LocalsShrink
<1>5. CASE Turns \/ UNCHANGED slotVars
  BY <1>0, <1>5 DEF Turns, slotVars, LocalsFit, Locals, InFlight
<1>6. QED
  BY <1>1, <1>2, <1>3, <1>4, <1>5 DEF SlotNext

-----------------------------------------------------------------------------

LEMMA SlotStart == SlotInit => SlotInv
<1> SUFFICES ASSUME SlotInit PROVE SlotInv
  OBVIOUS
<1>1. InFlight("leased") = {} /\ \A p \in Processes : Locals(p) = {}
  BY DEF SlotInit, InFlight, Locals
<1>2. Cardinality({}) = 0 /\ 0 <= Larger(DayLimit, NightLimit)
  BY FS_EmptySet, SlotsAssumption DEF SlotsAssumption, Larger
<1>3. SlotTypeOK
  BY DEF SlotInit, SlotTypeOK
<1>4. QED
  BY <1>1, <1>2, <1>3 DEF SlotInit, SlotInv, Outlives, Admitted, LocalsFit

LEMMA SlotStep == SlotInv /\ [SlotNext]_slotVars => SlotInv'
  BY TypeStep, OutlivesStep, AdmittedStep, LocalsStep DEF SlotInv

\* The invariant holds in every reachable state.
THEOREM SlotInvariance == SlotSpec => []SlotInv
  BY SlotStart, SlotStep, PTL DEF SlotSpec

\* llm_slot never has more calls in flight on leases than the limit that one of them was
\* admitted under, nor a process more beside them than its semaphore holds: expiry cannot
\* free the lease of a call that still works, and what stays behind only shuts others out.
THEOREM SlotsCapped == SlotSpec => []Capped
<1>1. SlotInv => Capped
  BY DEF SlotInv, Admitted, LocalsFit, Capped
<1>2. QED
  BY <1>1, SlotInvariance, PTL

-----------------------------------------------------------------------------
(* The clock.                                                              *)

LEMMA DayType == \A t \in Nat : Day(t) \in Nat
  BY CatalogueAssumption DEF Day, CatalogueAssumption

LEMMA DayMono == \A s, t \in Nat : s <= t => Day(s) <= Day(t)
  BY CatalogueAssumption DEF Day, CatalogueAssumption

LEMMA DayNext == \A t \in Nat : Day(t) < Day(t + DayLen)
  BY CatalogueAssumption DEF Day, CatalogueAssumption

-----------------------------------------------------------------------------
(* The catalogue under its readers.                                        *)

CatTypeOK ==
  /\ cat \in [rows : SUBSET Events, active : SUBSET Events, occs : SUBSET Occurrences]
  /\ cat.active \subseteq cat.rows /\ Unique(cat.occs)
  /\ now \in Nat

LEMMA CatInit == Init => CatTypeOK
  BY ReadApiAssumption DEF Init, CatTypeOK, ReadApiAssumption

LEMMA CatStep ==
  ASSUME CatTypeOK, [Next]_vars
  PROVE  CatTypeOK'
<1>1. ASSUME NEW e \in Events, Withdraw(e)
      PROVE  CatTypeOK'
  <2>1. cat' = [rows |-> cat.rows, active |-> cat.active \ {e}, occs |-> cat.occs] /\ now' = now
    BY <1>1 DEF Withdraw, CatTypeOK
  <2>2. QED
    BY <2>1 DEF CatTypeOK
<1>2. ASSUME NEW e \in Events, Vanish(e)
      PROVE  CatTypeOK'
  BY <1>2 DEF Vanish, CatTypeOK, Unique
<1>3. ASSUME NEW o \in cat.occs, Reschedule(o)
      PROVE  CatTypeOK'
  <2> DEFINE later == [ev |-> o.ev, place |-> o.place, from |-> o.from + 1, to |-> o.to + 1]
  <2>1. o \in Occurrences
    BY DEF CatTypeOK
  <2>2. later \in Occurrences
    BY <2>1 DEF Occurrences
  <2>3. cat' = [cat EXCEPT !.occs = (@ \ {o}) \cup {later}] /\ Unique(cat'.occs) /\ now' = now
    BY <1>3 DEF Reschedule
  <2>4. cat' = [rows |-> cat.rows, active |-> cat.active, occs |-> (cat.occs \ {o}) \cup {later}]
    BY <2>3 DEF CatTypeOK
  <2> HIDE DEF later
  <2>5. QED
    BY <2>2, <2>3, <2>4 DEF CatTypeOK
<1>4. CASE Tick
  BY <1>4 DEF Tick, CatTypeOK
<1>5. CASE UNCHANGED <<cat, now>>
  BY <1>5 DEF CatTypeOK
<1>6. CASE CacheNext
  BY <1>5, <1>6 DEF CacheNext, Ask, Store, Expire
<1>7. CASE ListNext
  BY <1>5, <1>7 DEF ListNext, Choose, Loaded, LoadMore, MoreLoaded
<1>8. CASE FeedNext
  BY <1>5, <1>8 DEF FeedNext, FeedAsk, FeedLock, FeedStore, BaseExpire
<1>9. CASE ViewNext
  BY <1>5, <1>9 DEF ViewNext, SAdd, SExpire, HIncr, ViewLost
<1>10. CASE IndexNext
  BY <1>5, <1>10 DEF IndexNext, Reindex, PostClear, Post, IndexerDies, Work
<1>11. CASE UNCHANGED vars
  BY <1>5, <1>11 DEF vars
<1>12. QED
  BY <1>1, <1>2, <1>3, <1>4, <1>6, <1>7, <1>8, <1>9, <1>10, <1>11 DEF Next, World

-----------------------------------------------------------------------------
(* Counting views.                                                         *)

Steps == {None} \cup [at : {"expire"}, new : BOOLEAN] \cup [at : {"count"}]

ViewTypeOK ==
  /\ now \in Nat /\ until \in Nat
  /\ seenBy \subseteq Viewers
  /\ opened \subseteq Viewers \X Nat /\ IsFiniteSet(opened)
  /\ views \in [Events -> Nat]
  /\ viewing \in [Viewers -> Steps]

\* An opening of today that is counted, or about to be, is remembered until tomorrow.
Remembered(u, d) ==
  /\ d <= Day(now)
  /\ d = Day(now) => u \in seenBy /\ (until = 0 \/ Day(until) > d)

Pending(u) == viewing[u].at = "count" \/ (viewing[u].at = "expire" /\ viewing[u].new)

\* The views counted so far are openings of a user on a day, each its own, and so are
\* those that are about to be counted.
Counted(C, day) ==
  /\ Cardinality(C) = views[Hot] - StartViews[Hot]
  /\ \A u \in Viewers : Pending(u) => <<u, day[u]>> \in opened \ C
  /\ \A u \in Viewers : viewing[u].at = "count" => Remembered(u, day[u])
  /\ \A u \in Viewers : viewing[u].at = "expire" =>
       day[u] = Day(now) /\ u \in seenBy /\ (until = 0 \/ until > now)
  /\ \A x \in C : Remembered(x[1], x[2])

ViewInv == ViewTypeOK /\ \E C \in SUBSET opened, day \in [Viewers -> Nat] : Counted(C, day)

LEMMA StepKinds ==
  ASSUME ViewTypeOK, NEW u \in Viewers
  PROVE  \/ viewing[u] = None /\ viewing[u].at = "none"
         \/ viewing[u] \in [at : {"expire"}, new : BOOLEAN] /\ viewing[u].at = "expire"
         \/ viewing[u] \in [at : {"count"}] /\ viewing[u].at = "count"
<1>1. viewing[u] \in Steps
  BY DEF ViewTypeOK
<1>2. QED
  BY <1>1 DEF Steps, None

\* Who is remembered for today is still there for SADD.
LEMMA StillSeen ==
  ASSUME ViewTypeOK, NEW u, u \in seenBy, until = 0 \/ until > now
  PROVE  Seen = seenBy /\ Seen # {}
  BY DEF Seen, ViewTypeOK

LEMMA RememberedSeen ==
  ASSUME ViewTypeOK, NEW u, Remembered(u, Day(now))
  PROVE  u \in seenBy /\ (until = 0 \/ until > now)
<1>1. u \in seenBy /\ (until = 0 \/ Day(until) > Day(now))
  BY DayType DEF Remembered, ViewTypeOK
<1>2. until <= now => Day(until) <= Day(now)
  BY DayMono DEF ViewTypeOK
<1>3. QED
  BY <1>1, <1>2, DayType DEF ViewTypeOK

LEMMA ViewInit == Init => ViewInv
<1> SUFFICES ASSUME Init PROVE ViewInv
  OBVIOUS
<1>1. ViewTypeOK
  BY ReadApiAssumption, FS_EmptySet DEF Init, ViewTypeOK, Steps, ReadApiAssumption
<1>2. Counted({}, [u \in Viewers |-> 0])
  <2>1. \A u \in Viewers : viewing[u].at = "none"
    BY DEF Init, None
  <2>2. Cardinality({}) = views[Hot] - StartViews[Hot]
    BY FS_EmptySet, ReadApiAssumption DEF Init, ReadApiAssumption
  <2>3. QED
    BY <2>1, <2>2 DEF Counted, Pending
<1>3. QED
  BY <1>1, <1>2 DEF ViewInv

LEMMA SAddStep ==
  ASSUME ViewInv, NEW u \in Viewers, SAdd(u)
  PROVE  ViewInv'
<1>1. PICK C \in SUBSET opened, day \in [Viewers -> Nat] : Counted(C, day)
  BY DEF ViewInv
<1>0. PICK today \in Nat : today = Day(now)
  BY DayType DEF ViewInv, ViewTypeOK
<1> DEFINE new == u \notin Seen
           next == [day EXCEPT ![u] = today]
<1>2. /\ viewing[u] = None
      /\ opened' = opened \cup {<<u, Day(now)>>}
      /\ seenBy' = Seen \cup {u}
      /\ until' = IF Seen = {} THEN 0 ELSE until
      /\ viewing' = [viewing EXCEPT ![u] = [at |-> "expire", new |-> u \notin Seen]]
      /\ now' = now /\ views' = views
  BY DEF SAdd, ViewVars
<1>3. ViewTypeOK
  BY DEF ViewInv
<1>4. now \in Nat /\ Day(now) \in Nat /\ Day(now)' = Day(now)
  BY <1>2, <1>3, DayType DEF ViewTypeOK, Day
<1>5. Seen \subseteq Viewers
  BY <1>3 DEF ViewTypeOK, Seen
<1>6. ViewTypeOK'
  <2>1. [at |-> "expire", new |-> u \notin Seen] \in Steps
    BY DEF Steps
  <2>2. IsFiniteSet(opened')
    BY <1>2, <1>3, FS_AddElement DEF ViewTypeOK
  <2>3. QED
    BY <1>2, <1>3, <1>4, <1>5, <2>1, <2>2 DEF ViewTypeOK
<1>7. /\ viewing'[u].at = "expire" /\ (viewing'[u].new => new)
      /\ \A w \in Viewers \ {u} : viewing'[w] = viewing[w]
  BY <1>2, <1>3 DEF ViewTypeOK
\* Whatever is remembered stays so.
<1>8. \A w, d : Remembered(w, d) => Remembered(w, d)'
  <2> TAKE w, d
  <2>1. CASE d # Day(now)
    BY <1>4, <2>1 DEF Remembered
  <2>2. CASE d = Day(now) /\ Remembered(w, d)
    <3>1. w \in seenBy /\ Seen = seenBy /\ Seen # {}
      BY <1>3, <2>2, RememberedSeen, StillSeen
    <3>2. until' = until /\ w \in seenBy'
      BY <1>2, <3>1
    <3>3. QED
      BY <1>2, <1>4, <2>2, <3>2 DEF Remembered, Day
  <2>3. QED
    BY <2>1, <2>2
<1>9. new => <<u, Day(now)>> \notin C
  <2> SUFFICES ASSUME <<u, Day(now)>> \in C PROVE u \in Seen
    OBVIOUS
  <2>1. Remembered(u, Day(now))
    BY <1>1 DEF Counted
  <2>2. QED
    BY <1>3, <2>1, RememberedSeen, StillSeen
<1>10. next \in [Viewers -> Nat] /\ next[u] = Day(now) /\ \A w \in Viewers \ {u} : next[w] = day[w]
  BY <1>0
<1> HIDE DEF next
<1>11. Counted(C, next)'
  <2>1. Cardinality(C) = views'[Hot] - StartViews[Hot]
    BY <1>1, <1>2 DEF Counted
  <2>2. ASSUME NEW w \in Viewers, Pending(w)'
        PROVE  <<w, next[w]>> \in opened' \ C
    <3>1. CASE w = u
      BY <1>2, <1>7, <1>9, <1>10, <2>2, <3>1 DEF Pending
    <3>2. CASE w # u
      BY <1>1, <1>2, <1>7, <1>10, <2>2, <3>2 DEF Pending, Counted
    <3>3. QED
      BY <3>1, <3>2
  <2>3. ASSUME NEW w \in Viewers, viewing'[w].at = "count"
        PROVE  Remembered(w, next[w])'
    BY <1>1, <1>7, <1>8, <1>10, <2>3 DEF Counted
  <2>4. ASSUME NEW w \in Viewers, viewing'[w].at = "expire"
        PROVE  next[w] = Day(now) /\ w \in seenBy' /\ (until' = 0 \/ until' > now)
    <3>1. CASE w = u
      <4>1. Seen # {} => until = 0 \/ until > now
        BY <1>3 DEF Seen, ViewTypeOK
      <4>2. until' = 0 \/ until' > now
        BY <1>2, <4>1
      <4>3. QED
        BY <1>2, <1>10, <3>1, <4>2
    <3>2. CASE w # u
      <4>1. day[w] = Day(now) /\ w \in seenBy /\ (until = 0 \/ until > now)
        BY <1>1, <1>7, <2>4, <3>2 DEF Counted
      <4>2. Seen = seenBy /\ Seen # {}
        BY <1>3, <4>1, StillSeen
      <4>3. QED
        BY <1>2, <1>10, <3>2, <4>1, <4>2
    <3>3. QED
      BY <3>1, <3>2
  <2>5. \A x \in C : Remembered(x[1], x[2])'
    BY <1>1, <1>8 DEF Counted
  <2>6. QED
    BY <1>2, <1>4, <2>1, <2>2, <2>3, <2>4, <2>5 DEF Counted
<1>12. C \in SUBSET opened' /\ next \in [Viewers -> Nat]
  BY <1>2, <1>10
<1>13. QED
  BY <1>6, <1>11, <1>12 DEF ViewInv

\* A viewer whose request ends or dies leaves what was counted as it is.
LEMMA SExpireStep ==
  ASSUME ViewInv, NEW u \in Viewers, SExpire(u)
  PROVE  ViewInv'
<1>1. PICK C \in SUBSET opened, day \in [Viewers -> Nat] : Counted(C, day)
  BY DEF ViewInv
<1>2. /\ viewing[u].at = "expire" /\ until' = now + DayLen
      /\ viewing' = [viewing EXCEPT ![u] = IF @.new THEN [at |-> "count"] ELSE None]
      /\ UNCHANGED <<now, opened, views, seenBy>>
  BY DEF SExpire, ViewVars
<1>3. ViewTypeOK
  BY DEF ViewInv
<1>4. now \in Nat /\ Day(now) \in Nat /\ Day(now) < Day(now + DayLen) /\ DayLen \in Nat \ {0}
  BY <1>3, DayType, DayNext, CatalogueAssumption DEF ViewTypeOK, CatalogueAssumption
<1>5. viewing[u].new \in BOOLEAN
  BY <1>2, <1>3, StepKinds
<1>6. ViewTypeOK'
  <2>1. (IF viewing[u].new THEN [at |-> "count"] ELSE None) \in Steps
    BY DEF Steps
  <2>2. QED
    BY <1>2, <1>3, <1>4, <2>1 DEF ViewTypeOK
<1>7. /\ viewing'[u] = IF viewing[u].new THEN [at |-> "count"] ELSE None
      /\ \A w \in Viewers \ {u} : viewing'[w] = viewing[w]
  BY <1>2, <1>3 DEF ViewTypeOK
<1>8. \A w, d : Remembered(w, d) => Remembered(w, d)'
  BY <1>2, <1>4 DEF Remembered
<1>9. viewing[u].new => Remembered(u, day[u])'
  <2>1. day[u] = Day(now) /\ u \in seenBy
    BY <1>1, <1>2 DEF Counted
  <2>2. QED
    BY <1>2, <1>4, <2>1 DEF Remembered
<1>10. viewing'[u].at = "none" \/ (viewing[u].new /\ viewing'[u].at = "count")
  BY <1>5, <1>7 DEF None
<1>11. Counted(C, day)'
  <2>1. ASSUME NEW w \in Viewers, Pending(w)'
        PROVE  Pending(w)
    BY <1>2, <1>7, <1>10, <2>1 DEF Pending
  <2>2. ASSUME NEW w \in Viewers, viewing'[w].at = "count"
        PROVE  Remembered(w, day[w])'
    BY <1>1, <1>7, <1>8, <1>9, <1>10, <2>2 DEF Counted
  <2>3. ASSUME NEW w \in Viewers, viewing'[w].at = "expire"
        PROVE  day[w] = Day(now) /\ w \in seenBy /\ (until' = 0 \/ until' > now)
    BY <1>1, <1>2, <1>4, <1>7, <1>10, <2>3 DEF Counted
  <2>4. QED
    BY <1>1, <1>2, <1>8, <2>1, <2>2, <2>3 DEF Counted
<1>12. QED
  BY <1>2, <1>6, <1>11 DEF ViewInv

LEMMA HIncrStep ==
  ASSUME ViewInv, NEW u \in Viewers, HIncr(u)
  PROVE  ViewInv'
<1>1. PICK C \in SUBSET opened, day \in [Viewers -> Nat] : Counted(C, day)
  BY DEF ViewInv
<1>2. /\ viewing[u].at = "count"
      /\ views' = [views EXCEPT ![Hot] = @ + 1]
      /\ viewing' = [viewing EXCEPT ![u] = None]
      /\ UNCHANGED <<now, opened, until, seenBy>>
  BY DEF HIncr, ViewVars
<1>3. ViewTypeOK
  BY DEF ViewInv
<1>4. ViewTypeOK'
  <2>1. views' \in [Events -> Nat]
    BY <1>2, <1>3, ReadApiAssumption DEF ViewTypeOK, ReadApiAssumption
  <2>2. QED
    BY <1>2, <1>3, <2>1 DEF ViewTypeOK, Steps
<1>5. /\ viewing'[u].at = "none"
      /\ \A w \in Viewers \ {u} : viewing'[w] = viewing[w]
  BY <1>2, <1>3 DEF ViewTypeOK, None
<1>6. \A w, d : Remembered(w, d)' <=> Remembered(w, d)
  BY <1>2 DEF Remembered
<1> DEFINE mine == <<u, day[u]>>
<1>7. mine \in opened \ C /\ Remembered(u, day[u])
  BY <1>1, <1>2 DEF Counted, Pending
<1>8. Cardinality(C \cup {mine}) = views'[Hot] - StartViews[Hot]
  <2>1. IsFiniteSet(C)
    BY <1>1, <1>3, FS_Subset DEF ViewTypeOK
  <2>2. Cardinality(C \cup {mine}) = Cardinality(C) + 1 /\ Cardinality(C) \in Nat
    BY <1>7, <2>1, FS_AddElement, FS_CardinalityType
  <2>3. views'[Hot] = views[Hot] + 1 /\ views[Hot] \in Nat /\ StartViews[Hot] \in Nat
    BY <1>2, <1>3, ReadApiAssumption DEF ViewTypeOK, ReadApiAssumption
  <2>4. QED
    BY <1>1, <2>2, <2>3 DEF Counted
<1>9. Counted(C \cup {mine}, day)'
  <2>1. ASSUME NEW w \in Viewers, Pending(w)'
        PROVE  <<w, day[w]>> \in opened' \ (C \cup {mine})
    <3>1. w # u
      BY <1>5, <2>1 DEF Pending
    <3>2. <<w, day[w]>> \in opened \ C
      BY <1>1, <1>5, <2>1, <3>1 DEF Pending, Counted
    <3>3. QED
      BY <1>2, <3>1, <3>2
  <2>2. ASSUME NEW w \in Viewers, viewing'[w].at = "count"
        PROVE  Remembered(w, day[w])'
    BY <1>1, <1>5, <1>6, <2>2 DEF Counted
  <2>3. ASSUME NEW w \in Viewers, viewing'[w].at = "expire"
        PROVE  day[w] = Day(now) /\ w \in seenBy /\ (until = 0 \/ until > now)
    BY <1>1, <1>5, <2>3 DEF Counted
  <2>4. \A x \in C \cup {mine} : Remembered(x[1], x[2])'
    BY <1>1, <1>6, <1>7 DEF Counted
  <2>5. QED
    BY <1>2, <1>8, <2>1, <2>2, <2>3, <2>4 DEF Counted
<1>10. C \cup {mine} \in SUBSET opened'
  BY <1>2, <1>7
<1>11. QED
  BY <1>4, <1>9, <1>10 DEF ViewInv

LEMMA ViewLostStep ==
  ASSUME ViewInv, NEW u \in Viewers, ViewLost(u)
  PROVE  ViewInv'
<1>1. PICK C \in SUBSET opened, day \in [Viewers -> Nat] : Counted(C, day)
  BY DEF ViewInv
<1>2. /\ viewing' = [viewing EXCEPT ![u] = None]
      /\ UNCHANGED <<now, opened, views, until, seenBy>>
  BY DEF ViewLost, ViewVars
<1>3. ViewTypeOK
  BY DEF ViewInv
<1>4. ViewTypeOK'
  BY <1>2, <1>3 DEF ViewTypeOK, Steps
<1>5. /\ viewing'[u].at = "none"
      /\ \A w \in Viewers \ {u} : viewing'[w] = viewing[w]
  BY <1>2, <1>3 DEF ViewTypeOK, None
<1>6. \A w, d : Remembered(w, d)' <=> Remembered(w, d)
  BY <1>2 DEF Remembered
<1>7. Counted(C, day)'
  <2>1. ASSUME NEW w \in Viewers
        PROVE  /\ Pending(w)' => Pending(w)
               /\ viewing'[w].at = "count" => viewing[w].at = "count"
               /\ viewing'[w].at = "expire" => viewing[w].at = "expire"
    BY <1>5 DEF Pending
  <2>2. QED
    BY <1>1, <1>2, <1>6, <2>1 DEF Counted
<1>8. QED
  BY <1>2, <1>4, <1>7 DEF ViewInv

\* The clock does not move between the SADD of a viewer and the EXPIRE.
LEMMA TickStep ==
  ASSUME ViewInv, Tick
  PROVE  ViewInv'
<1>1. PICK C \in SUBSET opened, day \in [Viewers -> Nat] : Counted(C, day)
  BY DEF ViewInv
<1>2. /\ now' = now + 1 /\ \A u \in Viewers : viewing[u].at # "expire"
      /\ UNCHANGED <<opened, views, until, seenBy, viewing>>
  BY DEF Tick, viewVars
<1>3. ViewTypeOK
  BY DEF ViewInv
<1>4. ViewTypeOK'
  BY <1>2, <1>3 DEF ViewTypeOK
<1>5. now \in Nat /\ now' \in Nat /\ Day(now) \in Nat /\ Day(now') \in Nat /\ Day(now) <= Day(now')
  BY <1>2, <1>3, DayType, DayMono DEF ViewTypeOK
<1>6. ASSUME NEW w, NEW d \in Nat, Remembered(w, d)
      PROVE  Remembered(w, d)'
  <2>1. d <= Day(now) /\ Day(now)' = Day(now')
    BY <1>6 DEF Remembered, Day
  <2>2. d = Day(now') => d = Day(now)
    BY <1>5, <2>1
  <2>3. QED
    BY <1>2, <1>5, <1>6, <2>1, <2>2 DEF Remembered, Day
<1>7. Counted(C, day)'
  <2>1. \A w \in Viewers : Pending(w)' <=> Pending(w)
    BY <1>2 DEF Pending
  <2>2. \A x \in C : x[2] \in Nat
    BY <1>3 DEF ViewTypeOK
  <2>3. QED
    BY <1>1, <1>2, <1>6, <2>1, <2>2 DEF Counted
<1>8. QED
  BY <1>2, <1>4, <1>7 DEF ViewInv

LEMMA ViewStep == ViewInv /\ [Next]_vars => ViewInv'
<1> SUFFICES ASSUME ViewInv, [Next]_vars PROVE ViewInv'
  OBVIOUS
<1>1. CASE UNCHANGED <<now, viewVars>>
  <2>1. PICK C \in SUBSET opened, day \in [Viewers -> Nat] : Counted(C, day)
    BY DEF ViewInv
  <2>2. Counted(C, day)' /\ C \in SUBSET opened'
    BY <1>1, <2>1 DEF Counted, Pending, Remembered, viewVars, Day
  <2>3. ViewTypeOK'
    BY <1>1 DEF ViewInv, ViewTypeOK, viewVars
  <2>4. QED
    BY <2>2, <2>3 DEF ViewInv
<1>2. CASE \E e \in Events : Withdraw(e) \/ Vanish(e)
  BY <1>1, <1>2 DEF Withdraw, Vanish
<1>3. CASE \E o \in cat.occs : Reschedule(o)
  BY <1>1, <1>3 DEF Reschedule
<1>4. CASE Tick
  BY <1>4, TickStep
<1>5. CASE CacheNext
  BY <1>1, <1>5 DEF CacheNext, Ask, Store, Expire
<1>6. CASE ListNext
  BY <1>1, <1>6 DEF ListNext, Choose, Loaded, LoadMore, MoreLoaded
<1>7. CASE FeedNext
  BY <1>1, <1>7 DEF FeedNext, FeedAsk, FeedLock, FeedStore, BaseExpire
<1>8. CASE ViewNext
  BY <1>8, SAddStep, SExpireStep, HIncrStep, ViewLostStep DEF ViewNext
<1>9. CASE IndexNext
  BY <1>1, <1>9 DEF IndexNext, Reindex, PostClear, Post, IndexerDies, Work
<1>10. CASE UNCHANGED vars
  BY <1>1, <1>10 DEF vars, readers, viewVars
<1>11. QED
  BY <1>2, <1>3, <1>4, <1>5, <1>6, <1>7, <1>8, <1>9, <1>10 DEF Next, World

LEMMA ViewSound == ViewInv => ViewsHonest
<1> SUFFICES ASSUME ViewInv PROVE ViewsHonest
  OBVIOUS
<1>1. PICK C \in SUBSET opened, day \in [Viewers -> Nat] : Counted(C, day)
  BY DEF ViewInv
<1>2. Cardinality(C) <= Cardinality(opened)
  BY <1>1, FS_Subset DEF ViewInv, ViewTypeOK
<1>3. QED
  BY <1>1, <1>2 DEF Counted, ViewsHonest

-----------------------------------------------------------------------------
(* One occurrence per event.                                               *)

LEMMA Least ==
  ASSUME NEW S \in SUBSET Nat, S # {}
  PROVE  \E x \in S : \A y \in S : x <= y
<1>1. PICK x \in S : \A y \in S : <<y, x>> \notin OpToRel(<, Nat)
  BY WFMin, NatLessThanWellFounded, Zenon
<1>2. \A y \in S : ~(y < x)
  BY <1>1 DEF OpToRel
<1>3. QED
  BY <1>2

\* Among the occurrences of one event there is a soonest.
LEMMA SoonestExists ==
  ASSUME NEW S \in SUBSET Occurrences, S # {}, Unique(S), NEW e, \A o \in S : o.ev = e, NEW n \in Int
  PROVE  Soonest(S, n) \in S
<1> DEFINE ahead == {o \in S : ~Started(o, n)}
           group == IF ahead = {} THEN S ELSE ahead
           times == {o.from : o \in group}
<1>1. group # {} /\ group \in SUBSET S
  OBVIOUS
<1>2. times # {} /\ times \in SUBSET Nat
  BY <1>1 DEF Occurrences
<1>3. PICK k \in times : \A l \in times : k <= l
  BY <1>2, Least
<1> DEFINE places == {o.place : o \in {p \in group : p.from = k}}
<1>4. places # {} /\ places \in SUBSET Nat
  <2>1. places # {}
    BY <1>1, <1>3
  <2>2. \A p \in S : p.place \in Nat
    BY CatalogueAssumption DEF Occurrences, CatalogueAssumption
  <2>3. QED
    BY <1>1, <2>1, <2>2
<1>5. PICK q \in places : \A l \in places : q <= l
  BY <1>4, Least
<1>6. PICK o \in group : o.from = k /\ o.place = q
  BY <1>5
<1>7. ASSUME NEW p \in S
      PROVE  p = o \/ Sooner(o, p, n)
  <2>1. /\ o \in S /\ o.from \in Nat /\ p.from \in Nat /\ o.place \in Nat /\ p.place \in Nat
        /\ o.ev = p.ev
    BY <1>1, CatalogueAssumption DEF Occurrences, CatalogueAssumption
  <2>2. CASE p \in group
    <3>1. o.from <= p.from
      BY <1>3, <1>6, <2>2
    <3>2. p.from = o.from => o.place <= p.place
      BY <1>5, <1>6, <2>2
    <3>3. p.from = o.from /\ o.place = p.place => p = o
      BY <2>1 DEF Unique
    <3>4. Started(o, n) = Started(p, n)
      BY <2>2 DEF Started
    <3>5. QED
      BY <2>1, <3>1, <3>2, <3>3, <3>4 DEF Sooner
  <2>3. CASE p \notin group
    BY <2>3 DEF Sooner
  <2>4. QED
    BY <2>2, <2>3
<1>8. \E x \in S : \A p \in S : p = x \/ Sooner(x, p, n)
  BY <1>1, <1>7
<1>9. QED
  BY <1>8 DEF Soonest

\* DISTINCT ON keeps, of each event there is, one of its occurrences.
LEMMA OnePerEvent ==
  ASSUME NEW S \in SUBSET Occurrences, Unique(S), NEW n \in Int
  PROVE  /\ OnePer(S, n) \subseteq S
         /\ Evs(OnePer(S, n)) = Evs(S)
         /\ \A o, p \in OnePer(S, n) : o.ev = p.ev => o = p
<1> DEFINE of(e) == {o \in S : o.ev = e}
<1>1. ASSUME NEW e \in Evs(S)
      PROVE  Soonest(of(e), n) \in S /\ Soonest(of(e), n).ev = e
  <2>1. of(e) \in SUBSET Occurrences /\ of(e) # {} /\ Unique(of(e)) /\ \A o \in of(e) : o.ev = e
    BY DEF Evs, Unique
  <2>2. Soonest(of(e), n) \in of(e)
    BY <2>1, SoonestExists
  <2>3. QED
    BY <2>2
<1>2. OnePer(S, n) = {Soonest(of(e), n) : e \in Evs(S)}
  BY DEF OnePer
<1>3. OnePer(S, n) \subseteq S
  BY <1>1, <1>2
<1>4. \A o, p \in OnePer(S, n) : o.ev = p.ev => o = p
  BY <1>1, <1>2
<1>5. Evs(OnePer(S, n)) \subseteq Evs(S)
  BY <1>3 DEF Evs
<1>6. Evs(S) \subseteq Evs(OnePer(S, n))
  <2> SUFFICES ASSUME NEW e \in Evs(S) PROVE \E o \in OnePer(S, n) : o.ev = e
    BY DEF Evs
  <2>1. Soonest(of(e), n) \in OnePer(S, n)
    BY <1>2
  <2>2. QED
    BY <1>1, <2>1
<1>7. QED
  BY <1>3, <1>4, <1>5, <1>6

\* It keeps as many as there are events.
LEMMA OnePerCounted ==
  ASSUME NEW S \in SUBSET Occurrences, Unique(S), NEW n \in Int
  PROVE  /\ IsFiniteSet(Evs(S)) /\ IsFiniteSet(OnePer(S, n))
         /\ Cardinality(OnePer(S, n)) = Cardinality(Evs(S))
<1> DEFINE T == OnePer(S, n)
           evOf == [o \in T |-> o.ev]
<1>1. Evs(S) \subseteq Events
  BY DEF Evs, Occurrences
<1>2. IsFiniteSet(Evs(S))
  BY <1>1, FS_Subset, CatalogueAssumption DEF CatalogueAssumption
<1>3. Evs(T) = Evs(S) /\ \A o, p \in T : o.ev = p.ev => o = p
  BY OnePerEvent
<1> HIDE DEF T
<1>4. evOf \in [T -> Evs(S)]
  BY <1>3 DEF Evs
<1>5. \A o, p \in T : evOf[o] = evOf[p] => o = p
  BY <1>3
<1>6. \A e \in Evs(S) : \E o \in T : evOf[o] = e
  BY <1>3 DEF Evs
<1> HIDE DEF evOf
<1>7. evOf \in Injection(T, Evs(S))
  BY <1>4, <1>5, Zenon DEF Injection, IsInjective
<1>8. evOf \in Surjection(T, Evs(S))
  BY <1>4, <1>6, Zenon DEF Surjection
<1>9. IsFiniteSet(T) /\ Cardinality(T) = Cardinality(Evs(S))
  BY <1>2, <1>7, <1>8, FS_Injection
<1>10. QED
  BY <1>2, <1>9 DEF T

LEMMA FilterKinds ==
  ASSUME NEW f \in Filters
  PROVE  f.box = Everything.box
  BY DEF Filters, Everything

\* Pins are shown occurrences, one per event.
LEMMA PinsShown ==
  ASSUME CatTypeOK, NEW f
  PROVE  LET pins == Pins(cat, f, now)
         IN /\ pins \subseteq Shown(cat, f, now) /\ pins \subseteq Occurrences
            /\ IsFiniteSet(pins) /\ Cardinality(pins) = Cardinality(Evs(pins))
            /\ IsFiniteSet(Evs(pins))
<1> DEFINE pins == Pins(cat, f, now)
<1>1. Shown(cat, f, now) \in SUBSET Occurrences /\ Unique(Shown(cat, f, now)) /\ now \in Int
  BY DEF Shown, CatTypeOK, Unique
<1>2. pins = OnePer(Shown(cat, f, now), now)
  BY DEF Pins
<1>3. pins \subseteq Shown(cat, f, now) /\ Evs(pins) = Evs(Shown(cat, f, now))
  BY <1>1, <1>2, OnePerEvent
<1>4. /\ IsFiniteSet(Evs(Shown(cat, f, now))) /\ IsFiniteSet(pins)
      /\ Cardinality(pins) = Cardinality(Evs(Shown(cat, f, now)))
  BY <1>1, <1>2, OnePerCounted
<1>5. QED
  BY <1>1, <1>3, <1>4

\* An event that is shown at a point is among the nearest there, or they are all at that point.
LEMMA NearFound ==
  ASSUME CatTypeOK, NEW f, NEW o \in cat.occs, o.ev \in cat.active, Kept(o, f, now), o.place # Placeholder
  PROVE  NearPin(f, o)
<1> SUFFICES ASSUME NEW r \in {Pos[p] : p \in Places}, NEW n \in 1..Cardinality(Events),
                    NEW near \in Nearby(cat, f, now, Pos[o.place], r, n), o.ev \notin Evs(near)
             PROVE  Cardinality(near) = n /\ \A p \in near : Pos[p.place] = Pos[o.place]
  BY DEF NearPin
<1>1. o \in Occurrences /\ now \in Int /\ cat.occs \in SUBSET Occurrences
  BY DEF CatTypeOK
<1>2. \A S \in SUBSET cat.occs : S \in SUBSET Occurrences /\ Unique(S)
  BY DEF CatTypeOK, Unique
<1>3. r \in Nat /\ n \in Nat
  BY FS_CardinalityType, CatalogueAssumption DEF CatalogueAssumption
<1> DEFINE here == Pos[o.place]
           hits == {p \in cat.occs : /\ p.ev \in cat.active /\ Kept(p, f, now)
                                      /\ p.place # Placeholder /\ Away(p, here) <= r}
           nearest(S) == {p \in S : \A q \in S : Away(p, here) <= Away(q, here)}
           of(e) == {p \in hits : p.ev = e}
           rows == {Soonest(nearest(of(e)), now) : e \in Evs(hits)}
           full == IF Cardinality(rows) < n THEN Cardinality(rows) ELSE n
<1>4. here \in Nat /\ \A p \in Occurrences : Pos[p.place] \in Nat
  BY <1>1, CatalogueAssumption DEF Occurrences, CatalogueAssumption
<1>5. \A p \in Occurrences : Away(p, here) \in Nat /\ (Away(p, here) <= 0 => Pos[p.place] = here)
  BY <1>4 DEF Away, Absolute
<1>6. Away(o, here) = 0
  BY <1>4 DEF Away, Absolute
<1>7. o \in of(o.ev) /\ o.ev \in Evs(hits)
  BY <1>3, <1>6 DEF Evs
<1>8. near \in {A \in SUBSET rows : /\ Cardinality(A) = full
                                    /\ \A x \in A, y \in rows \ A : Away(x, here) <= Away(y, here)}
  BY DEF Nearby
\* The row of an event is at its nearest place.
<1>9. ASSUME NEW e \in Evs(hits), nearest(of(e)) # {}
      PROVE  Soonest(nearest(of(e)), now) \in nearest(of(e))
  <2>1. nearest(of(e)) \in SUBSET cat.occs /\ \A p \in nearest(of(e)) : p.ev = e
    OBVIOUS
  <2>2. nearest(of(e)) \in SUBSET Occurrences /\ Unique(nearest(of(e)))
    BY <2>1, <1>2
  <2> HIDE DEF nearest, of
  <2> QED BY <1>1, <1>2, <1>9, <2>1, <2>2, SoonestExists
<1>10. o \in nearest(of(o.ev))
  <2>1. \A p \in of(o.ev) : Away(p, here) \in Nat
    BY <1>1, <1>5
  <2> HIDE DEF of
  <2> QED BY <1>6, <1>7, <2>1
<1>11. PICK p \in rows : p = Soonest(nearest(of(o.ev)), now)
  BY <1>7
<1>12. p \in nearest(of(o.ev))
  BY <1>7, <1>9, <1>10, <1>11
<1>13. p.ev = o.ev /\ Away(p, here) <= 0
  BY <1>6, <1>7, <1>12
<1>14. p \in rows \ near
  BY <1>11, <1>13 DEF Evs
<1>15. rows \subseteq Occurrences
  <2>1. ASSUME NEW e \in Evs(hits) PROVE Soonest(nearest(of(e)), now) \in Occurrences
    <3>1. of(e) # {} /\ of(e) \in SUBSET Occurrences
      BY <1>1 DEF Evs
    <3>2. nearest(of(e)) # {}
      <4> DEFINE far == {Away(q, here) : q \in of(e)}
      <4>1. far \in SUBSET Nat /\ far # {}
        <5> HIDE DEF of
        <5> QED BY <3>1, <1>5
      <4>2. PICK m \in far : \A x \in far : m <= x
        BY <4>1, Least
      <4>3. PICK q \in of(e) : m = Away(q, here)
        BY <4>2
      <4>4. q \in nearest(of(e))
        BY <4>2, <4>3
      <4> QED BY <4>4
    <3>3. Soonest(nearest(of(e)), now) \in nearest(of(e))
      BY <1>9, <3>2
    <3> QED BY <1>1, <3>3
  <2> QED BY <2>1
<1> HIDE DEF rows
<1>16. near \subseteq rows /\ Cardinality(near) = full
  BY <1>8
<1>17. \A q \in near : Away(q, here) <= Away(p, here)
  BY <1>8, <1>14
<1>18. \A q \in near : Pos[q.place] = here
  <2> TAKE q \in near
  <2>1. q \in Occurrences /\ p \in Occurrences
    BY <1>14, <1>15, <1>16
  <2>2. Away(q, here) <= 0
    BY <1>5, <1>13, <1>17, <2>1
  <2> QED BY <1>5, <2>1, <2>2
<1>19. Cardinality(near) = n
  <2>1. IsFiniteSet(rows)
    <3>1. Evs(hits) \subseteq Events
      BY <1>1 DEF Evs, Occurrences
    <3>2. IsFiniteSet(Evs(hits))
      BY <3>1, FS_Subset, CatalogueAssumption DEF CatalogueAssumption
    <3> DEFINE F == [e \in Evs(hits) |-> Soonest(nearest(of(e)), now)]
    <3>3. F \in [Evs(hits) -> rows] /\ \A x \in rows : \E e \in Evs(hits) : F[e] = x
      BY DEF rows
    <3> HIDE DEF F, hits
    <3>4. F \in Surjection(Evs(hits), rows)
      BY <3>3, Zenon DEF Surjection
    <3> QED BY <3>2, <3>4, FS_Surjection
  <2>2. Cardinality(rows) \in Nat /\ Cardinality(near) \in Nat /\ Cardinality(near) < Cardinality(rows)
    <3>1. near \in SUBSET rows /\ near # rows
      BY <1>14, <1>16
    <3> HIDE DEF here, full, hits
    <3>2. /\ IsFiniteSet(near) /\ Cardinality(near) <= Cardinality(rows)
          /\ Cardinality(rows) = Cardinality(near) => rows = near
      BY <2>1, <3>1, FS_Subset, Zenon
    <3>3. Cardinality(rows) \in Nat /\ Cardinality(near) \in Nat
      BY <2>1, <3>2, FS_CardinalityType
    <3> QED BY <3>1, <3>2, <3>3
  <2>3. Cardinality(near) # Cardinality(rows)
    BY <2>2
  <2> QED BY <1>3, <1>16, <2>2, <2>3
<1> QED BY <1>18, <1>19

\* What the pins of a filter stand for is found wherever else it is asked for.
LEMMA PinFound ==
  ASSUME CatTypeOK, NEW f, f.from = NoTime, NEW o \in Pins(cat, f, now)
  PROVE  /\ o \in Sheet(cat, o.ev, now).occs
         /\ o.ev \in Evs(VenuePage(cat, o.place, now))
         /\ o.ev \in Evs(ByIds(cat, {o.ev}, now)) /\ o.ev \in Evs(SearchCode(cat, o.ev, now))
         /\ o.ev \in Evs(SearchWords(cat, {o.ev}, {}, f.city, now))
         /\ NearPin(f, o)
<1>1. /\ o \in cat.occs /\ o \in Occurrences /\ o.ev \in cat.active /\ o.ev \in cat.rows
      /\ Kept(o, f, now) /\ o.to >= Midnight(now) /\ Area[o.place] \in f.city
      /\ o.place # Placeholder
  BY PinsShown DEF Shown, Kept, InRegion, CatTypeOK
<1>2. now \in Int /\ cat.occs \in SUBSET Occurrences
  BY DEF CatTypeOK
<1>3. \A S \in SUBSET cat.occs : S \in SUBSET Occurrences /\ Unique(S)
  BY DEF CatTypeOK, Unique
\* Any query that keeps the pin's occurrence finds its event.
<1>4. ASSUME NEW S \in SUBSET cat.occs, o \in S
      PROVE  o.ev \in Evs(OnePer(S, now))
  <2>1. Evs(OnePer(S, now)) = Evs(S)
    BY <1>2, <1>3, OnePerEvent
  <2>2. QED
    BY <1>4, <2>1 DEF Evs
<1>5. o \in Sheet(cat, o.ev, now).occs
  BY <1>1 DEF Sheet
<1>6. o.ev \in Evs(VenuePage(cat, o.place, now))
  BY <1>1, <1>4 DEF VenuePage
<1>7. o.ev \in Evs(ByIds(cat, {o.ev}, now))
  BY <1>1, <1>4 DEF ByIds
<1>8. o.ev \in Evs(SearchCode(cat, o.ev, now))
  BY <1>1, <1>4 DEF SearchCode
<1>9. o.ev \in Evs(SearchWords(cat, {o.ev}, {}, f.city, now))
  BY <1>1, <1>4 DEF SearchWords
<1>10. NearPin(f, o)
  BY <1>1, NearFound
<1>11. QED
  BY <1>5, <1>6, <1>7, <1>8, <1>9, <1>10

LEMMA PinsCounted ==
  ASSUME CatTypeOK, NEW f \in Filters
  PROVE  PinsAgree(f)
<1> DEFINE pins == Pins(cat, f, now)
<1>1. MapEvents(cat, f, now, MaxZoom).total = Cardinality(pins)
  BY FilterKinds, CatalogueAssumption DEF MapEvents, CatalogueAssumption
<1>2. ASSUME NEW a \in f.city, f = [Everything EXCEPT !.city = {a}]
      PROVE  Cardinality(pins) <= CityCount(cat, a)
  <2> DEFINE there == {e \in cat.active : \E o \in cat.occs : o.ev = e /\ o.place # Placeholder /\ Area[o.place] = a}
  <2>1. f.city = {a}
    BY <1>2 DEF Everything
  <2>2. Evs(pins) \subseteq there
    BY <2>1, PinsShown DEF Evs, Shown, InRegion
  <2>3. IsFiniteSet(there)
    BY FS_Subset, CatalogueAssumption DEF CatalogueAssumption, CatTypeOK
  <2>4. Cardinality(Evs(pins)) <= Cardinality(there)
    BY <2>2, <2>3, FS_Subset
  <2>5. QED
    BY <2>4, PinsShown DEF CityCount
<1>3. QED
  BY <1>1, <1>2, PinFound DEF PinsAgree

-----------------------------------------------------------------------------
(* Sorting.                                                                *)

\* s tells the elements of S, each once.
Enumerates(s, S) == s \in Seq(S) /\ Len(s) = Cardinality(S) /\ ToSet(s) = S /\ IsInjective(s)

\* s has its elements in the order in which before[x] come before x.
InOrder(s, before) == \A j \in DOMAIN s : \A i \in 1..(j - 1) : s[i] \in before[s[j]]

\* A finite set that is strictly and totally ordered has its elements in a row: each
\* stands after as many as come before it.
LEMMA InARow ==
  ASSUME NEW S, IsFiniteSet(S), NEW before \in [S -> SUBSET S],
         \A x \in S : x \notin before[x],
         \A x, y \in S : y \in before[x] => before[y] \subseteq before[x],
         \A x, y \in S : x = y \/ x \in before[y] \/ y \in before[x]
  PROVE  \E s \in [1..Cardinality(S) -> S] : InOrder(s, before)
<1> DEFINE n == Cardinality(S)
           rank == [x \in S |-> Cardinality(before[x])]
           place == [x \in S |-> rank[x] + 1]
<1>1. n \in Nat
  BY FS_CardinalityType
<1>2. ASSUME NEW x \in S
      PROVE  IsFiniteSet(before[x]) /\ rank[x] \in Nat /\ rank[x] < n
  <2>1. IsFiniteSet(before[x]) /\ Cardinality(before[x]) <= n /\ (Cardinality(before[x]) = n => before[x] = S)
    BY FS_Subset
  <2>2. Cardinality(before[x]) \in Nat
    BY <2>1, FS_CardinalityType
  <2>3. before[x] # S
    OBVIOUS
  <2>4. QED
    BY <1>1, <2>1, <2>2, <2>3
<1>3. ASSUME NEW x \in S, NEW y \in S, y \in before[x]
      PROVE  rank[y] < rank[x]
  <2>1. before[y] \subseteq before[x] /\ before[y] # before[x]
    BY <1>3
  <2>2. Cardinality(before[y]) <= Cardinality(before[x]) /\ Cardinality(before[y]) # Cardinality(before[x])
    BY <1>2, <2>1, FS_Subset
  <2>3. QED
    BY <1>2, <2>2
<1>4. ASSUME NEW x \in S
      PROVE  place[x] \in 1..n
  BY <1>1, <1>2
<1>5. ASSUME NEW x \in S, NEW y \in S, place[x] = place[y]
      PROVE  x = y
  BY <1>2, <1>3, <1>5
<1>6. place \in [S -> 1..n]
  BY <1>4
<1> HIDE DEF place
<1>7. place \in Injection(S, 1..n)
  BY <1>5, <1>6, Zenon DEF Injection, IsInjective
<1>8. IsFiniteSet(1..n) /\ Cardinality(1..n) = n
  BY <1>1, FS_Interval
<1>9. place \in Surjection(S, 1..n)
  BY <1>7, <1>8, FS_Injection
<1>10. \A i \in 1..n : \E x \in S : place[x] = i
  BY <1>9 DEF Surjection
<1> DEFINE s == [i \in 1..n |-> CHOOSE x \in S : place[x] = i]
<1>11. ASSUME NEW i \in 1..n
       PROVE  s[i] \in S /\ place[s[i]] = i
  BY <1>10
<1>12. s \in [1..n -> S]
  BY <1>11
<1>13. ASSUME NEW j \in 1..n, NEW i \in 1..(j - 1)
       PROVE  s[i] \in before[s[j]]
  <2>1. i \in 1..n /\ i < j
    BY <1>1
  <2>2. PICK x \in S, y \in S : s[i] = x /\ s[j] = y /\ place[x] = i /\ place[y] = j
    BY <1>11, <2>1
  <2>3. rank[x] < rank[y]
    BY <1>2, <2>1, <2>2 DEF place
  <2>4. x # y /\ x \notin {} /\ ~(y \in before[x])
    BY <1>2, <1>3, <2>3
  <2>5. QED
    BY <2>2, <2>4
<1>14. InOrder(s, before)
  BY <1>12, <1>13 DEF InOrder
<1>15. QED
  BY <1>12, <1>14

\* What is in strict order repeats nothing, so that as many as there are are all of them.
LEMMA OrderedWhole ==
  ASSUME NEW S, IsFiniteSet(S), NEW before \in [S -> SUBSET S], \A x \in S : x \notin before[x],
         NEW s \in [1..Cardinality(S) -> S], InOrder(s, before)
  PROVE  Enumerates(s, S)
<1> DEFINE n == Cardinality(S)
<1>1. n \in Nat
  BY FS_CardinalityType
<1>2. ASSUME NEW i \in 1..n, NEW j \in 1..n, s[i] = s[j]
      PROVE  i = j
  <2>1. \A k \in 1..n : \A l \in 1..(k - 1) : s[l] # s[k]
    <3> SUFFICES ASSUME NEW k \in 1..n, NEW l \in 1..(k - 1) PROVE s[l] # s[k]
      OBVIOUS
    <3>1. s[l] \in before[s[k]] /\ s[k] \in S
      BY DEF InOrder
    <3>2. QED
      BY <3>1
  <2>2. i \notin 1..(j - 1) /\ j \notin 1..(i - 1)
    BY <1>2, <2>1
  <2>3. QED
    BY <1>1, <2>2
<1>3. s \in Injection(1..n, S) /\ IsInjective(s)
  BY <1>2, Zenon DEF Injection, IsInjective
<1>4. Cardinality(1..n) = n
  BY <1>1, FS_Interval
<1>5. s \in Surjection(1..n, S)
  BY <1>3, <1>4, FS_Injection
<1>6. s \in Seq(S) /\ Len(s) = n /\ DOMAIN s = 1..n
  BY <1>1
<1>7. ToSet(s) = S
  BY <1>5, <1>6 DEF ToSet, Surjection
<1>8. QED
  BY <1>3, <1>6, <1>7 DEF Enumerates

\* By two keys and a third that tells all elements apart.
Precedes(a, b, c, x, y) == a[x] < a[y] \/ (a[x] = a[y] /\ (b[x] < b[y] \/ (b[x] = b[y] /\ c[x] < c[y])))
ByKeys(s, a, b, c) == \A j \in DOMAIN s : \A i \in 1..(j - 1) : Precedes(a, b, c, s[i], s[j])

LEMMA SortedByKeys ==
  ASSUME NEW S, IsFiniteSet(S), NEW a \in [S -> Int], NEW b \in [S -> Int], NEW c \in [S -> Int],
         \A x, y \in S : c[x] = c[y] => x = y
  PROVE  /\ \E s \in [1..Cardinality(S) -> S] : ByKeys(s, a, b, c)
         /\ \A s \in [1..Cardinality(S) -> S] : ByKeys(s, a, b, c) => Enumerates(s, S)
<1> DEFINE before == [x \in S |-> {y \in S : Precedes(a, b, c, y, x)}]
<1>1. before \in [S -> SUBSET S]
  OBVIOUS
<1>2. \A x, y \in S : y \in before[x] <=> Precedes(a, b, c, y, x)
  OBVIOUS
<1>3. \A x, y \in S : x = y \/ Precedes(a, b, c, x, y) \/ Precedes(a, b, c, y, x)
  BY DEF Precedes
<1>4. \A x \in S : ~Precedes(a, b, c, x, x)
  BY DEF Precedes
<1>5. \A x, y, z \in S : Precedes(a, b, c, x, y) /\ Precedes(a, b, c, y, z) => Precedes(a, b, c, x, z)
  BY DEF Precedes
<1>6. \A s \in [1..Cardinality(S) -> S] : InOrder(s, before) <=> ByKeys(s, a, b, c)
  <2> SUFFICES ASSUME NEW s \in [1..Cardinality(S) -> S] PROVE InOrder(s, before) <=> ByKeys(s, a, b, c)
    OBVIOUS
  <2>0. Cardinality(S) \in Nat
    BY FS_CardinalityType
  <2> HIDE DEF before
  <2>1. ASSUME NEW j \in DOMAIN s, NEW i \in 1..(j - 1)
        PROVE  s[i] \in S /\ s[j] \in S
    <3>1. PICK n \in Nat : n = Cardinality(S) /\ s \in [1..n -> S]
      BY <2>0
    <3>2. j \in 1..n /\ i \in 1..n
      BY <3>1
    <3>3. QED
      BY <3>1, <3>2
  <2>2. ASSUME NEW j \in DOMAIN s, NEW i \in 1..(j - 1)
        PROVE  s[i] \in before[s[j]] <=> Precedes(a, b, c, s[i], s[j])
    <3>1. PICK x \in S, y \in S : x = s[i] /\ y = s[j]
      BY <2>1
    <3>2. y \in S /\ x \in S /\ (x \in before[y] <=> Precedes(a, b, c, x, y))
      BY <1>2, Zenon
    <3>3. QED
      BY <3>1, <3>2, Zenon
  <2>3. QED
    BY <2>2, Zenon DEF InOrder, ByKeys
<1> HIDE DEF before
<1>7. \A x \in S : x \notin before[x]
  BY <1>2, <1>4
<1>8. \A x, y \in S : y \in before[x] => before[y] \subseteq before[x]
  <2> SUFFICES ASSUME NEW x \in S, NEW y \in S, y \in before[x], NEW z \in before[y] PROVE z \in before[x]
    OBVIOUS
  <2>1. z \in S
    BY <1>1
  <2>2. QED
    BY <1>2, <1>5, <2>1
<1>9. \A x, y \in S : x = y \/ x \in before[y] \/ y \in before[x]
  BY <1>2, <1>3
<1>10. \E s \in [1..Cardinality(S) -> S] : InOrder(s, before)
  BY <1>1, <1>7, <1>8, <1>9, InARow
<1>11. \A s \in [1..Cardinality(S) -> S] : InOrder(s, before) => Enumerates(s, S)
  BY <1>1, <1>7, OrderedWhole
<1>12. QED
  BY <1>6, <1>10, <1>11

-----------------------------------------------------------------------------
(* The list.                                                               *)

\* What an occurrence may be sorted by.
LEMMA OccurrenceKeys ==
  ASSUME NEW q \in Occurrences, NEW here \in Int
  PROVE  q.ev \in Int /\ q.from \in Int /\ Price[q.ev] \in Int /\ Away(q, here) \in Int
<1>1. /\ Events \subseteq Nat /\ Price \in [Events -> Nat] /\ Pos \in [Places -> Nat]
  BY CatalogueAssumption DEF CatalogueAssumption
<1>2. q.ev \in Events /\ q.from \in Nat /\ q.place \in Places
  BY DEF Occurrences
<1>3. Price[q.ev] \in Nat /\ Pos[q.place] \in Nat /\ q.ev \in Nat
  BY <1>1, <1>2
<1>4. Away(q, here) \in Int
  BY <1>3 DEF Away, Absolute
<1>5. QED
  BY <1>2, <1>3, <1>4

\* Pins are of different events.
LEMMA PinsApart ==
  ASSUME CatTypeOK, NEW f
  PROVE  \A o, p \in Pins(cat, f, now) : o.ev = p.ev => o = p
<1>1. Shown(cat, f, now) \subseteq cat.occs /\ cat.occs \subseteq Occurrences
  BY DEF Shown, CatTypeOK
<1>2. Unique(Shown(cat, f, now)) /\ now \in Int
  BY <1>1 DEF CatTypeOK, Unique
<1>3. QED
  BY <1>1, <1>2, OnePerEvent DEF Pins

\* The list has each of the map's events once, in whatever order.
LEMMA ListingWhole ==
  ASSUME CatTypeOK, NEW f, NEW sort, NEW here \in Int
  PROVE  Enumerates(Listing(cat, f, now, sort, here), Pins(cat, AnyPrice(f), now))
<1> DEFINE P == Pins(cat, AnyPrice(f), now)
           key(q) == CASE sort = "price" -> <<Price[q.ev], q.from>>
                       [] sort = "distance" -> <<Away(q, here), 0>>
                       [] OTHER -> <<IF Started(q, now) THEN 1 ELSE 0, q.from>>
           a == [q \in P |-> key(q)[1]]
           b == [q \in P |-> key(q)[2]]
           c == [q \in P |-> q.ev]
<1>1. IsFiniteSet(P) /\ P \subseteq Occurrences /\ now \in Int
  BY PinsShown DEF CatTypeOK
<1>2. \A x, y \in P : x.ev = y.ev => x = y
  BY PinsApart
<1>3. ASSUME NEW q \in P
      PROVE  key(q)[1] \in Int /\ key(q)[2] \in Int /\ q.ev \in Int
  <2>0. q \in Occurrences
    BY <1>1
  <2> HIDE DEF P, key
  <2>1. /\ q.ev \in Int /\ q.from \in Int /\ Price[q.ev] \in Int /\ Away(q, here) \in Int
    BY <2>0, OccurrenceKeys
  <2>2. QED
    BY <2>1 DEF key
<1>4. a \in [P -> Int] /\ b \in [P -> Int] /\ c \in [P -> Int]
  BY <1>3
<1>5. \A x, y \in P : c[x] = c[y] => x = y
  BY <1>2
<1> DEFINE Earlier(x, y) == \/ key(x)[1] < key(y)[1]
                           \/ /\ key(x)[1] = key(y)[1]
                              /\ key(x)[2] < key(y)[2] \/ (key(x)[2] = key(y)[2] /\ x.ev < y.ev)
<1>6. ASSUME NEW s \in [1..Cardinality(P) -> P]
      PROVE  ByKeys(s, a, b, c) <=> \A j \in DOMAIN s : \A i \in 1..(j - 1) : Earlier(s[i], s[j])
  <2>1. Cardinality(P) \in Nat
    BY <1>1, FS_CardinalityType
  <2> HIDE DEF P
  <2>2. ASSUME NEW j \in DOMAIN s, NEW i \in 1..(j - 1)
        PROVE  s[i] \in P /\ s[j] \in P
    BY <2>1
  <2> HIDE DEF key
  <2>3. \A x, y \in P : Precedes(a, b, c, x, y) <=> Earlier(x, y)
    BY DEF Precedes
  <2> HIDE DEF a, b, c, Earlier
  <2>4. ASSUME NEW j \in DOMAIN s, NEW i \in 1..(j - 1)
        PROVE  Precedes(a, b, c, s[i], s[j]) <=> Earlier(s[i], s[j])
    BY <2>2, <2>3, Zenon
  <2>5. QED
    BY <2>4, Zenon DEF ByKeys
<1>7. /\ \E s \in [1..Cardinality(P) -> P] : ByKeys(s, a, b, c)
      /\ \A s \in [1..Cardinality(P) -> P] : ByKeys(s, a, b, c) => Enumerates(s, P)
  <2> HIDE DEF a, b, c, P
  <2>1. QED
    BY <1>1, <1>4, <1>5, SortedByKeys
<1>8. /\ Listing(cat, f, now, sort, here) \in [1..Cardinality(P) -> P]
      /\ ByKeys(Listing(cat, f, now, sort, here), a, b, c)
  <2> HIDE DEF a, b, c
  <2>1. QED
    BY <1>6, <1>7 DEF Listing, Sorted
<1>9. QED
  BY <1>7, <1>8

\* The elements of s from one place to another.
Part(s, m, n) == {s[i] : i \in (m + 1)..n}

\* A page is the part of the list from its offset on.
LEMMA PageIsPart ==
  ASSUME NEW S, NEW s \in Seq(S), IsInjective(s), NEW m \in Nat, NEW limit \in Nat,
         NEW p, p = Page(s, m, limit)
  PROVE  /\ p \in Seq(S) /\ IsInjective(p)
         /\ m <= Len(s) => /\ m + Len(p) <= Len(s)
                           /\ Len(p) = (IF m + limit < Len(s) THEN limit ELSE Len(s) - m)
                           /\ ToSet(p) = Part(s, m, m + Len(p))
<1> DEFINE e == IF m + limit < Len(s) THEN m + limit ELSE Len(s)
<1>1. Len(s) \in Nat /\ e \in Nat /\ e <= Len(s)
  OBVIOUS
<1>2. p = SubSeq(s, m + 1, e)
  BY DEF Page
<1> HIDE DEF e
<1>3. \A i \in (m + 1)..e : i \in 1..Len(s)
  BY <1>1
<1>4. /\ p \in Seq(S)
      /\ Len(p) = (IF m + 1 <= e THEN e - m ELSE 0)
      /\ \A i \in 1..(e - m) : p[i] = s[m + i]
  BY <1>1, <1>2
<1>5. DOMAIN p = 1..Len(p) /\ Len(p) \in Nat /\ \A i \in 1..Len(p) : i \in 1..(e - m) /\ m + i \in 1..Len(s)
  BY <1>1, <1>4
<1>6. IsInjective(p)
  <2> SUFFICES ASSUME NEW i \in 1..Len(p), NEW j \in 1..Len(p), p[i] = p[j] PROVE i = j
    BY <1>5 DEF IsInjective
  <2>1. p[i] = s[m + i] /\ p[j] = s[m + j] /\ m + i \in DOMAIN s /\ m + j \in DOMAIN s
    BY <1>4, <1>5
  <2>2. m + i = m + j
    BY <2>1, Zenon DEF IsInjective
  <2>3. QED
    BY <1>5, <2>2
<1>7. ASSUME m <= Len(s)
      PROVE  Len(p) = e - m
  BY <1>1, <1>4, <1>7 DEF e
<1>8. ASSUME m <= Len(s)
      PROVE  ToSet(p) = Part(s, m, m + Len(p))
  <2>1. ToSet(p) \subseteq Part(s, m, m + Len(p))
    <3> SUFFICES ASSUME NEW i \in 1..Len(p) PROVE p[i] \in Part(s, m, m + Len(p))
      BY <1>5 DEF ToSet
    <3>1. p[i] = s[m + i] /\ m + i \in (m + 1)..(m + Len(p))
      BY <1>4, <1>5
    <3>2. QED
      BY <3>1 DEF Part
  <2>2. Part(s, m, m + Len(p)) \subseteq ToSet(p)
    <3> SUFFICES ASSUME NEW i \in (m + 1)..(m + Len(p)) PROVE s[i] \in ToSet(p)
      BY DEF Part
    <3>1. i - m \in 1..Len(p) /\ m + (i - m) = i
      BY <1>5
    <3>2. p[i - m] = s[i]
      BY <1>4, <1>5, <3>1
    <3>3. QED
      BY <1>5, <3>1, <3>2 DEF ToSet
  <2>3. QED
    BY <2>1, <2>2
<1>9. QED
  BY <1>1, <1>4, <1>6, <1>7, <1>8 DEF e

\* What is told without repetition is as many as it is long.
LEMMA Countable ==
  ASSUME NEW S, NEW s \in Seq(S), IsInjective(s)
  PROVE  IsFiniteSet(ToSet(s)) /\ Cardinality(ToSet(s)) = Len(s)
<1>1. PICK n \in Nat : n = Len(s) /\ DOMAIN s = 1..n
  OBVIOUS
<1>2. s \in [1..n -> ToSet(s)]
  BY <1>1 DEF ToSet
<1>3. s \in Surjection(1..n, ToSet(s)) /\ s \in Injection(1..n, ToSet(s))
  BY <1>1, <1>2 DEF Surjection, Injection, IsInjective, ToSet
<1>4. IsFiniteSet(1..n) /\ Cardinality(1..n) = n
  <2>1. n \in Nat
    OBVIOUS
  <2> HIDE <1>1
  <2>2. IsFiniteSet(1..n) /\ Cardinality(1..n) = (IF 1 > n THEN 0 ELSE n - 1 + 1)
    BY <2>1, FS_Interval
  <2>3. QED
    BY <2>1, <2>2
<1>5. QED
  BY <1>1, <1>3, <1>4, FS_Surjection

\* Ranking a page by the views leaves what is on it.
LEMMA RankedWhole ==
  ASSUME NEW page \in Seq(Occurrences), IsInjective(page), NEW v \in [Events -> Int]
  PROVE  Enumerates(Ranked(page, v), ToSet(page))
<1> DEFINE P == ToSet(page)
           at(o) == CHOOSE i \in DOMAIN page : page[i] = o
           a == [o \in P |-> -v[o.ev]]
           b == [o \in P |-> at(o)]
           Earlier(o, p) == v[o.ev] > v[p.ev] \/ (v[o.ev] = v[p.ev] /\ at(o) < at(p))
<1>1. IsFiniteSet(P)
  BY Countable
<1>2. ASSUME NEW o \in P
      PROVE  o \in Occurrences /\ o.ev \in Events /\ v[o.ev] \in Int /\ at(o) \in DOMAIN page /\ page[at(o)] = o
  <2>1. \E i \in DOMAIN page : page[i] = o
    BY DEF ToSet
  <2>2. at(o) \in DOMAIN page /\ page[at(o)] = o
    BY <2>1
  <2>3. o \in Occurrences
    BY <2>2
  <2>4. o.ev \in Events
    BY <2>3 DEF Occurrences
  <2>5. QED
    BY <2>2, <2>3, <2>4
<1> HIDE DEF P, at
<1>3. a \in [P -> Int] /\ b \in [P -> Int]
  BY <1>2
<1>4. \A x, y \in P : b[x] = b[y] => x = y
  BY <1>2
<1>5. \A x, y \in P : Precedes(a, b, b, x, y) <=> Earlier(x, y)
  BY <1>2 DEF Precedes
<1> HIDE DEF a, b, Earlier
<1>6. ASSUME NEW s \in [1..Cardinality(P) -> P]
      PROVE  ByKeys(s, a, b, b) <=> \A j \in DOMAIN s : \A i \in 1..(j - 1) : Earlier(s[i], s[j])
  <2>1. PICK n \in Nat : n = Cardinality(P)
    BY <1>1, FS_CardinalityType
  <2>2. ASSUME NEW j \in DOMAIN s, NEW i \in 1..(j - 1)
        PROVE  s[i] \in P /\ s[j] \in P
    BY <2>1
  <2>3. ASSUME NEW j \in DOMAIN s, NEW i \in 1..(j - 1)
        PROVE  Precedes(a, b, b, s[i], s[j]) <=> Earlier(s[i], s[j])
    BY <2>2, <1>5, Zenon
  <2>4. QED
    BY <2>3, Zenon DEF ByKeys
<1>7. /\ \E s \in [1..Cardinality(P) -> P] : ByKeys(s, a, b, b)
      /\ \A s \in [1..Cardinality(P) -> P] : ByKeys(s, a, b, b) => Enumerates(s, P)
  BY <1>1, <1>3, <1>4, SortedByKeys
<1>8. /\ Ranked(page, v) \in [1..Cardinality(P) -> P]
      /\ ByKeys(Ranked(page, v), a, b, b)
  BY <1>6, <1>7 DEF Ranked, Sorted, P, Earlier, at
<1>9. QED
  BY <1>7, <1>8 DEF P

\* The list in its order, as it is asked for.
Order == Listing(cat, Everything, now, list.sort, Pos[Placeholder])

\* s is what follows after the first n of the list.
Follows(s, n) == n + Len(s) <= Len(Order) /\ ToSet(s) = Part(Order, n, n + Len(s))

Answers == [at : {"read"}, total : Nat, is : Seq(Occurrences)]
ListTypeOK ==
  list \in [sort : ListSorts \cup {"closed"}, items : Seq(Occurrences), total : Nat,
            loading : BOOLEAN, more : {None} \cup Answers, calm : BOOLEAN]

\* As long as nothing happened, the list shows the first of its order, and what is on its
\* way are those that come next; nothing is on its way when a first page is.
ListInv ==
  /\ ListTypeOK
  /\ list.calm /\ list.loading => list.more = None
  /\ list.calm /\ ~list.loading =>
       /\ Follows(list.items, 0)
       /\ list.more # None => Follows(list.more.is, Len(list.items))

LEMMA OrderWhole == CatTypeOK => Order \in Seq(Occurrences) /\ IsInjective(Order) /\ Len(Order) \in Nat
<1> SUFFICES ASSUME CatTypeOK PROVE Order \in Seq(Occurrences) /\ IsInjective(Order) /\ Len(Order) \in Nat
  OBVIOUS
<1>1. Pos[Placeholder] \in Int
  BY CatalogueAssumption DEF CatalogueAssumption
<1>2. Enumerates(Order, Pins(cat, Everything, now))
  <2>1. AnyPrice(Everything) = Everything
    BY DEF AnyPrice, Everything
  <2>2. Enumerates(Order, Pins(cat, AnyPrice(Everything), now))
    BY <1>1, ListingWhole DEF Order
  <2> QED BY <2>1, <2>2
<1>3. Pins(cat, Everything, now) \subseteq Occurrences
  BY PinsShown
<1>4. Order \in Seq(Occurrences)
  <2>1. \A s, S, T : s \in Seq(S) /\ S \subseteq T => s \in Seq(T)
    OBVIOUS
  <2>2. QED
    BY <1>2, <1>3, <2>1, Zenon DEF Enumerates
<1>5. QED
  BY <1>2, <1>4 DEF Enumerates

\* What the server answers follows the events that the reader has.
LEMMA AnswerFollows ==
  ASSUME CatTypeOK, ViewTypeOK, NEW n \in Nat
  PROVE  Answer(n) \in Answers /\ (n <= Len(Order) => Follows(Answer(n).is, n))
<1> DEFINE page == Page(Order, n, PageLen)
<1>1. Order \in Seq(Occurrences) /\ IsInjective(Order) /\ Len(Order) \in Nat
  BY OrderWhole
<1>2. PageLen \in Nat
  BY ReadApiAssumption DEF ReadApiAssumption
<1>3. /\ page \in Seq(Occurrences) /\ IsInjective(page)
      /\ n <= Len(Order) => n + Len(page) <= Len(Order) /\ ToSet(page) = Part(Order, n, n + Len(page))
  BY <1>1, <1>2, PageIsPart
<1>4. Effective \in [Events -> Int]
  BY ReadApiAssumption DEF ReadApiAssumption, Effective, ViewTypeOK
<1>5. Answer(n).is = (IF list.sort = "popularity" THEN Ranked(page, Effective) ELSE page)
  BY DEF Answer, ListEvents, Order
<1> HIDE DEF page
<1>6. Enumerates(Ranked(page, Effective), ToSet(page)) /\ Cardinality(ToSet(page)) = Len(page)
  BY <1>3, <1>4, RankedWhole, Countable
<1>7. ToSet(page) \subseteq Occurrences
  BY <1>3 DEF ToSet
<1>8. Ranked(page, Effective) \in Seq(Occurrences)
  <2>1. \A s, S, T : s \in Seq(S) /\ S \subseteq T => s \in Seq(T)
    OBVIOUS
  <2>2. QED
    BY <1>6, <1>7, <2>1, Zenon DEF Enumerates
<1>9. /\ Answer(n).is \in Seq(Occurrences)
      /\ Len(Answer(n).is) = Len(page) /\ ToSet(Answer(n).is) = ToSet(page)
  BY <1>3, <1>5, <1>6, <1>8 DEF Enumerates
<1>10. CountPinnable(cat, Everything, now) \in Nat
  <2>1. Evs(Shown(cat, Everything, now)) \subseteq Events
    BY DEF Evs, Shown, CatTypeOK, Occurrences
  <2>2. QED
    BY <2>1, FS_Subset, FS_CardinalityType, CatalogueAssumption DEF CatalogueAssumption, CountPinnable
<1>11. Answer(n) \in Answers
  BY <1>9, <1>10 DEF Answer, Answers
<1>12. QED
  BY <1>3, <1>9, <1>11 DEF Follows

\* Nothing follows after nothing.
LEMMA NothingFollows == Len(Order) \in Nat => Follows(<<>>, 0)
  BY DEF Follows, Part, ToSet

\* One page after another is the part of both.
LEMMA OneAfterAnother ==
  ASSUME NEW s \in Seq(Occurrences), NEW t \in Seq(Occurrences), Len(Order) \in Nat,
         Follows(s, 0), Follows(t, Len(s))
  PROVE  Follows(s \o t, 0)
<1>1. PICK m \in Nat, k \in Nat : m = Len(s) /\ k = Len(t)
  OBVIOUS
<1>2. Len(s \o t) = m + k
  BY <1>1
<1>3. ToSet(s) = Part(Order, 0, m) /\ ToSet(t) = Part(Order, m, m + k) /\ m + k <= Len(Order)
  BY <1>1 DEF Follows
<1>4. ToSet(s \o t) = ToSet(s) \cup ToSet(t)
  <2>1. ASSUME NEW i \in DOMAIN (s \o t)
        PROVE  (s \o t)[i] \in ToSet(s) \cup ToSet(t)
    BY DEF ToSet
  <2>2. ASSUME NEW i \in DOMAIN s
        PROVE  s[i] = (s \o t)[i] /\ i \in DOMAIN (s \o t)
    OBVIOUS
  <2>3. ASSUME NEW i \in DOMAIN t
        PROVE  t[i] = (s \o t)[Len(s) + i] /\ Len(s) + i \in DOMAIN (s \o t)
    OBVIOUS
  <2>4. ToSet(s \o t) \subseteq ToSet(s) \cup ToSet(t)
    <3> HIDE DEF ToSet
    <3>1. ASSUME NEW y \in ToSet(s \o t)
          PROVE  y \in ToSet(s) \cup ToSet(t)
      BY <2>1, Zenon DEF ToSet
    <3>2. QED
      BY <3>1
  <2>5. ASSUME NEW y \in ToSet(s)
        PROVE  y \in ToSet(s \o t)
    BY <2>2, Zenon DEF ToSet
  <2>6. ASSUME NEW y \in ToSet(t)
        PROVE  y \in ToSet(s \o t)
    BY <2>3, Zenon DEF ToSet
  <2>7. QED
    BY <2>4, <2>5, <2>6, Zenon
<1>5. Part(Order, 0, m + k) = Part(Order, 0, m) \cup Part(Order, m, m + k)
  <2>1. (0 + 1)..(m + k) = ((0 + 1)..m) \cup ((m + 1)..(m + k))
    BY <1>1
  <2>2. QED
    BY <2>1 DEF Part
<1>6. QED
  BY <1>1, <1>2, <1>3, <1>4, <1>5 DEF Follows

LEMMA ListInit == Init /\ CatTypeOK => ListInv
<1> SUFFICES ASSUME Init, CatTypeOK PROVE ListInv
  OBVIOUS
<1>1. list = Closed
  BY DEF Init
<1>2. ListTypeOK
  BY <1>1 DEF ListTypeOK, Closed
<1>3. Follows(<<>>, 0)
  BY OrderWhole, NothingFollows
<1>4. QED
  BY <1>1, <1>2, <1>3 DEF ListInv, Closed

\* A step that leaves the list, the catalogue and the clock alone.
LEMMA ListRests ==
  ASSUME ListInv, UNCHANGED <<list, cat, now>>
  PROVE  ListInv'
  BY DEF ListInv, ListTypeOK, Follows, Order

\* When the catalogue or the clock moves, calm is over, unless the list is closed.
LEMMA DisturbedStep ==
  ASSUME ListInv, CatTypeOK', Disturbed
  PROVE  ListInv'
<1>1. CASE list = Closed
  <2>1. list' = Closed
    BY <1>1 DEF Disturbed, Closed
  <2>2. ListTypeOK'
    BY <2>1 DEF ListTypeOK, Closed
  <2>3. (Order \in Seq(Occurrences) /\ IsInjective(Order) /\ Len(Order) \in Nat)'
    BY OrderWhole, PTL
  <2>4. Follows(<<>>, 0)'
    BY <2>3, NothingFollows, PTL
  <2>5. QED
    BY <2>1, <2>2, <2>4 DEF ListInv, Closed
<1>2. CASE list # Closed
  <2>1. ~list'.calm /\ ListTypeOK'
    BY <1>2 DEF Disturbed, ListInv, ListTypeOK
  <2>2. QED
    BY <2>1 DEF ListInv
<1>3. QED
  BY <1>1, <1>2

LEMMA LoadedStep ==
  ASSUME ListInv, CatTypeOK, ViewTypeOK, Loaded
  PROVE  ListInv'
<1>1. cat' = cat /\ now' = now /\ list.loading
  BY DEF Loaded
<1>2. ListTypeOK
  BY DEF ListInv
<1>3. CASE list' = [list EXCEPT !.items = Answer(0).is, !.total = Answer(0).total, !.loading = FALSE]
  <2>1. PICK x : x = Answer(0) /\ x \in Answers /\ Follows(x.is, 0)
    BY AnswerFollows, OrderWhole
  <2>2. list' = [list EXCEPT !.items = x.is, !.total = x.total, !.loading = FALSE]
    BY <1>3, <2>1
  <2>3. x.is \in Seq(Occurrences) /\ x.total \in Nat
    BY <2>1 DEF Answers
  <2>4. /\ ListTypeOK' /\ ~list'.loading /\ list'.items = x.is /\ list'.sort = list.sort
        /\ list'.more = list.more /\ (list'.calm <=> list.calm)
    BY <1>2, <2>2, <2>3 DEF ListTypeOK
  <2>5. Order' = Order
    BY <1>1, <2>4 DEF Order
  <2>6. Follows(list.items, 0)'
    BY <2>1, <2>4, <2>5 DEF Follows
  <2>7. QED
    BY <1>1, <2>4, <2>6 DEF ListInv
<1>4. CASE list' = [list EXCEPT !.items = <<>>, !.total = 0, !.loading = FALSE]
  <2>0. PICK t \in Seq(Occurrences) : t = <<>>
    BY EmptySeq
  <2>1. /\ ListTypeOK' /\ ~list'.loading /\ list'.items = <<>> /\ list'.sort = list.sort
        /\ list'.more = list.more /\ (list'.calm <=> list.calm)
    <3>1. list' = [list EXCEPT !.items = t, !.total = 0, !.loading = FALSE]
      BY <1>4, <2>0
    <3>2. /\ ListTypeOK' /\ ~list'.loading /\ list'.items = t /\ list'.sort = list.sort
          /\ list'.more = list.more /\ (list'.calm <=> list.calm)
      BY <1>2, <3>1 DEF ListTypeOK
    <3>3. QED
      BY <2>0, <3>2
  <2>2. Order' = Order
    BY <1>1, <2>1 DEF Order
  <2>3. Follows(<<>>, 0)
    BY OrderWhole, NothingFollows
  <2>4. Follows(list.items, 0)'
    BY <2>1, <2>2, <2>3 DEF Follows
  <2>5. QED
    BY <1>1, <2>1, <2>4 DEF ListInv
<1>5. QED
  BY <1>3, <1>4 DEF Loaded

LEMMA LoadMoreStep ==
  ASSUME ListInv, CatTypeOK, ViewTypeOK, LoadMore
  PROVE  ListInv'
<1>1. ListTypeOK /\ cat' = cat /\ now' = now /\ ~list.loading /\ list' = [list EXCEPT !.more = Answer(Len(list.items))]
  BY DEF ListInv, LoadMore, MayLoadMore
<1>2. PICK n \in Nat : n = Len(list.items)
  BY <1>1 DEF ListTypeOK
<1>3. PICK x : x = Answer(n) /\ x \in Answers /\ (n <= Len(Order) => Follows(x.is, n))
  BY AnswerFollows
<1>4. list' = [list EXCEPT !.more = x]
  BY <1>1, <1>2, <1>3
<1>5. /\ ListTypeOK' /\ (list'.loading <=> list.loading) /\ list'.items = list.items /\ list'.sort = list.sort
      /\ list'.more = x /\ (list'.calm <=> list.calm)
  BY <1>1, <1>3, <1>4 DEF ListTypeOK
<1>6. Order' = Order
  BY <1>1, <1>5 DEF Order
<1>7. ASSUME list.calm
      PROVE  Follows(list.items, 0)' /\ Follows(list.more.is, Len(list.items))'
  <2>1. Follows(list.items, 0)
    BY <1>1, <1>7 DEF ListInv
  <2>2. n <= Len(Order)
    BY <1>2, <2>1 DEF Follows
  <2>3. QED
    BY <1>2, <1>3, <1>5, <1>6, <2>1, <2>2 DEF Follows
<1>8. QED
  BY <1>1, <1>5, <1>7 DEF ListInv

LEMMA MoreLoadedStep ==
  ASSUME ListInv, CatTypeOK, MoreLoaded
  PROVE  ListInv'
<1>1. ListTypeOK /\ cat' = cat /\ now' = now /\ list.more # None
  BY DEF ListInv, MoreLoaded
<1>2. CASE list' = [list EXCEPT !.items = @ \o list.more.is, !.total = list.more.total, !.more = None]
  <2>1. PICK s \in Seq(Occurrences), x \in Answers : s = list.items /\ x = list.more
    BY <1>1 DEF ListTypeOK
  <2>2. x.is \in Seq(Occurrences) /\ x.total \in Nat
    BY DEF Answers
  <2>3. PICK t : t = s \o x.is /\ t \in Seq(Occurrences)
    <3>1. PICK y \in Seq(Occurrences) : y = x.is
      BY <2>2
    <3>2. s \o y \in Seq(Occurrences)
      OBVIOUS
    <3>3. QED
      BY <3>1, <3>2
  <2>4. list' = [list EXCEPT !.items = t, !.total = x.total, !.more = None]
    BY <1>2, <2>1, <2>3
  <2>5. /\ ListTypeOK' /\ (list'.loading <=> list.loading) /\ list'.items = t /\ list'.sort = list.sort
        /\ list'.more = None /\ (list'.calm <=> list.calm)
    BY <1>1, <2>2, <2>3, <2>4 DEF ListTypeOK
  <2>6. Order' = Order
    BY <1>1, <2>5 DEF Order
  <2>7. ASSUME list.calm
        PROVE  Follows(list.items, 0)'
    <3>1. Follows(s, 0) /\ Follows(x.is, Len(s))
      BY <1>1, <2>1, <2>7 DEF ListInv
    <3>2. Follows(t, 0)
      BY <2>2, <2>3, <3>1, OrderWhole, OneAfterAnother
    <3>3. QED
      BY <2>5, <2>6, <3>2 DEF Follows
  <2>8. QED
    BY <2>5, <2>7 DEF ListInv
<1>3. CASE list' = [list EXCEPT !.more = None]
  <2>1. /\ ListTypeOK' /\ (list'.loading <=> list.loading) /\ list'.items = list.items /\ list'.sort = list.sort
        /\ list'.more = None /\ (list'.calm <=> list.calm)
    BY <1>1, <1>3 DEF ListTypeOK
  <2>2. Order' = Order
    BY <1>1, <2>1 DEF Order
  <2>3. QED
    BY <2>1, <2>2 DEF ListInv, Follows
<1>4. QED
  BY <1>2, <1>3 DEF MoreLoaded

LEMMA ChooseStep ==
  ASSUME ListInv, NEW s \in ListSorts, Choose(s)
  PROVE  ListInv'
<1>1. ListTypeOK /\ list' = [list EXCEPT !.sort = s, !.loading = TRUE, !.calm = (list.more = None)]
  BY DEF ListInv, Choose
<1>2. ListTypeOK' /\ list'.loading /\ (list'.calm <=> list.more = None) /\ list'.more = list.more
  BY <1>1 DEF ListTypeOK
<1>3. QED
  BY <1>2 DEF ListInv

LEMMA ListStep == ListInv /\ CatTypeOK /\ CatTypeOK' /\ ViewTypeOK /\ [Next]_vars => ListInv'
<1> SUFFICES ASSUME ListInv, CatTypeOK, CatTypeOK', ViewTypeOK, [Next]_vars PROVE ListInv'
  OBVIOUS
<1>1. ASSUME NEW e \in Events, Withdraw(e) \/ Vanish(e)
      PROVE  ListInv'
  BY <1>1, DisturbedStep DEF Withdraw, Vanish
<1>2. ASSUME NEW o \in cat.occs, Reschedule(o)
      PROVE  ListInv'
  BY <1>2, DisturbedStep DEF Reschedule
<1>3. CASE Tick
  BY <1>3, DisturbedStep DEF Tick
<1>4. CASE ListNext
  BY <1>4, ChooseStep, LoadedStep, LoadMoreStep, MoreLoadedStep DEF ListNext
<1>5. CASE CacheNext
  BY <1>5, ListRests DEF CacheNext, Ask, Store, Expire
<1>6. CASE FeedNext
  BY <1>6, ListRests DEF FeedNext, FeedAsk, FeedLock, FeedStore, BaseExpire
<1>7. CASE ViewNext
  BY <1>7, ListRests DEF ViewNext, SAdd, SExpire, HIncr, ViewLost
<1>8. CASE IndexNext
  BY <1>8, ListRests DEF IndexNext, Reindex, PostClear, Post, IndexerDies, Work
<1>9. CASE UNCHANGED vars
  BY <1>9, ListRests DEF vars, readers
<1>10. QED
  BY <1>1, <1>2, <1>3, <1>4, <1>5, <1>6, <1>7, <1>8, <1>9 DEF Next, World

\* The first pages of the order are as many different events as the list is long.
LEMMA ListSound == ListInv /\ CatTypeOK => PagesWhole
<1> SUFFICES ASSUME ListInv, CatTypeOK, list.calm, ~list.loading
             PROVE  LET n == Len(list.items)
                        first == Page(Order, 0, n)
                    IN Cardinality(ToSet(list.items)) = n /\ ToSet(list.items) = ToSet(first)
  BY DEF PagesWhole, Order
<1>1. PICK n \in Nat : n = Len(list.items)
  BY DEF ListInv, ListTypeOK
<1>2. Order \in Seq(Occurrences) /\ IsInjective(Order) /\ Len(Order) \in Nat
  BY OrderWhole
<1>3. 0 + n <= Len(Order) /\ ToSet(list.items) = Part(Order, 0, 0 + n)
  BY <1>1 DEF ListInv, Follows
<1>4. PICK first : first = Page(Order, 0, n)
  OBVIOUS
<1>5. /\ first \in Seq(Occurrences) /\ IsInjective(first) /\ Len(first) = n
      /\ ToSet(first) = Part(Order, 0, 0 + n)
  <2>1. /\ first \in Seq(Occurrences) /\ IsInjective(first)
        /\ Len(first) = (IF 0 + n < Len(Order) THEN n ELSE Len(Order) - 0)
        /\ ToSet(first) = Part(Order, 0, 0 + Len(first))
    <3>1. PICK o \in Seq(Occurrences), z \in Nat : o = Order /\ z = 0 /\ first = Page(o, z, n)
      BY <1>2, <1>4
    <3>2. IsInjective(o) /\ z <= Len(o)
      BY <1>2, <3>1
    <3>3. /\ first \in Seq(Occurrences) /\ IsInjective(first)
          /\ Len(first) = (IF z + n < Len(o) THEN n ELSE Len(o) - z)
          /\ ToSet(first) = Part(o, z, z + Len(first))
      <4>1. /\ Page(o, z, n) \in Seq(Occurrences) /\ IsInjective(Page(o, z, n))
            /\ z <= Len(o) => /\ z + Len(Page(o, z, n)) <= Len(o)
                              /\ Len(Page(o, z, n)) = (IF z + n < Len(o) THEN n ELSE Len(o) - z)
                              /\ ToSet(Page(o, z, n)) = Part(o, z, z + Len(Page(o, z, n)))
        BY <3>2, PageIsPart
      <4>2. first = Page(o, z, n)
        BY <3>1
      <4>3. QED
        BY <3>2, <4>1, <4>2
    <3>4. QED
      BY <3>1, <3>3
  <2>2. Len(first) = n
    BY <1>2, <1>3, <2>1
  <2>3. QED
    BY <2>1, <2>2
<1>6. Cardinality(ToSet(first)) = n
  BY <1>5, Countable
<1>7. QED
  BY <1>1, <1>3, <1>4, <1>5, <1>6

-----------------------------------------------------------------------------
(* Folds.                                                                  *)

\* g tells what a fold comes to over each part of D: it takes the element that pick names,
\* a step at a time from b.
Accumulates(g, D, X, b, step, pick) ==
  /\ g \in [SUBSET D -> X]
  /\ \A d \in SUBSET D : g[d] = IF d = {} THEN b ELSE step[pick[d]][g[d \ {pick[d]}]]

\* There is such a g over a finite set.
LEMMA FoldExists ==
  ASSUME NEW D, IsFiniteSet(D), NEW X, NEW b \in X, NEW step \in [D -> [X -> X]],
         NEW pick, \A d \in SUBSET D : d # {} => pick[d] \in d
  PROVE  \E g : Accumulates(g, D, X, b, step, pick)
<1> DEFINE Upto(n) == {d \in SUBSET D : Cardinality(d) <= n}
           Right(g, n) == \A d \in Upto(n) : g[d] = IF d = {} THEN b ELSE step[pick[d]][g[d \ {pick[d]}]]
           size == Cardinality(D)
           Bad == {n \in Nat : ~\E g \in [Upto(n) -> X] : Right(g, n)}
<1>0. ASSUME NEW d \in SUBSET D
      PROVE  IsFiniteSet(d) /\ Cardinality(d) \in Nat /\ Cardinality(d) <= size
  BY FS_Subset, FS_CardinalityType
<1>1. ASSUME NEW d \in SUBSET D, d # {}
      PROVE  Cardinality(d) > 0 /\ Cardinality(d \ {pick[d]}) = Cardinality(d) - 1
  <2>1. Cardinality(d) # 0
    BY <1>0, <1>1, FS_EmptySet
  <2>2. PICK x \in d : x = pick[d]
    BY <1>1
  <2>3. Cardinality(d \ {x}) = Cardinality(d) - 1
    BY <1>0, FS_RemoveElement
  <2>4. QED
    BY <1>0, <2>1, <2>2, <2>3
<1>2. Bad = {}
  <2> SUFFICES ASSUME Bad # {} PROVE FALSE
    OBVIOUS
  <2>1. PICK m \in Bad : \A n \in Bad : m <= n
    <3>1. Bad \in SUBSET Nat /\ Bad # {}
      OBVIOUS
    <3> HIDE DEF Bad
    <3>2. QED
      BY <3>1, Least
  <2>2. m \in Nat /\ ~\E g \in [Upto(m) -> X] : Right(g, m)
    OBVIOUS
  <2>0. \A n \in Nat : n \notin Bad => \E g \in [Upto(n) -> X] : Right(g, n)
    OBVIOUS
  <2> HIDE DEF Bad
  <2>3. CASE m = 0
    <3>1. \A d \in Upto(0) : d = {}
      <4> SUFFICES ASSUME NEW d \in SUBSET D, Cardinality(d) <= 0 PROVE d = {}
        OBVIOUS
      <4>1. Cardinality(d) = 0 /\ IsFiniteSet(d)
        BY <1>0
      <4>2. QED
        BY <4>1, FS_EmptySet
    <3> DEFINE g == [d \in Upto(0) |-> b]
    <3>2. g \in [Upto(0) -> X] /\ Right(g, 0)
      BY <3>1
    <3> HIDE DEF g, Upto, Right
    <3>3. QED
      BY <2>2, <2>3, <3>2
  <2>4. CASE m # 0
    <3>1. m - 1 \in Nat /\ m - 1 \notin Bad
      BY <2>1, <2>2, <2>4
    <3>2. PICK f \in [Upto(m - 1) -> X] : Right(f, m - 1)
      BY <2>0, <3>1
    <3> DEFINE g == [d \in Upto(m) |-> IF d = {} THEN b ELSE step[pick[d]][f[d \ {pick[d]}]]]
    <3>3. ASSUME NEW d \in Upto(m), d # {}
          PROVE  d \ {pick[d]} \in Upto(m - 1) /\ d \ {pick[d]} \in Upto(m) /\ pick[d] \in D
      <4>1. d \in SUBSET D /\ pick[d] \in d /\ Cardinality(d) <= m
        BY <3>3
      <4>2. Cardinality(d) \in Nat /\ Cardinality(d \ {pick[d]}) = Cardinality(d) - 1
        BY <1>0, <1>1, <3>3, <4>1
      <4>3. QED
        BY <2>2, <4>1, <4>2
    <3>4. g \in [Upto(m) -> X]
      <4> SUFFICES ASSUME NEW d \in Upto(m), d # {} PROVE step[pick[d]][f[d \ {pick[d]}]] \in X
        OBVIOUS
      <4> HIDE DEF Upto, Right
      <4>1. PICK x \in D, e \in Upto(m - 1) : x = pick[d] /\ e = d \ {pick[d]}
        BY <3>3
      <4>2. f[e] \in X /\ step[x] \in [X -> X]
        OBVIOUS
      <4>3. QED
        BY <4>1, <4>2
    <3>5. \A d \in Upto(m - 1) : d \in Upto(m) /\ g[d] = f[d]
      <4> SUFFICES ASSUME NEW d \in Upto(m - 1) PROVE d \in Upto(m) /\ g[d] = f[d]
        OBVIOUS
      <4>1. d \in Upto(m)
        <5>1. d \in SUBSET D /\ Cardinality(d) <= m - 1
          OBVIOUS
        <5>2. Cardinality(d) \in Nat
          BY <1>0, <5>1
        <5>3. QED
          BY <2>2, <5>1, <5>2
      <4>2. f[d] = IF d = {} THEN b ELSE step[pick[d]][f[d \ {pick[d]}]]
        BY <3>2
      <4> HIDE DEF Upto, Right
      <4>3. QED
        BY <4>1, <4>2
    <3>6. Right(g, m)
      <4> SUFFICES ASSUME NEW d \in Upto(m)
                   PROVE  g[d] = IF d = {} THEN b ELSE step[pick[d]][g[d \ {pick[d]}]]
        OBVIOUS
      <4>1. g[d] = IF d = {} THEN b ELSE step[pick[d]][f[d \ {pick[d]}]]
        OBVIOUS
      <4>2. d # {} => g[d \ {pick[d]}] = f[d \ {pick[d]}]
        BY <3>3, <3>5
      <4> HIDE DEF g
      <4>3. QED
        BY <4>1, <4>2
    <3> HIDE DEF g, Upto, Right
    <3>7. QED
      BY <2>2, <3>4, <3>6
  <2>5. QED
    BY <2>3, <2>4
<1>3. size \in Nat
  BY FS_CardinalityType
<1>4. Upto(size) = SUBSET D
  BY <1>0
<1>5. size \notin Bad => \E g \in [Upto(size) -> X] : Right(g, size)
  BY <1>3
<1>6. PICK g \in [Upto(size) -> X] : Right(g, size)
  BY <1>2, <1>5
<1>7. QED
  BY <1>4, <1>6 DEF Accumulates

\* The sum of c over D, as MapThenSumSet runs through it.
Summing(c, D) == CHOOSE g : g = [d \in SUBSET D |-> IF d = {} THEN 0
                                   ELSE c[CHOOSE x \in d : TRUE] + g[d \ {CHOOSE x \in d : TRUE}]]

\* It is the sum: nothing over the empty set, otherwise one more than over the others.
LEMMA SumRuns ==
  ASSUME NEW D, IsFiniteSet(D), NEW c \in [D -> Nat]
  PROVE  \A d \in SUBSET D :
           Summing(c, D)[d] = IF d = {} THEN 0
                              ELSE c[CHOOSE x \in d : TRUE] + Summing(c, D)[d \ {CHOOSE x \in d : TRUE}]
<1> DEFINE pick == [d \in SUBSET D |-> CHOOSE x \in d : TRUE]
           step == [x \in D |-> [t \in Nat |-> c[x] + t]]
           Run(g) == [d \in SUBSET D |-> IF d = {} THEN 0
                        ELSE c[CHOOSE x \in d : TRUE] + g[d \ {CHOOSE x \in d : TRUE}]]
<1>1. step \in [D -> [Nat -> Nat]]
  OBVIOUS
<1>0. \A d \in SUBSET D : pick[d] = CHOOSE x \in d : TRUE
  OBVIOUS
<1>2. \A d \in SUBSET D : d # {} => pick[d] \in d
  OBVIOUS
<1>3. PICK g : Accumulates(g, D, Nat, 0, step, pick)
  <2> HIDE DEF pick, step
  <2>1. 0 \in Nat
    OBVIOUS
  <2>2. QED
    BY <1>1, <1>2, <2>1, FoldExists
<1>4. \A d \in SUBSET D : g[d] = Run(g)[d]
  <2> SUFFICES ASSUME NEW d \in SUBSET D, d # {} PROVE g[d] = c[pick[d]] + g[d \ {pick[d]}]
    BY <1>0, <1>3 DEF Accumulates
  <2>1. PICK x \in D, t \in Nat : x = pick[d] /\ t = g[d \ {pick[d]}]
    BY <1>2, <1>3 DEF Accumulates
  <2>2. g[d] = step[x][t]
    BY <1>3, <2>1 DEF Accumulates
  <2>3. QED
    BY <2>1, <2>2
<1>5. g = Run(g)
  BY <1>3, <1>4 DEF Accumulates
<1>6. Summing(c, D) = Run(Summing(c, D))
  BY <1>5 DEF Summing
<1>7. QED
  BY <1>6

\* What is in one part or another is counted by the sum of the parts.
LEMMA SumOfParts ==
  ASSUME NEW D, IsFiniteSet(D), NEW U, IsFiniteSet(U), NEW part \in [D -> SUBSET U],
         \A k, l \in D : k # l => part[k] \cap part[l] = {},
         NEW c \in [D -> Nat], \A k \in D : c[k] = Cardinality(part[k])
  PROVE  Summing(c, D)[D] = Cardinality(UNION {part[k] : k \in D})
<1> DEFINE all(d) == UNION {part[k] : k \in d}
           Sum(d) == Summing(c, D)[d]
           Bad == {n \in Nat : \E d \in SUBSET D : Cardinality(d) = n /\ Sum(d) # Cardinality(all(d))}
<1>1. \A d \in SUBSET D : IsFiniteSet(d) /\ Cardinality(d) \in Nat
  BY FS_Subset, FS_CardinalityType
<1>2. ASSUME NEW d \in SUBSET D
      PROVE  all(d) \in SUBSET U /\ IsFiniteSet(all(d)) /\ Cardinality(all(d)) \in Nat
  <2>1. all(d) \in SUBSET U
    OBVIOUS
  <2>2. QED
    BY <2>1, FS_Subset, FS_CardinalityType
<1>3. Bad = {}
  <2> SUFFICES ASSUME Bad # {} PROVE FALSE
    OBVIOUS
  <2>1. Bad \in SUBSET Nat
    OBVIOUS
  <2>2. PICK m \in Bad : \A n \in Bad : m <= n
    <3> HIDE DEF Bad
    <3>1. QED
      BY <2>1, Least
  <2>3. PICK d \in SUBSET D : Cardinality(d) = m /\ Sum(d) # Cardinality(all(d))
    OBVIOUS
  <2>4. \A e \in SUBSET D : Cardinality(e) \in Nat /\ Cardinality(e) < m => Sum(e) = Cardinality(all(e))
    <3> SUFFICES ASSUME NEW e \in SUBSET D, Cardinality(e) \in Nat, Cardinality(e) < m, Sum(e) # Cardinality(all(e))
                 PROVE  FALSE
      OBVIOUS
    <3>1. Cardinality(e) \in Bad /\ m \in Nat
      OBVIOUS
    <3> HIDE DEF Bad
    <3>2. QED
      BY <2>2, <3>1
  <2> HIDE DEF Bad, Sum
  <2>5. CASE d = {}
    <3>1. Sum(d) = 0
      BY <2>5, SumRuns DEF Sum
    <3>2. all(d) = {}
      BY <2>5
    <3>3. QED
      BY <2>3, <3>1, <3>2, FS_EmptySet
  <2>6. CASE d # {}
    <3>1. PICK x \in d : x = CHOOSE y \in d : TRUE
      BY <2>6
    <3>2. PICK e \in SUBSET D : e = d \ {x}
      OBVIOUS
    <3>3. Sum(d) = c[x] + Sum(e)
      BY <2>6, <3>1, <3>2, SumRuns DEF Sum
    <3>4. Cardinality(e) \in Nat /\ Cardinality(e) < m
      BY <1>1, <2>3, <3>2, FS_RemoveElement
    <3>5. Sum(e) = Cardinality(all(e))
      BY <2>4, <3>4
    <3>6. all(d) = part[x] \cup all(e) /\ part[x] \cap all(e) = {}
      BY <3>2
    <3> HIDE DEF all
    <3>7. IsFiniteSet(part[x]) /\ Cardinality(part[x]) \in Nat /\ c[x] = Cardinality(part[x])
      BY FS_Subset, FS_CardinalityType
    <3>8. Cardinality(all(d)) = Cardinality(part[x]) + Cardinality(all(e))
      <4>1. PICK p, q : p = part[x] /\ q = all(e) /\ IsFiniteSet(p) /\ IsFiniteSet(q) /\ p \cap q = {} /\ all(d) = p \cup q
        BY <1>2, <3>6, <3>7
      <4>2. Cardinality(p \cup q) = Cardinality(p) + Cardinality(q) - Cardinality(p \cap q)
        BY <4>1, FS_Union
      <4>3. Cardinality(p) \in Nat /\ Cardinality(q) \in Nat /\ Cardinality(p \cap q) = 0
        BY <4>1, FS_CardinalityType, FS_EmptySet
      <4>4. QED
        BY <4>1, <4>2, <4>3
    <3>9. QED
      BY <2>3, <3>3, <3>5, <3>7, <3>8
  <2>7. QED
    BY <2>5, <2>6
<1>4. Cardinality(D) \in Nat /\ D \in SUBSET D
  BY FS_CardinalityType
<1>5. Cardinality(D) \notin Bad => Sum(D) = Cardinality(all(D))
  BY <1>4
<1> HIDE DEF Bad
<1>6. QED
  BY <1>3, <1>5

-----------------------------------------------------------------------------
(* Counts.                                                                 *)

\* There are as many pins as events shown.
LEMMA PinsPerEvent ==
  ASSUME CatTypeOK, NEW f
  PROVE  /\ Evs(Shown(cat, f, now)) \in SUBSET Events /\ IsFiniteSet(Evs(Shown(cat, f, now)))
         /\ Cardinality(Pins(cat, f, now)) = Cardinality(Evs(Shown(cat, f, now)))
<1>1. Shown(cat, f, now) \subseteq cat.occs /\ cat.occs \subseteq Occurrences
  BY DEF Shown, CatTypeOK
<1>2. Unique(Shown(cat, f, now)) /\ now \in Int
  BY <1>1 DEF CatTypeOK, Unique
<1>3. Evs(Pins(cat, f, now)) = Evs(Shown(cat, f, now))
  BY <1>1, <1>2, OnePerEvent DEF Pins
<1>4. Evs(Shown(cat, f, now)) \in SUBSET Events
  BY <1>1 DEF Evs, Occurrences
<1>5. QED
  BY <1>3, <1>4, PinsShown

LEMMA CategoriesFinite == IsFiniteSet(Categories)
<1> DEFINE of == [e \in Events |-> Cat[e]]
<1>1. of \in Surjection(Events, Categories)
  <2>1. of \in [Events -> Categories]
    BY DEF Categories
  <2>2. \A k \in Categories : \E e \in Events : of[e] = k
    BY DEF Categories
  <2> HIDE DEF of
  <2>3. QED
    BY <2>1, <2>2, Zenon DEF Surjection
<1>2. QED
  BY <1>1, FS_Surjection, CatalogueAssumption DEF CatalogueAssumption

\* The counts of the categories are the events shown, each counted once.
LEMMA CategoriesSum ==
  ASSUME CatTypeOK, NEW f
  PROVE  LET counts == CategoryCounts(cat, f, now)
         IN MapThenSumSet(LAMBDA k : counts[k], Categories) = Cardinality(Evs(Shown(cat, f, now)))
<1> DEFINE E == Evs(Shown(cat, f, now))
           part == [k \in Categories |-> {e \in E : Cat[e] = k}]
           counts == CategoryCounts(cat, f, now)
<1>1. E \in SUBSET Events /\ IsFiniteSet(E)
  BY PinsPerEvent
<1>2. \A k \in Categories : counts[k] = Cardinality(part[k])
  BY DEF CategoryCounts
<1> HIDE DEF E
<1>3. part \in [Categories -> SUBSET E]
  OBVIOUS
<1>4. \A k, l \in Categories : k # l => part[k] \cap part[l] = {}
  OBVIOUS
<1>5. UNION {part[k] : k \in Categories} = E
  <2>1. \A e \in E : Cat[e] \in Categories /\ e \in part[Cat[e]]
    BY <1>1 DEF Categories
  <2> HIDE DEF part
  <2>2. QED
    BY <1>3, <2>1
<1>6. \A k \in Categories : Cardinality(part[k]) \in Nat
  BY <1>1, FS_Subset, FS_CardinalityType
<1>7. counts \in [Categories -> Nat]
  <2>1. counts = [k \in Categories |-> counts[k]]
    BY DEF CategoryCounts
  <2> HIDE DEF counts, part
  <2>2. QED
    BY <1>2, <1>6, <2>1
<1>8. Summing(counts, Categories)[Categories] = Cardinality(UNION {part[k] : k \in Categories})
  <2> HIDE DEF counts, part
  <2>1. QED
    BY <1>1, <1>2, <1>3, <1>4, <1>7, CategoriesFinite, SumOfParts
<1>9. MapThenSumSet(LAMBDA k : counts[k], Categories) = Summing(counts, Categories)[Categories]
  BY DEF MapThenSumSet, MapThenFoldSet, Summing
<1>10. QED
  BY <1>5, <1>8, <1>9 DEF E

-----------------------------------------------------------------------------
(* Clusters.                                                               *)

\* A cell of the grid is some metres wide.
LEMMA ScalePositive ==
  ASSUME NEW n \in Nat
  PROVE  2 ^ n \in Nat \ {0}
<1>1. IsFiniteSet(1..n) /\ Cardinality(1..n) = n
  BY FS_Interval
<1>2. IsFiniteSet(SUBSET (1..n)) /\ Cardinality(SUBSET (1..n)) = 2 ^ Cardinality(1..n)
  BY <1>1, FS_SUBSET
<1>3. Cardinality(SUBSET (1..n)) \in Nat /\ Cardinality(SUBSET (1..n)) # 0
  <2>1. PICK S : S = SUBSET (1..n) /\ {} \in S
    OBVIOUS
  <2>2. Cardinality(S) \in Nat /\ Cardinality(S) # 0
    BY <1>2, <2>1, FS_EmptySet, FS_CardinalityType
  <2>3. QED
    BY <2>1, <2>2
<1>4. QED
  BY <1>1, <1>2, <1>3

LEMMA CellType ==
  ASSUME NEW z \in 0..MaxZoom, NEW p \in Nat
  PROVE  Cell(p, z) \in Int
<1>1. MaxZoom - z \in Nat
  BY CatalogueAssumption DEF CatalogueAssumption
<1>2. Scale(z) \in Nat \ {0}
  BY <1>1, ScalePositive DEF Scale
<1>3. QED
  BY <1>2 DEF Cell

\* A set of places in a sequence has a greatest.
LEMMA Greatest ==
  ASSUME NEW n \in Nat, NEW d \in SUBSET (1..n), d # {}
  PROVE  Max(d) \in d
<1> DEFINE U == {u \in 0..n : \A x \in d : x <= u}
<1>1. U \in SUBSET Nat /\ U # {}
  <2>1. n \in U
    OBVIOUS
  <2>2. QED
    BY <2>1
<1>2. PICK u \in U : \A v \in U : u <= v
  <2> HIDE DEF U
  <2>1. QED
    BY <1>1, Least
<1>3. u \in d
  <2> SUFFICES ASSUME u \notin d PROVE FALSE
    OBVIOUS
  <2>1. u - 1 \in U
    <3>1. u \in 0..n /\ \A x \in d : x \in 1..n /\ x <= u /\ x # u
      OBVIOUS
    <3>2. \A x \in d : x <= u - 1
      BY <3>1
    <3>3. u - 1 \in 0..n
      <4>1. PICK x \in d : x \in 1..n /\ x <= u
        BY <3>1
      <4>2. QED
        BY <3>1, <4>1
    <3>4. QED
      BY <3>2, <3>3
  <2>2. QED
    BY <1>2, <2>1
<1>4. \E x \in d : \A y \in d : x >= y
  BY <1>3
<1>5. QED
  BY <1>4 DEF Max

LEMMA LastOfMany ==
  ASSUME NEW i \in Nat \ {0}
  PROVE  Max(1..i) = i /\ (1..i) \ {i} = 1..(i - 1)
<1>1. \E x \in 1..i : \A y \in 1..i : x >= y
  OBVIOUS
<1>2. Max(1..i) \in 1..i /\ \A y \in 1..i : Max(1..i) >= y
  BY <1>1 DEF Max
<1>3. i \in 1..i
  OBVIOUS
<1>4. QED
  BY <1>2, <1>3

\* Where a fold over the places of a sequence is after each of them.
Totalling(ms) == CHOOSE g : g = [d \in SUBSET DOMAIN ms |-> IF d = {} THEN 0
                                   ELSE g[d \ {Max(d)}] + ms[Max(d)].n]
Merging(s, z) == CHOOSE g : g = [d \in SUBSET DOMAIN s |-> IF d = {} THEN <<>>
                                   ELSE Join(g[d \ {Max(d)}], s[Max(d)], z)]

\* What is merged: a cell, the sum of the positions in it, and how many points it has.
Groups == [k : Int, sum : Int, n : Nat]

\* The total of the first i groups.
LEMMA TotalRuns ==
  ASSUME NEW ms \in Seq(Groups)
  PROVE  \A i \in 0..Len(ms) :
           Totalling(ms)[1..i] = IF i = 0 THEN 0 ELSE Totalling(ms)[1..(i - 1)] + ms[i].n
<1> DEFINE D == DOMAIN ms
           pick == [d \in SUBSET D |-> Max(d)]
           step == [i \in D |-> [t \in Nat |-> t + ms[i].n]]
           Run(g) == [d \in SUBSET D |-> IF d = {} THEN 0 ELSE g[d \ {Max(d)}] + ms[Max(d)].n]
<1>0. D = 1..Len(ms) /\ Len(ms) \in Nat
  OBVIOUS
<1>1. IsFiniteSet(D)
  BY <1>0, FS_Interval
<1>2. \A i \in D : ms[i].n \in Nat
  <2>1. \A i \in D : ms[i] \in Groups
    OBVIOUS
  <2>2. \A m \in Groups : m.n \in Nat
    BY DEF Groups
  <2>3. QED
    BY <2>1, <2>2
<1>3. step \in [D -> [Nat -> Nat]]
  <2> HIDE DEF D
  <2>1. QED
    BY <1>2
<1>4. \A d \in SUBSET D : pick[d] = Max(d)
  OBVIOUS
<1>5. \A d \in SUBSET D : d # {} => Max(d) \in d
  BY <1>0, Greatest
<1>6. \A d \in SUBSET D : d # {} => pick[d] \in d
  <2> HIDE DEF D, pick
  <2>1. QED
    BY <1>4, <1>5
<1> HIDE DEF D, pick
<1>7. PICK g : Accumulates(g, D, Nat, 0, step, pick)
  <2> HIDE DEF step
  <2>1. 0 \in Nat
    OBVIOUS
  <2>2. QED
    BY <1>1, <1>3, <1>6, <2>1, FoldExists
<1>8. \A d \in SUBSET D : g[d] = Run(g)[d]
  <2> SUFFICES ASSUME NEW d \in SUBSET D, d # {} PROVE g[d] = g[d \ {pick[d]}] + ms[pick[d]].n
    BY <1>4, <1>7 DEF Accumulates
  <2>1. PICK x \in D, t \in Nat : x = pick[d] /\ t = g[d \ {pick[d]}]
    BY <1>6, <1>7 DEF Accumulates
  <2>2. g[d] = step[x][t]
    BY <1>7, <2>1 DEF Accumulates
  <2>3. QED
    BY <2>1, <2>2
<1>9. g = Run(g)
  BY <1>7, <1>8 DEF Accumulates
<1>10. Totalling(ms) = Run(Totalling(ms))
  BY <1>9 DEF Totalling, D
<1>11. QED
  <2> SUFFICES ASSUME NEW i \in 0..Len(ms)
               PROVE  Totalling(ms)[1..i] = IF i = 0 THEN 0 ELSE Totalling(ms)[1..(i - 1)] + ms[i].n
    OBVIOUS
  <2>1. PICK d \in SUBSET D : d = 1..i
    BY <1>0
  <2>2. Totalling(ms)[d] = IF d = {} THEN 0 ELSE Totalling(ms)[d \ {Max(d)}] + ms[Max(d)].n
    BY <1>10
  <2>3. CASE i = 0
    BY <2>1, <2>2, <2>3
  <2>4. CASE i # 0
    <3>1. Max(d) = i /\ d \ {Max(d)} = 1..(i - 1) /\ d # {}
      BY <2>1, <2>4, LastOfMany
    <3>2. QED
      BY <2>1, <2>2, <2>4, <3>1
  <2>5. QED
    BY <2>3, <2>4

\* What the first i groups come to adds up to all of them.
Weighs(ms, t) ==
  \E p \in [0..Len(ms) -> Nat] :
    p[0] = 0 /\ p[Len(ms)] = t /\ \A i \in 1..Len(ms) : p[i] = p[i - 1] + ms[i].n

\* What a fold over them makes of the counts.
LEMMA TotalIs ==
  ASSUME NEW ms \in Seq(Groups), NEW t, Weighs(ms, t)
  PROVE  ClusterTotal(ms) = t
<1>1. PICK n \in Nat : n = Len(ms) /\ DOMAIN ms = 1..n
  OBVIOUS
<1>2. PICK p \in [0..n -> Nat] : p[0] = 0 /\ p[n] = t /\ \A i \in 1..n : p[i] = p[i - 1] + ms[i].n
  BY <1>1 DEF Weighs
<1> DEFINE h(i) == Totalling(ms)[1..i]
           Bad == {i \in 0..n : h(i) # p[i]}
<1>3. \A i \in 0..n : h(i) = IF i = 0 THEN 0 ELSE h(i - 1) + ms[i].n
  BY <1>1, TotalRuns
<1> HIDE DEF h
<1>4. Bad = {}
  <2> SUFFICES ASSUME Bad # {} PROVE FALSE
    OBVIOUS
  <2>1. Bad \in SUBSET Nat
    OBVIOUS
  <2>2. PICK m \in Bad : \A i \in Bad : m <= i
    <3> HIDE DEF Bad
    <3>1. QED
      BY <2>1, Least
  <2>3. m # 0
    BY <1>2, <1>3
  <2>4. m - 1 \in 0..n /\ m \in 1..n
    BY <2>3
  <2>5. m - 1 \notin Bad
    BY <2>2, <2>4
  <2>6. h(m - 1) = p[m - 1]
    BY <2>4, <2>5
  <2>7. h(m) = h(m - 1) + ms[m].n /\ p[m] = p[m - 1] + ms[m].n
    BY <1>2, <1>3, <2>3, <2>4
  <2>8. QED
    BY <2>6, <2>7
<1>5. h(n) = t
  BY <1>2, <1>4
<1>6. ClusterTotal(ms) = Totalling(ms)[DOMAIN ms]
  BY DEF ClusterTotal, FoldLeft, MapThenFoldSet, Totalling
<1>7. QED
  BY <1>1, <1>5, <1>6 DEF h

\* A group that joins counts where it joins.
LEMMA JoinAdds ==
  ASSUME NEW ms \in Seq(Groups), NEW d \in Groups, NEW z, NEW t, Weighs(ms, t)
  PROVE  Join(ms, d, z) \in Seq(Groups) /\ Weighs(Join(ms, d, z), t + d.n)
<1>1. PICK n \in Nat : n = Len(ms) /\ DOMAIN ms = 1..n
  OBVIOUS
<1>2. PICK p \in [0..n -> Nat] : p[0] = 0 /\ p[n] = t /\ \A i \in 1..n : p[i] = p[i - 1] + ms[i].n
  BY <1>1 DEF Weighs
<1>3. d.n \in Nat /\ d.sum \in Int
  BY DEF Groups
<1>4. \A i \in 1..n : ms[i] \in Groups
  BY <1>1
<1> DEFINE near == {i \in DOMAIN ms : Close(ms[i], d, z)}
<1>5. CASE near = {}
  <2>1. Join(ms, d, z) = Append(ms, d)
    BY <1>5 DEF Join
  <2>2. PICK s \in Seq(Groups) : s = Append(ms, d)
    BY AppendProperties
  <2>3. Len(s) = n + 1 /\ s[n + 1] = d /\ \A i \in 1..n : s[i] = ms[i]
    BY <1>1, <2>2
  <2> DEFINE q == [i \in 0..(n + 1) |-> IF i <= n THEN p[i] ELSE p[n] + d.n]
  <2>4. q \in [0..(n + 1) -> Nat]
    BY <1>2, <1>3
  <2>5. q[0] = 0 /\ q[n + 1] = t + d.n
    BY <1>2
  <2>6. ASSUME NEW i \in 1..(n + 1)
        PROVE  q[i] = q[i - 1] + s[i].n
    <3>1. CASE i = n + 1
      BY <1>2, <2>3, <3>1
    <3>2. CASE i # n + 1
      <4>1. i \in 1..n /\ i - 1 \in 0..n
        BY <3>2
      <4>2. q[i] = p[i] /\ q[i - 1] = p[i - 1]
        BY <4>1
      <4>3. QED
        BY <1>2, <2>3, <4>1, <4>2
    <3>3. QED
      BY <3>1, <3>2
  <2> HIDE DEF q
  <2>7. Weighs(s, t + d.n)
    BY <2>3, <2>4, <2>5, <2>6 DEF Weighs
  <2>8. QED
    BY <2>1, <2>2, <2>7
<1>6. CASE near # {}
  <2>1. near \in SUBSET Nat /\ near \subseteq 1..n
    BY <1>1
  <2>2. PICK l \in near : \A j \in near : l <= j
    <3> HIDE DEF near
    <3>1. QED
      BY <1>6, <2>1, Least
  <2>3. PICK k \in near : k = CHOOSE i \in near : \A j \in near : i <= j
    BY <2>2
  <2>4. Join(ms, d, z) = [ms EXCEPT ![k] = [k |-> @.k, sum |-> @.sum + d.sum, n |-> @.n + d.n]]
    BY <1>6, <2>3 DEF Join
  <2>5. k \in 1..n
    BY <2>1
  <2>6. PICK m \in Groups : m = ms[k]
    BY <1>4, <2>5
  <2>7. PICK e \in Groups : e = [k |-> m.k, sum |-> m.sum + d.sum, n |-> m.n + d.n]
    <3>1. m.k \in Int /\ m.sum \in Int /\ m.n \in Nat
      BY DEF Groups
    <3>2. [k |-> m.k, sum |-> m.sum + d.sum, n |-> m.n + d.n] \in Groups
      <4>1. \A x, y \in Int : \A w \in Nat : [k |-> x, sum |-> y, n |-> w] \in Groups
        BY DEF Groups
      <4>2. PICK a \in Int, b \in Int, v \in Nat, w \in Nat : a = m.sum /\ b = d.sum /\ v = m.n /\ w = d.n
        BY <1>3, <3>1, Zenon
      <4>3. a + b \in Int /\ v + w \in Nat
        OBVIOUS
      <4>4. QED
        BY <3>1, <4>1, <4>2, <4>3
    <3>3. QED
      BY <3>2
  <2>8. PICK s \in Seq(Groups) : s = [ms EXCEPT ![k] = e]
    BY <1>1, <2>5, ExceptSeq
  <2>9. Len(s) = n /\ s[k] = e /\ \A i \in 1..n : i # k => s[i] = ms[i]
    BY <1>1, <2>5, <2>8
  <2>10. Join(ms, d, z) = s
    BY <2>4, <2>6, <2>7, <2>8
  <2>11. e.n = ms[k].n + d.n
    BY <2>6, <2>7
  <2> DEFINE q == [i \in 0..n |-> IF i < k THEN p[i] ELSE p[i] + d.n]
  <2>12. q \in [0..n -> Nat]
    BY <1>2, <1>3
  <2>13. q[0] = 0 /\ q[n] = t + d.n
    BY <1>2, <2>5
  <2>14. ASSUME NEW i \in 1..n
         PROVE  q[i] = q[i - 1] + s[i].n
    <3>0. \A g \in Groups : g.n \in Nat
      BY DEF Groups
    <3>1. p[i] = p[i - 1] + ms[i].n /\ p[i] \in Nat /\ p[i - 1] \in Nat /\ ms[i].n \in Nat
      <4>1. i - 1 \in 0..n
        OBVIOUS
      <4> HIDE DEF near, q
      <4>2. QED
        BY <1>2, <1>4, <3>0, <4>1
    <3>2. q[i] = (IF i < k THEN p[i] ELSE p[i] + d.n) /\ q[i - 1] = IF i - 1 < k THEN p[i - 1] ELSE p[i - 1] + d.n
      OBVIOUS
    <3> HIDE DEF q
    <3>3. CASE i = k
      BY <1>3, <2>9, <2>11, <3>1, <3>2, <3>3
    <3>4. CASE i < k
      <4>1. s[i] = ms[i] /\ i - 1 < k
        BY <2>5, <2>9, <3>4
      <4>2. QED
        BY <3>1, <3>2, <3>4, <4>1
    <3>5. CASE i > k
      <4>1. s[i] = ms[i] /\ ~(i - 1 < k) /\ ~(i < k)
        BY <2>5, <2>9, <3>5
      <4>2. q[i] = p[i] + d.n /\ q[i - 1] = p[i - 1] + d.n
        BY <3>2, <4>1
      <4>3. PICK a \in Nat, b \in Nat, v \in Nat, w \in Nat : a = p[i] /\ b = p[i - 1] /\ v = ms[i].n /\ w = d.n
        BY <1>3, <3>1, Zenon
      <4>4. a = b + v /\ q[i] = a + w /\ q[i - 1] = b + w /\ s[i].n = v
        BY <3>1, <4>1, <4>2, <4>3
      <4>5. QED
        BY <4>4
    <3>6. QED
      BY <2>5, <3>3, <3>4, <3>5
  <2> HIDE DEF q
  <2>15. Weighs(s, t + d.n)
    BY <2>9, <2>12, <2>13, <2>14 DEF Weighs
  <2>16. QED
    BY <2>10, <2>15
<1>7. QED
  BY <1>5, <1>6

LEMMA NothingWeighs == Weighs(<<>>, 0)
<1> DEFINE p == [i \in 0..0 |-> 0]
<1>1. p \in [0..Len(<<>>) -> Nat] /\ p[0] = 0 /\ p[Len(<<>>)] = 0
  OBVIOUS
<1>2. \A i \in 1..Len(<<>>) : p[i] = p[i - 1] + <<>>[i].n
  OBVIOUS
<1> HIDE DEF p
<1>3. QED
  BY <1>1, <1>2 DEF Weighs

\* The clusters that the first i cells have made.
LEMMA MergeRuns ==
  ASSUME NEW s \in Seq(Groups), NEW z
  PROVE  \A i \in 0..Len(s) :
           Merging(s, z)[1..i] = IF i = 0 THEN <<>> ELSE Join(Merging(s, z)[1..(i - 1)], s[i], z)
<1> DEFINE D == DOMAIN s
           X == {ms \in Seq(Groups) : \E t \in Nat : Weighs(ms, t)}
           pick == [d \in SUBSET D |-> Max(d)]
           step == [i \in D |-> [ms \in X |-> Join(ms, s[i], z)]]
           Run(g) == [d \in SUBSET D |-> IF d = {} THEN <<>> ELSE Join(g[d \ {Max(d)}], s[Max(d)], z)]
<1>0. D = 1..Len(s) /\ Len(s) \in Nat
  OBVIOUS
<1>1. IsFiniteSet(D)
  BY <1>0, FS_Interval
<1>2. ASSUME NEW i \in D, NEW ms \in X
      PROVE  Join(ms, s[i], z) \in X
  <2>1. PICK t \in Nat : ms \in Seq(Groups) /\ Weighs(ms, t)
    OBVIOUS
  <2>2. PICK d \in Groups : d = s[i]
    OBVIOUS
  <2>3. Join(ms, d, z) \in Seq(Groups) /\ Weighs(Join(ms, d, z), t + d.n)
    BY <2>1, JoinAdds
  <2>4. d.n \in Nat
    BY DEF Groups
  <2>5. t + d.n \in Nat
    BY <2>4
  <2>6. QED
    BY <2>2, <2>3, <2>5
<1>3. step \in [D -> [X -> X]]
  <2> HIDE DEF D, X
  <2>1. QED
    BY <1>2
<1>4. \A d \in SUBSET D : pick[d] = Max(d)
  OBVIOUS
<1>5. \A d \in SUBSET D : d # {} => Max(d) \in d
  BY <1>0, Greatest
<1>6. \A d \in SUBSET D : d # {} => pick[d] \in d
  <2> HIDE DEF D, pick
  <2>1. QED
    BY <1>4, <1>5
<1>7. <<>> \in X
  BY NothingWeighs
<1> HIDE DEF D, pick, X
<1>8. PICK g : Accumulates(g, D, X, <<>>, step, pick)
  <2> HIDE DEF step
  <2>1. QED
    BY <1>1, <1>3, <1>6, <1>7, FoldExists
<1>9. \A d \in SUBSET D : g[d] = Run(g)[d]
  <2> SUFFICES ASSUME NEW d \in SUBSET D, d # {} PROVE g[d] = Join(g[d \ {pick[d]}], s[pick[d]], z)
    BY <1>4, <1>8 DEF Accumulates
  <2>1. PICK x \in D, t \in X : x = pick[d] /\ t = g[d \ {pick[d]}]
    BY <1>6, <1>8 DEF Accumulates
  <2>2. g[d] = step[x][t]
    BY <1>8, <2>1 DEF Accumulates
  <2>3. QED
    BY <2>1, <2>2
<1>10. g = Run(g)
  BY <1>8, <1>9 DEF Accumulates
<1>11. Merging(s, z) = Run(Merging(s, z))
  BY <1>10 DEF Merging, D
<1>12. QED
  <2> SUFFICES ASSUME NEW i \in 0..Len(s)
               PROVE  Merging(s, z)[1..i] = IF i = 0 THEN <<>> ELSE Join(Merging(s, z)[1..(i - 1)], s[i], z)
    OBVIOUS
  <2>1. PICK d \in SUBSET D : d = 1..i
    BY <1>0
  <2>2. Merging(s, z)[d] = IF d = {} THEN <<>> ELSE Join(Merging(s, z)[d \ {Max(d)}], s[Max(d)], z)
    BY <1>11
  <2>3. CASE i = 0
    BY <2>1, <2>2, <2>3
  <2>4. CASE i # 0
    <3>1. Max(d) = i /\ d \ {Max(d)} = 1..(i - 1) /\ d # {}
      BY <2>1, <2>4, LastOfMany
    <3>2. QED
      BY <2>1, <2>2, <2>4, <3>1
  <2>5. QED
    BY <2>3, <2>4

\* Merging loses and doubles nothing.
LEMMA MergeKeeps ==
  ASSUME NEW s \in Seq(Groups), NEW z, NEW t, Weighs(s, t)
  PROVE  Merging(s, z)[DOMAIN s] \in Seq(Groups) /\ Weighs(Merging(s, z)[DOMAIN s], t)
<1>1. PICK n \in Nat : n = Len(s) /\ DOMAIN s = 1..n
  OBVIOUS
<1>2. PICK p \in [0..n -> Nat] : p[0] = 0 /\ p[n] = t /\ \A i \in 1..n : p[i] = p[i - 1] + s[i].n
  BY <1>1 DEF Weighs
<1> DEFINE h(i) == Merging(s, z)[1..i]
           Good(i) == h(i) \in Seq(Groups) /\ Weighs(h(i), p[i])
           Bad == {i \in 0..n : ~Good(i)}
<1>3. \A i \in 0..n : h(i) = IF i = 0 THEN <<>> ELSE Join(h(i - 1), s[i], z)
  BY <1>1, MergeRuns
<1> HIDE DEF h
<1>5. Bad = {}
  <2> SUFFICES ASSUME Bad # {} PROVE FALSE
    OBVIOUS
  <2>1. Bad \in SUBSET Nat
    OBVIOUS
  <2>2. PICK m \in Bad : \A i \in Bad : m <= i
    <3> HIDE DEF Bad
    <3>1. QED
      BY <2>1, Least
  <2>3. m \in 0..n /\ ~Good(m)
    OBVIOUS
  <2>4. \A i \in 0..n : i \notin Bad => Good(i)
    OBVIOUS
  <2> HIDE DEF Bad
  <2>5. CASE m = 0
    <3>1. h(0) = <<>> /\ p[0] = 0
      BY <1>2, <1>3
    <3>2. h(0) \in Seq(Groups) /\ Weighs(h(0), p[0])
      BY <3>1, NothingWeighs
    <3>3. QED
      BY <2>3, <2>5, <3>2
  <2>6. CASE m # 0
    <3>1. m - 1 \in 0..n /\ m - 1 \notin Bad /\ m \in 1..n
      BY <2>2, <2>3, <2>6
    <3>2. PICK u \in Seq(Groups) : u = h(m - 1) /\ Weighs(u, p[m - 1])
      BY <2>4, <3>1
    <3>3. PICK d \in Groups : d = s[m]
      BY <1>1, <3>1
    <3>4. h(m) = Join(u, d, z) /\ p[m] = p[m - 1] + d.n
      BY <1>2, <1>3, <2>3, <2>6, <3>1, <3>2, <3>3
    <3>5. Join(u, d, z) \in Seq(Groups) /\ Weighs(Join(u, d, z), p[m - 1] + d.n)
      BY <3>2, JoinAdds
    <3>6. QED
      BY <2>3, <3>4, <3>5
  <2>7. QED
    BY <2>5, <2>6
<1>6. n \in 0..n /\ n \notin Bad => Good(n)
  OBVIOUS
<1> HIDE DEF Bad
<1>7. h(n) \in Seq(Groups) /\ Weighs(h(n), t)
  BY <1>2, <1>5, <1>6
<1>8. QED
  BY <1>1, <1>7 DEF h

LEMMA SumType ==
  ASSUME NEW D, IsFiniteSet(D), NEW c \in [D -> Nat]
  PROVE  Summing(c, D)[D] \in Nat
<1> DEFINE h(d) == Summing(c, D)[d]
           Bad == {n \in Nat : \E d \in SUBSET D : Cardinality(d) = n /\ h(d) \notin Nat}
<1>1. \A d \in SUBSET D : IsFiniteSet(d) /\ Cardinality(d) \in Nat
  BY FS_Subset, FS_CardinalityType
<1>2. \A d \in SUBSET D : d # {} => \E x \in d : h(d) = c[x] + h(d \ {x})
  <2> SUFFICES ASSUME NEW d \in SUBSET D, d # {} PROVE \E x \in d : h(d) = c[x] + h(d \ {x})
    OBVIOUS
  <2>1. PICK x \in d : x = CHOOSE y \in d : TRUE
    OBVIOUS
  <2>2. h(d) = c[x] + h(d \ {x})
    BY <2>1, SumRuns
  <2>3. QED
    BY <2>2
<1>3. h({}) = 0
  BY SumRuns
<1> HIDE DEF h
<1>4. Bad = {}
  <2> SUFFICES ASSUME Bad # {} PROVE FALSE
    OBVIOUS
  <2>1. Bad \in SUBSET Nat
    OBVIOUS
  <2>2. PICK m \in Bad : \A n \in Bad : m <= n
    <3> HIDE DEF Bad
    <3>1. QED
      BY <2>1, Least
  <2>3. PICK d \in SUBSET D : Cardinality(d) = m /\ h(d) \notin Nat
    OBVIOUS
  <2>0. d # {}
    BY <1>3, <2>3
  <2>4. PICK x \in d : h(d) = c[x] + h(d \ {x})
    BY <1>2, <2>0
  <2>5. PICK e \in SUBSET D : e = d \ {x}
    OBVIOUS
  <2>6. Cardinality(e) \in Nat /\ Cardinality(e) < m
    BY <1>1, <2>3, <2>5, FS_RemoveElement
  <2>7. h(e) \in Nat
    <3> SUFFICES ASSUME h(e) \notin Nat PROVE FALSE
      OBVIOUS
    <3>1. Cardinality(e) \in Bad /\ m \in Nat
      BY <2>6
    <3> HIDE DEF Bad
    <3>2. QED
      BY <2>2, <2>6, <3>1
  <2>8. QED
    BY <2>3, <2>4, <2>5, <2>7
<1>5. Cardinality(D) \in Nat /\ (Cardinality(D) \notin Bad => h(D) \in Nat)
  BY <1>1
<1> HIDE DEF Bad
<1>6. QED
  BY <1>4, <1>5 DEF h

\* The sum of the positions of a set of points.
LEMMA PositionsSum ==
  ASSUME NEW P \in SUBSET Occurrences, IsFiniteSet(P)
  PROVE  MapThenSumSet(LAMBDA o : Pos[o.place], P) \in Int
<1> DEFINE c == [o \in P |-> Pos[o.place]]
<1>1. c \in [P -> Nat]
  BY CatalogueAssumption DEF CatalogueAssumption, Occurrences
<1>2. MapThenSumSet(LAMBDA o : Pos[o.place], P) = Summing(c, P)[P]
  BY DEF MapThenSumSet, MapThenFoldSet, Summing
<1>3. Summing(c, P)[P] \in Nat
  <2> HIDE DEF c
  <2>1. QED
    BY <1>1, SumType
<1>4. QED
  BY <1>2, <1>3

\* The cells of the grid, one for each that holds a point.
CellOf(P, z) == [o \in P |-> Cell(Pos[o.place], z)]

\* Each has the points that fall into it, and only those.
LEMMA CellsTell ==
  ASSUME NEW P \in SUBSET Occurrences, IsFiniteSet(P), NEW z \in 0..MaxZoom
  PROVE  /\ Cells(P, z) \in SUBSET Groups /\ CellOf(P, z) \in [P -> Int]
         /\ \A d \in Cells(P, z) : d.n = Cardinality({o \in P : CellOf(P, z)[o] = d.k})
         /\ \A o \in P : \E d \in Cells(P, z) : d.k = CellOf(P, z)[o]
         /\ \A d \in Cells(P, z) : \E o \in P : CellOf(P, z)[o] = d.k
         /\ \A d, e \in Cells(P, z) : d.k = e.k => d = e
<1> DEFINE K == CellOf(P, z)
           here(k) == {o \in P : Cell(Pos[o.place], z) = k}
           cell(k) == [k |-> k, sum |-> MapThenSumSet(LAMBDA o : Pos[o.place], here(k)), n |-> Cardinality(here(k))]
           keys == {Cell(Pos[o.place], z) : o \in P}
<1>1. Cells(P, z) = {cell(k) : k \in keys}
  BY DEF Cells
<1>2. \A o \in P : Pos[o.place] \in Nat
  BY CatalogueAssumption DEF CatalogueAssumption, Occurrences
<1>3. \A o \in P : Cell(Pos[o.place], z) \in Int
  BY <1>2, CellType
<1>4. \A o \in P : K[o] = Cell(Pos[o.place], z)
  BY DEF CellOf
<1>5. K \in [P -> Int]
  BY <1>3 DEF CellOf
<1>6. \A k \in keys : here(k) = {o \in P : K[o] = k}
  BY <1>4
<1>7. ASSUME NEW k \in keys
      PROVE  cell(k) \in Groups
  <2>1. k \in Int
    BY <1>3
  <2>2. IsFiniteSet(here(k)) /\ here(k) \in SUBSET Occurrences
    BY FS_Subset
  <2>3. Cardinality(here(k)) \in Nat
    BY <2>2, FS_CardinalityType
  <2> HIDE DEF here
  <2>4. MapThenSumSet(LAMBDA o : Pos[o.place], here(k)) \in Int
    BY <2>2, PositionsSum
  <2>5. QED
    BY <2>1, <2>3, <2>4 DEF Groups
<1>8. \A k \in keys : cell(k).k = k /\ cell(k).n = Cardinality(here(k))
  OBVIOUS
<1>9. (\A o \in P : K[o] \in keys) /\ (\A k \in keys : \E o \in P : K[o] = k)
  BY <1>4
<1> HIDE DEF K, cell, here, keys
<1>10. Cells(P, z) \in SUBSET Groups
  BY <1>1, <1>7
<1>11. \A d \in Cells(P, z) : d.n = Cardinality({o \in P : K[o] = d.k})
  <2> SUFFICES ASSUME NEW d \in Cells(P, z) PROVE d.n = Cardinality({o \in P : K[o] = d.k})
    OBVIOUS
  <2>1. PICK k \in keys : d = cell(k)
    BY <1>1
  <2>2. d.k = k /\ d.n = Cardinality(here(k))
    BY <1>8, <2>1
  <2>3. here(k) = {o \in P : K[o] = k}
    BY <1>6
  <2>4. QED
    BY <2>2, <2>3
<1>12. \A o \in P : \E d \in Cells(P, z) : d.k = K[o]
  BY <1>1, <1>8, <1>9
<1>13. \A d, e \in Cells(P, z) : d.k = e.k => d = e
  BY <1>1, <1>8
<1>14. \A d \in Cells(P, z) : \E o \in P : K[o] = d.k
  BY <1>1, <1>8, <1>9
<1>15. QED
  BY <1>5, <1>10, <1>11, <1>12, <1>13, <1>14 DEF K

LEMMA CellsFinite ==
  ASSUME NEW P \in SUBSET Occurrences, IsFiniteSet(P), NEW z \in 0..MaxZoom
  PROVE  IsFiniteSet(Cells(P, z))
<1> DEFINE C == Cells(P, z)
           f == [o \in P |-> CHOOSE d \in C : d.k = CellOf(P, z)[o]]
<1>1. \A o \in P : \E d \in C : d.k = CellOf(P, z)[o]
  BY CellsTell
<1>2. \A d, e \in C : d.k = e.k => d = e
  BY CellsTell
<1>3. \A d \in C : \E o \in P : CellOf(P, z)[o] = d.k
  BY CellsTell
<1> HIDE DEF C
<1>4. \A o \in P : f[o] \in C /\ f[o].k = CellOf(P, z)[o]
  BY <1>1
<1>5. f \in [P -> C]
  BY <1>4
<1> HIDE DEF f
<1>6. \A d \in C : \E o \in P : f[o] = d
  BY <1>2, <1>3, <1>4
<1>7. f \in Surjection(P, C)
  BY <1>5, <1>6, Zenon DEF Surjection
<1>8. QED
  BY <1>7, FS_Surjection DEF C

\* The cells in any order weigh as many as there are points.
LEMMA CellsWeigh ==
  ASSUME NEW P \in SUBSET Occurrences, IsFiniteSet(P), NEW z \in 0..MaxZoom,
         NEW s, Enumerates(s, Cells(P, z))
  PROVE  s \in Seq(Groups) /\ Weighs(s, Cardinality(P))
<1> DEFINE C == Cells(P, z)
           K == CellOf(P, z)
<1>1. /\ C \in SUBSET Groups /\ K \in [P -> Int]
      /\ \A d \in C : d.n = Cardinality({o \in P : K[o] = d.k})
      /\ \A o \in P : \E d \in C : d.k = K[o]
      /\ \A d, e \in C : d.k = e.k => d = e
  BY CellsTell
<1>2. s \in Seq(C) /\ ToSet(s) = C /\ IsInjective(s)
  BY DEF Enumerates
<1> HIDE DEF C, K
<1>3. PICK n \in Nat : n = Len(s) /\ DOMAIN s = 1..n
  BY <1>2
<1>4. \A i \in 1..n : s[i] \in C
  BY <1>2, <1>3
<1>5. \A i, j \in 1..n : s[i] = s[j] => i = j
  BY <1>2, <1>3 DEF IsInjective
<1>6. \A d \in C : \E i \in 1..n : s[i] = d
  BY <1>2, <1>3 DEF ToSet
<1> DEFINE T == [i \in 0..n |-> {o \in P : \E j \in 1..i : K[o] = s[j].k}]
           p == [i \in 0..n |-> Cardinality(T[i])]
<1>7. \A i \in 0..n : IsFiniteSet(T[i]) /\ Cardinality(T[i]) \in Nat
  <2>1. \A i \in 0..n : T[i] \in SUBSET P
    OBVIOUS
  <2> HIDE DEF T
  <2>2. QED
    BY <2>1, FS_Subset, FS_CardinalityType
<1>8. p \in [0..n -> Nat]
  BY <1>7
<1>9. T[0] = {} /\ T[n] = P
  <2>1. \A o \in P : \E j \in 1..n : K[o] = s[j].k
    BY <1>1, <1>6
  <2>2. QED
    BY <2>1
<1>10. p[0] = 0 /\ p[n] = Cardinality(P)
  <2>1. 0 \in 0..n /\ n \in 0..n
    OBVIOUS
  <2> HIDE DEF T
  <2>2. QED
    BY <1>9, <2>1, FS_EmptySet
<1>11. ASSUME NEW i \in 1..n
       PROVE  p[i] = p[i - 1] + s[i].n
  <2> DEFINE new == {o \in P : K[o] = s[i].k}
  <2>1. i - 1 \in 0..n /\ i \in 0..n /\ 1..i = (1..(i - 1)) \cup {i}
    OBVIOUS
  <2>2. T[i] = T[i - 1] \cup new
    BY <2>1
  <2>3. T[i - 1] \cap new = {}
    <3> SUFFICES ASSUME NEW o \in P, NEW j \in 1..(i - 1), K[o] = s[j].k, K[o] = s[i].k PROVE FALSE
      BY <2>1
    <3>1. j \in 1..n /\ j # i
      OBVIOUS
    <3>2. s[j] = s[i]
      BY <1>1, <1>4, <3>1
    <3>3. QED
      BY <1>5, <3>1, <3>2
  <2>4. s[i].n = Cardinality(new)
    BY <1>1, <1>4
  <2>5. PICK a, b : a = T[i - 1] /\ b = new /\ IsFiniteSet(a) /\ IsFiniteSet(b) /\ a \cap b = {} /\ T[i] = a \cup b
    <3>1. IsFiniteSet(new)
      BY FS_Subset
    <3> HIDE DEF T, new
    <3>2. QED
      BY <1>7, <2>1, <2>2, <2>3, <3>1
  <2>6. Cardinality(a \cup b) = Cardinality(a) + Cardinality(b) - Cardinality(a \cap b)
    BY <2>5, FS_Union
  <2>7. Cardinality(a) \in Nat /\ Cardinality(b) \in Nat /\ Cardinality(a \cap b) = 0
    BY <2>5, FS_EmptySet, FS_CardinalityType
  <2>8. p[i] = Cardinality(a \cup b) /\ p[i - 1] = Cardinality(a)
    <3> HIDE DEF T, new
    <3>1. QED
      BY <2>1, <2>5
  <2> HIDE DEF p, T, new
  <2>9. QED
    BY <2>4, <2>5, <2>6, <2>7, <2>8
<1> HIDE DEF p, T
<1>12. Weighs(s, Cardinality(P))
  BY <1>3, <1>8, <1>10, <1>11 DEF Weighs
<1>13. s \in Seq(Groups)
  BY <1>1, <1>2
<1>14. QED
  BY <1>12, <1>13

\* However the cells merge, their clusters tell as many as there are points.
LEMMA ClustersWhole ==
  ASSUME NEW P \in SUBSET Occurrences, IsFiniteSet(P), NEW z \in 0..MaxZoom
  PROVE  ClusterTotal(Merge(Cells(P, z), z)) = Cardinality(P)
<1> DEFINE C == Cells(P, z)
           a == [d \in C |-> -d.n]
           b == [d \in C |-> d.k]
           Bigger(d, e) == d.n > e.n \/ (d.n = e.n /\ d.k < e.k)
           Right(q) == \A j \in DOMAIN q : \A i \in 1..(j - 1) : Bigger(q[i], q[j])
           bySize == CHOOSE q \in [1..Cardinality(C) -> C] : Right(q)
<1>0. Merge(C, z) = Merging(bySize, z)[DOMAIN bySize]
  <2> HIDE DEF C
  <2>1. QED
    BY DEF Merge, Sorted, FoldLeft, MapThenFoldSet, Merging
<1>1. C \in SUBSET Groups /\ \A d, e \in C : d.k = e.k => d = e
  BY CellsTell
<1>2. IsFiniteSet(C)
  BY CellsFinite
<1> HIDE DEF C
<1>3. \A d \in C : d.n \in Nat /\ d.k \in Int
  BY <1>1 DEF Groups
<1>4. a \in [C -> Int] /\ b \in [C -> Int]
  BY <1>3
<1>5. \A d, e \in C : b[d] = b[e] => d = e
  BY <1>1
<1>6. \A d, e \in C : Precedes(a, b, b, d, e) <=> Bigger(d, e)
  BY <1>3 DEF Precedes
<1>7. Cardinality(C) \in Nat
  BY <1>2, FS_CardinalityType
<1> HIDE DEF a, b, Bigger
<1>8. ASSUME NEW q \in [1..Cardinality(C) -> C]
      PROVE  ByKeys(q, a, b, b) <=> Right(q)
  <2>1. ASSUME NEW j \in DOMAIN q, NEW i \in 1..(j - 1)
        PROVE  q[i] \in C /\ q[j] \in C
    BY <1>7
  <2>2. ASSUME NEW j \in DOMAIN q, NEW i \in 1..(j - 1)
        PROVE  Precedes(a, b, b, q[i], q[j]) <=> Bigger(q[i], q[j])
    BY <1>6, <2>1, Zenon
  <2>3. QED
    BY <2>2, Zenon DEF ByKeys
<1>9. /\ \E q \in [1..Cardinality(C) -> C] : ByKeys(q, a, b, b)
      /\ \A q \in [1..Cardinality(C) -> C] : ByKeys(q, a, b, b) => Enumerates(q, C)
  BY <1>2, <1>4, <1>5, SortedByKeys
<1> HIDE DEF Right
<1>10. bySize \in [1..Cardinality(C) -> C] /\ Right(bySize)
  BY <1>8, <1>9
<1> HIDE DEF bySize
<1>11. Enumerates(bySize, C)
  BY <1>8, <1>9, <1>10
<1>12. bySize \in Seq(Groups) /\ Weighs(bySize, Cardinality(P))
  BY <1>11, CellsWeigh DEF C
<1>13. Merge(C, z) \in Seq(Groups) /\ Weighs(Merge(C, z), Cardinality(P))
  BY <1>0, <1>12, MergeKeeps
<1>14. QED
  BY <1>13, TotalIs DEF C

\* Every count of a filter is that of its pins.
LEMMA CountsRight ==
  ASSUME CatTypeOK, NEW f \in Filters
  PROVE  CountsAgree(f)
<1> DEFINE n == Cardinality(Pins(cat, f, now))
           S == Shown(cat, f, now)
<1>1. S \in SUBSET Occurrences /\ Unique(S) /\ NoTime \in Int
  BY DEF Shown, CatTypeOK, Unique, NoTime
<1>2. n = Cardinality(Evs(S))
  BY PinsPerEvent
<1>3. Points(cat, f, now) = OnePer(S, NoTime)
  BY DEF Points, OnePer, First
<1>4. OnePer(S, NoTime) \in SUBSET Occurrences
  BY <1>1, OnePerEvent
<1>5. IsFiniteSet(OnePer(S, NoTime)) /\ Cardinality(OnePer(S, NoTime)) = n
  BY <1>1, <1>2, OnePerCounted
<1> HIDE DEF n, S
<1>6. ASSUME NEW z \in 0..MaxZoom
      PROVE  MapEvents(cat, f, now, z).total = n
  <2>1. CASE z < MaxZoom
    <3>1. ClusterTotal(Merge(Cells(Points(cat, f, now), z), z)) = n
      BY <1>3, <1>4, <1>5, ClustersWhole
    <3>2. QED
      BY <2>1, <3>1 DEF MapEvents, Clusters
  <2>2. CASE ~(z < MaxZoom)
    BY <2>2, FilterKinds DEF MapEvents, n
  <2>3. QED
    BY <2>1, <2>2
<1>7. MapThenSumSet(LAMBDA k : CategoryCounts(cat, f, now)[k], Categories) = n
  BY <1>2, CategoriesSum DEF S
<1>8. /\ Len(Listing(cat, f, now, "date", 0)) >= n
      /\ f.least = 0 => Len(Listing(cat, f, now, "date", 0)) = n
  <2> DEFINE all == Pins(cat, AnyPrice(f), now)
             T == Shown(cat, AnyPrice(f), now)
  <2>1. Len(Listing(cat, f, now, "date", 0)) = Cardinality(all)
    BY ListingWhole DEF Enumerates
  <2>2. Cardinality(all) = Cardinality(Evs(T)) /\ IsFiniteSet(Evs(T)) /\ Cardinality(Evs(T)) \in Nat
    BY PinsPerEvent, FS_CardinalityType
  <2>3. f = [Everything EXCEPT !.least = f.least] \/ f.least = 0
    BY DEF Filters, Everything
  <2>4. CASE f.least = 0
    <3>1. AnyPrice(f) = f
      BY <2>4 DEF AnyPrice, Filters, Everything
    <3>2. n \in Nat
      BY <2>2, <3>1 DEF n
    <3> QED BY <2>1, <2>4, <3>1, <3>2 DEF n
  <2>5. CASE f.least # 0
    <3>1. AnyPrice(f) = Everything
      BY <2>3, <2>5 DEF AnyPrice, Everything
    <3>2. \A e \in Events : Everything.least <= Price[e]
      BY CatalogueAssumption DEF CatalogueAssumption, Everything
    <3>3. S \subseteq T
      <4>1. \A o \in cat.occs : Kept(o, f, now) => Kept(o, Everything, now)
        BY <2>3, <2>5 DEF Kept, Everything
      <4>2. \A o \in cat.occs : InRegion(o, f) => InRegion(o, Everything)
        BY <2>3, <2>5 DEF InRegion, Everything
      <4>3. \A o \in cat.occs : Priced(o, Everything)
        BY <3>2 DEF Priced, CatTypeOK, Occurrences
      <4>4. f.box = Everything.box
        BY FilterKinds
      <4> QED BY <3>1, <4>1, <4>2, <4>3, <4>4 DEF S, Shown
    <3>4. Evs(S) \subseteq Evs(T)
      BY <3>3 DEF Evs
    <3>5. Cardinality(Evs(S)) <= Cardinality(Evs(T)) /\ Cardinality(Evs(S)) \in Nat
      <4> HIDE DEF T
      <4> QED BY <3>4, <2>2, FS_Subset, FS_CardinalityType
    <3> QED BY <1>2, <2>1, <2>2, <2>5, <3>5
  <2> QED BY <2>4, <2>5
<1>9. QED
  BY <1>6, <1>7, <1>8 DEF CountsAgree, n

\* What the queries say of one another in one state of the catalogue.
LEMMA QueriesSound == CatTypeOK => QueriesAgree
  BY CountsRight, PinsCounted DEF QueriesAgree

-----------------------------------------------------------------------------
(* What the feed is cut into.                                              *)

\* What the feed is cut from: entries of different events at different places of the pool.
Entries == [at : Nat, ev : Events, o : Occurrences, ds : Int, de : Int, live : BOOLEAN,
            free : BOOLEAN, views : Nat, dist : Int, score : Int]
Pooled(s) ==
  /\ s \in SUBSET Entries /\ IsFiniteSet(s)
  /\ \A x, y \in s : x.at = y.at \/ x.ev = y.ev => x = y

\* So is a part of them.
LEMMA PartPooled ==
  ASSUME NEW s, Pooled(s), NEW T \in SUBSET s
  PROVE  Pooled(T)
  BY FS_Subset DEF Pooled

\* A sort leaves what it sorts.
LEMMA ArrangedWhole ==
  ASSUME NEW s, Pooled(s), NEW key, \A x \in s : key[x] \in Int
  PROVE  Enumerates(Arranged(s, key), s)
<1> DEFINE a == [x \in s |-> key[x]]
           b == [x \in s |-> 0]
           c == [x \in s |-> x.at]
           Earlier(x, y) == key[x] < key[y] \/ (key[x] = key[y] /\ x.at < y.at)
<1>1. IsFiniteSet(s) /\ Cardinality(s) \in Nat
  BY FS_CardinalityType DEF Pooled
<1>2. \A x \in s : x.at \in Int
  BY DEF Pooled, Entries
<1>3. a \in [s -> Int] /\ b \in [s -> Int] /\ c \in [s -> Int]
  BY <1>2
<1>4. \A x, y \in s : c[x] = c[y] => x = y
  BY DEF Pooled
<1>5. \A x, y \in s : Precedes(a, b, c, x, y) <=> Earlier(x, y)
  BY DEF Precedes
<1> HIDE DEF a, b, c, Earlier
<1>6. ASSUME NEW t \in [1..Cardinality(s) -> s]
      PROVE  ByKeys(t, a, b, c) <=> \A j \in DOMAIN t : \A i \in 1..(j - 1) : Earlier(t[i], t[j])
  <2>1. ASSUME NEW j \in DOMAIN t, NEW i \in 1..(j - 1)
        PROVE  t[i] \in s /\ t[j] \in s
    BY <1>1
  <2>2. ASSUME NEW j \in DOMAIN t, NEW i \in 1..(j - 1)
        PROVE  Precedes(a, b, c, t[i], t[j]) <=> Earlier(t[i], t[j])
    BY <1>5, <2>1, Zenon
  <2>3. QED
    BY <2>2, Zenon DEF ByKeys
<1>7. /\ \E t \in [1..Cardinality(s) -> s] : ByKeys(t, a, b, c)
      /\ \A t \in [1..Cardinality(s) -> s] : ByKeys(t, a, b, c) => Enumerates(t, s)
  BY <1>1, <1>3, <1>4, SortedByKeys
<1>8. /\ Arranged(s, key) \in [1..Cardinality(s) -> s]
      /\ ByKeys(Arranged(s, key), a, b, c)
  BY <1>6, <1>7 DEF Arranged, Sorted, Earlier
<1>9. QED
  BY <1>7, <1>8

\* And so does the order that the pages of a collection are cut from.
LEMMA CanonicalWhole ==
  ASSUME NEW s, Pooled(s)
  PROVE  Enumerates(Canonical(s), s)
<1> DEFINE a == [x \in s |-> -x.score]
           b == [x \in s |-> 0]
           c == [x \in s |-> x.ev]
           Earlier(x, y) == x.score > y.score \/ (x.score = y.score /\ x.ev < y.ev)
<1>1. IsFiniteSet(s) /\ Cardinality(s) \in Nat
  BY FS_CardinalityType DEF Pooled
<1>2. \A x \in s : x.ev \in Int /\ x.score \in Int
  BY CatalogueAssumption DEF Pooled, Entries, CatalogueAssumption
<1>3. a \in [s -> Int] /\ b \in [s -> Int] /\ c \in [s -> Int]
  BY <1>2
<1>4. \A x, y \in s : c[x] = c[y] => x = y
  BY DEF Pooled
<1>5. \A x, y \in s : Precedes(a, b, c, x, y) <=> Earlier(x, y)
  BY <1>2 DEF Precedes
<1> HIDE DEF a, b, c, Earlier
<1>6. ASSUME NEW t \in [1..Cardinality(s) -> s]
      PROVE  ByKeys(t, a, b, c) <=> \A j \in DOMAIN t : \A i \in 1..(j - 1) : Earlier(t[i], t[j])
  <2>1. ASSUME NEW j \in DOMAIN t, NEW i \in 1..(j - 1)
        PROVE  t[i] \in s /\ t[j] \in s
    BY <1>1
  <2>2. ASSUME NEW j \in DOMAIN t, NEW i \in 1..(j - 1)
        PROVE  Precedes(a, b, c, t[i], t[j]) <=> Earlier(t[i], t[j])
    BY <1>5, <2>1, Zenon
  <2>3. QED
    BY <2>2, Zenon DEF ByKeys
<1>7. /\ \E t \in [1..Cardinality(s) -> s] : ByKeys(t, a, b, c)
      /\ \A t \in [1..Cardinality(s) -> s] : ByKeys(t, a, b, c) => Enumerates(t, s)
  BY <1>1, <1>3, <1>4, SortedByKeys
<1>8. /\ Canonical(s) \in [1..Cardinality(s) -> s]
      /\ ByKeys(Canonical(s), a, b, c)
  BY <1>6, <1>7 DEF Canonical, Sorted, Earlier
<1>9. QED
  BY <1>7, <1>8

\* The first page of a sequence.
LEMMA FirstPage ==
  ASSUME NEW S, NEW s \in Seq(S), NEW n \in Nat
  PROVE  /\ Page(s, 0, n) \in Seq(S) /\ ToSet(Page(s, 0, n)) \subseteq ToSet(s)
         /\ Len(s) <= n => Page(s, 0, n) = s
<1> DEFINE e == IF 0 + n < Len(s) THEN 0 + n ELSE Len(s)
<1>1. e \in Nat /\ e <= Len(s) /\ Len(s) \in Nat /\ (Len(s) <= n => e = Len(s))
  OBVIOUS
<1>2. Page(s, 0, n) = SubSeq(s, 1, e)
  BY DEF Page
<1> HIDE DEF e
<1>3. /\ SubSeq(s, 1, e) \in Seq(S) /\ Len(SubSeq(s, 1, e)) = e
      /\ \A i \in 1..e : SubSeq(s, 1, e)[i] = s[i]
  BY <1>1
<1>4. ToSet(SubSeq(s, 1, e)) \subseteq ToSet(s)
  BY <1>1, <1>3 DEF ToSet
<1>5. ASSUME Len(s) <= n
      PROVE  SubSeq(s, 1, e) = s
  BY <1>1, <1>3, <1>5
<1>6. QED
  BY <1>2, <1>3, <1>4, <1>5

\* Whatever every step of a fold keeps holds in the end.
LEMMA FoldKeeps ==
  ASSUME NEW D, IsFiniteSet(D), NEW X, NEW G, NEW pick, \A d \in SUBSET D : d # {} => pick[d] \in d,
         G[{}] \in X, \A d \in SUBSET D : d # {} /\ G[d \ {pick[d]}] \in X => G[d] \in X
  PROVE  G[D] \in X
<1> DEFINE Bad == {n \in Nat : \E d \in SUBSET D : Cardinality(d) = n /\ G[d] \notin X}
<1>1. \A d \in SUBSET D : IsFiniteSet(d) /\ Cardinality(d) \in Nat
  BY FS_Subset, FS_CardinalityType
<1>2. Bad = {}
  <2> SUFFICES ASSUME Bad # {} PROVE FALSE
    OBVIOUS
  <2>1. Bad \in SUBSET Nat
    OBVIOUS
  <2>2. PICK m \in Bad : \A n \in Bad : m <= n
    <3> HIDE DEF Bad
    <3>1. QED
      BY <2>1, Least
  <2>3. PICK d \in SUBSET D : Cardinality(d) = m /\ G[d] \notin X
    OBVIOUS
  <2>4. d # {}
    BY <2>3
  <2>5. PICK x \in d : x = pick[d]
    BY <2>4
  <2>6. Cardinality(d \ {x}) = m - 1 /\ d \ {x} \in SUBSET D /\ m \in Nat
    BY <1>1, <2>1, <2>3, FS_RemoveElement
  <2>7. Cardinality(d \ {x}) \notin Bad
    <3> HIDE DEF Bad
    <3>1. PICK k : k = Cardinality(d \ {x})
      OBVIOUS
    <3>2. k = m - 1 /\ m \in Nat
      BY <2>6, <3>1
    <3>3. ~(m <= k)
      BY <3>2
    <3>4. QED
      BY <2>2, <3>1, <3>3
  <2>8. G[d \ {x}] \in X
    BY <1>1, <2>6, <2>7
  <2>9. QED
    BY <2>3, <2>4, <2>5, <2>8
<1>3. QED
  BY <1>1, <1>2

\* The varied pick, after each entry.
Picking(s) == CHOOSE g : g = [d \in SUBSET DOMAIN s |-> IF d = {} THEN <<>>
                                ELSE IF Fits(g[d \ {Max(d)}], s[Max(d)])
                                     THEN Append(g[d \ {Max(d)}], s[Max(d)]) ELSE g[d \ {Max(d)}]]

\* A varied pick is of what it picks from.
LEMMA DiversePicks ==
  ASSUME NEW S, NEW s \in Seq(S)
  PROVE  Diverse(s) \in Seq(S)
<1> DEFINE D == DOMAIN s
           X == Seq(S)
           pick == [d \in SUBSET D |-> Max(d)]
           next(out, x) == IF Fits(out, x) THEN Append(out, x) ELSE out
           step == [i \in D |-> [out \in X |-> next(out, s[i])]]
           Run(g) == [d \in SUBSET D |-> IF d = {} THEN <<>> ELSE next(g[d \ {Max(d)}], s[Max(d)])]
<1>0. D = 1..Len(s) /\ Len(s) \in Nat
  OBVIOUS
<1>1. IsFiniteSet(D)
  BY <1>0, FS_Interval
<1>2. ASSUME NEW i \in D, NEW out \in X
      PROVE  next(out, s[i]) \in X
  <2>1. s[i] \in S
    OBVIOUS
  <2>2. QED
    BY <2>1
<1>3. step \in [D -> [X -> X]]
  <2> HIDE DEF D, X, next
  <2>1. QED
    BY <1>2
<1>4. \A d \in SUBSET D : pick[d] = Max(d)
  OBVIOUS
<1>5. \A d \in SUBSET D : d # {} => Max(d) \in d
  BY <1>0, Greatest
<1>6. \A d \in SUBSET D : d # {} => pick[d] \in d
  <2> HIDE DEF D, pick
  <2>1. QED
    BY <1>4, <1>5
<1>7. <<>> \in X
  OBVIOUS
<1>8. \A g : Run(g) = [d \in SUBSET DOMAIN s |-> IF d = {} THEN <<>>
                                ELSE IF Fits(g[d \ {Max(d)}], s[Max(d)])
                                     THEN Append(g[d \ {Max(d)}], s[Max(d)]) ELSE g[d \ {Max(d)}]]
  OBVIOUS
<1> HIDE DEF D, pick, X, next
<1>9. PICK g : Accumulates(g, D, X, <<>>, step, pick)
  <2> HIDE DEF step
  <2>1. QED
    BY <1>1, <1>3, <1>6, <1>7, FoldExists
<1>10. \A d \in SUBSET D : g[d] = Run(g)[d]
  <2> SUFFICES ASSUME NEW d \in SUBSET D, d # {} PROVE g[d] = next(g[d \ {pick[d]}], s[pick[d]])
    BY <1>4, <1>9 DEF Accumulates
  <2>1. PICK x \in D, t \in X : x = pick[d] /\ t = g[d \ {pick[d]}]
    BY <1>6, <1>9 DEF Accumulates
  <2>2. g[d] = step[x][t]
    BY <1>9, <2>1 DEF Accumulates
  <2>3. QED
    BY <2>1, <2>2
<1>11. g = Run(g)
  BY <1>9, <1>10 DEF Accumulates
<1> DEFINE G == Picking(s)
<1>12. G = Run(G)
  <2> HIDE DEF Run
  <2>1. \E f : f = Run(f)
    BY <1>11
  <2>2. G = CHOOSE f : f = Run(f)
    BY <1>8 DEF Picking
  <2>3. QED
    BY <2>1, <2>2
<1> HIDE DEF G
<1>13. G[{}] \in X
  BY <1>7, <1>12
<1>14. ASSUME NEW d \in SUBSET D, d # {}, G[d \ {pick[d]}] \in X
       PROVE  G[d] \in X
  <2>1. G[d] = next(G[d \ {pick[d]}], s[pick[d]])
    BY <1>4, <1>12, <1>14
  <2>2. pick[d] \in D
    BY <1>6, <1>14
  <2>3. QED
    BY <1>2, <1>14, <2>1, <2>2
<1>15. G[D] \in X
  <2> HIDE DEF step, Run
  <2>1. QED
    BY <1>1, <1>6, <1>13, <1>14, FoldKeeps
<1>16. Diverse(s) = G[D]
  BY DEF Diverse, FoldLeft, MapThenFoldSet, Picking, G, D
<1>17. QED
  BY <1>15, <1>16 DEF X

\* What a rail may ask for, and what the rails built so far may be.
Asks(w, s) == w.entries \in SUBSET s /\ (\A x \in s : w.by[x] \in Int) /\ (w.fresh \/ w.key = "near")
Built(s, K) == [rails : Seq([key : K, items : Seq(s)]), seen : SUBSET Events]
Disjoint(rails) ==
  \A i, j \in DOMAIN rails : i < j /\ rails[j].key # "near" => RailEvs(rails[i]) \cap RailEvs(rails[j]) = {}
Separate(out) == Disjoint(out.rails) /\ \A i \in DOMAIN out.rails : RailEvs(out.rails[i]) \subseteq out.seen

\* A rail shows entries, and but for the nearest none that is seen.
LEMMA RailShows ==
  ASSUME NEW s, Pooled(s), NEW w, Asks(w, s), NEW seen
  PROVE  LET r == RailOf(w, seen)
         IN /\ r = [key |-> w.key, items |-> r.items] /\ r.items \in Seq(s)
            /\ RailEvs(r) \in SUBSET Events
            /\ w.key # "near" => RailEvs(r) \cap seen = {}
<1> DEFINE left == IF w.fresh THEN {x \in w.entries : x.ev \notin seen} ELSE w.entries
           all == Arranged(left, w.by)
           some == IF w.diverse THEN Diverse(all) ELSE all
           items == Page(some, 0, PerRail)
           r == RailOf(w, seen)
<1>1. r = [key |-> w.key, items |-> items]
  BY DEF RailOf, Rail
<1>2. left \in SUBSET s /\ Pooled(left)
  <2>1. left \in SUBSET s
    BY DEF Asks
  <2> HIDE DEF left
  <2>2. QED
    BY <2>1, PartPooled
<1>3. w.key # "near" => \A x \in left : x.ev \notin seen
  BY DEF Asks
<1> HIDE DEF left
<1>4. all \in Seq(left)
  BY <1>2, ArrangedWhole DEF Asks, Enumerates
<1> HIDE DEF all
<1>5. some \in Seq(left)
  <2>1. Diverse(all) \in Seq(left)
    BY <1>4, DiversePicks
  <2>2. QED
    BY <1>4, <2>1
<1> HIDE DEF some
<1>6. items \in Seq(left)
  BY <1>5, FirstPage, FeedAssumption DEF FeedAssumption
<1> HIDE DEF items, r
<1>7. ToSet(items) \subseteq left
  BY <1>6 DEF ToSet
<1>8. RailEvs(r) = {x.ev : x \in ToSet(items)}
  BY <1>1 DEF RailEvs
<1>9. \A x \in left : x.ev \in Events
  BY <1>2 DEF Pooled, Entries
<1>10. items \in Seq(s)
  BY <1>2, <1>6
<1>11. QED
  BY <1>1, <1>3, <1>7, <1>8, <1>9, <1>10 DEF r

\* One rail more overlaps none of those before it, but for the nearest.
LEMMA AddKeeps ==
  ASSUME NEW s, Pooled(s), NEW K, NEW w, Asks(w, s), w.key \in K,
         NEW out \in Built(s, K), Separate(out)
  PROVE  Add(out, w) \in Built(s, K) /\ Separate(Add(out, w))
<1>1. PICK rail : rail = RailOf(w, out.seen)
  OBVIOUS
<1>2. /\ rail = [key |-> w.key, items |-> rail.items] /\ rail.items \in Seq(s)
      /\ RailEvs(rail) \in SUBSET Events
      /\ w.key # "near" => RailEvs(rail) \cap out.seen = {}
  BY <1>1, RailShows
<1>3. rail \in [key : K, items : Seq(s)] /\ rail.key = w.key
  BY <1>2
<1>4. PICK rails, seen : rails = out.rails /\ seen = out.seen /\ rails \in Seq([key : K, items : Seq(s)]) /\ seen \in SUBSET Events
  BY DEF Built
<1>5. CASE Add(out, w) = out
  BY <1>5
<1>6. CASE Add(out, w) = [rails |-> Append(rails, rail), seen |-> seen \cup RailEvs(rail)]
  <2>1. PICK n \in Nat : n = Len(rails) /\ DOMAIN rails = 1..n
    BY <1>4
  <2>2. PICK more : more = Append(rails, rail)
    OBVIOUS
  <2>3. /\ more \in Seq([key : K, items : Seq(s)]) /\ DOMAIN more = 1..(n + 1)
        /\ more[n + 1] = rail /\ \A i \in 1..n : more[i] = rails[i]
    BY <1>3, <1>4, <2>1, <2>2
  <2>4. Add(out, w) \in Built(s, K)
    BY <1>2, <1>4, <1>6, <2>2, <2>3 DEF Built
  <2>5. \A i \in 1..n : RailEvs(rails[i]) \subseteq seen
    BY <1>4, <2>1 DEF Separate
  <2>6. \A i, j \in 1..n : i < j /\ rails[j].key # "near" => RailEvs(rails[i]) \cap RailEvs(rails[j]) = {}
    BY <1>4, <2>1 DEF Separate, Disjoint
  <2>7. \A i \in 1..(n + 1) : RailEvs(more[i]) \subseteq seen \cup RailEvs(rail)
    <3> SUFFICES ASSUME NEW i \in 1..(n + 1) PROVE RailEvs(more[i]) \subseteq seen \cup RailEvs(rail)
      OBVIOUS
    <3>1. i \in 1..n \/ i = n + 1
      OBVIOUS
    <3>2. QED
      BY <2>3, <2>5, <3>1
  <2>8. ASSUME NEW i \in 1..(n + 1), NEW j \in 1..(n + 1), i < j, more[j].key # "near"
        PROVE  RailEvs(more[i]) \cap RailEvs(more[j]) = {}
    <3>1. i \in 1..n /\ more[i] = rails[i]
      BY <2>3, <2>8
    <3>2. CASE j \in 1..n
      BY <2>3, <2>6, <2>8, <3>1, <3>2
    <3>3. CASE j = n + 1
      <4>1. more[j] = rail /\ w.key # "near"
        BY <1>3, <2>3, <2>8, <3>3
      <4>2. QED
        BY <1>2, <1>4, <2>5, <3>1, <4>1
    <3>4. QED
      BY <3>2, <3>3
  <2>9. Disjoint(more)
    BY <2>3, <2>8 DEF Disjoint
  <2>10. QED
    BY <1>6, <2>2, <2>3, <2>4, <2>7, <2>9 DEF Separate
<1>7. Add(out, w) = out \/ Add(out, w) = [rails |-> Append(rails, rail), seen |-> seen \cup RailEvs(rail)]
  BY <1>1, <1>4 DEF Add
<1>8. QED
  BY <1>5, <1>6, <1>7

\* The rails, after each that is wanted.
Nothing == [rails |-> <<>>, seen |-> {}]
Building(ws) == CHOOSE g : g = [d \in SUBSET DOMAIN ws |-> IF d = {} THEN Nothing
                                  ELSE Add(g[d \ {Max(d)}], ws[Max(d)])]

\* No rail repeats an event of an earlier one, but for the nearest.
LEMMA RailsDisjoint ==
  ASSUME NEW s, Pooled(s), NEW u, NEW today, NEW ws, ws = Wanted(s, u, today), NEW W, ws \in Seq(W),
         \A w \in W : Asks(w, s)
  PROVE  Disjoint(Rails(s, u, today))
<1> DEFINE D == DOMAIN ws
           K == {w.key : w \in W}
           X == {out \in Built(s, K) : Separate(out)}
           pick == [d \in SUBSET D |-> Max(d)]
           step == [i \in D |-> [out \in X |-> Add(out, ws[i])]]
           Run(g) == [d \in SUBSET D |-> IF d = {} THEN Nothing ELSE Add(g[d \ {Max(d)}], ws[Max(d)])]
<1>0. D = 1..Len(ws) /\ Len(ws) \in Nat
  OBVIOUS
<1>1. IsFiniteSet(D)
  BY <1>0, FS_Interval
<1>2. ASSUME NEW i \in D, NEW out \in X
      PROVE  Add(out, ws[i]) \in X
  <2>1. ws[i] \in W /\ Asks(ws[i], s) /\ ws[i].key \in K
    OBVIOUS
  <2>2. out \in Built(s, K) /\ Separate(out)
    OBVIOUS
  <2> HIDE DEF D, K
  <2>3. QED
    BY <2>1, <2>2, AddKeeps
<1>3. step \in [D -> [X -> X]]
  <2> HIDE DEF D, X
  <2>1. QED
    BY <1>2
<1>4. \A d \in SUBSET D : pick[d] = Max(d)
  OBVIOUS
<1>5. \A d \in SUBSET D : d # {} => Max(d) \in d
  BY <1>0, Greatest
<1>6. \A d \in SUBSET D : d # {} => pick[d] \in d
  <2> HIDE DEF D, pick
  <2>1. QED
    BY <1>4, <1>5
<1>7. Nothing \in X
  <2>1. Nothing \in Built(s, K) /\ Nothing.rails = <<>> /\ DOMAIN Nothing.rails = {}
    BY DEF Nothing, Built
  <2>2. QED
    BY <2>1 DEF Separate, Disjoint
<1>8. \A g : Run(g) = [d \in SUBSET DOMAIN ws |-> IF d = {} THEN Nothing ELSE Add(g[d \ {Max(d)}], ws[Max(d)])]
  OBVIOUS
<1> HIDE DEF D, pick, X
<1>9. PICK g : Accumulates(g, D, X, Nothing, step, pick)
  <2> HIDE DEF step
  <2>1. QED
    BY <1>1, <1>3, <1>6, <1>7, FoldExists
<1>10. \A d \in SUBSET D : g[d] = Run(g)[d]
  <2> SUFFICES ASSUME NEW d \in SUBSET D, d # {} PROVE g[d] = Add(g[d \ {pick[d]}], ws[pick[d]])
    BY <1>4, <1>9 DEF Accumulates
  <2>1. PICK x \in D, t \in X : x = pick[d] /\ t = g[d \ {pick[d]}]
    BY <1>6, <1>9 DEF Accumulates
  <2>2. g[d] = step[x][t]
    BY <1>9, <2>1 DEF Accumulates
  <2>3. QED
    BY <2>1, <2>2
<1>11. g = Run(g)
  BY <1>9, <1>10 DEF Accumulates
<1> DEFINE G == Building(ws)
<1>12. G = Run(G)
  <2> HIDE DEF Run
  <2>1. \E f : f = Run(f)
    BY <1>11
  <2>2. G = CHOOSE f : f = Run(f)
    BY <1>8 DEF Building
  <2>3. QED
    BY <2>1, <2>2
<1> HIDE DEF G
<1>13. G[{}] \in X
  BY <1>7, <1>12
<1>14. ASSUME NEW d \in SUBSET D, d # {}, G[d \ {pick[d]}] \in X
       PROVE  G[d] \in X
  <2>1. G[d] = Add(G[d \ {pick[d]}], ws[pick[d]])
    BY <1>4, <1>12, <1>14
  <2>2. pick[d] \in D
    BY <1>6, <1>14
  <2>3. QED
    BY <1>2, <1>14, <2>1, <2>2
<1>15. G[D] \in X
  <2> HIDE DEF step, Run
  <2>1. QED
    BY <1>1, <1>6, <1>13, <1>14, FoldKeeps
<1>16. Rails(s, u, today) = G[D].rails
  BY DEF Rails, FoldLeft, MapThenFoldSet, Building, Nothing, G, D
<1>17. Separate(G[D])
  BY <1>15 DEF X
<1>18. QED
  BY <1>16, <1>17 DEF Separate

\* Of a user, where they are and what they like.
Known(u) == u.here \in Int /\ u.aff \in [Categories -> Nat]

\* The first entry of a category.
LEMMA FirstIs ==
  ASSUME NEW s, Pooled(s), NEW k, Of(s, k) # {}
  PROVE  \E x \in Of(s, k) : FirstOf(s, k) = x.at
<1> DEFINE A == {x.at : x \in Of(s, k)}
<1>1. A \in SUBSET Nat /\ A # {}
  BY DEF Of, Pooled, Entries
<1>2. PICK m \in A : \A n \in A : m <= n
  <2> HIDE DEF A
  <2>1. QED
    BY <1>1, Least
<1>3. \A x \in Of(s, k) : m <= x.at
  BY <1>2
<1>4. FirstOf(s, k) \in A
  BY <1>2, <1>3 DEF FirstOf
<1>5. QED
  BY <1>4

\* The categories in a row.
LEMMA BusiestWhole ==
  ASSUME NEW s, Pooled(s), NEW u, Known(u)
  PROVE  Busiest(s, u) \in Seq(Categories)
<1> DEFINE S == {k \in Categories \ {"other"} : Of(s, k) # {}}
           a == [k \in S |-> -u.aff[k]]
           b == [k \in S |-> -Cardinality(Of(s, k))]
           c == [k \in S |-> FirstOf(s, k)]
           Earlier(k, l) == \/ u.aff[k] > u.aff[l]
                            \/ /\ u.aff[k] = u.aff[l]
                               /\ \/ Cardinality(Of(s, k)) > Cardinality(Of(s, l))
                                  \/ Cardinality(Of(s, k)) = Cardinality(Of(s, l)) /\ FirstOf(s, k) < FirstOf(s, l)
<1>1. IsFiniteSet(S) /\ Cardinality(S) \in Nat
  <2>1. S \in SUBSET Categories
    OBVIOUS
  <2> HIDE DEF S
  <2>2. QED
    BY <2>1, CategoriesFinite, FS_Subset, FS_CardinalityType
<1>2. ASSUME NEW k \in S
      PROVE  u.aff[k] \in Int /\ Cardinality(Of(s, k)) \in Int /\ FirstOf(s, k) \in Int
  <2>1. Of(s, k) \in SUBSET s /\ Of(s, k) # {}
    BY DEF Of
  <2>2. IsFiniteSet(Of(s, k)) /\ Cardinality(Of(s, k)) \in Nat
    BY <2>1, FS_Subset, FS_CardinalityType DEF Pooled
  <2>3. FirstOf(s, k) \in Nat
    BY <2>1, FirstIs DEF Pooled, Entries
  <2>4. u.aff[k] \in Nat
    BY DEF Known
  <2>5. QED
    BY <2>2, <2>3, <2>4
<1>3. a \in [S -> Int] /\ b \in [S -> Int] /\ c \in [S -> Int]
  <2> HIDE DEF S
  <2>1. \A k \in S : -u.aff[k] \in Int /\ -Cardinality(Of(s, k)) \in Int
    <3> SUFFICES ASSUME NEW k \in S PROVE -u.aff[k] \in Int /\ -Cardinality(Of(s, k)) \in Int
      OBVIOUS
    <3>1. PICK m \in Int, n \in Int : m = u.aff[k] /\ n = Cardinality(Of(s, k))
      BY <1>2
    <3>2. QED
      BY <3>1
  <2>2. QED
    BY <1>2, <2>1
<1>4. \A k, l \in S : c[k] = c[l] => k = l
  <2> SUFFICES ASSUME NEW k \in S, NEW l \in S, FirstOf(s, k) = FirstOf(s, l) PROVE k = l
    OBVIOUS
  <2>1. PICK x \in Of(s, k), y \in Of(s, l) : x.at = y.at
    BY FirstIs
  <2>2. x = y
    BY <2>1 DEF Of, Pooled
  <2>3. QED
    BY <2>2 DEF Of
<1>5. ASSUME NEW k \in S, NEW l \in S
      PROVE  Precedes(a, b, c, k, l) <=> Earlier(k, l)
  <2>1. PICK m \in Int, n \in Int, p \in Int, q \in Int :
          m = u.aff[k] /\ n = u.aff[l] /\ p = Cardinality(Of(s, k)) /\ q = Cardinality(Of(s, l))
    <3> HIDE DEF S
    <3>1. QED
      BY <1>2
  <2>2. a[k] = -m /\ a[l] = -n /\ b[k] = -p /\ b[l] = -q /\ c[k] = FirstOf(s, k) /\ c[l] = FirstOf(s, l)
    BY <2>1
  <2> HIDE DEF S, a, b, c
  <2>3. QED
    BY <2>1, <2>2 DEF Precedes
<1> HIDE DEF a, b, c, Earlier, S
<1>6. ASSUME NEW t \in [1..Cardinality(S) -> S]
      PROVE  ByKeys(t, a, b, c) <=> \A j \in DOMAIN t : \A i \in 1..(j - 1) : Earlier(t[i], t[j])
  <2>1. ASSUME NEW j \in DOMAIN t, NEW i \in 1..(j - 1)
        PROVE  t[i] \in S /\ t[j] \in S
    BY <1>1
  <2>2. ASSUME NEW j \in DOMAIN t, NEW i \in 1..(j - 1)
        PROVE  Precedes(a, b, c, t[i], t[j]) <=> Earlier(t[i], t[j])
    BY <1>5, <2>1, Zenon
  <2>3. QED
    BY <2>2, Zenon DEF ByKeys
<1>7. \E t \in [1..Cardinality(S) -> S] : ByKeys(t, a, b, c)
  BY <1>1, <1>3, <1>4, SortedByKeys
<1>8. Busiest(s, u) \in [1..Cardinality(S) -> S]
  BY <1>6, <1>7 DEF Busiest, Sorted, Earlier, S
<1>9. Busiest(s, u) \in Seq(S)
  BY <1>1, <1>8
<1>10. S \subseteq Categories
  BY DEF S
<1>11. QED
  BY <1>9, <1>10

\* The sequences that the wanted rails are put together from.
LEMMA ShortSequences ==
  ASSUME NEW W, NEW a \in W, NEW b \in W, NEW c \in W, NEW d \in W
  PROVE  <<>> \in Seq(W) /\ <<a>> \in Seq(W) /\ <<a, b, c, d>> \in Seq(W)
  OBVIOUS

\* Every rail that is wanted is of the entries, in an order by numbers, and leaves out what
\* is seen, but for the nearest.
LEMMA WantedIs ==
  ASSUME NEW s, Pooled(s), NEW u, Known(u), NEW today
  PROVE  \E W : Wanted(s, u, today) \in Seq(W) /\ \A w \in W : Asks(w, s)
<1> DEFINE byScore == ByScore(s)
           byDist == [x \in s |-> x.dist]
           byViews == [x \in s |-> -x.views]
           W == {w \in [key : {"for_you", "near", "today", "exclusive", "weekend", "popular", "explore"} \cup Categories,
                        entries : SUBSET s, by : {byScore, byDist, byViews}, diverse : BOOLEAN,
                        least : {1, MinRail}, fresh : BOOLEAN] : w.fresh \/ w.key = "near"}
<1>1. \A x \in s : x.score \in Int /\ x.dist \in Int /\ x.views \in Int
  BY DEF Pooled, Entries
<1>2. \A x \in s : byScore[x] \in Int /\ byDist[x] \in Int /\ byViews[x] \in Int
  BY <1>1 DEF ByScore
<1> HIDE DEF byScore, byDist, byViews
<1>3. ASSUME NEW key, NEW entries \in SUBSET s, NEW by, NEW diverse \in BOOLEAN, NEW least, NEW fresh \in BOOLEAN,
             key \in {"for_you", "near", "today", "exclusive", "weekend", "popular", "explore"} \cup Categories,
             by \in {byScore, byDist, byViews}, least \in {1, MinRail}, fresh \/ key = "near"
      PROVE  Want(key, entries, by, diverse, least, fresh) \in W
  BY <1>3 DEF Want
<1>4. \A w \in W : Asks(w, s)
  BY <1>2 DEF Asks
<1> HIDE DEF W
<1> DEFINE best(key, entries, diverse) == Want(key, entries, byScore, diverse, MinRail, TRUE)
           usual == {k \in Categories : u.aff[k] > 0}
           cats == Busiest(s, u)
           days == Weekend(today)
           touches(x) == \/ x.ds \in days
                         \/ (\E d \in days : d <= x.de) /\ (\E d \in days : x.ds <= d)
           p1 == <<Want("for_you", s, byScore, TRUE, 1, TRUE)>>
           p2 == IF u.here = NoTime THEN <<>>
                 ELSE <<Want("near", {x \in s : x.dist <= Near}, byDist, FALSE, MinRail, FALSE)>>
           p3 == <<best("today", {x \in s : x.live \/ (x.ds <= today /\ today <= x.de)}, FALSE),
                   best("exclusive", {x \in s : x.ev \in Exclusive}, TRUE),
                   best("weekend", {x \in s : touches(x)}, FALSE),
                   Want("popular", {x \in s : x.views > 0}, byViews, FALSE, MinRail, TRUE)>>
           p4 == IF usual = {} THEN <<>> ELSE <<best("explore", {x \in s : Cat[x.ev] \notin usual}, TRUE)>>
           p5 == [i \in DOMAIN cats |-> best(cats[i], Of(s, cats[i]), FALSE)]
<1>5. Wanted(s, u, today) = p1 \o p2 \o p3 \o p4 \o p5
  BY DEF Wanted, byScore, byDist, byViews
<1>6. p1 \in Seq(W)
  <2>1. PICK w : w = Want("for_you", s, byScore, TRUE, 1, TRUE)
    OBVIOUS
  <2>2. w \in W
    BY <1>3, <2>1
  <2>3. QED
    BY <2>1, <2>2, ShortSequences
<1>7. p2 \in Seq(W)
  <2>1. PICK e \in SUBSET s : e = {x \in s : x.dist <= Near}
    OBVIOUS
  <2>2. PICK w : w = Want("near", e, byDist, FALSE, MinRail, FALSE)
    OBVIOUS
  <2>3. w \in W
    BY <1>3, <2>2
  <2>4. p2 = <<>> \/ p2 = <<w>>
    BY <2>1, <2>2
  <2> HIDE DEF p2
  <2>5. QED
    BY <2>3, <2>4, ShortSequences
<1>8. p3 \in Seq(W)
  <2>1. PICK e1 \in SUBSET s : e1 = {x \in s : x.live \/ (x.ds <= today /\ today <= x.de)}
    OBVIOUS
  <2>2. PICK e2 \in SUBSET s : e2 = {x \in s : x.ev \in Exclusive}
    OBVIOUS
  <2>3. PICK e3 \in SUBSET s : e3 = {x \in s : touches(x)}
    OBVIOUS
  <2>4. PICK e4 \in SUBSET s : e4 = {x \in s : x.views > 0}
    OBVIOUS
  <2>5. PICK w1, w2, w3, w4 : /\ w1 = Want("today", e1, byScore, FALSE, MinRail, TRUE)
                              /\ w2 = Want("exclusive", e2, byScore, TRUE, MinRail, TRUE)
                              /\ w3 = Want("weekend", e3, byScore, FALSE, MinRail, TRUE)
                              /\ w4 = Want("popular", e4, byViews, FALSE, MinRail, TRUE)
    OBVIOUS
  <2>6. w1 \in W /\ w2 \in W /\ w3 \in W /\ w4 \in W
    BY <1>3, <2>5
  <2>7. p3 = <<w1, w2, w3, w4>>
    BY <2>1, <2>2, <2>3, <2>4, <2>5
  <2> HIDE DEF p3
  <2>8. QED
    BY <2>6, <2>7, ShortSequences
<1>9. p4 \in Seq(W)
  <2>1. PICK e \in SUBSET s : e = {x \in s : Cat[x.ev] \notin usual}
    OBVIOUS
  <2>2. PICK w : w = Want("explore", e, byScore, TRUE, MinRail, TRUE)
    OBVIOUS
  <2>3. w \in W
    BY <1>3, <2>2
  <2>4. p4 = <<>> \/ p4 = <<w>>
    BY <2>1, <2>2
  <2> HIDE DEF p4
  <2>5. QED
    BY <2>3, <2>4, ShortSequences
<1>10. p5 \in Seq(W)
  <2>1. PICK n \in Nat : n = Len(cats) /\ DOMAIN cats = 1..n /\ \A i \in 1..n : cats[i] \in Categories
    <3>1. cats \in Seq(Categories)
      BY BusiestWhole
    <3> HIDE DEF cats
    <3>2. QED
      BY <3>1
  <2> HIDE DEF cats
  <2>2. ASSUME NEW i \in 1..n
        PROVE  best(cats[i], Of(s, cats[i]), FALSE) \in W
    <3>1. PICK k \in Categories, e \in SUBSET s : k = cats[i] /\ e = Of(s, k)
      BY <2>1 DEF Of
    <3>2. Want(k, e, byScore, FALSE, MinRail, TRUE) \in W
      BY <1>3
    <3>3. QED
      BY <3>1, <3>2
  <2>3. \A i \in DOMAIN cats : best(cats[i], Of(s, cats[i]), FALSE) \in W
    BY <2>1, <2>2
  <2> HIDE DEF best
  <2>4. p5 \in [1..n -> W]
    BY <2>1, <2>3
  <2> HIDE DEF p5
  <2>5. QED
    BY <2>4
<1> HIDE DEF p1, p2, p3, p4, p5
<1>11. Wanted(s, u, today) \in Seq(W)
  BY <1>5, <1>6, <1>7, <1>8, <1>9, <1>10
<1>12. QED
  BY <1>4, <1>11

\* Of finitely many numbers one is the greatest.
LEMMA MostExists ==
  ASSUME NEW M \in SUBSET Nat, IsFiniteSet(M), M # {}
  PROVE  \E m \in M : \A n \in M : n <= m
<1> DEFINE a == [x \in M |-> x]
<1>1. a \in [M -> Int] /\ \A x, y \in M : a[x] = a[y] => x = y
  OBVIOUS
<1>2. PICK n \in Nat : n = Cardinality(M)
  BY FS_CardinalityType
<1>3. n # 0
  BY <1>2, FS_EmptySet
<1>4. /\ \E s \in [1..n -> M] : ByKeys(s, a, a, a)
      /\ \A s \in [1..n -> M] : ByKeys(s, a, a, a) => Enumerates(s, M)
  <2> HIDE DEF a
  <2>1. QED
    BY <1>1, <1>2, SortedByKeys
<1>5. PICK s \in [1..n -> M] : ByKeys(s, a, a, a) /\ Enumerates(s, M)
  BY <1>4
<1>6. PICK m \in M : m = s[n]
  <2>1. n \in 1..n
    BY <1>3
  <2>2. s[n] \in M
    BY <2>1
  <2>3. QED
    BY <2>2
<1>7. ASSUME NEW i \in 1..n
      PROVE  s[i] <= m
  <2>1. CASE i = n
    BY <1>6, <2>1
  <2>2. CASE i # n
    <3>1. n \in DOMAIN s /\ i \in 1..(n - 1)
      BY <1>3, <2>2
    <3>2. Precedes(a, a, a, s[i], s[n])
      BY <1>5, <3>1 DEF ByKeys
    <3>3. PICK x \in M, y \in M : x = s[i] /\ y = s[n]
      BY <1>6
    <3>4. Precedes(a, a, a, x, y) /\ y = m
      BY <1>6, <3>2, <3>3
    <3>5. a[x] < a[y]
      BY <3>4 DEF Precedes
    <3>6. x < y
      BY <3>5
    <3>7. QED
      BY <3>3, <3>4, <3>6
  <2>3. QED
    BY <2>1, <2>2
<1>8. ToSet(s) = M /\ DOMAIN s = 1..n
  BY <1>5 DEF Enumerates
<1>9. \A x \in M : \E i \in 1..n : s[i] = x
  BY <1>8 DEF ToSet
<1>10. QED
  BY <1>7, <1>9

\* A catalogue as the requests of the feed find it.
Typed(c) == c.occs \in SUBSET Occurrences /\ Unique(c.occs)

\* The pool has one occurrence of an event.
LEMMA PoolWhole ==
  ASSUME NEW c, Typed(c), NEW t \in Nat
  PROVE  /\ Pool(c, t) \in Seq(Occurrences) /\ IsFiniteSet(ToSet(Pool(c, t)))
         /\ \A i, j \in DOMAIN Pool(c, t) : Pool(c, t)[i].ev = Pool(c, t)[j].ev => i = j
<1> DEFINE rows == OnePer(Shown(c, Everything, t), NoTime)
           when(o) == IF o.from < Midnight(t) THEN Midnight(t) ELSE o.from
           key == [o \in rows |-> when(o)]
           none == [o \in rows |-> 0]
           ev == [o \in rows |-> o.ev]
           Earlier(o, p) == when(o) < when(p) \/ (when(o) = when(p) /\ o.ev < p.ev)
           sorted == Sorted(rows, LAMBDA o, p : when(o) < when(p) \/ (when(o) = when(p) /\ o.ev < p.ev))
<1>1. Shown(c, Everything, t) \in SUBSET Occurrences /\ Unique(Shown(c, Everything, t)) /\ NoTime \in Int
  BY DEF Shown, Typed, Unique, NoTime
<1>2. rows \in SUBSET Occurrences /\ IsFiniteSet(rows) /\ \A o, p \in rows : o.ev = p.ev => o = p
  BY <1>1, OnePerEvent, OnePerCounted
<1>3. Pool(c, t) = Page(sorted, 0, PoolCap)
  BY DEF Pool, OnePer, First
<1>4. Cardinality(rows) \in Nat
  BY <1>2, FS_CardinalityType
<1> HIDE DEF rows
<1>5. Midnight(t) \in Int
  BY CatalogueAssumption DEF CatalogueAssumption, Midnight
<1>6. \A o \in rows : when(o) \in Int /\ o.ev \in Int
  BY <1>2, <1>5, CatalogueAssumption DEF Occurrences, CatalogueAssumption
<1> HIDE DEF when
<1>7. key \in [rows -> Int] /\ none \in [rows -> Int] /\ ev \in [rows -> Int]
  BY <1>6
<1>8. \A o, p \in rows : ev[o] = ev[p] => o = p
  BY <1>2
<1>9. \A o, p \in rows : Precedes(key, none, ev, o, p) <=> Earlier(o, p)
  BY DEF Precedes
<1> HIDE DEF key, none, ev, Earlier
<1>10. ASSUME NEW s \in [1..Cardinality(rows) -> rows]
       PROVE  ByKeys(s, key, none, ev) <=> \A j \in DOMAIN s : \A i \in 1..(j - 1) : Earlier(s[i], s[j])
  <2>1. ASSUME NEW j \in DOMAIN s, NEW i \in 1..(j - 1)
        PROVE  s[i] \in rows /\ s[j] \in rows
    BY <1>4
  <2>2. ASSUME NEW j \in DOMAIN s, NEW i \in 1..(j - 1)
        PROVE  Precedes(key, none, ev, s[i], s[j]) <=> Earlier(s[i], s[j])
    BY <1>9, <2>1, Zenon
  <2>3. QED
    BY <2>2, Zenon DEF ByKeys
<1>11. /\ \E s \in [1..Cardinality(rows) -> rows] : ByKeys(s, key, none, ev)
       /\ \A s \in [1..Cardinality(rows) -> rows] : ByKeys(s, key, none, ev) => Enumerates(s, rows)
  BY <1>2, <1>7, <1>8, SortedByKeys
<1>12. sorted \in [1..Cardinality(rows) -> rows] /\ ByKeys(sorted, key, none, ev)
  BY <1>10, <1>11 DEF Sorted, Earlier
<1> HIDE DEF sorted
<1>13. Enumerates(sorted, rows)
  BY <1>11, <1>12
<1>14. Pool(c, t) \in Seq(rows) /\ IsInjective(Pool(c, t))
  BY <1>3, <1>13, PageIsPart, FeedAssumption DEF Enumerates, FeedAssumption
<1>15. PICK p : p = Pool(c, t)
  OBVIOUS
<1>16. p \in Seq(rows) /\ IsInjective(p)
  BY <1>14, <1>15
<1>17. IsFiniteSet(ToSet(p)) /\ \A i \in DOMAIN p : p[i] \in rows
  BY <1>16, Countable
<1>18. ASSUME NEW i \in DOMAIN p, NEW j \in DOMAIN p, p[i].ev = p[j].ev
       PROVE  i = j
  <2>1. p[i] = p[j]
    BY <1>2, <1>17, <1>18
  <2>2. QED
    BY <1>16, <2>1, Zenon DEF IsInjective
<1>19. p \in Seq(Occurrences)
  BY <1>2, <1>16
<1>20. QED
  BY <1>15, <1>17, <1>18, <1>19

\* A score is a number.
LEMMA EntryType ==
  ASSUME NEW o \in Occurrences, NEW i \in Nat, NEW t \in Nat, NEW v \in [Events -> Nat], NEW most \in Nat
  PROVE  Entry(o, i, t, v, most) \in Entries
<1>1. /\ o.ev \in Events /\ o.from \in Nat /\ o.to \in Nat /\ DayLen \in Nat \ {0}
      /\ Created[o.ev] \in Nat /\ Quality[o.ev] \in Nat /\ v[o.ev] \in Nat
  BY CatalogueAssumption, FeedAssumption DEF Occurrences, CatalogueAssumption, FeedAssumption
<1>2. Day(o.from) \in Int /\ Day(o.to) \in Int /\ Day(t) \in Int
  BY <1>1 DEF Day
<1>3. \A n \in Int : AtLeast0(n) \in Int
  BY DEF AtLeast0
<1>4. Soon(o, t) \in Int
  <2>1. PICK m \in Int, n \in Int : m = Day(o.from) /\ n = Day(t)
    BY <1>2
  <2>2. 100 - (100 * (m - n)) \div 14 \in Int
    OBVIOUS
  <2>3. QED
    BY <1>3, <2>1, <2>2 DEF Soon
<1>5. Pop(o.ev, v, most) \in Int
  <2>1. PICK n \in Nat : n = v[o.ev]
    BY <1>1
  <2>2. most # 0 => (100 * n) \div most \in Int
    OBVIOUS
  <2>3. QED
    BY <2>1, <2>2 DEF Pop
<1>6. Context(Cat[o.ev], t) \in Int
  BY DEF Context
<1>7. Fresh(o.ev, t) \in Int
  <2>1. PICK m \in Int, n \in Int : m = Created[o.ev] /\ n = Day(t)
    BY <1>1, <1>2
  <2>2. 100 - (100 * (n - m)) \div 14 \in Int
    OBVIOUS
  <2>3. QED
    BY <1>3, <2>1, <2>2 DEF Fresh
<1>8. IsLive(o, t) \in BOOLEAN
  BY DEF IsLive, IsOpen
<1>9. PICK a \in Int, b \in Int, d \in Int, e \in Int, f \in Int, g \in Int :
        /\ a = Soon(o, t) /\ b = Pop(o.ev, v, most) /\ d = Context(Cat[o.ev], t)
        /\ e = Quality[o.ev] /\ f = Fresh(o.ev, t) /\ g = (IF Price[o.ev] = Free THEN 100 ELSE 0)
  BY <1>1, <1>4, <1>5, <1>6, <1>7
<1>10. 15 * a + 13 * b + 8 * d + 7 * e + 6 * f + 4 * g \in Int
  OBVIOUS
<1>11. PICK n \in Int : n = 15 * Soon(o, t) + 13 * Pop(o.ev, v, most) + 8 * Context(Cat[o.ev], t)
             + 7 * Quality[o.ev] + 6 * Fresh(o.ev, t) + 4 * (IF Price[o.ev] = Free THEN 100 ELSE 0)
  BY <1>9, <1>10
<1>12. PICK live \in BOOLEAN, free \in BOOLEAN : live = IsLive(o, t) /\ free = (Price[o.ev] = Free)
  BY <1>8
<1>13. Entry(o, i, t, v, most) = [at |-> i, ev |-> o.ev, o |-> o, ds |-> Day(o.from), de |-> Day(o.to),
                                  live |-> live, free |-> free, views |-> v[o.ev], dist |-> NoTime, score |-> n]
  BY <1>11, <1>12 DEF Entry
<1>14. NoTime \in Int
  BY DEF NoTime
<1>15. QED
  BY <1>1, <1>2, <1>13, <1>14 DEF Entries

\* Whatever the catalogue, a base is what a feed can be cut from.
LEMMA BasePooled ==
  ASSUME NEW c, Typed(c), NEW t \in Nat, NEW v \in [Events -> Nat]
  PROVE  Pooled(Base(c, t, v))
<1>1. PICK p : p = Pool(c, t)
  OBVIOUS
<1>2. /\ p \in Seq(Occurrences) /\ IsFiniteSet(ToSet(p))
      /\ \A i, j \in DOMAIN p : p[i].ev = p[j].ev => i = j
  BY <1>1, PoolWhole
<1>3. PICK n \in Nat : n = Len(p) /\ DOMAIN p = 1..n /\ \A i \in 1..n : p[i] \in Occurrences
  BY <1>2
<1> DEFINE M == {0} \cup {v[o.ev] : o \in ToSet(p)}
<1>4. PICK most \in Nat : most = CHOOSE m \in M : \A o \in ToSet(p) : v[o.ev] <= m
  <2> DEFINE T == ToSet(p)
             h == [o \in T |-> v[o.ev]]
             N == {v[o.ev] : o \in T}
  <2>1. \A o \in T : o \in Occurrences
    BY <1>3 DEF ToSet
  <2>2. \A o \in T : v[o.ev] \in Nat
    BY <2>1 DEF Occurrences
  <2>3. N \in SUBSET Nat /\ IsFiniteSet(N)
    <3>1. N \in SUBSET Nat
      BY <2>2
    <3>2. h \in Surjection(T, N)
      <4>1. h \in [T -> N]
        OBVIOUS
      <4>2. \A m \in N : \E o \in T : h[o] = m
        OBVIOUS
      <4> HIDE DEF h, N
      <4>3. QED
        BY <4>1, <4>2, Zenon DEF Surjection
    <3> HIDE DEF h, N
    <3>3. QED
      BY <1>2, <3>1, <3>2, FS_Surjection DEF T
  <2>4. M = N \cup {0}
    OBVIOUS
  <2> HIDE DEF N
  <2>5. IsFiniteSet(N \cup {0}) /\ N \cup {0} \in SUBSET Nat
    BY <2>3, FS_AddElement
  <2>6. \E m \in N \cup {0} : \A k \in N \cup {0} : k <= m
    BY <2>5, MostExists
  <2>7. PICK m \in M : \A k \in M : k <= m
    <3> HIDE DEF M
    <3>1. QED
      BY <2>4, <2>6
  <2>8. \A o \in ToSet(p) : v[o.ev] \in M
    OBVIOUS
  <2>9. M \in SUBSET Nat
    BY <2>4, <2>5
  <2> HIDE DEF M
  <2>10. QED
    BY <2>7, <2>8, <2>9
<1>5. Base(c, t, v) = {Entry(p[i], i, t, v, most) : i \in 1..n}
  BY <1>1, <1>3, <1>4 DEF Base
<1> DEFINE e == [i \in 1..n |-> Entry(p[i], i, t, v, most)]
           B == {Entry(p[i], i, t, v, most) : i \in 1..n}
<1>6. ASSUME NEW i \in 1..n
      PROVE  e[i] \in Entries /\ e[i].at = i /\ e[i].ev = p[i].ev
  <2>1. i \in Nat /\ p[i] \in Occurrences
    BY <1>3
  <2>2. Entry(p[i], i, t, v, most) \in Entries
    BY <2>1, EntryType
  <2>3. Entry(p[i], i, t, v, most).at = i /\ Entry(p[i], i, t, v, most).ev = p[i].ev
    BY DEF Entry
  <2>4. QED
    BY <2>2, <2>3
<1>7. e \in Surjection(1..n, B)
  <2>1. e \in [1..n -> B] /\ \A x \in B : \E i \in 1..n : e[i] = x
    OBVIOUS
  <2> HIDE DEF e, B
  <2>2. QED
    BY <2>1, Zenon DEF Surjection
<1>8. IsFiniteSet(1..n)
  BY FS_Interval
<1>9. \A x \in B : \E i \in 1..n : x = e[i]
  OBVIOUS
<1> HIDE DEF e, B
<1>10. IsFiniteSet(B)
  BY <1>7, <1>8, FS_Surjection
<1>11. B \in SUBSET Entries
  BY <1>6, <1>9
<1>12. ASSUME NEW x \in B, NEW y \in B, x.at = y.at \/ x.ev = y.ev
       PROVE  x = y
  <2>1. PICK i \in 1..n, j \in 1..n : x = e[i] /\ y = e[j]
    BY <1>9
  <2>2. i = j
    BY <1>2, <1>3, <1>6, <1>12, <2>1
  <2>3. QED
    BY <2>1, <2>2
<1>13. QED
  BY <1>5, <1>10, <1>11, <1>12 DEF Pooled, B

\* A user's scores are of the same entries.
LEMMA PersonalPooled ==
  ASSUME NEW s, Pooled(s), NEW u, Known(u)
  PROVE  Pooled(Personalize(s, u))
<1> DEFINE h == [x \in s |-> Personalized(x, u)]
           P == {Personalized(x, u) : x \in s}
<1>1. ASSUME NEW x \in s
      PROVE  h[x] \in Entries /\ h[x].at = x.at /\ h[x].ev = x.ev
  <2>1. x \in Entries
    BY DEF Pooled
  <2>2. /\ x = [at |-> x.at, ev |-> x.ev, o |-> x.o, ds |-> x.ds, de |-> x.de, live |-> x.live, free |-> x.free,
                views |-> x.views, dist |-> x.dist, score |-> x.score]
        /\ x.ev \in Events /\ x.o \in Occurrences /\ x.score \in Int
    BY <2>1 DEF Entries
  <2>3. PICK d \in Int : /\ d = IF u.here = NoTime THEN NoTime ELSE Away(x.o, u.here)
                         /\ d = NoTime \/ d \in Nat
    <3>1. NoTime \in Int
      BY DEF NoTime
    <3>2. Pos[x.o.place] \in Nat /\ u.here \in Int
      BY <2>2, CatalogueAssumption DEF Occurrences, CatalogueAssumption, Known
    <3>3. Away(x.o, u.here) \in Nat
      BY <3>2 DEF Away, Absolute
    <3>4. QED
      BY <3>1, <3>3
  <2>4. PICK near \in Int : near = IF d = NoTime THEN 0 ELSE (20 * 200) \div (2 + d)
    <3>1. d \in Nat => (20 * 200) \div (2 + d) \in Int
      OBVIOUS
    <3>2. QED
      BY <2>3, <3>1
  <2>5. PICK like \in Nat : like = u.aff[Cat[x.ev]]
    BY <2>2 DEF Known, Categories
  <2>6. PICK old \in Int : old = x.score
    BY <2>2
  <2>7. PICK new \in Int : new = old + 30 * like + near
    OBVIOUS
  <2>8. h[x] = [x EXCEPT !.dist = d, !.score = new]
    BY <2>3, <2>4, <2>5, <2>6, <2>7 DEF Personalized
  <2>9. h[x] = [at |-> x.at, ev |-> x.ev, o |-> x.o, ds |-> x.ds, de |-> x.de, live |-> x.live, free |-> x.free,
                views |-> x.views, dist |-> d, score |-> new]
    BY <2>2, <2>8
  <2> HIDE DEF h
  <2>10. QED
    BY <2>1, <2>9 DEF Entries
<1>2. h \in Surjection(s, P)
  <2>1. h \in [s -> P] /\ \A y \in P : \E x \in s : h[x] = y
    OBVIOUS
  <2> HIDE DEF h, P
  <2>2. QED
    BY <2>1, Zenon DEF Surjection
<1>3. \A y \in P : \E x \in s : y = h[x]
  OBVIOUS
<1> HIDE DEF h, P
<1>4. IsFiniteSet(P)
  BY <1>2, FS_Surjection DEF Pooled
<1>5. P \in SUBSET Entries
  BY <1>1, <1>3
<1>6. ASSUME NEW x \in P, NEW y \in P, x.at = y.at \/ x.ev = y.ev
      PROVE  x = y
  <2>1. PICK i \in s, j \in s : x = h[i] /\ y = h[j]
    BY <1>3
  <2>2. i = j
    BY <1>1, <1>6, <2>1 DEF Pooled
  <2>3. QED
    BY <2>1, <2>2
<1>7. QED
  BY <1>4, <1>5, <1>6 DEF Pooled, Personalize, P

\* A tile of the shelf counts what its full list counts, and shows nothing else.
LEMMA ShelfAgrees ==
  ASSUME NEW s, Pooled(s), NEW today, NEW slug \in DOMAIN Shelf(s, today)
  PROVE  LET full == Collection(s, slug, today, 0, Cardinality(s))
         IN /\ Shelf(s, today)[slug].count = full.count
            /\ ToSet(Shelf(s, today)[slug].look) \subseteq ToSet(full.items)
<1> DEFINE T == Those(s, slug, today)
           all == Arranged(T, ByScore(s))
           some == IF slug \in Varied THEN Diverse(all) ELSE all
           look == Page(some, 0, PerRail)
           canon == Canonical(T)
<1>1. T \in SUBSET s
  BY DEF Those
<1>2. Pooled(T)
  BY <1>1, PartPooled
<1>3. \A x \in T : ByScore(s)[x] \in Int
  BY <1>1 DEF ByScore, Pooled, Entries
<1>4. Shelf(s, today)[slug].count = Len(all) /\ Shelf(s, today)[slug].look = look
  BY DEF Shelf
<1>5. /\ Collection(s, slug, today, 0, Cardinality(s)).count = Len(canon)
      /\ Collection(s, slug, today, 0, Cardinality(s)).items = Page(canon, 0, Cardinality(s))
  BY DEF Collection
<1> HIDE DEF T
<1>6. Enumerates(all, T)
  BY <1>2, <1>3, ArrangedWhole
<1>7. Enumerates(canon, T)
  BY <1>2, CanonicalWhole
<1> HIDE DEF all, canon
<1>8. Len(all) = Len(canon)
  BY <1>6, <1>7 DEF Enumerates
<1>9. look \in Seq(T)
  <2>1. some \in Seq(T)
    BY <1>6, DiversePicks DEF Enumerates
  <2> HIDE DEF some
  <2>2. QED
    BY <2>1, FirstPage, FeedAssumption DEF FeedAssumption
<1> HIDE DEF look
<1>10. ToSet(look) \subseteq T
  BY <1>9 DEF ToSet
<1>11. Page(canon, 0, Cardinality(s)) = canon
  <2>1. PICK n \in Nat, m \in Nat : n = Cardinality(s) /\ m = Cardinality(T) /\ m <= n
    BY <1>1, FS_Subset, FS_CardinalityType DEF Pooled
  <2>2. canon \in Seq(T) /\ Len(canon) = m
    BY <1>7, <2>1 DEF Enumerates
  <2>3. Page(canon, 0, n) = canon
    BY <2>1, <2>2, FirstPage
  <2>4. QED
    BY <2>1, <2>3
<1>12. ToSet(canon) = T
  BY <1>7 DEF Enumerates
<1>13. QED
  BY <1>4, <1>5, <1>8, <1>10, <1>11, <1>12

\* What anyone gets out of a pool is cut honestly.
LEMMA CutSound ==
  ASSUME NEW s, Pooled(s), NEW u, Known(u), NEW today
  PROVE  CutHonestly(s, u, today)
<1>1. Disjoint(Rails(s, u, today))
  BY WantedIs, RailsDisjoint
<1>2. QED
  BY <1>1, ShelfAgrees DEF CutHonestly, Disjoint

\* Those the rails are built for.
LEMMA SomeoneKnown ==
  ASSUME NEW u \in Someone
  PROVE  Known(u)
<1>1. u.here \in Int
  BY CatalogueAssumption DEF Someone, NoTime, CatalogueAssumption
<1>2. ASSUME NEW k \in DateCats
      PROVE  Affinity({k}, <<k>>) \in [Categories -> Nat]
  <2> DEFINE n(l) == Cardinality({i \in DOMAIN <<k>> : <<k>>[i] = l})
             top == CHOOSE m \in {n(l) : l \in ToSet(<<k>>)} : \A l \in ToSet(<<k>>) : n(l) <= m
  <2>1. ToSet(<<k>>) = {k} /\ DOMAIN <<k>> = {1} /\ <<k>>[1] = k
    BY DEF ToSet
  <2>2. \A l : n(l) \in Nat
    <3> SUFFICES ASSUME NEW l PROVE n(l) \in Nat
      OBVIOUS
    <3>1. PICK A : A = {i \in DOMAIN <<k>> : <<k>>[i] = l}
      OBVIOUS
    <3>2. A = {} \/ A = {1}
      BY <2>1, <3>1
    <3>3. Cardinality({}) = 0 /\ Cardinality({1}) = 1
      BY FS_EmptySet, FS_Singleton
    <3>4. Cardinality(A) \in Nat
      BY <3>2, <3>3
    <3>5. QED
      BY <3>1, <3>4
  <2>3. n(k) = 1
    <3>1. {i \in DOMAIN <<k>> : <<k>>[i] = k} = {1}
      BY <2>1
    <3>2. QED
      BY <3>1, FS_Singleton
  <2>4. top = 1
    <3> HIDE DEF n
    <3>1. {n(l) : l \in ToSet(<<k>>)} = {1}
      BY <2>1, <2>3
    <3>2. \A l \in ToSet(<<k>>) : n(l) <= 1
      BY <2>1, <2>3
    <3>3. QED
      BY <3>1, <3>2
  <2>5. Affinity({k}, <<k>>) = [l \in Categories |-> (IF l \in {k} THEN 100 ELSE 0) + (70 * n(l)) \div top]
    BY DEF Affinity
  <2> HIDE DEF n, top
  <2>6. ASSUME NEW l
        PROVE  (IF l \in {k} THEN 100 ELSE 0) + (70 * n(l)) \div top \in Nat
    <3>1. PICK m \in Nat : m = n(l)
      BY <2>2
    <3>2. (70 * m) \div 1 \in Nat
      OBVIOUS
    <3>3. QED
      BY <2>4, <3>1, <3>2
  <2>7. QED
    BY <2>5, <2>6
<1>3. Cold \in [Categories -> Nat]
  BY DEF Cold
<1>4. u.aff = Cold \/ \E k \in DateCats : u.aff = Affinity({k}, <<k>>)
  BY DEF Someone
<1>5. QED
  BY <1>1, <1>2, <1>3, <1>4 DEF Known

-----------------------------------------------------------------------------
(* Requests for the feed.                                                  *)

\* Who scores holds the lock of the worker.
FeedInv ==
  /\ feed = [r \in Requests |-> feed[r]]
  /\ lock \in [{Workers[r] : r \in Requests} -> BOOLEAN]
  /\ \A r \in Requests : feed[r].at = "score" => lock[Workers[r]]
  /\ ServedInTime

LEMMA FeedInit == Init => FeedInv
  BY DEF Init, FeedInv, ServedInTime, None

LEMMA FeedStep == FeedInv /\ [Next]_vars => FeedInv'
<1> SUFFICES ASSUME FeedInv, [Next]_vars PROVE FeedInv'
  OBVIOUS
<1>1. CASE UNCHANGED <<feed, lock>>
  BY <1>1 DEF FeedInv, ServedInTime, Own
\* A request that neither begins nor ends to score, and is served in time if it is served.
<1>2. ASSUME NEW r \in Requests, NEW x, feed' = [feed EXCEPT ![r] = x], lock' = lock,
             feed[r].at # "score", x.at # "score", x.at = "done" => Own(x.base, x.t)
      PROVE  FeedInv'
  <2>1. feed'[r] = x /\ \A q \in Requests \ {r} : feed'[q] = feed[q]
    BY <1>2 DEF FeedInv
  <2>2. feed' = [q \in Requests |-> feed'[q]]
    BY <1>2 DEF FeedInv
  <2>3. \A q \in Requests : feed'[q].at = "score" => q # r /\ feed[q].at = "score"
    BY <1>2, <2>1
  <2>4. \A q \in Requests : feed'[q].at = "done" => Own(feed'[q].base, feed'[q].t)
    BY <1>2, <2>1 DEF FeedInv, ServedInTime
  <2>5. QED
    BY <1>2, <2>2, <2>3, <2>4 DEF FeedInv, ServedInTime, Own
<1>3. ASSUME NEW r \in Requests, FeedAsk(r)
      PROVE  FeedInv'
  <2>1. feed[r].at \in {"none", "done"} /\ lock' = lock
    BY <1>3 DEF FeedAsk
  <2>2. CASE Own(base[Workers[r]], now)
    BY <1>2, <1>3, <2>1, <2>2 DEF FeedAsk, Serve
  <2>3. CASE ~Own(base[Workers[r]], now)
    BY <1>2, <1>3, <2>1, <2>3 DEF FeedAsk
  <2>4. QED
    BY <2>2, <2>3
<1>4. ASSUME NEW r \in Requests, FeedLock(r)
      PROVE  FeedInv'
  <2>1. feed[r].at = "wait" /\ ~lock[Workers[r]]
    BY <1>4 DEF FeedLock
  <2>2. CASE Own(base[Workers[r]], feed[r].t)
    BY <1>2, <1>4, <2>1, <2>2 DEF FeedLock, Serve
  <2>3. CASE ~Own(base[Workers[r]], feed[r].t)
    <3>1. /\ lock' = [lock EXCEPT ![Workers[r]] = TRUE]
          /\ feed' = [feed EXCEPT ![r] = [at |-> "score", t |-> feed[r].t, of |-> cat]]
      BY <1>4, <2>3 DEF FeedLock
    <3>2. feed'[r].at = "score" /\ \A q \in Requests \ {r} : feed'[q] = feed[q]
      BY <3>1 DEF FeedInv
    <3>3. /\ feed' = [q \in Requests |-> feed'[q]]
          /\ lock' \in [{Workers[q] : q \in Requests} -> BOOLEAN]
          /\ lock'[Workers[r]] /\ \A q \in Requests : lock[Workers[q]] => lock'[Workers[q]]
      BY <3>1 DEF FeedInv
    <3>4. \A q \in Requests : feed[q].at = "score" => Workers[q] # Workers[r]
      BY <2>1 DEF FeedInv
    <3>5. \A q \in Requests : feed'[q].at = "done" => Own(feed'[q].base, feed'[q].t)
      BY <3>2 DEF FeedInv, ServedInTime
    <3>6. QED
      BY <3>2, <3>3, <3>4, <3>5 DEF FeedInv, ServedInTime, Own
  <2>4. QED
    BY <2>2, <2>3
<1>5. ASSUME NEW r \in Requests, FeedStore(r)
      PROVE  FeedInv'
  <2> DEFINE b == [at |-> "base", today |-> Day(feed[r].t), hour6 |-> Hour6(feed[r].t),
                   of |-> feed[r].of, t |-> feed[r].t]
             done == [at |-> "done", t |-> feed[r].t, base |-> b]
  <2>1. /\ feed[r].at = "score" /\ lock' = [lock EXCEPT ![Workers[r]] = FALSE]
        /\ feed' = [feed EXCEPT ![r] = done] \/ feed' = [feed EXCEPT ![r] = None]
    BY <1>5 DEF FeedStore, Serve
  <2>2. Own(b, feed[r].t)
    BY DEF Own, None
  <2>3. /\ feed'[r].at # "score" /\ (feed'[r].at = "done" => Own(feed'[r].base, feed'[r].t))
        /\ \A q \in Requests \ {r} : feed'[q] = feed[q]
    BY <2>1, <2>2 DEF FeedInv, None
  <2>4. /\ feed' = [q \in Requests |-> feed'[q]]
        /\ lock' \in [{Workers[q] : q \in Requests} -> BOOLEAN]
        /\ \A q \in Requests : Workers[q] # Workers[r] => lock'[Workers[q]] = lock[Workers[q]]
    BY <2>1 DEF FeedInv
  <2>5. \A q \in Requests \ {r} : feed[q].at = "score" => Workers[q] # Workers[r]
    BY <2>1 DEF FeedInv, ServedInTime
  <2>6. \A q \in Requests : feed'[q].at = "done" => Own(feed'[q].base, feed'[q].t)
    BY <2>3 DEF FeedInv, ServedInTime
  <2>7. QED
    BY <2>3, <2>4, <2>5, <2>6 DEF FeedInv, ServedInTime, Own
<1>6. CASE World
  BY <1>1, <1>6 DEF World, Withdraw, Vanish, Reschedule, Tick, feedVars
<1>7. CASE CacheNext
  BY <1>1, <1>7 DEF CacheNext, Ask, Store, Expire, feedVars
<1>8. CASE ListNext
  BY <1>1, <1>8 DEF ListNext, Choose, Loaded, LoadMore, MoreLoaded, feedVars
<1>9. CASE FeedNext
  BY <1>1, <1>3, <1>4, <1>5, <1>9 DEF FeedNext, BaseExpire
<1>10. CASE ViewNext
  BY <1>1, <1>10 DEF ViewNext, SAdd, SExpire, HIncr, ViewLost, feedVars
<1>11. CASE IndexNext
  BY <1>1, <1>11 DEF IndexNext, Reindex, PostClear, Post, IndexerDies, Work, feedVars
<1>12. CASE UNCHANGED vars
  BY <1>1, <1>12 DEF vars, readers, feedVars
<1>13. QED
  BY <1>6, <1>7, <1>8, <1>9, <1>10, <1>11, <1>12 DEF Next

\* A base is scored from a catalogue as it was at some time, and so is the next.
ScoredInv ==
  /\ base = [w \in {Workers[r] : r \in Requests} |-> base[w]]
  /\ \A w \in DOMAIN base : base[w] # None => Typed(base[w].of) /\ base[w].t \in Nat
  /\ feed = [r \in Requests |-> feed[r]]
  /\ \A r \in Requests : /\ feed[r].at \in {"wait", "score"} => feed[r].t \in Nat
                         /\ feed[r].at = "score" => Typed(feed[r].of)

LEMMA ScoredInit == Init => ScoredInv
  BY DEF Init, ScoredInv, None

LEMMA ScoredStep == ScoredInv /\ CatTypeOK /\ [Next]_vars => ScoredInv'
<1> SUFFICES ASSUME ScoredInv, CatTypeOK, [Next]_vars PROVE ScoredInv'
  OBVIOUS
<1>1. CASE UNCHANGED <<feed, base>>
  <2>1. base' = [w \in {Workers[r] : r \in Requests} |-> base'[w]] /\ feed' = [r \in Requests |-> feed'[r]]
    BY <1>1 DEF ScoredInv
  <2>2. \A w \in DOMAIN base' : base'[w] # None => Typed(base'[w].of) /\ base'[w].t \in Nat
    BY <1>1 DEF ScoredInv
  <2>3. \A r \in Requests : /\ feed'[r].at \in {"wait", "score"} => feed'[r].t \in Nat
                            /\ feed'[r].at = "score" => Typed(feed'[r].of)
    BY <1>1 DEF ScoredInv
  <2>4. QED
    BY <2>1, <2>2, <2>3 DEF ScoredInv, Typed, Unique, None
\* A request that moves, while its worker keeps its base.
<1>2. ASSUME NEW r \in Requests, NEW x, feed' = [feed EXCEPT ![r] = x], base' = base,
             x.at \in {"wait", "score"} => x.t \in Nat, x.at = "score" => Typed(x.of)
      PROVE  ScoredInv'
  <2>1. feed'[r] = x /\ \A q \in Requests \ {r} : feed'[q] = feed[q]
    BY <1>2 DEF ScoredInv
  <2>2. feed' = [q \in Requests |-> feed'[q]]
    BY <1>2 DEF ScoredInv
  <2>3. \A q \in Requests : /\ feed'[q].at \in {"wait", "score"} => feed'[q].t \in Nat
                            /\ feed'[q].at = "score" => Typed(feed'[q].of)
    BY <1>2, <2>1 DEF ScoredInv
  <2>4. base' = [w \in {Workers[q] : q \in Requests} |-> base'[w]]
    BY <1>2 DEF ScoredInv
  <2>5. \A w \in DOMAIN base' : base'[w] # None => Typed(base'[w].of) /\ base'[w].t \in Nat
    BY <1>2 DEF ScoredInv
  <2>6. QED
    BY <2>2, <2>3, <2>4, <2>5 DEF ScoredInv, Typed, Unique, None
<1>3. ASSUME NEW r \in Requests, FeedAsk(r)
      PROVE  ScoredInv'
  <2>1. CASE Own(base[Workers[r]], now)
    <3>1. feed' = [feed EXCEPT ![r] = [at |-> "done", t |-> now, base |-> base[Workers[r]]]] /\ base' = base
      BY <1>3, <2>1 DEF FeedAsk, Serve
    <3>2. QED
      BY <1>2, <3>1
  <2>2. CASE ~Own(base[Workers[r]], now)
    <3>1. feed' = [feed EXCEPT ![r] = [at |-> "wait", t |-> now]] /\ base' = base
      BY <1>3, <2>2 DEF FeedAsk
    <3>2. now \in Nat
      BY DEF CatTypeOK
    <3>3. QED
      BY <1>2, <3>1, <3>2
  <2>3. QED
    BY <2>1, <2>2
<1>4. ASSUME NEW r \in Requests, FeedLock(r)
      PROVE  ScoredInv'
  <2>1. feed[r].at = "wait" /\ base' = base /\ feed[r].t \in Nat
    BY <1>4 DEF FeedLock, ScoredInv
  <2>2. CASE Own(base[Workers[r]], feed[r].t)
    <3>1. feed' = [feed EXCEPT ![r] = [at |-> "done", t |-> feed[r].t, base |-> base[Workers[r]]]]
      BY <1>4, <2>2 DEF FeedLock, Serve
    <3>2. QED
      BY <1>2, <2>1, <3>1
  <2>3. CASE ~Own(base[Workers[r]], feed[r].t)
    <3>1. feed' = [feed EXCEPT ![r] = [at |-> "score", t |-> feed[r].t, of |-> cat]]
      BY <1>4, <2>3 DEF FeedLock
    <3>2. Typed(cat)
      BY DEF CatTypeOK, Typed
    <3>3. QED
      BY <1>2, <2>1, <3>1, <3>2
  <2>4. QED
    BY <2>2, <2>3
<1>5. ASSUME NEW r \in Requests, FeedStore(r)
      PROVE  ScoredInv'
  <2>1. feed[r].at = "score" /\ feed[r].t \in Nat /\ Typed(feed[r].of)
    BY <1>5 DEF FeedStore, ScoredInv
  <2> DEFINE b == [at |-> "base", today |-> Day(feed[r].t), hour6 |-> Hour6(feed[r].t),
                   of |-> feed[r].of, t |-> feed[r].t]
             done == [at |-> "done", t |-> feed[r].t, base |-> b]
  <2>2. CASE base' = [base EXCEPT ![Workers[r]] = b] /\ feed' = [feed EXCEPT ![r] = done]
    <3>1. Typed(b.of) /\ b.t \in Nat /\ done.at = "done"
      BY <2>1
    <3>2. PICK x, y : x = b /\ y = done
      OBVIOUS
    <3> HIDE DEF b, done
    <3>3. /\ base' = [w \in {Workers[q] : q \in Requests} |-> base'[w]]
          /\ \A w \in DOMAIN base' : base'[w] = x \/ base'[w] = base[w]
          /\ DOMAIN base' = DOMAIN base
      BY <2>2, <3>2 DEF ScoredInv
    <3>4. /\ feed' = [q \in Requests |-> feed'[q]]
          /\ \A q \in Requests : feed'[q] = y \/ feed'[q] = feed[q]
      BY <2>2, <3>2 DEF ScoredInv
    <3>5. \A w \in DOMAIN base' : base'[w] # None => Typed(base'[w].of) /\ base'[w].t \in Nat
      BY <3>1, <3>2, <3>3 DEF ScoredInv
    <3>6. \A q \in Requests : /\ feed'[q].at \in {"wait", "score"} => feed'[q].t \in Nat
                              /\ feed'[q].at = "score" => Typed(feed'[q].of)
      BY <3>1, <3>2, <3>4 DEF ScoredInv
    <3>7. QED
      BY <3>3, <3>4, <3>5, <3>6 DEF ScoredInv, Typed, Unique, None
  <2>3. CASE base' = base /\ feed' = [feed EXCEPT ![r] = None]
    <3>1. None.at = "none"
      BY DEF None
    <3>2. QED
      BY <1>2, <2>3, <3>1
  <2>4. QED
    BY <1>5, <2>2, <2>3 DEF FeedStore, Serve
<1>6. ASSUME NEW w \in DOMAIN base, BaseExpire(w)
      PROVE  ScoredInv'
  <2>1. base' = [base EXCEPT ![w] = None] /\ feed' = feed
    BY <1>6 DEF BaseExpire
  <2>2. /\ base' = [v \in {Workers[q] : q \in Requests} |-> base'[v]]
        /\ DOMAIN base' = DOMAIN base
        /\ \A v \in DOMAIN base' : base'[v] = None \/ base'[v] = base[v]
    BY <2>1 DEF ScoredInv
  <2>3. \A v \in DOMAIN base' : base'[v] # None => Typed(base'[v].of) /\ base'[v].t \in Nat
    BY <2>2 DEF ScoredInv
  <2>4. QED
    BY <2>1, <2>2, <2>3 DEF ScoredInv, Typed, Unique, None
<1>7. CASE World
  BY <1>1, <1>7 DEF World, Withdraw, Vanish, Reschedule, Tick, feedVars
<1>8. CASE CacheNext
  BY <1>1, <1>8 DEF CacheNext, Ask, Store, Expire, feedVars
<1>9. CASE ListNext
  BY <1>1, <1>9 DEF ListNext, Choose, Loaded, LoadMore, MoreLoaded, feedVars
<1>10. CASE FeedNext
  BY <1>3, <1>4, <1>5, <1>6, <1>10 DEF FeedNext
<1>11. CASE ViewNext
  BY <1>1, <1>11 DEF ViewNext, SAdd, SExpire, HIncr, ViewLost, feedVars
<1>12. CASE IndexNext
  BY <1>1, <1>12 DEF IndexNext, Reindex, PostClear, Post, IndexerDies, Work, feedVars
<1>13. CASE UNCHANGED vars
  BY <1>1, <1>13 DEF vars, readers, feedVars
<1>14. QED
  BY <1>7, <1>8, <1>9, <1>10, <1>11, <1>12, <1>13 DEF Next

\* In every such state, what anyone gets out of a base is cut honestly.
LEMMA BasesSound ==
  ASSUME ScoredInv, ViewTypeOK, NEW w \in DOMAIN base, base[w] # None, NEW u, Known(u)
  PROVE  CutHonestly(Personalize(Scored(base[w]), u), u, base[w].today)
<1>1. Effective \in [Events -> Nat]
  <2>1. \A e \in Events : views[e] + 4 * Intents[e] \in Nat
    BY ReadApiAssumption DEF ViewTypeOK, ReadApiAssumption
  <2>2. QED
    BY <2>1 DEF Effective
<1>2. Typed(base[w].of) /\ base[w].t \in Nat
  BY DEF ScoredInv
<1>3. Pooled(Scored(base[w]))
  BY <1>1, <1>2, BasePooled DEF Scored
<1>4. Pooled(Personalize(Scored(base[w]), u))
  BY <1>3, PersonalPooled
<1>5. QED
  BY <1>4, CutSound

\* A request is served in time, and what it is served is cut honestly.
LEMMA FeedSound == FeedInv /\ ScoredInv /\ ViewTypeOK => FeedHonest
  BY BasesSound, SomeoneKnown DEF FeedHonest, FeedInv

-----------------------------------------------------------------------------
(* The search index.                                                       *)

OneEach(D) == \A o, p \in D : o.ev = p.ev => o = p

Contents == [docs : SUBSET Occurrences, run : SUBSET Occurrences, clean : BOOLEAN]
Tasks == [do : {"clear", "add", "swap"}, add : Contents]
Runs == [at : {"clear", "post"}, all : SUBSET Occurrences, left : SUBSET Occurrences, clean : BOOLEAN]

IndexTypeOK ==
  /\ index \in [live : {None} \cup Contents, tmp : Contents]
  /\ tasks \in Seq(Tasks)
  /\ indexer \in {None} \cup Runs
  /\ indexer # None => /\ indexer.left \subseteq indexer.all /\ OneEach(indexer.all)
                       /\ indexer.at = "clear" => indexer.left = indexer.all

Whole(x) == x.clean => x.docs = x.run

\* The throwaway index when a run has posted what it has posted.
Filled(x) == x.docs = indexer.all \ indexer.left /\ (x.run = indexer.all \/ x = Empty)

\* What the tasks that wait will make of the indexes, one after the other: whatever goes
\* live is whole, and the last of them leaves the throwaway index to the run under way.
Foreseen(f) ==
  /\ f \in [0..Len(tasks) -> [live : Contents, tmp : Contents]]
  /\ f[0] = index
  /\ \A i \in 1..Len(tasks) : f[i] = Worked(f[i - 1], tasks[i])
  /\ \A i \in 0..Len(tasks) : Whole(f[i].live)
  /\ (indexer # None /\ indexer.at = "post" /\ indexer.clean) => Filled(f[Len(tasks)].tmp)

IndexInv ==
  /\ IndexTypeOK
  /\ index.live = None => tasks = <<>> /\ indexer = None
  /\ index.live # None => \E f : Foreseen(f)

LEMMA WorkedType ==
  ASSUME NEW i \in [live : Contents, tmp : Contents], NEW t \in Tasks
  PROVE  Worked(i, t) \in [live : Contents, tmp : Contents]
<1>1. CASE t.do = "clear"
  BY <1>1 DEF Worked, Contents, Empty
<1>2. CASE t.do = "add"
  BY <1>2 DEF Worked, Contents, Tasks
<1>3. CASE t.do = "swap"
  <2>1. Worked(i, t) = [live |-> [i.tmp EXCEPT !.clean = i.tmp.clean /\ t.add.clean], tmp |-> i.live]
    BY <1>3 DEF Worked
  <2>2. [i.tmp EXCEPT !.clean = i.tmp.clean /\ t.add.clean] \in Contents
    BY DEF Contents, Tasks
  <2>3. QED
    BY <2>1, <2>2
<1>4. QED
  BY <1>1, <1>2, <1>3 DEF Tasks

\* One more task.
LEMMA OneMoreTask ==
  ASSUME IndexInv, index.live # None, NEW f, Foreseen(f), NEW t \in Tasks,
         NEW y, y = Worked(f[Len(tasks)], t), Whole(y.live),
         tasks' = Append(tasks, t), index' = index,
         (indexer' # None /\ indexer'.at = "post" /\ indexer'.clean) => Filled(y.tmp)'
  PROVE  \E g : Foreseen(g)'
<1> DEFINE n == Len(tasks)
<1>1. tasks \in Seq(Tasks) /\ n \in Nat
  BY DEF IndexInv, IndexTypeOK
<1>2. /\ Len(tasks') = n + 1 /\ tasks'[n + 1] = t
      /\ \A i \in 1..n : tasks'[i] = tasks[i]
  BY <1>1
<1>3. f[n] \in [live : Contents, tmp : Contents]
  BY <1>1 DEF Foreseen
<1>4. y \in [live : Contents, tmp : Contents] /\ y = Worked(f[n], t)
  BY <1>3, WorkedType
<1>5. PICK g : g = [i \in 0..(n + 1) |-> IF i <= n THEN f[i] ELSE y]
  OBVIOUS
<1>6. g \in [0..(n + 1) -> [live : Contents, tmp : Contents]] /\ g[0] = f[0] /\ g[n + 1] = y
  BY <1>1, <1>5 DEF Foreseen
<1>7. \A i \in 0..n : g[i] = f[i]
  BY <1>1, <1>5
<1>8. \A i \in 1..(n + 1) : g[i] = Worked(g[i - 1], tasks'[i])
  <2> TAKE i \in 1..(n + 1)
  <2>1. CASE i = n + 1
    BY <1>1, <1>2, <1>4, <1>6, <1>7, <2>1
  <2>2. CASE i # n + 1
    <3>1. i \in 1..n /\ i - 1 \in 0..n /\ i \in 0..n
      BY <1>1, <2>2
    <3>2. QED
      BY <1>2, <1>7, <3>1 DEF Foreseen
  <2>3. QED
    BY <2>1, <2>2
<1>9. \A i \in 0..(n + 1) : Whole(g[i].live)
  BY <1>1, <1>4, <1>6, <1>7 DEF Foreseen
<1>10. (indexer' # None /\ indexer'.at = "post" /\ indexer'.clean) => Filled(g[Len(tasks)].tmp)'
  <2> SUFFICES ASSUME indexer' # None, indexer'.at = "post", indexer'.clean
               PROVE  /\ g[Len(tasks')].tmp.docs = indexer'.all \ indexer'.left
                      /\ g[Len(tasks')].tmp.run = indexer'.all \/ g[Len(tasks')].tmp = Empty
    BY <1>2 DEF Filled
  <2>1. y.tmp.docs = indexer'.all \ indexer'.left /\ (y.tmp.run = indexer'.all \/ y.tmp = Empty)
    BY DEF Filled
  <2>2. QED
    BY <1>2, <1>6, <2>1
<1>11. Foreseen(g)'
  <2>1. g \in [0..Len(tasks') -> [live : Contents, tmp : Contents]] /\ g[0] = index'
    BY <1>2, <1>6 DEF Foreseen
  <2>2. \A i \in 1..Len(tasks') : g[i] = Worked(g[i - 1], tasks'[i])
    BY <1>2, <1>8
  <2>3. \A i \in 0..Len(tasks') : Whole(g[i].live)
    BY <1>2, <1>9
  <2>4. (indexer' # None /\ indexer'.at = "post" /\ indexer'.clean) => Filled(g[Len(tasks)].tmp)'
    BY <1>10
  <2>5. QED
    BY <2>1, <2>2, <2>3, <2>4 DEF Foreseen
<1>12. QED
  BY <1>11

LEMMA IndexInit == Init => IndexInv
<1> SUFFICES ASSUME Init PROVE IndexInv
  OBVIOUS
<1>1. IndexTypeOK
  BY DEF Init, IndexTypeOK, Contents, Empty
<1>2. QED
  BY <1>1 DEF Init, IndexInv

LEMMA ReindexStep ==
  ASSUME CatTypeOK, IndexInv, Reindex
  PROVE  IndexInv'
<1> DEFINE all == Documents(cat, now)
<1>1. all \in SUBSET Occurrences /\ OneEach(all)
  <2>1. /\ {o \in cat.occs : o.ev \in cat.active} \in SUBSET Occurrences
        /\ Unique({o \in cat.occs : o.ev \in cat.active}) /\ now \in Int
    BY DEF CatTypeOK, Unique
  <2>2. QED
    BY <2>1, OnePerEvent DEF Documents, OneEach
<1>2. /\ indexer = None
      /\ indexer' = [at |-> "clear", all |-> all, left |-> all, clean |-> TRUE]
      /\ index' = [live |-> IF index.live = None THEN Empty ELSE index.live, tmp |-> index.tmp]
      /\ tasks' = tasks
  BY DEF Reindex, IndexInv, IndexTypeOK
<1> HIDE DEF all
<1>3. indexer' # None /\ indexer'.at = "clear" /\ indexer' \in Runs
  BY <1>1, <1>2 DEF None, Runs
<1>4. Empty \in Contents /\ None \notin Contents /\ Whole(Empty)
  BY DEF Empty, Contents, None, Whole
<1>5. IndexTypeOK'
  <2>1. index' \in [live : {None} \cup Contents, tmp : Contents]
    BY <1>2, <1>4 DEF IndexInv, IndexTypeOK
  <2>2. QED
    BY <1>1, <1>2, <1>3, <2>1 DEF IndexInv, IndexTypeOK
<1>6. index'.live # None
  BY <1>2, <1>4
<1>7. CASE index.live = None
  <2>1. tasks = <<>> /\ Len(tasks') = 0
    BY <1>2, <1>7 DEF IndexInv
  <2>2. PICK first \in [live : Contents, tmp : Contents] : first = index' /\ Whole(first.live)
    BY <1>2, <1>4, <1>7 DEF IndexInv, IndexTypeOK
  <2>3. PICK f : f = [i \in 0..0 |-> first]
    OBVIOUS
  <2>4. Foreseen(f)'
    BY <1>3, <2>1, <2>2, <2>3 DEF Foreseen
  <2>5. QED
    BY <1>5, <1>6, <2>4 DEF IndexInv
<1>8. CASE index.live # None
  <2>1. PICK f : Foreseen(f)
    BY <1>8 DEF IndexInv
  <2>2. index' = index
    BY <1>2, <1>8 DEF IndexInv, IndexTypeOK
  <2>3. Foreseen(f)'
    BY <1>2, <1>3, <2>1, <2>2 DEF Foreseen
  <2>4. QED
    BY <1>5, <1>6, <2>3 DEF IndexInv
<1>9. QED
  BY <1>7, <1>8

LEMMA PostClearStep ==
  ASSUME IndexInv, PostClear
  PROVE  IndexInv'
<1>1. /\ indexer.at = "clear" /\ indexer # None /\ indexer \in Runs
      /\ indexer.left = indexer.all /\ OneEach(indexer.all) /\ index.live # None
      /\ index' = index
  BY DEF PostClear, None, IndexInv, IndexTypeOK
<1>2. PICK f : Foreseen(f)
  BY <1>1 DEF IndexInv
<1> DEFINE t == [do |-> "clear", add |-> Empty]
<1>3. t \in Tasks
  BY DEF Tasks, Contents, Empty
<1>4. f[Len(tasks)] \in [live : Contents, tmp : Contents] /\ Whole(f[Len(tasks)].live)
  BY <1>2 DEF Foreseen, IndexInv, IndexTypeOK
<1>5. CASE indexer' = [indexer EXCEPT !.at = "post"] /\ tasks' = Append(tasks, t)
  <2>1. PICK y : y = Worked(f[Len(tasks)], t)
    OBVIOUS
  <2>2. y.tmp = Empty /\ y.live = f[Len(tasks)].live
    BY <2>1 DEF Worked
  <2>3. /\ indexer' \in Runs /\ indexer' # None
        /\ indexer'.all = indexer.all /\ indexer'.left = indexer.all /\ indexer'.at = "post"
    BY <1>1, <1>5 DEF Runs, None
  <2>4. Filled(y.tmp)'
    BY <2>2, <2>3 DEF Filled, Empty
  <2>5. \E g : Foreseen(g)'
    <3> HIDE DEF t
    <3>1. QED
      BY <1>1, <1>2, <1>3, <1>4, <1>5, <2>1, <2>2, <2>4, OneMoreTask
  <2>6. tasks' \in Seq(Tasks)
    BY <1>3, <1>5 DEF IndexInv, IndexTypeOK
  <2>7. QED
    BY <1>1, <2>3, <2>5, <2>6 DEF IndexInv, IndexTypeOK
<1>6. CASE indexer' = [[indexer EXCEPT !.at = "post"] EXCEPT !.clean = FALSE] /\ tasks' = tasks
  <2>1. /\ indexer' \in Runs /\ indexer' # None /\ ~indexer'.clean
        /\ indexer'.all = indexer.all /\ indexer'.left = indexer.all /\ indexer'.at = "post"
    BY <1>1, <1>6 DEF Runs, None
  <2>2. Foreseen(f)'
    BY <1>1, <1>2, <1>6, <2>1 DEF Foreseen
  <2>3. QED
    BY <1>1, <1>6, <2>1, <2>2 DEF IndexInv, IndexTypeOK
<1>7. QED
  BY <1>5, <1>6 DEF PostClear

\* The swap at the end of a run.
LEMMA SwapStep ==
  ASSUME IndexInv, Post, indexer.left = {}
  PROVE  IndexInv'
<1>1. /\ indexer.at = "post" /\ indexer # None /\ indexer \in Runs
      /\ index.live # None /\ index' = index /\ indexer' = None
      /\ tasks' = Append(tasks, [do |-> "swap", add |-> [Empty EXCEPT !.clean = indexer.clean]])
  BY DEF Post, None, IndexInv, IndexTypeOK
<1>2. PICK f : Foreseen(f)
  BY <1>1 DEF IndexInv
<1>3. PICK t : t = [do |-> "swap", add |-> [Empty EXCEPT !.clean = indexer.clean]]
  OBVIOUS
<1>4. t \in Tasks /\ t.do = "swap" /\ t.add.clean = indexer.clean
  BY <1>1, <1>3 DEF Tasks, Contents, Empty, Runs
<1>5. PICK x \in [live : Contents, tmp : Contents] : x = f[Len(tasks)] /\ Whole(x.live)
  BY <1>2 DEF Foreseen, IndexInv, IndexTypeOK
<1>6. PICK y : y = Worked(x, t)
  OBVIOUS
<1>7. y.live = [x.tmp EXCEPT !.clean = x.tmp.clean /\ indexer.clean]
  BY <1>4, <1>6 DEF Worked
<1>8. Whole(y.live)
  <2>1. SUFFICES ASSUME indexer.clean PROVE x.tmp.docs = x.tmp.run
    BY <1>5, <1>7 DEF Whole, Contents
  <2>2. Filled(x.tmp)
    BY <1>1, <1>2, <1>5, <2>1 DEF Foreseen
  <2>3. QED
    BY <2>2 DEF Filled, Empty
<1>9. \E g : Foreseen(g)'
  BY <1>1, <1>2, <1>3, <1>4, <1>5, <1>6, <1>8, OneMoreTask
<1>10. tasks' \in Seq(Tasks)
  BY <1>1, <1>3, <1>4 DEF IndexInv, IndexTypeOK
<1>11. QED
  BY <1>1, <1>9, <1>10 DEF IndexInv, IndexTypeOK

\* A batch of documents.
LEMMA BatchStep ==
  ASSUME IndexInv, Post, indexer.left # {}
  PROVE  IndexInv'
<1>1. PICK some \in SUBSET indexer.left :
        /\ indexer' = [indexer EXCEPT !.left = indexer.left \ some]
        /\ tasks' = Append(tasks, [do |-> "add", add |-> [docs |-> some, run |-> indexer.all, clean |-> indexer.clean]])
  BY DEF Post
<1>2. /\ indexer.at = "post" /\ indexer # None /\ indexer \in Runs
      /\ indexer.left \subseteq indexer.all /\ OneEach(indexer.all)
      /\ index.live # None /\ index' = index
  BY DEF Post, None, IndexInv, IndexTypeOK
<1>3. PICK f : Foreseen(f)
  BY <1>2 DEF IndexInv
<1>4. PICK t : t = [do |-> "add", add |-> [docs |-> some, run |-> indexer.all, clean |-> indexer.clean]]
  OBVIOUS
<1>5. t \in Tasks
  BY <1>1, <1>2, <1>4 DEF Tasks, Contents, Runs
<1>6. PICK x \in [live : Contents, tmp : Contents] : x = f[Len(tasks)] /\ Whole(x.live)
  BY <1>3 DEF Foreseen, IndexInv, IndexTypeOK
<1>7. PICK y : y = Worked(x, t)
  OBVIOUS
<1>8. /\ y.live = x.live /\ y.tmp.run = indexer.all
      /\ y.tmp.docs = some \cup {d \in x.tmp.docs : d.ev \notin Evs(some)}
  BY <1>4, <1>7 DEF Worked
<1>9. /\ indexer' \in Runs /\ indexer' # None /\ indexer'.left = indexer.left \ some
      /\ indexer'.all = indexer.all /\ indexer'.at = "post" /\ indexer'.clean = indexer.clean
  BY <1>1, <1>2 DEF Runs, None
<1>10. indexer.clean => Filled(y.tmp)'
  <2> SUFFICES ASSUME indexer.clean PROVE y.tmp.docs = indexer.all \ (indexer.left \ some)
    BY <1>8, <1>9 DEF Filled
  <2>1. x.tmp.docs = indexer.all \ indexer.left
    BY <1>2, <1>3, <1>6 DEF Foreseen, Filled
  <2>2. \A d \in x.tmp.docs : d.ev \notin Evs(some)
    BY <1>2, <2>1 DEF OneEach, Evs
  <2>3. QED
    BY <1>2, <1>8, <2>1, <2>2
<1>11. \E g : Foreseen(g)'
  BY <1>1, <1>2, <1>3, <1>4, <1>5, <1>6, <1>7, <1>8, <1>9, <1>10, OneMoreTask
<1>12. tasks' \in Seq(Tasks)
  BY <1>1, <1>4, <1>5 DEF IndexInv, IndexTypeOK
<1>13. QED
  BY <1>2, <1>9, <1>11, <1>12 DEF IndexInv, IndexTypeOK

LEMMA IndexerDiesStep ==
  ASSUME IndexInv, IndexerDies
  PROVE  IndexInv'
<1>1. indexer' = None /\ index' = index /\ tasks' = tasks /\ index.live # None
  BY DEF IndexerDies, IndexInv
<1>2. PICK f : Foreseen(f)
  BY <1>1 DEF IndexInv
<1>3. Foreseen(f)'
  BY <1>1, <1>2 DEF Foreseen
<1>4. QED
  BY <1>1, <1>3 DEF IndexInv, IndexTypeOK

\* What was foreseen happens.
LEMMA WorkStep ==
  ASSUME IndexInv, Work
  PROVE  IndexInv'
<1>1. /\ tasks # <<>> /\ tasks' = Tail(tasks) /\ index' = Worked(index, Head(tasks))
      /\ indexer' = indexer /\ index.live # None
  BY DEF Work, IndexInv
<1>2. PICK f : Foreseen(f)
  BY <1>1 DEF IndexInv
<1> DEFINE n == Len(tasks)
<1>3. /\ tasks \in Seq(Tasks) /\ n \in Nat /\ n > 0 /\ Head(tasks) = tasks[1]
      /\ tasks' \in Seq(Tasks) /\ Len(tasks') = n - 1
      /\ \A i \in 1..(n - 1) : tasks'[i] = tasks[i + 1]
  BY <1>1 DEF IndexInv, IndexTypeOK
<1>4. PICK g : g = [i \in 0..(n - 1) |-> f[i + 1]]
  OBVIOUS
<1>5. \A i \in 0..(n - 1) : i + 1 \in 0..n /\ g[i] = f[i + 1]
  BY <1>3, <1>4
<1>6. /\ g \in [0..(n - 1) -> [live : Contents, tmp : Contents]]
      /\ \A i \in 0..(n - 1) : Whole(g[i].live)
  BY <1>2, <1>4, <1>5 DEF Foreseen
<1>7. g[0] = index' /\ g[n - 1] = f[n]
  BY <1>1, <1>2, <1>3, <1>5 DEF Foreseen
<1>8. \A i \in 1..(n - 1) : g[i] = Worked(g[i - 1], tasks'[i])
  <2> TAKE i \in 1..(n - 1)
  <2>1. i \in 0..(n - 1) /\ i - 1 \in 0..(n - 1) /\ i + 1 \in 1..n /\ (i + 1) - 1 = i /\ (i - 1) + 1 = i
    BY <1>3
  <2>2. f[i + 1] = Worked(f[i], tasks[i + 1])
    BY <1>2, <2>1 DEF Foreseen
  <2>3. g[i] = f[i + 1] /\ g[i - 1] = f[i]
    BY <1>5, <2>1
  <2>4. QED
    BY <1>3, <2>2, <2>3
<1>9. Foreseen(g)'
  <2>1. (indexer # None /\ indexer.at = "post" /\ indexer.clean) => Filled(f[n].tmp)
    BY <1>2 DEF Foreseen
  <2>2. (indexer' # None /\ indexer'.at = "post" /\ indexer'.clean) => Filled(g[Len(tasks)].tmp)'
    BY <1>1, <1>3, <1>7, <2>1 DEF Filled
  <2>3. QED
    BY <1>3, <1>6, <1>7, <1>8, <2>2 DEF Foreseen
<1>10. index' \in [live : Contents, tmp : Contents] /\ index'.live # None
  <2>1. 0 \in 0..(n - 1)
    BY <1>3
  <2>2. index' \in [live : Contents, tmp : Contents]
    BY <1>6, <1>7, <2>1
  <2>3. None \notin Contents
    BY DEF Contents, None
  <2>4. QED
    BY <2>2, <2>3
<1>11. QED
  BY <1>1, <1>3, <1>9, <1>10 DEF IndexInv, IndexTypeOK

LEMMA IndexStep ==
  ASSUME CatTypeOK, IndexInv, [Next]_vars
  PROVE  IndexInv'
<1>1. CASE UNCHANGED indexVars
  <2>1. index.live # None => \E f : Foreseen(f)'
    BY <1>1 DEF indexVars, IndexInv, Foreseen, Filled
  <2>2. QED
    BY <1>1, <2>1 DEF indexVars, IndexInv, IndexTypeOK
<1>2. CASE World
  BY <1>1, <1>2 DEF World, Withdraw, Vanish, Reschedule, Tick
<1>3. CASE CacheNext
  BY <1>1, <1>3 DEF CacheNext, Ask, Store, Expire
<1>4. CASE ListNext
  BY <1>1, <1>4 DEF ListNext, Choose, Loaded, LoadMore, MoreLoaded
<1>5. CASE FeedNext
  BY <1>1, <1>5 DEF FeedNext, FeedAsk, FeedLock, FeedStore, BaseExpire
<1>6. CASE ViewNext
  BY <1>1, <1>6 DEF ViewNext, SAdd, SExpire, HIncr, ViewLost
<1>7. CASE Post
  BY <1>7, SwapStep, BatchStep
<1>8. CASE Reindex \/ PostClear \/ IndexerDies \/ Work
  BY <1>8, ReindexStep, PostClearStep, IndexerDiesStep, WorkStep
<1>9. CASE UNCHANGED vars
  BY <1>1, <1>9 DEF vars, readers
<1>10. QED
  BY <1>2, <1>3, <1>4, <1>5, <1>6, <1>7, <1>8, <1>9 DEF Next, IndexNext

LEMMA IndexSound == IndexInv => IndexWhole
<1> SUFFICES ASSUME IndexInv, index.live # None, index.live.clean
             PROVE  index.live.docs = index.live.run
  BY DEF IndexWhole
<1>1. PICK f : Foreseen(f)
  BY DEF IndexInv
<1>2. Len(tasks) \in Nat
  BY DEF IndexInv, IndexTypeOK
<1>3. Whole(index.live)
  BY <1>1, <1>2 DEF Foreseen
<1>4. QED
  BY <1>3 DEF Whole

-----------------------------------------------------------------------------
(* The service.                                                            *)

ReadInv == CatTypeOK /\ ListInv /\ ViewInv /\ FeedInv /\ ScoredInv /\ IndexInv

\* The invariant of the readers holds in every reachable state of the service: the
\* catalogue, the list with the page on its way, the views with those about to be counted,
\* the requests for the feed, what their bases were scored from, and the tasks that
\* Meilisearch has yet to do.
THEOREM ReadersSound == ServiceSpec => []ReadInv
<1>1. ServiceInit => ReadInv
  BY CatInit, ListInit, ViewInit, FeedInit, ScoredInit, IndexInit DEF ServiceInit, ReadInv
<1>2. ReadInv /\ [ServiceNext]_ServiceVars => ReadInv'
  <2> SUFFICES ASSUME ReadInv, [ServiceNext]_ServiceVars PROVE ReadInv'
    OBVIOUS
  <2>1. [Next]_vars
    BY DEF ServiceNext, ServiceVars
  <2>2. CatTypeOK' /\ ListInv'
    BY <2>1, CatStep, ListStep DEF ReadInv, ViewInv
  <2>3. QED
    BY <2>1, <2>2, ViewStep, FeedStep, ScoredStep, IndexStep DEF ReadInv
<1>3. QED
  BY <1>1, <1>2, PTL DEF ServiceSpec

\* ListView appends pages that were cut one by one from an order that each query computed
\* anew, and as long as nothing happened they are the first of that order, each event once,
\* whatever order it is, how long its pages are and which requests failed.
THEOREM PagesAreWhole == ServiceSpec => []PagesWhole
<1>1. ReadInv => PagesWhole
  BY ListSound DEF ReadInv
<1>2. QED
  BY <1>1, ReadersSound, PTL

\* log_view counts a user once per event and day, whatever expires, is lost or dies between
\* SADD, EXPIRE and HINCRBY.
THEOREM ViewsCountedOnce == ServiceSpec => []ViewsHonest
<1>1. ReadInv => ViewsHonest
  BY ViewSound DEF ReadInv
<1>2. QED
  BY <1>1, ReadersSound, PTL

\* Search never reads a half-filled index, nor one with what an earlier run left behind,
\* however many runs of the flow die and however far Meilisearch is behind.
THEOREM SearchReadsWhole == ServiceSpec => []IndexWhole
<1>1. ReadInv => IndexWhole
  BY IndexSound DEF ReadInv
<1>2. QED
  BY <1>1, ReadersSound, PTL

\* _base_scored serves a request from a base of its own day and quarter, a worker scores
\* one at a time, and what a user gets out of a base is cut honestly: no rail repeats an
\* event of an earlier one but for the nearest, and the tile of a collection counts what
\* its full list counts and shows nothing else.
THEOREM FeedIsHonest == ServiceSpec => []FeedHonest
<1>1. ReadInv => FeedHonest
  BY FeedSound DEF ReadInv, ViewInv
<1>2. QED
  BY <1>1, ReadersSound, PTL

\* The rails and the collections are cut honestly for every user there could be, wherever
\* they are and whatever they like.
THEOREM FeedHonestToAll ==
  ServiceSpec => [](\A w \in DOMAIN base : base[w] # None =>
                      \A u \in [here : Int, aff : [Categories -> Nat]] :
                        CutHonestly(Personalize(Scored(base[w]), u), u, base[w].today))
<1>1. ReadInv => \A w \in DOMAIN base : base[w] # None =>
                    \A u \in [here : Int, aff : [Categories -> Nat]] :
                      CutHonestly(Personalize(Scored(base[w]), u), u, base[w].today)
  <2>1. \A u \in [here : Int, aff : [Categories -> Nat]] : Known(u)
    BY DEF Known
  <2>2. QED
    BY <2>1, BasesSound DEF ReadInv, ViewInv
<1>2. QED
  BY <1>1, ReadersSound, PTL

\* Whatever the catalogue has come to, the queries that EventQueryService and the
\* repository compute apart agree: the header of the map at every zoom, the clusters by
\* their counts, the categories, the list and the pins of a filter tell the same number of
\* events (under a lowest price the list may have more), and each pin is found in the sheet,
\* on the page of the venue, in the favourites and in the search, and among what is near
\* it unless as many others as were asked for stand at the very same point.
THEOREM CountsAreRight == ServiceSpec => []QueriesAgree
<1>1. ReadInv => QueriesAgree
  BY QueriesSound DEF ReadInv
<1>2. QED
  BY <1>1, ReadersSound, PTL

\* The same in every scene, those included in which the readers are at other work.
THEOREM QueriesAlwaysAgree ==
  ServiceSpec => [](\A f \in Filters : CountsAgree(f) /\ PinsAgree(f))
<1>1. ReadInv => \A f \in Filters : CountsAgree(f) /\ PinsAgree(f)
  BY CountsRight, PinsCounted DEF ReadInv
<1>2. QED
  BY <1>1, ReadersSound, PTL

\* The calls to the language model stay within the limit beside all this.
THEOREM ServiceCapped == ServiceSpec => []Capped
<1>1. ServiceInit => SlotInv
  BY SlotStart DEF ServiceInit
<1>2. SlotInv /\ [ServiceNext]_ServiceVars => SlotInv'
  <2> SUFFICES ASSUME SlotInv, [ServiceNext]_ServiceVars PROVE SlotInv'
    OBVIOUS
  <2>1. [SlotNext]_slotVars
    BY DEF ServiceNext, ServiceVars
  <2>2. QED
    BY <2>1, SlotStep
<1>3. SlotInv => Capped
  BY DEF SlotInv, Admitted, LocalsFit, Capped
<1>4. QED
  BY <1>1, <1>2, <1>3, PTL DEF ServiceSpec
=============================================================================
