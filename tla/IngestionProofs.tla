-------------------------- MODULE IngestionProofs --------------------------
(***************************************************************************)
(* Theorems about the pipeline.  Of Ingestion: its type invariant; one     *)
(* event in the world is one event on the map; no event of a schedule post *)
(* is lost; no stamp hides a stale event.  Of Places: the halls of one     *)
(* building stay apart.  Of Schedules: the dates that connectors make are  *)
(* honest.  Of Crawl: how little a walk through a changing list misses.    *)
(***************************************************************************)
EXTENDS Ingestion, Places, Crawl, FiniteSetTheorems, WellFoundedInduction, TLAPS

-----------------------------------------------------------------------------
(* Types.                                                                  *)

\* A batch is a part of the set it is taken from.
LEMMA FirstOfSubset == ASSUME NEW S, NEW n PROVE FirstOf(S, n) \subseteq S
  BY DEF FirstOf

\* What a flow reads are versions.
LEMMA ReadNowType ==
  ASSUME TypeOK, NEW S PROVE ReadNow(S) \in [Raws -> Versions]
  BY IngestionAssumption DEF TypeOK, ReadNow, Versions

\* The flows at rest have their types.
LEMMA IdleTypes ==
  /\ Unread \in [Raws -> Versions]
  /\ IdleNorm \in [pc : {"batch", "split", "stamp"}, todo : SUBSET Raws,
                   seen : [Raws -> Versions], kids : SUBSET Raws]
  /\ \A n \in Nat : IdleDed \in [pc : {"batch", "link"}, todo : SUBSET Raws,
                                 seen : [Raws -> Versions], event : 0..n]
  /\ IdleRep \in [raw : Raws \cup {0}, seen : Versions]
<1>1. Unread \in [Raws -> Versions]
  BY IngestionAssumption DEF Unread, Versions
<1>2. 0 \in Versions
  BY IngestionAssumption DEF Versions
<1> QED
  BY <1>1, <1>2 DEF IdleNorm, IdleDed, IdleRep

\* The number of children is a natural number.
LEMMA ChildrenCount ==
  ASSUME NEW r PROVE Cardinality(Children(r)) \in Nat
<1>1. Children(r) \subseteq Raws
  BY DEF Children
<1> QED
  BY <1>1, IngestionAssumption, FS_Subset, FS_CardinalityType

\* So is the number of events that a post is split into.
LEMMA SplitsInNat == \A r \in Raws : 2..Cardinality(Children(r)) \subseteq Nat
  BY ChildrenCount

LEMMA TypeFetch ==
  ASSUME TypeOK, NEW r \in Raws, NEW v \in 1..MaxVersion, Fetch(r, v)
  PROVE  TypeOK'
<1>1. hash' \in [Raws -> Versions]
  <2>1. hash' = [hash EXCEPT ![r] = v]
    BY DEF Fetch, Upsert
  <2>2. v \in Versions
    BY IngestionAssumption DEF Versions
  <2>3. hash \in [Raws -> Versions]
    BY DEF TypeOK
  <2> QED
    BY <2>1, <2>2, <2>3
<1>2. skip' \in [Raws -> Reasons]
  BY DEF TypeOK, Fetch, Upsert, Reasons
<1>3. reverted' \subseteq Raws /\ edited' \subseteq Raws
  BY DEF TypeOK, Fetch
<1> QED
  BY <1>1, <1>2, <1>3 DEF TypeOK, Fetch, events, flows

LEMMA TypeNormalize == ASSUME TypeOK, NormalizeStep PROVE TypeOK'
<1> USE IngestionAssumption
<1>1. CASE NormalizeBatch
  <2>1. norm' \in [pc : {"batch", "split", "stamp"}, todo : SUBSET Raws,
                   seen : [Raws -> Versions], kids : SUBSET Raws]
    <3> DEFINE B == FirstOf(Unprocessed, BatchLimit)
    <3>1. B \subseteq Raws
      BY FirstOfSubset DEF Unprocessed
    <3>2. ReadNow(B) \in [Raws -> Versions]
      BY ReadNowType
    <3>3. norm' = [IdleNorm EXCEPT !.todo = B, !.seen = ReadNow(B)]
      BY <1>1 DEF NormalizeBatch
    <3> HIDE DEF B
    <3> QED
      BY <3>1, <3>2, <3>3, IdleTypes
  <2>2. edited' \subseteq Raws
    BY <1>1 DEF NormalizeBatch, TypeOK
  <2> QED
    BY <1>1, <2>1, <2>2 DEF NormalizeBatch, TypeOK, raws, events
<1>2. ASSUME NEW r \in Raws, NEW why \in Reasons, SkipPost(r, why) PROVE TypeOK'
  BY <1>2 DEF SkipPost, MarkSkipped, TypeOK, Versions, Reasons, events
<1>3. ASSUME NEW r \in Raws, SkipCandidate(r) PROVE TypeOK'
  BY <1>3 DEF SkipCandidate, MarkSkipped, TypeOK, Versions, Reasons, Retired, events
<1>4. ASSUME NEW r \in Raws, SaveCandidate(r) PROVE TypeOK'
  BY <1>4 DEF SaveCandidate, NoCand, TypeOK, raws, events, history
<1>5. ASSUME NEW r \in Raws, StampRaw(r) PROVE TypeOK'
  BY <1>5 DEF StampRaw, TypeOK, events, history
<1>6. ASSUME NEW r \in Raws, NEW n \in 2..Cardinality(Children(r)), SplitPost(r, n)
      PROVE  TypeOK'
  <2>1. n \in Nat
    BY ChildrenCount
  <2>2. FirstOf(Children(r), n) \subseteq Raws
    BY FirstOfSubset DEF Children
  <2> QED
    BY <1>6, <2>1, <2>2 DEF SplitPost, TypeOK, raws, events
<1>7. ASSUME NEW r \in Raws, NEW c \in Raws, UpsertChild(r, c) PROVE TypeOK'
  <2>1. /\ hash' \in [Raws -> Versions]
        /\ skip' \in [Raws -> Reasons]
    BY <1>7 DEF UpsertChild, Upsert, TypeOK, Reasons
  <2>2. norm' \in [pc : {"batch", "split", "stamp"}, todo : SUBSET Raws,
                   seen : [Raws -> Versions], kids : SUBSET Raws]
    BY <1>7 DEF UpsertChild, TypeOK
  <2> QED
    BY <1>7, <2>1, <2>2 DEF UpsertChild, TypeOK, events, history
<1>8. ASSUME NEW r \in Raws, RetirePost(r) PROVE TypeOK'
  BY <1>8 DEF RetirePost, TypeOK, Reasons, Retired, events
<1> QED
  BY <1>1, <1>2, <1>3, <1>4, <1>5, <1>6, <1>7, <1>8 DEF NormalizeStep

LEMMA TypeEnrich == ASSUME TypeOK, EnrichStep PROVE TypeOK'
<1>1. CASE EnrichBatch
  <2>1. enr' \subseteq Raws
    BY <1>1, FirstOfSubset DEF EnrichBatch, Unresolved
  <2> QED
    BY <1>1, <2>1 DEF EnrichBatch, TypeOK, raws, events, history
<1>2. ASSUME NEW r \in Raws, EnrichCandidate(r) PROVE TypeOK'
  <2>1. cand' \in [Raws -> [stage : {"none", "new", "placed"}, ver : Versions]]
    <3>1. cand \in [Raws -> [stage : {"none", "new", "placed"}, ver : Versions]]
      BY DEF TypeOK
    <3>2. cand' = [cand EXCEPT ![r].stage = "placed"]
      BY <1>2 DEF EnrichCandidate
    <3> QED
      BY <3>1, <3>2
  <2>2. enr' \subseteq Raws
    BY <1>2 DEF EnrichCandidate, TypeOK
  <2> QED
    BY <1>2, <2>1, <2>2 DEF EnrichCandidate, TypeOK, raws, events, history
<1> QED
  BY <1>1, <1>2 DEF EnrichStep

\* The type of the prices when n events were made.
PriceType(x, n) == x \in [1..n -> (Raws \cup {0}) \X Versions]

\* What LinkEvent and RefreshRaw write keeps its type.
LEMMA UpsertTypes ==
  ASSUME TypeOK, NEW r \in Raws, NEW e \in 1..made, NEW dates \in Versions,
         NEW offer \in Versions, UpsertOccurrences(r, e, dates, offer)
  PROVE  /\ shown' \in [Raws -> [dates : Versions, offer : Versions]]
         /\ PriceType(price', made)
<1>1. shown' \in [Raws -> [dates : Versions, offer : Versions]]
  BY DEF UpsertOccurrences, TypeOK
<1>2. <<r, offer>> \in (Raws \cup {0}) \X Versions
  OBVIOUS
<1>3. price \in [1..made -> (Raws \cup {0}) \X Versions]
  BY DEF TypeOK
<1>4. price' = [price EXCEPT ![e] = <<r, offer>>] \/ price' = price
  <2>1. price' = [price EXCEPT ![e] = IF Taken(r, offer) THEN <<r, offer>> ELSE price[e]]
    BY DEF UpsertOccurrences
  <2> QED
    BY <1>3, <2>1
<1> QED
  BY <1>1, <1>2, <1>3, <1>4 DEF PriceType

\* The type of the dedup flow when n events were made.
DedType(x, n) ==
  x \in [pc : {"batch", "link"}, todo : SUBSET Raws, seen : [Raws -> Versions],
         event : 0..n]

LEMMA TypeDedup == ASSUME TypeOK, LinkInv, DedupStep PROVE TypeOK'
<1> USE IngestionAssumption
<1>1. CASE DedupBatch
  <2>1. ded' \in [pc : {"batch", "link"}, todo : SUBSET Raws,
                  seen : [Raws -> Versions], event : 0..made]
    <3> DEFINE B == FirstOf(Unlinked, BatchLimit)
    <3>1. B \subseteq Raws
      BY FirstOfSubset DEF Unlinked
    <3>2. ReadNow(B) \in [Raws -> Versions]
      BY ReadNowType
    <3>3. ded' = [IdleDed EXCEPT !.todo = B, !.seen = ReadNow(B)]
      BY <1>1 DEF DedupBatch
    <3>4. made \in Nat
      BY DEF TypeOK
    <3> HIDE DEF B
    <3> QED
      BY <3>1, <3>2, <3>3, <3>4, IdleTypes
  <2> QED
    BY <1>1, <2>1 DEF DedupBatch, TypeOK, raws, events, history
<1>2. ASSUME NEW r \in Raws, DropLecture(r) PROVE TypeOK'
  <2>1. cand' \in [Raws -> [stage : {"none", "new", "placed"}, ver : Versions]]
    BY <1>2 DEF DropLecture, NoCand, TypeOK, Versions
  <2>2. DedType(ded', made)
    BY <1>2 DEF DropLecture, TypeOK, DedType
  <2>3. dropped' \subseteq Raws
    BY <1>2 DEF DropLecture, TypeOK
  <2> QED
    BY <1>2, <2>1, <2>2, <2>3 DEF DropLecture, TypeOK, DedType, raws, events
<1>3. ASSUME NEW r \in Raws, MatchEvent(r) PROVE TypeOK'
  <2>1. PICK s \in Raws : ded' = [ded EXCEPT !.pc = "link", !.event = link[s]]
    BY <1>3 DEF MatchEvent, Twins
  <2>2. link[s] \in 0..made
    BY DEF TypeOK
  <2>3. DedType(ded', made)
    BY <2>1, <2>2 DEF TypeOK, DedType
  <2> QED
    BY <1>3, <2>3 DEF MatchEvent, TypeOK, DedType, raws, events, history
<1>4. ASSUME NEW r \in Raws, CreateEvent(r) PROVE TypeOK'
  <2>1. made \in Nat /\ made' = made + 1
    BY <1>4 DEF CreateEvent, TypeOK
  <2>2. 0..made \subseteq 0..made' /\ made' \in 0..made' /\ made' \in Nat
    BY <2>1
  <2>3. DedType(ded', made')
    BY <1>4, <2>1, <2>2 DEF CreateEvent, TypeOK, DedType
  <2>4. link' \in [Raws -> 0..made']
    BY <1>4, <2>2 DEF CreateEvent, TypeOK
  <2>5. PriceType(price', made')
    <3>1. price' = [e \in 1..made' |-> IF e <= made THEN price[e] ELSE NoPrice]
      BY <1>4 DEF CreateEvent
    <3>2. NoPrice \in (Raws \cup {0}) \X Versions
      BY DEF NoPrice, Versions
    <3>3. \A e \in 1..made' : e <= made => price[e] \in (Raws \cup {0}) \X Versions
      BY <2>1 DEF TypeOK
    <3> QED
      BY <3>1, <3>2, <3>3 DEF PriceType
  <2> QED
    BY <1>4, <2>2, <2>3, <2>4, <2>5 DEF CreateEvent, TypeOK, DedType, PriceType, raws, history
<1>5. ASSUME NEW r \in Raws, LinkEvent(r) PROVE TypeOK'
  <2>1. DedType(ded', made)
    <3>1. ded' = [ded EXCEPT !.pc = "batch", !.todo = @ \ {r}, !.event = 0]
      BY <1>5 DEF LinkEvent
    <3>2. DedType(ded, made) /\ made \in Nat
      BY DEF TypeOK, DedType
    <3>3. 0 \in 0..made /\ ded.todo \ {r} \in SUBSET Raws
      BY <3>2 DEF DedType
    <3> QED
      BY <3>1, <3>2, <3>3 DEF DedType
  <2>2. link' \in [Raws -> 0..made]
    BY <1>5 DEF LinkEvent, TypeOK
  <2>3. /\ shown' \in [Raws -> [dates : Versions, offer : Versions]]
        /\ PriceType(price', made)
    <3>1. ded.seen[r] \in Versions /\ cand[r].ver \in Versions
      BY DEF TypeOK
    <3>2. ded.event \in 1..made
      BY <1>5 DEF LinkEvent, LinkInv, TypeOK
    <3>3. UpsertOccurrences(r, ded.event, ded.seen[r], cand[r].ver)
      BY <1>5 DEF LinkEvent
    <3> QED
      BY <3>1, <3>2, <3>3, UpsertTypes
  <2> QED
    BY <1>5, <2>1, <2>2, <2>3 DEF LinkEvent, TypeOK, DedType, PriceType, raws, history
<1>6. ASSUME NEW r \in Raws, RaiseDedup(r) PROVE TypeOK'
  <2>1. DedType(ded', made)
    BY <1>6, IdleTypes DEF RaiseDedup, TypeOK, DedType
  <2>2. faults' \in 0..MaxFaults
    BY <1>6 DEF RaiseDedup, TypeOK
  <2> QED
    BY <1>6, <2>1, <2>2 DEF RaiseDedup, TypeOK, DedType, raws, events, history
<1> QED
  BY <1>1, <1>2, <1>3, <1>4, <1>5, <1>6 DEF DedupStep

\* A refresh keeps the type of the candidates.
LEMMA CandRefreshed ==
  ASSUME TypeOK, NEW r \in Raws, cand' = [cand EXCEPT ![r].ver = rep.seen]
  PROVE  cand' \in [Raws -> [stage : {"none", "new", "placed"}, ver : Versions]]
<1>1. rep.seen \in Versions
  BY DEF TypeOK
<1>2. cand \in [Raws -> [stage : {"none", "new", "placed"}, ver : Versions]]
  BY DEF TypeOK
<1> QED
  BY <1>1, <1>2

LEMMA TypeReprocess == ASSUME TypeOK, ReprocessStep PROVE TypeOK'
<1>1. ASSUME NEW r \in Raws, ReadStale(r) PROVE TypeOK'
  BY <1>1 DEF ReadStale, TypeOK, raws, events, history
<1>2. ASSUME NEW r \in Raws, RefreshRaw(r) PROVE TypeOK'
  <2>1. /\ shown' \in [Raws -> [dates : Versions, offer : Versions]]
        /\ PriceType(price', made)
    <3>1. rep.seen \in Versions
      BY DEF TypeOK
    <3>2. CASE link[r] = 0
      BY <1>2, <3>2 DEF RefreshRaw, TypeOK, PriceType
    <3>3. CASE link[r] # 0
      <4>1. link[r] \in 1..made
        BY <3>3 DEF TypeOK
      <4>2. UpsertOccurrences(r, link[r], rep.seen, rep.seen)
        BY <1>2, <3>3 DEF RefreshRaw
      <4> QED
        BY <3>1, <4>1, <4>2, UpsertTypes
    <3> QED
      BY <3>2, <3>3
  <2>2. cand' \in [Raws -> [stage : {"none", "new", "placed"}, ver : Versions]]
    BY <1>2, CandRefreshed DEF RefreshRaw
  <2>3. stamp' \in [Raws -> Versions] /\ frozen' \subseteq Raws
    BY <1>2 DEF RefreshRaw, TypeOK
  <2> QED
    BY <1>2, <2>1, <2>2, <2>3, IdleTypes DEF RefreshRaw, TypeOK, PriceType
<1> QED
  BY <1>1, <1>2 DEF ReprocessStep

LEMMA TypeRetry == ASSUME TypeOK, RetryTransient PROVE TypeOK'
<1>1. skip' \in [Raws -> Reasons]
  BY DEF RetryTransient, TypeOK, Reasons, Retired
<1>2. Reopened \subseteq Failed \ Exhausted
  BY DEF Reopened, LastOf
<1>3. attempts' \in [Raws -> 0..MaxAttempts]
  <2> DEFINE next(r) == IF r \in Reopened THEN attempts[r] + 1 ELSE attempts[r]
  <2>1. ASSUME NEW r \in Raws PROVE next(r) \in 0..MaxAttempts
    <3>1. attempts[r] \in 0..MaxAttempts /\ MaxAttempts \in Nat
      BY IngestionAssumption DEF TypeOK
    <3>2. r \in Reopened => attempts[r] < MaxAttempts
      BY <1>2, <3>1 DEF Exhausted
    <3> QED
      BY <3>1, <3>2
  <2>2. attempts' = [r \in Raws |-> next(r)]
    BY DEF RetryTransient
  <2> HIDE DEF next
  <2> QED
    BY <2>1, <2>2
<1> QED
  BY <1>1, <1>3 DEF RetryTransient, TypeOK, events, flows, history

LEMMA TypeFailure == ASSUME TypeOK, Failure PROVE TypeOK'
<1> USE IngestionAssumption, IdleTypes
<1>1. CASE LoseFlow
  <2>1. made \in Nat
    BY DEF TypeOK
  <2>2. faults' \in 0..MaxFaults
    BY <1>1 DEF LoseFlow, TypeOK
  <2>3. \/ norm' = IdleNorm /\ UNCHANGED <<enr, ded, rep>>
        \/ enr' = {} /\ UNCHANGED <<norm, ded, rep>>
        \/ ded' = IdleDed /\ UNCHANGED <<norm, enr, rep>>
        \/ rep' = IdleRep /\ UNCHANGED <<norm, enr, ded>>
    BY <1>1 DEF LoseFlow
  <2>4. UNCHANGED <<raws, cand, events, history>>
    BY <1>1 DEF LoseFlow
  <2> QED
    BY <2>1, <2>2, <2>3, <2>4 DEF TypeOK, raws, events, history
<1>2. ASSUME NEW r \in Raws, SkipEnrich(r) PROVE TypeOK'
  <2>1. faults' \in 0..MaxFaults /\ enr' \subseteq Raws
    BY <1>2 DEF SkipEnrich, TypeOK
  <2> QED
    BY <1>2, <2>1 DEF SkipEnrich, TypeOK, raws, events, history
<1>3. ASSUME NEW r \in Raws, RefreshWithout(r) PROVE TypeOK'
  <2>1. cand' \in [Raws -> [stage : {"none", "new", "placed"}, ver : Versions]]
    BY <1>3, CandRefreshed DEF RefreshWithout
  <2>2. /\ stamp' \in [Raws -> Versions]
        /\ frozen' \subseteq Raws
        /\ faults' \in 0..MaxFaults
    BY <1>3 DEF RefreshWithout, TypeOK
  <2> QED
    BY <1>3, <2>1, <2>2 DEF RefreshWithout, TypeOK, events
<1>4. ASSUME NEW r \in Raws, StampFailed(r) PROVE TypeOK'
  <2>1. faults' \in 0..MaxFaults
    BY <1>4 DEF StampFailed, TypeOK
  <2>2. stamp' \in [Raws -> Versions] /\ frozen' \subseteq Raws
    BY <1>4 DEF StampFailed, TypeOK
  <2>3. rep' = IdleRep
    BY <1>4 DEF StampFailed
  <2> QED
    BY <1>4, <2>1, <2>2, <2>3 DEF StampFailed, TypeOK, events
<1> QED
  BY <1>1, <1>2, <1>3, <1>4 DEF Failure

LEMMA TypeStep == ASSUME TypeOK, LinkInv, [Next]_vars PROVE TypeOK'
<1>1. CASE UNCHANGED vars
  BY <1>1 DEF vars, raws, events, flows, history, TypeOK
<1> QED
  BY <1>1, TypeFetch, TypeNormalize, TypeEnrich, TypeDedup, TypeReprocess,
     TypeRetry, TypeFailure DEF Next

LEMMA InitType == Init => TypeOK
<1> SUFFICES ASSUME Init PROVE TypeOK
  OBVIOUS
<1>1. 0 \in Versions /\ 0 \in 0..MaxAttempts /\ 0 \in 0..MaxFaults
  BY IngestionAssumption DEF Versions
<1>2. skip \in [Raws -> Reasons]
  BY DEF Init, Reasons
<1>3. cand \in [Raws -> [stage : {"none", "new", "placed"}, ver : Versions]]
  BY <1>1 DEF Init, NoCand
<1>4. shown \in [Raws -> [dates : Versions, offer : Versions]]
  BY <1>1 DEF Init, Nothing
<1>5. /\ attempts \in [Raws -> 0..MaxAttempts]
      /\ link \in [Raws -> 0..made] /\ made \in Nat
      /\ fan \in [Raws -> Nat]
  <2>1. made = 0
    BY Zenon DEF Init
  <2>2. /\ attempts = [r \in Raws |-> 0]
        /\ link = [r \in Raws |-> 0]
        /\ fan = [r \in Raws |-> 0]
    BY DEF Init, Unread
  <2>3. 0 \in 0..0 /\ 0 \in Nat
    OBVIOUS
  <2> QED
    BY <1>1, <2>1, <2>2, <2>3
<1>6. DedType(ded, made)
  BY <1>5, IdleTypes DEF Init, DedType
<1>7. PriceType(price, made)
  <2>1. price = [e \in {} |-> NoPrice] /\ made = 0
    BY Zenon DEF Init
  <2>2. 1..0 = {}
    OBVIOUS
  <2> QED
    BY <2>1, <2>2 DEF PriceType
<1> QED
  BY <1>1, <1>2, <1>3, <1>4, <1>5, <1>6, <1>7, IdleTypes
  DEF Init, TypeOK, DedType, PriceType

-----------------------------------------------------------------------------
(* Where the flows are.                                                    *)

\* A batch has one first element.
LEMMA FirstUnique ==
  ASSUME NEW S \in SUBSET Raws, NEW r, NEW s, IsFirst(r, S), IsFirst(s, S)
  PROVE  r = s
<1>1. r \in Nat /\ s \in Nat /\ r <= s /\ s <= r
  BY IngestionAssumption DEF IsFirst
<1> QED
  BY <1>1

\* normalize-raw retires r, whatever for.
Skips(r) == SkipCandidate(r) \/ \E why \in Reasons : SkipPost(r, why)

\* What a record of a flow holds after its step.
LEMMA NormFields ==
  ASSUME TypeOK
  PROVE  /\ norm.todo \subseteq Raws /\ norm.kids \subseteq Raws
         /\ norm.seen \in [Raws -> Versions]
         /\ NormalizeBatch =>
              /\ norm'.todo \subseteq Unprocessed /\ norm'.pc = "batch"
              /\ norm'.kids = {} /\ norm'.seen = ReadNow(norm'.todo)
         /\ \A r \in Raws : Skips(r) =>
              /\ norm.pc = "batch" /\ IsFirst(r, norm.todo)
              /\ norm'.todo = norm.todo \ {r} /\ norm'.pc = "batch"
              /\ norm'.seen = norm.seen
         /\ \A r \in Raws : SaveCandidate(r) =>
              /\ norm.pc = "batch" /\ IsFirst(r, norm.todo)
              /\ norm'.todo = norm.todo /\ norm'.pc = "stamp"
              /\ norm'.seen = norm.seen
         /\ \A r \in Raws : StampRaw(r) =>
              /\ Stamping(r)
              /\ norm'.todo = norm.todo \ {r} /\ norm'.pc = "batch"
              /\ norm'.seen = norm.seen
         /\ \A r \in Raws, n \in Nat : SplitPost(r, n) =>
              /\ norm.pc = "batch" /\ IsFirst(r, norm.todo)
              /\ norm'.todo = norm.todo /\ norm'.pc = "split"
              /\ norm'.seen = norm.seen
              /\ norm'.kids = FirstOf(Children(r), n)
         /\ \A r \in Raws, c \in Raws : UpsertChild(r, c) =>
              /\ Splitting(r)
              /\ norm'.todo = norm.todo /\ norm'.pc = "split"
              /\ norm'.kids = norm.kids \ {c} /\ c \in norm.kids
              /\ norm'.seen = [norm.seen EXCEPT ![c] = norm'.seen[c]]
         /\ \A r \in Raws : RetirePost(r) =>
              /\ Splitting(r) /\ norm.kids = {}
              /\ norm'.todo = norm.todo \ {r} /\ norm'.pc = "batch"
              /\ norm'.seen = norm.seen
<1>1. /\ norm.todo \subseteq Raws /\ norm.kids \subseteq Raws
      /\ norm.seen \in [Raws -> Versions]
      /\ norm \in [pc : {"batch", "split", "stamp"}, todo : SUBSET Raws,
                   seen : [Raws -> Versions], kids : SUBSET Raws]
  BY DEF TypeOK
<1>2. NormalizeBatch =>
        /\ norm'.todo \subseteq Unprocessed /\ norm'.pc = "batch"
        /\ norm'.kids = {} /\ norm'.seen = ReadNow(norm'.todo)
  <2> DEFINE B == FirstOf(Unprocessed, BatchLimit)
  <2>1. NormalizeBatch => norm' = [IdleNorm EXCEPT !.todo = B, !.seen = ReadNow(B)]
    BY DEF NormalizeBatch
  <2>2. B \subseteq Unprocessed
    BY FirstOfSubset
  <2> HIDE DEF B
  <2> QED
    BY <2>1, <2>2 DEF IdleNorm
<1>3. ASSUME NEW r \in Raws, Skips(r)
      PROVE  /\ norm.pc = "batch" /\ IsFirst(r, norm.todo)
             /\ norm'.todo = norm.todo \ {r} /\ norm'.pc = "batch"
             /\ norm'.seen = norm.seen
  <2>1. Normalizing(r) /\ norm' = [norm EXCEPT !.todo = @ \ {r}]
    BY <1>3 DEF Skips, SkipPost, SkipCandidate, MarkSkipped
  <2> QED
    BY <1>1, <2>1 DEF Normalizing
<1>4. ASSUME NEW r \in Raws, SaveCandidate(r)
      PROVE  /\ norm.pc = "batch" /\ IsFirst(r, norm.todo)
             /\ norm'.todo = norm.todo /\ norm'.pc = "stamp"
             /\ norm'.seen = norm.seen
  <2>1. Normalizing(r) /\ norm' = [norm EXCEPT !.pc = "stamp"]
    BY <1>4 DEF SaveCandidate
  <2> QED
    BY <1>1, <2>1 DEF Normalizing
<1>5. ASSUME NEW r \in Raws, StampRaw(r)
      PROVE  /\ Stamping(r)
             /\ norm'.todo = norm.todo \ {r} /\ norm'.pc = "batch"
             /\ norm'.seen = norm.seen
  <2>1. Stamping(r) /\ norm' = [norm EXCEPT !.pc = "batch", !.todo = @ \ {r}]
    BY <1>5 DEF StampRaw, Stamping
  <2> QED
    BY <1>1, <2>1
<1>6. ASSUME NEW r \in Raws, NEW n \in Nat, SplitPost(r, n)
      PROVE  /\ norm.pc = "batch" /\ IsFirst(r, norm.todo)
             /\ norm'.todo = norm.todo /\ norm'.pc = "split"
             /\ norm'.seen = norm.seen
             /\ norm'.kids = FirstOf(Children(r), n)
  <2> DEFINE K == FirstOf(Children(r), n)
  <2>1. Normalizing(r) /\ norm' = [norm EXCEPT !.pc = "split", !.kids = K]
    BY <1>6 DEF SplitPost
  <2> HIDE DEF K
  <2>2. /\ norm.pc = "batch" /\ IsFirst(r, norm.todo)
        /\ norm'.todo = norm.todo /\ norm'.pc = "split"
        /\ norm'.seen = norm.seen
        /\ norm'.kids = K
    BY <1>1, <2>1 DEF Normalizing
  <2> QED
    BY <2>2 DEF K
<1>7. ASSUME NEW r \in Raws, NEW c \in Raws, UpsertChild(r, c)
      PROVE  /\ Splitting(r)
             /\ norm'.todo = norm.todo /\ norm'.pc = "split"
             /\ norm'.kids = norm.kids \ {c} /\ c \in norm.kids
             /\ norm'.seen = [norm.seen EXCEPT ![c] = norm'.seen[c]]
  <2> DEFINE v == IF c \in norm.todo THEN norm.seen[r] ELSE norm.seen[c]
  <2>1. /\ Splitting(r) /\ c \in norm.kids /\ norm.pc = "split"
        /\ norm' = [norm EXCEPT !.kids = @ \ {c}, !.seen[c] = v]
    BY <1>7 DEF UpsertChild, Splitting, IsFirst
  <2> HIDE DEF v
  <2>2. /\ norm'.todo = norm.todo /\ norm'.pc = norm.pc
        /\ norm'.kids = norm.kids \ {c}
        /\ norm'.seen = [norm.seen EXCEPT ![c] = v]
    BY <1>1, <2>1
  <2>3. norm'.seen[c] = v
    BY <1>1, <2>2
  <2> QED
    BY <2>1, <2>2, <2>3
<1>8. ASSUME NEW r \in Raws, RetirePost(r)
      PROVE  /\ Splitting(r) /\ norm.kids = {}
             /\ norm'.todo = norm.todo \ {r} /\ norm'.pc = "batch"
             /\ norm'.seen = norm.seen
  <2>1. /\ Splitting(r) /\ norm.kids = {}
        /\ norm' = [norm EXCEPT !.pc = "batch", !.todo = @ \ {r}]
    BY <1>8 DEF RetirePost, Splitting
  <2> QED
    BY <1>1, <2>1
<1> QED
  BY <1>1, <1>2, <1>3, <1>4, <1>5, <1>6, <1>7, <1>8

\* The same for the dedup flow.
LEMMA DedFields ==
  ASSUME TypeOK
  PROVE  /\ ded.todo \subseteq Raws /\ ded.seen \in [Raws -> Versions]
         /\ DedupBatch =>
              /\ ded'.todo \subseteq Unlinked /\ ded'.pc = "batch"
              /\ ded'.seen = ReadNow(ded'.todo)
         /\ \A r \in Raws : MatchEvent(r) =>
              /\ IsFirst(r, ded.todo) /\ ded'.pc = "link"
              /\ ded'.todo = ded.todo /\ ded'.seen = ded.seen
              /\ \E s \in Twins(r) : ded'.event = link[s]
         /\ \A r \in Raws : CreateEvent(r) =>
              /\ IsFirst(r, ded.todo) /\ ded'.pc = "link"
              /\ ded'.todo = ded.todo /\ ded'.seen = ded.seen
              /\ ded'.event = made + 1
         /\ \A r \in Raws : LinkEvent(r) \/ DropLecture(r) =>
              /\ IsFirst(r, ded.todo) /\ ded'.pc = "batch"
              /\ ded'.todo = ded.todo \ {r} /\ ded'.seen = ded.seen
<1>1. /\ ded.todo \subseteq Raws /\ ded.seen \in [Raws -> Versions]
      /\ ded \in [pc : {"batch", "link"}, todo : SUBSET Raws,
                  seen : [Raws -> Versions], event : 0..made]
  BY DEF TypeOK
<1>2. DedupBatch =>
        /\ ded'.todo \subseteq Unlinked /\ ded'.pc = "batch"
        /\ ded'.seen = ReadNow(ded'.todo)
  <2> DEFINE B == FirstOf(Unlinked, BatchLimit)
  <2>1. DedupBatch => ded' = [IdleDed EXCEPT !.todo = B, !.seen = ReadNow(B)]
    BY DEF DedupBatch
  <2>2. B \subseteq Unlinked
    BY FirstOfSubset
  <2> HIDE DEF B
  <2> QED
    BY <2>1, <2>2 DEF IdleDed
<1>3. ASSUME NEW r \in Raws, MatchEvent(r)
      PROVE  /\ IsFirst(r, ded.todo) /\ ded'.pc = "link"
             /\ ded'.todo = ded.todo /\ ded'.seen = ded.seen
             /\ \E s \in Twins(r) : ded'.event = link[s]
  <2>1. PICK s \in Twins(r) : ded' = [ded EXCEPT !.pc = "link", !.event = link[s]]
    BY <1>3 DEF MatchEvent
  <2>2. IsFirst(r, ded.todo)
    BY <1>3 DEF MatchEvent, Deduping
  <2>3. /\ ded'.pc = "link" /\ ded'.todo = ded.todo /\ ded'.seen = ded.seen
        /\ ded'.event = link[s]
    BY <1>1, <2>1
  <2> QED
    BY <2>2, <2>3
<1>4. ASSUME NEW r \in Raws, CreateEvent(r)
      PROVE  /\ IsFirst(r, ded.todo) /\ ded'.pc = "link"
             /\ ded'.todo = ded.todo /\ ded'.seen = ded.seen
             /\ ded'.event = made + 1
  <2>1. /\ IsFirst(r, ded.todo)
        /\ ded' = [ded EXCEPT !.pc = "link", !.event = made + 1]
    BY <1>4 DEF CreateEvent, Deduping
  <2> QED
    BY <1>1, <2>1
<1>5. ASSUME NEW r \in Raws, LinkEvent(r)
      PROVE  /\ IsFirst(r, ded.todo) /\ ded'.pc = "batch"
             /\ ded'.todo = ded.todo \ {r} /\ ded'.seen = ded.seen
  <2>1. /\ IsFirst(r, ded.todo)
        /\ ded' = [ded EXCEPT !.pc = "batch", !.todo = @ \ {r}, !.event = 0]
    BY <1>5 DEF LinkEvent
  <2> QED
    BY <1>1, <2>1
<1>6. ASSUME NEW r \in Raws, DropLecture(r)
      PROVE  /\ IsFirst(r, ded.todo) /\ ded'.pc = "batch"
             /\ ded'.todo = ded.todo \ {r} /\ ded'.seen = ded.seen
  <2>1. /\ IsFirst(r, ded.todo) /\ ded.pc = "batch"
        /\ ded' = [ded EXCEPT !.todo = @ \ {r}]
    BY <1>6 DEF DropLecture, Deduping
  <2> QED
    BY <1>1, <2>1
<1> QED
  BY <1>1, <1>2, <1>3, <1>4, <1>5, <1>6

\* What a kill leaves of the flows.
LEMMA LostFields ==
  ASSUME LoseFlow
  PROVE  /\ UNCHANGED <<hash, skip, stamp, attempts, cand, link, shown, price, made,
                        judged, fan, dropped, reverted, frozen, edited>>
         /\ UNCHANGED norm \/ (norm'.todo = {} /\ norm'.pc = "batch")
         /\ UNCHANGED enr \/ enr' = {}
         /\ UNCHANGED ded \/ (ded'.todo = {} /\ ded'.pc = "batch")
         /\ UNCHANGED rep \/ rep'.raw = 0
<1>1. /\ IdleNorm.todo = {} /\ IdleNorm.pc = "batch"
      /\ IdleDed.todo = {} /\ IdleDed.pc = "batch" /\ IdleRep.raw = 0
  BY DEF IdleNorm, IdleDed, IdleRep
<1>2. UNCHANGED <<hash, skip, stamp, attempts, cand, link, shown, price, made,
                  judged, fan, dropped, reverted, frozen, edited>>
  BY DEF LoseFlow, raws, events, history
<1>3. \/ norm' = IdleNorm /\ UNCHANGED <<enr, ded, rep>>
      \/ enr' = {} /\ UNCHANGED <<norm, ded, rep>>
      \/ ded' = IdleDed /\ UNCHANGED <<norm, enr, rep>>
      \/ rep' = IdleRep /\ UNCHANGED <<norm, enr, ded>>
  BY DEF LoseFlow
<1> QED
  BY <1>1, <1>2, <1>3

LEMMA StageStep == ASSUME TypeOK, StageInv, [Next]_vars PROVE StageInv'
<1> USE DEF Stamping
<1>1. CASE UNCHANGED vars
  BY <1>1 DEF vars, raws, events, flows, history, StageInv, IsFirst
<1>2. ASSUME UNCHANGED <<cand, link, norm, enr, ded, rep>> PROVE StageInv'
  BY <1>2 DEF StageInv, IsFirst
<1>3. ASSUME NEW r \in Raws, NEW v \in 1..MaxVersion, Fetch(r, v) PROVE StageInv'
  BY <1>2, <1>3 DEF Fetch, events, flows
<1>4. CASE NormalizeBatch
  BY <1>4, NormFields DEF NormalizeBatch, Unprocessed, StageInv, raws, events
<1>5. ASSUME NEW r \in Raws, Skips(r) PROVE StageInv'
  <2>1. UNCHANGED <<cand, link, enr, ded, rep>>
    BY <1>5 DEF Skips, SkipPost, SkipCandidate, MarkSkipped, events
  <2> QED
    BY <1>5, <2>1, NormFields DEF StageInv
<1>6. ASSUME NEW r \in Raws, SaveCandidate(r) PROVE StageInv'
  <2>1. /\ cand' = [cand EXCEPT ![r] = [NoCand EXCEPT !.stage = "new",
                                                     !.ver = norm.seen[r]]]
        /\ UNCHANGED <<link, enr, ded, rep>>
    BY <1>6 DEF SaveCandidate, events
  <2>2. cand[r].stage = "none"
    BY <1>6, NormFields DEF StageInv, IsFirst
  <2>3. /\ cand'[r].stage = "new"
        /\ \A s \in Raws \ {r} : cand'[s] = cand[s]
    BY <2>1 DEF TypeOK, NoCand
  <2>4. r \notin ded.todo /\ link[r] = 0
    BY <2>2 DEF StageInv, TypeOK
  <2>5. rep.raw \in Raws \cup {0}
    BY DEF TypeOK
  <2>6. \A s \in norm'.todo : Stamping(s)' \/ cand'[s].stage = "none"
    <3>1. Stamping(r)'
      BY <1>6, NormFields DEF IsFirst
    <3>2. ASSUME NEW s \in norm'.todo, s # r PROVE cand'[s].stage = "none"
      BY <1>6, <2>3, <3>2, NormFields DEF StageInv
    <3> QED
      BY <3>1, <3>2
  <2>7. enr \subseteq Raws /\ ded.todo \subseteq Raws
    BY DEF TypeOK
  <2> QED
    BY <2>1, <2>3, <2>4, <2>5, <2>6, <2>7 DEF StageInv
<1>7. ASSUME NEW r \in Raws, StampRaw(r) PROVE StageInv'
  <2>1. UNCHANGED <<cand, link, enr, ded, rep>>
    BY <1>7 DEF StampRaw, events
  <2>2. \A s \in norm'.todo : cand[s].stage = "none"
    <3> SUFFICES ASSUME NEW s \in norm.todo, s # r PROVE cand[s].stage = "none"
      BY <1>7, NormFields
    <3>1. ~Stamping(s)
      BY <1>7, FirstUnique, NormFields
    <3> QED
      BY <3>1 DEF StageInv
  <2> QED
    BY <2>1, <2>2 DEF StageInv
<1>8. ASSUME NEW r \in Raws, NEW n \in Nat, SplitPost(r, n) PROVE StageInv'
  <2>1. UNCHANGED <<cand, link, enr, ded, rep>>
    BY <1>8 DEF SplitPost, events
  <2> QED
    BY <1>8, <2>1, NormFields DEF StageInv
<1>9. ASSUME NEW r \in Raws, NEW c \in Raws, UpsertChild(r, c) PROVE StageInv'
  <2>1. UNCHANGED <<cand, link, enr, ded, rep>>
    BY <1>9 DEF UpsertChild, events
  <2> QED
    BY <1>9, <2>1, NormFields DEF StageInv, Splitting
<1>10. ASSUME NEW r \in Raws, RetirePost(r) PROVE StageInv'
  <2>1. UNCHANGED <<cand, link, enr, ded, rep>>
    BY <1>10 DEF RetirePost, events
  <2> QED
    BY <1>10, <2>1, NormFields DEF StageInv, Splitting
<1>11. CASE EnrichBatch
  <2>1. enr' \subseteq Unresolved
    BY <1>11, FirstOfSubset DEF EnrichBatch
  <2> QED
    BY <1>11, <2>1 DEF EnrichBatch, Unresolved, StageInv, raws, events, IsFirst
<1>12. ASSUME NEW r \in Raws, EnrichCandidate(r) PROVE StageInv'
  <2>1. /\ r \in enr /\ cand[r].stage = "new"
        /\ cand' = [cand EXCEPT ![r].stage = "placed"] /\ enr' = enr \ {r}
        /\ UNCHANGED <<link, norm, ded, rep>>
    BY <1>12 DEF EnrichCandidate, StageInv, events, IsFirst
  <2>2. /\ cand'[r].stage = "placed"
        /\ \A s \in Raws \ {r} : cand'[s] = cand[s]
    BY <2>1 DEF TypeOK
  <2>3. /\ enr \subseteq Raws /\ ded.todo \subseteq Raws /\ norm.todo \subseteq Raws
        /\ rep.raw \in Raws \cup {0}
    BY DEF TypeOK
  <2> QED
    BY <2>1, <2>2, <2>3 DEF StageInv, IsFirst
<1>13. CASE DedupBatch
  BY <1>13, DedFields DEF DedupBatch, Unlinked, StageInv, raws, events, IsFirst
<1>14. ASSUME NEW r \in Raws, DropLecture(r) PROVE StageInv'
  <2>1. /\ cand' = [cand EXCEPT ![r] = NoCand] /\ r \in ded.todo
        /\ ded'.todo = ded.todo \ {r}
        /\ UNCHANGED <<link, norm, enr, rep>>
    BY <1>14, DedFields DEF DropLecture, events, IsFirst
  <2>2. /\ cand'[r].stage = "none"
        /\ \A s \in Raws \ {r} : cand'[s] = cand[s]
    BY <2>1 DEF TypeOK, NoCand
  <2>3. link[r] = 0 /\ r \notin enr
    BY <2>1 DEF StageInv
  <2>4. /\ enr \subseteq Raws /\ ded.todo \subseteq Raws /\ norm.todo \subseteq Raws
        /\ rep.raw \in Raws \cup {0}
    BY DEF TypeOK
  <2> QED
    BY <2>1, <2>2, <2>3, <2>4 DEF StageInv, IsFirst
<1>15. ASSUME NEW r \in Raws, MatchEvent(r) \/ CreateEvent(r) PROVE StageInv'
  <2>1. /\ ded'.todo = ded.todo
        /\ UNCHANGED <<cand, link, norm, enr, rep>>
    BY <1>15, DedFields DEF MatchEvent, CreateEvent, events
  <2> QED
    BY <2>1 DEF StageInv, IsFirst
<1>16. ASSUME NEW r \in Raws, LinkEvent(r) PROVE StageInv'
  <2>1. /\ link' = [link EXCEPT ![r] = ded.event] /\ r \in ded.todo
        /\ ded'.todo = ded.todo \ {r}
        /\ UNCHANGED <<cand, norm, enr, rep>>
    BY <1>16, DedFields DEF LinkEvent, IsFirst
  <2>2. \A s \in Raws \ {r} : link'[s] = link[s]
    BY <2>1 DEF TypeOK
  <2>3. cand[r].stage = "placed" /\ link[r] = 0
    BY <2>1 DEF StageInv
  <2>4. ded.todo \subseteq Raws /\ rep.raw \in Raws \cup {0}
    BY DEF TypeOK
  <2> QED
    BY <2>1, <2>2, <2>3, <2>4 DEF StageInv, IsFirst
<1>17. ASSUME NEW r \in Raws, RaiseDedup(r) PROVE StageInv'
  <2>1. ded'.todo = {} /\ UNCHANGED <<cand, link, norm, enr, rep>>
    BY <1>17 DEF RaiseDedup, IdleDed, events
  <2> QED
    BY <2>1 DEF StageInv, IsFirst
<1>18. ASSUME NEW r \in Raws, ReadStale(r) PROVE StageInv'
  <2>1. /\ link[r] # 0 /\ rep'.raw = r
        /\ UNCHANGED <<cand, link, norm, enr, ded>>
    BY <1>18 DEF ReadStale, Stale, events
  <2> QED
    BY <2>1 DEF StageInv, IsFirst
<1>19. ASSUME NEW r \in Raws, RefreshRaw(r) \/ RefreshWithout(r) \/ StampFailed(r)
       PROVE  StageInv'
  <2>1. /\ rep'.raw = 0
        /\ cand' = [cand EXCEPT ![r].ver = rep.seen] \/ cand' = cand
        /\ UNCHANGED <<link, norm, enr, ded>>
    BY <1>19 DEF RefreshRaw, RefreshWithout, StampFailed, IdleRep, events
  <2>2. \A s \in Raws : cand'[s].stage = cand[s].stage
    <3>1. cand \in [Raws -> [stage : {"none", "new", "placed"}, ver : Versions]]
      BY DEF TypeOK
    <3>2. CASE cand' = [cand EXCEPT ![r].ver = rep.seen]
      BY <3>1, <3>2
    <3> QED
      BY <2>1, <3>2
  <2>3. enr \subseteq Raws /\ ded.todo \subseteq Raws /\ norm.todo \subseteq Raws
    BY DEF TypeOK
  <2> QED
    BY <2>1, <2>2, <2>3 DEF StageInv, IsFirst
<1>20. CASE RetryTransient
  BY <1>2, <1>20 DEF RetryTransient, events, flows
<1>21. CASE LoseFlow
  BY <1>21, LostFields DEF StageInv, IsFirst
<1>22. ASSUME NEW r \in Raws, SkipEnrich(r) PROVE StageInv'
  <2>1. enr' = enr \ {r} /\ UNCHANGED <<cand, link, norm, ded, rep>>
    BY <1>22 DEF SkipEnrich, events
  <2> QED
    BY <2>1 DEF StageInv, IsFirst
<1>23. NormalizeStep => StageInv'
  BY <1>4, <1>5, <1>6, <1>7, <1>8, <1>9, <1>10, SplitsInNat DEF NormalizeStep, Skips
<1>24. EnrichStep => StageInv'
  BY <1>11, <1>12 DEF EnrichStep
<1>25. DedupStep => StageInv'
  BY <1>13, <1>14, <1>15, <1>16, <1>17 DEF DedupStep
<1>26. ReprocessStep => StageInv'
  BY <1>18, <1>19 DEF ReprocessStep
<1>27. Failure => StageInv'
  BY <1>19, <1>21, <1>22 DEF Failure
<1> QED
  BY <1>1, <1>3, <1>20, <1>23, <1>24, <1>25, <1>26, <1>27 DEF Next

-----------------------------------------------------------------------------
(* One event for one event.                                                *)

LEMMA LinkStep ==
  ASSUME TypeOK, StageInv, NoTwins, LinkInv, [Next]_vars PROVE NoTwins' /\ LinkInv'
<1> DEFINE Upheld == NoTwins' /\ LinkInv'
<1>1. ASSUME UNCHANGED <<link, ded>> PROVE Upheld
  BY <1>1 DEF NoTwins, LinkInv, Twins
<1>2. ASSUME UNCHANGED link, ded'.pc = "batch" PROVE Upheld
  BY <1>2 DEF NoTwins, LinkInv
<1>3. CASE UNCHANGED vars
  BY <1>1, <1>3 DEF vars, events, flows
<1>4. ASSUME NEW r \in Raws, NEW v \in 1..MaxVersion, Fetch(r, v) PROVE Upheld
  BY <1>1, <1>4 DEF Fetch, events, flows
<1>5. CASE NormalizeStep
  BY <1>1, <1>5
  DEF NormalizeStep, NormalizeBatch, SkipPost, SkipCandidate, MarkSkipped,
      SaveCandidate, StampRaw, SplitPost, UpsertChild, RetirePost, events
<1>6. CASE EnrichStep
  BY <1>1, <1>6 DEF EnrichStep, EnrichBatch, EnrichCandidate, events
<1>7. CASE DedupBatch
  BY <1>2, <1>7, DedFields DEF DedupBatch, events
<1>8. ASSUME NEW r \in Raws, DropLecture(r) PROVE Upheld
  BY <1>2, <1>8, DedFields DEF DropLecture, events
<1>9. ASSUME NEW r \in Raws, MatchEvent(r) PROVE Upheld
  <2>1. /\ UNCHANGED link /\ IsFirst(r, ded.todo) /\ ded'.todo = ded.todo
        /\ ded.todo \in SUBSET Raws
    BY <1>9, DedFields DEF MatchEvent, events
  <2>2. PICK s \in Twins(r) : ded'.event = link[s]
    BY <1>9, DedFields
  <2>3. s \in Raws /\ link[s] # 0
    BY <2>2 DEF Twins
  <2>4. \A t \in Twins(r) : link[t] = link[s]
    BY <2>2 DEF Twins, NoTwins
  <2>5. \A q \in Raws : IsFirst(q, ded.todo) => q = r
    BY <2>1, FirstUnique
  <2> QED
    BY <2>1, <2>2, <2>3, <2>4, <2>5 DEF NoTwins, LinkInv, Twins
<1>10. ASSUME NEW r \in Raws, CreateEvent(r) PROVE Upheld
  <2>1. /\ UNCHANGED link /\ IsFirst(r, ded.todo) /\ ded'.todo = ded.todo
        /\ ded.todo \in SUBSET Raws /\ Twins(r) = {} /\ ded'.event = made + 1
    BY <1>10, DedFields DEF CreateEvent
  <2>2. ded'.event # 0
    BY <2>1 DEF TypeOK
  <2>3. \A q \in Raws : IsFirst(q, ded.todo) => q = r
    BY <2>1, FirstUnique
  <2> QED
    BY <2>1, <2>2, <2>3 DEF NoTwins, LinkInv, Twins
<1>11. ASSUME NEW r \in Raws, LinkEvent(r) PROVE Upheld
  <2>1. /\ link' = [link EXCEPT ![r] = ded.event] /\ ded'.pc = "batch"
        /\ ded.pc = "link" /\ IsFirst(r, ded.todo)
    BY <1>11, DedFields DEF LinkEvent
  <2>2. link'[r] = ded.event /\ \A s \in Raws \ {r} : link'[s] = link[s]
    BY <2>1 DEF TypeOK
  <2>3. \A s \in Twins(r) : link[s] = ded.event
    BY <2>1 DEF LinkInv
  <2> QED
    BY <2>1, <2>2, <2>3 DEF NoTwins, LinkInv, Twins
<1>12. ASSUME NEW r \in Raws, RaiseDedup(r) PROVE Upheld
  BY <1>2, <1>12 DEF RaiseDedup, IdleDed, events
<1>13. CASE ReprocessStep
  BY <1>1, <1>13 DEF ReprocessStep, ReadStale, RefreshRaw, events
<1>14. CASE RetryTransient
  BY <1>1, <1>14 DEF RetryTransient, events, flows
<1>15. CASE LoseFlow
  BY <1>1, <1>2, <1>15, LostFields
<1>16. ASSUME NEW r \in Raws, SkipEnrich(r) \/ RefreshWithout(r) \/ StampFailed(r)
       PROVE  Upheld
  BY <1>1, <1>16 DEF SkipEnrich, RefreshWithout, StampFailed, events
<1>17. DedupStep => Upheld
  BY <1>7, <1>8, <1>9, <1>10, <1>11, <1>12 DEF DedupStep
<1>18. Failure => Upheld
  BY <1>15, <1>16 DEF Failure
<1> QED
  BY <1>3, <1>4, <1>5, <1>6, <1>13, <1>14, <1>17, <1>18 DEF Next

-----------------------------------------------------------------------------
(* Schedule posts.                                                         *)

\* A raw that was split from a post is a child and no post.
LEMMA ChildIsChild ==
  ASSUME NEW r \in Raws, NEW c \in Children(r)
  PROVE  c \in Raws /\ Origin[c] = "child" /\ Parent[c] = r
  BY IngestionAssumption DEF Children

\* A step that keeps the raws, the post being split and the history of splits.
LEMMA SplitFrame ==
  ASSUME SplitInv, SplitWhole, TypeOK,
         UNCHANGED <<hash, judged, fan>>,
         \A r \in Raws : skip'[r] = "telegram_split" => skip[r] = "telegram_split",
         norm'.todo \subseteq norm.todo,
         UNCHANGED norm \/ norm'.pc \in {"batch", "stamp"}
  PROVE  SplitInv' /\ SplitWhole'
<1>1. norm.todo \subseteq Raws
  BY DEF TypeOK
<1>2. SplitWhole'
  BY DEF SplitWhole, Children, FirstOf
<1>3. SplitInv'
  BY <1>1 DEF SplitInv, Splitting, Children, FirstOf, IsFirst
<1> QED
  BY <1>2, <1>3

LEMMA SplitStep ==
  ASSUME TypeOK, SplitInv, SplitWhole, [Next]_vars PROVE SplitInv' /\ SplitWhole'
<1> DEFINE Upheld == SplitInv' /\ SplitWhole'
<1>1. ASSUME UNCHANGED <<hash, skip, judged, fan, norm>> PROVE Upheld
  BY <1>1, SplitFrame
<1>2. CASE UNCHANGED vars
  BY <1>1, <1>2 DEF vars, raws, flows, history
<1>3. ASSUME NEW r \in Raws, NEW v \in 1..MaxVersion, Fetch(r, v) PROVE Upheld
  <2>1. /\ Origin[r] # "child" /\ UNCHANGED <<judged, fan, norm>>
        /\ \A s \in Raws \ {r} : hash'[s] = hash[s]
        /\ \A s \in Raws : skip'[s] = "telegram_split" => skip[s] = "telegram_split"
        /\ hash[r] # v /\ skip'[r] = ""
    BY <1>3 DEF Fetch, Upsert, flows, TypeOK
  <2>2. \A s \in Raws : \A c \in Children(s) : hash'[c] = hash[c]
    BY <2>1, ChildIsChild
  <2>3. \A s \in Raws, n \in Nat : FirstOf(Children(s), n) \subseteq Children(s)
    BY FirstOfSubset
  <2>4. fan \in [Raws -> Nat] /\ norm.todo \subseteq Raws
    BY DEF TypeOK
  <2>5. SplitWhole'
    <3> SUFFICES ASSUME NEW s \in Raws, skip'[s] = "telegram_split",
                        NEW c \in FirstOf(Children(s), fan[s])
                 PROVE  hash'[c] = judged[s]
      BY <2>1 DEF SplitWhole, Children, FirstOf
    <3>1. c \in Children(s)
      BY <2>3, <2>4
    <3> QED
      BY <3>1, <2>1, <2>2 DEF SplitWhole
  <2>6. SplitInv'
    <3>1. \A q \in norm'.todo : skip'[q] # "telegram_split"
      BY <2>1, <2>4 DEF SplitInv
    <3>2. ASSUME NEW s \in Raws, Splitting(s),
                 NEW c \in FirstOf(Children(s), fan[s]) \ norm.kids
          PROVE  hash'[c] = norm.seen[s]
      <4>1. c \in Children(s)
        BY <2>3, <2>4
      <4> QED
        BY <4>1, <3>2, <2>2 DEF SplitInv
    <3>3. \A s \in Raws : Splitting(s)' = Splitting(s)
      BY <2>1 DEF Splitting
    <3> QED
      BY <2>1, <3>1, <3>2, <3>3 DEF SplitInv, Children, FirstOf
  <2> QED
    BY <2>5, <2>6
<1>4. CASE NormalizeBatch
  <2>1. /\ norm'.todo \subseteq Unprocessed /\ norm'.pc = "batch"
        /\ UNCHANGED <<hash, skip, judged, fan>>
    BY <1>4, NormFields DEF NormalizeBatch, raws, history
  <2>2. SplitInv'
    BY <2>1 DEF SplitInv, Unprocessed, Splitting
  <2>3. SplitWhole'
    BY <2>1 DEF SplitWhole, Children, FirstOf
  <2> QED
    BY <2>2, <2>3
<1>5. ASSUME NEW r \in Raws, Skips(r) PROVE Upheld
  <2>1. PICK why \in {"llm_error", "rejected"} : skip' = [skip EXCEPT ![r] = why]
    BY <1>5 DEF Skips, SkipPost, SkipCandidate, MarkSkipped
  <2>2. /\ \A s \in Raws \ {r} : skip'[s] = skip[s] /\ judged'[s] = judged[s]
        /\ skip'[r] = why
        /\ UNCHANGED <<hash, fan>>
    BY <1>5, <2>1 DEF Skips, SkipPost, SkipCandidate, MarkSkipped, TypeOK
  <2>3. /\ norm'.todo \subseteq norm.todo /\ norm'.pc = "batch"
        /\ norm.todo \subseteq Raws
    BY <1>5, NormFields
  <2>4. SplitInv'
    BY <2>2, <2>3 DEF SplitInv, Splitting
  <2>5. SplitWhole'
    BY <2>2 DEF SplitWhole, Children, FirstOf
  <2> QED
    BY <2>4, <2>5
<1>6. ASSUME NEW r \in Raws, SaveCandidate(r) PROVE Upheld
  <2>1. UNCHANGED <<hash, skip, judged, fan>>
    BY <1>6 DEF SaveCandidate, raws, history
  <2> QED
    BY <1>6, <2>1, NormFields, SplitFrame
<1>7. ASSUME NEW r \in Raws, StampRaw(r) PROVE Upheld
  <2>1. UNCHANGED <<hash, skip, judged, fan>>
    BY <1>7 DEF StampRaw, history
  <2> QED
    BY <1>7, <2>1, NormFields, SplitFrame
<1>8. ASSUME NEW r \in Raws, NEW n \in Nat, SplitPost(r, n) PROVE Upheld
  <2>1. /\ UNCHANGED <<hash, skip, judged>> /\ Origin[r] = "post"
        /\ fan' = [fan EXCEPT ![r] = n]
    BY <1>8 DEF SplitPost, raws
  <2>2. /\ IsFirst(r, norm.todo) /\ norm'.todo = norm.todo
        /\ norm'.kids = FirstOf(Children(r), n) /\ norm.todo \in SUBSET Raws
    BY <1>8, NormFields
  <2>3. fan'[r] = n /\ \A s \in Raws \ {r} : fan'[s] = fan[s]
    BY <2>1 DEF TypeOK
  <2>4. skip[r] # "telegram_split"
    BY <2>2 DEF SplitInv, IsFirst
  <2>5. SplitWhole'
    BY <2>1, <2>3, <2>4 DEF SplitWhole, Children, FirstOf
  <2>6. \A s \in Raws : IsFirst(s, norm.todo) => s = r
    BY <2>2, FirstUnique
  <2>7. FirstOf(Children(r), n) \subseteq Children(r)
    BY FirstOfSubset
  <2>8. SplitInv'
    <3>1. \A q \in norm'.todo : skip'[q] # "telegram_split"
      BY <2>1, <2>2 DEF SplitInv
    <3>2. \A s \in Raws : Splitting(s)' => s = r
      BY <2>2, <2>6 DEF Splitting
    <3>3. FirstOf(Children(r), fan'[r]) \ norm'.kids = {}
      BY <2>2, <2>3
    <3> QED
      BY <2>1, <2>2, <2>7, <3>1, <3>2, <3>3 DEF SplitInv, Children, FirstOf
  <2> QED
    BY <2>5, <2>8
<1>9. ASSUME NEW r \in Raws, NEW c \in Raws, UpsertChild(r, c) PROVE Upheld
  <2>1. /\ hash' = [hash EXCEPT ![c] = norm.seen[r]]
        /\ skip' = [skip EXCEPT ![c] = IF hash[c] = norm.seen[r] THEN @ ELSE ""]
        /\ UNCHANGED <<judged, fan>>
    BY <1>9 DEF UpsertChild, Upsert, history
  <2>2. /\ hash'[c] = norm.seen[r]
        /\ \A s \in Raws \ {c} : hash'[s] = hash[s]
        /\ \A s \in Raws : skip'[s] = "telegram_split" => skip[s] = "telegram_split"
    BY <2>1 DEF TypeOK
  <2>3. /\ Splitting(r) /\ norm'.todo = norm.todo /\ norm'.pc = "split"
        /\ norm'.kids = norm.kids \ {c} /\ c \in norm.kids
        /\ norm'.seen = [norm.seen EXCEPT ![c] = norm'.seen[c]]
        /\ norm.todo \in SUBSET Raws /\ norm.seen \in [Raws -> Versions]
    BY <1>9, NormFields
  <2>4. /\ Origin[r] = "post" /\ c \in Children(r)
        /\ norm.kids \subseteq Children(r) /\ skip[r] # "telegram_split"
    BY <2>3 DEF SplitInv, Splitting, IsFirst
  <2>5. c # r /\ Parent[c] = r
    BY <2>4, ChildIsChild
  <2>6. norm'.seen[r] = norm.seen[r]
    BY <2>3, <2>5
  <2>7. SplitWhole'
    <3> SUFFICES ASSUME NEW s \in Raws, skip'[s] = "telegram_split",
                        NEW d \in FirstOf(Children(s), fan[s])
                 PROVE  hash'[d] = judged[s]
      BY <2>1 DEF SplitWhole, Children, FirstOf
    <3>1. skip[s] = "telegram_split" /\ s # r
      BY <2>2, <2>4
    <3>2. d \in Raws /\ Parent[d] = s
      BY FirstOfSubset, ChildIsChild
    <3>3. d # c
      BY <3>1, <3>2, <2>5
    <3> QED
      BY <3>1, <3>2, <3>3, <2>2 DEF SplitWhole
  <2>8. SplitInv'
    <3>1. \A q \in norm'.todo : skip'[q] # "telegram_split"
      BY <2>2, <2>3 DEF SplitInv
    <3>2. \A s \in Raws : Splitting(s)' => s = r
      BY <2>3, FirstUnique DEF Splitting
    <3>3. ASSUME NEW d \in FirstOf(Children(r), fan[r]) \ norm'.kids
          PROVE  hash'[d] = norm'.seen[r]
      <4>1. d \in Raws
        BY FirstOfSubset, ChildIsChild
      <4>2. CASE d = c
        BY <4>2, <2>2, <2>6
      <4>3. CASE d # c
        <5>1. d \in FirstOf(Children(r), fan[r]) \ norm.kids
          BY <3>3, <4>3, <2>3
        <5> QED
          BY <5>1, <4>1, <4>3, <2>2, <2>3, <2>6 DEF SplitInv
      <4> QED
        BY <4>2, <4>3
    <3>4. /\ norm'.kids \subseteq Children(r) /\ fan' = fan
          /\ Children(r)' = Children(r)
          /\ FirstOf(Children(r), fan[r])' = FirstOf(Children(r), fan[r])
      BY <2>1, <2>3, <2>4 DEF Children, FirstOf
    <3>5. ASSUME NEW s \in Raws, Splitting(s)'
          PROVE  /\ Origin[s] = "post"
                 /\ norm'.kids \subseteq Children(s)'
                 /\ \A d \in FirstOf(Children(s), fan[s])' \ norm'.kids :
                      hash'[d] = norm'.seen[s]
      <4>1. s = r
        BY <3>2, <3>5
      <4> QED
        BY <4>1, <2>4, <3>3, <3>4
    <3> QED
      BY <3>1, <3>5 DEF SplitInv
  <2> QED
    BY <2>7, <2>8
<1>10. ASSUME NEW r \in Raws, RetirePost(r) PROVE Upheld
  <2>1. /\ skip' = [skip EXCEPT ![r] = "telegram_split"]
        /\ judged' = [judged EXCEPT ![r] = norm.seen[r]]
        /\ UNCHANGED <<hash, fan>>
    BY <1>10 DEF RetirePost
  <2>2. /\ \A s \in Raws \ {r} : skip'[s] = skip[s] /\ judged'[s] = judged[s]
        /\ judged'[r] = norm.seen[r]
    BY <2>1 DEF TypeOK
  <2>3. /\ Splitting(r) /\ norm.kids = {} /\ norm'.pc = "batch"
        /\ norm'.todo = norm.todo \ {r} /\ norm.todo \subseteq Raws
    BY <1>10, NormFields
  <2>4. \A c \in FirstOf(Children(r), fan[r]) : hash[c] = norm.seen[r]
    BY <2>3 DEF SplitInv
  <2>5. SplitWhole'
    <3> SUFFICES ASSUME NEW s \in Raws, skip'[s] = "telegram_split",
                        NEW c \in FirstOf(Children(s), fan[s])
                 PROVE  hash[c] = judged'[s]
      BY <2>1 DEF SplitWhole, Children, FirstOf
    <3> QED
      BY <2>2, <2>4 DEF SplitWhole
  <2>6. SplitInv'
    BY <2>2, <2>3 DEF SplitInv, Splitting
  <2> QED
    BY <2>5, <2>6
<1>11. CASE EnrichStep
  BY <1>1, <1>11 DEF EnrichStep, EnrichBatch, EnrichCandidate, raws, history
<1>12. CASE DedupStep
  BY <1>1, <1>12
  DEF DedupStep, DedupBatch, DropLecture, MatchEvent, CreateEvent, LinkEvent,
      RaiseDedup, raws, history
<1>13. CASE ReprocessStep
  BY <1>1, <1>13 DEF ReprocessStep, ReadStale, RefreshRaw, raws, history
<1>14. CASE RetryTransient
  <2>1. /\ UNCHANGED <<hash, judged, fan, norm>>
        /\ \A s \in Raws : skip'[s] = "telegram_split" => skip[s] = "telegram_split"
    BY <1>14 DEF RetryTransient, flows, history
  <2> QED
    BY <2>1, SplitFrame
<1>15. CASE LoseFlow
  BY <1>15, LostFields, SplitFrame
<1>16. ASSUME NEW r \in Raws, SkipEnrich(r) \/ RefreshWithout(r) \/ StampFailed(r)
       PROVE  Upheld
  BY <1>1, <1>16 DEF SkipEnrich, RefreshWithout, StampFailed, raws, history
<1>17. NormalizeStep => Upheld
  BY <1>4, <1>5, <1>6, <1>7, <1>8, <1>9, <1>10, SplitsInNat DEF NormalizeStep, Skips
<1>18. Failure => Upheld
  BY <1>15, <1>16 DEF Failure
<1> QED
  BY <1>2, <1>3, <1>11, <1>12, <1>13, <1>14, <1>17, <1>18 DEF Next

-----------------------------------------------------------------------------
(* Versions.                                                               *)

\* Versions are compared as numbers.
LEMMA VersionTypes ==
  ASSUME TypeOK, NEW r \in Raws
  PROVE  /\ hash[r] \in Nat /\ stamp[r] \in Nat /\ cand[r].ver \in Nat
         /\ shown[r].dates \in Nat /\ shown[r].offer \in Nat
         /\ norm.seen[r] \in Nat /\ ded.seen[r] \in Nat /\ rep.seen \in Nat
<1>1. Versions \subseteq Nat
  BY IngestionAssumption DEF Versions
<1> QED
  BY <1>1 DEF TypeOK

\* A step that leaves r alone, or lets a flow go from it.
LEMMA OrderedFrame ==
  ASSUME NEW r \in Raws, Ordered(r),
         UNCHANGED <<hash[r], stamp[r], shown[r], link[r]>>,
         cand'[r].ver = cand[r].ver,
         cand'[r].stage # "none" => cand[r].stage # "none",
         r \in frozen' <=> r \in frozen,
         r \in norm'.todo => r \in norm.todo /\ norm'.seen[r] = norm.seen[r],
         r \in norm'.todo => (Stamping(r)' <=> Stamping(r)),
         r \in ded'.todo => r \in ded.todo /\ ded'.seen[r] = ded.seen[r],
         rep'.raw = r => rep.raw = r /\ rep'.seen = rep.seen
  PROVE  Ordered(r)'
<1>1. Stamping(r)' => r \in norm'.todo
  BY DEF Stamping, IsFirst
<1> QED
  BY <1>1 DEF Ordered

\* A step that leaves the flows and the versions of every raw alone.
LEMMA VersionFrame ==
  ASSUME VersionInv,
         UNCHANGED <<hash, stamp, cand, link, shown, reverted, frozen, norm, ded, rep>>
  PROVE  VersionInv'
  BY DEF VersionInv, Monotone, Ordered, Stamping, IsFirst

LEMMA VersionStep ==
  ASSUME TypeOK, StageInv, SplitInv, VersionInv, [Next]_vars PROVE VersionInv'
<1>1. CASE UNCHANGED vars
  BY <1>1, VersionFrame DEF vars, raws, events, flows, history
<1>2. ASSUME NEW r \in Raws, NEW v \in 1..MaxVersion, Fetch(r, v) PROVE VersionInv'
  <2>1. /\ hash' = [hash EXCEPT ![r] = v]
        /\ reverted' = IF v < hash[r] THEN reverted \cup {r} ELSE reverted
        /\ UNCHANGED <<stamp, cand, link, shown, frozen, norm, ded, rep>>
    BY <1>2 DEF Fetch, Upsert, events, flows
  <2> SUFFICES ASSUME NEW s \in Raws, s \notin reverted', Origin[s] \in Structured
               PROVE  Ordered(s)'
    BY DEF VersionInv, Monotone
  <2>2. s \notin reverted
    BY <2>1
  <2>3. Ordered(s)
    BY <2>2 DEF VersionInv, Monotone
  <2>4. hash'[s] \in Nat /\ hash[s] <= hash'[s]
    <3>1. hash \in [Raws -> Versions] /\ v \in Nat
      BY DEF TypeOK
    <3>2. hash'[s] = IF s = r THEN v ELSE hash[s]
      BY <2>1, <3>1
    <3>3. hash[s] \in Nat
      BY VersionTypes
    <3>4. s = r => ~(v < hash[r])
      BY <2>1
    <3> QED
      BY <3>1, <3>2, <3>3, <3>4
  <2>5. \A n \in Nat : n <= hash[s] => n <= hash'[s]
    BY <2>4, VersionTypes
  <2>6. Stamping(s)' = Stamping(s)
    BY <2>1 DEF Stamping
  <2> QED
    BY <2>1, <2>3, <2>5, <2>6, VersionTypes DEF Ordered
<1>3. CASE NormalizeBatch
  <2>1. /\ norm'.todo \subseteq Raws /\ norm'.pc = "batch"
        /\ norm'.seen = ReadNow(norm'.todo)
        /\ UNCHANGED <<hash, stamp, cand, link, shown, reverted, frozen, ded, rep>>
    BY <1>3, NormFields DEF NormalizeBatch, Unprocessed, raws, events, history
  <2> SUFFICES ASSUME NEW s \in Monotone PROVE Ordered(s)'
    BY <2>1 DEF VersionInv, Monotone
  <2>2. s \in Raws /\ Ordered(s)
    BY DEF VersionInv, Monotone
  <2>3. s \in norm'.todo => norm'.seen[s] = hash[s]
    BY <2>1, <2>2 DEF ReadNow
  <2>4. ~Stamping(s)'
    BY <2>1 DEF Stamping
  <2> QED
    BY <2>1, <2>2, <2>3, <2>4, VersionTypes DEF Ordered
<1>4. ASSUME NEW r \in Raws, Skips(r) PROVE VersionInv'
  <2>1. UNCHANGED <<hash, stamp, cand, link, shown, reverted, frozen, ded, rep>>
    BY <1>4 DEF Skips, SkipPost, SkipCandidate, MarkSkipped, events
  <2>2. /\ norm'.todo \subseteq norm.todo /\ norm'.seen = norm.seen
        /\ \A s \in Raws : ~Stamping(s) /\ ~Stamping(s)'
    BY <1>4, NormFields DEF Stamping
  <2> QED
    BY <2>1, <2>2, OrderedFrame DEF VersionInv, Monotone
<1>5. ASSUME NEW r \in Raws, SaveCandidate(r) PROVE VersionInv'
  <2>1. /\ cand' = [cand EXCEPT ![r] = [NoCand EXCEPT !.stage = "new",
                                                     !.ver = norm.seen[r]]]
        /\ UNCHANGED <<hash, stamp, link, shown, reverted, frozen, ded, rep>>
    BY <1>5 DEF SaveCandidate, raws, events, history
  <2>2. /\ norm.pc = "batch" /\ IsFirst(r, norm.todo) /\ norm'.todo = norm.todo
        /\ norm'.seen = norm.seen /\ norm.todo \in SUBSET Raws
    BY <1>5, NormFields
  <2>3. /\ cand'[r].ver = norm.seen[r] /\ cand'[r].stage = "new"
        /\ \A s \in Raws \ {r} : cand'[s] = cand[s]
    BY <2>1 DEF TypeOK, NoCand
  <2>4. \A s \in Raws : ~Stamping(s)
    BY <2>2 DEF Stamping
  <2>5. cand[r].stage = "none" /\ r \in norm.todo
    BY <2>2, <2>4 DEF StageInv, IsFirst
  <2>6. link[r] = 0 /\ r \notin ded.todo /\ rep.raw # r
    BY <2>5, IngestionAssumption DEF StageInv
  <2> SUFFICES ASSUME NEW s \in Monotone PROVE Ordered(s)'
    BY <2>1 DEF VersionInv, Monotone
  <2>7. s \in Raws /\ Ordered(s)
    BY DEF VersionInv, Monotone
  <2>8. CASE s = r
    BY <2>1, <2>2, <2>3, <2>4, <2>5, <2>6, <2>7, <2>8, VersionTypes DEF Ordered
  <2>9. CASE s # r
    <3>1. ~Stamping(s)'
      BY <2>2, <2>7, <2>9, FirstUnique DEF Stamping
    <3> QED
      BY <3>1, <2>1, <2>2, <2>3, <2>4, <2>7, <2>9, OrderedFrame
  <2> QED
    BY <2>8, <2>9
<1>6. ASSUME NEW r \in Raws, StampRaw(r) PROVE VersionInv'
  <2>1. /\ stamp' = [stamp EXCEPT ![r] = norm.seen[r]]
        /\ UNCHANGED <<hash, cand, link, shown, reverted, frozen, ded, rep>>
    BY <1>6 DEF StampRaw, events, history
  <2>2. /\ Stamping(r) /\ norm'.todo = norm.todo \ {r} /\ norm'.pc = "batch"
        /\ norm'.seen = norm.seen /\ norm.todo \in SUBSET Raws
    BY <1>6, NormFields
  <2>3. stamp'[r] = norm.seen[r] /\ \A s \in Raws \ {r} : stamp'[s] = stamp[s]
    BY <2>1 DEF TypeOK
  <2> SUFFICES ASSUME NEW s \in Monotone PROVE Ordered(s)'
    BY <2>1 DEF VersionInv, Monotone
  <2>4. s \in Raws /\ Ordered(s)
    BY DEF VersionInv, Monotone
  <2>5. ~Stamping(s)'
    BY <2>2 DEF Stamping
  <2>6. CASE s = r
    <3>1. r \in norm.todo
      BY <2>2 DEF Stamping, IsFirst
    <3> QED
      BY <3>1, <2>1, <2>2, <2>3, <2>4, <2>5, <2>6, VersionTypes DEF Ordered
  <2>7. CASE s # r
    <3>1. ~Stamping(s)
      BY <2>2, <2>4, <2>7, FirstUnique DEF Stamping
    <3> QED
      BY <3>1, <2>1, <2>2, <2>3, <2>4, <2>5, <2>7, OrderedFrame
  <2> QED
    BY <2>6, <2>7
<1>7. ASSUME NEW r \in Raws, NEW n \in Nat, SplitPost(r, n) PROVE VersionInv'
  <2>1. UNCHANGED <<hash, stamp, cand, link, shown, reverted, frozen, ded, rep>>
    BY <1>7 DEF SplitPost, raws, events
  <2>2. /\ norm'.todo = norm.todo /\ norm'.seen = norm.seen
        /\ \A s \in Raws : ~Stamping(s) /\ ~Stamping(s)'
    BY <1>7, NormFields DEF Stamping
  <2> QED
    BY <2>1, <2>2, OrderedFrame DEF VersionInv, Monotone
<1>8. ASSUME NEW r \in Raws, NEW c \in Raws, UpsertChild(r, c) PROVE VersionInv'
  <2>1. /\ hash' = [hash EXCEPT ![c] = norm.seen[r]]
        /\ UNCHANGED <<stamp, cand, link, shown, reverted, frozen, ded, rep>>
    BY <1>8 DEF UpsertChild, Upsert, events, history
  <2>2. /\ Splitting(r) /\ norm'.todo = norm.todo /\ norm'.pc = "split"
        /\ c \in norm.kids /\ norm.seen \in [Raws -> Versions]
        /\ norm'.seen = [norm.seen EXCEPT ![c] = norm'.seen[c]]
    BY <1>8, NormFields
  <2>3. Origin[c] = "child"
    BY <2>2, ChildIsChild DEF SplitInv
  <2>4. \A s \in Raws \ {c} : hash'[s] = hash[s] /\ norm'.seen[s] = norm.seen[s]
    BY <2>1, <2>2 DEF TypeOK
  <2>5. \A s \in Raws : ~Stamping(s) /\ ~Stamping(s)'
    BY <2>2 DEF Stamping, Splitting
  <2> SUFFICES ASSUME NEW s \in Monotone PROVE Ordered(s)'
    BY <2>1 DEF VersionInv, Monotone
  <2>6. s \in Raws \ {c} /\ Ordered(s)
    BY <2>3 DEF VersionInv, Monotone, Structured
  <2> QED
    BY <2>1, <2>2, <2>4, <2>5, <2>6, OrderedFrame
<1>9. ASSUME NEW r \in Raws, RetirePost(r) PROVE VersionInv'
  <2>1. /\ stamp' = [stamp EXCEPT ![r] = norm.seen[r]]
        /\ UNCHANGED <<hash, cand, link, shown, reverted, frozen, ded, rep>>
    BY <1>9 DEF RetirePost, events
  <2>2. /\ Splitting(r) /\ norm'.todo = norm.todo \ {r} /\ norm'.pc = "batch"
        /\ norm'.seen = norm.seen
    BY <1>9, NormFields
  <2>3. Origin[r] = "post"
    BY <2>2 DEF SplitInv
  <2>4. \A s \in Raws \ {r} : stamp'[s] = stamp[s]
    BY <2>1 DEF TypeOK
  <2>5. \A s \in Raws : ~Stamping(s) /\ ~Stamping(s)'
    BY <2>2 DEF Stamping, Splitting
  <2> SUFFICES ASSUME NEW s \in Monotone PROVE Ordered(s)'
    BY <2>1 DEF VersionInv, Monotone
  <2>6. s \in Raws \ {r} /\ Ordered(s)
    BY <2>3 DEF VersionInv, Monotone, Structured
  <2> QED
    BY <2>1, <2>2, <2>4, <2>5, <2>6, OrderedFrame
<1>10. CASE EnrichBatch
  BY <1>10, VersionFrame DEF EnrichBatch, raws, events, history
<1>11. ASSUME NEW r \in Raws, EnrichCandidate(r) PROVE VersionInv'
  <2>1. /\ cand' = [cand EXCEPT ![r].stage = "placed"] /\ r \in enr
        /\ UNCHANGED <<hash, stamp, link, shown, reverted, frozen, norm, ded, rep>>
    BY <1>11 DEF EnrichCandidate, raws, events, history, IsFirst
  <2>2. cand[r].stage # "none"
    BY <2>1 DEF StageInv
  <2>3. \A s \in Raws : /\ cand'[s].ver = cand[s].ver
                        /\ cand'[s].stage # "none" => cand[s].stage # "none"
    BY <2>1, <2>2 DEF TypeOK
  <2>4. \A s \in Raws : Stamping(s)' = Stamping(s)
    BY <2>1 DEF Stamping
  <2> QED
    BY <2>1, <2>3, <2>4, OrderedFrame DEF VersionInv, Monotone
<1>12. CASE DedupBatch
  <2>1. /\ ded'.todo \subseteq Raws /\ ded'.seen = ReadNow(ded'.todo)
        /\ UNCHANGED <<hash, stamp, cand, link, shown, reverted, frozen, norm, rep>>
    BY <1>12, DedFields DEF DedupBatch, Unlinked, raws, events, history
  <2> SUFFICES ASSUME NEW s \in Monotone PROVE Ordered(s)'
    BY <2>1 DEF VersionInv, Monotone
  <2>2. s \in Raws /\ Ordered(s)
    BY DEF VersionInv, Monotone
  <2>3. s \in ded'.todo => ded'.seen[s] = hash[s]
    BY <2>1, <2>2 DEF ReadNow
  <2>4. Stamping(s)' = Stamping(s)
    BY <2>1 DEF Stamping
  <2> QED
    BY <2>1, <2>2, <2>3, <2>4, VersionTypes DEF Ordered
<1>13. ASSUME NEW r \in Raws, DropLecture(r) PROVE VersionInv'
  <2>1. /\ cand' = [cand EXCEPT ![r] = NoCand] /\ r \in ded.todo
        /\ ded'.todo = ded.todo \ {r} /\ ded'.seen = ded.seen
        /\ UNCHANGED <<hash, stamp, link, shown, reverted, frozen, norm, rep>>
    BY <1>13, DedFields DEF DropLecture, raws, events, IsFirst
  <2>2. /\ cand'[r].ver = 0 /\ cand'[r].stage = "none"
        /\ \A s \in Raws \ {r} : cand'[s] = cand[s]
    BY <2>1 DEF TypeOK, NoCand
  <2>3. link[r] = 0
    BY <2>1 DEF StageInv
  <2> SUFFICES ASSUME NEW s \in Monotone PROVE Ordered(s)'
    BY <2>1 DEF VersionInv, Monotone
  <2>4. s \in Raws /\ Ordered(s)
    BY DEF VersionInv, Monotone
  <2>5. Stamping(s)' = Stamping(s)
    BY <2>1 DEF Stamping
  <2>6. CASE s = r
    BY <2>1, <2>2, <2>3, <2>4, <2>5, <2>6, VersionTypes DEF Ordered
  <2>7. CASE s # r
    BY <2>1, <2>2, <2>4, <2>5, <2>7, OrderedFrame
  <2> QED
    BY <2>6, <2>7
<1>14. ASSUME NEW r \in Raws, MatchEvent(r) \/ CreateEvent(r) PROVE VersionInv'
  <2>1. /\ ded'.todo = ded.todo /\ ded'.seen = ded.seen
        /\ UNCHANGED <<hash, stamp, cand, link, shown, reverted, frozen, norm, rep>>
    BY <1>14, DedFields DEF MatchEvent, CreateEvent, raws, events, history
  <2>2. \A s \in Raws : Stamping(s)' = Stamping(s)
    BY <2>1 DEF Stamping
  <2> QED
    BY <2>1, <2>2, OrderedFrame DEF VersionInv, Monotone
<1>15. ASSUME NEW r \in Raws, LinkEvent(r) PROVE VersionInv'
  <2>1. /\ link' = [link EXCEPT ![r] = ded.event]
        /\ shown' = [shown EXCEPT ![r] = [dates |-> ded.seen[r], offer |-> cand[r].ver]]
        /\ r \in ded.todo /\ ded'.todo = ded.todo \ {r} /\ ded'.seen = ded.seen
        /\ UNCHANGED <<hash, stamp, cand, reverted, frozen, norm, rep>>
    BY <1>15, DedFields DEF LinkEvent, UpsertOccurrences, raws, history, IsFirst
  <2>2. /\ shown'[r].dates = ded.seen[r] /\ shown'[r].offer = cand[r].ver
        /\ \A s \in Raws \ {r} : link'[s] = link[s] /\ shown'[s] = shown[s]
    BY <2>1 DEF TypeOK
  <2>3. cand[r].stage = "placed" /\ link[r] = 0
    BY <2>1 DEF StageInv
  <2> SUFFICES ASSUME NEW s \in Monotone PROVE Ordered(s)'
    BY <2>1 DEF VersionInv, Monotone
  <2>4. s \in Raws /\ Ordered(s)
    BY DEF VersionInv, Monotone
  <2>5. Stamping(s)' = Stamping(s)
    BY <2>1 DEF Stamping
  <2>6. CASE s = r
    BY <2>1, <2>2, <2>3, <2>4, <2>5, <2>6, VersionTypes DEF Ordered
  <2>7. CASE s # r
    BY <2>1, <2>2, <2>4, <2>5, <2>7, OrderedFrame
  <2> QED
    BY <2>6, <2>7
<1>16. ASSUME NEW r \in Raws, RaiseDedup(r) PROVE VersionInv'
  <2>1. /\ ded'.todo = {}
        /\ UNCHANGED <<hash, stamp, cand, link, shown, reverted, frozen, norm, rep>>
    BY <1>16 DEF RaiseDedup, IdleDed, raws, events, history
  <2>2. \A s \in Raws : Stamping(s)' = Stamping(s)
    BY <2>1 DEF Stamping
  <2> QED
    BY <2>1, <2>2, OrderedFrame DEF VersionInv, Monotone
<1>17. ASSUME NEW r \in Raws, ReadStale(r) PROVE VersionInv'
  <2>1. /\ rep'.raw = r /\ rep'.seen = hash[r]
        /\ UNCHANGED <<hash, stamp, cand, link, shown, reverted, frozen, norm, ded>>
    BY <1>17 DEF ReadStale, raws, events, history
  <2> SUFFICES ASSUME NEW s \in Monotone PROVE Ordered(s)'
    BY <2>1 DEF VersionInv, Monotone
  <2>2. s \in Raws /\ Ordered(s)
    BY DEF VersionInv, Monotone
  <2>3. Stamping(s)' = Stamping(s) /\ (Stamping(s) => s \in norm.todo)
    BY <2>1 DEF Stamping, IsFirst
  <2> QED
    BY <2>1, <2>2, <2>3, VersionTypes DEF Ordered
<1>18. ASSUME NEW r \in Raws, RefreshRaw(r) \/ RefreshWithout(r) \/ StampFailed(r)
       PROVE  VersionInv'
  <2>1. /\ rep.raw = r /\ rep'.raw = 0 /\ link[r] # 0
        /\ UNCHANGED <<hash, link, reverted, norm, ded>>
    <3>1. rep.raw = r /\ rep' = IdleRep
      BY <1>18 DEF RefreshRaw, RefreshWithout, StampFailed
    <3>2. link[r] # 0
      BY <3>1, IngestionAssumption DEF StageInv
    <3>3. RefreshRaw(r) => UNCHANGED <<hash, link, reverted, norm, ded>>
      BY DEF RefreshRaw
    <3>4. RefreshWithout(r) => UNCHANGED <<hash, link, reverted, norm, ded>>
      BY DEF RefreshWithout, events
    <3>5. StampFailed(r) => UNCHANGED <<hash, link, reverted, norm, ded>>
      BY DEF StampFailed, events
    <3> QED
      BY <1>18, <3>1, <3>2, <3>3, <3>4, <3>5 DEF IdleRep
  <2>2. r \notin ded.todo /\ (r \in norm.todo => Stamping(r))
    BY <2>1 DEF StageInv
  <2>3. /\ \A s \in Raws \ {r} : /\ stamp'[s] = stamp[s] /\ cand'[s] = cand[s]
                                 /\ shown'[s] = shown[s]
                                 /\ (s \in frozen' <=> s \in frozen)
        /\ cand'[r].stage = cand[r].stage
    <3>1. RefreshRaw(r) =>
            shown' = [shown EXCEPT ![r] = [dates |-> rep.seen, offer |-> rep.seen]]
      BY <2>1 DEF RefreshRaw, UpsertOccurrences
    <3> QED
      BY <1>18, <3>1 DEF RefreshRaw, RefreshWithout, StampFailed, TypeOK, events
  <2>4. \/ /\ stamp'[r] = rep.seen /\ cand'[r].ver = rep.seen
           /\ shown'[r].dates = rep.seen /\ shown'[r].offer = rep.seen
        \/ /\ stamp'[r] = rep.seen /\ cand'[r].ver = rep.seen
           /\ shown'[r] = shown[r] /\ r \in frozen'
        \/ /\ stamp'[r] = hash[r] /\ cand'[r].ver = cand[r].ver
           /\ shown'[r] = shown[r] /\ r \in frozen'
    <3>1. CASE RefreshRaw(r)
      BY <3>1, <2>1 DEF RefreshRaw, UpsertOccurrences, TypeOK
    <3>2. CASE RefreshWithout(r)
      BY <3>2 DEF RefreshWithout, TypeOK, events
    <3>3. CASE StampFailed(r)
      BY <3>3 DEF StampFailed, TypeOK, events
    <3> QED
      BY <1>18, <3>1, <3>2, <3>3
  <2> SUFFICES ASSUME NEW s \in Monotone PROVE Ordered(s)'
    BY <2>1 DEF VersionInv, Monotone
  <2>5. s \in Raws /\ Ordered(s)
    BY DEF VersionInv, Monotone
  <2>6. Stamping(s)' = Stamping(s)
    BY <2>1 DEF Stamping
  <2>7. CASE s = r
    <3>1. rep'.raw # r
      BY <2>1, IngestionAssumption
    <3> QED
      BY <3>1, <2>1, <2>2, <2>3, <2>4, <2>5, <2>6, <2>7, VersionTypes DEF Ordered
  <2>8. CASE s # r
    <3>1. rep'.raw # s
      BY <2>1, <2>5, IngestionAssumption
    <3> QED
      BY <3>1, <2>1, <2>3, <2>5, <2>6, <2>8, OrderedFrame
  <2> QED
    BY <2>7, <2>8
<1>19. CASE RetryTransient
  BY <1>19, VersionFrame DEF RetryTransient, events, flows, history
<1>20. CASE LoseFlow
  <2>1. /\ UNCHANGED <<hash, stamp, cand, link, shown, reverted, frozen>>
        /\ UNCHANGED norm \/ norm'.todo = {}
        /\ UNCHANGED ded \/ ded'.todo = {}
        /\ UNCHANGED rep \/ rep'.raw = 0
    BY <1>20, LostFields
  <2> SUFFICES ASSUME NEW s \in Monotone PROVE Ordered(s)'
    BY <2>1 DEF VersionInv, Monotone
  <2>2. s \in Raws /\ Ordered(s) /\ s # 0
    BY IngestionAssumption DEF VersionInv, Monotone
  <2>3. s \in norm'.todo => UNCHANGED norm /\ Stamping(s)' = Stamping(s)
    BY <2>1 DEF Stamping
  <2> QED
    BY <2>1, <2>2, <2>3, OrderedFrame
<1>21. ASSUME NEW r \in Raws, SkipEnrich(r) PROVE VersionInv'
  BY <1>21, VersionFrame DEF SkipEnrich, raws, events, history
<1>22. NormalizeStep => VersionInv'
  BY <1>3, <1>4, <1>5, <1>6, <1>7, <1>8, <1>9, SplitsInNat DEF NormalizeStep, Skips
<1>23. EnrichStep => VersionInv'
  BY <1>10, <1>11 DEF EnrichStep
<1>24. DedupStep => VersionInv'
  BY <1>12, <1>13, <1>14, <1>15, <1>16 DEF DedupStep
<1>25. ReprocessStep => VersionInv'
  BY <1>17, <1>18 DEF ReprocessStep
<1>26. Failure => VersionInv'
  BY <1>18, <1>20, <1>21 DEF Failure
<1> QED
  BY <1>1, <1>2, <1>19, <1>22, <1>23, <1>24, <1>25, <1>26 DEF Next

-----------------------------------------------------------------------------
(* The price of an event.                                                  *)

\* Sessions of r are upserted onto the event that r has, or is linked to with them.
LEMMA PriceUpserted ==
  ASSUME TypeOK, PriceInv, NEW r \in Raws, NEW e \in 1..made, NEW dates, NEW offer,
         UpsertOccurrences(r, e, dates, offer),
         link' = [link EXCEPT ![r] = e], link[r] \in {0, e}
  PROVE  PriceInv'
<1>1. /\ link'[r] = e /\ e # 0
      /\ \A s \in Raws \ {r} : link'[s] = link[s] /\ shown'[s] = shown[s]
      /\ shown'[r].offer = offer
  BY DEF UpsertOccurrences, TypeOK
<1>2. price'[e] = IF Taken(r, offer) THEN <<r, offer>> ELSE price[e]
  BY DEF UpsertOccurrences, TypeOK
<1>3. \A d \in 1..made : d # e => price'[d] = price[d]
  BY DEF UpsertOccurrences, TypeOK
<1>4. \A s \in Raws : link[s] \in 0..made /\ made \in Nat
  BY DEF TypeOK
<1>5. \A q \in Quotes : q[1] \in Raws
  BY IngestionAssumption
<1>6. ASSUME NEW s \in Raws, link'[s] # 0, <<s, shown'[s].offer>> \in Quotes
      PROVE  LET q == price'[link'[s]] IN
               /\ q \in Quotes /\ link'[q[1]] = link'[s]
               /\ (q[1] = s => q[2] = shown'[s].offer)
  <2>1. CASE link'[s] = e /\ Taken(r, offer)
    <3>1. price'[link'[s]] = <<r, offer>> /\ <<r, offer>> \in Quotes
      BY <1>2, <2>1 DEF Taken
    <3> QED
      BY <1>1, <2>1, <3>1
  <2>2. CASE ~(link'[s] = e /\ Taken(r, offer))
    <3>1. s # r
      BY <1>1, <1>6, <2>2 DEF Taken
    <3>2. link[s] # 0 /\ link[s] = link'[s] /\ shown'[s] = shown[s] /\ link[s] \in 1..made
      BY <1>1, <1>4, <1>6, <3>1
    <3>3. price'[link'[s]] = price[link[s]]
      BY <1>2, <1>3, <2>2, <3>2
    <3>4. PICK q : q = price[link[s]]
      OBVIOUS
    <3>5. q \in Quotes /\ link[q[1]] = link[s] /\ (q[1] = s => q[2] = shown[s].offer)
      BY <1>6, <3>2, <3>4 DEF PriceInv
    <3>6. link'[q[1]] = link[s]
      BY <1>1, <1>5, <3>2, <3>5
    <3> QED
      BY <3>2, <3>3, <3>4, <3>5, <3>6
  <2> QED
    BY <2>1, <2>2
<1> QED
  BY <1>6 DEF PriceInv

LEMMA PriceStep ==
  ASSUME TypeOK, StageInv, LinkInv, PriceInv, [Next]_vars PROVE PriceInv'
<1>1. ASSUME UNCHANGED <<link, shown, price>> PROVE PriceInv'
  BY <1>1 DEF PriceInv
<1>2. CASE UNCHANGED vars
  BY <1>1, <1>2 DEF vars, events
<1>3. ASSUME NEW r \in Raws, NEW v \in 1..MaxVersion, Fetch(r, v) PROVE PriceInv'
  BY <1>1, <1>3 DEF Fetch, events
<1>4. CASE NormalizeStep
  BY <1>1, <1>4
  DEF NormalizeStep, NormalizeBatch, SkipPost, SkipCandidate, MarkSkipped,
      SaveCandidate, StampRaw, SplitPost, UpsertChild, RetirePost, events
<1>5. CASE EnrichStep
  BY <1>1, <1>5 DEF EnrichStep, EnrichBatch, EnrichCandidate, events
<1>6. CASE DedupBatch
  BY <1>1, <1>6 DEF DedupBatch, events
<1>7. ASSUME NEW r \in Raws, DropLecture(r) \/ MatchEvent(r) \/ RaiseDedup(r)
      PROVE  PriceInv'
  BY <1>1, <1>7 DEF DropLecture, MatchEvent, RaiseDedup, events
<1>8. ASSUME NEW r \in Raws, CreateEvent(r) PROVE PriceInv'
  <2>1. /\ made \in Nat /\ made' = made + 1 /\ UNCHANGED <<link, shown>>
        /\ price' = [e \in 1..made' |-> IF e <= made THEN price[e] ELSE NoPrice]
    BY <1>8 DEF CreateEvent, TypeOK
  <2>2. \A s \in Raws : link[s] # 0 => link[s] \in 1..made' /\ link[s] <= made
    BY <2>1 DEF TypeOK
  <2>3. \A s \in Raws : link[s] # 0 => price'[link[s]] = price[link[s]]
    BY <2>1, <2>2
  <2> QED
    BY <2>1, <2>3 DEF PriceInv
<1>9. ASSUME NEW r \in Raws, LinkEvent(r) PROVE PriceInv'
  <2>1. /\ link' = [link EXCEPT ![r] = ded.event] /\ r \in ded.todo
        /\ UpsertOccurrences(r, ded.event, ded.seen[r], cand[r].ver)
    BY <1>9 DEF LinkEvent, IsFirst
  <2>2. ded.event \in 1..made
    BY <1>9 DEF LinkEvent, LinkInv, TypeOK
  <2>3. link[r] = 0
    BY <2>1 DEF StageInv
  <2> QED
    BY <2>1, <2>2, <2>3, PriceUpserted
<1>10. ASSUME NEW r \in Raws, ReadStale(r) PROVE PriceInv'
  BY <1>1, <1>10 DEF ReadStale, events
<1>11. ASSUME NEW r \in Raws, RefreshRaw(r) PROVE PriceInv'
  <2>1. link[r] # 0
    BY <1>11, IngestionAssumption DEF RefreshRaw, StageInv
  <2>2. link[r] \in 1..made /\ link \in [Raws -> 0..made]
    BY <2>1 DEF TypeOK
  <2>3. link' = [link EXCEPT ![r] = link[r]]
    BY <1>11, <2>2 DEF RefreshRaw
  <2>4. UpsertOccurrences(r, link[r], rep.seen, rep.seen)
    BY <1>11, <2>1 DEF RefreshRaw
  <2> QED
    BY <2>2, <2>3, <2>4, PriceUpserted
<1>12. CASE RetryTransient
  BY <1>1, <1>12 DEF RetryTransient, events
<1>13. CASE Failure
  BY <1>1, <1>13 DEF Failure, LoseFlow, SkipEnrich, RefreshWithout, StampFailed, events
<1>14. DedupStep => PriceInv'
  BY <1>6, <1>7, <1>8, <1>9 DEF DedupStep
<1>15. ReprocessStep => PriceInv'
  BY <1>10, <1>11 DEF ReprocessStep
<1> QED
  BY <1>2, <1>3, <1>4, <1>5, <1>12, <1>13, <1>14, <1>15 DEF Next

-----------------------------------------------------------------------------
(* The theorems.                                                           *)

LEMMA InitIInv == Init => IInv
<1> SUFFICES ASSUME Init PROVE IInv
  OBVIOUS
<1>1. TypeOK
  BY InitType
<1>2. /\ norm.todo = {} /\ ded.todo = {} /\ enr = {} /\ rep.raw = 0
      /\ ded.pc = "batch" /\ norm.pc = "batch"
  BY DEF Init, IdleNorm, IdleDed, IdleRep
<1>3. \A r \in Raws : /\ link[r] = 0 /\ skip[r] = "" /\ stamp[r] = 0 /\ hash[r] = 0
                     /\ cand[r].ver = 0 /\ cand[r].stage = "none"
                     /\ shown[r].dates = 0 /\ shown[r].offer = 0
  BY DEF Init, Unread, NoCand, Nothing
<1>4. StageInv /\ LinkInv /\ NoTwins /\ PriceInv
  BY <1>2, <1>3 DEF StageInv, LinkInv, NoTwins, PriceInv
<1>5. SplitInv /\ SplitWhole
  BY <1>2, <1>3 DEF SplitInv, SplitWhole, Splitting
<1>6. VersionInv
  <2> SUFFICES ASSUME NEW r \in Monotone PROVE Ordered(r)
    BY DEF VersionInv
  <2>1. r \in Raws /\ r # 0
    BY IngestionAssumption DEF Monotone
  <2>2. ~Stamping(r)
    BY <1>2 DEF Stamping
  <2>3. /\ link[r] = 0 /\ stamp[r] = 0 /\ hash[r] = 0 /\ cand[r].ver = 0
        /\ cand[r].stage = "none" /\ shown[r].dates = 0 /\ shown[r].offer = 0
    BY <1>3, <2>1
  <2>4. r \notin norm.todo /\ r \notin ded.todo /\ rep.raw # r
    BY <1>2, <2>1
  <2> QED
    BY <2>2, <2>3, <2>4 DEF Ordered
<1> QED
  BY <1>1, <1>4, <1>5, <1>6 DEF IInv

\* The inductive invariant of the pipeline.
THEOREM Invariance == Spec => []IInv
<1>1. Init => IInv
  BY InitIInv
<1>2. IInv /\ [Next]_vars => IInv'
  BY TypeStep, StageStep, LinkStep, SplitStep, VersionStep, PriceStep DEF IInv
<1> QED
  BY <1>1, <1>2, PTL DEF Spec

\* Every variable of the pipeline keeps its type.
THEOREM TypeCorrect == Spec => []TypeOK
<1>1. IInv => TypeOK
  BY DEF IInv
<1> QED
  BY <1>1, Invariance, PTL

\* One event in the world is one event on the map: sources, batches, crashes and
\* failures of any number never make two of it.
THEOREM OneEvent == Spec => []NoTwins
<1>1. IInv => NoTwins
  BY DEF IInv
<1> QED
  BY <1>1, Invariance, PTL

\* A schedule post is retired only when each of its events lives on as a child.
THEOREM SplitComplete == Spec => []SplitWhole
<1>1. IInv => SplitWhole
  BY DEF IInv
<1> QED
  BY <1>1, Invariance, PTL

\* The reprocess selector never passes over a raw whose sessions on the map are stale, or
\* whose real price the event does not have, unless another of its sources gave another
\* real one.
THEOREM StampSound == Spec => []StampMeansShown
<1>1. IInv => StampMeansShown
  <2> SUFFICES ASSUME IInv, NEW r \in Raws \ (reverted \cup frozen),
                      Origin[r] \in Structured, link[r] # 0, stamp[r] = hash[r]
               PROVE  shown[r] = [dates |-> hash[r], offer |-> hash[r]] /\ Quoted(r)
    BY DEF StampMeansShown, UpToDate
  <2>1. Ordered(r)
    BY DEF IInv, VersionInv, Monotone
  <2>2. shown[r].dates = hash[r] /\ shown[r].offer = hash[r]
    BY <2>1, VersionTypes DEF Ordered, IInv
  <2>3. shown[r] \in [dates : Versions, offer : Versions]
    BY DEF IInv, TypeOK
  <2>4. Quoted(r)
    BY <2>2 DEF Quoted, IInv, PriceInv
  <2> QED
    BY <2>2, <2>3, <2>4
<1> QED
  BY <1>1, Invariance, PTL

-----------------------------------------------------------------------------
(* Venues of candidates: the row that keeps a cluster.                     *)

\* A set of naturals that is not empty has a least one.
LEMMA LeastOf ==
  ASSUME NEW S \in SUBSET Nat, S # {}
  PROVE  \E x \in S : \A y \in S : x <= y
<1>1. PICK x \in S : \A y \in S : <<y, x>> \notin OpToRel(<, Nat)
  BY WFMin, NatLessThanWellFounded, Zenon
<1>2. \A y \in S : ~(y < x)
  BY <1>1 DEF OpToRel
<1>3. QED
  BY <1>2

\* Of the venues with the most sessions there is an oldest.
LEMMA MostShown ==
  ASSUME NEW S \in SUBSET Nat, S # {}, NEW weight \in [S -> Nat],
         NEW B \in Nat, \A v \in S : weight[v] <= B
  PROVE  \E v \in S : \A w \in S : weight[w] < weight[v] \/ (weight[w] = weight[v] /\ v <= w)
<1> DEFINE T == {B - weight[v] : v \in S}
           top(k) == {v \in S : B - weight[v] = k}
<1>1. T \in SUBSET Nat /\ T # {}
  <2>1. \A v \in S : B - weight[v] \in Nat
    OBVIOUS
  <2>2. QED
    BY <2>1
<1>2. PICK k \in T : \A l \in T : k <= l
  BY <1>1, LeastOf
<1>3. top(k) \in SUBSET Nat /\ top(k) # {}
  BY <1>2
<1>4. PICK v \in top(k) : \A w \in top(k) : v <= w
  BY <1>3, LeastOf
<1>5. ASSUME NEW w \in S
      PROVE  weight[w] < weight[v] \/ (weight[w] = weight[v] /\ v <= w)
  <2>1. B - weight[v] = k /\ k <= B - weight[w]
    BY <1>2, <1>4
  <2>2. CASE B - weight[w] = k
    BY <2>1, <2>2, <1>4
  <2>3. CASE B - weight[w] # k
    BY <2>1, <2>3
  <2>4. QED
    BY <2>2, <2>3
<1>6. QED
  BY <1>4, <1>5

LEMMA CanonicalWithin ==
  ASSUME IsFiniteSet(shows), NEW B \in SUBSET Venues, B # {}
  PROVE  Canonical(B) \in B
<1> DEFINE weight == [v \in B |-> Shown(v)]
           N == Cardinality(shows)
<1>1. N \in Nat
  BY FS_CardinalityType
<1>2. ASSUME NEW v \in B
      PROVE  Shown(v) \in Nat /\ Shown(v) <= N
  BY FS_Subset, FS_CardinalityType DEF Shown
<1>3. B \in SUBSET Nat
  BY PlacesAssumption DEF PlacesAssumption
<1>4. weight \in [B -> Nat] /\ \A v \in B : weight[v] <= N
  BY <1>2
<1>5. PICK v \in B : \A w \in B : weight[w] < weight[v] \/ (weight[w] = weight[v] /\ v <= w)
  <2> HIDE DEF weight, N
  <2>1. QED
    BY <1>1, <1>3, <1>4, MostShown
<1>6. \A w \in B : Shown(w) < Shown(v) \/ (Shown(w) = Shown(v) /\ v <= w)
  BY <1>5
<1>7. QED
  BY <1>6 DEF Canonical

-----------------------------------------------------------------------------
(* The halls of a building.                                                *)

PlanOk(c) == plan[c] # NoPlan => seat[c] = NoVenue /\ plan[c].name = NameOf(c)

\* Who is planned has no venue yet, and is planned under its own name.
PlacesInv ==
  /\ venues = [v \in Venues |-> venues[v]]
  /\ seat \in [Cands -> Venues \cup {NoVenue}]
  /\ plan = [c \in Cands |-> plan[c]]
  /\ IsFiniteSet(shows)
  /\ writer # NoWriter => writer \in Planned
  /\ \A c \in Cands : PlanOk(c)

LEMMA PlacesStart == PlacesInit => PlacesInv
  BY FS_EmptySet DEF PlacesInit, PlacesInv, PlanOk

LEMMA LiveVenues == Live \subseteq Venues /\ NoVenue \notin Live
  BY PlacesAssumption DEF Live, PlacesAssumption

LEMMA PlansNamed == \A c \in Cands : \A p \in Plans(c) : p.name = NameOf(c)
  BY DEF Plans

\* A candidate is given a live row of its own name, or one that does not contrast with it.
LEMMA FoundFits ==
  ASSUME NEW p, NEW v \in Found(p)
  PROVE  v \in Live /\ (venues[v].name = p.name \/ ~Contrasts(p.name, venues[v].name))
<1>1. \A x, m : Near(x, m) \subseteq Live
  BY DEF Near
<1>2. \A S, x : Nearest(S, x) \subseteq S
  BY DEF Nearest
<1>3. CASE v \in Exact(p)
  BY <1>3 DEF Exact
<1>4. CASE v \in Nearest(Namesakes(p), p.at)
  BY <1>1, <1>2, <1>4 DEF Namesakes
<1>5. CASE v \in Variants(p)
  <2>1. v \in Near(p.at, 150) /\ ScoreOf(p, v) > 0
    BY <1>2, <1>5 DEF Variants
  <2>2. ~Contrasts(p.name, venues[v].name)
    BY <2>1 DEF ScoreOf, NameMatchScore, NoMatch
  <2>3. QED
    BY <1>1, <2>1, <2>2
<1>6. QED
  BY <1>3, <1>4, <1>5 DEF Found

\* A merge joins no two rows that contrast.
LEMMA ClustersFit ==
  ASSUME IsFiniteSet(shows), NEW f \in Clusterings, NEW v \in Live, NEW w \in Live, v # w,
         Canonical({x \in Live : f[x] = f[v]}) = Canonical({x \in Live : f[x] = f[w]})
  PROVE  ~Contrasts(venues[v].name, venues[w].name)
<1> DEFINE Block(u) == {x \in Live : f[x] = f[u]}
<1>1. ~Refused(Block(v), Block(v))
  BY DEF Clusterings
<1>2. \A u \in Live : Canonical(Block(u)) \in Block(u)
  <2>1. \A u \in Live : u \in Block(u) /\ Block(u) \in SUBSET Venues
    BY LiveVenues
  <2>2. QED
    BY <2>1, CanonicalWithin
<1>3. f[v] = f[w]
  BY <1>2
<1>4. v \in Block(v) /\ w \in Block(v)
  BY <1>3
<1>5. QED
  BY <1>1, <1>4 DEF Refused

-----------------------------------------------------------------------------
(* Steps.                                                                  *)

\* What a step may do to who has which venue.
Fits ==
  /\ \A c, d \in Cands :
       seat[c] \in Live /\ seat[d] \in Live /\ seat[c] # seat[d]
         /\ Contrasts(venues[seat[c]].name, venues[seat[d]].name)
         => seat'[c] # seat'[d]
  /\ \A c \in Cands :
       seat[c] = NoVenue /\ seat'[c] # NoVenue =>
         LET name == venues'[seat'[c]].name
         IN name = NameOf(c) \/ ~Contrasts(NameOf(c), name)

LEMMA SeatsKept == seat' = seat => Fits
  BY DEF Fits

\* One planned candidate sits down.
LEMMA SitsDown ==
  ASSUME PlacesInv, NEW c \in Planned, NEW v \in Venues, Seated(c, v),
         venues'[v].name = NameOf(c) \/ ~Contrasts(NameOf(c), venues'[v].name)
  PROVE  /\ Fits
         /\ seat' \in [Cands -> Venues \cup {NoVenue}]
         /\ plan' = [d \in Cands |-> plan'[d]]
         /\ \A d \in Cands : PlanOk(d)'
         /\ \A d \in Planned : d # c => plan'[d] # NoPlan
<1>1. c \in Cands /\ seat[c] = NoVenue
  BY DEF Planned, PlacesInv, PlanOk
<1>2. seat'[c] = v /\ \A d \in Cands : d # c => seat'[d] = seat[d]
  BY <1>1 DEF Seated, PlacesInv
<1>3. plan'[c] = NoPlan /\ \A d \in Cands : d # c => plan'[d] = plan[d]
  BY <1>1 DEF Seated, PlacesInv
<1>4. Fits
  BY <1>1, <1>2, LiveVenues DEF Fits
<1>5. \A d \in Cands : PlanOk(d)'
  BY <1>2, <1>3 DEF PlacesInv, PlanOk, NameOf
<1>6. seat' \in [Cands -> Venues \cup {NoVenue}] /\ plan' = [d \in Cands |-> plan'[d]]
  BY DEF Seated, PlacesInv
<1>7. QED
  BY <1>3, <1>4, <1>5, <1>6 DEF Planned

LEMMA PlacesStep ==
  ASSUME PlacesInv, [PlacesNext]_placeVars
  PROVE  PlacesInv' /\ Fits
<1> USE DEF enrichment
<1>1. ASSUME NEW c \in Cands, Resolve(c)
      PROVE  PlacesInv' /\ Fits
  <2>1. PICK p \in Plans(c) : plan' = [plan EXCEPT ![c] = p]
    BY <1>1 DEF Resolve
  <2>2. /\ UNCHANGED <<venues, seat, writer, shows>> /\ seat[c] = NoVenue /\ plan[c] = NoPlan
    BY <1>1 DEF Resolve
  <2>3. plan'[c] = p /\ \A d \in Cands : d # c => plan'[d] = plan[d]
    BY <2>1 DEF PlacesInv
  <2>4. p.name = NameOf(c)
    BY PlansNamed
  <2>5. \A d \in Cands : PlanOk(d)'
    BY <2>2, <2>3, <2>4 DEF PlacesInv, PlanOk, NameOf
  <2>6. writer' # NoWriter => writer' \in Planned'
    BY <2>2, <2>3 DEF PlacesInv, Planned
  <2>7. plan' = [d \in Cands |-> plan'[d]]
    BY <2>1 DEF PlacesInv
  <2>8. QED
    BY <2>2, <2>5, <2>6, <2>7, SeatsKept DEF PlacesInv
<1>2. ASSUME NEW c \in Cands, LookUp(c)
      PROVE  PlacesInv' /\ Fits
  <2>1. c \in Planned /\ UNCHANGED <<venues, shows>> /\ writer = NoWriter
    BY <1>2 DEF LookUp
  <2>2. CASE Found(plan[c]) = {}
    <3>1. UNCHANGED <<seat, plan>> /\ writer' = c
      BY <1>2, <2>2 DEF LookUp
    <3>2. QED
      BY <2>1, <3>1, SeatsKept DEF PlacesInv, PlanOk, Planned, NameOf
  <2>3. CASE Found(plan[c]) # {}
    <3>1. PICK v \in Found(plan[c]) : Seated(c, v)
      BY <1>2, <2>3 DEF LookUp
    <3>2. writer' = NoWriter
      BY <1>2, <2>1, <2>3 DEF LookUp
    <3>3. plan[c].name = NameOf(c)
      BY <2>1 DEF Planned, PlacesInv, PlanOk
    <3>4. v \in Venues /\ (venues'[v].name = NameOf(c) \/ ~Contrasts(NameOf(c), venues'[v].name))
      BY <2>1, <3>3, FoundFits, LiveVenues
    <3>5. QED
      BY <2>1, <3>1, <3>2, <3>4, SitsDown DEF PlacesInv
  <2>4. QED
    BY <2>2, <2>3
<1>3. ASSUME Insert
      PROVE  PlacesInv' /\ Fits
  <2> DEFINE p == plan[writer]
             unused == {v \in Venues : venues[v] = NoRow}
  <2>1. writer \in Planned /\ writer' = NoWriter /\ shows' = shows
    BY <1>3 DEF Insert, PlacesInv
  <2>2. p.name = NameOf(writer)
    BY <2>1 DEF Planned, PlacesInv, PlanOk
  <2>3. CASE Exact(p) # {}
    <3>1. PICK v \in Exact(p) : Seated(writer, v) /\ venues' = venues
      BY <1>3, <2>3 DEF Insert
    <3>2. v \in Venues /\ venues'[v].name = NameOf(writer)
      BY <2>2, <3>1, LiveVenues DEF Exact
    <3>3. QED
      BY <2>1, <3>1, <3>2, SitsDown DEF PlacesInv
  <2>4. CASE Exact(p) = {}
    <3> DEFINE v == Oldest(unused)
    <3>1. unused # {} /\ Seated(writer, v) /\ venues' = [venues EXCEPT ![v] = p]
      BY <1>3, <2>4 DEF Insert
    <3>2. unused \in SUBSET Nat
      BY PlacesAssumption DEF PlacesAssumption
    <3>3. v \in unused
      <4>1. \E x \in unused : \A y \in unused : x <= y
        BY <3>1, <3>2, LeastOf
      <4>2. QED
        BY <4>1 DEF Oldest
    <3>4. v \in Venues
      BY <3>3
    <3>5. venues'[v] = p
      BY <3>1, <3>4 DEF PlacesInv
    <3>6. venues'[v].name = NameOf(writer)
      BY <2>2, <3>5
    <3>7. venues' = [w \in Venues |-> venues'[w]]
      BY <3>1 DEF PlacesInv
    <3>8. QED
      BY <2>1, <3>1, <3>4, <3>6, <3>7, SitsDown DEF PlacesInv
  <2>5. QED
    BY <2>3, <2>4
<1>4. CASE EnrichDies
  <2>1. UNCHANGED <<venues, seat, shows>> /\ plan' = [c \in Cands |-> NoPlan] /\ writer' = NoWriter
    BY <1>4 DEF EnrichDies
  <2>2. QED
    BY <2>1, SeatsKept DEF PlacesInv, PlanOk
<1>5. ASSUME NEW c \in Cands, Dedup(c)
      PROVE  PlacesInv' /\ Fits
  <2>1. PICK e : shows' = shows \cup {[event |-> e, venue |-> seat[c], start |-> Cand[c].start]}
    BY <1>5 DEF Dedup
  <2>2. UNCHANGED <<venues, seat, plan, writer>>
    BY <1>5 DEF Dedup
  <2>3. IsFiniteSet(shows')
    BY <2>1, FS_AddElement DEF PlacesInv
  <2>4. QED
    BY <2>2, <2>3, SeatsKept DEF PlacesInv, PlanOk, Planned, NameOf
<1>6. CASE MergeVenues
  <2>1. PICK f \in Clusterings :
          LET canon == [v \in Live |-> Canonical({w \in Live : f[w] = f[v]})]
              To(v) == IF v \in Live THEN canon[v] ELSE v
          IN /\ venues' = [v \in Venues |-> IF To(v) = v THEN venues[v] ELSE Deleted]
             /\ seat' = [c \in Cands |-> To(seat[c])]
             /\ shows' = {[o EXCEPT !.venue = To(@)] : o \in shows}
    BY <1>6 DEF MergeVenues
  <2> DEFINE canon == [v \in Live |-> Canonical({w \in Live : f[w] = f[v]})]
             To(v) == IF v \in Live THEN canon[v] ELSE v
  <2>2. UNCHANGED <<plan, writer>>
    BY <1>6 DEF MergeVenues
  <2>3. \A v \in Live : canon[v] \in Venues
    <3>1. \A v \in Live : v \in {w \in Live : f[w] = f[v]} /\ {w \in Live : f[w] = f[v]} \in SUBSET Venues
      BY LiveVenues
    <3>2. \A v \in Live : Canonical({w \in Live : f[w] = f[v]}) \in {w \in Live : f[w] = f[v]}
      BY <3>1, CanonicalWithin DEF PlacesInv
    <3>3. QED
      BY <3>1, <3>2
  <2>4. \A c \in Cands : seat'[c] = To(seat[c])
    BY <2>1
  <2>5. \A c \in Cands : (seat'[c] = NoVenue) <=> (seat[c] = NoVenue)
    BY <2>3, <2>4, LiveVenues, PlacesAssumption DEF PlacesAssumption
  <2>6. seat' \in [Cands -> Venues \cup {NoVenue}]
    BY <2>1, <2>3 DEF PlacesInv
  <2>7. IsFiniteSet(shows')
    <3> DEFINE g == [o \in shows |-> [o EXCEPT !.venue = To(@)]]
    <3>1. shows' = {g[o] : o \in shows}
      BY <2>1
    <3>2. g \in Surjection(shows, shows')
      BY <3>1 DEF Surjection
    <3>3. QED
      BY <3>2, FS_Surjection DEF PlacesInv
  <2>8. \A c \in Cands : PlanOk(c)'
    BY <2>2, <2>5 DEF PlacesInv, PlanOk, NameOf
  <2>9. venues' = [v \in Venues |-> venues'[v]]
    BY <2>1
  <2>10. PlacesInv'
    BY <2>2, <2>6, <2>7, <2>8, <2>9 DEF PlacesInv, Planned
  <2>11. ASSUME NEW c \in Cands, NEW d \in Cands, seat[c] \in Live, seat[d] \in Live, seat[c] # seat[d],
                Contrasts(venues[seat[c]].name, venues[seat[d]].name), seat'[c] = seat'[d]
         PROVE  FALSE
    <3>1. canon[seat[c]] = canon[seat[d]]
      BY <2>4, <2>11
    <3>2. Canonical({x \in Live : f[x] = f[seat[c]]}) = Canonical({x \in Live : f[x] = f[seat[d]]})
      BY <2>11, <3>1
    <3>3. ~Contrasts(venues[seat[c]].name, venues[seat[d]].name)
      <4> HIDE DEF canon, To
      <4>1. QED
        BY <2>1, <2>11, <3>2, ClustersFit DEF PlacesInv
    <3>4. QED
      BY <2>11, <3>3
  <2>12. QED
    BY <2>5, <2>10, <2>11 DEF Fits
<1>7. CASE TurnToWrite \/ (\E v \in Venues : BackfillRead(v)) \/ BackfillWrite \/ UNCHANGED placeVars
  <2>1. UNCHANGED <<seat, plan, writer, shows>>
    BY <1>7 DEF TurnToWrite, BackfillRead, BackfillWrite, placeVars
  <2>2. venues' = [v \in Venues |-> venues'[v]]
    BY <1>7 DEF TurnToWrite, BackfillRead, BackfillWrite, placeVars, PlacesInv
  <2>3. QED
    BY <2>1, <2>2, SeatsKept DEF PlacesInv, PlanOk, Planned, NameOf
<1>8. QED
  BY <1>1, <1>2, <1>3, <1>4, <1>5, <1>6, <1>7 DEF PlacesNext

\* Whoever is planned by the enrichment has no venue and goes by its own name, and the
\* writer is one of them.
THEOREM PlacesInvariance == PlacesSpec => []PlacesInv
<1>1. PlacesInv /\ [PlacesNext]_placeVars => PlacesInv'
  BY PlacesStep
<1>2. QED
  BY <1>1, PlacesStart, PTL DEF PlacesSpec

\* Two halls of a building stay apart at each write and each merge, for any candidates,
\* names, places and answers of the geocoders, in whatever order the pairs are joined.
THEOREM HallsStayApart == PlacesSpec => HallsApart
<1>1. PlacesInv /\ [PlacesNext]_placeVars => [Fits]_placeVars
  BY PlacesStep
<1>2. QED
  BY <1>1, PlacesInvariance, PTL DEF PlacesSpec, HallsApart, Fits

-----------------------------------------------------------------------------
(* Dates of listings.                                                      *)

\* A set of moments that is not empty has its minimum.
LEMMA MinOf ==
  ASSUME NEW S \in SUBSET Nat, S # {}
  PROVE  Min(S) \in S /\ \A y \in S : Min(S) <= y
BY LeastOf DEF Min

\* And its maximum, when it is bounded.
LEMMA MaxOf ==
  ASSUME NEW S \in SUBSET Nat, S # {}, NEW b \in Nat, \A y \in S : y <= b
  PROVE  Max(S) \in S /\ \A y \in S : y <= Max(S)
PROOF
<1> DEFINE T == {b - y : y \in S}
<1>1. T \in SUBSET Nat /\ T # {}
  <2>1. \A y \in S : b - y \in Nat
    OBVIOUS
  <2> QED BY <2>1
<1>2. PICK m \in T : \A y \in T : m <= y
  BY <1>1, LeastOf
<1>3. PICK x \in S : m = b - x
  BY <1>2
<1>4. \A y \in S : y <= x
  BY <1>2, <1>3
<1> QED BY <1>4 DEF Max

\* A moment lies within its day.
LEMMA ADay ==
  ASSUME NEW t \in Nat
  PROVE  /\ Day(t) \in Nat
         /\ Day(t) * DayLen <= t /\ t <= (Day(t) + 1) * DayLen - 1
BY SchedulesAssumption DEF Day

\* And a day is told from its bounds.
LEMMA DayAt ==
  ASSUME NEW t \in Nat, NEW d \in Nat, d * DayLen <= t, t <= (d + 1) * DayLen - 1
  PROVE  Day(t) = d
BY SchedulesAssumption DEF Day

\* The midnights are in the order of the days.
LEMMA Scaled ==
  ASSUME NEW d \in Nat, NEW e \in Nat, d <= e
  PROVE  d * DayLen \in Nat /\ d * DayLen <= e * DayLen
BY SchedulesAssumption

\* A later moment is of no earlier day.
LEMMA DaysInOrder ==
  ASSUME NEW t \in Nat, NEW u \in Nat, t <= u
  PROVE  Day(t) <= Day(u)
BY SchedulesAssumption DEF Day

\* What holds of an event whatever a site tells of it.
Facts(e) ==
  /\ now \in Nat /\ e.sessions \in SUBSET Nat /\ e.run \in BOOLEAN
  /\ e.permanent => e.sessions = {} /\ ~e.run
  /\ e.sessions # {} =>
       /\ First(e) \in e.sessions /\ \A t \in e.sessions : First(e) <= t
       /\ Last(e) \in e.sessions /\ \A t \in e.sessions : t <= Last(e)

\* It holds of every event the sites may list, and today is not beyond the far future.
LEMMA TaleFacts ==
  ASSUME now \in Clocks, NEW e \in Tales
  PROVE  Facts(e) /\ Today * DayLen <= FarFuture /\ FarFuture \in Nat /\ e.sessions \subseteq Times
PROOF
<1>1. Days * DayLen \in Nat
  BY SchedulesAssumption
<1>2. now \in Nat /\ now <= Days * DayLen
  BY <1>1, SchedulesAssumption
<1>3. /\ e.sessions \subseteq Times /\ e.run \in BOOLEAN
      /\ e.permanent => e.sessions = {} /\ ~e.run
  <2>1. CASE \E S \in SUBSET Times, r \in BOOLEAN : e = [sessions |-> S, run |-> r, permanent |-> FALSE]
    BY <2>1
  <2>2. CASE e = [sessions |-> {}, run |-> FALSE, permanent |-> TRUE]
    BY <2>2
  <2> QED BY <2>1, <2>2 DEF Tales
<1>4. e.sessions \in SUBSET Nat /\ \A t \in e.sessions : t <= Days * DayLen
  BY <1>1, <1>3 DEF Times
<1>5. e.sessions # {} =>
        /\ First(e) \in e.sessions /\ \A t \in e.sessions : First(e) <= t
        /\ Last(e) \in e.sessions /\ \A t \in e.sessions : t <= Last(e)
  BY <1>1, <1>4, MinOf, MaxOf DEF First, Last
<1>6. FarFuture \in Nat /\ Days * DayLen <= FarFuture
  BY <1>1 DEF FarFuture
<1>7. Today * DayLen <= now /\ Today * DayLen \in Nat
  BY <1>2, ADay, SchedulesAssumption DEF Today
<1> QED BY <1>1, <1>2, <1>3, <1>4, <1>5, <1>6, <1>7 DEF Facts

\* Today has begun.
LEMMA TodaysDay ==
  ASSUME now \in Nat
  PROVE  Today \in Nat /\ Today * DayLen \in Nat /\ Today * DayLen <= now
BY ADay, SchedulesAssumption DEF Today

\* A span of whole days.
LEMMA DaySpan ==
  ASSUME NEW d \in Nat, NEW f \in Nat, d <= f
  PROVE  /\ d * DayLen \in Nat /\ (f + 1) * DayLen - 1 \in Nat /\ f * DayLen \in Nat
         /\ d * DayLen <= (f + 1) * DayLen - 1 /\ d * DayLen <= f * DayLen
         /\ Day(d * DayLen) = d /\ Day((f + 1) * DayLen - 1) = f /\ Day(f * DayLen) = f
PROOF
<1>1. d * DayLen \in Nat /\ f * DayLen \in Nat /\ d * DayLen <= f * DayLen
  BY Scaled
<1>2. /\ (f + 1) * DayLen = f * DayLen + DayLen
      /\ (d + 1) * DayLen = d * DayLen + DayLen
  BY SchedulesAssumption
<1>3. DayLen \in Nat /\ DayLen >= 2
  BY SchedulesAssumption
<1>4. /\ d * DayLen \in Nat /\ (f + 1) * DayLen - 1 \in Nat /\ f * DayLen \in Nat
      /\ d * DayLen <= (f + 1) * DayLen - 1 /\ d * DayLen <= f * DayLen
      /\ f * DayLen <= (f + 1) * DayLen - 1
      /\ d * DayLen <= (d + 1) * DayLen - 1
  BY <1>1, <1>2, <1>3
<1> QED BY <1>4, DayAt

\* Of the first few of a set, the very first is one.
LEMMA EarliestKept ==
  ASSUME NEW S \in SUBSET Nat, S # {}
  PROVE  Min(S) \in FirstFew(S)
PROOF
<1>1. PICK m : m = Min(S)
  OBVIOUS
<1>2. m \in S /\ \A y \in S : m <= y
  BY <1>1, MinOf, Zenon
<1>3. \A y \in S : ~(y < m)
  BY <1>2
<1>4. {y \in S : y < m} = {}
  BY <1>3
<1>5. Cardinality({y \in S : y < m}) = 0
  BY <1>4, FS_EmptySet
<1>6. m \in FirstFew(S)
  BY <1>2, <1>5, SchedulesAssumption DEF FirstFew
<1> QED BY <1>1, <1>6

\* A row does not end before it begins.
Shaped(rows) == \A r \in rows : r.from \in Nat /\ r.to \in Nat /\ r.from <= r.to

\* Of the rows that there are, some begin first.
LEMMA FirstToBegin ==
  ASSUME NEW rows, Shaped(rows), rows # {}
  PROVE  Soonest(rows) # {} /\ Soonest(rows) \subseteq rows
PROOF
<1> DEFINE F == {r.from : r \in rows}
<1>1. F \in SUBSET Nat /\ F # {}
  BY DEF Shaped
<1>2. PICK x \in F : \A y \in F : x <= y
  BY <1>1, LeastOf
<1>3. PICK r \in rows : r.from = x
  BY <1>2
<1>4. r \in Soonest(rows)
  BY <1>2, <1>3 DEF Soonest
<1> QED BY <1>4 DEF Soonest

\* Rows that do not end before they begin are never all passed over by the normalizer when one of them is to come.
LEMMA DatedWhole ==
  ASSUME now \in Nat, NEW rows, Shaped(rows)
  PROVE  Dated(rows)
PROOF
<1> DEFINE upcoming == {r \in rows : now <= r.from /\ r.from <= Until}
           timed == {r \in upcoming : r.clock}
           ongoing == {r \in rows : r.from < now /\ now <= r.to}
<1>1. Shaped(upcoming) /\ Shaped(timed) /\ Shaped(ongoing)
  BY DEF Shaped
<1>2. \A r \in upcoming : r.to >= now
  BY DEF Shaped
<1>3. \A r \in ongoing : r.to >= now
  BY DEF Shaped
<1>4. SUFFICES ASSUME NEW q \in rows, q.to >= now, q.from <= Until
               PROVE  \E r \in ParseDates(rows) : r.to >= now
  BY DEF Dated
<1>5. upcoming # {} \/ ongoing # {}
  <2>1. CASE now <= q.from
    BY <1>4, <2>1
  <2>2. CASE q.from < now
    BY <1>4, <2>2 DEF Shaped
  <2> QED BY <1>4, <2>1, <2>2 DEF Shaped
<1>6. CASE timed # {}
  <2>1. ParseDates(rows) = Soonest(timed)
    BY <1>6 DEF ParseDates
  <2> QED BY <2>1, <1>1, <1>2, <1>6, FirstToBegin
<1>7. CASE timed = {} /\ upcoming # {}
  <2>1. ParseDates(rows) = Soonest(upcoming)
    BY <1>7 DEF ParseDates
  <2> QED BY <2>1, <1>1, <1>2, <1>7, FirstToBegin
<1>8. CASE timed = {} /\ upcoming = {}
  <2>1. ParseDates(rows) = Soonest(ongoing)
    BY <1>8 DEF ParseDates
  <2>2. ongoing # {}
    BY <1>5, <1>8
  <2> HIDE DEF ongoing
  <2> QED BY <2>1, <2>2, <1>1, <1>3, FirstToBegin
<1> QED BY <1>6, <1>7, <1>8

-----------------------------------------------------------------------------
\* Rows with a time, each of a session of today or later.
TimedRows(rows, e) ==
  \A r \in rows : \E t \in e.sessions : r = Timed(t) /\ Today <= Day(t)

\* Such rows are truthful.
LEMMA TimedHonest ==
  ASSUME NEW e, Facts(e), NEW rows, TimedRows(rows, e)
  PROVE  Shaped(rows) /\ Truthful(rows, e)
PROOF
<1>1. SUFFICES ASSUME NEW r \in rows
               PROVE  /\ r.from \in Nat /\ r.to \in Nat /\ r.from <= r.to
                      /\ r.to >= Today * DayLen
                      /\ Day(r.from) >= Day(First(e)) /\ Day(r.to) <= Day(Last(e))
                      /\ \E t \in e.sessions : r.from <= t /\ t <= r.to
  BY DEF Shaped, Truthful, Real
<1>2. PICK t \in e.sessions : r = Timed(t) /\ Today <= Day(t)
  BY <1>1 DEF TimedRows
<1>3. t \in Nat /\ r.from = t /\ r.to = t
  BY <1>2 DEF Timed, Row, Facts
<1>4. Today * DayLen <= Day(t) * DayLen /\ Day(t) * DayLen <= t
  BY <1>2, <1>3, Scaled, ADay, TodaysDay DEF Facts
<1>5. /\ First(e) \in Nat /\ First(e) <= t /\ Last(e) \in Nat /\ t <= Last(e)
  BY <1>2 DEF Facts
<1>6. Day(First(e)) <= Day(t) /\ Day(t) <= Day(Last(e))
  BY <1>3, <1>5, DaysInOrder
<1>7. Day(First(e)) \in Nat /\ Day(t) \in Nat /\ Day(Last(e)) \in Nat /\ Today * DayLen \in Nat /\ Day(t) * DayLen \in Nat
  BY <1>3, <1>5, ADay, TodaysDay, Scaled DEF Facts
<1> QED BY <1>2, <1>3, <1>4, <1>6, <1>7

\* The rows of Yandex Afisha are truthful, and tell the next session.
LEMMA YandexHonest ==
  ASSUME now \in Clocks, NEW e \in Tales
  PROVE  /\ Shaped(BuildDates(e)) /\ Truthful(BuildDates(e), e)
         /\ ~e.run => NextTold(BuildDates(e), {t \in e.sessions : InWindow(Day(t))})
PROOF
<1> USE TaleFacts
<1>1. Facts(e) /\ now \in Nat /\ Today \in Nat /\ Today * DayLen \in Nat
  BY TodaysDay DEF Facts
<1>2. CASE e.permanent
  <2>1. BuildDates(e) = {Row(0, FarFuture, FALSE)}
    BY <1>2 DEF BuildDates
  <2>2. e.sessions = {} /\ ~e.run
    BY <1>1, <1>2 DEF Facts
  <2> QED BY <1>1, <1>2, <2>1, <2>2 DEF Shaped, Truthful, Real, NextTold, Row
<1> DEFINE next == {t \in e.sessions : InWindow(Day(t))}
           discrete == {IF e.sessions = {t} THEN Timed(t) ELSE AllDay(Day(t)) :
                          t \in {u \in e.sessions : Day(u) \in DaysListed(e)}}
<1>3. DaysListed(e) \subseteq {d \in {Day(t) : t \in e.sessions} : InWindow(d)}
  BY DEF DaysListed, FirstFew
<1>4. next # {} => Min(next) \in next /\ Day(Min(next)) \in DaysListed(e)
  <2>1. SUFFICES ASSUME next # {}
                 PROVE  Min(next) \in next /\ Day(Min(next)) \in DaysListed(e)
    OBVIOUS
  <2>2. next \in SUBSET Nat
    BY <1>1 DEF Facts
  <2>3. Min(next) \in next /\ \A t \in next : Min(next) <= t
    BY <2>1, <2>2, MinOf
  <2> DEFINE D == {d \in {Day(t) : t \in e.sessions} : InWindow(d)}
  <2>4. D \in SUBSET Nat
    BY <1>1, ADay DEF Facts
  <2>5. Day(Min(next)) \in D
    BY <2>3
  <2>6. \A d \in D : Day(Min(next)) <= d
    <3>1. SUFFICES ASSUME NEW t \in e.sessions, InWindow(Day(t))
                   PROVE  Day(Min(next)) <= Day(t)
      OBVIOUS
    <3> QED BY <2>2, <2>3, <3>1, DaysInOrder
  <2>7. Min(D) \in D /\ \A d \in D : Min(D) <= d
    <3> HIDE DEF D
    <3> QED BY <2>4, <2>5, MinOf
  <2>8. Min(D) = Day(Min(next))
    <3>1. PICK d \in D : d = Min(D)
      BY <2>7
    <3>2. PICK f \in D : f = Day(Min(next))
      BY <2>5
    <3>3. d <= f /\ f <= d /\ d \in Nat /\ f \in Nat
      BY <2>4, <2>6, <2>7, <3>1, <3>2
    <3> QED BY <3>1, <3>2, <3>3
  <2>9. Min(D) \in FirstFew(D)
    <3> HIDE DEF D
    <3> QED BY <2>4, <2>5, EarliestKept
  <2> HIDE DEF next
  <2> QED BY <2>3, <2>8, <2>9 DEF DaysListed
<1>5. CASE ~e.permanent /\ ~e.run /\ DaysListed(e) # {}
  <2>1. BuildDates(e) = discrete
    BY <1>5 DEF BuildDates
  <2>2. ASSUME NEW t \in e.sessions, Day(t) \in DaysListed(e), NEW r, 
               r = IF e.sessions = {t} THEN Timed(t) ELSE AllDay(Day(t))
        PROVE  /\ r.from \in Nat /\ r.to \in Nat /\ r.from <= t /\ t <= r.to
               /\ r.to >= Today * DayLen
    <3>1. t \in Nat /\ Today <= Day(t)
      BY <1>1, <1>3, <2>2 DEF Facts, InWindow
    <3>2. /\ Day(t) \in Nat /\ Day(t) * DayLen <= t /\ t <= (Day(t) + 1) * DayLen - 1
          /\ Day(t) * DayLen \in Nat /\ (Day(t) + 1) * DayLen - 1 \in Nat
      BY <3>1, ADay, DaySpan
    <3>3. Today * DayLen <= Day(t) * DayLen
      BY <1>1, <3>1, <3>2, Scaled
    <3>4. CASE e.sessions = {t}
      BY <1>1, <2>2, <3>1, <3>2, <3>3, <3>4 DEF Timed, Row
    <3>5. CASE e.sessions # {t}
      BY <1>1, <2>2, <3>1, <3>2, <3>3, <3>5 DEF AllDay, Row
    <3> QED BY <3>4, <3>5
  <2>3. \A r \in discrete : \E t \in e.sessions :
          /\ r.from \in Nat /\ r.to \in Nat /\ r.from <= t /\ t <= r.to
          /\ r.to >= Today * DayLen
    BY <2>2
  <2>4. Shaped(discrete) /\ Truthful(discrete, e)
    <3>1. \A t \in e.sessions : t \in Nat
      BY <1>1 DEF Facts
    <3> HIDE DEF discrete
    <3> QED BY <2>3, <3>1, <1>5 DEF Shaped, Truthful, Real
  <2>5. NextTold(discrete, next)
    <3>1. SUFFICES ASSUME next # {}
                   PROVE  \E r \in discrete : r.from <= Min(next) /\ Min(next) <= r.to
      BY DEF NextTold, Covers
    <3>2. Min(next) \in e.sessions /\ Day(Min(next)) \in DaysListed(e)
      BY <1>4, <3>1
    <3> HIDE DEF next
    <3>3. PICK r \in discrete : r = IF e.sessions = {Min(next)} THEN Timed(Min(next)) ELSE AllDay(Day(Min(next)))
      BY <3>2
    <3> QED BY <2>2, <3>2, <3>3
  <2> QED BY <2>1, <2>4, <2>5
<1>6. CASE ~e.permanent /\ ~(~e.run /\ DaysListed(e) # {}) /\ (e.sessions # {} /\ Day(First(e)) <= Today /\ Today <= Day(Last(e)))
  <2>1. BuildDates(e) = {Row(Day(First(e)) * DayLen, (Day(Last(e)) + 1) * DayLen - 1, FALSE)}
    BY <1>6 DEF BuildDates
  <2>2. First(e) \in Nat /\ Last(e) \in Nat /\ First(e) \in e.sessions /\ First(e) <= Last(e)
    BY <1>1, <1>6 DEF Facts
  <2>3. /\ Day(First(e)) \in Nat /\ Day(Last(e)) \in Nat /\ Day(First(e)) * DayLen <= First(e)
        /\ Day(First(e)) <= Day(Last(e)) /\ Last(e) <= (Day(Last(e)) + 1) * DayLen - 1
    BY <2>2, ADay, DaysInOrder
  <2>4. /\ Day(First(e)) * DayLen \in Nat /\ (Day(Last(e)) + 1) * DayLen - 1 \in Nat
        /\ Day(First(e)) * DayLen <= (Day(Last(e)) + 1) * DayLen - 1
        /\ Day(Day(First(e)) * DayLen) = Day(First(e)) /\ Day((Day(Last(e)) + 1) * DayLen - 1) = Day(Last(e))
    BY <2>3, DaySpan
  <2>5. Today * DayLen <= (Day(Last(e)) + 1) * DayLen - 1
    BY <1>1, <1>6, <2>3, DaySpan
  <2>6. \A r \in BuildDates(e) : r.from = Day(First(e)) * DayLen /\ r.to = (Day(Last(e)) + 1) * DayLen - 1
    BY <2>1 DEF Row
  <2>7. Shaped(BuildDates(e))
    BY <2>6, <2>4 DEF Shaped
  <2>8. Truthful(BuildDates(e), e)
    BY <2>6, <2>5, <2>4, <2>3, <2>2, <1>1 DEF Truthful, Real
  <2>9. ~e.run => next = {}
    BY <1>4, <1>6
  <2> QED BY <2>7, <2>8, <2>9 DEF NextTold
<1>7. CASE ~e.permanent /\ ~(~e.run /\ DaysListed(e) # {}) /\ ~(e.sessions # {} /\ Day(First(e)) <= Today /\ Today <= Day(Last(e)))
  <2>1. BuildDates(e) = {}
    BY <1>7 DEF BuildDates
  <2>2. ~e.run => next = {}
    BY <1>4, <1>7
  <2> QED BY <2>1, <2>2 DEF Shaped, Truthful, Real, NextTold
<1> QED BY <1>2, <1>5, <1>6, <1>7

\* So are those made of the sessions themselves.
LEMMA SessionsHonest ==
  ASSUME now \in Nat, NEW e, Facts(e)
  PROVE  /\ TimedRows(RowsFromSessions(e.sessions), e)
         /\ NextTold(RowsFromSessions(e.sessions), {t \in e.sessions : InWindow(Day(t))})
PROOF
<1> DEFINE next == {u \in e.sessions : InWindow(Day(u))}
<1>1. RowsFromSessions(e.sessions) = {Timed(t) : t \in FirstFew(next)}
  BY DEF RowsFromSessions
<1>2. FirstFew(next) \subseteq next
  BY DEF FirstFew
<1>3. TimedRows({Timed(t) : t \in FirstFew(next)}, e)
  BY <1>2 DEF TimedRows, InWindow
<1>4. ASSUME next # {}
      PROVE  Covers({Timed(t) : t \in FirstFew(next)}, Min(next))
  <2>1. next \in SUBSET Nat
    BY DEF Facts
  <2> HIDE DEF next
  <2>2. Min(next) \in FirstFew(next) /\ Min(next) \in Nat
    BY <1>4, <2>1, EarliestKept, MinOf
  <2>3. Timed(Min(next)) \in {Timed(t) : t \in FirstFew(next)}
    BY <2>2
  <2>4. Timed(Min(next)).from = Min(next) /\ Timed(Min(next)).to = Min(next)
    BY DEF Timed, Row
  <2> QED BY <2>2, <2>3, <2>4 DEF Covers
<1> QED BY <1>1, <1>3, <1>4 DEF NextTold

\* So are those of Yandex Afisha whether its schedule was answered or not.
LEMMA AugmentedHonest ==
  ASSUME now \in Clocks, NEW e \in Tales, NEW answered \in BOOLEAN
  PROVE  LET rows == AugmentSchedules(BuildDates(e), e, answered)
         IN /\ Shaped(rows) /\ Truthful(rows, e)
            /\ ~e.run => NextTold(rows, {t \in e.sessions : InWindow(Day(t))})
PROOF
<1>1. Facts(e) /\ now \in Nat
  BY TaleFacts DEF Facts
<1>2. /\ Shaped(RowsFromSessions(e.sessions)) /\ Truthful(RowsFromSessions(e.sessions), e)
      /\ NextTold(RowsFromSessions(e.sessions), {t \in e.sessions : InWindow(Day(t))})
  BY <1>1, SessionsHonest, TimedHonest
<1>3. \/ AugmentSchedules(BuildDates(e), e, answered) = RowsFromSessions(e.sessions)
      \/ AugmentSchedules(BuildDates(e), e, answered) = BuildDates(e)
  BY DEF AugmentSchedules
<1> QED BY <1>2, <1>3, YandexHonest

\* Those of a listing of afisha.ru are truthful.
LEMMA ListingHonest ==
  ASSUME now \in Nat, NEW e, Facts(e)
  PROVE  Shaped(ListingDates(e)) /\ Truthful(ListingDates(e), e)
PROOF
<1>0. Today \in Nat /\ Today * DayLen \in Nat
  BY TodaysDay
<1>1. CASE ~(e.run /\ e.sessions # {} /\ Day(Last(e)) - Day(First(e)) > 1)
  <2>1. ListingDates(e) = {Timed(t) : t \in {u \in e.sessions : InWindow(Day(u)) /\ u \in {First(e), Last(e)}}}
    BY <1>1 DEF ListingDates
  <2>2. TimedRows(ListingDates(e), e)
    BY <2>1 DEF TimedRows, InWindow
  <2> QED BY <2>2, TimedHonest
<1>2. CASE e.run /\ e.sessions # {} /\ Day(Last(e)) - Day(First(e)) > 1
  <2> DEFINE begin == Max({First(e), Today * DayLen})
  <2>1. First(e) \in Nat /\ Last(e) \in Nat /\ First(e) <= Last(e)
    BY <1>2 DEF Facts
  <2>2. Day(Last(e)) \in Nat /\ Day(First(e)) \in Nat /\ Day(Last(e)) * DayLen <= Last(e)
        /\ Day(Last(e)) * DayLen \in Nat
    BY <2>1, ADay, Scaled
  <2>3. CASE Day(Last(e)) < Today
    BY <1>2, <2>3 DEF ListingDates, Shaped, Truthful, Real
  <2>4. CASE Day(Last(e)) >= Today
    <3>1. ListingDates(e) = {Row(begin, Last(e), FALSE)}
      <4>1. ~(Day(Last(e)) < Today)
        BY <1>0, <2>2, <2>4
      <4> QED BY <1>2, <4>1, Zenon DEF ListingDates
    <3>2. Today * DayLen <= Day(Last(e)) * DayLen
      BY <1>0, <2>2, <2>4, Scaled
    <3>3. Today * DayLen <= Last(e)
      BY <1>0, <2>1, <2>2, <3>2
    <3>4. begin \in {First(e), Today * DayLen} /\ First(e) <= begin
      <4>1. {First(e), Today * DayLen} \in SUBSET Nat /\ \A y \in {First(e), Today * DayLen} : y <= Last(e)
        BY <1>0, <2>1, <3>3
      <4> QED BY <4>1, <2>1, MaxOf
    <3>5. begin \in Nat /\ begin <= Last(e)
      BY <1>0, <2>1, <3>3, <3>4
    <3>6. Day(begin) >= Day(First(e))
      BY <2>1, <3>4, <3>5, DaysInOrder, ADay
    <3> HIDE DEF begin
    <3>7. \A r \in ListingDates(e) : r.from = begin /\ r.to = Last(e)
      BY <3>1 DEF Row
    <3> QED BY <1>2, <2>1, <2>2, <3>3, <3>5, <3>6, <3>7 DEF Shaped, Truthful, Real
  <2> QED BY <1>0, <2>2, <2>3, <2>4
<1> QED BY <1>1, <1>2

\* A listing tells the next session exactly when it is the first or the last one.
LEMMA ListingTells ==
  ASSUME now \in Nat, NEW e, Facts(e), ~e.run
  PROVE  LET next == {t \in e.sessions : InWindow(Day(t))}
         IN NextTold(ListingDates(e), next) <=> (next = {} \/ Min(next) \in {First(e), Last(e)})
PROOF
<1> DEFINE next == {t \in e.sessions : InWindow(Day(t))}
           ends == {u \in e.sessions : InWindow(Day(u)) /\ u \in {First(e), Last(e)}}
<1>1. ListingDates(e) = {Timed(t) : t \in ends}
  BY DEF ListingDates
<1>2. SUFFICES ASSUME next # {}
               PROVE  Covers(ListingDates(e), Min(next)) <=> Min(next) \in {First(e), Last(e)}
  BY DEF NextTold
<1>3. PICK m : m = Min(next)
  OBVIOUS
<1>4. m \in next /\ m \in Nat
  <2>1. next \in SUBSET Nat
    BY DEF Facts
  <2> HIDE DEF next
  <2> QED BY <1>2, <1>3, <2>1, MinOf
<1>5. \A t \in ends : t \in Nat /\ Timed(t).from = t /\ Timed(t).to = t
  BY DEF Facts, Timed, Row
<1>6. Covers(ListingDates(e), m) <=> m \in ends
  <2> HIDE DEF ends
  <2> QED BY <1>1, <1>4, <1>5 DEF Covers
<1>7. m \in ends <=> m \in {First(e), Last(e)}
  BY <1>4
<1> QED BY <1>3, <1>6, <1>7

\* KudaGo makes no date up, and tells the next session exactly while the first few sessions are
\* not all over.
LEMMA KudagoHonest ==
  ASSUME now \in Nat, NEW e, Facts(e)
  PROVE  LET coming == {t \in e.sessions : now <= t /\ t <= Until}
             over == {t \in e.sessions : t < now}
         IN /\ Shaped(TrimmedDates(e)) /\ Real(TrimmedDates(e), e)
            /\ NextTold(TrimmedDates(e), coming) <=> (e.run \/ coming = {} \/ Cardinality(over) < Cap)
PROOF
<1> DEFINE coming == {t \in e.sessions : now <= t /\ t <= Until}
           over == {t \in e.sessions : t < now}
           m == Min(coming)
<1>1. TrimmedDates(e) \subseteq KudagoRows(e)
  BY DEF TrimmedDates
<1>2. \A t \in e.sessions : t \in Nat /\ Timed(t).from = t /\ Timed(t).to = t
  BY DEF Facts, Timed, Row
<1>3. coming # {} => m \in coming /\ \A t \in coming : m <= t
  <2>1. coming \in SUBSET Nat
    BY DEF Facts
  <2> HIDE DEF coming
  <2> QED BY <2>1, MinOf
<1>4. CASE e.run /\ e.sessions # {}
  <2> DEFINE row == Row(First(e), Last(e), TRUE)
  <2>1. KudagoRows(e) = {row}
    BY <1>4 DEF KudagoRows
  <2>2. /\ row.from = First(e) /\ row.to = Last(e)
        /\ First(e) \in Nat /\ Last(e) \in Nat /\ First(e) <= Last(e)
        /\ \A t \in e.sessions : First(e) <= t /\ t <= Last(e)
    BY <1>4 DEF Row, Facts
  <2> HIDE DEF row
  <2>3. Shaped(TrimmedDates(e))
    BY <1>1, <2>1, <2>2 DEF Shaped
  <2>4. Real(TrimmedDates(e), e)
    <3>1. Day(First(e)) \in Nat /\ Day(Last(e)) \in Nat
      BY <2>2, ADay
    <3>2. \A r \in TrimmedDates(e) : Day(r.from) >= Day(First(e)) /\ Day(r.to) <= Day(Last(e))
      BY <1>1, <2>1, <2>2, <3>1
    <3> QED BY <1>4, <3>2 DEF Real
  <2>5. ASSUME coming # {} PROVE Covers(TrimmedDates(e), m)
    <3>1. m \in e.sessions /\ m \in Nat /\ now <= m /\ m <= Until
      BY <1>2, <1>3, <2>5
    <3>2. First(e) <= m /\ m <= Last(e)
      BY <2>2, <3>1
    <3> HIDE DEF m
    <3>3. InKudagoWindow(e)
      <4>1. Until \in Nat
        BY SchedulesAssumption DEF Until
      <4>2. \/ now <= row.from /\ row.from <= Until
            \/ row.from < now /\ row.to >= now
        BY <2>2, <3>1, <3>2, <4>1
      <4> QED BY <2>1, <4>2 DEF InKudagoWindow
    <3>4. row.from \in FirstFew({q.from : q \in KudagoRows(e)})
      <4>1. {q.from : q \in KudagoRows(e)} = {First(e)}
        BY <2>1, <2>2
      <4>2. First(e) \in FirstFew({First(e)})
        <5>1. {First(e)} \in SUBSET Nat
          BY <2>2
        <5>2. Min({First(e)}) = First(e)
          BY <5>1, MinOf
        <5> QED BY <5>1, <5>2, EarliestKept
      <4> QED BY <2>2, <4>1, <4>2
    <3>5. row \in TrimmedDates(e)
      BY <2>1, <3>3, <3>4 DEF TrimmedDates
    <3> QED BY <2>2, <3>2, <3>5 DEF Covers
  <2> HIDE DEF m, coming, over
  <2>6. NextTold(TrimmedDates(e), coming)
    BY <2>5 DEF NextTold, m
  <2> QED BY <1>4, <2>3, <2>4, <2>6 DEF coming, over
<1>5. CASE ~(e.run /\ e.sessions # {})
  <2>1. KudagoRows(e) = {Timed(t) : t \in e.sessions}
    BY <1>5 DEF KudagoRows
  <2>2. \A r \in TrimmedDates(e) : \E t \in e.sessions : r.from = t /\ r.to = t /\ t \in Nat
    BY <1>1, <1>2, <2>1
  <2>3. Shaped(TrimmedDates(e))
    BY <2>2 DEF Shaped
  <2>4. Real(TrimmedDates(e), e)
    <3>1. e.sessions # {} => ~e.run
      BY <1>5 DEF Facts
    <3>2. \A r \in TrimmedDates(e) : e.sessions # {} /\ \E t \in e.sessions : r.from <= t /\ t <= r.to
      BY <2>2
    <3> QED BY <3>1, <3>2 DEF Real
  <2>5. ASSUME coming # {} PROVE Covers(TrimmedDates(e), m) <=> Cardinality(over) < Cap
    <3>1. m \in e.sessions /\ m \in Nat /\ now <= m /\ m <= Until
      BY <1>2, <1>3, <2>5
    <3>2. InKudagoWindow(e)
      BY <1>2, <2>1, <3>1 DEF InKudagoWindow
    <3>3. {q.from : q \in KudagoRows(e)} = e.sessions
      BY <1>2, <2>1
    <3>4. TrimmedDates(e) = {r \in KudagoRows(e) : r.from \in FirstFew(e.sessions)}
      BY <3>2, <3>3 DEF TrimmedDates
    <3>5. {y \in e.sessions : y < m} = over
      <4>1. ASSUME NEW y \in e.sessions, y < m PROVE y < now
        <5>1. y \in Nat /\ Until \in Nat
          BY <1>2, SchedulesAssumption DEF Until
        <5>2. ~(y \in coming)
          BY <1>3, <2>5, <3>1, <4>1, <5>1
        <5> HIDE DEF m
        <5> QED BY <3>1, <4>1, <5>1, <5>2
      <4>2. ASSUME NEW y \in e.sessions, y < now PROVE y < m
        <5>1. y \in Nat
          BY <1>2
        <5> HIDE DEF m
        <5> QED BY <3>1, <4>2, <5>1
      <4> QED BY <4>1, <4>2
    <3> HIDE DEF m, over
    <3>6. m \in FirstFew(e.sessions) <=> Cardinality(over) < Cap
      BY <3>1, <3>5 DEF FirstFew
    <3>7. Covers(TrimmedDates(e), m) <=> m \in FirstFew(e.sessions)
      <4>1. ASSUME NEW r \in TrimmedDates(e), r.from <= m, m <= r.to PROVE m \in FirstFew(e.sessions)
        <5>1. PICK t \in e.sessions : r.from = t /\ r.to = t /\ t \in Nat
          BY <2>2
        <5>2. t = m
          BY <3>1, <4>1, <5>1
        <5> QED BY <3>4, <5>1, <5>2
      <4>2. ASSUME m \in FirstFew(e.sessions) PROVE Covers(TrimmedDates(e), m)
        <5>1. Timed(m) \in KudagoRows(e) /\ Timed(m).from = m /\ Timed(m).to = m
          BY <1>2, <2>1, <3>1
        <5>2. Timed(m) \in TrimmedDates(e)
          BY <3>4, <4>2, <5>1
        <5> QED BY <3>1, <5>1, <5>2 DEF Covers
      <4> QED BY <4>1, <4>2 DEF Covers
    <3> QED BY <3>6, <3>7
  <2>6. e.run => coming = {}
    BY <1>5
  <2> HIDE DEF m, coming, over
  <2>7. NextTold(TrimmedDates(e), coming) <=> (e.run \/ coming = {} \/ Cardinality(over) < Cap)
    BY <2>5, <2>6 DEF NextTold, m
  <2> QED BY <2>3, <2>4, <2>7 DEF coming, over
<1> QED BY <1>4, <1>5

\* Those of the schedule of afisha.ru are truthful, and tell the next session.
LEMMA AfishaHonest ==
  ASSUME now \in Nat, NEW e, Facts(e), e.sessions \subseteq Times
  PROVE  LET rows == GraphqlSchedule(e, Times)
         IN /\ Shaped(rows) /\ Truthful(rows, e)
            /\ NextTold(rows, {t \in e.sessions : InWindow(Day(t))})
PROOF
<1>1. e.sessions \cap Times = e.sessions
  OBVIOUS
<1>2. GraphqlSchedule(e, Times) = RowsFromSessions(e.sessions)
  BY <1>1 DEF GraphqlSchedule, RowsFromSessions
<1> QED BY <1>2, SessionsHonest, TimedHonest

\* So is the record of Timepad, of an exhibition, a stage or anything else.
LEMMA PostedHonest ==
  ASSUME now \in Nat, NEW e, Facts(e), NEW k \in {"exhibition", "stage", "other"},
         e.run <=> k = "exhibition"
  PROVE  /\ Truthful(BuildRecord(e.sessions, k), e)
         /\ ~e.run => NextTold(BuildRecord(e.sessions, k), {t \in e.sessions : now <= t /\ t <= Until})
PROOF
<1> DEFINE group == {t \in e.sessions : t <= Until}
           future == {t \in group : t >= now}
           next == {t \in e.sessions : now <= t /\ t <= Until}
           multiday == Day(Max(group)) > Day(Min(future))
<1>0. Today \in Nat /\ Today * DayLen \in Nat /\ Today * DayLen <= now
  BY TodaysDay
<1>1. next = future
  BY DEF Facts
<1>2. CASE future = {}
  <2>1. BuildRecord(e.sessions, k) = {}
    BY <1>2 DEF BuildRecord
  <2> QED BY <1>1, <1>2, <2>1 DEF Truthful, Real, NextTold
<1>3. CASE future # {}
  <2> DEFINE lo == Min(future)
             hi == Max(group)
  <2>1. future \in SUBSET Nat /\ group \in SUBSET Nat /\ group # {}
    BY <1>3 DEF Facts
  <2>2. lo \in future
    BY <1>3, <2>1, MinOf
  <2>3. hi \in group /\ \A y \in group : y <= hi
    <3>1. Last(e) \in Nat /\ \A y \in group : y <= Last(e)
      BY <2>1 DEF Facts
    <3> HIDE DEF group
    <3> QED BY <2>1, <3>1, MaxOf
  <2>4. /\ lo \in e.sessions /\ hi \in e.sessions /\ lo \in Nat /\ hi \in Nat
        /\ now <= lo /\ lo <= hi
    BY <2>1, <2>2, <2>3
  <2>5. BuildRecord(e.sessions, k) =
          IF k = "stage" \/ (k # "exhibition" /\ ~multiday) THEN {Timed(lo)}
          ELSE {Row(Day(lo) * DayLen, Day(hi) * DayLen, FALSE)}
    BY <1>3 DEF BuildRecord
  <2>6. /\ Day(lo) \in Nat /\ Day(hi) \in Nat /\ Day(lo) <= Day(hi)
        /\ Day(lo) * DayLen <= lo /\ Day(lo) * DayLen \in Nat /\ Day(hi) * DayLen \in Nat
        /\ Day(Day(lo) * DayLen) = Day(lo) /\ Day(Day(hi) * DayLen) = Day(hi)
        /\ lo <= (Day(lo) + 1) * DayLen - 1
    BY <2>4, ADay, DaysInOrder, DaySpan
  <2>7. Today <= Day(lo) /\ Today * DayLen <= Day(hi) * DayLen
    <3>1. Today <= Day(lo)
      BY <2>4, DaysInOrder DEF Today
    <3> QED BY <3>1, <1>0, <2>6, Scaled
  <2>8. /\ First(e) \in Nat /\ Last(e) \in Nat /\ First(e) <= lo /\ hi <= Last(e)
    BY <2>4 DEF Facts
  <2>9. Day(First(e)) <= Day(lo) /\ Day(hi) <= Day(Last(e)) /\ Day(First(e)) \in Nat /\ Day(Last(e)) \in Nat
    BY <2>4, <2>8, DaysInOrder, ADay
  <2>10. multiday <=> Day(hi) > Day(lo)
    OBVIOUS
  <2>11. next # {} => Min(next) = lo
    BY <1>1
  <2> HIDE DEF lo, hi, group, future, next, multiday
  <2>12. CASE k = "stage" \/ (k # "exhibition" /\ ~multiday)
    <3>1. \A r \in BuildRecord(e.sessions, k) : r.from = lo /\ r.to = lo
      BY <2>5, <2>12 DEF Timed, Row
    <3>2. ~e.run
      BY <2>12
    <3>3. Truthful(BuildRecord(e.sessions, k), e)
      BY <3>1, <3>2, <1>0, <2>4 DEF Truthful, Real
    <3>4. NextTold(BuildRecord(e.sessions, k), next)
      <4>1. Timed(lo) \in BuildRecord(e.sessions, k)
        BY <2>5, <2>12
      <4> QED BY <4>1, <3>1, <2>4, <2>11 DEF NextTold, Covers
    <3> QED BY <3>3, <3>4 DEF next
  <2>13. CASE ~(k = "stage" \/ (k # "exhibition" /\ ~multiday))
    <3>1. \A r \in BuildRecord(e.sessions, k) : r.from = Day(lo) * DayLen /\ r.to = Day(hi) * DayLen
      BY <2>5, <2>13 DEF Row
    <3>2. ~e.run => Day(lo) * DayLen <= lo /\ lo <= Day(hi) * DayLen
      <4>1. SUFFICES ASSUME ~e.run PROVE lo <= Day(hi) * DayLen
        BY <2>6
      <4>2. Day(lo) + 1 <= Day(hi)
        BY <2>13, <4>1, <2>10, <2>6
      <4>3. (Day(lo) + 1) * DayLen <= Day(hi) * DayLen
        BY <4>2, <2>6, Scaled
      <4>4. (Day(lo) + 1) * DayLen \in Nat
        BY <2>6, SchedulesAssumption
      <4> QED BY <4>3, <4>4, <2>6, <2>4
    <3>3. Truthful(BuildRecord(e.sessions, k), e)
      BY <3>1, <3>2, <1>0, <2>4, <2>6, <2>7, <2>9 DEF Truthful, Real
    <3>4. ~e.run => NextTold(BuildRecord(e.sessions, k), next)
      <4>1. Row(Day(lo) * DayLen, Day(hi) * DayLen, FALSE) \in BuildRecord(e.sessions, k)
        BY <2>5, <2>13
      <4> QED BY <4>1, <3>1, <3>2, <2>11 DEF NextTold, Covers
    <3> QED BY <3>3, <3>4 DEF next
  <2> QED BY <2>12, <2>13
<1> QED BY <1>2, <1>3

\* Whatever the clock and the event, every connector is honest about its dates.
LEMMA EveryTaleHonest ==
  ASSUME now \in Clocks, NEW e \in Tales
  PROVE  Honest(e)
PROOF
<1> DEFINE next == {t \in e.sessions : InWindow(Day(t))}
           coming == {t \in e.sessions : now <= t /\ t <= Until}
           over == {t \in e.sessions : t < now}
           asked == {AugmentSchedules(BuildDates(e), e, answered) : answered \in BOOLEAN}
                      \cup {GraphqlSchedule(e, Times)}
           kinds == IF e.run THEN {"exhibition"} ELSE {"stage", "other"}
           posted == {BuildRecord(e.sessions, k) : k \in kinds}
<1>1. Facts(e) /\ now \in Nat /\ e.sessions \subseteq Times
  BY TaleFacts DEF Facts
<1>2. \A rows \in asked : Shaped(rows) /\ Truthful(rows, e) /\ (~e.run => NextTold(rows, next))
  BY <1>1, AugmentedHonest, AfishaHonest
<1>3. Shaped(ListingDates(e)) /\ Truthful(ListingDates(e), e)
  BY <1>1, ListingHonest
<1>4. ~e.run => (NextTold(ListingDates(e), next) <=> (next = {} \/ Min(next) \in {First(e), Last(e)}))
  BY <1>1, ListingTells
<1>5. \A rows \in posted : Truthful(rows, e) /\ (~e.run => NextTold(rows, coming))
  <2>1. \A k \in kinds : k \in {"exhibition", "stage", "other"} /\ (e.run <=> k = "exhibition")
    BY <1>1 DEF Facts
  <2> HIDE DEF kinds
  <2> QED BY <1>1, <2>1, PostedHonest
<1>6. /\ Shaped(TrimmedDates(e)) /\ Real(TrimmedDates(e), e)
      /\ NextTold(TrimmedDates(e), coming) <=> (e.run \/ coming = {} \/ Cardinality(over) < Cap)
  BY <1>1, KudagoHonest
<1> HIDE DEF asked, posted, next, coming, over
<1>7. \A rows \in asked \cup {ListingDates(e), TrimmedDates(e)} : Dated(rows)
  BY <1>1, <1>2, <1>3, <1>6, DatedWhole
<1> QED BY <1>2, <1>3, <1>4, <1>5, <1>6, <1>7 DEF Honest, asked, posted, next, coming, over

-----------------------------------------------------------------------------
(* Places in a list, and pages.                                            *)

\* What is listed before a listing, and itself.
UpTo(S, i) == {j \in S : j <= i}

\* A place is a number, and no greater than the length of the list.
LEMMA PlaceIs ==
  ASSUME NEW S, IsFiniteSet(S), NEW i
  PROVE  /\ Place(S, i) = Cardinality(UpTo(S, i)) /\ UpTo(S, i) \subseteq S
         /\ IsFiniteSet(UpTo(S, i)) /\ Place(S, i) \in Nat /\ Place(S, i) <= Cardinality(S)
         /\ Cardinality(S) \in Nat
PROOF
<1>1. UpTo(S, i) \in SUBSET S /\ Place(S, i) = Cardinality(UpTo(S, i))
  BY DEF UpTo, Place
<1>2. IsFiniteSet(UpTo(S, i)) /\ Cardinality(UpTo(S, i)) <= Cardinality(S)
  BY <1>1, FS_Subset
<1>3. Cardinality(UpTo(S, i)) \in Nat /\ Cardinality(S) \in Nat
  BY <1>2, FS_CardinalityType
<1> QED BY <1>1, <1>2, <1>3

\* What is listed has a place from the first on.
LEMMA PlaceRange ==
  ASSUME NEW S \in SUBSET Nat, IsFiniteSet(S), NEW i \in S
  PROVE  Place(S, i) \in 1..Cardinality(S)
PROOF
<1>1. i \in UpTo(S, i)
  BY DEF UpTo
<1>2. Cardinality(UpTo(S, i)) # 0
  BY <1>1, PlaceIs, FS_EmptySet
<1> QED BY <1>2, PlaceIs

\* Places are in the order of the list.
LEMMA PlaceGrows ==
  ASSUME NEW S \in SUBSET Nat, IsFiniteSet(S), NEW i \in S, NEW j \in S, i < j
  PROVE  Place(S, i) < Place(S, j)
PROOF
<1>1. UpTo(S, i) \in SUBSET UpTo(S, j) /\ j \in UpTo(S, j) /\ j \notin UpTo(S, i)
  <2>1. \A k \in S : k <= i => k <= j
    OBVIOUS
  <2>2. j <= j /\ ~(j <= i)
    OBVIOUS
  <2> QED BY <2>1, <2>2 DEF UpTo
<1>2. IsFiniteSet(UpTo(S, j))
  BY PlaceIs
<1>3. /\ Cardinality(UpTo(S, i)) <= Cardinality(UpTo(S, j))
      /\ Cardinality(UpTo(S, j)) = Cardinality(UpTo(S, i)) => UpTo(S, j) = UpTo(S, i)
  BY <1>1, <1>2, FS_Subset
<1>4. /\ Place(S, i) = Cardinality(UpTo(S, i)) /\ Place(S, j) = Cardinality(UpTo(S, j))
      /\ Place(S, i) \in Nat /\ Place(S, j) \in Nat
  BY PlaceIs
<1> QED BY <1>1, <1>3, <1>4

\* No two listings have one place.
LEMMA PlaceApart ==
  ASSUME NEW S \in SUBSET Nat, IsFiniteSet(S), NEW i \in S, NEW j \in S, Place(S, i) = Place(S, j)
  PROVE  i = j
PROOF
<1>1. Place(S, i) \in Nat /\ Place(S, j) \in Nat
  BY PlaceIs
<1>2. ~(i < j) /\ ~(j < i)
  BY <1>1, PlaceGrows
<1> QED BY <1>2

\* When a listing is taken out, another keeps its place or comes one nearer.
LEMMA PlaceWithout ==
  ASSUME NEW S \in SUBSET Nat, IsFiniteSet(S), NEW j \in S, NEW i \in S \ {j}
  PROVE  /\ Place(S \ {j}, i) \in Nat
         /\ Place(S \ {j}, i) = Place(S, i) \/ Place(S \ {j}, i) + 1 = Place(S, i)
PROOF
<1>1. UpTo(S \ {j}, i) = UpTo(S, i) \ {j}
  BY DEF UpTo
<1>2. Cardinality(UpTo(S, i) \ {j}) = IF j \in UpTo(S, i) THEN Cardinality(UpTo(S, i)) - 1 ELSE Cardinality(UpTo(S, i))
  BY PlaceIs, FS_RemoveElement
<1>3. IsFiniteSet(S \ {j})
  BY FS_RemoveElement
<1>4. /\ Place(S \ {j}, i) = Cardinality(UpTo(S \ {j}, i)) /\ Place(S \ {j}, i) \in Nat
      /\ Place(S, i) = Cardinality(UpTo(S, i)) /\ Place(S, i) \in Nat
  BY <1>3, PlaceIs
<1> QED BY <1>1, <1>2, <1>4

\* When one is put in, another keeps its place or goes one further.
LEMMA PlaceWith ==
  ASSUME NEW S \in SUBSET Nat, IsFiniteSet(S), NEW j, NEW i \in S
  PROVE  /\ Place(S \cup {j}, i) \in Nat
         /\ Place(S \cup {j}, i) = Place(S, i) \/ Place(S \cup {j}, i) = Place(S, i) + 1
PROOF
<1>1. UpTo(S \cup {j}, i) = UpTo(S, i) \cup (IF j <= i THEN {j} ELSE {})
  BY DEF UpTo
<1>2. Cardinality(UpTo(S, i) \cup {j}) = IF j \in UpTo(S, i) THEN Cardinality(UpTo(S, i)) ELSE Cardinality(UpTo(S, i)) + 1
  BY PlaceIs, FS_AddElement
<1>3. IsFiniteSet(S \cup {j})
  BY FS_AddElement
<1>4. /\ Place(S \cup {j}, i) = Cardinality(UpTo(S \cup {j}, i)) /\ Place(S \cup {j}, i) \in Nat
      /\ Place(S, i) = Cardinality(UpTo(S, i)) /\ Place(S, i) \in Nat
  BY <1>3, PlaceIs
<1>5. CASE j <= i
  <2>1. UpTo(S \cup {j}, i) = UpTo(S, i) \cup {j}
    BY <1>1, <1>5
  <2> QED BY <2>1, <1>2, <1>4
<1>6. CASE ~(j <= i)
  <2>1. UpTo(S \cup {j}, i) = UpTo(S, i)
    BY <1>1, <1>6
  <2> QED BY <2>1, <1>4
<1> QED BY <1>5, <1>6

\* The page of a place.
PageAt(n) == (n - 1) \div PageSize + 1

\* The page of a place is a number, and the place is within its bounds.
LEMMA Pages ==
  ASSUME NEW n \in Nat \ {0}
  PROVE  /\ PageAt(n) \in Nat \ {0}
         /\ (PageAt(n) - 1) * PageSize < n /\ n <= PageAt(n) * PageSize
BY CrawlAssumption DEF PageAt

\* And no other page has it.
LEMMA PageIs ==
  ASSUME NEW n \in Nat \ {0}, NEW p \in Nat \ {0}
  PROVE  (p - 1) * PageSize < n /\ n <= p * PageSize <=> PageAt(n) = p
BY CrawlAssumption DEF PageAt

\* A place within the first pages is on one of them.
LEMMA PageWithin ==
  ASSUME NEW n \in Nat \ {0}, NEW p \in Nat, n <= p * PageSize
  PROVE  PageAt(n) <= p
BY CrawlAssumption DEF PageAt

\* A listing is on the page of its place.
LEMMA OnPage ==
  ASSUME NEW S \in SUBSET Nat, IsFiniteSet(S), NEW i \in S, NEW p \in Nat \ {0}
  PROVE  i \in PageOf(S, p) <=> PageAt(Place(S, i)) = p
PROOF
<1>1. Place(S, i) \in Nat \ {0}
  BY PlaceRange, PlaceIs
<1> QED BY <1>1, PageIs DEF PageOf

\* The first place of a page that is reached from the page before.
LEMMA Turned ==
  ASSUME NEW n \in Nat \ {0}, PageAt(n) # PageAt(n + 1)
  PROVE  PageAt(n + 1) = PageAt(n) + 1 /\ n = PageAt(n) * PageSize
BY CrawlAssumption DEF PageAt

\* From one page to the next there are as many places as a page has.
LEMMA Consecutive ==
  ASSUME NEW a \in Nat, NEW b \in Nat, b = a + PageSize
  PROVE  IsFiniteSet((a + 1)..b) /\ Cardinality((a + 1)..b) = PageSize
PROOF
<1>1. PageSize \in Nat \ {0}
  BY CrawlAssumption
<1>2. a + 1 \in Int /\ b \in Int /\ ~(a + 1 > b) /\ b - (a + 1) + 1 = PageSize
  BY <1>1
<1> QED BY <1>2, FS_Interval

\* A page holds no more than its size.
LEMMA PageFits ==
  ASSUME NEW S \in SUBSET Nat, IsFiniteSet(S), NEW p \in Nat \ {0}
  PROVE  IsFiniteSet(PageOf(S, p)) /\ Cardinality(PageOf(S, p)) \in Nat /\ Cardinality(PageOf(S, p)) <= PageSize
PROOF
<1> DEFINE I == ((p - 1) * PageSize + 1)..(p * PageSize)
           f == [i \in PageOf(S, p) |-> Place(S, i)]
<1>1. PageOf(S, p) \subseteq S
  BY DEF PageOf
<1>2. \A i \in PageOf(S, p) : Place(S, i) \in I
  BY PlaceIs, CrawlAssumption DEF PageOf
<1>3. f \in Injection(PageOf(S, p), I)
  <2>1. \A i, j \in PageOf(S, p) : Place(S, i) = Place(S, j) => i = j
    BY <1>1, PlaceApart
  <2> HIDE DEF I
  <2>2. /\ f \in [PageOf(S, p) -> I]
        /\ \A i, j \in PageOf(S, p) : f[i] = f[j] => i = j
    BY <1>2, <2>1
  <2> HIDE DEF f
  <2>3. QED
    BY <2>2, Zenon DEF Injection, IsInjective
<1>4. (p - 1) * PageSize \in Nat /\ p * PageSize \in Nat /\ p * PageSize = (p - 1) * PageSize + PageSize
  BY CrawlAssumption
<1>5. IsFiniteSet(I) /\ Cardinality(I) = PageSize
  BY <1>4, Consecutive
<1> QED BY <1>3, <1>5, FS_Injection, FS_CardinalityType

\* A page that holds less is the last one.
LEMMA PageFull ==
  ASSUME NEW S \in SUBSET Nat, IsFiniteSet(S), NEW p \in Nat \ {0},
         Cardinality(PageOf(S, p)) < PageSize
  PROVE  Cardinality(S) < p * PageSize
PROOF
<1> DEFINE n == Cardinality(S)
           I == ((p - 1) * PageSize + 1)..(p * PageSize)
           f == [i \in S |-> Place(S, i)]
           g == [i \in PageOf(S, p) |-> Place(S, i)]
<1>1. n \in Nat /\ p * PageSize \in Nat /\ (p - 1) * PageSize \in Nat
      /\ p * PageSize = (p - 1) * PageSize + PageSize /\ PageSize \in Nat \ {0}
  BY CrawlAssumption, PlaceIs
<1>2. SUFFICES ASSUME p * PageSize <= n
               PROVE  FALSE
  BY <1>1
<1>3. f \in Injection(S, 1..n)
  <2>1. /\ f \in [S -> 1..n]
        /\ \A i, j \in S : f[i] = f[j] => i = j
    BY PlaceRange, PlaceApart
  <2> HIDE DEF f, n
  <2>2. QED
    BY <2>1, Zenon DEF Injection, IsInjective
<1>4. IsFiniteSet(1..n) /\ Cardinality(1..n) = n
  BY <1>1, FS_Interval
<1>5. f \in Surjection(S, 1..n)
  BY <1>3, <1>4, FS_Injection
<1>6. \A k \in I : \E i \in PageOf(S, p) : Place(S, i) = k
  <2>1. SUFFICES ASSUME NEW k \in I PROVE \E i \in PageOf(S, p) : Place(S, i) = k
    OBVIOUS
  <2>2. k \in 1..n
    BY <1>1, <1>2
  <2>3. PICK i \in S : Place(S, i) = k
    BY <1>5, <2>2 DEF Surjection
  <2>4. i \in PageOf(S, p)
    BY <2>1, <2>3, <1>1 DEF PageOf
  <2> QED BY <2>3, <2>4
<1>7. \A i \in PageOf(S, p) : Place(S, i) \in I
  BY PlaceIs, <1>1 DEF PageOf
<1>8. g \in Surjection(PageOf(S, p), I)
  BY <1>6, <1>7 DEF Surjection
<1>9. IsFiniteSet(I) /\ Cardinality(I) = PageSize
  BY <1>1, Consecutive
<1>10. Cardinality(I) <= Cardinality(PageOf(S, p)) /\ Cardinality(PageOf(S, p)) \in Nat
  BY <1>8, PageFits, FS_Surjection
<1> QED BY <1>1, <1>9, <1>10

\* Of the listings that are each the first or each the last of a page, as many as pages.
AtStep(S, i, b, c) == Place(S, i) = b * PageSize + c

\* At most one listing is at a given step from each of some pages.
LEMMA OneEach ==
  ASSUME NEW S \in SUBSET Nat, IsFiniteSet(S), NEW T \in SUBSET S,
         NEW B \in SUBSET Nat, IsFiniteSet(B), NEW c \in Int,
         \A i \in T : \E b \in B : AtStep(S, i, b, c)
  PROVE  IsFiniteSet(T) /\ Cardinality(T) <= Cardinality(B)
PROOF
<1> DEFINE f == [i \in T |-> CHOOSE b \in B : AtStep(S, i, b, c)]
<1>1. \A i \in T : f[i] \in B /\ AtStep(S, i, f[i], c)
  OBVIOUS
<1>2. \A i, j \in T : f[i] = f[j] => i = j
  <2>1. SUFFICES ASSUME NEW i \in T, NEW j \in T, f[i] = f[j]
                 PROVE  i = j
    OBVIOUS
  <2>2. Place(S, i) = Place(S, j)
    BY <1>1, <2>1 DEF AtStep
  <2> QED BY <2>2, PlaceApart
<1>3. f \in Injection(T, B)
  <2>1. f \in [T -> B]
    BY <1>1
  <2> HIDE DEF f
  <2>2. QED
    BY <1>2, <2>1, Zenon DEF Injection, IsInjective
<1> QED BY <1>3, FS_Injection

-----------------------------------------------------------------------------
\* Why a walk may have ended.
WhyEnded == {"none", "failed", "rate_limited", "exhausted", "empty_page", "out_of_window",
            "completed_iteration", "max_pages", "errors"}
\* What may be answered for a page.
PageAnswers == [items : SUBSET Listings, total : Nat \cup {-1}]
\* The answers that a walk may have in hand, by page.
Books == UNION {[D -> PageAnswers] : D \in SUBSET (1..MaxPages)}
\* The walks of a lane.
Walks == [at : {"ask", "write", "end"}, page : Nat, got : Books,
          fresh : SUBSET Listings, reason : WhyEnded]

\* The sites that are walked page by page.
OneByOne(s) == s \in {"yandex", "afisha"}
\* The walk has pages to read yet, or to take in.
Reading(s, w) == w.at = "ask" \/ (OneByOne(s) /\ w.at = "write")
\* The pages of the batch it is at.
PagesOf(s, w) == {p \in w.page..(w.page + Width[s] - 1) : p <= MaxPages}
\* What the answers in hand list.
InHand(w) == UNION {w.got[p].items : p \in DOMAIN w.got}

\* An answer that shows that nothing is listed after its page.
TellsTheEnd(s, p, a) ==
  /\ a # Lost
  /\ \/ s = "timepad" /\ Cardinality(a.items) < PageSize
     \/ OneByOne(s) /\ a.total <= p * PageSize
\* The batch is the last one.
AtTheEnd(s, w) == \E p \in DOMAIN w.got : TellsTheEnd(s, p, w.got[p])

\* The pages that the walk has yet to read, or never will.
YetToRead(s, w, p) ==
  IF Reading(s, w) THEN w.page <= p /\ p \notin DOMAIN w.got /\ (AtTheEnd(s, w) => p \in PagesOf(s, w))
  ELSE w.reason = "completed_iteration" /\ p > MaxPages

\* Of T, what is on other pages of the list L, and neither in H nor in hand.
Missing(s, w, L, T, H) == {i \in T : ~YetToRead(s, w, PageAt(Place(L, i))) /\ i \notin H /\ i \notin InHand(w)}

\* A list is finite.
List(L) == L \in SUBSET Nat /\ IsFiniteSet(L)
\* The answers in hand are those of the batch.
InOrder(s, w) ==
  /\ s \in Sites /\ w \in Walks
  /\ Reading(s, w) => w.page \in 1..MaxPages /\ DOMAIN w.got \subseteq PagesOf(s, w)

\* The constants of a site.
LEMMA Widths ==
  ASSUME NEW s \in Sites
  PROVE  /\ Width[s] \in Nat /\ Width[s] >= 1
         /\ OneByOne(s) => Width[s] = 1
         /\ PageSize \in Nat /\ PageSize >= 1 /\ MaxPages \in Nat /\ MaxPages >= 1
BY CrawlAssumption DEF OneByOne

\* An interval has as many numbers as it is long.
LEMMA AnInterval ==
  ASSUME NEW a \in Nat, NEW n \in Nat
  PROVE  IsFiniteSet(a..(a + n - 1)) /\ Cardinality(a..(a + n - 1)) = n
PROOF
<1>1. a + n - 1 \in Int
  OBVIOUS
<1> QED BY <1>1, FS_Interval

\* Two finite sets have together no more than each has.
LEMMA TwoParts ==
  ASSUME NEW S, IsFiniteSet(S), NEW T, IsFiniteSet(T)
  PROVE  /\ IsFiniteSet(S \cup T) /\ Cardinality(S) \in Nat /\ Cardinality(T) \in Nat
         /\ Cardinality(S \cup T) \in Nat /\ Cardinality(S \cup T) <= Cardinality(S) + Cardinality(T)
PROOF
<1>1. /\ IsFiniteSet(S \cup T) /\ IsFiniteSet(S \cap T)
      /\ Cardinality(S \cup T) = Cardinality(S) + Cardinality(T) - Cardinality(S \cap T)
  BY FS_Union, FS_Intersection
<1>2. /\ Cardinality(S) \in Nat /\ Cardinality(T) \in Nat /\ Cardinality(S \cap T) \in Nat
      /\ Cardinality(S \cup T) \in Nat
  BY <1>1, FS_CardinalityType
<1> QED BY <1>1, <1>2

\* The place of what is listed is positive.
LEMMA PlaceNat ==
  ASSUME NEW L, List(L), NEW i \in L
  PROVE  Place(L, i) \in Nat \ {0}
BY PlaceRange, PlaceIs DEF List

\* A part of a finite set is finite, and no larger.
LEMMA Fewer ==
  ASSUME NEW T, IsFiniteSet(T), NEW S \in SUBSET T
  PROVE  /\ IsFiniteSet(S) /\ Cardinality(S) \in Nat /\ Cardinality(T) \in Nat
         /\ Cardinality(S) <= Cardinality(T)
BY FS_Subset, FS_CardinalityType

\* Where a listing comes from an unread page to one that is read when another is taken out.
LEMMA SlipsBack ==
  ASSUME NEW s, NEW w, InOrder(s, w)
  PROVE  \E B \in SUBSET Nat :
           /\ IsFiniteSet(B) /\ Cardinality(B) <= Width[s]
           /\ \A b \in Nat \ {0} : YetToRead(s, w, b + 1) /\ ~YetToRead(s, w, b) => b \in B
PROOF
<1> DEFINE W == Width[s]  D == DOMAIN w.got  a == w.page
<1>0. W \in Nat /\ W >= 1 /\ MaxPages \in Nat /\ MaxPages >= 1
  BY Widths DEF InOrder
<1>1. CASE ~Reading(s, w)
  <2>1. \A b \in Nat \ {0} : YetToRead(s, w, b + 1) /\ ~YetToRead(s, w, b) => b \in {MaxPages}
    BY <1>0, <1>1 DEF YetToRead
  <2>2. IsFiniteSet({MaxPages}) /\ Cardinality({MaxPages}) = 1
    BY FS_Singleton
  <2>3. {MaxPages} \in SUBSET Nat /\ Cardinality({MaxPages}) <= W
    BY <1>0, <2>2
  <2> QED BY <2>1, <2>2, <2>3
<1>2. CASE Reading(s, w)
  <2>1. a \in Nat /\ a >= 1 /\ D \subseteq a..(a + W - 1)
    BY <1>0, <1>2 DEF InOrder, PagesOf
  <2>2. CASE AtTheEnd(s, w)
    <3> DEFINE B == (a - 1)..((a - 1) + W - 1)
    <3>1. \A b \in Nat \ {0} : YetToRead(s, w, b + 1) => b \in B
      BY <1>0, <1>2, <2>1, <2>2 DEF YetToRead, PagesOf
    <3>2. a - 1 \in Nat /\ B \in SUBSET Nat
      BY <1>0, <2>1
    <3>3. IsFiniteSet(B) /\ Cardinality(B) = W
      BY <1>0, <3>2, AnInterval
    <3> HIDE DEF B
    <3> QED BY <1>0, <3>1, <3>2, <3>3
  <2>3. CASE ~AtTheEnd(s, w) /\ a \in D
    <3> DEFINE B == a..(a + W - 1)
    <3>1. \A b \in Nat \ {0} : YetToRead(s, w, b + 1) /\ ~YetToRead(s, w, b) => b \in B
      BY <1>0, <1>2, <2>1, <2>3 DEF YetToRead
    <3>2. B \in SUBSET Nat
      BY <1>0, <2>1
    <3>3. IsFiniteSet(B) /\ Cardinality(B) = W
      BY <1>0, <2>1, AnInterval
    <3> HIDE DEF B
    <3> QED BY <1>0, <3>1, <3>2, <3>3
  <2>4. CASE ~AtTheEnd(s, w) /\ a \notin D
    <3> DEFINE C == (a + 1)..((a + 1) + (W - 1) - 1)
               B == C \cup {a - 1}
    <3>1. \A b \in Nat \ {0} : YetToRead(s, w, b + 1) /\ ~YetToRead(s, w, b) => b \in B
      BY <1>0, <1>2, <2>1, <2>4 DEF YetToRead
    <3>2. B \in SUBSET Nat /\ a - 1 \notin C
      BY <1>0, <2>1
    <3>3. IsFiniteSet(C) /\ Cardinality(C) = W - 1
      <4>1. a + 1 \in Nat /\ W - 1 \in Nat
        BY <1>0, <2>1
      <4> QED BY <4>1, AnInterval
    <3>4. IsFiniteSet(B) /\ Cardinality(B) = Cardinality(C) + 1
      <4> HIDE DEF C
      <4> QED BY <3>2, <3>3, FS_AddElement
    <3> HIDE DEF B
    <3> QED BY <1>0, <3>1, <3>2, <3>3, <3>4
  <2> QED BY <2>2, <2>3, <2>4
<1> QED BY <1>1, <1>2

\* And where one goes from an unread page to one that is read when another is put in.
LEMMA SlipsOn ==
  ASSUME NEW s, NEW w, InOrder(s, w)
  PROVE  \E B \in SUBSET Nat :
           /\ IsFiniteSet(B) /\ Cardinality(B) <= Width[s] - 1
           /\ \A b \in Nat \ {0} : YetToRead(s, w, b) /\ ~YetToRead(s, w, b + 1) => b \in B
PROOF
<1> DEFINE W == Width[s]  D == DOMAIN w.got  a == w.page
<1>0. W \in Nat /\ W >= 1 /\ MaxPages \in Nat /\ MaxPages >= 1
  BY Widths DEF InOrder
<1>1. CASE ~Reading(s, w)
  <2>1. \A b \in Nat \ {0} : YetToRead(s, w, b) => YetToRead(s, w, b + 1)
    BY <1>0, <1>1 DEF YetToRead
  <2>2. IsFiniteSet({}) /\ Cardinality({}) = 0
    BY FS_EmptySet
  <2> QED BY <1>0, <2>1, <2>2
<1>2. CASE Reading(s, w)
  <2>1. a \in Nat /\ a >= 1 /\ D \subseteq a..(a + W - 1)
    BY <1>0, <1>2 DEF InOrder, PagesOf
  <2>2. CASE AtTheEnd(s, w)
    <3>1. PICK d \in D : TRUE
      BY <2>2 DEF AtTheEnd
    <3> DEFINE C == a..(a + W - 1)
               B == C \ {d}
    <3>2. \A b \in Nat \ {0} : YetToRead(s, w, b) => b \in B
      BY <1>0, <1>2, <2>1, <2>2, <3>1 DEF YetToRead, PagesOf
    <3>3. B \in SUBSET Nat /\ d \in C
      BY <1>0, <2>1, <3>1
    <3>4. IsFiniteSet(C) /\ Cardinality(C) = W
      BY <1>0, <2>1, AnInterval
    <3>5. IsFiniteSet(B) /\ Cardinality(B) = Cardinality(C) - 1
      BY <3>3, <3>4, FS_RemoveElement
    <3> HIDE DEF B
    <3> QED BY <1>0, <3>2, <3>3, <3>4, <3>5
  <2>3. CASE ~AtTheEnd(s, w)
    <3> DEFINE B == a..(a + (W - 1) - 1)
    <3>1. \A b \in Nat \ {0} : YetToRead(s, w, b) /\ ~YetToRead(s, w, b + 1) => b \in B
      BY <1>0, <1>2, <2>1, <2>3 DEF YetToRead
    <3>2. B \in SUBSET Nat /\ W - 1 \in Nat
      BY <1>0, <2>1
    <3>3. IsFiniteSet(B) /\ Cardinality(B) = W - 1
      BY <2>1, <3>2, AnInterval
    <3> HIDE DEF B
    <3> QED BY <1>0, <3>1, <3>2, <3>3
  <2> QED BY <2>2, <2>3
<1> QED BY <1>1, <1>2

\* Each listing taken out lets at most one other slip by at each page of the batch.
LEMMA TakenOut ==
  ASSUME NEW s, NEW w, InOrder(s, w), NEW L, List(L), NEW j \in L,
         NEW T \in SUBSET (L \ {j}), NEW H
  PROVE  Cardinality(Missing(s, w, L \ {j}, T, H)) <= Cardinality(Missing(s, w, L, T, H)) + Width[s]
PROOF
<1> DEFINE before == Missing(s, w, L, T, H)
           after == Missing(s, w, L \ {j}, T, H)
           slipped == after \ before
<1>1. PICK B \in SUBSET Nat :
        /\ IsFiniteSet(B) /\ Cardinality(B) <= Width[s]
        /\ \A b \in Nat \ {0} : YetToRead(s, w, b + 1) /\ ~YetToRead(s, w, b) => b \in B
  BY SlipsBack
<1>2. ASSUME NEW i \in slipped
      PROVE  \E b \in B : AtStep(L, i, b, 1)
  <2>1. i \in T /\ i \in L \ {j}
    BY DEF Missing
  <2>2. ~YetToRead(s, w, PageAt(Place(L \ {j}, i))) /\ YetToRead(s, w, PageAt(Place(L, i)))
    BY DEF Missing
  <2> DEFINE n == Place(L \ {j}, i)
  <2>3. n \in Nat \ {0} /\ (Place(L, i) = n \/ Place(L, i) = n + 1)
    <3>1. List(L \ {j})
      BY FS_RemoveElement DEF List
    <3> QED BY <2>1, <3>1, PlaceWithout, PlaceNat DEF List
  <2> HIDE DEF n
  <2>4. Place(L, i) = n + 1 /\ PageAt(n) # PageAt(n + 1)
    BY <2>2, <2>3 DEF n
  <2>5. PageAt(n + 1) = PageAt(n) + 1 /\ n = PageAt(n) * PageSize /\ PageAt(n) \in Nat \ {0}
    BY <2>3, <2>4, Turned, Pages
  <2>6. PageAt(n) \in B
    BY <1>1, <2>2, <2>4, <2>5 DEF n
  <2> QED BY <2>4, <2>5, <2>6 DEF AtStep
<1>3. slipped \in SUBSET L
  BY DEF Missing
<1>4. IsFiniteSet(slipped) /\ Cardinality(slipped) <= Cardinality(B)
  <2> HIDE DEF slipped
  <2>1. \A i \in slipped : \E b \in B : AtStep(L, i, b, 1)
    BY <1>2
  <2> QED BY <1>1, <1>3, <2>1, OneEach DEF List
<1>5. after \subseteq before \cup slipped
  OBVIOUS
<1>6. before \in SUBSET L
  BY DEF Missing
<1> HIDE DEF before, after, slipped
<1>7. IsFiniteSet(before) /\ Cardinality(before) \in Nat
  BY <1>6, Fewer DEF List
<1>8. /\ IsFiniteSet(before \cup slipped)
      /\ Cardinality(before \cup slipped) <= Cardinality(before) + Cardinality(slipped)
      /\ Cardinality(slipped) \in Nat
  BY <1>4, <1>7, TwoParts
<1>9. /\ Cardinality(after) <= Cardinality(before \cup slipped) /\ Cardinality(after) \in Nat
      /\ Cardinality(before \cup slipped) \in Nat
  BY <1>5, <1>8, Fewer
<1>10. Cardinality(B) \in Nat /\ Width[s] \in Nat
  <2>1. Cardinality(B) \in Nat
    BY <1>1, FS_CardinalityType
  <2>2. Width[s] \in Nat
    BY Widths DEF InOrder
  <2> QED BY <2>1, <2>2
<1>11. Cardinality(after) <= Cardinality(before) + Width[s]
  BY <1>1, <1>4, <1>7, <1>8, <1>9, <1>10
<1> QED BY <1>11 DEF before, after

\* Each listing put in, at all of them but one.
LEMMA PutIn ==
  ASSUME NEW s, NEW w, InOrder(s, w), NEW L, List(L), NEW j \in Nat,
         NEW T \in SUBSET L, NEW H
  PROVE  Cardinality(Missing(s, w, L \cup {j}, T, H)) <= Cardinality(Missing(s, w, L, T, H)) + (Width[s] - 1)
PROOF
<1> DEFINE before == Missing(s, w, L, T, H)
           after == Missing(s, w, L \cup {j}, T, H)
           slipped == after \ before
<1>1. PICK B \in SUBSET Nat :
        /\ IsFiniteSet(B) /\ Cardinality(B) <= Width[s] - 1
        /\ \A b \in Nat \ {0} : YetToRead(s, w, b) /\ ~YetToRead(s, w, b + 1) => b \in B
  BY SlipsOn
<1>2. ASSUME NEW i \in slipped
      PROVE  \E b \in B : AtStep(L, i, b, 0)
  <2>1. i \in T /\ i \in L
    BY DEF Missing
  <2>2. ~YetToRead(s, w, PageAt(Place(L \cup {j}, i))) /\ YetToRead(s, w, PageAt(Place(L, i)))
    BY DEF Missing
  <2> DEFINE n == Place(L, i)
  <2>3. n \in Nat \ {0} /\ (Place(L \cup {j}, i) = n \/ Place(L \cup {j}, i) = n + 1)
    BY <2>1, PlaceWith, PlaceNat DEF List
  <2> HIDE DEF n
  <2>4. Place(L \cup {j}, i) = n + 1 /\ PageAt(n) # PageAt(n + 1)
    BY <2>2, <2>3 DEF n
  <2>5. PageAt(n + 1) = PageAt(n) + 1 /\ n = PageAt(n) * PageSize /\ PageAt(n) \in Nat \ {0}
    BY <2>3, <2>4, Turned, Pages
  <2>6. PageAt(n) \in B
    BY <1>1, <2>2, <2>4, <2>5 DEF n
  <2>7. n = PageAt(n) * PageSize + 0
    BY <2>3, <2>5
  <2> QED BY <2>6, <2>7 DEF n, AtStep
<1>3. slipped \in SUBSET L
  BY DEF Missing
<1>4. IsFiniteSet(slipped) /\ Cardinality(slipped) <= Cardinality(B)
  <2> HIDE DEF slipped
  <2>1. \A i \in slipped : \E b \in B : AtStep(L, i, b, 0)
    BY <1>2
  <2> QED BY <1>1, <1>3, <2>1, OneEach DEF List
<1>5. after \subseteq before \cup slipped
  OBVIOUS
<1>6. before \in SUBSET L
  BY DEF Missing
<1> HIDE DEF before, after, slipped
<1>7. IsFiniteSet(before) /\ Cardinality(before) \in Nat
  BY <1>6, Fewer DEF List
<1>8. /\ IsFiniteSet(before \cup slipped)
      /\ Cardinality(before \cup slipped) <= Cardinality(before) + Cardinality(slipped)
      /\ Cardinality(slipped) \in Nat
  BY <1>4, <1>7, TwoParts
<1>9. /\ Cardinality(after) <= Cardinality(before \cup slipped) /\ Cardinality(after) \in Nat
      /\ Cardinality(before \cup slipped) \in Nat
  BY <1>5, <1>8, Fewer
<1>10. Cardinality(B) \in Nat /\ Width[s] \in Nat
  <2>1. Cardinality(B) \in Nat
    BY <1>1, FS_CardinalityType
  <2>2. Width[s] \in Nat
    BY Widths DEF InOrder
  <2> QED BY <2>1, <2>2
<1>11. Cardinality(after) <= Cardinality(before) + (Width[s] - 1)
  BY <1>1, <1>4, <1>7, <1>8, <1>9, <1>10
<1> QED BY <1>11 DEF before, after

\* A walk with one more answer in hand.
WithAnswer(w, p, a) == [w EXCEPT !.got = [q \in DOMAIN @ \cup {p} |-> IF q = p THEN a ELSE @[q]]]

\* What is in the books of a walk.
LEMMA BookFacts ==
  ASSUME NEW w \in Walks
  PROVE  /\ w.page \in Nat /\ w.fresh \in SUBSET Listings /\ w.reason \in WhyEnded
         /\ DOMAIN w.got \subseteq 1..MaxPages
         /\ \A p \in DOMAIN w.got : w.got[p] \in PageAnswers
         /\ InHand(w) \subseteq Listings
PROOF
<1>1. PICK D \in SUBSET (1..MaxPages) : w.got \in [D -> PageAnswers]
  BY DEF Walks, Books
<1>2. DOMAIN w.got = D /\ \A p \in D : w.got[p] \in PageAnswers
  BY <1>1
<1>3. \A p \in DOMAIN w.got : w.got[p].items \subseteq Listings
  BY <1>2 DEF PageAnswers
<1> QED BY <1>2, <1>3 DEF Walks, InHand

\* An answer is added, and nothing else.
LEMMA Answered ==
  ASSUME NEW w \in Walks, NEW p \in 1..MaxPages, NEW a \in PageAnswers
  PROVE  LET v == WithAnswer(w, p, a)
         IN /\ v \in Walks
            /\ v.at = w.at /\ v.page = w.page /\ v.fresh = w.fresh /\ v.reason = w.reason
            /\ DOMAIN v.got = DOMAIN w.got \cup {p} /\ v.got[p] = a
            /\ \A q \in DOMAIN w.got \ {p} : v.got[q] = w.got[q]
PROOF
<1>1. PICK D \in SUBSET (1..MaxPages) : w.got \in [D -> PageAnswers]
  BY DEF Walks, Books
<1>2. PICK g : g = [q \in DOMAIN w.got \cup {p} |-> IF q = p THEN a ELSE w.got[q]]
  OBVIOUS
<1>3. /\ DOMAIN g = DOMAIN w.got \cup {p} /\ g[p] = a
      /\ \A q \in DOMAIN w.got \ {p} : g[q] = w.got[q]
  BY <1>2
<1>4. g \in [D \cup {p} -> PageAnswers]
  BY <1>1, <1>2
<1>5. g \in Books
  BY <1>4 DEF Books
<1>6. WithAnswer(w, p, a) = [w EXCEPT !.got = g]
  BY <1>2 DEF WithAnswer
<1>7. PICK v : v = WithAnswer(w, p, a)
  OBVIOUS
<1>8. v \in Walks /\ v.got = g /\ v.at = w.at /\ v.page = w.page /\ v.fresh = w.fresh /\ v.reason = w.reason
  BY <1>5, <1>6, <1>7 DEF Walks
<1> QED BY <1>3, <1>7, <1>8

\* How a page is begun, and a walk ended.
LEMMA NewWalks ==
  /\ \A p \in Nat : /\ Going(p) \in Walks /\ Going(p).at = "ask" /\ Going(p).page = p
                    /\ DOMAIN Going(p).got = {} /\ Going(p).fresh = {} /\ Going(p).reason = None
  /\ \A why \in WhyEnded : /\ Ended(why) \in Walks /\ Ended(why).at = "end" /\ DOMAIN Ended(why).got = {}
                         /\ Ended(why).fresh = {} /\ Ended(why).reason = why
PROOF
<1>1. PICK g : g = <<>>
  OBVIOUS
<1>2. DOMAIN g = {} /\ g \in [{} -> PageAnswers]
  BY <1>1
<1>3. g \in Books
  BY <1>2 DEF Books
<1>4. /\ \A p \in Nat : Going(p) = [at |-> "ask", page |-> p, got |-> g, fresh |-> {}, reason |-> None]
      /\ \A why \in WhyEnded : Ended(why) = [at |-> "end", page |-> 0, got |-> g, fresh |-> {}, reason |-> why]
  BY <1>1 DEF Going, Ended
<1>5. ASSUME NEW p \in Nat, NEW v, v = Going(p)
      PROVE  v \in Walks /\ v.at = "ask" /\ v.page = p /\ DOMAIN v.got = {} /\ v.fresh = {} /\ v.reason = None
  <2>1. v = [at |-> "ask", page |-> p, got |-> g, fresh |-> {}, reason |-> "none"]
    BY <1>4, <1>5 DEF None
  <2>2. v.at = "ask" /\ v.page = p /\ v.got = g /\ v.fresh = {} /\ v.reason = "none"
    BY <2>1
  <2>3. v \in Walks
    <3>1. {} \in SUBSET Listings
      OBVIOUS
    <3>2. "none" \in WhyEnded
      BY DEF WhyEnded
    <3>3. "ask" \in {"ask", "write", "end"}
      OBVIOUS
    <3> QED BY <2>1, <1>3, <3>1, <3>2, <3>3 DEF Walks
  <2> QED BY <2>2, <2>3, <1>2 DEF None
<1>6. ASSUME NEW why \in WhyEnded, NEW v, v = Ended(why)
      PROVE  v \in Walks /\ v.at = "end" /\ DOMAIN v.got = {} /\ v.fresh = {} /\ v.reason = why
  BY <1>2, <1>3, <1>4, <1>6 DEF Walks
<1> QED BY <1>5, <1>6

\* Whether a walk reads is told by where it is.
LEMMA ReadsAlike ==
  ASSUME NEW s, NEW w, NEW v, v.at = w.at
  PROVE  Reading(s, v) <=> Reading(s, w)
BY DEF Reading

\* A page that is read adds nothing to what is missing.
LEMMA Fetched ==
  ASSUME NEW s, NEW w, InOrder(s, w), Reading(s, w), NEW L, List(L), NEW T \in SUBSET L, NEW H,
         NEW p \in PagesOf(s, w) \ DOMAIN w.got, NEW a \in PageAnswers,
         a.items = PageOf(L, p) \/ (~OneByOne(s) /\ s # "timepad" /\ Beyond(L, p)),
         a.total = Cardinality(L)
  PROVE  Missing(s, WithAnswer(w, p, a), L, T, H) \subseteq Missing(s, w, L, T, H)
PROOF
<1>1. PICK v : v = WithAnswer(w, p, a)
  OBVIOUS
<1>2. w \in Walks /\ w.page \in Nat /\ Width[s] \in Nat /\ MaxPages \in Nat /\ w.page >= 1 /\ PageSize \in Nat
  BY Widths DEF InOrder
<1>3. p \in Nat \ {0} /\ p \in 1..MaxPages
  BY <1>2 DEF PagesOf
<1>4. /\ v.at = w.at /\ v.page = w.page
      /\ DOMAIN v.got = DOMAIN w.got \cup {p} /\ v.got[p] = a
      /\ \A q \in DOMAIN w.got \ {p} : v.got[q] = w.got[q]
  BY <1>1, <1>2, <1>3, Answered
<1>5. Reading(s, v) /\ PagesOf(s, v) = PagesOf(s, w)
  BY <1>4, ReadsAlike DEF PagesOf
<1>6. InHand(w) \subseteq InHand(v) /\ a.items \subseteq InHand(v)
  BY <1>4 DEF InHand
<1>7. AtTheEnd(s, v) => AtTheEnd(s, w) \/ TellsTheEnd(s, p, a)
  BY <1>4 DEF AtTheEnd
<1>8. SUFFICES ASSUME NEW i \in T, ~YetToRead(s, v, PageAt(Place(L, i))), i \notin H, i \notin InHand(v),
                      YetToRead(s, w, PageAt(Place(L, i)))
               PROVE  FALSE
  BY <1>1, <1>6 DEF Missing
<1>9. PICK n \in Nat \ {0} : n = Place(L, i)
  BY PlaceNat
<1>10. PICK q \in Nat \ {0} : q = PageAt(n)
  BY <1>9, Pages
<1>11. w.page <= q /\ q \notin DOMAIN w.got /\ (AtTheEnd(s, w) => q \in PagesOf(s, w))
  BY <1>8, <1>9, <1>10 DEF YetToRead
<1>12. q = p \/ (AtTheEnd(s, v) /\ q \notin PagesOf(s, w))
  BY <1>4, <1>5, <1>8, <1>9, <1>10, <1>11 DEF YetToRead
<1>13. CASE q = p
  <2>1. i \in PageOf(L, p)
    BY <1>3, <1>9, <1>10, <1>13, OnPage DEF List
  <2>2. ~Beyond(L, p)
    <3>1. n <= Cardinality(L) /\ Cardinality(L) \in Nat /\ (p - 1) * PageSize < n
      BY <1>9, <2>1, PlaceIs DEF List, PageOf
    <3>2. (p - 1) * PageSize \in Int
      BY <1>2, <1>3
    <3> QED BY <3>1, <3>2 DEF Beyond
  <2> QED BY <1>6, <1>8, <2>1, <2>2
<1>14. CASE TellsTheEnd(s, p, a) /\ q \notin PagesOf(s, w)
  <2>1. Cardinality(L) <= p * PageSize
    <3>1. CASE OneByOne(s) /\ a.total <= p * PageSize
      BY <3>1
    <3>2. CASE s = "timepad" /\ Cardinality(a.items) < PageSize
      <4>1. Cardinality(PageOf(L, p)) < PageSize
        BY <3>2
      <4>2. Cardinality(L) < p * PageSize
        BY <1>3, <4>1, PageFull DEF List
      <4>3. Cardinality(L) \in Nat /\ p * PageSize \in Nat
        BY <1>2, <1>3, PlaceIs DEF List
      <4> QED BY <4>2, <4>3
    <3> QED BY <1>14, <3>1, <3>2 DEF TellsTheEnd
  <2>2. n <= Cardinality(L) /\ Cardinality(L) \in Nat /\ p * PageSize \in Nat
    BY <1>2, <1>3, <1>9, PlaceIs DEF List
  <2>3. n <= p * PageSize
    BY <2>1, <2>2
  <2>4. q <= p
    BY <1>3, <1>10, <2>3, PageWithin
  <2>5. q \in PagesOf(s, w)
    BY <1>2, <1>3, <1>11, <2>4 DEF PagesOf
  <2> QED BY <1>14, <2>5
<1> QED BY <1>7, <1>11, <1>12, <1>13, <1>14

\* A page that is lost adds no more than it holds.
LEMMA LostPage ==
  ASSUME NEW s, NEW w, InOrder(s, w), Reading(s, w), NEW L, List(L), NEW T \in SUBSET L, NEW H,
         NEW p \in PagesOf(s, w) \ DOMAIN w.got
  PROVE  Cardinality(Missing(s, WithAnswer(w, p, Lost), L, T, H)) <= Cardinality(Missing(s, w, L, T, H)) + PageSize
PROOF
<1>1. PICK v : v = WithAnswer(w, p, Lost)
  OBVIOUS
<1>2. w \in Walks /\ w.page \in Nat /\ Width[s] \in Nat /\ MaxPages \in Nat /\ w.page >= 1 /\ PageSize \in Nat
  BY Widths DEF InOrder
<1>3. p \in Nat \ {0} /\ p \in 1..MaxPages /\ Lost \in PageAnswers /\ Lost.items = {}
  BY <1>2 DEF PagesOf, Lost, PageAnswers
<1>4. /\ v.at = w.at /\ v.page = w.page
      /\ DOMAIN v.got = DOMAIN w.got \cup {p} /\ v.got[p] = Lost
      /\ \A q \in DOMAIN w.got \ {p} : v.got[q] = w.got[q]
  BY <1>1, <1>2, <1>3, Answered
<1>5. Reading(s, v) /\ PagesOf(s, v) = PagesOf(s, w)
  BY <1>4, ReadsAlike DEF PagesOf
<1>6. InHand(w) \subseteq InHand(v)
  BY <1>4 DEF InHand
<1>7. AtTheEnd(s, v) => AtTheEnd(s, w)
  BY <1>4 DEF AtTheEnd, TellsTheEnd
<1> DEFINE before == Missing(s, w, L, T, H)
           after == Missing(s, v, L, T, H)
<1>8. after \subseteq before \cup PageOf(L, p)
  <2>1. SUFFICES ASSUME NEW i \in T, ~YetToRead(s, v, PageAt(Place(L, i))), YetToRead(s, w, PageAt(Place(L, i)))
                 PROVE  i \in PageOf(L, p)
    BY <1>6 DEF Missing
  <2>2. PICK n \in Nat \ {0} : n = Place(L, i)
    BY PlaceNat
  <2>3. PICK q \in Nat \ {0} : q = PageAt(n)
    BY <2>2, Pages
  <2>4. q = p
    BY <1>4, <1>5, <1>7, <2>1, <2>2, <2>3 DEF YetToRead
  <2> QED BY <1>3, <2>2, <2>3, <2>4, OnPage DEF List
<1>9. before \in SUBSET L
  BY DEF Missing
<1> HIDE DEF before, after
<1>10. IsFiniteSet(before)
  BY <1>9, Fewer DEF List
<1>11. IsFiniteSet(PageOf(L, p)) /\ Cardinality(PageOf(L, p)) \in Nat /\ Cardinality(PageOf(L, p)) <= PageSize
  BY <1>3, PageFits DEF List
<1>12. /\ IsFiniteSet(before \cup PageOf(L, p)) /\ Cardinality(before) \in Nat
       /\ Cardinality(before \cup PageOf(L, p)) \in Nat
       /\ Cardinality(before \cup PageOf(L, p)) <= Cardinality(before) + Cardinality(PageOf(L, p))
  BY <1>10, <1>11, TwoParts
<1>13. Cardinality(after) <= Cardinality(before \cup PageOf(L, p)) /\ Cardinality(after) \in Nat
  BY <1>8, <1>12, Fewer
<1>14. Cardinality(after) <= Cardinality(before) + PageSize
  BY <1>2, <1>11, <1>12, <1>13
<1> QED BY <1>1, <1>14 DEF before, after

\* A walk that goes on, and drops nothing that is not taken note of, misses no more.
LEMMA WalksOn ==
  ASSUME NEW s, NEW w, NEW v, NEW L, List(L), NEW T \in SUBSET L, NEW H, NEW G,
         \A q \in Nat \ {0} : YetToRead(s, w, q) => YetToRead(s, v, q),
         H \cap T \subseteq G \cup InHand(v), InHand(w) \cap T \subseteq G \cup InHand(v)
  PROVE  Missing(s, v, L, T, G) \subseteq Missing(s, w, L, T, H)
PROOF
<1>1. \A i \in T : PageAt(Place(L, i)) \in Nat \ {0}
  BY PlaceNat, Pages
<1> QED BY <1>1 DEF Missing

-----------------------------------------------------------------------------
\* The listings that yield a record.
Rec == {i \in Listings : Rows(i) # {}}

\* The records of a set are its listings that yield one.
LEMMA RecordsAre ==
  ASSUME NEW S \in SUBSET Listings
  PROVE  Records(S) = S \cap Rec
BY DEF Records, Rec

\* The clock of a walk stands still, and so do the dates of what is listed.
LEMMA DatesStay ==
  ASSUME now' = now, who' = who
  PROVE  \A i : Rows(i)' = Rows(i)
PROOF
<1>1. Today' = Today /\ Until' = Until
  BY DEF Today, Until, Day
<1>2. \A d : InWindow(d)' <=> InWindow(d)
  BY <1>1 DEF InWindow
<1>3. \A e : DaysListed(e)' = DaysListed(e)
  <2>1. \A e : {d \in {Day(t) : t \in e.sessions} : InWindow(d)'} = {d \in {Day(t) : t \in e.sessions} : InWindow(d)}
    BY <1>2
  <2> QED BY <2>1 DEF DaysListed, FirstFew, Day
<1>4. \A e : BuildDates(e)' = BuildDates(e)
  BY <1>1, <1>3 DEF BuildDates, Row, Timed, AllDay, FarFuture, First, Last, Day
<1>5. \A e : ListingDates(e)' = ListingDates(e)
  <2>1. \A e : {u \in e.sessions : InWindow(Day(u))' /\ u \in {First(e), Last(e)}}
                 = {u \in e.sessions : InWindow(Day(u)) /\ u \in {First(e), Last(e)}}
    BY <1>2
  <2> QED BY <1>1, <2>1 DEF ListingDates, Row, Timed, First, Last, Day
<1>6. \A e : TrimmedDates(e)' = TrimmedDates(e)
  <2>1. \A e : InKudagoWindow(e)' <=> InKudagoWindow(e)
    BY <1>1 DEF InKudagoWindow, KudagoRows, Row, Timed, First, Last
  <2> QED BY <2>1 DEF TrimmedDates, KudagoRows, Row, Timed, First, Last, FirstFew
<1>7. \A read, kind : BuildRecord(read, kind)' = BuildRecord(read, kind)
  <2>1. SUFFICES ASSUME NEW read, NEW kind
                 PROVE  BuildRecord(read, kind)' = BuildRecord(read, kind)
    OBVIOUS
  <2>2. {t \in read : t <= Until'} = {t \in read : t <= Until}
    BY <1>1
  <2>3. {t \in {t \in read : t <= Until} : t >= now'} = {t \in {t \in read : t <= Until} : t >= now}
    OBVIOUS
  <2> QED BY <2>2, <2>3 DEF BuildRecord, Row, Timed, Day
<1> QED BY <1>4, <1>5, <1>6, <1>7 DEF Rows

-----------------------------------------------------------------------------
\* Of what a lane has listed all the time and yields a record, what it has passed over.
Overlooked(l) == Missing(who, walk[l], list[l], stood[l] \cap Rec, seen \cup kept)

\* What a walk may pass over, for what was taken out, put in, and lost on the way in.
Cost(s, g, c, n) == Width[s] * g + (Width[s] - 1) * c + (IF OneByOne(s) THEN 0 ELSE PageSize * n)
\* And that of a lane.
Allowed(l) == Cost(who, gone[l], come[l], lost)

\* Of a walk that reads, or has come to the end.
Accountable(s, w) == Reading(s, w) \/ w.reason \in {"exhausted", "completed_iteration"}
\* No lane has passed over more than it may.
FewOverlooked == \A l \in Lanes : Accountable(who, walk[l]) => Cardinality(Overlooked(l)) <= Allowed(l)

\* What is in the books of a walk, where R yield a record, N were seen and K are stored.
Sound(s, w, R, N, K) ==
  /\ InOrder(s, w)
  /\ ~Reading(s, w) => DOMAIN w.got = {}
  /\ OneByOne(s) => \A p \in DOMAIN w.got : w.got[p] # Lost /\ Cardinality(w.got[p].items) <= PageSize
  /\ w.at # "write" => w.fresh = {}
  /\ OneByOne(s) /\ w.at = "write" =>
       /\ DOMAIN w.got = PagesOf(s, w) /\ Cardinality(w.fresh) <= PageSize
       /\ InHand(w) \cap R \subseteq N
  /\ s = "timepad" /\ w.at # "end" => K = {}
  /\ s = "timepad" /\ w.at = "write" => w.fresh = N \cap R
  /\ s = "timepad" /\ w.at = "end" /\ Accountable(s, w) => N \cap R \subseteq K
  /\ s = "kudago" => w.at # "write"

\* What is on its way to the store.
Pending == UNION {walk[l].fresh : l \in Lanes}
\* Of what a walk page by page has seen, what is neither stored nor on its way was lost with a page.
FewUnwritten == OneByOne(who) => Cardinality(seen \ (kept \cup Pending)) <= PageSize * lost

\* The types of the walk.
WalkTypes ==
  /\ now \in Clocks /\ who \in Sites
  /\ list \in [Rubrics -> SUBSET Listings] /\ stood \in [Rubrics -> SUBSET Listings]
  /\ walk \in [Rubrics -> Walks]
  /\ seen \in SUBSET Listings /\ kept \in SUBSET Listings
  /\ gone \in [Rubrics -> Nat] /\ come \in [Rubrics -> Nat] /\ lost \in Nat
  /\ who = "kudago" => seen = {}

\* What was listed all the time is listed now.
StoodListed == \A r \in Rubrics : stood[r] \subseteq list[r]
\* The books of every lane are in order.
BooksSound == \A l \in Lanes : Sound(who, walk[l], Rec, seen, kept)

\* The inductive invariant of the walk.
WalkInv == WalkTypes /\ StoodListed /\ BooksSound /\ FewOverlooked /\ FewUnwritten

-----------------------------------------------------------------------------
\* The types of a lane.
LEMMA LaneFacts ==
  ASSUME WalkTypes, StoodListed, NEW l \in Lanes
  PROVE  /\ l \in Rubrics /\ walk[l] \in Walks /\ List(list[l]) /\ stood[l] \cap Rec \in SUBSET list[l]
         /\ list[l] \in SUBSET Listings /\ stood[l] \in SUBSET Listings
         /\ gone[l] \in Nat /\ come[l] \in Nat /\ (who # "afisha" => Lanes = {1})
         /\ IsFiniteSet(seen) /\ IsFiniteSet(kept)
PROOF
<1>1. Lanes \subseteq Rubrics /\ (who # "afisha" => Lanes = {1})
  BY CrawlAssumption DEF Lanes
<1>2. Listings \in SUBSET Nat /\ IsFiniteSet(Listings)
  BY CrawlAssumption
<1>3. \A S \in SUBSET Listings : S \in SUBSET Nat /\ IsFiniteSet(S)
  BY <1>2, FS_Subset
<1>4. list[l] \in SUBSET Listings /\ stood[l] \in SUBSET Listings /\ stood[l] \subseteq list[l]
  BY <1>1 DEF WalkTypes, StoodListed
<1> QED BY <1>1, <1>3, <1>4 DEF WalkTypes, List

\* What is missing can be counted.
LEMMA MissingFinite ==
  ASSUME NEW L, List(L), NEW T \in SUBSET L, NEW s, NEW w, NEW H
  PROVE  IsFiniteSet(Missing(s, w, L, T, H)) /\ Cardinality(Missing(s, w, L, T, H)) \in Nat
PROOF
<1>1. Missing(s, w, L, T, H) \in SUBSET L
  BY DEF Missing
<1> QED BY <1>1, Fewer DEF List

\* And a part of it is no more.
LEMMA MissingLess ==
  ASSUME NEW L, List(L), NEW T \in SUBSET L, NEW s, NEW w, NEW H, NEW S \in SUBSET Missing(s, w, L, T, H)
  PROVE  IsFiniteSet(S) /\ Cardinality(S) \in Nat /\ Cardinality(S) <= Cardinality(Missing(s, w, L, T, H))
BY MissingFinite, Fewer

\* A product of naturals is one.
LEMMA Products ==
  ASSUME NEW a \in Nat, NEW b \in Nat
  PROVE  a * b \in Nat /\ a * (b + 1) = a * b + a
OBVIOUS

\* What is due in all, and what the lost pages held at most.
Due(s, g, c, n) == Width[s] * g + (Width[s] - 1) * c + PageSize * n
\* What the lost pages held at most.
HeldBy(n) == PageSize * n

\* What may be passed over, and what may be lost on its way, make up what is due.
LEMMA CostIs ==
  ASSUME NEW s \in Sites, NEW g \in Nat, NEW c \in Nat, NEW n \in Nat
  PROVE  /\ Cost(s, g, c, n) \in Nat
         /\ Cost(s, g, c, n) + (IF OneByOne(s) THEN HeldBy(n) ELSE 0) = Due(s, g, c, n)
PROOF
<1>1. PICK W \in Nat, U \in Nat : W = Width[s] /\ U = Width[s] - 1
  BY Widths
<1>2. PICK P \in Nat : P = PageSize
  BY Widths
<1>3. PICK x \in Nat, y \in Nat, z \in Nat : x = W * g /\ y = U * c /\ z = P * n
  BY <1>1, <1>2, Products
<1>4. Cost(s, g, c, n) = x + y + (IF OneByOne(s) THEN 0 ELSE z)
  BY <1>1, <1>2, <1>3 DEF Cost
<1>5. Due(s, g, c, n) = x + y + z /\ HeldBy(n) = z
  BY <1>1, <1>2, <1>3 DEF Due, HeldBy
<1> QED BY <1>3, <1>4, <1>5

\* What bounds a set bounds its parts.
LEMMA FewerStill ==
  ASSUME NEW M, IsFiniteSet(M), NEW N \in SUBSET M, NEW c \in Nat, Cardinality(M) <= c
  PROVE  Cardinality(N) <= c
PROOF
<1>1. Cardinality(N) <= Cardinality(M) /\ Cardinality(N) \in Nat /\ Cardinality(M) \in Nat
  BY Fewer
<1> QED BY <1>1

\* One more taken out.
LEMMA CostOfGone ==
  ASSUME NEW s \in Sites, NEW g \in Nat, NEW c \in Nat, NEW n \in Nat
  PROVE  Cost(s, g + 1, c, n) = Cost(s, g, c, n) + Width[s]
PROOF
<1>1. PICK W \in Nat, U \in Nat : W = Width[s] /\ U = Width[s] - 1
  BY Widths
<1>2. PICK P \in Nat : P = PageSize
  BY Widths
<1>3. PICK x \in Nat, y \in Nat, z \in Nat : x = W * g /\ y = U * c /\ z = P * n
  BY <1>1, <1>2, Products
<1>4. W * (g + 1) = x + W
  BY <1>1, <1>3, Products
<1>5. /\ Cost(s, g, c, n) = x + y + (IF OneByOne(s) THEN 0 ELSE z)
      /\ Cost(s, g + 1, c, n) = (x + W) + y + (IF OneByOne(s) THEN 0 ELSE z)
  BY <1>1, <1>2, <1>3, <1>4 DEF Cost
<1> QED BY <1>1, <1>3, <1>5

\* One more put in.
LEMMA CostOfCome ==
  ASSUME NEW s \in Sites, NEW g \in Nat, NEW c \in Nat, NEW n \in Nat
  PROVE  Cost(s, g, c + 1, n) = Cost(s, g, c, n) + (Width[s] - 1)
PROOF
<1>1. PICK W \in Nat, U \in Nat : W = Width[s] /\ U = Width[s] - 1
  BY Widths
<1>2. PICK P \in Nat : P = PageSize
  BY Widths
<1>3. PICK x \in Nat, y \in Nat, z \in Nat : x = W * g /\ y = U * c /\ z = P * n
  BY <1>1, <1>2, Products
<1>4. U * (c + 1) = y + U
  BY <1>1, <1>3, Products
<1>5. /\ Cost(s, g, c, n) = x + y + (IF OneByOne(s) THEN 0 ELSE z)
      /\ Cost(s, g, c + 1, n) = x + (y + U) + (IF OneByOne(s) THEN 0 ELSE z)
  BY <1>1, <1>2, <1>3, <1>4 DEF Cost
<1> QED BY <1>1, <1>3, <1>5

\* One more page lost.
LEMMA CostOfLost ==
  ASSUME NEW s \in Sites, NEW g \in Nat, NEW c \in Nat, NEW n \in Nat
  PROVE  Cost(s, g, c, n + 1) = Cost(s, g, c, n) + (IF OneByOne(s) THEN 0 ELSE PageSize)
PROOF
<1>1. PICK W \in Nat, U \in Nat : W = Width[s] /\ U = Width[s] - 1
  BY Widths
<1>2. PICK P \in Nat : P = PageSize
  BY Widths
<1>3. PICK x \in Nat, y \in Nat, z \in Nat : x = W * g /\ y = U * c /\ z = P * n
  BY <1>1, <1>2, Products
<1>4. P * (n + 1) = z + P
  BY <1>2, <1>3, Products
<1>5. /\ Cost(s, g, c, n) = x + y + (IF OneByOne(s) THEN 0 ELSE z)
      /\ Cost(s, g, c, n + 1) = x + y + (IF OneByOne(s) THEN 0 ELSE z + P)
  BY <1>1, <1>2, <1>3, <1>4 DEF Cost
<1> QED BY <1>2, <1>3, <1>5

\* The lanes that a step does not walk miss no more for it.
LEMMA OthersNoMore ==
  ASSUME WalkTypes, StoodListed, FewOverlooked, who' = who, now' = now, NEW m \in Lanes,
         walk'[m] = walk[m], list'[m] = list[m], stood'[m] = stood[m],
         gone'[m] = gone[m], come'[m] = come[m], lost' \in {lost, lost + 1},
         seen \cup kept \subseteq seen' \cup kept',
         Accountable(who, walk[m])
  PROVE  Cardinality(Overlooked(m)') <= Allowed(m)'
PROOF
<1>1. Rec' = Rec
  BY DatesStay DEF Rec
<1>2. Overlooked(m)' = Missing(who, walk[m], list[m], stood[m] \cap Rec, seen' \cup kept')
  BY <1>1 DEF Overlooked
<1>3. Overlooked(m)' \subseteq Overlooked(m)
  BY <1>2 DEF Overlooked, Missing
<1>4. Cardinality(Overlooked(m)') \in Nat /\ Cardinality(Overlooked(m)') <= Cardinality(Overlooked(m))
      /\ Cardinality(Overlooked(m)) \in Nat
  BY <1>3, LaneFacts, MissingLess, MissingFinite DEF Overlooked
<1>5. Cardinality(Overlooked(m)) <= Allowed(m)
  BY DEF FewOverlooked
<1>6. Allowed(m) \in Nat /\ Allowed(m)' \in Nat /\ Allowed(m) <= Allowed(m)'
  <2>1. gone[m] \in Nat /\ come[m] \in Nat /\ lost \in Nat /\ who \in Sites
    BY LaneFacts DEF WalkTypes
  <2>2. Allowed(m)' = Cost(who, gone[m], come[m], lost')
    BY DEF Allowed
  <2>3. Cost(who, gone[m], come[m], lost) <= Cost(who, gone[m], come[m], lost + 1)
        /\ Cost(who, gone[m], come[m], lost) \in Nat /\ Cost(who, gone[m], come[m], lost + 1) \in Nat
    <3>1. Cost(who, gone[m], come[m], lost) \in Nat
      BY <2>1, CostIs
    <3>2. Cost(who, gone[m], come[m], lost + 1)
            = Cost(who, gone[m], come[m], lost) + (IF OneByOne(who) THEN 0 ELSE PageSize)
      BY <2>1, CostOfLost
    <3>3. PageSize \in Nat
      BY <2>1, Widths
    <3> QED BY <3>1, <3>2, <3>3
  <2> QED BY <2>1, <2>2, <2>3 DEF Allowed
<1> QED BY <1>4, <1>5, <1>6

\* A step of a lane leaves on their way all records but its own.
LEMMA PendingStep ==
  ASSUME WalkTypes, who' = who, NEW l \in Lanes, NEW v, walk' = [walk EXCEPT ![l] = v]
  PROVE  Pending \subseteq Pending' \cup walk[l].fresh /\ v.fresh \subseteq Pending'
PROOF
<1>1. Lanes' = Lanes /\ Lanes \subseteq Rubrics
  BY CrawlAssumption DEF Lanes
<1>2. walk'[l] = v /\ \A m \in Lanes \ {l} : walk'[m] = walk[m]
  BY <1>1 DEF WalkTypes
<1> QED BY <1>1, <1>2 DEF Pending

\* A step of a lane keeps the count when the lane itself does.
LEMMA FewStep ==
  ASSUME WalkTypes, StoodListed, FewOverlooked, now' = now, who' = who,
         NEW l \in Lanes, NEW v, walk' = [walk EXCEPT ![l] = v],
         UNCHANGED <<list, stood, gone, come>>, lost' \in {lost, lost + 1},
         seen \cup kept \subseteq seen' \cup kept',
         Accountable(who, v) =>
           Cardinality(Missing(who, v, list[l], stood[l] \cap Rec, seen' \cup kept'))
             <= Cost(who, gone[l], come[l], lost')
  PROVE  FewOverlooked'
PROOF
<1>1. Lanes' = Lanes /\ Lanes \subseteq Rubrics
  BY CrawlAssumption DEF Lanes
<1>2. walk'[l] = v /\ \A m \in Lanes \ {l} : walk'[m] = walk[m]
  BY <1>1 DEF WalkTypes
<1>3. SUFFICES ASSUME NEW m \in Lanes, Accountable(who, walk'[m])
               PROVE  Cardinality(Overlooked(m)') <= Allowed(m)'
  BY <1>1 DEF FewOverlooked
<1>4. CASE m = l
  <2>1. Rec' = Rec
    BY DatesStay DEF Rec
  <2>2. Overlooked(l)' = Missing(who, v, list[l], stood[l] \cap Rec, seen' \cup kept')
    BY <1>2, <2>1 DEF Overlooked
  <2>3. Allowed(l)' = Cost(who, gone[l], come[l], lost')
    BY DEF Allowed
  <2> QED BY <1>2, <1>3, <1>4, <2>2, <2>3
<1>5. CASE m # l
  BY <1>2, <1>3, <1>5, OthersNoMore
<1> QED BY <1>4, <1>5

\* And the books.
LEMMA BooksStep ==
  ASSUME WalkTypes, StoodListed, BooksSound, now' = now, who' = who,
         NEW l \in Lanes, NEW v, walk' = [walk EXCEPT ![l] = v],
         seen \subseteq seen', Sound(who, v, Rec, seen', kept')
  PROVE  BooksSound'
PROOF
<1>1. Lanes' = Lanes /\ Lanes \subseteq Rubrics
  BY CrawlAssumption DEF Lanes
<1>2. walk'[l] = v /\ \A m \in Lanes \ {l} : walk'[m] = walk[m]
  BY <1>1 DEF WalkTypes
<1>3. Rec' = Rec
  BY DatesStay DEF Rec
<1>4. SUFFICES ASSUME NEW m \in Lanes
               PROVE  Sound(who, walk'[m], Rec, seen', kept')
  BY <1>1, <1>3 DEF BooksSound
<1>5. CASE m = l
  BY <1>2, <1>5
<1>6. CASE m # l
  <2>1. who = "afisha" /\ walk'[m] = walk[m]
    BY <1>2, <1>6 DEF Lanes
  <2>2. Sound(who, walk[m], Rec, seen, kept)
    BY DEF BooksSound
  <2> QED BY <2>1, <2>2 DEF Sound
<1> QED BY <1>5, <1>6

\* A step may leave unwritten no more than it loses a page for.
LEMMA UnwrittenStep ==
  ASSUME WalkTypes, FewUnwritten, who' = who, NEW X, IsFiniteSet(X),
         seen' \ (kept' \cup Pending') \subseteq (seen \ (kept \cup Pending)) \cup X,
         \/ lost' = lost /\ X = {}
         \/ lost' = lost + 1 /\ Cardinality(X) <= PageSize
  PROVE  FewUnwritten'
PROOF
<1>1. SUFFICES ASSUME OneByOne(who)
               PROVE  Cardinality(seen' \ (kept' \cup Pending')) <= PageSize * lost'
  BY DEF FewUnwritten
<1> DEFINE before == seen \ (kept \cup Pending)
           after == seen' \ (kept' \cup Pending')
<1>2. Cardinality(before) <= PageSize * lost
  BY <1>1 DEF FewUnwritten
<1>3. IsFiniteSet(before)
  <2>1. Listings \in SUBSET Nat /\ IsFiniteSet(Listings) /\ before \in SUBSET Listings
    BY CrawlAssumption DEF WalkTypes
  <2> QED BY <2>1, FS_Subset
<1>4. after \subseteq before \cup X
  OBVIOUS
<1> HIDE DEF before, after
<1>5. /\ IsFiniteSet(before \cup X) /\ Cardinality(before) \in Nat /\ Cardinality(X) \in Nat
      /\ Cardinality(before \cup X) \in Nat
      /\ Cardinality(before \cup X) <= Cardinality(before) + Cardinality(X)
  BY <1>3, TwoParts
<1>6. Cardinality(after) \in Nat /\ Cardinality(after) <= Cardinality(before \cup X)
  BY <1>4, <1>5, Fewer
<1>7. PICK P \in Nat, n \in Nat : P = PageSize /\ n = lost
  BY Widths DEF WalkTypes
<1>8. P * n \in Nat /\ P * (n + 1) = P * n + P
  BY <1>7, Products
<1>9. PICK z \in Nat : z = P * n
  BY <1>8
<1>10. CASE lost' = lost /\ X = {}
  <2>1. Cardinality(X) = 0
    BY <1>10, FS_EmptySet
  <2>2. Cardinality(after) <= z
    BY <1>2, <1>5, <1>6, <1>7, <1>9, <2>1
  <2> QED BY <1>7, <1>9, <1>10, <2>2 DEF after
<1>11. CASE lost' = lost + 1 /\ Cardinality(X) <= PageSize
  <2>1. Cardinality(after) <= z + P
    BY <1>2, <1>5, <1>6, <1>7, <1>9, <1>11
  <2>2. PageSize * lost' = z + P
    BY <1>7, <1>8, <1>9, <1>11
  <2> QED BY <2>1, <2>2 DEF after
<1> QED BY <1>10, <1>11

\* What a step of one lane has to show.
LEMMA LaneStep ==
  ASSUME WalkInv, UNCHANGED <<now, who, list, stood, gone, come>>,
         NEW l \in Lanes, NEW v, walk' = [walk EXCEPT ![l] = v],
         lost' \in {lost, lost + 1},
         seen' \in SUBSET Listings, kept' \in SUBSET Listings,
         seen \subseteq seen', kept \subseteq kept', who = "kudago" => seen' = {},
         Sound(who, v, Rec, seen', kept'),
         Accountable(who, v) =>
           Cardinality(Missing(who, v, list[l], stood[l] \cap Rec, seen' \cup kept'))
             <= Cost(who, gone[l], come[l], lost'),
         FewUnwritten'
  PROVE  WalkInv'
PROOF
<1>1. WalkTypes /\ StoodListed /\ BooksSound /\ FewOverlooked
  BY DEF WalkInv
<1>2. WalkTypes'
  <2>1. v \in Walks
    BY DEF Sound, InOrder
  <2>2. walk' \in [Rubrics -> Walks]
    BY <1>1, <2>1 DEF WalkTypes
  <2>3. lost' \in Nat
    BY <1>1 DEF WalkTypes
  <2>4. now' = now /\ who' = who /\ list' = list /\ stood' = stood /\ gone' = gone /\ come' = come
    OBVIOUS
  <2>5. /\ now \in Clocks /\ who \in Sites
        /\ list \in [Rubrics -> SUBSET Listings] /\ stood \in [Rubrics -> SUBSET Listings]
        /\ gone \in [Rubrics -> Nat] /\ come \in [Rubrics -> Nat]
    BY <1>1 DEF WalkTypes
  <2> HIDE DEF WalkInv
  <2> QED BY <2>2, <2>3, <2>4, <2>5 DEF WalkTypes
<1>3. StoodListed'
  BY <1>1 DEF StoodListed
<1>4. BooksSound'
  BY <1>1, BooksStep
<1>5. seen \cup kept \subseteq seen' \cup kept'
  OBVIOUS
<1>6. FewOverlooked'
  BY <1>1, <1>5, FewStep
<1> QED BY <1>2, <1>3, <1>4, <1>6 DEF WalkInv

-----------------------------------------------------------------------------
(* The steps of a walk.                                                    *)

\* What the invariant says of one lane.
LEMMA OfLane ==
  ASSUME WalkInv, NEW l \in Lanes
  PROVE  /\ WalkTypes /\ StoodListed /\ Sound(who, walk[l], Rec, seen, kept) /\ InOrder(who, walk[l])
         /\ who \in Sites /\ l \in Rubrics /\ walk[l] \in Walks /\ List(list[l])
         /\ stood[l] \cap Rec \in SUBSET list[l] /\ list[l] \in SUBSET Listings
         /\ gone[l] \in Nat /\ come[l] \in Nat /\ lost \in Nat
         /\ seen \in SUBSET Listings /\ kept \in SUBSET Listings /\ (who = "kudago" => seen = {})
         /\ (who # "afisha" => Lanes = {1})
         /\ FewUnwritten
         /\ Accountable(who, walk[l]) =>
              Cardinality(Missing(who, walk[l], list[l], stood[l] \cap Rec, seen \cup kept))
                <= Cost(who, gone[l], come[l], lost)
         /\ Cardinality(Missing(who, walk[l], list[l], stood[l] \cap Rec, seen \cup kept)) \in Nat
         /\ Cost(who, gone[l], come[l], lost) \in Nat
PROOF
<1>1. WalkTypes /\ StoodListed /\ BooksSound /\ FewOverlooked /\ FewUnwritten
  BY DEF WalkInv
<1>2. /\ l \in Rubrics /\ walk[l] \in Walks /\ List(list[l]) /\ stood[l] \cap Rec \in SUBSET list[l]
      /\ list[l] \in SUBSET Listings
      /\ gone[l] \in Nat /\ come[l] \in Nat /\ (who # "afisha" => Lanes = {1})
  BY <1>1, LaneFacts
<1>3. who \in Sites /\ lost \in Nat /\ seen \in SUBSET Listings /\ kept \in SUBSET Listings /\ (who = "kudago" => seen = {})
  BY <1>1 DEF WalkTypes
<1>4. Sound(who, walk[l], Rec, seen, kept)
  BY <1>1 DEF BooksSound
<1>5. InOrder(who, walk[l])
  BY <1>4 DEF Sound
<1>6. Accountable(who, walk[l]) => Cardinality(Overlooked(l)) <= Allowed(l)
  BY <1>1 DEF FewOverlooked
<1>7. Cardinality(Missing(who, walk[l], list[l], stood[l] \cap Rec, seen \cup kept)) \in Nat
  BY <1>2, MissingFinite
<1>8. Cost(who, gone[l], come[l], lost) \in Nat
  BY <1>2, <1>3, CostIs
<1> QED BY <1>1, <1>2, <1>3, <1>4, <1>5, <1>6, <1>7, <1>8 DEF Overlooked, Allowed

\* A page that is answered keeps the invariant.
LEMMA FetchPageStep ==
  ASSUME WalkInv, NEW l \in Lanes, NEW p, FetchPage(l, p)
  PROVE  WalkInv'
PROOF
<1> DEFINE q == IF who = "kudago" /\ Beyond(list[l], p) THEN 1 ELSE p
           L == list[l]
<1>1. PICK a : a = [items |-> PageOf(L, q), total |-> Cardinality(L)]
  OBVIOUS
<1>2. PICK w \in Walks : w = walk[l]
  BY OfLane
<1>3. PICK v : v = WithAnswer(w, p, a)
  OBVIOUS
<1>4. /\ w.at = "ask" /\ p \in PagesOf(who, w) \ DOMAIN w.got /\ Reading(who, w)
      /\ UNCHANGED <<now, who, list, stood, gone, come, seen, kept, lost>>
  BY <1>2 DEF FetchPage, Batch, PagesOf, Reading, record
<1>5. walk' = [walk EXCEPT ![l] = v]
  BY <1>1, <1>2, <1>3 DEF FetchPage, Answer, WithAnswer
<1>6. InOrder(who, w) /\ Sound(who, w, Rec, seen, kept) /\ List(L) /\ L \in SUBSET Listings
  BY <1>2, OfLane
<1>7. w.page \in Nat /\ w.page >= 1 /\ Width[who] \in Nat /\ MaxPages \in Nat /\ MaxPages >= 1
  BY <1>4, <1>6, Widths DEF InOrder
<1>8. p \in 1..MaxPages /\ p \in Nat \ {0} /\ q \in Nat \ {0}
  BY <1>4, <1>7 DEF PagesOf
<1>9. a \in PageAnswers /\ Cardinality(a.items) <= PageSize /\ a.items = PageOf(L, q) /\ a.total = Cardinality(L)
  <2>1. a.items = PageOf(L, q) /\ a.total = Cardinality(L)
    BY <1>1
  <2>2. PageOf(L, q) \in SUBSET Listings
    BY <1>6 DEF PageOf
  <2>3. Cardinality(L) \in Nat /\ Cardinality(PageOf(L, q)) <= PageSize
    BY <1>6, <1>8, PageFits, FS_CardinalityType DEF List
  <2> HIDE DEF L, q
  <2> QED BY <1>1, <2>1, <2>2, <2>3 DEF PageAnswers
<1>10. /\ v \in Walks
       /\ v.at = w.at /\ v.page = w.page /\ v.fresh = w.fresh /\ v.reason = w.reason
       /\ DOMAIN v.got = DOMAIN w.got \cup {p} /\ v.got[p] = a
       /\ \A r \in DOMAIN w.got \ {p} : v.got[r] = w.got[r]
  BY <1>3, <1>8, <1>9, Answered
<1>11. Sound(who, v, Rec, seen, kept)
  <2>1. Reading(who, v) /\ PagesOf(who, v) = PagesOf(who, w)
    BY <1>4, <1>10 DEF Reading, PagesOf
  <2>2. InOrder(who, v)
    BY <1>4, <1>6, <1>10, <2>1 DEF InOrder
  <2>3. a # Lost
    <3>1. Cardinality(L) \in Nat
      BY <1>6, FS_CardinalityType DEF List
    <3> HIDE DEF L
    <3> QED BY <1>9, <3>1 DEF Lost
  <2>4. \A r \in DOMAIN v.got : OneByOne(who) => v.got[r] # Lost /\ Cardinality(v.got[r].items) <= PageSize
    BY <1>6, <1>9, <1>10, <2>3 DEF Sound
  <2> QED BY <1>4, <1>6, <1>10, <2>1, <2>2, <2>4 DEF Sound
<1>12. Missing(who, v, L, stood[l] \cap Rec, seen \cup kept) \subseteq Missing(who, w, L, stood[l] \cap Rec, seen \cup kept)
  <2>1. a.items = PageOf(L, p) \/ (~OneByOne(who) /\ who # "timepad" /\ Beyond(L, p))
    BY <1>9 DEF OneByOne
  <2>2. stood[l] \cap Rec \in SUBSET L
    BY OfLane
  <2> HIDE DEF L, q
  <2> QED BY <1>3, <1>4, <1>6, <1>9, <2>1, <2>2, Fetched
<1>13. Cardinality(Missing(who, v, L, stood[l] \cap Rec, seen \cup kept)) <= Cost(who, gone[l], come[l], lost)
  <2>1. /\ stood[l] \cap Rec \in SUBSET L /\ Cost(who, gone[l], come[l], lost) \in Nat
        /\ Cardinality(Missing(who, w, L, stood[l] \cap Rec, seen \cup kept)) <= Cost(who, gone[l], come[l], lost)
        /\ Cardinality(Missing(who, w, L, stood[l] \cap Rec, seen \cup kept)) \in Nat
    BY <1>2, <1>4, OfLane DEF Accountable
  <2>2. IsFiniteSet(Missing(who, w, L, stood[l] \cap Rec, seen \cup kept))
    BY <1>6, <2>1, MissingFinite
  <2> HIDE DEF L
  <2> QED BY <1>12, <2>1, <2>2, FewerStill
<1>14. FewUnwritten'
  <2>1. Pending \subseteq Pending'
    BY <1>2, <1>4, <1>5, <1>10, PendingStep, OfLane
  <2>2. seen' \ (kept' \cup Pending') \subseteq (seen \ (kept \cup Pending)) \cup {}
    BY <1>4, <2>1
  <2> QED BY <1>4, <2>2, OfLane, UnwrittenStep, FS_EmptySet
<1> QED BY <1>4, <1>5, <1>11, <1>13, <1>14, OfLane, LaneStep

\* A walk that is given up answers for nothing.
LEMMA GivenUp ==
  ASSUME NEW s \in Sites, NEW why \in WhyEnded, NEW R, NEW N, NEW K,
         s = "timepad" /\ why \in {"exhausted", "completed_iteration"} => N \cap R \subseteq K
  PROVE  /\ Sound(s, Ended(why), R, N, K) /\ ~Reading(s, Ended(why))
         /\ Accountable(s, Ended(why)) <=> why \in {"exhausted", "completed_iteration"}
PROOF
<1>1. PICK v : v = Ended(why)
  OBVIOUS
<1>2. v \in Walks /\ v.at = "end" /\ DOMAIN v.got = {} /\ v.fresh = {} /\ v.reason = why
  BY <1>1, NewWalks
<1>3. ~Reading(s, v)
  BY <1>2 DEF Reading
<1>4. InOrder(s, v)
  BY <1>2, <1>3 DEF InOrder
<1>5. Accountable(s, v) <=> why \in {"exhausted", "completed_iteration"}
  BY <1>2, <1>3 DEF Accountable
<1>6. Sound(s, v, R, N, K)
  BY <1>2, <1>3, <1>4, <1>5 DEF Sound
<1> QED BY <1>1, <1>3, <1>5, <1>6

\* A page that is begun has its books in order, and all from it on to be read.
LEMMA BeginsPage ==
  ASSUME NEW s \in Sites, NEW p \in 1..MaxPages, NEW R, NEW N, NEW K, s = "timepad" => K = {}
  PROVE  /\ Sound(s, Going(p), R, N, K) /\ Reading(s, Going(p))
         /\ \A q \in Nat \ {0} : YetToRead(s, Going(p), q) <=> p <= q
PROOF
<1>1. PICK v : v = Going(p)
  OBVIOUS
<1>2. v \in Walks /\ v.at = "ask" /\ v.page = p /\ DOMAIN v.got = {} /\ v.fresh = {} /\ p \in Nat
  BY <1>1, NewWalks, Widths
<1>3. Reading(s, v)
  BY <1>2 DEF Reading
<1>4. InOrder(s, v)
  BY <1>2, <1>3 DEF InOrder
<1>5. Sound(s, v, R, N, K)
  BY <1>2, <1>3, <1>4 DEF Sound
<1>6. ~AtTheEnd(s, v)
  BY <1>2 DEF AtTheEnd
<1>7. \A q \in Nat \ {0} : YetToRead(s, v, q) <=> p <= q
  BY <1>2, <1>3, <1>6 DEF YetToRead
<1> QED BY <1>1, <1>3, <1>5, <1>7

\* A lane that is at "ask" has nothing to write, so nothing more is left unwritten.
LEMMA StillUnwritten ==
  ASSUME WalkInv, NEW l \in Lanes, NEW v, walk' = [walk EXCEPT ![l] = v], who' = who,
         walk[l].fresh = {}, lost' \in {lost, lost + 1}, seen' \subseteq seen \cup v.fresh \cup kept', kept \subseteq kept'
  PROVE  FewUnwritten'
PROOF
<1>1. Pending \subseteq Pending' /\ v.fresh \subseteq Pending'
  BY PendingStep, OfLane
<1>2. seen' \ (kept' \cup Pending') \subseteq (seen \ (kept \cup Pending)) \cup {}
  BY <1>1
<1>3. IsFiniteSet({}) /\ Cardinality({}) <= PageSize
  <2>1. PageSize \in Nat /\ IsFiniteSet({}) /\ Cardinality({}) = 0
    BY FS_EmptySet, Widths, OfLane
  <2> QED BY <2>1
<1> QED BY <1>2, <1>3, OfLane, UnwrittenStep

\* A lane that ends without an account.
LEMMA EndsUnaccounted ==
  ASSUME WalkInv, UNCHANGED <<now, who, list, stood, gone, come, seen>>,
         NEW l \in Lanes, NEW why \in WhyEnded \ {"exhausted", "completed_iteration"},
         walk' = [walk EXCEPT ![l] = Ended(why)],
         lost' \in {lost, lost + 1}, kept' \in SUBSET Listings, kept \subseteq kept',
         FewUnwritten'
  PROVE  WalkInv'
PROOF
<1>1. Sound(who, Ended(why), Rec, seen', kept') /\ ~Accountable(who, Ended(why))
  BY OfLane, GivenUp
<1>2. PICK v : v = Ended(why)
  OBVIOUS
<1> QED BY <1>1, <1>2, OfLane, LaneStep

\* A page that fails keeps it.
LEMMA FetchFailsStep ==
  ASSUME WalkInv, NEW l \in Lanes, NEW p, FetchFails(l, p)
  PROVE  WalkInv'
PROOF
<1>1. PICK w \in Walks : w = walk[l]
  BY OfLane
<1>2. /\ w.at = "ask" /\ p \in PagesOf(who, w) \ DOMAIN w.got /\ Reading(who, w)
      /\ UNCHANGED <<now, who, list, stood, gone, come, seen, kept>> /\ w.fresh = {}
  BY <1>1, OfLane DEF FetchFails, Batch, PagesOf, Reading, Sound
<1>3. CASE \E why \in {"failed", "rate_limited", None} : walk' = [walk EXCEPT ![l] = Ended(why)] /\ lost' = lost
  <2>1. PICK why \in {"failed", "rate_limited", None} : walk' = [walk EXCEPT ![l] = Ended(why)] /\ lost' = lost
    BY <1>3
  <2>2. why \in WhyEnded \ {"exhausted", "completed_iteration"}
    BY DEF WhyEnded, None
  <2>3. PICK v : v = Ended(why)
    OBVIOUS
  <2>4. FewUnwritten'
    BY <1>1, <1>2, <2>1, <2>3, StillUnwritten
  <2> QED BY <1>2, <2>1, <2>2, <2>4, OfLane, EndsUnaccounted
<1>4. CASE who \in {"kudago", "timepad"} /\ walk' = Answer(l, p, Lost) /\ lost' = lost + 1
  <2>1. PICK v : v = WithAnswer(w, p, Lost)
    OBVIOUS
  <2>2. walk' = [walk EXCEPT ![l] = v]
    BY <1>1, <1>4, <2>1 DEF Answer, WithAnswer
  <2>3. InOrder(who, w) /\ Sound(who, w, Rec, seen, kept) /\ List(list[l])
    BY <1>1, OfLane
  <2>4. w.page \in Nat /\ w.page >= 1 /\ Width[who] \in Nat /\ MaxPages \in Nat /\ MaxPages >= 1
    BY <1>2, <2>3, Widths DEF InOrder
  <2>5. p \in 1..MaxPages /\ Lost \in PageAnswers
    BY <1>2, <2>4 DEF PagesOf, Lost, PageAnswers
  <2>6. /\ v \in Walks
        /\ v.at = w.at /\ v.page = w.page /\ v.fresh = w.fresh
        /\ DOMAIN v.got = DOMAIN w.got \cup {p}
    BY <2>1, <2>5, Answered
  <2>7. Sound(who, v, Rec, seen, kept)
    <3>1. Reading(who, v) /\ PagesOf(who, v) = PagesOf(who, w)
      BY <1>2, <2>6 DEF Reading, PagesOf
    <3>2. InOrder(who, v)
      BY <1>2, <2>3, <2>6, <3>1 DEF InOrder
    <3>3. ~OneByOne(who)
      BY <1>4 DEF OneByOne
    <3> QED BY <1>2, <2>3, <2>6, <3>1, <3>2, <3>3 DEF Sound
  <2>8. Cardinality(Missing(who, v, list[l], stood[l] \cap Rec, seen \cup kept)) <= Cost(who, gone[l], come[l], lost + 1)
    <3> DEFINE c == Cost(who, gone[l], come[l], lost)
               n == Cardinality(Missing(who, w, list[l], stood[l] \cap Rec, seen \cup kept))
               m == Cardinality(Missing(who, v, list[l], stood[l] \cap Rec, seen \cup kept))
    <3>1. /\ stood[l] \cap Rec \in SUBSET list[l] /\ c \in Nat /\ n \in Nat /\ n <= c
          /\ who \in Sites /\ gone[l] \in Nat /\ come[l] \in Nat /\ lost \in Nat
      BY <1>1, <1>2, OfLane DEF Accountable
    <3>2. m <= n + PageSize
      BY <1>2, <2>1, <2>3, <3>1, LostPage
    <3>3. Cost(who, gone[l], come[l], lost + 1) = c + PageSize
      <4>1. ~OneByOne(who)
        BY <1>4 DEF OneByOne
      <4> QED BY <3>1, <4>1, CostOfLost
    <3>4. m \in Nat /\ PageSize \in Nat
      BY <2>3, <3>1, MissingFinite, Widths
    <3> HIDE DEF c, n, m
    <3>5. m <= Cost(who, gone[l], come[l], lost + 1)
      BY <3>1, <3>2, <3>3, <3>4
    <3> QED BY <3>5 DEF m
  <2>9. FewUnwritten'
    BY <1>1, <1>2, <1>4, <2>2, StillUnwritten
  <2> QED BY <1>2, <1>4, <2>2, <2>7, <2>8, <2>9, OfLane, LaneStep
<1>5. \/ \E why \in {"failed", "rate_limited", None} : walk' = [walk EXCEPT ![l] = Ended(why)] /\ lost' = lost
      \/ who \in {"kudago", "timepad"} /\ walk' = Answer(l, p, Lost) /\ lost' = lost + 1
  BY DEF FetchFails
<1> QED BY <1>3, <1>4, <1>5

\* A walk of Timepad without categories keeps it.
LEMMA NoCategoriesStep ==
  ASSUME WalkInv, NoCategories
  PROVE  WalkInv'
PROOF
<1>1. /\ who = "timepad" /\ walk[1] = Going(1) /\ walk' = [walk EXCEPT ![1] = Ended(None)]
      /\ UNCHANGED <<now, who, list, stood, gone, come, seen, kept, lost>>
  BY DEF NoCategories
<1>2. 1 \in Lanes
  BY <1>1 DEF Lanes
<1>3. walk[1].fresh = {}
  BY <1>1, NewWalks
<1>4. PICK v : v = Ended(None)
  OBVIOUS
<1>5. FewUnwritten'
  BY <1>1, <1>2, <1>3, <1>4, StillUnwritten
<1>6. None \in WhyEnded \ {"exhausted", "completed_iteration"}
  BY DEF None, WhyEnded
<1> QED BY <1>1, <1>2, <1>5, <1>6, OfLane, EndsUnaccounted

\* What is beyond a batch that was answered.
LEMMA PastTheBatch ==
  ASSUME NEW s, NEW w, InOrder(s, w), Reading(s, w), DOMAIN w.got = PagesOf(s, w),
         NEW q \in Nat \ {0}, YetToRead(s, w, q)
  PROVE  ~AtTheEnd(s, w) /\ (q >= w.page + Width[s] \/ q > MaxPages)
PROOF
<1>1. w.page \in Nat /\ Width[s] \in Nat /\ MaxPages \in Nat
  BY Widths DEF InOrder
<1>2. w.page <= q /\ q \notin PagesOf(s, w) /\ (AtTheEnd(s, w) => q \in PagesOf(s, w))
  BY DEF YetToRead
<1> QED BY <1>1, <1>2 DEF PagesOf

\* No page of an answered batch tells more than was taken note of.
LEMMA TakenIn ==
  ASSUME WalkInv, NEW l \in Lanes, NEW v, NEW N, NEW K,
         Reading(who, walk[l]), Accountable(who, v),
         seen \subseteq N, kept \subseteq K, InHand(walk[l]) \cap Rec \subseteq N \cup K \cup InHand(v),
         \A q \in Nat \ {0} : YetToRead(who, walk[l], q) => YetToRead(who, v, q)
  PROVE  Cardinality(Missing(who, v, list[l], stood[l] \cap Rec, N \cup K)) <= Cost(who, gone[l], come[l], lost)
PROOF
<1>1. PICK L, T, w, M : /\ L = list[l] /\ T = stood[l] \cap Rec /\ w = walk[l]
                        /\ M = Missing(who, w, L, T, seen \cup kept)
  OBVIOUS
<1>2. /\ List(L) /\ T \in SUBSET L /\ Cost(who, gone[l], come[l], lost) \in Nat
      /\ Cardinality(M) <= Cost(who, gone[l], come[l], lost)
  BY <1>1, OfLane DEF Accountable
<1>3. Missing(who, v, L, T, N \cup K) \subseteq M
  <2>1. (seen \cup kept) \cap T \subseteq (N \cup K) \cup InHand(v)
    OBVIOUS
  <2>2. InHand(w) \cap T \subseteq (N \cup K) \cup InHand(v)
    BY <1>1
  <2> QED BY <1>1, <1>2, <2>1, <2>2, WalksOn
<1>4. IsFiniteSet(M)
  BY <1>1, <1>2, MissingFinite
<1>5. PICK S, c : S = Missing(who, v, L, T, N \cup K) /\ c = Cost(who, gone[l], come[l], lost)
  OBVIOUS
<1>6. S \in SUBSET M /\ c \in Nat /\ Cardinality(M) <= c
  BY <1>2, <1>3, <1>5
<1>7. Cardinality(S) <= c
  BY <1>4, <1>6, FewerStill
<1> QED BY <1>1, <1>5, <1>7

\* Where a walk page by page goes after a page, nothing is passed over.
LEMMA GoesOn ==
  ASSUME WalkInv, NEW l \in Lanes, OneByOne(who), Reading(who, walk[l]),
         DOMAIN walk[l].got = PagesOf(who, walk[l]), NEW N, NEW K
  PROVE  /\ Sound(who, GoOn(l), Rec, N, K) /\ GoOn(l).fresh = {}
         /\ Accountable(who, GoOn(l)) =>
              \A q \in Nat \ {0} : YetToRead(who, walk[l], q) => YetToRead(who, GoOn(l), q)
PROOF
<1>1. PICK w \in Walks : w = walk[l]
  BY OfLane
<1>2. PICK p \in Nat : p = w.page
  BY <1>1, BookFacts
<1>3. /\ InOrder(who, w) /\ Reading(who, w) /\ DOMAIN w.got = PagesOf(who, w) /\ who \in Sites
      /\ Width[who] = 1 /\ MaxPages \in Nat /\ p \in 1..MaxPages /\ PageSize \in Nat
  <2>1. InOrder(who, w) /\ Reading(who, w) /\ DOMAIN w.got = PagesOf(who, w) /\ who \in Sites
    BY <1>1, OfLane
  <2> QED BY <1>2, <2>1, Widths DEF InOrder
<1>4. p \in PagesOf(who, w)
  BY <1>2, <1>3 DEF PagesOf
<1>5. PICK a \in PageAnswers : a = w.got[p]
  BY <1>3, <1>4, BookFacts
<1>6. a # Lost
  BY <1>1, <1>3, <1>4, <1>5, OfLane DEF Sound
<1>7. PICK why : why = Verdict(p, a)
  OBVIOUS
<1>8. GoOn(l) = IF why = None THEN Going(p + 1) ELSE Ended(why)
  BY <1>1, <1>2, <1>5, <1>7 DEF GoOn
<1>9. /\ why \in {"none", "exhausted", "empty_page", "out_of_window", "completed_iteration", "max_pages"}
      /\ why = "none" => p # MaxPages
      /\ why = "exhausted" => p * PageSize >= a.total
      /\ why = "completed_iteration" => p = MaxPages
  BY <1>7 DEF Verdict, None
<1>10. CASE why = "none"
  <2>1. p + 1 \in 1..MaxPages /\ who # "timepad" /\ GoOn(l) = Going(p + 1) /\ p + 1 \in Nat
    BY <1>3, <1>8, <1>9, <1>10 DEF None, OneByOne
  <2>2. PICK v : v = Going(p + 1)
    OBVIOUS
  <2>3. Sound(who, v, Rec, N, K) /\ v.fresh = {} /\ \A q \in Nat \ {0} : YetToRead(who, v, q) <=> p + 1 <= q
    BY <1>3, <2>1, <2>2, BeginsPage, NewWalks
  <2>4. ASSUME NEW q \in Nat \ {0}, YetToRead(who, w, q)
        PROVE  p + 1 <= q
    <3>1. q >= p + 1 \/ q > MaxPages
      BY <1>2, <1>3, <2>4, PastTheBatch
    <3> QED BY <1>3, <2>1, <3>1
  <2> QED BY <1>1, <2>1, <2>2, <2>3, <2>4
<1>11. CASE why # "none"
  <2>1. why \in WhyEnded /\ who # "timepad" /\ GoOn(l) = Ended(why)
    BY <1>3, <1>8, <1>9, <1>11 DEF None, WhyEnded, OneByOne
  <2>2. PICK v : v = Ended(why)
    OBVIOUS
  <2>3. /\ Sound(who, v, Rec, N, K) /\ v.fresh = {} /\ v.reason = why /\ ~Reading(who, v)
        /\ Accountable(who, v) <=> why \in {"exhausted", "completed_iteration"}
    BY <1>3, <2>1, <2>2, GivenUp, NewWalks
  <2>4. ASSUME why \in {"exhausted", "completed_iteration"}, NEW q \in Nat \ {0}, YetToRead(who, w, q)
        PROVE  YetToRead(who, v, q)
    <3>1. ~AtTheEnd(who, w) /\ (q >= p + 1 \/ q > MaxPages)
      BY <1>2, <1>3, <2>4, PastTheBatch
    <3>2. CASE why = "exhausted"
      <4>1. a.total \in Int /\ p * PageSize \in Int
        BY <1>2, <1>3 DEF PageAnswers
      <4>2. a.total <= p * PageSize
        BY <1>9, <3>2, <4>1
      <4>3. TellsTheEnd(who, p, w.got[p])
        BY <1>5, <1>6, <4>2 DEF TellsTheEnd
      <4>4. AtTheEnd(who, w)
        BY <1>3, <1>4, <4>3 DEF AtTheEnd
      <4> QED BY <3>1, <4>4
    <3>3. CASE why = "completed_iteration"
      <4>1. q > MaxPages
        BY <1>3, <1>9, <3>1, <3>3
      <4> QED BY <2>3, <3>3, <4>1 DEF YetToRead
    <3> QED BY <2>4, <3>2, <3>3
  <2> QED BY <1>1, <2>1, <2>2, <2>3, <2>4
<1> QED BY <1>10, <1>11

\* A page whose records are taken keeps it.
LEMMA TakePageStep ==
  ASSUME WalkInv, NEW l \in Lanes, TakePage(l)
  PROVE  WalkInv'
PROOF
<1>1. PICK w \in Walks : w = walk[l]
  BY OfLane
<1>2. PICK p \in Nat : p = w.page
  BY <1>1, BookFacts
<1>3. PICK fresh : fresh = Records(w.got[p].items) \ seen
  OBVIOUS
<1>4. /\ w.at = "ask" /\ OneByOne(who) /\ Reading(who, w) /\ DOMAIN w.got = PagesOf(who, w)
      /\ UNCHANGED <<now, who, list, stood, gone, come, kept, lost>> /\ seen' = seen \cup fresh
      /\ IF fresh = {} THEN walk' = [walk EXCEPT ![l] = GoOn(l)]
         ELSE walk' = [walk EXCEPT ![l].at = "write", ![l].fresh = fresh]
  BY <1>1, <1>2, <1>3 DEF TakePage, Sequential, OneByOne, Asked, Batch, PagesOf, Reading, record
<1>5. /\ InOrder(who, w) /\ Sound(who, w, Rec, seen, kept) /\ who \in Sites /\ p \in 1..MaxPages
      /\ Width[who] = 1 /\ MaxPages \in Nat /\ seen \in SUBSET Listings /\ kept \in SUBSET Listings
      /\ w.fresh = {}
  <2>1. InOrder(who, w) /\ Sound(who, w, Rec, seen, kept) /\ who \in Sites
        /\ seen \in SUBSET Listings /\ kept \in SUBSET Listings
    BY <1>1, OfLane
  <2> QED BY <1>2, <1>4, <2>1, Widths DEF InOrder, Sound
<1>6. DOMAIN w.got = {p} /\ InHand(w) = w.got[p].items /\ w.got[p].items \in SUBSET Listings
  <2>1. DOMAIN w.got = {p}
    BY <1>2, <1>4, <1>5 DEF PagesOf
  <2>2. InHand(w) = w.got[p].items
    BY <2>1 DEF InHand
  <2> QED BY <1>1, <2>1, <2>2, BookFacts
<1>7. fresh = (InHand(w) \cap Rec) \ seen /\ fresh \in SUBSET Listings
  BY <1>3, <1>6, RecordsAre
<1>8. CASE fresh = {}
  <2>1. seen' = seen /\ InHand(w) \cap Rec \subseteq seen
    BY <1>4, <1>7, <1>8
  <2>2. PICK v : v = GoOn(l)
    OBVIOUS
  <2>3. /\ Sound(who, v, Rec, seen', kept') /\ v.fresh = {}
        /\ Accountable(who, v) => \A q \in Nat \ {0} : YetToRead(who, w, q) => YetToRead(who, v, q)
    BY <1>1, <1>4, <2>2, GoesOn
  <2>4. walk' = [walk EXCEPT ![l] = v]
    BY <1>4, <1>8, <2>2
  <2>5. FewUnwritten'
    BY <1>1, <1>4, <1>5, <2>1, <2>4, StillUnwritten
  <2>6. Accountable(who, v) =>
          Cardinality(Missing(who, v, list[l], stood[l] \cap Rec, seen' \cup kept')) <= Cost(who, gone[l], come[l], lost')
    BY <1>1, <1>4, <2>1, <2>3, TakenIn
  <2>7. who # "kudago"
    BY <1>4 DEF OneByOne
  <2> QED BY <1>4, <1>5, <2>1, <2>3, <2>4, <2>5, <2>6, <2>7, LaneStep
<1>9. CASE fresh # {}
  <2>1. PICK v : v = [w EXCEPT !.at = "write", !.fresh = fresh]
    OBVIOUS
  <2>2. walk' = [walk EXCEPT ![l] = v]
    BY <1>1, <1>4, <1>9, <2>1
  <2>3. /\ v \in Walks /\ v.at = "write" /\ v.page = w.page /\ v.got = w.got /\ v.fresh = fresh
        /\ v.reason = w.reason
    BY <1>7, <2>1 DEF Walks
  <2>4. Reading(who, v) /\ PagesOf(who, v) = PagesOf(who, w) /\ InHand(v) = InHand(w)
    BY <1>4, <2>3 DEF Reading, PagesOf, InHand
  <2>5. InOrder(who, v)
    BY <1>4, <1>5, <2>3, <2>4 DEF InOrder
  <2>6. Cardinality(fresh) <= PageSize
    <3>1. Cardinality(w.got[p].items) <= PageSize
      BY <1>4, <1>5, <1>6 DEF Sound
    <3>2. IsFiniteSet(w.got[p].items) /\ PageSize \in Nat
      <4>1. IsFiniteSet(Listings)
        BY CrawlAssumption
      <4> QED BY <1>5, <1>6, <4>1, FS_Subset, Widths
    <3>3. fresh \in SUBSET w.got[p].items
      BY <1>6, <1>7
    <3> QED BY <3>1, <3>2, <3>3, FewerStill
  <2>7. Sound(who, v, Rec, seen', kept')
    <3>1. InHand(v) \cap Rec \subseteq seen'
      BY <1>4, <1>7, <2>4
    <3>2. who # "timepad" /\ who # "kudago"
      BY <1>4 DEF OneByOne
    <3> QED BY <1>4, <1>5, <2>3, <2>4, <2>5, <2>6, <3>1, <3>2 DEF Sound
  <2>8. \A q \in Nat \ {0} : YetToRead(who, w, q) => YetToRead(who, v, q)
    BY <1>4, <2>3, <2>4 DEF YetToRead, AtTheEnd
  <2>9. FewUnwritten'
    <3>1. seen' \subseteq seen \cup v.fresh \cup kept'
      BY <1>4, <2>3
    <3> QED BY <1>1, <1>4, <1>5, <2>2, <3>1, StillUnwritten
  <2>10. Accountable(who, v) =>
          Cardinality(Missing(who, v, list[l], stood[l] \cap Rec, seen' \cup kept')) <= Cost(who, gone[l], come[l], lost')
    BY <1>1, <1>4, <2>4, <2>8, TakenIn
  <2>11. who # "kudago" /\ seen' \in SUBSET Listings /\ kept' \in SUBSET Listings
    BY <1>4, <1>5, <1>7 DEF OneByOne
  <2> QED BY <1>4, <2>2, <2>7, <2>9, <2>10, <2>11, LaneStep
<1> QED BY <1>8, <1>9

\* A page that is written keeps it.
LEMMA WritePageStep ==
  ASSUME WalkInv, NEW l \in Lanes, WritePage(l)
  PROVE  WalkInv'
PROOF
<1>1. PICK w \in Walks : w = walk[l]
  BY OfLane
<1>2. /\ w.at = "write" /\ OneByOne(who) /\ Reading(who, w) /\ who # "kudago"
      /\ UNCHANGED <<now, who, list, stood, gone, come, seen, lost>> /\ kept' = kept \cup w.fresh
      /\ walk' = [walk EXCEPT ![l] = GoOn(l)]
  BY <1>1 DEF WritePage, Sequential, OneByOne, Reading, record
<1>3. /\ seen \in SUBSET Listings /\ kept' \in SUBSET Listings
      /\ DOMAIN w.got = PagesOf(who, w) /\ InHand(w) \cap Rec \subseteq seen
  BY <1>1, <1>2, OfLane, BookFacts DEF Sound
<1>4. PICK v : v = GoOn(l)
  OBVIOUS
<1>5. /\ Sound(who, v, Rec, seen', kept') /\ v.fresh = {}
      /\ Accountable(who, v) => \A q \in Nat \ {0} : YetToRead(who, w, q) => YetToRead(who, v, q)
  BY <1>1, <1>2, <1>3, <1>4, GoesOn
<1>6. FewUnwritten'
  <2>1. Pending \subseteq Pending' \cup w.fresh
    BY <1>1, <1>2, <1>4, OfLane, PendingStep
  <2>2. seen' \ (kept' \cup Pending') \subseteq (seen \ (kept \cup Pending)) \cup {}
    BY <1>2, <2>1
  <2> QED BY <1>2, <2>2, OfLane, UnwrittenStep, FS_EmptySet
<1>7. Accountable(who, v) =>
        Cardinality(Missing(who, v, list[l], stood[l] \cap Rec, seen' \cup kept')) <= Cost(who, gone[l], come[l], lost')
  BY <1>1, <1>2, <1>3, <1>5, TakenIn
<1> QED BY <1>2, <1>3, <1>4, <1>5, <1>6, <1>7, LaneStep

\* A write that fails keeps it: no more is lost than a page holds.
LEMMA WriteFailsStep ==
  ASSUME WalkInv, NEW l \in Lanes, WriteFails(l)
  PROVE  WalkInv'
PROOF
<1>1. PICK w \in Walks : w = walk[l]
  BY OfLane
<1>2. /\ w.at = "write" /\ OneByOne(who)
      /\ UNCHANGED <<now, who, list, stood, gone, come, seen, kept>> /\ lost' = lost + 1
  BY <1>1 DEF WriteFails, Sequential, OneByOne
<1>3. PICK why \in {"failed", "none"} : walk' = [walk EXCEPT ![l] = Ended(why)]
  BY DEF WriteFails, None
<1>4. why \in WhyEnded \ {"exhausted", "completed_iteration"}
  BY DEF WhyEnded
<1>5. PICK v : v = Ended(why)
  OBVIOUS
<1>6. FewUnwritten'
  <2>1. Pending \subseteq Pending' \cup w.fresh
    BY <1>1, <1>2, <1>3, <1>5, OfLane, PendingStep
  <2>2. seen' \ (kept' \cup Pending') \subseteq (seen \ (kept \cup Pending)) \cup w.fresh
    BY <1>2, <2>1
  <2>3. Cardinality(w.fresh) <= PageSize
    BY <1>1, <1>2, OfLane DEF Sound
  <2>4. IsFiniteSet(w.fresh)
    BY <1>1, BookFacts, FS_Subset, CrawlAssumption
  <2> QED BY <1>2, <2>2, <2>3, <2>4, OfLane, UnwrittenStep
<1> QED BY <1>2, <1>3, <1>4, <1>6, OfLane, EndsUnaccounted

\* What came back of a batch is in hand.
LEMMA BatchInHand ==
  ASSUME WalkInv, NEW l \in Lanes, Asked(l)
  PROVE  /\ Reading(who, walk[l]) /\ DOMAIN walk[l].got = PagesOf(who, walk[l])
         /\ Good(l) = {p \in DOMAIN walk[l].got : walk[l].got[p] # Lost}
         /\ Got(l, Good(l)) = InHand(walk[l]) /\ InHand(walk[l]) \in SUBSET Listings
         /\ walk[l].fresh = {} /\ walk[l].at = "ask"
PROOF
<1>1. PICK w \in Walks : w = walk[l]
  BY OfLane
<1>2. w.at = "ask" /\ Reading(who, w) /\ DOMAIN w.got = PagesOf(who, w) /\ Batch(l) = DOMAIN w.got
  BY <1>1 DEF Asked, Batch, PagesOf, Reading
<1>3. Good(l) = {p \in DOMAIN w.got : w.got[p] # Lost}
  BY <1>1, <1>2 DEF Good
<1>4. \A p \in DOMAIN w.got : p \notin Good(l) => w.got[p].items = {}
  BY <1>3 DEF Lost
<1>5. Got(l, Good(l)) = InHand(w)
  BY <1>1, <1>3, <1>4 DEF Got, InHand
<1>6. w.fresh = {}
  BY <1>1, <1>2, OfLane DEF Sound
<1> QED BY <1>1, <1>2, <1>3, <1>5, <1>6, BookFacts

\* Where the batch after one that was answered begins.
LEMMA NextBatch ==
  ASSUME WalkInv, NEW l \in Lanes, Reading(who, walk[l]), DOMAIN walk[l].got = PagesOf(who, walk[l])
  PROVE  LET next == walk[l].page + Width[who]
         IN /\ next \in Nat /\ MaxPages \in Nat
            /\ \A q \in Nat \ {0} : YetToRead(who, walk[l], q) => ~AtTheEnd(who, walk[l]) /\ (q >= next \/ q > MaxPages)
            /\ ~(next > MaxPages) => next \in 1..MaxPages
PROOF
<1>1. PICK w \in Walks : w = walk[l]
  BY OfLane
<1>2. PICK p \in Nat, W \in Nat : p = w.page /\ W = Width[who]
  BY <1>1, BookFacts, OfLane, Widths
<1>3. InOrder(who, w) /\ MaxPages \in Nat /\ W >= 1
  BY <1>1, <1>2, OfLane, Widths
<1>4. \A q \in Nat \ {0} : YetToRead(who, w, q) => ~AtTheEnd(who, w) /\ (q >= p + W \/ q > MaxPages)
  BY <1>1, <1>2, <1>3, PastTheBatch
<1> QED BY <1>1, <1>2, <1>3, <1>4

\* A batch of KudaGo keeps it.
LEMMA TakeBatchStep ==
  ASSUME WalkInv, NEW l \in Lanes, TakeBatch(l)
  PROVE  WalkInv'
PROOF
<1>1. PICK w \in Walks : w = walk[l]
  BY OfLane
<1>2. PICK next : next = w.page + Width[who]
  OBVIOUS
<1>3. /\ who = "kudago" /\ Asked(l) /\ ~OneByOne(who)
      /\ UNCHANGED <<now, who, list, stood, gone, come, seen, lost>>
      /\ kept' = kept \cup Records(Got(l, Good(l)))
  BY DEF TakeBatch, record, OneByOne
<1>4. PICK v : /\ v \in {Ended("errors"), Ended("empty_page"), Ended("completed_iteration"), Going(next)}
               /\ walk' = [walk EXCEPT ![l] = v]
               /\ v = Ended("completed_iteration") => next > MaxPages
               /\ v = Going(next) => ~(next > MaxPages)
  <2>1. /\ Ended("errors") # Going(next) /\ Ended("empty_page") # Going(next)
        /\ Ended("completed_iteration") # Going(next)
        /\ Ended("errors") # Ended("completed_iteration") /\ Ended("empty_page") # Ended("completed_iteration")
    <3>1. /\ Ended("errors").at = "end" /\ Ended("empty_page").at = "end" /\ Ended("completed_iteration").at = "end"
          /\ Ended("errors").reason = "errors" /\ Ended("empty_page").reason = "empty_page"
          /\ Ended("completed_iteration").reason = "completed_iteration" /\ Going(next).at = "ask"
      BY DEF Ended, Going
    <3> QED BY <3>1
  <2>2. \/ walk' = [walk EXCEPT ![l] = Ended("errors")]
        \/ walk' = [walk EXCEPT ![l] = Ended("empty_page")]
        \/ next > MaxPages /\ walk' = [walk EXCEPT ![l] = Ended("completed_iteration")]
        \/ ~(next > MaxPages) /\ walk' = [walk EXCEPT ![l] = Going(next)]
    BY <1>1, <1>2 DEF TakeBatch
  <2> QED BY <2>1, <2>2
<1>5. /\ Reading(who, w) /\ DOMAIN w.got = PagesOf(who, w) /\ InHand(w) \in SUBSET Listings
      /\ kept' = kept \cup (InHand(w) \cap Rec)
  <2>1. /\ Reading(who, w) /\ DOMAIN w.got = PagesOf(who, w) /\ InHand(w) \in SUBSET Listings
        /\ Got(l, Good(l)) = InHand(w)
    BY <1>1, <1>3, BatchInHand
  <2> QED BY <1>3, <2>1, RecordsAre
<1>6. /\ next \in Nat /\ MaxPages \in Nat
      /\ \A q \in Nat \ {0} : YetToRead(who, w, q) => q >= next \/ q > MaxPages
      /\ ~(next > MaxPages) => next \in 1..MaxPages
  BY <1>1, <1>2, <1>5, NextBatch
<1>7. who \in Sites /\ seen \in SUBSET Listings /\ kept' \in SUBSET Listings /\ seen' = {}
  BY <1>3, <1>5, OfLane
<1>8. /\ Sound(who, v, Rec, seen', kept')
      /\ Accountable(who, v) => \A q \in Nat \ {0} : YetToRead(who, w, q) => YetToRead(who, v, q)
  <2>1. CASE v = Going(next) /\ ~(next > MaxPages)
    <3>1. /\ Sound(who, Going(next), Rec, seen', kept')
          /\ \A q \in Nat \ {0} : YetToRead(who, Going(next), q) <=> next <= q
      BY <1>3, <1>6, <1>7, <2>1, BeginsPage
    <3> QED BY <1>6, <2>1, <3>1
  <2>2. CASE v = Ended("completed_iteration") /\ next > MaxPages
    <3>1. "completed_iteration" \in WhyEnded
      BY DEF WhyEnded
    <3>2. /\ Sound(who, v, Rec, seen', kept') /\ ~Reading(who, v) /\ v.reason = "completed_iteration"
      BY <1>3, <1>7, <2>2, <3>1, GivenUp, NewWalks
    <3>3. \A q \in Nat \ {0} : YetToRead(who, v, q) <=> q > MaxPages
      BY <3>2 DEF YetToRead
    <3> QED BY <1>6, <2>2, <3>2, <3>3
  <2>3. CASE v \in {Ended("errors"), Ended("empty_page")}
    <3>1. {"errors", "empty_page"} \subseteq WhyEnded
      BY DEF WhyEnded
    <3>2. Sound(who, v, Rec, seen', kept') /\ ~Accountable(who, v)
      BY <1>3, <1>7, <2>3, <3>1, GivenUp
    <3> QED BY <3>2
  <2> QED BY <1>4, <2>1, <2>2, <2>3
<1>9. FewUnwritten'
  BY <1>3 DEF FewUnwritten
<1>10. Accountable(who, v) =>
         Cardinality(Missing(who, v, list[l], stood[l] \cap Rec, seen' \cup kept')) <= Cost(who, gone[l], come[l], lost')
  BY <1>1, <1>3, <1>5, <1>8, TakenIn
<1> QED BY <1>3, <1>4, <1>7, <1>8, <1>9, <1>10, LaneStep

\* A batch whose write fails keeps it.
LEMMA BatchFailsStep ==
  ASSUME WalkInv, NEW l \in Lanes, BatchFails(l)
  PROVE  WalkInv'
PROOF
<1>1. /\ who = "kudago" /\ Asked(l) /\ ~OneByOne(who)
      /\ UNCHANGED <<now, who, list, stood, gone, come, seen, lost>>
      /\ walk' = [walk EXCEPT ![l] = Ended("failed")]
  BY DEF BatchFails, OneByOne
<1>2. PICK n \in Good(l) : kept' = kept \cup Records(Got(l, {p \in Good(l) : p < n}))
  BY DEF BatchFails
<1>3. Got(l, {p \in Good(l) : p < n}) \subseteq InHand(walk[l]) /\ InHand(walk[l]) \in SUBSET Listings
  BY <1>1, BatchInHand DEF Got, InHand
<1>4. kept' \in SUBSET Listings /\ kept \subseteq kept'
  BY <1>2, <1>3, OfLane DEF Records
<1>5. FewUnwritten'
  BY <1>1 DEF FewUnwritten
<1>6. "failed" \in WhyEnded \ {"exhausted", "completed_iteration"}
  BY DEF WhyEnded
<1> QED BY <1>1, <1>4, <1>5, <1>6, OfLane, EndsUnaccounted

\* A batch of Timepad keeps it.
LEMMA GatherBatchStep ==
  ASSUME WalkInv, NEW l \in Lanes, GatherBatch(l)
  PROVE  WalkInv'
PROOF
<1>1. PICK w \in Walks : w = walk[l]
  BY OfLane
<1>2. PICK next : next = w.page + Width[who]
  OBVIOUS
<1>3. /\ who = "timepad" /\ Asked(l) /\ ~OneByOne(who)
      /\ UNCHANGED <<now, who, list, stood, gone, come, kept, lost>>
      /\ seen' = seen \cup Got(l, Good(l))
  BY DEF GatherBatch, record, OneByOne
<1>4. /\ Reading(who, w) /\ w.at = "ask" /\ DOMAIN w.got = PagesOf(who, w) /\ InHand(w) \in SUBSET Listings
      /\ Good(l) = {p \in DOMAIN w.got : w.got[p] # Lost}
      /\ seen' = seen \cup InHand(w)
  BY <1>1, <1>3, BatchInHand
<1>5. /\ next \in Nat /\ MaxPages \in Nat
      /\ \A q \in Nat \ {0} : YetToRead(who, w, q) => ~AtTheEnd(who, w) /\ (q >= next \/ q > MaxPages)
      /\ ~(next > MaxPages) => next \in 1..MaxPages
  BY <1>1, <1>2, <1>4, NextBatch
<1>6. who \in Sites /\ seen' \in SUBSET Listings /\ kept' = {} /\ kept = {}
  <2>1. kept = {}
    BY <1>1, <1>3, <1>4, OfLane DEF Sound
  <2> QED BY <1>3, <1>4, <2>1, OfLane
<1>7. PICK short \in BOOLEAN : short <=> \E p \in Good(l) : Cardinality(w.got[p].items) < PageSize
  OBVIOUS
<1>8. PICK why : why = IF short THEN "exhausted" ELSE "max_pages"
  OBVIOUS
<1>9. PICK v : /\ walk' = [walk EXCEPT ![l] = v]
               /\ \/ /\ short \/ next > MaxPages
                     /\ v = [Going(1) EXCEPT !.at = "write", !.fresh = Records(seen'), !.reason = why]
                  \/ ~(next > MaxPages) /\ v = Going(next)
  BY <1>1, <1>2, <1>7, <1>8 DEF GatherBatch
<1>10. /\ Sound(who, v, Rec, seen', kept')
       /\ Accountable(who, v) => \A q \in Nat \ {0} : YetToRead(who, w, q) => YetToRead(who, v, q)
  <2>1. CASE ~(next > MaxPages) /\ v = Going(next)
    <3>1. /\ Sound(who, Going(next), Rec, seen', kept')
          /\ \A q \in Nat \ {0} : YetToRead(who, Going(next), q) <=> next <= q
      BY <1>5, <1>6, <2>1, BeginsPage
    <3> QED BY <1>5, <2>1, <3>1
  <2>2. CASE v = [Going(1) EXCEPT !.at = "write", !.fresh = Records(seen'), !.reason = why]
    <3>1. why \in WhyEnded /\ why # "completed_iteration"
      BY <1>8 DEF WhyEnded
    <3>2. Records(seen') = seen' \cap Rec
      BY <1>6, RecordsAre
    <3>3. PICK u : u = Going(1)
      OBVIOUS
    <3>4. u \in Walks /\ DOMAIN u.got = {}
      BY <3>3, NewWalks
    <3>5. /\ v \in Walks /\ v.at = "write" /\ DOMAIN v.got = {} /\ v.fresh = seen' \cap Rec /\ v.reason = why
      BY <1>6, <2>2, <3>1, <3>2, <3>3, <3>4 DEF Walks
    <3>6. ~Reading(who, v)
      BY <1>3, <3>5 DEF Reading
    <3>7. InOrder(who, v)
      BY <1>6, <3>5, <3>6 DEF InOrder
    <3>8. Sound(who, v, Rec, seen', kept')
      BY <1>3, <1>6, <3>5, <3>6, <3>7 DEF Sound
    <3>9. ASSUME Accountable(who, v), NEW q \in Nat \ {0}, YetToRead(who, w, q)
          PROVE  YetToRead(who, v, q)
      <4>1. short
        BY <1>8, <3>1, <3>5, <3>6, <3>9 DEF Accountable
      <4>2. PICK p \in DOMAIN w.got : w.got[p] # Lost /\ Cardinality(w.got[p].items) < PageSize
        BY <1>4, <1>7, <4>1
      <4>3. AtTheEnd(who, w)
        BY <1>3, <4>2 DEF AtTheEnd, TellsTheEnd
      <4> QED BY <1>5, <3>9, <4>3
    <3> QED BY <3>8, <3>9
  <2> QED BY <1>9, <2>1, <2>2
<1>11. FewUnwritten'
  BY <1>3 DEF FewUnwritten
<1>12. Accountable(who, v) =>
         Cardinality(Missing(who, v, list[l], stood[l] \cap Rec, seen' \cup kept')) <= Cost(who, gone[l], come[l], lost')
  BY <1>1, <1>3, <1>4, <1>10, TakenIn
<1> QED BY <1>3, <1>6, <1>9, <1>10, <1>11, <1>12, <1>4, LaneStep

\* The sweep that is stored keeps it.
LEMMA StoreSweepStep ==
  ASSUME WalkInv, NEW l \in Lanes, StoreSweep(l)
  PROVE  WalkInv'
PROOF
<1>1. PICK w \in Walks : w = walk[l]
  BY OfLane
<1>2. /\ who = "timepad" /\ w.at = "write" /\ ~OneByOne(who)
      /\ UNCHANGED <<now, who, list, stood, gone, come, seen, lost>>
  BY <1>1 DEF StoreSweep, OneByOne
<1>3. /\ InOrder(who, w) /\ ~Reading(who, w) /\ kept = {} /\ w.fresh = seen \cap Rec
      /\ DOMAIN w.got = {} /\ who \in Sites /\ w.reason \in WhyEnded
      /\ seen \in SUBSET Listings /\ w.fresh \in SUBSET Listings
  BY <1>1, <1>2, OfLane, BookFacts DEF Sound, Reading
<1>4. FewUnwritten'
  BY <1>2 DEF FewUnwritten
<1>5. CASE kept' = w.fresh /\ walk' = [walk EXCEPT ![l] = Ended(w.reason)]
  <2>1. PICK v : v = Ended(w.reason)
    OBVIOUS
  <2>2. /\ Sound(who, v, Rec, seen', kept') /\ ~Reading(who, v) /\ v.reason = w.reason
    BY <1>2, <1>3, <1>5, <2>1, GivenUp, NewWalks
  <2>3. (Accountable(who, v) <=> Accountable(who, w)) /\ \A q \in Nat \ {0} : YetToRead(who, w, q) => YetToRead(who, v, q)
    BY <1>3, <2>2 DEF Accountable, YetToRead
  <2>4. ASSUME Accountable(who, v)
        PROVE  Cardinality(Missing(who, v, list[l], stood[l] \cap Rec, seen' \cup kept')) <= Cost(who, gone[l], come[l], lost')
    <3>1. PICK L, T, H, G, c : /\ L = list[l] /\ T = stood[l] \cap Rec /\ H = seen \cup kept /\ G = seen' \cup kept'
                               /\ c = Cost(who, gone[l], come[l], lost)
      OBVIOUS
    <3>2. List(L) /\ T \in SUBSET L /\ Cardinality(Missing(who, w, L, T, H)) <= c /\ c \in Nat
      BY <1>1, <2>3, <2>4, <3>1, OfLane
    <3>3. H \cap T \subseteq G \cup InHand(v) /\ InHand(w) \cap T \subseteq G \cup InHand(v)
      <4>1. InHand(w) = {}
        BY <1>3 DEF InHand
      <4> QED BY <1>2, <1>3, <3>1, <4>1
    <3>4. PICK M, S : M = Missing(who, w, L, T, H) /\ S = Missing(who, v, L, T, G)
      OBVIOUS
    <3>5. S \in SUBSET M
      BY <2>3, <3>2, <3>3, <3>4, WalksOn
    <3>6. IsFiniteSet(M)
      BY <3>2, <3>4, MissingFinite
    <3>7. Cardinality(S) <= c
      BY <3>2, <3>4, <3>5, <3>6, FewerStill
    <3> QED BY <1>2, <3>1, <3>4, <3>7
  <2> QED BY <1>2, <1>3, <1>4, <1>5, <2>1, <2>2, <2>4, LaneStep
<1>6. CASE kept' = kept /\ walk' = [walk EXCEPT ![l] = Ended("failed")]
  <2>1. "failed" \in WhyEnded \ {"exhausted", "completed_iteration"}
    BY DEF WhyEnded
  <2> QED BY <1>2, <1>4, <1>6, <2>1, OfLane, EndsUnaccounted
<1> QED BY <1>1, <1>5, <1>6 DEF StoreSweep

-----------------------------------------------------------------------------
(* The steps of the site, and the whole walk.                              *)

\* What stands still when the list changes.
LEMMA ListStep ==
  ASSUME WalkInv, UNCHANGED crawl, UNCHANGED lost,
         NEW r \in Lanes, NEW L \in SUBSET Listings, NEW T \in SUBSET L, NEW g \in Nat, NEW c \in Nat,
         list' = [list EXCEPT ![r] = L], stood' = [stood EXCEPT ![r] = T],
         gone' = [gone EXCEPT ![r] = g], come' = [come EXCEPT ![r] = c],
         Accountable(who, walk[r]) =>
           Cardinality(Missing(who, walk[r], L, T \cap Rec, seen \cup kept)) <= Cost(who, g, c, lost)
  PROVE  WalkInv'
PROOF
<1>1. WalkTypes /\ StoodListed /\ BooksSound /\ FewOverlooked /\ FewUnwritten
  BY DEF WalkInv
<1>2. UNCHANGED <<now, who, walk, seen, kept, lost>>
  BY DEF crawl
<1>3. Rec' = Rec /\ Lanes' = Lanes /\ Lanes \subseteq Rubrics /\ Pending' = Pending
  BY <1>2, DatesStay, CrawlAssumption DEF Rec, Lanes, Pending
<1>4. WalkTypes'
  <2>1. /\ list' \in [Rubrics -> SUBSET Listings] /\ stood' \in [Rubrics -> SUBSET Listings]
        /\ gone' \in [Rubrics -> Nat] /\ come' \in [Rubrics -> Nat]
    BY <1>1, <1>3 DEF WalkTypes
  <2> QED BY <1>1, <1>2, <2>1 DEF WalkTypes
<1>5. /\ list'[r] = L /\ stood'[r] = T /\ gone'[r] = g /\ come'[r] = c
      /\ \A m \in Rubrics \ {r} : list'[m] = list[m] /\ stood'[m] = stood[m] /\ gone'[m] = gone[m] /\ come'[m] = come[m]
  BY <1>1, <1>3 DEF WalkTypes
<1>6. StoodListed'
  BY <1>1, <1>5 DEF StoodListed
<1>7. BooksSound'
  BY <1>1, <1>2, <1>3 DEF BooksSound
<1>8. FewUnwritten'
  BY <1>1, <1>2, <1>3 DEF FewUnwritten
<1>9. FewOverlooked'
  <2>1. SUFFICES ASSUME NEW m \in Lanes, Accountable(who, walk'[m])
                 PROVE  Cardinality(Overlooked(m)') <= Allowed(m)'
    BY <1>2, <1>3 DEF FewOverlooked
  <2>2. CASE m = r
    <3>1. Overlooked(r)' = Missing(who, walk[r], L, T \cap Rec, seen \cup kept)
      BY <1>2, <1>3, <1>5 DEF Overlooked
    <3>2. Allowed(r)' = Cost(who, g, c, lost)
      BY <1>2, <1>5 DEF Allowed
    <3> QED BY <1>2, <2>1, <2>2, <3>1, <3>2
  <2>3. CASE m # r
    <3>1. /\ walk'[m] = walk[m] /\ list'[m] = list[m] /\ stood'[m] = stood[m]
          /\ gone'[m] = gone[m] /\ come'[m] = come[m] /\ Accountable(who, walk[m])
      BY <1>2, <1>3, <1>5, <2>1, <2>3
    <3> QED BY <1>1, <1>2, <3>1, OthersNoMore
  <2> QED BY <2>2, <2>3
<1> QED BY <1>4, <1>6, <1>7, <1>8, <1>9 DEF WalkInv

\* A listing taken out keeps it.
LEMMA WithdrawStep ==
  ASSUME WalkInv, NEW r \in Lanes, NEW i \in Listings, Withdraw(r, i)
  PROVE  WalkInv'
PROOF
<1>1. PICK L, S, T, w, H, g, c, n :
        /\ L = list[r] /\ S = stood[r] \cap Rec /\ T = stood[r] \ {i} /\ w = walk[r] /\ H = seen \cup kept
        /\ g = gone[r] /\ c = come[r] /\ n = lost
  OBVIOUS
<1>2. /\ i \in L /\ UNCHANGED crawl /\ UNCHANGED lost
      /\ list' = [list EXCEPT ![r] = L \ {i}] /\ stood' = [stood EXCEPT ![r] = T]
      /\ gone' = [gone EXCEPT ![r] = g + 1] /\ come' = come
  BY <1>1 DEF Withdraw
<1>3. /\ InOrder(who, w) /\ List(L) /\ S \in SUBSET L /\ L \in SUBSET Listings /\ who \in Sites /\ r \in Rubrics
      /\ g \in Nat /\ c \in Nat /\ n \in Nat
      /\ Accountable(who, w) => Cardinality(Missing(who, w, L, S, H)) <= Cost(who, g, c, n)
      /\ Cost(who, g, c, n) \in Nat
  BY <1>1, OfLane
<1>4. L \ {i} \in SUBSET Listings /\ T \in SUBSET (L \ {i}) /\ come' = [come EXCEPT ![r] = c]
  <2>1. stood[r] \in SUBSET L /\ come \in [Rubrics -> Nat]
    BY <1>1, <1>3, OfLane DEF StoodListed, WalkTypes
  <2> QED BY <1>1, <1>2, <1>3, <2>1
<1>5. ASSUME Accountable(who, w)
      PROVE  Cardinality(Missing(who, w, L \ {i}, T \cap Rec, H)) <= Cost(who, g + 1, c, n)
  <2>1. T \cap Rec \in SUBSET (L \ {i}) /\ T \cap Rec \in SUBSET S /\ T \cap Rec \in SUBSET L
    BY <1>1, <1>4
  <2>2. PICK A, B, C : /\ A = Missing(who, w, L \ {i}, T \cap Rec, H) /\ B = Missing(who, w, L, T \cap Rec, H)
                       /\ C = Missing(who, w, L, S, H)
    OBVIOUS
  <2>3. Cardinality(A) <= Cardinality(B) + Width[who]
    BY <1>2, <1>3, <2>1, <2>2, TakenOut
  <2>4. B \in SUBSET C
    BY <2>1, <2>2 DEF Missing
  <2>5. Cardinality(B) \in Nat /\ Cardinality(C) \in Nat /\ Cardinality(B) <= Cardinality(C)
    BY <1>3, <2>2, <2>4, MissingFinite, Fewer
  <2>6. Cardinality(A) \in Nat
    <3>1. List(L \ {i})
      BY <1>3, FS_RemoveElement DEF List
    <3> QED BY <2>1, <2>2, <3>1, MissingFinite
  <2>7. Cost(who, g + 1, c, n) = Cost(who, g, c, n) + Width[who] /\ Width[who] \in Nat
    BY <1>3, CostOfGone, Widths
  <2>8. Cardinality(C) <= Cost(who, g, c, n)
    BY <1>3, <1>5, <2>2
  <2>9. Cardinality(A) <= Cost(who, g + 1, c, n)
    BY <1>3, <2>3, <2>5, <2>6, <2>7, <2>8
  <2> QED BY <2>2, <2>9
<1>6. g + 1 \in Nat
  BY <1>3
<1> QED BY <1>1, <1>2, <1>3, <1>4, <1>5, <1>6, ListStep

\* A listing put in keeps it.
LEMMA PublishStep ==
  ASSUME WalkInv, NEW r \in Lanes, NEW i \in Listings, Publish(r, i)
  PROVE  WalkInv'
PROOF
<1>1. PICK L, S, w, H, g, c, n :
        /\ L = list[r] /\ S = stood[r] \cap Rec /\ w = walk[r] /\ H = seen \cup kept
        /\ g = gone[r] /\ c = come[r] /\ n = lost
  OBVIOUS
<1>2. /\ UNCHANGED crawl /\ UNCHANGED lost /\ stood' = stood /\ gone' = gone
      /\ list' = [list EXCEPT ![r] = L \cup {i}] /\ come' = [come EXCEPT ![r] = c + 1]
  BY <1>1 DEF Publish
<1>3. /\ InOrder(who, w) /\ List(L) /\ S \in SUBSET L /\ L \in SUBSET Listings /\ who \in Sites /\ r \in Rubrics
      /\ g \in Nat /\ c \in Nat /\ n \in Nat
      /\ Accountable(who, w) => Cardinality(Missing(who, w, L, S, H)) <= Cost(who, g, c, n)
      /\ Cost(who, g, c, n) \in Nat
  BY <1>1, OfLane
<1>4. PICK T : T = stood[r]
  OBVIOUS
<1>5. /\ L \cup {i} \in SUBSET Listings /\ T \in SUBSET (L \cup {i}) /\ i \in Nat
      /\ stood' = [stood EXCEPT ![r] = T] /\ gone' = [gone EXCEPT ![r] = g]
  <2>1. stood[r] \in SUBSET L /\ stood \in [Rubrics -> SUBSET Listings] /\ gone \in [Rubrics -> Nat]
    BY <1>1, <1>3, OfLane DEF StoodListed, WalkTypes
  <2> QED BY <1>1, <1>2, <1>3, <1>4, <2>1, CrawlAssumption
<1>6. ASSUME Accountable(who, w)
      PROVE  Cardinality(Missing(who, w, L \cup {i}, T \cap Rec, H)) <= Cost(who, g, c + 1, n)
  <2>1. T \cap Rec = S
    BY <1>1, <1>4
  <2>2. PICK A, B : A = Missing(who, w, L \cup {i}, S, H) /\ B = Missing(who, w, L, S, H)
    OBVIOUS
  <2>3. Cardinality(A) <= Cardinality(B) + (Width[who] - 1)
    BY <1>3, <1>5, <2>2, PutIn
  <2>4. Cardinality(B) \in Nat
    BY <1>3, <2>2, MissingFinite
  <2>5. Cardinality(A) \in Nat
    <3>1. List(L \cup {i}) /\ S \in SUBSET (L \cup {i})
      BY <1>3, <1>5, FS_AddElement DEF List
    <3> QED BY <2>2, <3>1, MissingFinite
  <2>6. Cost(who, g, c + 1, n) = Cost(who, g, c, n) + (Width[who] - 1) /\ Width[who] \in Nat
    BY <1>3, CostOfCome, Widths
  <2>7. Cardinality(B) <= Cost(who, g, c, n)
    BY <1>3, <1>6, <2>2
  <2>8. Cardinality(A) <= Cost(who, g, c + 1, n)
    BY <1>3, <2>3, <2>4, <2>5, <2>6, <2>7
  <2> QED BY <2>1, <2>2, <2>8
<1>7. c + 1 \in Nat
  BY <1>3
<1> QED BY <1>1, <1>2, <1>3, <1>4, <1>5, <1>6, <1>7, ListStep

\* It holds when a walk begins.
LEMMA WalkBegins == CrawlInit => WalkInv
PROOF
<1> SUFFICES ASSUME CrawlInit
             PROVE  WalkInv
  OBVIOUS
<1>1. /\ now \in Clocks /\ who \in Sites /\ list = Listed[who] /\ stood = Listed[who]
      /\ walk = [l \in Rubrics |-> IF l \in Lanes THEN Going(1) ELSE Ended(None)]
      /\ seen = {} /\ kept = {} /\ gone = [r \in Rubrics |-> 0] /\ come = [r \in Rubrics |-> 0] /\ lost = 0
  BY DEF CrawlInit
<1>2. list \in [Rubrics -> SUBSET Listings] /\ Lanes \subseteq Rubrics
  BY <1>1, CrawlAssumption DEF Lanes
<1>3. MaxPages \in Nat /\ MaxPages >= 1 /\ PageSize \in Nat
  BY <1>1, Widths
<1>4. PICK g, e : g = Going(1) /\ e = Ended(None)
  OBVIOUS
<1>5. g \in Walks /\ e \in Walks /\ g.fresh = {}
  <2>1. None \in WhyEnded
    BY DEF None, WhyEnded
  <2> QED BY <1>4, <2>1, NewWalks
<1>6. walk \in [Rubrics -> Walks] /\ \A l \in Lanes : walk[l] = g
  BY <1>1, <1>2, <1>4, <1>5
<1>7. WalkTypes
  BY <1>1, <1>2, <1>6 DEF WalkTypes
<1>8. StoodListed
  BY <1>1 DEF StoodListed
<1>9. /\ Sound(who, g, Rec, seen, kept) /\ Reading(who, g)
      /\ \A q \in Nat \ {0} : YetToRead(who, g, q)
  <2>1. 1 \in 1..MaxPages
    BY <1>3
  <2>2. /\ Sound(who, Going(1), Rec, seen, kept) /\ Reading(who, Going(1))
        /\ \A q \in Nat \ {0} : YetToRead(who, Going(1), q) <=> 1 <= q
    BY <1>1, <2>1, BeginsPage
  <2> QED BY <1>4, <2>2
<1>10. BooksSound
  BY <1>6, <1>9 DEF BooksSound
<1>11. FewOverlooked
  <2>1. SUFFICES ASSUME NEW l \in Lanes
                 PROVE  Cardinality(Overlooked(l)) <= Allowed(l)
    BY DEF FewOverlooked
  <2>2. /\ l \in Rubrics /\ List(list[l]) /\ stood[l] \cap Rec \in SUBSET list[l]
        /\ gone[l] \in Nat /\ come[l] \in Nat
    BY <1>7, <1>8, LaneFacts
  <2>3. \A i \in stood[l] \cap Rec : YetToRead(who, g, PageAt(Place(list[l], i)))
    <3>1. \A i \in list[l] : PageAt(Place(list[l], i)) \in Nat \ {0}
      BY <2>2, PlaceNat, Pages
    <3> QED BY <1>9, <2>2, <3>1
  <2>4. Overlooked(l) = {}
    BY <1>6, <2>3 DEF Overlooked, Missing
  <2>5. Allowed(l) \in Nat
    BY <1>1, <2>2, CostIs DEF Allowed
  <2>6. Cardinality(Overlooked(l)) = 0
    BY <2>4, FS_EmptySet
  <2> QED BY <2>5, <2>6
<1>12. FewUnwritten
  <2>1. seen \ (kept \cup Pending) = {}
    BY <1>1
  <2>2. PageSize * lost = 0
    BY <1>1, <1>3
  <2> QED BY <2>1, <2>2, FS_EmptySet DEF FewUnwritten
<1> QED BY <1>7, <1>8, <1>10, <1>11, <1>12 DEF WalkInv

\* And while nothing moves.
LEMMA WalkStands ==
  ASSUME WalkInv, UNCHANGED crawlVars
  PROVE  WalkInv'
PROOF
<1>1. UNCHANGED <<now, who, walk, seen, kept, list, stood, gone, come, lost>>
  BY DEF crawlVars, crawl, record
<1>2. Rec' = Rec /\ Lanes' = Lanes /\ Pending' = Pending
  BY <1>1, DatesStay DEF Rec, Lanes, Pending
<1>3. WalkTypes' /\ StoodListed'
  BY <1>1 DEF WalkInv, WalkTypes, StoodListed
<1>4. BooksSound'
  BY <1>1, <1>2 DEF WalkInv, BooksSound
<1>5. FewUnwritten'
  BY <1>1, <1>2 DEF WalkInv, FewUnwritten
<1>6. FewOverlooked'
  <2>1. \A l \in Lanes : Overlooked(l)' = Overlooked(l) /\ Allowed(l)' = Allowed(l)
    BY <1>1, <1>2 DEF Overlooked, Allowed
  <2> QED BY <1>1, <1>2, <2>1 DEF WalkInv, FewOverlooked
<1> QED BY <1>3, <1>4, <1>5, <1>6 DEF WalkInv

\* And after every step.
LEMMA WalkStep ==
  ASSUME WalkInv, [CrawlNext]_crawlVars
  PROVE  WalkInv'
PROOF
<1>1. CASE \E l \in Lanes : Walk(l)
  <2>1. PICK l \in Lanes : Walk(l)
    BY <1>1
  <2>2. CASE \E p \in 1..MaxPages : FetchPage(l, p) \/ FetchFails(l, p)
    BY <2>2, FetchPageStep, FetchFailsStep
  <2>3. CASE TakePage(l)
    BY <2>3, TakePageStep
  <2>4. CASE WritePage(l)
    BY <2>4, WritePageStep
  <2>5. CASE WriteFails(l)
    BY <2>5, WriteFailsStep
  <2>6. CASE TakeBatch(l)
    BY <2>6, TakeBatchStep
  <2>7. CASE BatchFails(l)
    BY <2>7, BatchFailsStep
  <2>8. CASE GatherBatch(l)
    BY <2>8, GatherBatchStep
  <2>9. CASE StoreSweep(l)
    BY <2>9, StoreSweepStep
  <2> QED BY <2>1, <2>2, <2>3, <2>4, <2>5, <2>6, <2>7, <2>8, <2>9 DEF Walk
<1>2. CASE NoCategories
  BY <1>2, NoCategoriesStep
<1>3. CASE \E r \in Lanes, i \in Listings : Withdraw(r, i) \/ Publish(r, i)
  BY <1>3, WithdrawStep, PublishStep
<1>4. CASE UNCHANGED crawlVars
  BY <1>4, WalkStands
<1> QED BY <1>1, <1>2, <1>3, <1>4 DEF CrawlNext

\* The inductive invariant of a walk: of what a lane has listed all the time, what lies on
\* pages read already and is neither seen, stored nor in hand is bounded by what was taken
\* out, put in and lost (yandex_afisha_connector.py, afisha_ru_connector.py, fetch.py).
THEOREM WalkInvariance == CrawlSpec => []WalkInv
BY WalkBegins, WalkStep, PTL DEF CrawlSpec

\* When every lane has ended, what is missed was overlooked, or lost on its way to the store.
LEMMA LittleWasMissed == WalkInv => LittleMissed
PROOF
<1> SUFFICES ASSUME WalkInv, \A l \in Lanes : Over(l), NEW l \in Lanes, Through(l)
             PROVE  Cardinality(Missed(l)) <= Width[who] * gone[l] + (Width[who] - 1) * come[l] + PageSize * lost
  BY DEF LittleMissed
<1>1. PICK L, T, w, O, U, c :
        /\ L = list[l] /\ T = stood[l] \cap Rec /\ w = walk[l] /\ O = Missing(who, w, L, T, seen \cup kept)
        /\ U = (IF OneByOne(who) THEN seen \ (kept \cup Pending) ELSE {})
        /\ c = Cost(who, gone[l], come[l], lost)
  OBVIOUS
<1>2. /\ w.at = "end" /\ w.reason \in {"exhausted", "completed_iteration"} /\ ~Reading(who, w)
      /\ Accountable(who, w)
  BY <1>1 DEF Through, Over, Reading, Accountable
<1>3. /\ List(L) /\ T \in SUBSET L /\ who \in Sites /\ gone[l] \in Nat /\ come[l] \in Nat /\ lost \in Nat
      /\ Sound(who, w, Rec, seen, kept) /\ stood[l] \in SUBSET Listings
      /\ seen \in SUBSET Listings /\ (who = "kudago" => seen = {})
      /\ Cardinality(O) <= c /\ c \in Nat
  BY <1>1, <1>2, OfLane DEF WalkTypes
<1>4. /\ Width[who] \in Nat /\ PageSize \in Nat /\ MaxPages \in Nat
      /\ who \in {"yandex", "afisha", "kudago", "timepad"}
  BY <1>3, Widths, CrawlAssumption
<1>5. Cardinality(L) <= MaxPages * PageSize
  <2>1. Cardinality(L) + gone[l] <= MaxPages * PageSize
    BY <1>1 DEF Through
  <2>2. Cardinality(L) \in Nat /\ MaxPages * PageSize \in Nat
    <3>1. Cardinality(L) \in Nat
      BY <1>3, FS_CardinalityType DEF List
    <3> QED BY <1>4, <3>1
  <2> QED BY <1>3, <2>1, <2>2
<1>6. \A i \in T : ~YetToRead(who, w, PageAt(Place(L, i)))
  <2>1. SUFFICES ASSUME NEW i \in T
                 PROVE  PageAt(Place(L, i)) <= MaxPages /\ PageAt(Place(L, i)) \in Nat
    BY <1>2, <1>4 DEF YetToRead
  <2>2. PICK n \in Nat \ {0} : n = Place(L, i)
    BY <1>3, PlaceNat
  <2>3. n <= Cardinality(L) /\ Cardinality(L) \in Nat /\ MaxPages * PageSize \in Nat
    <3>1. n <= Cardinality(L) /\ Cardinality(L) \in Nat
      BY <1>3, <2>2, PlaceIs DEF List
    <3> QED BY <1>4, <3>1
  <2>4. n <= MaxPages * PageSize
    BY <1>5, <2>3
  <2> QED BY <1>4, <2>2, <2>4, PageWithin, Pages
<1>7. Missed(l) = T \ kept
  BY <1>1, <1>3, RecordsAre DEF Missed
<1>8. Pending = {}
  <2>1. \A m \in Lanes : walk[m].at = "end" /\ walk[m].fresh = {}
    BY OfLane DEF Over, Sound
  <2> QED BY <2>1 DEF Pending
<1>9. Missed(l) \subseteq O \cup U
  <2>1. SUFFICES ASSUME NEW i \in T, i \notin kept, i \notin O
                 PROVE  i \in U
    BY <1>7
  <2>2. InHand(w) = {}
    BY <1>2, <1>3 DEF Sound, InHand
  <2>3. i \in seen
    BY <1>1, <1>6, <2>1, <2>2 DEF Missing
  <2>4. CASE OneByOne(who)
    BY <1>1, <1>8, <2>1, <2>3, <2>4
  <2>5. CASE ~OneByOne(who)
    <3>1. who = "timepad"
      BY <1>3, <1>4, <2>3, <2>5 DEF OneByOne
    <3>2. seen \cap Rec \subseteq kept
      BY <1>2, <1>3, <3>1 DEF Sound
    <3> QED BY <1>1, <2>1, <2>3, <3>2
  <2> QED BY <2>4, <2>5
<1>10. PICK z \in Nat : z = PageSize * lost
  BY <1>3, <1>4, Products
<1>11. /\ IsFiniteSet(U) /\ Cardinality(U) \in Nat
       /\ Cardinality(U) <= (IF OneByOne(who) THEN z ELSE 0)
  <2>1. U \in SUBSET Listings /\ IsFiniteSet(Listings)
    BY <1>1, <1>3, CrawlAssumption
  <2>2. IsFiniteSet(U) /\ Cardinality(U) \in Nat
    BY <2>1, Fewer
  <2>3. CASE OneByOne(who)
    <3>1. Cardinality(seen \ (kept \cup Pending)) <= z
      BY <1>10, <2>3, OfLane DEF FewUnwritten
    <3> QED BY <1>1, <2>2, <2>3, <3>1
  <2>4. CASE ~OneByOne(who)
    BY <1>1, <2>2, <2>4, FS_EmptySet
  <2> QED BY <2>2, <2>3, <2>4
<1>12. IsFiniteSet(O) /\ Cardinality(O) \in Nat
  BY <1>1, <1>3, MissingFinite
<1>13. /\ IsFiniteSet(O \cup U) /\ Cardinality(O \cup U) \in Nat
       /\ Cardinality(O \cup U) <= Cardinality(O) + Cardinality(U)
  BY <1>11, <1>12, TwoParts
<1>14. Cardinality(Missed(l)) \in Nat /\ Cardinality(Missed(l)) <= Cardinality(O \cup U)
  BY <1>9, <1>13, Fewer
<1>15. c + (IF OneByOne(who) THEN z ELSE 0)
         = Width[who] * gone[l] + (Width[who] - 1) * come[l] + PageSize * lost
  <2>1. Cost(who, gone[l], come[l], lost) + (IF OneByOne(who) THEN HeldBy(lost) ELSE 0) = Due(who, gone[l], come[l], lost)
    BY <1>3, CostIs
  <2>2. Due(who, gone[l], come[l], lost) = Width[who] * gone[l] + (Width[who] - 1) * come[l] + PageSize * lost
    BY DEF Due
  <2>3. HeldBy(lost) = z
    BY <1>10 DEF HeldBy
  <2> QED BY <1>1, <2>1, <2>2, <2>3
<1>16. Cardinality(Missed(l)) <= c + (IF OneByOne(who) THEN z ELSE 0)
  BY <1>3, <1>10, <1>11, <1>12, <1>13, <1>14
<1> QED BY <1>15, <1>16

\* A walk to the end of a list that changes misses one listing at most for each that was
\* taken out, and in a batch one for each of its pages and each change, and the lost pages
\* (connectors/web, fetch.py): the pages of a batch are answered in any order.
THEOREM LittleIsMissed == CrawlSpec => []LittleMissed
BY WalkInvariance, LittleWasMissed, PTL

\* Whatever the hour a walk begins at, and at every moment of it, the dates that reach the
\* pipeline are honest (connectors/web, pipeline/normalizer/rules.py): none is made up; but for KudaGo's none
\* was over before today; the next session is among them, but for that of a listing of
\* afisha.ru that is neither the first nor the last one, and that of KudaGo when Cap are over.
THEOREM DatesAreHonest == CrawlSpec => [](DatesHonest /\ \A e \in Tales : Honest(e))
PROOF
<1>1. WalkInv => \A e \in Tales : Honest(e)
  BY EveryTaleHonest DEF WalkInv, WalkTypes
<1>2. (\A e \in Tales : Honest(e)) => DatesHonest
  BY DEF DatesHonest
<1> QED BY <1>1, <1>2, WalkInvariance, PTL
=============================================================================
