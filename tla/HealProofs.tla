----------------------------- MODULE HealProofs -----------------------------
(***************************************************************************)
(* What holds of the catalogue for any number of events, raws, venues and  *)
(* merges: no session is lost that the code does not mean to lose.         *)
(***************************************************************************)
EXTENDS Heal, FiniteSetTheorems, WellFoundedInduction, TLAPS

-----------------------------------------------------------------------------
(* Choosing the heaviest.                                                  *)

LEMMA Least ==
  ASSUME NEW S \in SUBSET Nat, S # {}
  PROVE  \E x \in S : \A y \in S : x <= y
<1>1. PICK x \in S : \A y \in S : <<y, x>> \notin OpToRel(<, Nat)
  BY WFMin, NatLessThanWellFounded, Zenon
<1>2. \A y \in S : ~(y < x)
  BY <1>1 DEF OpToRel
<1>3. QED
  BY <1>2

LEMMA Heaviest ==
  ASSUME NEW S \in SUBSET Nat, S # {}, NEW weight \in [S -> Nat],
         NEW B \in Nat, \A v \in S : weight[v] <= B
  PROVE  \E v \in S : \A w \in S : weight[w] < weight[v] \/ (weight[w] = weight[v] /\ v <= w)
<1> DEFINE T == {B - weight[v] : v \in S}
           top(k) == {v \in S : B - weight[v] = k}
<1>1. T \in SUBSET Nat /\ T # {}
  <2>1. \A v \in S : B - weight[v] \in Nat
    OBVIOUS
  <2>2. QED
    BY <2>1
<1>2. PICK k \in T : \A l \in T : k <= l
  BY <1>1, Least
<1>3. top(k) \in SUBSET Nat /\ top(k) # {}
  BY <1>2
<1>4. PICK v \in top(k) : \A w \in top(k) : v <= w
  BY <1>3, Least
<1>5. ASSUME NEW w \in S
      PROVE  weight[w] < weight[v] \/ (weight[w] = weight[v] /\ v <= w)
  <2>1. B - weight[v] = k /\ k <= B - weight[w]
    BY <1>2, <1>4
  <2>2. CASE B - weight[w] = k
    BY <2>1, <2>2, <1>4
  <2>3. CASE B - weight[w] # k
    BY <2>1, <2>3
  <2>4. QED
    BY <2>2, <2>3
<1>6. QED
  BY <1>4, <1>5

LEMMA OccurrencesFinite == IsFiniteSet(Occurrences)
<1> DEFINE V == Venues \cup {NoVenue}
           T == Events \X (Slots \X V)
           f == [o \in Occurrences |-> <<o.e, <<o.s, o.v>>>>]
<1>1. IsFiniteSet(V)
  BY HealAssumption, FS_AddElement DEF HealAssumption
<1>2. IsFiniteSet(Slots \X V)
  BY <1>1, HealAssumption, FS_Product DEF HealAssumption
<1>3. IsFiniteSet(T)
  BY <1>2, HealAssumption, FS_Product DEF HealAssumption
<1>4. f \in Injection(Occurrences, T)
  BY DEF Injection, IsInjective, Occurrences
<1>5. QED
  BY <1>3, <1>4, FS_Injection, Zenon

\* A cluster of sessions of one place has a venue that keeps them.
LEMMA BestThere ==
  ASSUME TypeOK, NEW e \in Events, NEW o \in Rows(e), o.v # NoVenue
  PROVE  Best(e, Place[o.v]) \in Venues /\ Place[Best(e, Place[o.v])] = Place[o.v]
<1> DEFINE p == Place[o.v]
           S == {w \in VenuesOf(e) : Place[w] = p}
           weight == [v \in S |-> Cardinality(Rows(e) \cap At(v))]
           B == Cardinality(Occurrences)
<1>1. VenuesOf(e) \subseteq Venues /\ Venues \subseteq Nat
  BY HealAssumption DEF VenuesOf, Rows, TypeOK, Occurrences, HealAssumption
<1>2. S \in SUBSET Nat /\ S # {}
  BY <1>1 DEF VenuesOf, Rows
<1>3. B \in Nat
  BY OccurrencesFinite, FS_CardinalityType
<1>4. ASSUME NEW v \in S
      PROVE  Cardinality(Rows(e) \cap At(v)) \in Nat /\ Cardinality(Rows(e) \cap At(v)) <= B
  <2>1. Rows(e) \cap At(v) \in SUBSET Occurrences
    BY DEF Rows, At, TypeOK
  <2>2. QED
    BY <2>1, OccurrencesFinite, FS_Subset, FS_CardinalityType
<1>5. weight \in [S -> Nat] /\ \A v \in S : weight[v] <= B
  BY <1>4
<1>6. PICK v \in S : \A w \in S : weight[w] < weight[v] \/ (weight[w] = weight[v] /\ v <= w)
  <2> HIDE DEF weight, S, B
  <2>1. QED
    BY <1>2, <1>3, <1>5, Heaviest
<1>7. \A w \in S :
        LET n == Cardinality(Rows(e) \cap At(v))  m == Cardinality(Rows(e) \cap At(w))
        IN m < n \/ (m = n /\ v <= w)
  BY <1>6
<1>8. Best(e, p) \in S
  BY <1>7 DEF Best
<1>9. QED
  BY <1>1, <1>8

-----------------------------------------------------------------------------
(* What merges are made of.                                                *)

LEMMA VenuePairsSound ==
  ASSUME TypeOK
  PROVE  \A p \in VenuePairs : p \in Venues \X Venues /\ Place[p[1]] = Place[p[2]]
  BY DEF VenuePairs, TypeOK

LEMMA MergesSound ==
  ASSUME NEW P, UNION P \subseteq Actives
  PROVE  \A p \in Merges(P) : p \in Events \X Events /\ status[p[1]] # "none" /\ status[p[2]] # "none"
<1>1. Merges(P) \subseteq Actives \X Actives
  BY DEF Merges
<1>2. QED
  BY <1>1 DEF Actives

LEMMA PairsOfActives == UNION SafePairs \subseteq Actives /\ UNION JudgePairs \subseteq Actives
  BY DEF SafePairs, JudgePairs

\* A row of a duplicate goes to the other half of a pair of that duplicate.
LEMMA IntoPair ==
  ASSUME NEW pairs, NEW d, \E p \in pairs : p[1] = d
  PROVE  \E p \in pairs : p[1] = d /\ Into(pairs, d) = p[2]
  BY DEF Into

LEMMA IntoOther ==
  ASSUME NEW pairs, NEW d, ~\E p \in pairs : p[1] = d
  PROVE  Into(pairs, d) = d
  BY DEF Into

\* A merge of venues is the self-heal's, and moves within a place.
LEMMA VenueMerge ==
  ASSUME TypeOK, JobsSound, NEW j \in Names, jobs[j].kind = "venues", NEW v \in Venues
  PROVE  Into(jobs[j].pairs, v) \in Venues /\ Place[Into(jobs[j].pairs, v)] = Place[v]
<1>1. CASE \E p \in jobs[j].pairs : p[1] = v
  BY <1>1, IntoPair DEF JobsSound
<1>2. CASE ~\E p \in jobs[j].pairs : p[1] = v
  BY <1>2, IntoOther
<1>3. QED
  BY <1>1, <1>2

\* A merge of events moves what is on a duplicate to an event that it has locked.
LEMMA EventMerge ==
  ASSUME TypeOK, JobsSound, NEW j \in Names, jobs[j].kind # "venues"
  PROVE  /\ Dups(j) \subseteq Events /\ Dups(j) \subseteq Touches(j)
         /\ {p[2] : p \in jobs[j].pairs} \subseteq Touches(j)
         /\ \A d \in Dups(j) : /\ Into(jobs[j].pairs, d) \in Touches(j)
                               /\ Into(jobs[j].pairs, d) \in Events
<1>1. \A p \in jobs[j].pairs : p \in Events \X Events
  BY DEF JobsSound
<1>2. ASSUME NEW d \in Dups(j)
      PROVE  Into(jobs[j].pairs, d) \in Touches(j) /\ Into(jobs[j].pairs, d) \in Events
  <2>1. PICK p \in jobs[j].pairs : p[1] = d /\ Into(jobs[j].pairs, d) = p[2]
    BY IntoPair DEF Dups
  <2>2. QED
    BY <1>1, <2>1 DEF Touches
<1>3. QED
  BY <1>1, <1>2 DEF Dups, Touches

-----------------------------------------------------------------------------
(* The beginning.                                                          *)

THEOREM HealInit == Init => IInv
<1> SUFFICES ASSUME Init PROVE IInv
  OBVIOUS
<1>1. Open = {}
  BY DEF Init, Open, Idle
<1>2. TypeOK
  BY HealAssumption DEF Init, TypeOK, Statuses, Jobs, Idle, Names, HealAssumption
<1>3. WriterThere /\ Apart
  BY <1>1 DEF Init, WriterThere, Apart
<1>4. JobsSound
  BY <1>1 DEF Init, JobsSound, Idle
<1>5. Kept
  BY DEF Init, Kept, Untouched
<1>6. QED
  BY <1>2, <1>3, <1>4, <1>5 DEF IInv

-----------------------------------------------------------------------------
(* Steps that move no session.                                             *)

\* Locks that are held are held by a job that goes on unchanged.
LEMMA KeptGrows ==
  ASSUME TypeOK, Kept, link' = link, seat' = seat,
         \A r \in Raws : Untouched(r)' => Untouched(r) /\ lists'[r] = lists[r],
         occs \subseteq occs',
         \A j \in Names : jobs'[j].at = "moved" => jobs'[j] = jobs[j]
  PROVE  Kept'
<1> SUFFICES ASSUME NEW r \in Raws, Untouched(r)'
             PROVE  /\ Followed(r)'
                    /\ \A s \in Firm(r)' : \E o \in Rows(link[r])' : Stands(o, r, s)' /\ Secure(o)'
  BY DEF Kept
<1>1. Open' \subseteq Open /\ \A j \in Open' : jobs'[j] = jobs[j]
  BY DEF Open
<1>2. Untouched(r) /\ lists'[r] = lists[r]
  OBVIOUS
<1>3. Followed(r)'
  BY <1>1, <1>2 DEF Kept, Followed, Dups
<1>4. ASSUME NEW s \in Firm(r)'
      PROVE  \E o \in Rows(link[r])' : Stands(o, r, s)' /\ Secure(o)'
  <2>1. s \in Firm(r)
    BY <1>2 DEF Firm
  <2>2. PICK o \in Rows(link[r]) : Stands(o, r, s) /\ Secure(o)
    BY <1>2, <2>1 DEF Kept
  <2>3. o \in Rows(link[r])' /\ Stands(o, r, s)'
    BY <2>2 DEF Rows, Stands
  <2>4. Secure(o)'
    BY <1>1, <2>2 DEF Secure, Dups
  <2>5. QED
    BY <2>3, <2>4
<1>5. QED
  BY <1>3, <1>4

\* ... and so they are apart.
LEMMA ApartFewer ==
  ASSUME Apart, \A j \in Names : jobs'[j].at = "moved" => jobs'[j] = jobs[j]
  PROVE  Apart'
<1>1. Open' \subseteq Open /\ \A j \in Open' : jobs'[j] = jobs[j]
  BY DEF Open
<1>2. \A j \in Open' : Touches(j)' = Touches(j)
  BY <1>1 DEF Touches
<1>3. QED
  BY <1>1, <1>2 DEF Apart

\* Merges stay sound as long as rows of events are never unused again.
LEMMA SoundStill ==
  ASSUME JobsSound, jobs' = jobs,
         \A e \in Events : status[e] # "none" => status'[e] # "none",
         \A j \in Open : jobs[j].rows \subseteq occs'
  PROVE  JobsSound'
<1>1. Open' = Open
  BY DEF Open
<1>2. QED
  BY <1>1 DEF JobsSound

LEMMA SoundOneIdle ==
  ASSUME TypeOK, JobsSound, NEW j \in Names, jobs' = [jobs EXCEPT ![j] = Idle],
         \A e \in Events : status[e] # "none" => status'[e] # "none",
         \A i \in Open \ {j} : jobs[i].rows \subseteq occs'
  PROVE  JobsSound'
<1> SUFFICES ASSUME NEW i \in Names
             PROVE  JobsSound!(i)'
  BY DEF JobsSound
<1>1. CASE i = j
  <2>1. jobs'[i] = Idle
    BY <1>1 DEF TypeOK
  <2>2. QED
    BY <2>1 DEF Idle, Open
<1>2. CASE i # j
  <2>1. jobs'[i] = jobs[i] /\ (i \in Open' <=> i \in Open)
    BY <1>2 DEF Open, TypeOK
  <2>2. QED
    BY <1>2, <2>1 DEF JobsSound
<1>3. QED
  BY <1>1, <1>2

LEMMA DedupFindStep ==
  ASSUME IInv, NEW r \in Raws, DedupFind(r)
  PROVE  IInv'
<1> USE DEF IInv
<1>1. PICK e \in IF Matches(r) = {} THEN Fresh(1) ELSE Matches(r) :
        /\ writer' = [op |-> "dedup", raw |-> r, event |-> e, venue |-> seat[r]]
        /\ IF Exists(e) THEN UNCHANGED <<status, title>>
           ELSE /\ status' = [status EXCEPT ![e] = "active"]
                /\ title' = [title EXCEPT ![e] = Title[r]]
  BY DEF DedupFind
<1>2. e \in Events
  BY <1>1 DEF Matches, Alive, Fresh, Unused
<1>3. UNCHANGED <<occs, link, rooms, seat, lists, stale, jobs, spent, overtaken>>
  BY DEF DedupFind
<1>4. TypeOK'
  BY <1>1, <1>2, <1>3 DEF TypeOK, Statuses, Writes, Titles
<1>5. WriterThere'
  BY <1>1, <1>3 DEF WriterThere, NoWrite
<1>6. \A d \in Events : status[d] # "none" => status'[d] # "none"
  BY <1>1, <1>2 DEF TypeOK
<1>7. JobsSound'
  <2>1. \A j \in Open : jobs[j].rows \subseteq occs'
    BY <1>3 DEF JobsSound, Open
  <2>2. QED
    BY <1>3, <1>6, <2>1, SoundStill
<1>8. Apart'
  BY <1>3, ApartFewer
<1>9. Kept'
  BY <1>3, KeptGrows DEF Untouched
<1>10. QED
  BY <1>4, <1>5, <1>7, <1>8, <1>9

LEMMA ReprocessReadStep ==
  ASSUME IInv, NEW r \in Raws, ReprocessRead(r)
  PROVE  IInv'
<1> USE DEF IInv
<1>1. UNCHANGED <<catalogue, seat, lists, stale, jobs, spent, overtaken>>
  BY DEF ReprocessRead
<1>2. writer' = [op |-> "reprocess", raw |-> r, event |-> link[r], venue |-> seat[r]] /\ link[r] # NoEvent
  BY DEF ReprocessRead
<1>3. TypeOK'
  BY <1>1, <1>2 DEF TypeOK, catalogue, Writes
<1>4. WriterThere'
  BY <1>1, <1>2 DEF WriterThere
<1>5. JobsSound'
  BY <1>1, SoundStill DEF catalogue, JobsSound, Open
<1>6. Apart'
  BY <1>1, ApartFewer
<1>7. Kept'
  BY <1>1, KeptGrows DEF Untouched, catalogue
<1>8. QED
  BY <1>3, <1>4, <1>5, <1>6, <1>7

LEMMA ReadStep ==
  ASSUME IInv, NEW j \in Names, NEW kind, NEW pairs, Read(j, kind, pairs),
         \/ /\ kind = "venues" /\ j = "heal"
            /\ \A p \in pairs : p \in Venues \X Venues /\ Place[p[1]] = Place[p[2]]
         \/ /\ kind = "events"
            /\ \A p \in pairs : p \in Events \X Events /\ status[p[1]] # "none" /\ status[p[2]] # "none"
  PROVE  IInv'
<1> USE DEF IInv
<1> DEFINE J == [at |-> "read", kind |-> kind, pairs |-> pairs, rows |-> {}, links |-> {}]
<1>1. UNCHANGED <<catalogue, seat, lists, stale, writer, spent, overtaken>>
  BY DEF Read
<1>2. jobs' = [jobs EXCEPT ![j] = J]
  BY DEF Read
<1>3. J \in Jobs
  BY DEF Jobs
<1>4. jobs'[j] = J /\ \A i \in Names \ {j} : jobs'[i] = jobs[i]
  BY <1>2 DEF TypeOK
<1> HIDE DEF J
<1>5. TypeOK'
  BY <1>1, <1>2, <1>3 DEF TypeOK, catalogue
<1> USE DEF J
<1>6. WriterThere'
  BY <1>1 DEF WriterThere
<1>7. JobsSound'
  BY <1>1, <1>4 DEF JobsSound, catalogue, Open
<1>8. \A i \in Names : jobs'[i].at = "moved" => jobs'[i] = jobs[i]
  BY <1>4
<1>9. Apart'
  BY <1>8, ApartFewer
<1>10. Kept'
  BY <1>1, <1>8, KeptGrows DEF Untouched, catalogue
<1>11. QED
  BY <1>5, <1>6, <1>7, <1>9, <1>10

LEMMA ReadsStep ==
  ASSUME IInv, ReadVenues \/ ReadEvents \/ ReadJudged
  PROVE  IInv'
<1> USE DEF Names
<1>1. CASE ReadVenues
  BY <1>1, VenuePairsSound, ReadStep DEF ReadVenues, IInv
<1>2. CASE ReadEvents
  <2>1. \A p \in Merges(SafePairs) : p \in Events \X Events /\ status[p[1]] # "none" /\ status[p[2]] # "none"
    BY PairsOfActives, MergesSound
  <2>2. QED
    BY <1>2, <2>1, ReadStep DEF ReadEvents
<1>3. CASE ReadJudged
  <2>1. PICK P \in SUBSET JudgePairs : Read("judge", "events", Merges(P))
    BY <1>3 DEF ReadJudged
  <2>2. UNION P \subseteq Actives
    BY PairsOfActives
  <2>3. \A p \in Merges(P) : p \in Events \X Events /\ status[p[1]] # "none" /\ status[p[2]] # "none"
    BY <2>2, MergesSound
  <2>4. QED
    BY <2>1, <2>3, ReadStep
<1>4. QED
  BY <1>1, <1>2, <1>3

LEMMA AbortStep ==
  ASSUME IInv, NEW j \in Names, Abort(j)
  PROVE  IInv'
<1> USE DEF IInv
<1>1. jobs' = [jobs EXCEPT ![j] = Idle] /\ spent' = spent + 1
  BY DEF Abort, Spend
<1>2. UNCHANGED <<catalogue, seat, lists, stale, writer, overtaken>>
  BY DEF Abort
<1>3. Idle \in Jobs /\ Idle.at # "moved"
  BY DEF Idle, Jobs
<1>4. TypeOK'
  BY <1>1, <1>2, <1>3 DEF TypeOK, catalogue
<1>5. WriterThere'
  BY <1>2 DEF WriterThere
<1>6. JobsSound'
  BY <1>1, <1>2, SoundOneIdle DEF catalogue, JobsSound, Open
<1>7. \A i \in Names : jobs'[i].at = "moved" => jobs'[i] = jobs[i]
  BY <1>1, <1>3 DEF TypeOK
<1>8. Apart' /\ Kept'
  BY <1>2, <1>7, ApartFewer, KeptGrows DEF Untouched, catalogue
<1>9. QED
  BY <1>4, <1>5, <1>6, <1>8

LEMMA StatusStep ==
  ASSUME IInv, Expire \/ \E e \in Events : Toggle(e)
  PROVE  IInv'
<1> USE DEF IInv
<1>1. UNCHANGED <<title, occs, link, rooms, seat, lists, stale, writer, jobs, overtaken>>
  BY DEF Expire, Toggle
<1>2. spent' \in Nat
  BY DEF Expire, Toggle, Spend, TypeOK
<1>3. /\ status' \in [Events -> Statuses]
      /\ \A e \in Events : status[e] # "none" => status'[e] # "none"
  <2>1. CASE Expire
    BY <2>1 DEF Expire, Standing, TypeOK, Statuses
  <2>2. ASSUME NEW d \in Events, Toggle(d)
        PROVE  <1>3
    BY <2>2 DEF Toggle, TypeOK, Statuses
  <2>3. QED
    BY <2>1, <2>2
<1>4. TypeOK'
  BY <1>1, <1>2, <1>3 DEF TypeOK
<1>5. WriterThere'
  BY <1>1 DEF WriterThere
<1>6. JobsSound'
  BY <1>1, <1>3, SoundStill DEF JobsSound, Open
<1>7. Apart' /\ Kept'
  BY <1>1, ApartFewer, KeptGrows DEF Untouched
<1>8. QED
  BY <1>4, <1>5, <1>6, <1>7

LEMMA EditStep ==
  ASSUME IInv, NEW r \in Raws, Edit(r)
  PROVE  IInv'
<1> USE DEF IInv
<1>1. UNCHANGED <<catalogue, seat, writer, jobs, overtaken>> /\ stale' = stale \cup {r}
  BY DEF Edit
<1>2. PICK L \in Lists : lists' = [lists EXCEPT ![r] = L]
  BY DEF Edit
<1>3. spent' \in Nat
  BY DEF Edit, Spend, TypeOK
<1>4. TypeOK'
  BY <1>1, <1>2, <1>3 DEF TypeOK, catalogue
<1>5. WriterThere'
  BY <1>1 DEF WriterThere
<1>6. JobsSound'
  BY <1>1, SoundStill DEF JobsSound, Open, catalogue
<1>7. \A q \in Raws : Untouched(q)' => Untouched(q) /\ lists'[q] = lists[q]
  BY <1>1, <1>2 DEF Untouched, catalogue, TypeOK
<1>8. Apart' /\ Kept'
  BY <1>1, <1>7, ApartFewer, KeptGrows DEF catalogue
<1>9. QED
  BY <1>4, <1>5, <1>6, <1>8

-----------------------------------------------------------------------------
(* Moving: a job takes its locks.                                          *)

\* What a move that opens a merge has taken: all there is on the duplicates, of events
\* and sessions that no other merge holds.
LEMMA MoveOpens ==
  ASSUME TypeOK, JobsSound, NEW j \in Names, Move(j), jobs'[j] # Idle
  PROVE  /\ jobs'[j] \in Jobs /\ jobs'[j].at = "moved"
         /\ jobs'[j].kind = jobs[j].kind /\ jobs'[j].pairs \subseteq jobs[j].pairs
         /\ jobs[j].kind = "venues" =>
              /\ jobs'[j].rows = {o \in occs : o.v \in Dups(j)'}
              /\ \A o \in jobs'[j].rows : Free(o.e)
         /\ jobs[j].kind # "venues" =>
              /\ jobs'[j].rows = {o \in occs : o.e \in Dups(j)'}
              /\ jobs'[j].links = {r \in Raws : link[r] \in Dups(j)'}
              /\ \A e \in Touches(j)' : Free(e)
<1> DEFINE pairs == StillThere(j)
           dups == {p[1] : p \in pairs}
           rows == IF jobs[j].kind = "venues" THEN {o \in occs : o.v \in dups} ELSE {o \in occs : o.e \in dups}
           links == IF jobs[j].kind = "venues" THEN {} ELSE {r \in Raws : link[r] \in dups}
           held == {o.e : o \in rows} \cup (IF jobs[j].kind = "venues" THEN {} ELSE UNION {{p[1], p[2]} : p \in pairs})
           J == [at |-> "moved", kind |-> jobs[j].kind, pairs |-> pairs, rows |-> rows, links |-> links]
<1>1. pairs \subseteq jobs[j].pairs
  BY DEF StillThere
<1>2. \A e \in held : Free(e)
  BY DEF Move
<1>3. jobs'[j] = J
  BY DEF Move, TypeOK
<1>4. jobs[j] \in Jobs
  BY DEF TypeOK
<1>5. pairs \in SUBSET ((Venues \X Venues) \cup (Events \X Events)) /\ jobs[j].kind \in {"none", "venues", "events"}
  BY <1>1, <1>4 DEF Jobs
<1>6. rows \in SUBSET Occurrences /\ links \in SUBSET Raws
  BY DEF TypeOK
<1>7. J \in Jobs
  <2> HIDE DEF pairs, rows, links
  <2>1. QED
    BY <1>5, <1>6 DEF Jobs
<1>8. Dups(j)' = dups
  BY <1>3 DEF Dups
<1>9. jobs[j].kind # "venues" => Touches(j)' = UNION {{p[1], p[2]} : p \in pairs}
  BY <1>3 DEF Touches
<1>10. QED
  BY <1>1, <1>2, <1>3, <1>7, <1>8, <1>9

LEMMA MoveStep ==
  ASSUME IInv, NEW j \in Names, Move(j)
  PROVE  IInv'
<1> USE DEF IInv
<1>1. UNCHANGED <<catalogue, seat, lists, stale, writer, spent, overtaken>>
  BY DEF Move
<1>2. jobs[j].at = "read" /\ j \notin Open
  BY DEF Move, Open
<1>3. \E J : jobs' = [jobs EXCEPT ![j] = J]
  BY Zenon DEF Move
<1>4. jobs' = [jobs EXCEPT ![j] = jobs'[j]] /\ \A i \in Names \ {j} : jobs'[i] = jobs[i]
  BY <1>3 DEF TypeOK
<1>5. CASE jobs'[j] = Idle
  <2>1. jobs' = [jobs EXCEPT ![j] = Idle]
    BY <1>4, <1>5
  <2>2. Idle \in Jobs /\ Idle.at # "moved"
    BY DEF Idle, Jobs
  <2>3. TypeOK'
    BY <1>1, <2>1, <2>2 DEF TypeOK, catalogue
  <2>4. WriterThere'
    BY <1>1 DEF WriterThere
  <2>5. JobsSound'
    BY <1>1, <2>1, SoundOneIdle DEF catalogue, JobsSound, Open
  <2>6. \A i \in Names : jobs'[i].at = "moved" => jobs'[i] = jobs[i]
    BY <1>4, <1>5, <2>2
  <2>7. Apart' /\ Kept'
    BY <1>1, <2>6, ApartFewer, KeptGrows DEF Untouched, catalogue
  <2>8. QED
    BY <2>3, <2>4, <2>5, <2>7
<1>6. CASE jobs'[j] # Idle
  <2>1. /\ jobs'[j] \in Jobs /\ jobs'[j].at = "moved"
        /\ jobs'[j].kind = jobs[j].kind /\ jobs'[j].pairs \subseteq jobs[j].pairs
    BY <1>6, MoveOpens
  <2>2. jobs[j].kind = "venues" =>
          jobs'[j].rows = {o \in occs : o.v \in Dups(j)'} /\ \A o \in jobs'[j].rows : Free(o.e)
    BY <1>6, MoveOpens
  <2>3. jobs[j].kind # "venues" =>
          /\ jobs'[j].rows = {o \in occs : o.e \in Dups(j)'}
          /\ jobs'[j].links = {r \in Raws : link[r] \in Dups(j)'}
          /\ \A e \in Touches(j)' : Free(e)
    BY <1>6, MoveOpens
  <2>4. TypeOK'
    BY <1>1, <1>4, <2>1 DEF TypeOK, catalogue
  <2>5. WriterThere'
    BY <1>1 DEF WriterThere
  <2>6. Open' = Open \cup {j} /\ \A i \in Open : i # j /\ jobs'[i] = jobs[i]
    BY <1>2, <1>4, <2>1 DEF Open
  <2>7. jobs'[j].rows \subseteq occs'
    BY <1>1, <2>2, <2>3 DEF catalogue
  <2>8. JobsSound'
    <3> SUFFICES ASSUME NEW i \in Names
                 PROVE  JobsSound!(i)'
      BY DEF JobsSound
    <3>1. CASE i = j
      BY <1>1, <2>1, <2>7, <3>1 DEF JobsSound, catalogue
    <3>2. CASE i # j
      BY <1>1, <1>4, <2>6, <3>2 DEF JobsSound, catalogue
    <3>3. QED
      BY <3>1, <3>2
  <2>9. \A i \in Open : Touches(i)' = Touches(i) /\ jobs[i].rows \subseteq occs
    BY <2>6 DEF Touches, Dups, JobsSound, Open
  <2>10. \A i \in Open, e \in Events : Free(e) => e \notin Touches(i) /\ Rows(e) \cap jobs[i].rows = {}
    BY DEF Free
  <2>11. jobs[j].kind # "venues" => Dups(j)' \subseteq Touches(j)' /\ Touches(j)' \subseteq Events
    BY <1>1, <2>1, <2>8 DEF Touches, Dups, JobsSound
  <2>12. jobs[j].kind = "venues" => Touches(j)' = {}
    BY <2>1 DEF Touches
  <2>13. ASSUME NEW i \in Open
         PROVE  /\ Touches(i)' \cap Touches(j)' = {}
                /\ \A o \in jobs'[i].rows : o.e \notin Touches(j)'
                /\ \A o \in jobs'[j].rows : o.e \notin Touches(i)'
    <3>1. jobs[i].rows \subseteq occs /\ jobs'[i].rows = jobs[i].rows /\ Touches(i)' = Touches(i)
      BY <2>6, <2>9
    <3>2. \A o \in occs : o.e \in Events /\ o \in Rows(o.e)
      BY DEF TypeOK, Occurrences, Rows
    <3>3. CASE jobs[j].kind = "venues"
      BY <2>2, <2>7, <2>10, <2>12, <3>1, <3>2, <3>3, <1>1 DEF catalogue
    <3>4. CASE jobs[j].kind # "venues"
      <4>1. \A e \in Touches(j)' : e \notin Touches(i) /\ Rows(e) \cap jobs[i].rows = {}
        BY <2>3, <2>10, <2>11, <3>4
      <4>2. \A o \in jobs'[j].rows : o.e \in Touches(j)'
        BY <2>3, <2>11, <3>4
      <4>3. QED
        BY <3>1, <3>2, <4>1, <4>2
    <3>5. QED
      BY <3>3, <3>4
  <2>14. Apart'
    BY <2>6, <2>9, <2>13 DEF Apart
  <2>15. Kept'
    <3> SUFFICES ASSUME NEW r \in Raws, Untouched(r)'
                 PROVE  /\ Followed(r)'
                        /\ \A s \in Firm(r)' : \E o \in Rows(link[r])' : Stands(o, r, s)' /\ Secure(o)'
      BY DEF Kept
    <3>1. Untouched(r) /\ link' = link /\ Firm(r)' = Firm(r) /\ occs' = occs /\ seat' = seat
      BY <1>1 DEF Untouched, Firm, catalogue
    <3>2. \A i \in Open : Dups(i)' = Dups(i)
      BY <2>6 DEF Dups
    <3>3. Followed(r)'
      BY <2>1, <2>3, <2>6, <3>1, <3>2 DEF Kept, Followed
    <3>4. ASSUME NEW s \in Firm(r)
          PROVE  \E o \in Rows(link[r])' : Stands(o, r, s)' /\ Secure(o)'
      <4>1. PICK o \in Rows(link[r]) : Stands(o, r, s) /\ Secure(o)
        BY <3>1 DEF Kept
      <4>2. o \in Rows(link[r])' /\ Stands(o, r, s)' /\ o \in occs
        BY <3>1, <4>1 DEF Rows, Stands
      <4>3. Secure(o)'
        BY <2>1, <2>2, <2>3, <2>6, <3>2, <4>1, <4>2 DEF Secure
      <4>4. QED
        BY <4>2, <4>3
    <3>5. QED
      BY <3>1, <3>3, <3>4
  <2>16. QED
    BY <2>4, <2>5, <2>8, <2>14, <2>15
<1>7. QED
  BY <1>5, <1>6

-----------------------------------------------------------------------------
(* Writing sessions.                                                       *)

LEMMA WriteStep ==
  ASSUME IInv, Write
  PROVE  IInv'
<1> USE DEF IInv
<1> DEFINE r == writer.raw
           e == writer.event
           v == writer.venue
           ok == Exists(e) /\ v \in rooms
<1>1. writer \in Writes /\ writer' = NoWrite
  BY DEF Write, TypeOK
<1>2. r \in Raws /\ e \in Events /\ v \in Venues /\ Place[v] = Place[seat[r]]
  BY <1>1, Zenon DEF Writes, Write, WriterThere
<1>3. UNCHANGED <<status, title, rooms, seat, lists, jobs, spent>>
  BY DEF Write
<1>4. occs' = IF ok THEN occs \cup Sessions(e, r, v) ELSE occs
  BY DEF Write
<1>5. link' = IF ok /\ writer.op = "dedup" THEN [link EXCEPT ![r] = e] ELSE link
  BY DEF Write
<1>6. stale' = IF writer.op = "reprocess" THEN stale \ {r} ELSE stale
  BY DEF Write
<1>7. overtaken' = IF ok /\ ~Overtakes(e, v) /\ link'[r] = e THEN overtaken \ {r}
                   ELSE IF ok \/ writer.op = "reprocess" THEN overtaken \cup {r}
                   ELSE overtaken
  BY DEF Write
<1> HIDE DEF r, e, v, ok
<1>8. lists[r] \subseteq Slots
  <2>1. lists[r] \in Lists
    BY <1>2 DEF TypeOK
  <2>2. \A L \in Lists : L \in SUBSET Slots
    BY HealAssumption DEF HealAssumption
  <2>3. QED
    BY <2>1, <2>2
<1>9. Sessions(e, r, v) \subseteq Occurrences
  BY <1>2, <1>8 DEF Sessions, Occurrences
<1>10. TypeOK'
  <2>1. occs' \subseteq Occurrences
    BY <1>4, <1>9 DEF TypeOK
  <2>2. link' \in [Raws -> Events \cup {NoEvent}]
    BY <1>2, <1>5 DEF TypeOK
  <2>3. stale' \subseteq Raws /\ overtaken' \subseteq Raws
    BY <1>2, <1>6, <1>7 DEF TypeOK
  <2>4. QED
    BY <1>1, <1>3, <2>1, <2>2, <2>3 DEF TypeOK
<1>11. WriterThere'
  BY <1>1 DEF WriterThere
<1>12. occs \subseteq occs'
  BY <1>4
<1>13. JobsSound'
  BY <1>3, <1>12, SoundStill DEF JobsSound, Open
<1>14. Apart'
  BY <1>3, ApartFewer
<1>15. Open' = Open /\ \A j \in Open : Dups(j)' = Dups(j)
  BY <1>3 DEF Open, Dups
<1>16. Kept'
  <2> SUFFICES ASSUME NEW q \in Raws, Untouched(q)'
               PROVE  /\ Followed(q)'
                      /\ \A s \in Firm(q)' : \E o \in Rows(link[q])' : Stands(o, q, s)' /\ Secure(o)'
    BY DEF Kept
  <2>1. CASE link'[q] = link[q] /\ Untouched(q)
    <3>1. Followed(q)'
      BY <1>3, <1>15, <2>1 DEF Kept, Followed
    <3>2. ASSUME NEW s \in Firm(q)
          PROVE  \E o \in Rows(link[q])' : Stands(o, q, s)' /\ Secure(o)'
      <4>1. PICK o \in Rows(link[q]) : Stands(o, q, s) /\ Secure(o)
        BY <2>1 DEF Kept
      <4>2. o \in Rows(link[q])' /\ Stands(o, q, s)'
        BY <1>3, <1>12, <2>1, <4>1 DEF Rows, Stands
      <4>3. Secure(o)'
        BY <1>3, <1>15, <4>1 DEF Secure
      <4>4. QED
        BY <4>2, <4>3
    <3>3. QED
      BY <1>3, <3>1, <3>2 DEF Firm
  <2>2. CASE ~(link'[q] = link[q] /\ Untouched(q))
    \* The raw is the one that was written, and met no merge.
    <3>1. q = r /\ ok /\ ~Overtakes(e, v) /\ link'[r] = e
      <4>1. CASE q # r
        BY <1>2, <1>5, <1>6, <1>7, <2>2, <4>1 DEF Untouched, TypeOK
      <4>2. CASE q = r
        <5>1. r \notin overtaken' /\ r \notin stale'
          BY <4>2 DEF Untouched
        <5>2. CASE ~ok
          BY <1>5, <1>6, <1>7, <2>2, <4>2, <5>1, <5>2 DEF Untouched
        <5>3. CASE ok
          BY <1>7, <4>2, <5>1, <5>3
        <5>4. QED
          BY <5>2, <5>3
      <4>3. QED
        BY <4>1, <4>2
    <3>2. \A j \in Open : (IF jobs[j].kind = "venues" THEN v ELSE e) \notin Dups(j)
      BY <3>1 DEF Overtakes
    <3>3. Followed(q)'
      BY <1>3, <1>15, <3>1, <3>2 DEF Followed
    <3>4. ASSUME NEW s \in Firm(q)'
          PROVE  \E o \in Rows(link[q])' : Stands(o, q, s)' /\ Secure(o)'
      <4>1. s \in lists[r]
        BY <1>3, <3>1, <3>4 DEF Firm
      <4>2. [e |-> e, s |-> s, v |-> v] \in occs'
        BY <1>4, <3>1, <4>1 DEF Sessions
      <4>3. v # NoVenue
        BY <1>2, HealAssumption DEF HealAssumption
      <4>4. PICK o \in occs' : o.e = e /\ o.s = s /\ o.v = v
        BY <4>2
      <4>5. o \in Rows(link[q])' /\ Stands(o, q, s)'
        BY <1>2, <1>3, <3>1, <4>3, <4>4 DEF Rows, Stands
      <4>6. Secure(o)'
        BY <1>3, <1>15, <3>2, <4>4 DEF Secure
      <4>7. QED
        BY <4>5, <4>6
    <3>5. QED
      BY <3>3, <3>4
  <2>3. QED
    BY <2>1, <2>2
<1>17. QED
  BY <1>10, <1>11, <1>13, <1>14, <1>16

-----------------------------------------------------------------------------
(* The ends of merges.                                                     *)

LEMMA CommitEventsStep ==
  ASSUME IInv, NEW j \in Names, CommitEvents(j)
  PROVE  IInv'
<1> USE DEF IInv
<1> DEFINE pairs == jobs[j].pairs
           canons == {p[2] : p \in pairs}
           moved == {o \in occs : o.e \notin Dups(j)} \cup {[o EXCEPT !.e = Into(pairs, o.e)] : o \in jobs[j].rows}
<1>1. j \in Open /\ jobs[j].kind # "venues"
  BY DEF CommitEvents, Open
<1>2. /\ occs' = moved \ Placeholders(moved, canons)
      /\ link' = [r \in Raws |-> IF link[r] \notin Dups(j) THEN link[r]
                                 ELSE IF r \in jobs[j].links THEN Into(pairs, link[r]) ELSE NoEvent]
      /\ status' = [e \in Events |-> IF e \in Dups(j) THEN "gone" ELSE status[e]]
      /\ jobs' = [jobs EXCEPT ![j] = Idle]
      /\ UNCHANGED <<title, rooms, seat, lists, stale, writer, spent, overtaken>>
  BY DEF CommitEvents
<1>3. /\ Dups(j) \subseteq Events /\ Dups(j) \subseteq Touches(j)
      /\ canons \subseteq Touches(j)
      /\ \A d \in Dups(j) : Into(pairs, d) \in Touches(j) /\ Into(pairs, d) \in Events
  BY <1>1, EventMerge
<1>4. jobs[j].rows \subseteq occs
  BY <1>1 DEF JobsSound
<1>5. Idle \in Jobs /\ Idle.at # "moved"
  BY DEF Idle, Jobs
<1>6. Open' = Open \ {j} /\ \A i \in Open' : jobs'[i] = jobs[i]
  BY <1>2, <1>5 DEF Open, TypeOK
\* What was moved are the rows of the duplicates, as they were.
<1>7. moved \subseteq Occurrences
  <2>1. ASSUME NEW o \in jobs[j].rows
        PROVE  [o EXCEPT !.e = Into(pairs, o.e)] \in Occurrences
    <3>1. o \in Occurrences
      BY <1>4 DEF TypeOK
    <3>2. Into(pairs, o.e) \in Events
      BY <1>3, <3>1, IntoOther DEF Dups, Occurrences
    <3>3. QED
      BY <3>1, <3>2 DEF Occurrences
  <2>2. QED
    BY <2>1 DEF TypeOK
<1>8. TypeOK'
  <2>1. link' \in [Raws -> Events \cup {NoEvent}]
    BY <1>2, <1>3 DEF TypeOK
  <2>2. status' \in [Events -> Statuses]
    BY <1>2 DEF TypeOK, Statuses
  <2>3. occs' \subseteq Occurrences
    BY <1>2, <1>7
  <2>4. QED
    BY <1>2, <1>5, <2>1, <2>2, <2>3 DEF TypeOK
<1>9. WriterThere'
  BY <1>2 DEF WriterThere
\* An event that the other merge has locked is not among the canonical ones.
<1>10. \A o \in occs : o.e \notin Touches(j) => o \in occs'
  BY <1>2, <1>3 DEF Placeholders
<1>11. \A i \in Open' : /\ jobs[i].rows \subseteq occs'
                        /\ Touches(i) \cap Touches(j) = {}
                        /\ \A o \in jobs[i].rows : o.e \notin Touches(j)
  <2> TAKE i \in Open'
  <2>1. i \in Open /\ i # j /\ i \in Names
    BY <1>6 DEF Open
  <2>2. Touches(i) \cap Touches(j) = {} /\ \A o \in jobs[i].rows : o.e \notin Touches(j)
    BY <1>1, <2>1 DEF Apart
  <2>3. jobs[i].rows \subseteq occs
    BY <2>1 DEF JobsSound
  <2>4. QED
    BY <1>10, <2>2, <2>3
<1>12. JobsSound'
  <2>1. \A e \in Events : status[e] # "none" => status'[e] # "none"
    BY <1>2
  <2>2. QED
    BY <1>2, <1>6, <1>11, <2>1, SoundOneIdle
<1>13. Apart'
  BY <1>2, <1>5, ApartFewer DEF TypeOK
<1>14. Kept'
  <2> SUFFICES ASSUME NEW r \in Raws, Untouched(r)'
               PROVE  /\ Followed(r)'
                      /\ \A s \in Firm(r)' : \E o \in Rows(link[r])' : Stands(o, r, s)' /\ Secure(o)'
    BY DEF Kept
  <2>1. Untouched(r) /\ Firm(r)' = Firm(r)
    BY <1>2, <1>3, HealAssumption DEF Untouched, Firm, HealAssumption
  <2>2. Followed(r) /\ \A s \in Firm(r) : \E o \in Rows(link[r]) : Stands(o, r, s) /\ Secure(o)
    BY <2>1 DEF Kept
  <2>3. \A i \in Open' : /\ Dups(i)' = Dups(i)
                         /\ (jobs[i].kind # "venues" => Dups(i) \subseteq Touches(i))
    BY <1>6, EventMerge DEF Dups, Open
  <2>4. CASE link[r] \notin Dups(j)
    <3>1. link'[r] = link[r]
      BY <1>2, <2>4
    <3>2. Followed(r)'
      BY <1>6, <2>2, <2>3, <3>1 DEF Followed, Dups
    <3>3. ASSUME NEW s \in Firm(r)
          PROVE  \E o \in Rows(link[r])' : Stands(o, r, s)' /\ Secure(o)'
      <4>1. PICK o \in Rows(link[r]) : Stands(o, r, s) /\ Secure(o)
        BY <2>2
      <4>2. o \in moved /\ ~Placeholder(o.s)
        BY <2>4, <4>1 DEF Rows, Stands, Firm
      <4>3. o \in Rows(link[r])' /\ Stands(o, r, s)'
        BY <1>2, <3>1, <4>1, <4>2 DEF Rows, Stands, Placeholders
      <4>4. Secure(o)'
        BY <1>6, <4>1 DEF Secure, Dups
      <4>5. QED
        BY <4>3, <4>4
    <3>4. QED
      BY <2>1, <3>2, <3>3
  <2>5. CASE link[r] \in Dups(j)
    <3> DEFINE c == Into(pairs, link[r])
    <3>1. r \in jobs[j].links /\ link'[r] = c /\ c \in Touches(j)
      BY <1>1, <1>2, <1>3, <2>2, <2>5 DEF Followed
    <3>2. \A i \in Open' : jobs[i].kind # "venues" => c \notin Dups(i)
      BY <1>11, <2>3, <3>1
    <3> HIDE DEF c
    <3>3. Followed(r)'
      BY <1>6, <2>3, <3>1, <3>2 DEF Followed
    <3>4. ASSUME NEW s \in Firm(r)
          PROVE  \E o \in Rows(link[r])' : Stands(o, r, s)' /\ Secure(o)'
      <4>1. PICK o \in Rows(link[r]) : Stands(o, r, s) /\ Secure(o)
        BY <2>2
      <4>2. o \in Occurrences /\ o.e = link[r] /\ o \in jobs[j].rows
        BY <1>1, <2>5, <4>1 DEF Rows, Secure, TypeOK
      <4>3. PICK n \in moved : n.e = c /\ n.s = o.s /\ n.v = o.v
        <5>1. [o EXCEPT !.e = Into(pairs, o.e)] \in moved
          BY <4>2
        <5>2. [o EXCEPT !.e = Into(pairs, o.e)] = [e |-> c, s |-> o.s, v |-> o.v]
          BY <4>2 DEF Occurrences, c
        <5>3. QED
          BY <5>1, <5>2
      <4>4. ~Placeholder(n.s)
        BY <4>1, <4>3 DEF Stands, Firm
      <4>5. n \in Rows(link[r])' /\ Stands(n, r, s)'
        BY <1>2, <3>1, <4>1, <4>3, <4>4 DEF Rows, Stands, Placeholders
      <4>6. ASSUME NEW i \in Open'
            PROVE  (IF jobs[i].kind = "venues" THEN n.v ELSE n.e) \notin Dups(i)
        <5>1. CASE jobs[i].kind = "venues"
          <6>1. o.v \in Dups(i) => o \in jobs[i].rows
            BY <1>6, <4>1, <5>1 DEF Secure
          <6>2. o.e \in Touches(j)
            BY <1>3, <2>5, <4>2
          <6>3. QED
            BY <1>11, <4>3, <5>1, <6>1, <6>2
        <5>2. CASE jobs[i].kind # "venues"
          BY <3>2, <4>3, <5>2
        <5>3. QED
          BY <5>1, <5>2
      <4>7. Secure(n)'
        BY <1>6, <2>3, <4>6 DEF Secure
      <4>8. QED
        BY <4>5, <4>7
    <3>5. QED
      BY <2>1, <3>3, <3>4
  <2>6. QED
    BY <2>4, <2>5
<1>15. QED
  BY <1>8, <1>9, <1>12, <1>13, <1>14

\* A session that a merge of venues has taken along stays at its place.
LEMMA CommitVenuesStep ==
  ASSUME IInv, NEW j \in Names, CommitVenues(j)
  PROVE  IInv'
<1> USE DEF IInv
<1> DEFINE pairs == jobs[j].pairs
           Moved(o) == IF o.v \notin Dups(j) THEN o
                       ELSE IF o \in jobs[j].rows THEN [o EXCEPT !.v = Into(pairs, o.v)]
                       ELSE [o EXCEPT !.v = NoVenue]
<1>1. j \in Open /\ jobs[j].kind = "venues" /\ j = "heal"
  BY DEF CommitVenues, Open, JobsSound
<1>2. /\ \A i \in Open \ {j} : \A o \in jobs[i].rows : o.v \notin Dups(j)
      /\ occs' = {Moved(o) : o \in occs}
      /\ seat' = [r \in Raws |-> Into(pairs, seat[r])]
      /\ rooms' = rooms \ Dups(j)
      /\ jobs' = [jobs EXCEPT ![j] = Idle]
      /\ UNCHANGED <<status, title, link, lists, stale, writer, spent, overtaken>>
  BY DEF CommitVenues
<1>3. \A v \in Venues : Into(pairs, v) \in Venues /\ Place[Into(pairs, v)] = Place[v]
  BY <1>1, VenueMerge
<1>4. Dups(j) \subseteq Venues /\ NoVenue \notin Venues
  BY <1>1, HealAssumption DEF JobsSound, Dups, HealAssumption
<1>5. Idle \in Jobs /\ Idle.at # "moved"
  BY DEF Idle, Jobs
<1>6. Open' = Open \ {j} /\ \A i \in Open' : jobs'[i] = jobs[i] /\ i # j
  BY <1>2, <1>5 DEF Open, TypeOK
<1>7. ASSUME NEW o \in occs
      PROVE  /\ Moved(o) \in Occurrences /\ Moved(o).e = o.e /\ Moved(o).s = o.s
             /\ o.v \notin Dups(j) => Moved(o) = o
             /\ o.v \in Dups(j) /\ o \in jobs[j].rows => Moved(o).v = Into(pairs, o.v)
  <2>1. o \in Occurrences
    BY DEF TypeOK
  <2>2. CASE o.v \notin Dups(j)
    BY <2>1, <2>2
  <2>3. CASE o.v \in Dups(j) /\ o \in jobs[j].rows
    <3>1. Moved(o) = [e |-> o.e, s |-> o.s, v |-> Into(pairs, o.v)]
      BY <2>1, <2>3 DEF Occurrences
    <3>2. Into(pairs, o.v) \in Venues
      BY <1>3, <1>4, <2>3
    <3>3. QED
      BY <2>1, <2>3, <3>1, <3>2 DEF Occurrences
  <2>4. CASE o.v \in Dups(j) /\ o \notin jobs[j].rows
    <3>1. Moved(o) = [e |-> o.e, s |-> o.s, v |-> NoVenue]
      BY <2>1, <2>4 DEF Occurrences
    <3>2. QED
      BY <2>1, <2>4, <3>1 DEF Occurrences
  <2>5. QED
    BY <2>2, <2>3, <2>4
<1>8. TypeOK'
  <2>1. occs' \subseteq Occurrences
    BY <1>2, <1>7
  <2>2. seat' \in [Raws -> Venues]
    BY <1>2, <1>3 DEF TypeOK
  <2>3. QED
    BY <1>2, <1>5, <2>1, <2>2 DEF TypeOK
<1>9. \A r \in Raws : Place[seat'[r]] = Place[seat[r]]
  BY <1>2, <1>3 DEF TypeOK
<1>10. WriterThere'
  <2>1. writer # NoWrite => writer.raw \in Raws
    BY DEF TypeOK, Writes
  <2>2. QED
    BY <1>2, <1>9, <2>1 DEF WriterThere
<1>11. \A o \in occs : o.v \notin Dups(j) => o \in occs'
  BY <1>2
<1>12. \A i \in Open' : jobs[i].rows \subseteq occs'
  BY <1>2, <1>6, <1>11 DEF JobsSound, Open
<1>13. JobsSound'
  BY <1>2, <1>6, <1>12, SoundOneIdle
<1>14. Apart'
  BY <1>2, <1>5, ApartFewer DEF TypeOK
<1>15. Kept'
  <2> SUFFICES ASSUME NEW r \in Raws, Untouched(r)'
               PROVE  /\ Followed(r)'
                      /\ \A s \in Firm(r)' : \E o \in Rows(link[r])' : Stands(o, r, s)' /\ Secure(o)'
    BY DEF Kept
  <2>1. Untouched(r) /\ Firm(r)' = Firm(r) /\ link' = link
    BY <1>2 DEF Untouched, Firm
  <2>2. Followed(r)'
    BY <1>6, <2>1 DEF Kept, Followed, Dups
  <2>3. ASSUME NEW s \in Firm(r)
        PROVE  \E o \in Rows(link[r])' : Stands(o, r, s)' /\ Secure(o)'
    <3>1. PICK o \in Rows(link[r]) : Stands(o, r, s) /\ Secure(o)
      BY <2>1 DEF Kept
    <3>2. o \in occs /\ o.e = link[r]
      BY <3>1 DEF Rows
    <3>3. CASE o.v \notin Dups(j)
      <4>1. o \in Rows(link[r])' /\ Stands(o, r, s)'
        BY <1>9, <1>11, <2>1, <3>1, <3>2, <3>3 DEF Rows, Stands
      <4>2. Secure(o)'
        BY <1>6, <3>1 DEF Secure, Dups
      <4>3. QED
        BY <4>1, <4>2
    <3>4. CASE o.v \in Dups(j)
      <4>1. o \in jobs[j].rows
        BY <1>1, <3>1, <3>4 DEF Secure
      <4>2. PICK n \in occs' : n.e = o.e /\ n.s = o.s /\ n.v = Into(pairs, o.v)
        BY <1>2, <1>7, <3>2, <3>4, <4>1
      <4>3. n.v \in Venues /\ Place[n.v] = Place[o.v]
        BY <1>3, <1>4, <3>4, <4>2
      <4>4. n \in Rows(link[r])' /\ Stands(n, r, s)'
        BY <1>4, <1>9, <2>1, <3>1, <3>2, <4>2, <4>3 DEF Rows, Stands
      \* The other merge is the judge's; it holds no session there, and none of this event.
      <4>5. ASSUME NEW i \in Open'
            PROVE  jobs[i].kind # "venues" /\ o.e \notin Dups(i)
        <5>1. i \in Open /\ i # j /\ jobs[i].kind # "venues"
          BY <1>1, <1>6 DEF JobsSound, Open
        <5>2. o.e \in Dups(i) => o \in jobs[i].rows
          BY <3>1, <5>1 DEF Secure
        <5>3. QED
          BY <1>2, <3>4, <5>1, <5>2
      <4>6. Secure(n)'
        BY <1>6, <4>2, <4>5 DEF Secure, Dups
      <4>7. QED
        BY <4>4, <4>6
    <3>5. QED
      BY <3>3, <3>4
  <2>4. QED
    BY <2>1, <2>2, <2>3
<1>16. QED
  BY <1>8, <1>10, <1>13, <1>14, <1>15

-----------------------------------------------------------------------------
(* Rebuilding, pruning, splitting: of an event that no merge holds.        *)

\* Whoever rewrites the rows of a free event leaves the merges alone ...
LEMMA FreeRows ==
  ASSUME TypeOK, JobsSound, NEW e \in Events, Free(e), UNCHANGED jobs,
         occs \ Rows(e) \subseteq occs',
         \A d \in Events : status[d] # "none" => status'[d] # "none"
  PROVE  JobsSound'
<1>1. \A j \in Open : jobs[j].rows \subseteq occs'
  BY DEF Free, JobsSound, Open
<1>2. QED
  BY <1>1, SoundStill

\* ... and the raws of other events.
LEMMA FreeKept ==
  ASSUME TypeOK, Kept, NEW e, UNCHANGED <<jobs, seat, lists>>,
         occs \ Rows(e) \subseteq occs',
         NEW r \in Raws, Untouched(r), link'[r] = link[r], link[r] # e
  PROVE  /\ Followed(r)'
         /\ \A s \in Firm(r)' : \E o \in Rows(link[r])' : Stands(o, r, s)' /\ Secure(o)'
<1>1. Followed(r)'
  BY DEF Kept, Followed, Open, Dups
<1>2. ASSUME NEW s \in Firm(r)
      PROVE  \E o \in Rows(link[r])' : Stands(o, r, s)' /\ Secure(o)'
  <2>1. PICK o \in Rows(link[r]) : Stands(o, r, s) /\ Secure(o)
    BY DEF Kept
  <2>2. o \in Rows(link[r])' /\ Stands(o, r, s)'
    BY <2>1 DEF Rows, Stands
  <2>3. Secure(o)'
    BY <2>1 DEF Secure, Open, Dups
  <2>4. QED
    BY <2>2, <2>3
<1>3. QED
  BY <1>1, <1>2 DEF Firm

LEMMA ResolveStep ==
  ASSUME IInv, NEW e \in Events, Resolve(e)
  PROVE  IInv'
<1> USE DEF IInv
<1>1. /\ occs' = (occs \ Rows(e)) \cup {[e |-> e, s |-> t[1], v |-> t[2]] : t \in Tour}
      /\ rooms' = rooms \cup {t[2] : t \in Tour}
      /\ overtaken' = overtaken \cup SourcesOf(e)
      /\ UNCHANGED <<status, title, link, seat, lists, stale, writer, jobs>>
      /\ spent' = spent + 1 /\ Free(e)
  BY DEF Resolve, Spend
<1>2. \A t \in Tour : t[1] \in Slots /\ t[2] \in Venues
  BY HealAssumption DEF HealAssumption
<1>3. TypeOK'
  <2>1. occs' \subseteq Occurrences
    BY <1>1, <1>2 DEF TypeOK, Occurrences
  <2>2. rooms' \subseteq Venues /\ overtaken' \subseteq Raws
    BY <1>1, <1>2 DEF TypeOK, SourcesOf
  <2>3. QED
    BY <1>1, <2>1, <2>2 DEF TypeOK
<1>4. WriterThere'
  BY <1>1 DEF WriterThere
<1>5. JobsSound'
  BY <1>1, FreeRows
<1>6. Apart'
  BY <1>1, ApartFewer
<1>7. ASSUME NEW r \in Raws, Untouched(r)'
      PROVE  /\ Followed(r)'
             /\ \A s \in Firm(r)' : \E o \in Rows(link[r])' : Stands(o, r, s)' /\ Secure(o)'
  <2>1. Untouched(r) /\ link'[r] = link[r] /\ link[r] # e
    BY <1>1, <1>7 DEF Untouched, SourcesOf
  <2>2. QED
    BY <1>1, <2>1, FreeKept
<1>8. QED
  BY <1>3, <1>4, <1>5, <1>6, <1>7 DEF Kept

LEMMA PruneStep ==
  ASSUME IInv, NEW e \in Events, Prune(e)
  PROVE  IInv'
<1> USE DEF IInv
<1>1. /\ occs' = {o \in occs : o.e = e => o.s \in Listed(e)} /\ Free(e)
      /\ UNCHANGED <<status, title, link, rooms, seat, lists, stale, writer, jobs, spent, overtaken>>
  BY DEF Prune
<1>2. TypeOK'
  BY <1>1 DEF TypeOK
<1>3. WriterThere'
  BY <1>1 DEF WriterThere
<1>4. occs \ Rows(e) \subseteq occs'
  BY <1>1 DEF Rows
<1>5. JobsSound'
  BY <1>1, <1>4, FreeRows
<1>6. Apart'
  BY <1>1, ApartFewer
<1>7. ASSUME NEW r \in Raws, Untouched(r)'
      PROVE  /\ Followed(r)'
             /\ \A s \in Firm(r)' : \E o \in Rows(link[r])' : Stands(o, r, s)' /\ Secure(o)'
  <2>1. Untouched(r)
    BY <1>1, <1>7 DEF Untouched
  <2>2. CASE link[r] # e
    BY <1>1, <1>4, <2>1, <2>2, FreeKept
  <2>3. CASE link[r] = e
    <3>1. \A s \in Firm(r) : s \in Listed(e)
      BY <2>3 DEF Firm, Listed, SourcesOf
    <3>2. Followed(r)'
      BY <1>1, <2>1 DEF Kept, Followed, Open, Dups
    <3>3. ASSUME NEW s \in Firm(r)
          PROVE  \E o \in Rows(link[r])' : Stands(o, r, s)' /\ Secure(o)'
      <4>1. PICK o \in Rows(link[r]) : Stands(o, r, s) /\ Secure(o)
        BY <2>1 DEF Kept
      <4>2. o \in Rows(link[r])' /\ Stands(o, r, s)'
        BY <1>1, <3>1, <4>1 DEF Rows, Stands
      <4>3. Secure(o)'
        BY <1>1, <4>1 DEF Secure, Open, Dups
      <4>4. QED
        BY <4>2, <4>3
    <3>4. QED
      BY <1>1, <3>2, <3>3 DEF Firm
  <2>4. QED
    BY <2>2, <2>3
<1>8. QED
  BY <1>2, <1>3, <1>5, <1>6, <1>7 DEF Kept

LEMMA ResplitStep ==
  ASSUME IInv, NEW e \in Events, Resplit(e)
  PROVE  IInv'
<1> USE DEF IInv
<1> DEFINE others == PlacesOf(e) \ {Primary(e)}
<1>1. Free(e) /\ jobs["heal"] = Idle /\ UNCHANGED <<rooms, seat, lists, stale, writer, jobs, spent>>
  BY DEF Resplit
<1>2. PICK f \in [others -> Fresh(Cardinality(others))] :
        LET copies == {f[p] : p \in others}
            Target(o) == IF Place[o.v] = Primary(e) THEN e ELSE f[Place[o.v]] IN
        /\ status' = [d \in Events |-> IF d \in copies THEN status[e] ELSE status[d]]
        /\ title' = [d \in Events |-> IF d \in copies THEN title[e] ELSE title[d]]
        /\ occs' = (occs \ Rows(e)) \cup {o \in Rows(e) : o.v = NoVenue}
                     \cup {[e |-> Target(o), s |-> o.s, v |-> Best(e, Place[o.v])] : o \in {q \in Rows(e) : q.v # NoVenue}}
        /\ \E g \in [SourcesOf(e) -> {e} \cup copies] :
             /\ link' = [r \in Raws |-> IF r \in SourcesOf(e) THEN g[r] ELSE link[r]]
             /\ overtaken' = overtaken \cup
                  {r \in SourcesOf(e) : g[r] # (IF Place[seat[r]] \in others THEN f[Place[seat[r]]] ELSE e)}
  BY Zenon DEF Resplit
<1> DEFINE copies == {f[p] : p \in others}
           Target(o) == IF Place[o.v] = Primary(e) THEN e ELSE f[Place[o.v]]
           New(o) == [e |-> Target(o), s |-> o.s, v |-> Best(e, Place[o.v])]
           fixed == {q \in Rows(e) : q.v # NoVenue}
<1>3. PICK g \in [SourcesOf(e) -> {e} \cup copies] :
        /\ link' = [r \in Raws |-> IF r \in SourcesOf(e) THEN g[r] ELSE link[r]]
        /\ overtaken' = overtaken \cup
             {r \in SourcesOf(e) : g[r] # (IF Place[seat[r]] \in others THEN f[Place[seat[r]]] ELSE e)}
  BY <1>2, Zenon
<1>4. /\ status' = [d \in Events |-> IF d \in copies THEN status[e] ELSE status[d]]
      /\ title' = [d \in Events |-> IF d \in copies THEN title[e] ELSE title[d]]
      /\ occs' = (occs \ Rows(e)) \cup {o \in Rows(e) : o.v = NoVenue} \cup {New(o) : o \in fixed}
  BY <1>2, Zenon
\* The copies were never used before.
<1>5. \A p \in others : f[p] \in Events /\ status[f[p]] = "none"
  BY DEF Fresh, Unused
<1>6. copies \subseteq Events /\ \A c \in copies : status[c] = "none"
  BY <1>5
<1>7. ASSUME NEW o \in fixed
      PROVE  /\ New(o) \in Occurrences /\ New(o).s = o.s /\ New(o).v \in Venues
             /\ Place[New(o).v] = Place[o.v]
             /\ Place[o.v] \in PlacesOf(e)
  <2>1. o \in Occurrences
    BY DEF TypeOK, Rows
  <2>2. Place[o.v] \in PlacesOf(e)
    BY DEF PlacesOf, VenuesOf
  <2>3. Target(o) \in Events
    BY <1>5, <2>2
  <2>4. Best(e, Place[o.v]) \in Venues /\ Place[Best(e, Place[o.v])] = Place[o.v]
    BY BestThere
  <2> HIDE DEF Target
  <2>5. QED
    BY <2>1, <2>2, <2>3, <2>4 DEF Occurrences
<1>8. \A i \in Open : jobs[i].kind # "venues" /\ i \in Names
  BY <1>1 DEF JobsSound, Open, Idle
\* Neither the event nor a copy of it is about to be deleted.
<1>9. \A i \in Open : e \notin Dups(i) /\ copies \cap Dups(i) = {}
  <2> TAKE i \in Open
  <2>1. Dups(i) \subseteq Touches(i)
    BY <1>8, EventMerge
  <2>2. \A d \in Dups(i) : status[d] # "none"
    BY <1>8 DEF Dups, JobsSound
  <2>3. QED
    BY <1>1, <1>6, <2>1, <2>2 DEF Free
<1>10. TypeOK'
  <2>1. status' \in [Events -> Statuses] /\ title' \in [Events -> Titles \cup {NoTitle}]
    BY <1>4 DEF TypeOK
  <2>2. occs' \subseteq Occurrences
    <3>1. \A o \in fixed : New(o) \in Occurrences
      BY <1>7
    <3> HIDE DEF New, fixed
    <3>2. QED
      BY <1>4, <3>1 DEF TypeOK, Rows
  <2>3. link' \in [Raws -> Events \cup {NoEvent}]
    <3>1. \A r \in SourcesOf(e) : g[r] \in Events
      BY <1>6
    <3>2. QED
      BY <1>3, <3>1 DEF TypeOK
  <2>4. overtaken' \subseteq Raws
    BY <1>3 DEF TypeOK, SourcesOf
  <2>5. QED
    BY <1>1, <2>1, <2>2, <2>3, <2>4 DEF TypeOK
<1>11. WriterThere'
  BY <1>1 DEF WriterThere
<1>12. occs \ Rows(e) \subseteq occs'
  BY <1>4
<1>13. JobsSound'
  <2>1. \A d \in Events : status[d] # "none" => status'[d] # "none"
    BY <1>4, <1>6
  <2>2. QED
    BY <1>1, <1>12, <2>1, FreeRows
<1>14. Apart'
  BY <1>1, ApartFewer
<1>15. ASSUME NEW r \in Raws, Untouched(r)'
       PROVE  /\ Followed(r)'
              /\ \A s \in Firm(r)' : \E o \in Rows(link[r])' : Stands(o, r, s)' /\ Secure(o)'
  <2>1. Untouched(r)
    BY <1>1, <1>3, <1>15, HealAssumption DEF Untouched, SourcesOf, TypeOK, HealAssumption
  <2>2. CASE link[r] # e
    <3>1. link'[r] = link[r]
      BY <1>3, <2>2 DEF SourcesOf
    <3>2. QED
      BY <1>1, <1>12, <2>1, <2>2, <3>1, FreeKept
  <2>3. CASE link[r] = e
    <3> DEFINE p == Place[seat[r]]
               goes == IF p \in others THEN f[p] ELSE e
    <3>1. link'[r] = goes
      <4>1. r \in SourcesOf(e) /\ r \notin overtaken'
        BY <1>15, <2>3 DEF SourcesOf, Untouched
      <4>2. QED
        BY <1>3, <4>1
    <3>2. \A i \in Open : goes \notin Dups(i)
      BY <1>9
    <3>3. Open' = Open /\ \A i \in Open : jobs'[i] = jobs[i]
      BY <1>1 DEF Open
    <3>4. Followed(r)'
      BY <3>1, <3>2, <3>3 DEF Followed, Dups
    <3>5. ASSUME NEW s \in Firm(r)
          PROVE  \E o \in Rows(link[r])' : Stands(o, r, s)' /\ Secure(o)'
      <4>1. PICK o \in Rows(e) : Stands(o, r, s)
        BY <2>1, <2>3 DEF Kept
      <4>2. o \in fixed /\ Place[o.v] = p /\ o.s = s
        BY <4>1 DEF Stands
      <4>3. New(o).e = goes
        BY <1>7, <4>2
      <4>4. New(o) \in occs'
        BY <1>4, <4>2
      <4>5. PICK n \in occs' : n.e = goes /\ n.s = s /\ n.v \in Venues /\ Place[n.v] = p
        <5> HIDE DEF New, goes, fixed, p
        <5>1. QED
          BY <1>7, <4>2, <4>3, <4>4
      <4>6. n \in Rows(link[r])' /\ Stands(n, r, s)'
        BY <1>1, <3>1, <4>5, HealAssumption DEF Rows, Stands, HealAssumption
      <4>7. Secure(n)'
        BY <1>8, <3>2, <3>3, <4>5 DEF Secure, Dups
      <4>8. QED
        BY <4>6, <4>7
    <3>6. QED
      BY <1>1, <3>4, <3>5 DEF Firm
  <2>4. QED
    BY <2>2, <2>3
<1>16. QED
  BY <1>10, <1>11, <1>13, <1>14, <1>15 DEF Kept

-----------------------------------------------------------------------------
(* The theorems.                                                           *)

LEMMA HealStep == IInv /\ [Next]_vars => IInv'
<1> SUFFICES ASSUME IInv, [Next]_vars PROVE IInv'
  OBVIOUS
<1>1. ASSUME NEW r \in Raws, DedupFind(r) \/ ReprocessRead(r) \/ Edit(r)
      PROVE  IInv'
  BY <1>1, DedupFindStep, ReprocessReadStep, EditStep
<1>2. CASE Write
  BY <1>2, WriteStep
<1>3. CASE ReadVenues \/ ReadEvents \/ ReadJudged
  BY <1>3, ReadsStep
<1>4. CASE Expire
  BY <1>4, StatusStep
<1>5. ASSUME NEW j \in Names, Move(j) \/ CommitEvents(j) \/ CommitVenues(j) \/ Abort(j)
      PROVE  IInv'
  BY <1>5, MoveStep, CommitEventsStep, CommitVenuesStep, AbortStep
<1>6. ASSUME NEW e \in Events, Resplit(e) \/ Resolve(e) \/ Prune(e) \/ Toggle(e)
      PROVE  IInv'
  BY <1>6, ResplitStep, ResolveStep, PruneStep, StatusStep
<1>7. CASE UNCHANGED vars
  <2>1. UNCHANGED <<status, title, occs, link, rooms, seat, lists, stale, writer, jobs, spent, overtaken>>
    BY <1>7 DEF vars, catalogue
  <2>2. TypeOK' /\ WriterThere'
    BY <2>1 DEF IInv, TypeOK, WriterThere
  <2>3. JobsSound'
    BY <2>1, SoundStill DEF IInv, JobsSound, Open
  <2>4. Apart' /\ Kept'
    BY <2>1, ApartFewer, KeptGrows DEF IInv, Untouched
  <2>5. QED
    BY <2>2, <2>3, <2>4 DEF IInv
<1>8. QED
  BY <1>1, <1>2, <1>3, <1>4, <1>5, <1>6, <1>7 DEF Next

\* The catalogue is always in a state in which no open merge is about to lose a session.
THEOREM HealInvariant == Spec => []IInv
  BY HealInit, HealStep, PTL DEF Spec

\* Every timed session that a linked raw lists is in the catalogue at the place of the
\* raw: no merge of venues or events, by rule or by the model, no split, no pruning and
\* no clean-up of placeholders loses it, however they interleave with each other, with
\* the writers, the panel and failures.
THEOREM NoSessionLost == Spec => []WritesKept
<1>1. IInv => WritesKept
  BY DEF IInv, Kept, WritesKept, Rows
<1>2. QED
  BY <1>1, HealInvariant, PTL

\* What the panel hides no other step shows again.
LEMMA HiddenStep ==
  ASSUME IInv, Next, NEW e \in Events, status[e] = "hidden", status'[e] # "hidden", spent' = spent
  PROVE  \E j \in Names : e \in Dups(j)
<1> USE DEF IInv
<1>1. status' # status /\ spent \in Nat
  BY DEF TypeOK
<1>2. ASSUME NEW r \in Raws, DedupFind(r)
      PROVE  FALSE
  <2>1. PICK d : IF Exists(d) THEN UNCHANGED <<status, title>>
                 ELSE /\ status' = [status EXCEPT ![d] = "active"]
                      /\ title' = [title EXCEPT ![d] = Title[r]]
    BY <1>2 DEF DedupFind
  <2>2. d # e
    BY <1>1, <2>1 DEF Exists
  <2>3. QED
    BY <1>1, <2>1, <2>2 DEF TypeOK
<1>3. ASSUME NEW r \in Raws, ReprocessRead(r) \/ Edit(r)
      PROVE  FALSE
  BY <1>1, <1>3 DEF ReprocessRead, Edit, catalogue
<1>4. ~Write /\ ~ReadVenues /\ ~ReadEvents /\ ~ReadJudged
  BY <1>1 DEF Write, ReadVenues, ReadEvents, ReadJudged, Read, catalogue
<1>5. ~Expire
  BY DEF Expire, Standing
<1>6. ASSUME NEW d \in Events, Resplit(d)
      PROVE  FALSE
  <2> DEFINE others == PlacesOf(d) \ {Primary(d)}
  <2>1. PICK f \in [others -> Fresh(Cardinality(others))] :
          status' = [c \in Events |-> IF c \in {f[p] : p \in others} THEN status[d] ELSE status[c]]
    BY <1>6, Zenon DEF Resplit
  <2>2. \A p \in others : status[f[p]] = "none"
    BY DEF Fresh, Unused
  <2>3. QED
    BY <2>1, <2>2
<1>7. ASSUME NEW d \in Events, Resolve(d) \/ Prune(d) \/ Toggle(d)
      PROVE  FALSE
  BY <1>1, <1>7 DEF Resolve, Prune, Toggle, Spend
<1>8. ASSUME NEW j \in Names, Move(j) \/ CommitVenues(j) \/ Abort(j)
      PROVE  FALSE
  BY <1>1, <1>8 DEF Move, CommitVenues, Abort, catalogue
<1>9. PICK j \in Names : CommitEvents(j)
  BY <1>2, <1>3, <1>4, <1>5, <1>6, <1>7, <1>8 DEF Next
<1>10. e \in Dups(j)
  BY <1>9 DEF CommitEvents
<1>11. QED
  BY <1>10

\* A hidden event is shown again by the panel alone; the lifecycle, which brings expired
\* events back, leaves it, and only a merge that has it for a duplicate removes it.
THEOREM HiddenIsHidden == Spec => HiddenStays
<1>1. IInv /\ [Next]_vars =>
        [\A e \in Events : status[e] = "hidden" /\ status'[e] # "hidden" =>
           spent' # spent \/ \E j \in Names : e \in Dups(j)]_vars
  BY HiddenStep
<1>2. QED
  BY <1>1, HealInvariant, PTL DEF Spec, HiddenStays
=============================================================================
