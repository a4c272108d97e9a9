----------------------------- MODULE FriendsProofs -----------------------------
(***************************************************************************)
(* Consent, blocks and links of the friends graph, for any number of       *)
(* users, events and requests in flight.                                   *)
(***************************************************************************)
EXTENDS Friends, TLAPS

-----------------------------------------------------------------------------
(* Pairs and requests in flight.                                           *)

\* The two rows of a pair.
LEMMA PairFacts ==
  ASSUME NEW p \in Pairs
  PROVE  /\ Back(p) \in Pairs /\ Back(Back(p)) = p /\ Back(p) # p
         /\ Ends(Back(p)) = Ends(p)
         /\ \A q \in Pairs : Ends(q) = Ends(p) => q = p \/ q = Back(p)
<1>1. PICK a \in Users, b \in Users : p = <<a, b>> /\ a # b
  BY DEF Pairs
<1>2. Back(p) = <<b, a>> /\ Ends(p) = {a, b}
  BY <1>1 DEF Back, Ends
<1>3. Back(p) \in Pairs /\ Back(Back(p)) = p /\ Back(p) # p /\ Ends(Back(p)) = Ends(p)
  BY <1>1, <1>2 DEF Pairs, Back, Ends
<1>4. ASSUME NEW q \in Pairs, Ends(q) = Ends(p)
      PROVE  q = p \/ q = Back(p)
  <2>1. PICK c \in Users, d \in Users : q = <<c, d>> /\ c # d
    BY DEF Pairs
  <2>2. {c, d} = {a, b}
    BY <1>2, <1>4, <2>1 DEF Ends
  <2>3. (c = a /\ d = b) \/ (c = b /\ d = a)
    BY <2>1, <2>2
  <2>4. QED
    BY <1>1, <1>2, <2>1, <2>3
<1>5. QED
  BY <1>3, <1>4

\* A block is one whichever way round.
LEMMA BlockFacts ==
  ASSUME NEW p \in Pairs
  PROVE  Blocked(p) <=> p \in mutes \/ Back(p) \in mutes
  BY DEF Blocked, Both

\* What a request in flight holds.
LEMMA JobFacts ==
  ASSUME TypeOK, NEW w \in Workers
  PROVE  /\ job[w].op = "none" <=> job[w] = Free
         /\ job[w].op \in Forming \cup Ending \cup {"none"}
         /\ job[w].op # "none" => job[w].pair \in Pairs /\ job[w].rows \in SUBSET Pairs
         /\ job[w].plan # "check" => job[w].op \in Forming
         /\ job[w].rows \in SUBSET Pairs /\ job[w].late \in BOOLEAN
<1>1. job[w] \in Jobs
  BY DEF TypeOK
<1>2. CASE job[w] = Free
  BY <1>2 DEF Free, Forming, Ending
<1>3. CASE job[w] \in [op : Forming, pair : Pairs, plan : Plans, rows : SUBSET Pairs, late : BOOLEAN]
  BY <1>3 DEF Free, Forming, Ending
<1>4. CASE job[w] \in [op : Ending, pair : Pairs, plan : {"check"}, rows : SUBSET Pairs, late : BOOLEAN]
  BY <1>4 DEF Free, Forming, Ending
<1>5. QED
  BY <1>1, <1>2, <1>3, <1>4 DEF Jobs

\* A free worker has no plan and nothing to delete.
LEMMA FreeFacts ==
  /\ Free \in Jobs /\ Free.op = "none" /\ Free.plan = "check" /\ Free.rows = {} /\ Free.late = FALSE
  /\ "none" \notin Forming /\ "none" \notin Ending
  /\ \A op \in Forming : op \notin Ending
  BY DEF Free, Jobs, Forming, Ending

\* What others delete leaves the rest of a request as it is.
LEMMA DeletedFacts ==
  ASSUME NEW R, NEW jobs \in [Workers -> Jobs]
  PROVE  /\ Deleted(R, jobs) \in [Workers -> Jobs]
         /\ \A w \in Workers :
              /\ Deleted(R, jobs)[w].op = jobs[w].op /\ Deleted(R, jobs)[w].pair = jobs[w].pair
              /\ Deleted(R, jobs)[w].plan = jobs[w].plan /\ Deleted(R, jobs)[w].late = jobs[w].late
              /\ Deleted(R, jobs)[w].rows = jobs[w].rows \ R
<1>1. ASSUME NEW w \in Workers, NEW k, k = [jobs[w] EXCEPT !.rows = @ \ R]
      PROVE  /\ k \in Jobs /\ k.op = jobs[w].op /\ k.pair = jobs[w].pair
             /\ k.plan = jobs[w].plan /\ k.late = jobs[w].late /\ k.rows = jobs[w].rows \ R
  <2>1. jobs[w] \in Jobs
    OBVIOUS
  <2>2. CASE jobs[w] = Free
    <3>1. k = Free
      BY <1>1, <2>2 DEF Free
    <3>2. QED
      BY <2>2, <3>1, FreeFacts
  <2>3. CASE jobs[w] \in [op : Forming, pair : Pairs, plan : Plans, rows : SUBSET Pairs, late : BOOLEAN]
    <3>1. k \in [op : Forming, pair : Pairs, plan : Plans, rows : SUBSET Pairs, late : BOOLEAN]
      BY <1>1, <2>3
    <3>2. QED
      BY <1>1, <2>3, <3>1 DEF Jobs
  <2>4. CASE jobs[w] \in [op : Ending, pair : Pairs, plan : {"check"}, rows : SUBSET Pairs, late : BOOLEAN]
    <3>1. k \in [op : Ending, pair : Pairs, plan : {"check"}, rows : SUBSET Pairs, late : BOOLEAN]
      BY <1>1, <2>4
    <3>2. QED
      BY <1>1, <2>4, <3>1 DEF Jobs
  <2>5. QED
    BY <2>1, <2>2, <2>3, <2>4 DEF Jobs
<1>2. QED
  BY <1>1 DEF Deleted

-----------------------------------------------------------------------------
(* Types.                                                                  *)

\* One request goes on.
LEMMA JobType ==
  ASSUME TypeOK, NEW w \in Workers, NEW k \in Jobs, job' = [job EXCEPT ![w] = k]
  PROVE  job' \in [Workers -> Jobs]
  BY DEF TypeOK

\* A request that was checked has a pair, and its plan makes it no other.
LEMMA Planned ==
  ASSUME TypeOK, NEW w \in Workers, job[w].op \in Forming, NEW plan \in Plans
  PROVE  /\ [job[w] EXCEPT !.plan = plan] \in Jobs
         /\ [job[w] EXCEPT !.plan = plan].op = job[w].op
         /\ [job[w] EXCEPT !.plan = plan].pair = job[w].pair
         /\ [job[w] EXCEPT !.plan = plan].plan = plan
         /\ [job[w] EXCEPT !.plan = plan].late = job[w].late
<1>1. job[w] \in [op : Forming, pair : Pairs, plan : Plans, rows : SUBSET Pairs, late : BOOLEAN]
  BY FreeFacts DEF TypeOK, Jobs
<1>2. [job[w] EXCEPT !.plan = plan]
        \in [op : Forming, pair : Pairs, plan : Plans, rows : SUBSET Pairs, late : BOOLEAN]
  BY <1>1
<1>3. QED
  BY <1>1, <1>2 DEF Jobs

\* What Begin starts.
LEMMA BeginFacts ==
  ASSUME TypeOK, NEW w \in Workers, NEW op \in Forming \cup Ending, NEW p \in Pairs,
         NEW rows \in SUBSET Pairs, NEW late \in BOOLEAN, Begin(w, op, p, rows, late)
  PROVE  \E k \in Jobs : /\ job' = [job EXCEPT ![w] = k]
                         /\ k.op = op /\ k.pair = p /\ k.plan = "check" /\ k.rows = rows /\ k.late = late
<1> DEFINE k == [op |-> op, pair |-> p, plan |-> "check", rows |-> rows, late |-> late]
<1>1. k \in Jobs
  BY DEF Jobs, Plans
<1>2. job' = [job EXCEPT ![w] = k]
  BY DEF Begin
<1>3. QED
  BY <1>1, <1>2

LEMMA BeginType ==
  ASSUME TypeOK, NEW w \in Workers, NEW op \in Forming \cup Ending, NEW p \in Pairs,
         NEW rows \in SUBSET Pairs, NEW late \in BOOLEAN, Begin(w, op, p, rows, late),
         UNCHANGED <<graph, ver, offers, shares, agreed, consumed, lateUses>>
  PROVE  TypeOK'
<1>1. job' \in [Workers -> Jobs]
  BY BeginFacts, JobType
<1>2. requests' \in Nat
  BY DEF TypeOK, Begin, Request
<1>3. QED
  BY <1>1, <1>2 DEF TypeOK, graph, offers, shares

LEMMA ParentType == \A p \in Pairs : p[1] \in Users /\ p[2] \in Users
  BY DEF Pairs

\* Rows that are written have a status.
LEMMA PromoteType ==
  ASSUME TypeOK, NEW p \in Pairs
  PROVE  Promote(p) \in [Pairs -> Statuses]
  BY DEF Promote, TypeOK, Statuses

LEMMA TypeStep == TypeOK /\ [Next]_vars => TypeOK'
<1> SUFFICES ASSUME TypeOK, [Next]_vars PROVE TypeOK'
  OBVIOUS
<1>1. ASSUME NEW u \in Users, MakeLink(u) \/ ShareInvite(u)
      PROVE  TypeOK'
  BY <1>1 DEF MakeLink, ShareInvite, Request, TypeOK, graph, shares, history
<1>2. ASSUME NEW u \in Users, NEW on \in BOOLEAN, SetPrivate(u, on)
      PROVE  TypeOK'
  BY <1>2 DEF SetPrivate, Request, TypeOK, graph, offers, history
<1>3. ASSUME NEW u \in Users, NEW e \in Events, NEW s \in {"none", "shown", "hidden"}, SetFavorite(u, e, s)
      PROVE  TypeOK'
  <2>1. fav' \in [Users -> [Events -> {"none", "shown", "hidden"}]] /\ requests' \in Nat
    BY <1>3 DEF SetFavorite, Request, TypeOK
  <2>2. QED
    BY <1>3, <2>1 DEF SetFavorite, TypeOK, graph, offers, history
<1>4. ASSUME NEW p \in Pairs, AcceptRequest(p)
      PROVE  TypeOK'
  <2>1. edge' \in [Pairs -> Statuses] /\ requests' \in Nat
    BY <1>4, PromoteType DEF AcceptRequest, Request, TypeOK
  <2>2. QED
    BY <1>4, <2>1 DEF AcceptRequest, TypeOK, offers, shares
<1>5. ASSUME NEW p \in Pairs, DeclineRequest(p)
      PROVE  TypeOK'
  <2>1. job' \in [Workers -> Jobs] /\ edge' \in [Pairs -> Statuses] /\ requests' \in Nat
    BY <1>5, DeletedFacts DEF DeclineRequest, Request, TypeOK, Statuses
  <2>2. QED
    BY <1>5, <2>1 DEF DeclineRequest, TypeOK, offers, shares, history
<1>6. ASSUME NEW p \in Pairs, Unblock(p)
      PROVE  TypeOK'
  BY <1>6 DEF Unblock, Request, TypeOK, offers, shares, history
<1>7. ASSUME NEW w \in Workers, NEW p \in Pairs, NEW l \in links, OpenLink(w, p, l)
      PROVE  TypeOK'
  <2> DEFINE late == l \in consumed
  <2>1. late \in BOOLEAN /\ "link" \in Forming \cup Ending /\ {} \in SUBSET Pairs
    BY DEF Forming
  <2>2. Begin(w, "link", p, {}, late)
    BY <1>7 DEF OpenLink
  <2> HIDE DEF late
  <2>3. QED
    BY <1>7, <2>1, <2>2, BeginType DEF OpenLink
<1>8. ASSUME NEW w \in Workers, NEW p \in Pairs, OpenInvite(w, p) \/ SendRequest(w, p)
      PROVE  TypeOK'
  BY <1>8, BeginType DEF OpenInvite, SendRequest, Forming
<1>9. ASSUME NEW w \in Workers, NEW p \in Pairs, NEW op \in Ending, StartEnding(w, op, p)
      PROVE  TypeOK'
  <2>1. RowsOf(p) \in SUBSET Pairs
    BY PairFacts DEF RowsOf, Both
  <2>2. QED
    BY <1>9, <2>1, BeginType DEF StartEnding
<1>10. ASSUME NEW w \in Workers, Check(w)
       PROVE  TypeOK'
  <2>1. \E k \in Jobs : job' = [job EXCEPT ![w] = k]
    <3> DEFINE plan == IF job[w].op = "request" THEN RequestPlan(job[w].pair)
                       ELSE BefriendPlan(job[w].pair)
    <3>0. plan \in Plans \cup {"none"}
      BY DEF RequestPlan, BefriendPlan, Plans
    <3>1. job' = [job EXCEPT ![w] = IF plan = "none" THEN Free ELSE [job[w] EXCEPT !.plan = plan]]
      BY <1>10 DEF Check
    <3>2. job[w].op \in Forming
      BY <1>10 DEF Check
    <3> HIDE DEF plan
    <3>3. CASE plan = "none"
      BY <3>1, <3>3, FreeFacts
    <3>4. CASE plan \in Plans
      <4>1. [job[w] EXCEPT !.plan = plan] \in Jobs
        BY <3>2, <3>4, Planned
      <4>2. plan # "none"
        BY <3>4 DEF Plans
      <4>3. QED
        BY <3>1, <4>1, <4>2
    <3>5. QED
      BY <3>0, <3>3, <3>4
  <2>2. job' \in [Workers -> Jobs]
    BY <2>1, JobType
  <2>3. QED
    BY <1>10, <2>2 DEF Check, TypeOK, graph, offers, shares, history
<1>11. ASSUME NEW w \in Workers, Befriend(w)
       PROVE  TypeOK'
  <2>1. job[w].pair \in Pairs
    BY <1>11, JobFacts, FreeFacts DEF Befriend
  <2>2. Both(job[w].pair) \subseteq Pairs
    BY <2>1, PairFacts DEF Both
  <2>3. job' \in [Workers -> Jobs]
    BY <1>11, JobType, FreeFacts DEF Befriend
  <2>4. edge' \in [Pairs -> Statuses] /\ agreed' \subseteq Pairs
    BY <1>11, <2>2 DEF Befriend, TypeOK, Statuses
  <2>5. ver' \in [Users -> Nat] /\ consumed' \subseteq links /\ lateUses' \subseteq Pairs
    BY <1>11, <2>1, ParentType DEF Befriend, TypeOK
  <2>6. QED
    BY <1>11, <2>3, <2>4, <2>5 DEF Befriend, TypeOK, offers, shares
<1>12. ASSUME NEW w \in Workers, AcceptReciprocal(w) \/ InsertPending(w)
       PROVE  TypeOK'
  <2>1. job[w].pair \in Pairs
    BY <1>12, JobFacts, FreeFacts DEF AcceptReciprocal, InsertPending
  <2>2. job' \in [Workers -> Jobs]
    BY <1>12, JobType, FreeFacts DEF AcceptReciprocal, InsertPending
  <2>3. edge' \in [Pairs -> Statuses]
    BY <1>12, <2>1, PromoteType DEF AcceptReciprocal, InsertPending, TypeOK, Statuses
  <2>4. QED
    BY <1>12, <2>1, <2>2, <2>3 DEF AcceptReciprocal, InsertPending, TypeOK, offers, shares
<1>13. ASSUME NEW w \in Workers, Part(w)
       PROVE  TypeOK'
  <2>1. job[w].pair \in Pairs
    BY <1>13, JobFacts, FreeFacts DEF Part
  <2>2. [job EXCEPT ![w] = Free] \in [Workers -> Jobs]
    BY FreeFacts DEF TypeOK
  <2>3. job' \in [Workers -> Jobs]
    BY <1>13, <2>2, DeletedFacts DEF Part
  <2>4. edge' \in [Pairs -> Statuses] /\ mutes' \subseteq Pairs /\ agreed' \subseteq Pairs
    BY <1>13, <2>1 DEF Part, TypeOK, Statuses
  <2>5. QED
    BY <1>13, <2>3, <2>4 DEF Part, TypeOK, offers, shares
<1>14. ASSUME NEW w \in Workers, Abort(w)
       PROVE  TypeOK'
  <2>1. job' \in [Workers -> Jobs]
    BY <1>14, JobType, FreeFacts DEF Abort
  <2>2. QED
    BY <1>14, <2>1 DEF Abort, TypeOK, graph, offers, shares, history
<1>15. CASE UNCHANGED vars
  BY <1>15 DEF vars, TypeOK, graph, offers, shares, history
<1>16. QED
  BY <1>1, <1>2, <1>3, <1>4, <1>5, <1>6, <1>7, <1>8, <1>9, <1>10, <1>11, <1>12, <1>13, <1>14, <1>15
     DEF Next

\* Who parts is free; what it deleted, others do not delete.
LEMMA PartJobs ==
  ASSUME TypeOK, NEW w \in Workers, Part(w)
  PROVE  /\ job' \in [Workers -> Jobs]
         /\ job'[w].op = "none" /\ job'[w].plan = "check" /\ job'[w].late = FALSE
         /\ \A v \in Workers \ {w} :
              /\ job'[v].op = job[v].op /\ job'[v].pair = job[v].pair
              /\ job'[v].plan = job[v].plan /\ job'[v].late = job[v].late
              /\ job'[v].rows = job[v].rows \ job[w].rows
<1> DEFINE left == [job EXCEPT ![w] = Free]
<1>1. left \in [Workers -> Jobs] /\ left[w] = Free /\ \A v \in Workers \ {w} : left[v] = job[v]
  BY FreeFacts DEF TypeOK
<1>2. job' = Deleted(job[w].rows, left)
  BY DEF Part
<1> HIDE DEF left
<1>3. \A v \in Workers :
        /\ job'[v].op = left[v].op /\ job'[v].pair = left[v].pair
        /\ job'[v].plan = left[v].plan /\ job'[v].late = left[v].late
        /\ job'[v].rows = left[v].rows \ job[w].rows
  BY <1>1, <1>2, DeletedFacts
<1>4. job' \in [Workers -> Jobs]
  BY <1>1, <1>2, DeletedFacts
<1>5. QED
  BY <1>1, <1>3, <1>4, FreeFacts

-----------------------------------------------------------------------------
(* Links.                                                                  *)

\* A step that uses no link, and makes no request late.
LEMMA LinksKeep ==
  ASSUME LinksSpent, UNCHANGED <<ver, consumed, lateUses>>,
         \A w \in Workers : job'[w].late = job[w].late \/ ~job'[w].late
  PROVE  LinksSpent'
  BY DEF LinksSpent, LinkDies

\* A request that starts on no consumed link.
LEMMA LinksBegin ==
  ASSUME TypeOK, LinksSpent, UNCHANGED <<ver, consumed, lateUses>>,
         NEW w \in Workers, NEW k, ~k.late, job' = [job EXCEPT ![w] = k]
  PROVE  LinksSpent'
<1>1. \A v \in Workers : job'[v].late = job[v].late \/ ~job'[v].late
  BY DEF TypeOK
<1>2. QED
  BY <1>1, LinksKeep

LEMMA LinksStep == TypeOK /\ LinksSpent /\ [Next]_vars => LinksSpent'
<1> SUFFICES ASSUME TypeOK, LinksSpent, [Next]_vars PROVE LinksSpent'
  OBVIOUS
<1>1. ASSUME UNCHANGED <<ver, consumed, lateUses, job>>
      PROVE  LinksSpent'
  BY <1>1, LinksKeep
<1>2. ASSUME UNCHANGED <<ver, consumed, lateUses>>, NEW w \in Workers, job' = [job EXCEPT ![w] = Free]
      PROVE  LinksSpent'
  <2>1. \A v \in Workers : job'[v].late = job[v].late \/ ~job'[v].late
    BY <1>2, FreeFacts DEF TypeOK
  <2>2. QED
    BY <1>2, <2>1, LinksKeep
<1>3. ASSUME NEW u \in Users,
             \/ MakeLink(u) \/ ShareInvite(u)
             \/ \E on \in BOOLEAN : SetPrivate(u, on)
             \/ \E e \in Events, s \in {"none", "shown", "hidden"} : SetFavorite(u, e, s)
      PROVE  LinksSpent'
  BY <1>1, <1>3 DEF MakeLink, ShareInvite, SetPrivate, SetFavorite, history
<1>4. ASSUME NEW p \in Pairs, AcceptRequest(p) \/ Unblock(p)
      PROVE  LinksSpent'
  BY <1>1, <1>4 DEF AcceptRequest, Unblock, history
<1>5. ASSUME NEW p \in Pairs, DeclineRequest(p)
      PROVE  LinksSpent'
  <2>1. job' = Deleted({p}, job) /\ UNCHANGED <<ver, consumed, lateUses>>
    BY <1>5 DEF DeclineRequest, history
  <2>2. \A v \in Workers : job'[v].late = job[v].late
    BY <2>1, DeletedFacts DEF TypeOK
  <2>3. QED
    BY <2>1, <2>2, LinksKeep
<1>6. ASSUME NEW w \in Workers, NEW p \in Pairs, NEW l \in links, OpenLink(w, p, l)
      PROVE  LinksSpent'
  <2>1. l[1] \in Users /\ l[2] \in Nat /\ ver[l[1]] \in Nat
    BY DEF TypeOK
  <2>2. l \notin consumed
    BY <1>6, <2>1 DEF OpenLink, LinkVerifies, LinksSpent
  <2> DEFINE k == [op |-> "link", pair |-> p, plan |-> "check", rows |-> {}, late |-> l \in consumed]
  <2>3. job' = [job EXCEPT ![w] = k] /\ UNCHANGED <<ver, consumed, lateUses>>
    BY <1>6 DEF OpenLink, Begin
  <2>4. ~k.late
    BY <2>2
  <2> HIDE DEF k
  <2>5. QED
    BY <2>3, <2>4, LinksBegin
<1>7. ASSUME NEW w \in Workers, NEW p \in Pairs, NEW op, NEW rows,
             Begin(w, op, p, rows, FALSE), UNCHANGED <<ver, consumed, lateUses>>
      PROVE  LinksSpent'
  <2> DEFINE k == [op |-> op, pair |-> p, plan |-> "check", rows |-> rows, late |-> FALSE]
  <2>1. job' = [job EXCEPT ![w] = k]
    BY <1>7 DEF Begin
  <2>2. ~k.late
    OBVIOUS
  <2> HIDE DEF k
  <2>3. QED
    BY <1>7, <2>1, <2>2, LinksBegin
<1>8. ASSUME NEW w \in Workers, NEW p \in Pairs,
             OpenInvite(w, p) \/ SendRequest(w, p) \/ \E op \in Ending : StartEnding(w, op, p)
      PROVE  LinksSpent'
  BY <1>7, <1>8, Zenon DEF OpenInvite, SendRequest, StartEnding
<1>9. ASSUME NEW w \in Workers, Check(w)
      PROVE  LinksSpent'
  <2>1. UNCHANGED <<ver, consumed, lateUses>> /\ job[w].op \in Forming
    BY <1>9 DEF Check, history
  <2>2. CASE job' = [job EXCEPT ![w] = Free]
    BY <1>2, <2>1, <2>2
  <2>3. ASSUME NEW plan \in Plans, job' = [job EXCEPT ![w] = [job[w] EXCEPT !.plan = plan]]
        PROVE  LinksSpent'
    <3>1. \A v \in Workers : job'[v].late = job[v].late
      BY <2>1, <2>3, Planned DEF TypeOK
    <3>2. QED
      BY <2>1, <3>1, LinksKeep
  <2> DEFINE plan == IF job[w].op = "request" THEN RequestPlan(job[w].pair)
                     ELSE BefriendPlan(job[w].pair)
  <2>4. plan \in Plans \cup {"none"}
    BY DEF RequestPlan, BefriendPlan, Plans
  <2>5. job' = [job EXCEPT ![w] = IF plan = "none" THEN Free ELSE [job[w] EXCEPT !.plan = plan]]
    BY <1>9 DEF Check
  <2> HIDE DEF plan
  <2>6. CASE plan = "none"
    BY <2>2, <2>5, <2>6
  <2>7. CASE plan \in Plans
    <3>1. plan # "none"
      BY <2>7 DEF Plans
    <3>2. QED
      BY <2>3, <2>5, <2>7, <3>1
  <2>8. QED
    BY <2>4, <2>6, <2>7
<1>10. ASSUME NEW w \in Workers, Befriend(w)
       PROVE  LinksSpent'
  <2>1. job' = [job EXCEPT ![w] = Free] /\ lateUses' = lateUses
    BY <1>10 DEF Befriend, LinksSpent
  <2>2. CASE job[w].op # "link"
    BY <1>2, <1>10, <2>1, <2>2 DEF Befriend
  <2>3. CASE job[w].op = "link"
    <3>1. job[w].pair \in Pairs
      BY <1>10, JobFacts, FreeFacts DEF Befriend
    <3> DEFINE o == job[w].pair[2]
    <3>2. /\ o \in Users /\ ver' = [ver EXCEPT ![o] = @ + 1]
          /\ consumed' = consumed \cup {l \in links : l[1] = o /\ l[2] <= ver[o]}
      BY <1>10, <2>3, <3>1, ParentType DEF Befriend
    <3>3. \A u \in Users : ver[u] \in Nat /\ ver[u] <= ver'[u] /\ (u = o => ver'[u] = ver[u] + 1)
      BY <3>2 DEF TypeOK
    <3>4. \A l \in links : l[1] \in Users /\ l[2] \in Nat
      BY DEF TypeOK
    <3>5. consumed \subseteq links
      BY DEF TypeOK
    <3>6. \A l \in consumed' : l[2] < ver'[l[1]]
      <4>1. ASSUME NEW l \in consumed PROVE l[2] < ver'[l[1]]
        <5>1. l[2] < ver[l[1]] /\ ver[l[1]] <= ver'[l[1]] /\ l[2] \in Nat /\ ver[l[1]] \in Nat /\ ver'[l[1]] \in Nat
          BY <3>2, <3>3, <3>4, <3>5 DEF LinksSpent, TypeOK
        <5>2. QED
          BY <5>1
      <4>2. ASSUME NEW l \in links, l[1] = o, l[2] <= ver[o] PROVE l[2] < ver'[l[1]]
        BY <3>2, <3>3, <3>4, <4>2
      <4>3. QED
        BY <3>2, <4>1, <4>2
    <3>7. \A v \in Workers : ~job'[v].late
      BY <2>1, FreeFacts DEF LinksSpent, TypeOK
    <3>8. QED
      BY <2>1, <3>6, <3>7 DEF LinksSpent, LinkDies
  <2>4. QED
    BY <2>2, <2>3
<1>11. ASSUME NEW w \in Workers, AcceptReciprocal(w) \/ InsertPending(w) \/ Abort(w)
       PROVE  LinksSpent'
  BY <1>2, <1>11 DEF AcceptReciprocal, InsertPending, Abort, history
<1>12. ASSUME NEW w \in Workers, Part(w)
       PROVE  LinksSpent'
  <2>1. \A v \in Workers : job'[v].late = job[v].late \/ ~job'[v].late
    BY <1>12, PartJobs, FreeFacts
  <2>2. UNCHANGED <<ver, consumed, lateUses>>
    BY <1>12 DEF Part
  <2>3. QED
    BY <2>1, <2>2, LinksKeep
<1>13. CASE UNCHANGED vars
  BY <1>1, <1>13 DEF vars, history
<1>14. QED
  BY <1>3, <1>4, <1>5, <1>6, <1>7, <1>8, <1>9, <1>10, <1>11, <1>12, <1>13 DEF Next

-----------------------------------------------------------------------------
(* The graph.                                                              *)

Graph == RacesKnown /\ PlansClear /\ RowsSeen /\ Apart /\ FriendsByConsent /\ Asked

\* A request that is over, or one that goes on as it was.
Over(v) == job'[v].op = "none" /\ job'[v].plan = "check"
Same(v) == job'[v].op = job[v].op /\ job'[v].pair = job[v].pair

\* The pairs of requests in flight.
LEMMA JobPairs ==
  ASSUME TypeOK, NEW w \in Workers, job[w].op \in Forming \cup Ending
  PROVE  /\ job[w].pair \in Pairs
         /\ Both(job[w].pair) \subseteq Pairs
         /\ \A q \in Both(job[w].pair) : Ends(q) = Ends(job[w].pair)
  BY JobFacts, FreeFacts, PairFacts DEF Both

\* No row changes; a request may be over, or go on with a plan that no block forbids.
LEMMA GraphKeep ==
  ASSUME TypeOK, Graph, UNCHANGED <<edge, mutes>>, raced \subseteq raced', agreed \subseteq agreed',
         \A v \in Workers :
           \/ Over(v)
           \/ /\ Same(v) /\ (job[v].op \in Ending => job'[v].rows = job[v].rows)
              /\ job'[v].plan = job[v].plan \/ ~Blocked(job[v].pair)
  PROVE  Graph'
<1>1. RacesKnown'
  BY FreeFacts DEF Graph, RacesKnown, Over, Same
<1>2. PlansClear'
  BY DEF Graph, PlansClear, Over, Same, Blocked
<1>3. RowsSeen'
  BY FreeFacts DEF Graph, RowsSeen, Over, Same
<1>4. Apart' /\ FriendsByConsent' /\ Asked'
  BY DEF Graph, Apart, FriendsByConsent, Asked, Blocked, AreFriends
<1>5. QED
  BY <1>1, <1>2, <1>3, <1>4 DEF Graph

\* A request starts, and a race with one that is in flight becomes known.
LEMMA GraphBegin ==
  ASSUME TypeOK, Graph, UNCHANGED <<edge, mutes, agreed>>, raced \subseteq raced',
         NEW w \in Workers, NEW k, job' = [job EXCEPT ![w] = k],
         k.op \in Forming \cup Ending, k.pair \in Pairs, k.plan = "check",
         k.op \in Ending => k.rows = RowsOf(k.pair),
         \A v \in Workers :
           \/ Ends(job[v].pair) # Ends(k.pair) \/ Ends(k.pair) \in raced'
           \/ ~(k.op \in Forming /\ job[v].op \in Ending) /\ ~(k.op \in Ending /\ job[v].op \in Forming)
  PROVE  Graph'
<1>0. job'[w] = k /\ \A v \in Workers \ {w} : job'[v] = job[v]
  BY DEF TypeOK
<1>1. RacesKnown'
  BY <1>0, FreeFacts DEF Graph, RacesKnown
<1>2. PlansClear'
  BY <1>0 DEF Graph, PlansClear, Blocked
<1>3. RowsSeen'
  <2>1. ASSUME NEW v \in Workers, job'[v].op \in Ending
        PROVE  /\ job'[v].rows \subseteq Both(job'[v].pair)
               /\ \A q \in Both(job'[v].pair) :
                    edge'[q] = "none" \/ q \in job'[v].rows \/ Ends(q) \in raced'
    <3>1. CASE v = w
      BY <1>0, <2>1, <3>1 DEF RowsOf
    <3>2. CASE v # w
      BY <1>0, <2>1, <3>2 DEF Graph, RowsSeen
    <3>3. QED
      BY <3>1, <3>2
  <2>2. QED
    BY <2>1 DEF RowsSeen
<1>4. Apart' /\ FriendsByConsent' /\ Asked'
  BY DEF Graph, Apart, FriendsByConsent, Asked, Blocked, AreFriends
<1>5. QED
  BY <1>1, <1>2, <1>3, <1>4 DEF Graph

\* The rows of a pair that is not being parted become a request or a friendship that was
\* agreed to.
LEMMA GraphJoin ==
  ASSUME TypeOK, Graph, UNCHANGED mutes, raced \subseteq raced', agreed \subseteq agreed',
         NEW p \in Pairs,
         \A q \in Pairs : q = p \/ q = Back(p) \/ edge'[q] = edge[q],
         \A v \in Workers : Over(v) \/ job'[v] = job[v],
         \A v \in Workers : job[v].op \in Ending /\ Ends(job[v].pair) = Ends(p) => Ends(p) \in raced',
         Blocked(p) => Ends(p) \in raced',
         \/ Ends(p) \in raced'
         \/ /\ edge'[p] = "accepted" /\ edge'[Back(p)] = "accepted"
            /\ p \in agreed' /\ Back(p) \in agreed'
         \/ /\ edge'[p] # "accepted" /\ edge'[Back(p)] # "accepted"
            /\ edge'[p] = "pending" => Back(p) \in agreed'
            /\ edge'[Back(p)] = "pending" => p \in agreed'
  PROVE  Graph'
<1>0. /\ Back(p) \in Pairs /\ Back(Back(p)) = p /\ Ends(Back(p)) = Ends(p)
  BY PairFacts
<1>1. RacesKnown' /\ PlansClear'
  BY FreeFacts DEF Graph, RacesKnown, PlansClear, Over, Blocked
<1>2. RowsSeen'
  <2>1. ASSUME NEW v \in Workers, job'[v].op \in Ending
        PROVE  /\ job'[v].rows \subseteq Both(job'[v].pair)
               /\ \A q \in Both(job'[v].pair) :
                    edge'[q] = "none" \/ q \in job'[v].rows \/ Ends(q) \in raced'
    <3>1. job'[v] = job[v]
      BY <2>1, FreeFacts DEF Over
    <3>2. \A q \in Both(job[v].pair) : q \in Pairs /\ Ends(q) = Ends(job[v].pair)
      BY <2>1, <3>1, JobPairs
    <3>3. CASE Ends(job[v].pair) = Ends(p)
      BY <2>1, <3>1, <3>2, <3>3 DEF Graph, RowsSeen
    <3>4. CASE Ends(job[v].pair) # Ends(p)
      BY <1>0, <2>1, <3>1, <3>2, <3>4 DEF Graph, RowsSeen
    <3>5. QED
      BY <3>3, <3>4
  <2>2. QED
    BY <2>1 DEF RowsSeen
<1>3. Apart'
  <2>1. ASSUME NEW q \in Pairs, Blocked(q)'
        PROVE  edge'[q] = "none" \/ Ends(q) \in raced'
    <3>1. Blocked(q)
      BY <2>1 DEF Blocked
    <3>2. CASE q = p \/ q = Back(p)
      <4>1. Blocked(p)
        BY <1>0, <3>1, <3>2, BlockFacts
      <4>2. QED
        BY <1>0, <3>2, <4>1
    <3>3. CASE q # p /\ q # Back(p)
      BY <3>1, <3>3 DEF Graph, Apart
    <3>4. QED
      BY <3>2, <3>3
  <2>2. QED
    BY <2>1 DEF Apart
<1>4. ASSUME NEW q \in Pairs
      PROVE  /\ edge'[q] = "accepted" => \/ /\ edge'[Back(q)] = "accepted"
                                            /\ q \in agreed' /\ Back(q) \in agreed'
                                         \/ Ends(q) \in raced'
             /\ edge'[q] = "pending" => Back(q) \in agreed' \/ Ends(q) \in raced'
  <2>1. CASE q = p \/ q = Back(p)
    BY <1>0, <2>1
  <2>2. CASE q # p /\ q # Back(p)
    <3>1. Back(q) \in Pairs /\ Back(q) # p /\ Back(q) # Back(p)
      BY <1>0, <2>2, PairFacts
    <3>2. edge'[q] = edge[q] /\ edge'[Back(q)] = edge[Back(q)]
      BY <2>2, <3>1
    <3>3. QED
      BY <3>2 DEF Graph, FriendsByConsent, Asked, AreFriends, Both
  <2>3. QED
    BY <2>1, <2>2
<1>5. FriendsByConsent' /\ Asked'
  BY <1>4 DEF FriendsByConsent, Asked, AreFriends, Both
<1>6. QED
  BY <1>1, <1>2, <1>3, <1>5 DEF Graph

\* Rows of a pair vanish, from what others delete too; what was agreed on may end with all
\* of them.
LEMMA GraphDrop ==
  ASSUME TypeOK, Graph, UNCHANGED raced,
         NEW p \in Pairs, NEW R \in SUBSET Both(p),
         edge' = [q \in Pairs |-> IF q \in R THEN "none" ELSE edge[q]],
         mutes \subseteq mutes', mutes' \subseteq mutes \cup {p}, agreed \ Both(p) \subseteq agreed',
         \A v \in Workers : \/ Over(v)
                            \/ /\ Same(v) /\ job'[v].plan = job[v].plan
                               /\ job'[v].rows = job[v].rows \ R,
         \/ Ends(p) \in raced
         \/ edge'[p] = "none" /\ edge'[Back(p)] = "none"
         \/ /\ UNCHANGED <<agreed, mutes>>
            /\ edge'[p] # "accepted" /\ edge'[Back(p)] # "accepted",
         \/ UNCHANGED mutes
         \/ \A v \in Workers : job[v].op \in Forming /\ Ends(job[v].pair) = Ends(p) => Ends(p) \in raced
  PROVE  Graph'
<1>0. /\ Back(p) \in Pairs /\ Back(Back(p)) = p /\ Ends(Back(p)) = Ends(p)
  BY PairFacts
<1>1. RacesKnown'
  BY FreeFacts DEF Graph, RacesKnown, Over, Same
<1>2. PlansClear'
  <2>1. ASSUME NEW v \in Workers, job'[v].plan # "check", Blocked(job[v].pair)'
        PROVE  Ends(job'[v].pair) \in raced'
    <3>1. Same(v) /\ job[v].plan # "check"
      BY <2>1 DEF Over
    <3>2. job[v].op \in Forming
      BY <3>1, JobFacts
    <3>3. job[v].pair \in Pairs
      BY <3>2, JobPairs
    <3>4. CASE Blocked(job[v].pair)
      BY <3>1, <3>4 DEF Graph, PlansClear, Same
    <3>5. CASE ~Blocked(job[v].pair)
      <4>1. mutes' # mutes /\ p \in Both(job[v].pair)
        BY <2>1, <3>1, <3>5 DEF Blocked, Same
      <4>2. Ends(p) = Ends(job[v].pair)
        BY <3>2, <4>1, JobPairs
      <4>3. QED
        BY <3>1, <3>2, <4>1, <4>2 DEF Same
    <3>6. QED
      BY <3>4, <3>5
  <2>2. QED
    BY <2>1 DEF PlansClear
<1>3. RowsSeen'
  <2>1. ASSUME NEW v \in Workers, job'[v].op \in Ending
        PROVE  /\ job'[v].rows \subseteq Both(job'[v].pair)
               /\ \A q \in Both(job'[v].pair) :
                    edge'[q] = "none" \/ q \in job'[v].rows \/ Ends(q) \in raced'
    <3>1. Same(v) /\ job'[v].rows = job[v].rows \ R /\ job[v].op \in Ending
      BY <2>1, FreeFacts DEF Over, Same
    <3>2. Both(job[v].pair) \subseteq Pairs
      BY <3>1, JobPairs
    <3>3. QED
      BY <3>1, <3>2 DEF Graph, RowsSeen, Same
  <2>2. QED
    BY <2>1 DEF RowsSeen
<1>4. ASSUME NEW q \in Pairs
      PROVE  /\ Blocked(q)' => edge'[q] = "none" \/ Ends(q) \in raced'
             /\ edge'[q] = "accepted" => \/ /\ edge'[Back(q)] = "accepted"
                                            /\ q \in agreed' /\ Back(q) \in agreed'
                                         \/ Ends(q) \in raced'
             /\ edge'[q] = "pending" => Back(q) \in agreed' \/ Ends(q) \in raced'
  <2>1. Back(q) \in Pairs /\ Back(Back(q)) = q /\ Ends(Back(q)) = Ends(q)
    BY PairFacts
  <2>2. edge'[q] = edge[q] \/ edge'[q] = "none"
    OBVIOUS
  <2>3. Blocked(q) => edge[q] = "none" \/ Ends(q) \in raced
    BY DEF Graph, Apart
  <2>4. edge[q] = "accepted" => \/ edge[Back(q)] = "accepted" /\ q \in agreed /\ Back(q) \in agreed
                                \/ Ends(q) \in raced
    BY DEF Graph, FriendsByConsent, AreFriends, Both
  <2>5. edge[q] = "pending" => Back(q) \in agreed \/ Ends(q) \in raced
    BY DEF Graph, Asked
  <2>6. CASE q = p \/ q = Back(p)
    <3>1. UNCHANGED mutes => (Blocked(q)' <=> Blocked(q))
      BY DEF Blocked
    <3>2. QED
      BY <1>0, <2>1, <2>2, <2>3, <2>4, <2>5, <2>6, <3>1
  <2>7. CASE q # p /\ q # Back(p)
    <3>1. Back(q) # p /\ Back(q) # Back(p)
      BY <1>0, <2>1, <2>7
    <3>2. edge'[q] = edge[q] /\ edge'[Back(q)] = edge[Back(q)]
      BY <2>1, <2>7, <3>1 DEF Both
    <3>3. Blocked(q)' => Blocked(q)
      BY <2>7, <3>1 DEF Blocked, Both
    <3>4. (q \in agreed => q \in agreed') /\ (Back(q) \in agreed => Back(q) \in agreed')
      BY <2>7, <3>1 DEF Both
    <3>5. QED
      BY <2>3, <2>4, <2>5, <3>2, <3>3, <3>4
  <2>8. QED
    BY <2>6, <2>7
<1>5. Apart' /\ FriendsByConsent' /\ Asked'
  BY <1>4 DEF Apart, FriendsByConsent, Asked, AreFriends, Both
<1>6. QED
  BY <1>1, <1>2, <1>3, <1>5 DEF Graph

-----------------------------------------------------------------------------
(* The steps of the graph.                                                 *)

\* A request that starts finds the races that it makes.
LEMMA BeginGraph ==
  ASSUME TypeOK, Graph, UNCHANGED <<edge, mutes, agreed>>,
         NEW w \in Workers, NEW op \in Forming \cup Ending, NEW p \in Pairs, NEW rows, NEW late,
         Begin(w, op, p, rows, late), op \in Ending => rows = RowsOf(p)
  PROVE  Graph'
<1> DEFINE k == [op |-> op, pair |-> p, plan |-> "check", rows |-> rows, late |-> late]
<1>1. /\ job' = [job EXCEPT ![w] = k]
      /\ raced' = IF Overlaps(p, IF op \in Forming THEN Ending ELSE Forming)
                  THEN raced \cup {Ends(p)} ELSE raced
  BY DEF Begin
<1>2. k.op = op /\ k.pair = p /\ k.plan = "check" /\ k.rows = rows
  OBVIOUS
<1> HIDE DEF k
<1>3. ASSUME NEW v \in Workers, Ends(job[v].pair) = Ends(k.pair),
             (k.op \in Forming /\ job[v].op \in Ending) \/ (k.op \in Ending /\ job[v].op \in Forming)
      PROVE  Ends(k.pair) \in raced'
  <2>1. Ends(job[v].pair) = Ends(p)
    BY <1>2, <1>3
  <2>2. CASE op \in Forming
    <3>1. raced' = IF Overlaps(p, Ending) THEN raced \cup {Ends(p)} ELSE raced
      BY <1>1, <2>2
    <3>2. job[v].op \in Ending
      BY <1>2, <1>3, <2>2, FreeFacts
    <3>3. Overlaps(p, Ending)
      BY <2>1, <3>2 DEF Overlaps
    <3>4. QED
      BY <1>2, <3>1, <3>3
  <2>3. CASE op \in Ending
    <3>1. raced' = IF Overlaps(p, Forming) THEN raced \cup {Ends(p)} ELSE raced
      BY <1>1, <2>3, FreeFacts
    <3>2. job[v].op \in Forming
      BY <1>2, <1>3, <2>3, FreeFacts
    <3>3. Overlaps(p, Forming)
      BY <2>1, <3>2 DEF Overlaps
    <3>4. QED
      BY <1>2, <3>1, <3>3
  <2>4. QED
    BY <2>2, <2>3
<1>4. /\ raced \subseteq raced'
      /\ k.op \in Forming \cup Ending /\ k.pair \in Pairs /\ k.plan = "check"
      /\ k.op \in Ending => k.rows = RowsOf(k.pair)
  BY <1>1, <1>2
<1>5. QED
  BY <1>1, <1>3, <1>4, GraphBegin

\* A request that joins knows of every race with one that parts, and of every block.
LEMMA Joining ==
  ASSUME TypeOK, Graph, NEW w \in Workers, job[w].plan # "check"
  PROVE  /\ job[w].op \in Forming /\ job[w].pair \in Pairs
         /\ \A v \in Workers : job[v].op \in Ending /\ Ends(job[v].pair) = Ends(job[w].pair)
                                 => Ends(job[w].pair) \in raced
         /\ Blocked(job[w].pair) => Ends(job[w].pair) \in raced
<1>1. job[w].op \in Forming
  BY JobFacts
<1>2. job[w].pair \in Pairs
  BY <1>1, JobPairs
<1>3. QED
  BY <1>1, <1>2 DEF Graph, RacesKnown, PlansClear

\* A free worker's request is over, and the others go on.
LEMMA Freed ==
  ASSUME TypeOK, NEW w \in Workers, job' = [job EXCEPT ![w] = Free]
  PROVE  \A v \in Workers : Over(v) \/ job'[v] = job[v]
  BY FreeFacts DEF TypeOK, Over

\* The promotion of a request that was made and not withdrawn.
LEMMA PromoteGraph ==
  ASSUME TypeOK, Graph, UNCHANGED mutes, raced \subseteq raced', agreed \subseteq agreed',
         NEW p \in Pairs, edge' = Promote(p), p \in agreed',
         \A v \in Workers : Over(v) \/ job'[v] = job[v],
         \A v \in Workers : job[v].op \in Ending /\ Ends(job[v].pair) = Ends(p) => Ends(p) \in raced'
  PROVE  Graph'
<1>1. CASE edge[p] # "pending"
  BY <1>1, GraphKeep DEF Promote, Same
<1>2. CASE edge[p] = "pending"
  <2>1. /\ edge'[p] = "accepted" /\ edge'[Back(p)] = "accepted"
        /\ \A q \in Pairs : q = p \/ q = Back(p) \/ edge'[q] = edge[q]
    BY <1>2, PairFacts DEF Promote, Both
  <2>2. Back(p) \in agreed \/ Ends(p) \in raced
    BY <1>2 DEF Graph, Asked
  <2>3. Blocked(p) => Ends(p) \in raced
    BY <1>2 DEF Graph, Apart
  <2>4. QED
    BY <2>1, <2>2, <2>3, GraphJoin
<1>3. QED
  BY <1>1, <1>2

LEMMA GraphStep == TypeOK /\ Graph /\ [Next]_vars => Graph'
<1> SUFFICES ASSUME TypeOK, Graph, [Next]_vars PROVE Graph'
  OBVIOUS
<1>1. ASSUME UNCHANGED <<edge, mutes, job, agreed, raced>>
      PROVE  Graph'
  BY <1>1, GraphKeep DEF Same
<1>2. ASSUME NEW u \in Users,
             \/ MakeLink(u) \/ ShareInvite(u)
             \/ \E on \in BOOLEAN : SetPrivate(u, on)
             \/ \E e \in Events, s \in {"none", "shown", "hidden"} : SetFavorite(u, e, s)
      PROVE  Graph'
  BY <1>1, <1>2 DEF MakeLink, ShareInvite, SetPrivate, SetFavorite, graph, history
<1>3. ASSUME NEW p \in Pairs, AcceptRequest(p)
      PROVE  Graph'
  <2>1. /\ edge' = Promote(p) /\ agreed' = agreed \cup {p} /\ UNCHANGED <<mutes, job>>
        /\ raced' = IF Overlaps(p, Ending) THEN raced \cup {Ends(p)} ELSE raced
    BY <1>3 DEF AcceptRequest
  <2>2. \A v \in Workers : job[v].op \in Ending /\ Ends(job[v].pair) = Ends(p) => Ends(p) \in raced'
    BY <2>1 DEF Overlaps
  <2>3. QED
    BY <2>1, <2>2, PromoteGraph
<1>4. ASSUME NEW p \in Pairs, DeclineRequest(p)
      PROVE  Graph'
  <2>1. /\ edge[p] = "pending" /\ edge' = [edge EXCEPT ![p] = "none"]
        /\ job' = Deleted({p}, job) /\ UNCHANGED <<mutes, agreed, raced>>
    BY <1>4 DEF DeclineRequest, history
  <2>2. \A v \in Workers : Same(v) /\ job'[v].plan = job[v].plan /\ job'[v].rows = job[v].rows \ {p}
    BY <2>1, DeletedFacts DEF TypeOK, Same
  <2>3. edge' = [q \in Pairs |-> IF q \in {p} THEN "none" ELSE edge[q]] /\ {p} \in SUBSET Both(p)
    BY <2>1 DEF TypeOK, Both
  <2>4. edge'[p] # "accepted" /\ (edge'[Back(p)] # "accepted" \/ Ends(p) \in raced)
    <3>1. Back(p) \in Pairs /\ Back(Back(p)) = p /\ Back(p) # p /\ Ends(Back(p)) = Ends(p)
      BY PairFacts
    <3>2. edge[Back(p)] = "accepted" => edge[p] = "accepted" \/ Ends(p) \in raced
      BY <3>1 DEF Graph, FriendsByConsent, AreFriends
    <3>3. QED
      BY <2>1, <3>1, <3>2 DEF TypeOK
  <2>5. QED
    BY <2>1, <2>2, <2>3, <2>4, GraphDrop
<1>5. ASSUME NEW p \in Pairs, Unblock(p)
      PROVE  Graph'
  <2>1. mutes' \subseteq mutes /\ UNCHANGED <<edge, job, agreed, raced>>
    BY <1>5 DEF Unblock, history
  <2>2. \A q \in Pairs : Blocked(q)' => Blocked(q)
    BY <2>1 DEF Blocked
  <2>3. PlansClear'
    BY <2>1 DEF Graph, PlansClear, Blocked
  <2>4. Apart'
    BY <2>1, <2>2 DEF Graph, Apart
  <2>5. RacesKnown' /\ RowsSeen' /\ FriendsByConsent' /\ Asked'
    BY <2>1 DEF Graph, RacesKnown, RowsSeen, FriendsByConsent, Asked, AreFriends
  <2>6. QED
    BY <2>3, <2>4, <2>5 DEF Graph
<1>6. ASSUME NEW w \in Workers, NEW p \in Pairs, NEW l \in links, OpenLink(w, p, l)
      PROVE  Graph'
  <2> DEFINE late == l \in consumed
  <2>1. Begin(w, "link", p, {}, late) /\ UNCHANGED <<edge, mutes, agreed>>
    BY <1>6 DEF OpenLink, graph
  <2> HIDE DEF late
  <2>2. "link" \in Forming \cup Ending /\ "link" \notin Ending
    BY DEF Forming, Ending
  <2>3. QED
    BY <2>1, <2>2, BeginGraph
<1>7. ASSUME NEW w \in Workers, NEW p \in Pairs, NEW op \in {"invite", "request"}, NEW late,
             Begin(w, op, p, {}, late), UNCHANGED <<edge, mutes, agreed>>
      PROVE  Graph'
  <2>1. op \in Forming \cup Ending /\ op \notin Ending
    BY DEF Forming, Ending
  <2>2. QED
    BY <1>7, <2>1, BeginGraph
<1>8. ASSUME NEW w \in Workers, NEW p \in Pairs, OpenInvite(w, p) \/ SendRequest(w, p)
      PROVE  Graph'
  BY <1>7, <1>8, Zenon DEF OpenInvite, SendRequest, graph
<1>9. ASSUME NEW w \in Workers, NEW p \in Pairs, NEW op \in Ending, StartEnding(w, op, p)
      PROVE  Graph'
  BY <1>9, BeginGraph, Zenon DEF StartEnding, graph
<1>10. ASSUME NEW w \in Workers, Check(w)
       PROVE  Graph'
  <2> DEFINE p == job[w].pair
             plan == IF job[w].op = "request" THEN RequestPlan(p) ELSE BefriendPlan(p)
  <2>1. /\ job' = [job EXCEPT ![w] = IF plan = "none" THEN Free ELSE [job[w] EXCEPT !.plan = plan]]
        /\ job[w].op \in Forming /\ UNCHANGED <<edge, mutes, agreed, raced>>
    BY <1>10 DEF Check, graph, history
  <2>2. plan \in Plans \cup {"none"} /\ (plan # "none" => ~Blocked(p))
    BY DEF RequestPlan, BefriendPlan, Plans
  <2> HIDE DEF plan
  <2>3. CASE plan = "none"
    BY <2>1, <2>3, Freed, GraphKeep DEF Same
  <2>4. CASE plan \in Plans
    <3>1. plan # "none"
      BY <2>4 DEF Plans
    <3>2. \A v \in Workers \ {w} : job'[v] = job[v]
      BY <2>1 DEF TypeOK
    <3>3. Same(w)
      BY <2>1, <2>4, <3>1, Planned DEF TypeOK, Same
    <3>4. ~Blocked(job[w].pair) /\ job[w].op \notin Ending
      BY <2>1, <2>2, <3>1, FreeFacts
    <3>5. \A v \in Workers : /\ Same(v) /\ (job[v].op \in Ending => job'[v].rows = job[v].rows)
                             /\ job'[v].plan = job[v].plan \/ ~Blocked(job[v].pair)
      BY <3>2, <3>3, <3>4 DEF Same
    <3>6. QED
      BY <2>1, <3>5, GraphKeep
  <2>5. QED
    BY <2>2, <2>3, <2>4
<1>11. ASSUME NEW w \in Workers, Befriend(w)
       PROVE  Graph'
  <2> DEFINE p == job[w].pair
  <2>1. /\ p \in Pairs
        /\ \A v \in Workers : job[v].op \in Ending /\ Ends(job[v].pair) = Ends(p) => Ends(p) \in raced
        /\ Blocked(p) => Ends(p) \in raced
    BY <1>11, Joining DEF Befriend
  <2>2. /\ edge' = [q \in Pairs |-> IF q \in Both(p) THEN "accepted" ELSE edge[q]]
        /\ agreed' = agreed \cup Both(p) /\ job' = [job EXCEPT ![w] = Free]
        /\ UNCHANGED <<mutes, raced>>
    BY <1>11 DEF Befriend
  <2>3. /\ edge'[p] = "accepted" /\ edge'[Back(p)] = "accepted"
        /\ p \in agreed' /\ Back(p) \in agreed'
        /\ \A q \in Pairs : q = p \/ q = Back(p) \/ edge'[q] = edge[q]
    BY <2>1, <2>2, PairFacts DEF Both
  <2>4. \A v \in Workers : Over(v) \/ job'[v] = job[v]
    BY <2>2, Freed
  <2> HIDE DEF p
  <2>5. QED
    BY <2>1, <2>2, <2>3, <2>4, GraphJoin
<1>12. ASSUME NEW w \in Workers, AcceptReciprocal(w)
       PROVE  Graph'
  <2> DEFINE p == job[w].pair
  <2>1. /\ p \in Pairs
        /\ \A v \in Workers : job[v].op \in Ending /\ Ends(job[v].pair) = Ends(p) => Ends(p) \in raced
    BY <1>12, Joining DEF AcceptReciprocal
  <2>2. /\ edge' = Promote(p) /\ agreed' = agreed \cup {p} /\ job' = [job EXCEPT ![w] = Free]
        /\ UNCHANGED <<mutes, raced>>
    BY <1>12 DEF AcceptReciprocal
  <2>3. \A v \in Workers : Over(v) \/ job'[v] = job[v]
    BY <2>2, Freed
  <2> HIDE DEF p
  <2>4. QED
    BY <2>1, <2>2, <2>3, PromoteGraph
<1>13. ASSUME NEW w \in Workers, InsertPending(w)
       PROVE  Graph'
  <2> DEFINE p == job[w].pair
  <2>1. /\ p \in Pairs
        /\ \A v \in Workers : job[v].op \in Ending /\ Ends(job[v].pair) = Ends(p) => Ends(p) \in raced
        /\ Blocked(p) => Ends(p) \in raced
    BY <1>13, Joining DEF InsertPending
  <2>2. /\ edge' = [edge EXCEPT ![Back(p)] = IF @ = "none" THEN "pending" ELSE @]
        /\ agreed' = agreed \cup {p} /\ job' = [job EXCEPT ![w] = Free]
        /\ UNCHANGED <<mutes, raced>>
    BY <1>13 DEF InsertPending
  <2>3. \A v \in Workers : Over(v) \/ job'[v] = job[v]
    BY <2>2, Freed
  <2> HIDE DEF p
  <2>4. Back(p) \in Pairs /\ Back(p) # p /\ Back(Back(p)) = p
    BY <2>1, PairFacts
  <2>5. CASE edge[Back(p)] # "none"
    <3>1. edge' = edge
      BY <2>2, <2>5 DEF TypeOK
    <3>2. QED
      BY <2>2, <2>3, <3>1, GraphKeep DEF Same
  <2>6. CASE edge[Back(p)] = "none"
    <3>1. /\ edge'[Back(p)] = "pending" /\ edge'[p] = edge[p]
          /\ \A q \in Pairs : q = p \/ q = Back(p) \/ edge'[q] = edge[q]
      BY <2>1, <2>2, <2>4, <2>6 DEF TypeOK
    <3>2. edge[p] # "accepted" \/ Ends(p) \in raced
      BY <2>1, <2>6 DEF Graph, FriendsByConsent, AreFriends
    <3>3. edge[p] = "pending" => Back(p) \in agreed \/ Ends(p) \in raced
      BY <2>1 DEF Graph, Asked
    <3>4. QED
      BY <2>1, <2>2, <2>3, <3>1, <3>2, <3>3, GraphJoin
  <2>7. QED
    BY <2>5, <2>6
<1>14. ASSUME NEW w \in Workers, Part(w)
       PROVE  Graph'
  <2> DEFINE p == job[w].pair
             R == job[w].rows
  <2>1. job[w].op \in Ending /\ p \in Pairs
    BY <1>14, JobPairs DEF Part
  <2>2. /\ edge' = [q \in Pairs |-> IF q \in R THEN "none" ELSE edge[q]]
        /\ mutes \subseteq mutes' /\ mutes' \subseteq mutes \cup {p}
        /\ agreed' = agreed \ Both(p) /\ UNCHANGED raced
    BY <1>14 DEF Part
  <2>3. R \in SUBSET Both(p)
    BY <2>1 DEF Graph, RowsSeen
  <2>4. Ends(p) \in raced \/ (edge'[p] = "none" /\ edge'[Back(p)] = "none")
    <3>1. \A q \in Both(p) : edge[q] = "none" \/ q \in R \/ Ends(q) \in raced
      BY <2>1 DEF Graph, RowsSeen
    <3>2. QED
      BY <2>1, <2>2, <3>1, PairFacts DEF Both
  <2>5. \A v \in Workers : job[v].op \in Forming /\ Ends(job[v].pair) = Ends(p) => Ends(p) \in raced
    BY <2>1 DEF Graph, RacesKnown
  <2>6. \A v \in Workers : \/ Over(v)
                           \/ /\ Same(v) /\ job'[v].plan = job[v].plan
                              /\ job'[v].rows = job[v].rows \ R
    BY <1>14, PartJobs DEF Over, Same
  <2> HIDE DEF p, R
  <2>7. QED
    BY <2>1, <2>2, <2>3, <2>4, <2>5, <2>6, GraphDrop
<1>15. ASSUME NEW w \in Workers, Abort(w)
       PROVE  Graph'
  BY <1>15, Freed, GraphKeep DEF Abort, Same, graph, history
<1>16. CASE UNCHANGED vars
  BY <1>1, <1>16 DEF vars, graph, history
<1>17. QED
  BY <1>2, <1>3, <1>4, <1>5, <1>6, <1>8, <1>9, <1>10, <1>11, <1>12, <1>13, <1>14, <1>15, <1>16 DEF Next

-----------------------------------------------------------------------------

\* The invariant holds in every reachable state.
THEOREM FriendsInvariance == Spec => []IInv
<1>1. Init => IInv
  <2> SUFFICES ASSUME Init PROVE IInv
    OBVIOUS
  <2>1. TypeOK
    BY FreeFacts DEF Init, TypeOK, Statuses
  <2>2. LinksSpent
    BY FreeFacts DEF Init, LinksSpent, LinkDies
  <2>3. RacesKnown /\ PlansClear /\ RowsSeen
    BY FreeFacts DEF Init, RacesKnown, PlansClear, RowsSeen
  <2>4. Apart /\ FriendsByConsent /\ Asked
    BY DEF Init, Apart, FriendsByConsent, Asked, AreFriends, Blocked
  <2>5. QED
    BY <2>1, <2>2, <2>3, <2>4 DEF IInv
<1>2. IInv /\ [Next]_vars => IInv'
  BY TypeStep, LinksStep, GraphStep DEF IInv, Graph
<1>3. QED
  BY <1>1, <1>2, PTL DEF Spec

\* However requests race, who is shown as a friend agreed to it, and so did the other.
THEOREM BothAgreed == Spec => []FriendsByConsent
<1>1. IInv => FriendsByConsent
  BY DEF IInv
<1>2. QED
  BY <1>1, FriendsInvariance, PTL

\* No reader of the graph lets anything pass across a block, and a block ends what there was.
THEOREM BlockHolds == Spec => []NothingAcrossBlock
<1>1. IInv => NothingAcrossBlock
  <2> SUFFICES ASSUME IInv, NEW p \in Pairs, Blocked(p)
               PROVE  /\ \A e \in Events : ~Reaches(p[1], p[2], e)
                      /\ p[2] \notin SaveAudience(p[1])
                      /\ edge[p] = "none" \/ Ends(p) \in raced
    BY DEF NothingAcrossBlock
  <2>1. p = <<p[1], p[2]>>
    BY DEF Pairs
  <2>2. \A e \in Events : ~Reaches(p[1], p[2], e)
    BY <2>1 DEF Reaches, Faces, Activity, Profile, DigestSection
  <2>3. p[2] \notin SaveAudience(p[1])
    BY <2>1 DEF SaveAudience
  <2>4. QED
    BY <2>2, <2>3 DEF IInv, Apart
<1>2. QED
  BY <1>1, FriendsInvariance, PTL

\* A link that made a friend is never accepted again once the friendship is committed.
THEOREM LinksDie == Spec => []LinkDies
<1>1. IInv => LinkDies
  BY DEF IInv, LinksSpent
<1>2. QED
  BY <1>1, FriendsInvariance, PTL
=============================================================================
