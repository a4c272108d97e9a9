------------------------------- MODULE Friends -------------------------------
(***************************************************************************)
(* The friends graph: ref.user_friends, ref.user_mutes and the readers     *)
(* that show a friend's favourites (core/db/repositories/friends.py,       *)
(* digest.py), with the routes that change them                            *)
(* (apps/api/routes/users.py).                                             *)
(*                                                                         *)
(* Transactions are READ COMMITTED and take no lock on the pair.  What     *)
(* forms a friendship checks in some statements and inserts in a later     *)
(* one; what ends it deletes, in the end, the rows that its DELETE saw at  *)
(* its start.  Both are therefore two steps, between which other requests  *)
(* commit; a request of one effective statement is one step.               *)
(***************************************************************************)
EXTENDS Naturals, FiniteSets

CONSTANTS Users,       \* telegram_user_id of every row of ref.users
          Events,      \* active events
          FriendCap,   \* _FRIEND_CAP (500)
          Workers,     \* requests in flight at once
          MaxRequests  \* bound on the requests of a behaviour

ASSUME FriendsAssumption ==
  /\ IsFiniteSet(Users)
  /\ FriendCap \in Nat \ {0}
  /\ MaxRequests \in Nat

Pairs == {p \in Users \X Users : p[1] # p[2]}
Statuses == {"none", "pending", "accepted"}
Forming == {"link", "invite", "request"}
Ending == {"remove", "block"}
Plans == {"check", "befriend", "accept", "pending"}

VARIABLES
  edge,      \* ref.user_friends: the status of row <<user_id, friend_id>>
  mutes,     \* ref.user_mutes
  ver,       \* ref.users.friend_link_ver
  links,     \* "add me" links that were handed out: <<owner, version signed>>
  inviters,  \* who shared a signed event invite
  private,   \* ref.users.friends_private
  fav,       \* ref.user_favorites: "none", "shown" or "hidden"
  job,       \* the requests in flight
  requests,  \* requests made so far
  \* history, read by no action: who agreed to be whose friend since they last
  \* parted, pairs with a forming and an ending request in flight at once, links
  \* that made a friend, friends made by a link opened after that
  agreed, raced, consumed, lateUses

graph == <<edge, mutes>>
shares == <<private, fav>>
offers == <<links, inviters>>
history == <<agreed, raced, consumed, lateUses>>
vars == <<graph, ver, offers, shares, job, requests, history>>

Free == [op |-> "none", pair |-> <<0, 0>>, plan |-> "check", rows |-> {}, late |-> FALSE]

Init ==
  /\ edge = [p \in Pairs |-> "none"]
  /\ mutes = {}
  /\ ver = [u \in Users |-> 0]
  /\ links = {} /\ inviters = {}
  /\ private = {} /\ fav = [u \in Users |-> [e \in Events |-> "none"]]
  /\ job = [w \in Workers |-> Free]
  /\ requests = 0
  /\ agreed = {} /\ raced = {} /\ consumed = {} /\ lateUses = {}

-----------------------------------------------------------------------------
(* The rows of a pair.                                                     *)

Back(p) == <<p[2], p[1]>>
Both(p) == {p, Back(p)}
Ends(p) == {p[1], p[2]}

Blocked(p) == Both(p) \cap mutes # {}
AreFriends(p) == edge[p] = "accepted"
CountFriends(u) == Cardinality({v \in Users \ {u} : edge[<<u, v>>] = "accepted"})

\* Rows that are deleted vanish from what other DELETEs are about to delete.
Deleted(rows, jobs) == [w \in Workers |-> [jobs[w] EXCEPT !.rows = @ \ rows]]

Overlaps(p, ops) == \E w \in Workers : job[w].op \in ops /\ Ends(job[w].pair) = Ends(p)

Request == requests < MaxRequests /\ requests' = requests + 1

-----------------------------------------------------------------------------
(* Forming a friendship.                                                   *)

\* POST /friend-link: a link at the owner's present version.
MakeLink(u) ==
  /\ Request
  /\ links' = links \cup {<<u, ver[u]>>}
  /\ UNCHANGED <<graph, ver, inviters, shares, job, history>>

\* A shared event: the invite is signed for its sharer.
ShareInvite(u) ==
  /\ Request
  /\ inviters' = inviters \cup {u}
  /\ UNCHANGED <<graph, ver, links, shares, job, history>>

Begin(w, op, p, rows, late) ==
  /\ Request
  /\ job[w] = Free
  /\ job' = [job EXCEPT ![w] = [op |-> op, pair |-> p, plan |-> "check", rows |-> rows,
                                late |-> late]]
  /\ raced' = IF Overlaps(p, IF op \in Forming THEN Ending ELSE Forming)
              THEN raced \cup {Ends(p)} ELSE raced

\* Fault: any version that was ever signed is good.
LinkVerifiesEver(l) == l \in links

\* verify_friend against the version in the database.
LinkVerifies(l) == l \in links /\ l[2] = ver[l[1]]

\* POST /friend-accept, up to the check of the link.
OpenLink(w, p, l) ==
  /\ l[1] = p[2]
  /\ LinkVerifies(l)
  /\ Begin(w, "link", p, {}, l \in consumed)
  /\ UNCHANGED <<graph, ver, offers, shares, agreed, consumed, lateUses>>

\* POST /favorites with a signed invite.
OpenInvite(w, p) ==
  /\ p[2] \in inviters
  /\ Begin(w, "invite", p, {}, FALSE)
  /\ UNCHANGED <<graph, ver, offers, shares, agreed, consumed, lateUses>>

\* POST /find-friend: a blocked pair finds nobody.
SendRequest(w, p) ==
  /\ ~Blocked(p)
  /\ Begin(w, "request", p, {}, FALSE)
  /\ UNCHANGED <<graph, ver, offers, shares, agreed, consumed, lateUses>>

\* What the checks of befriend lead to.
BefriendPlan(p) ==
  IF Blocked(p) \/ AreFriends(p) \/ CountFriends(p[1]) >= FriendCap
                \/ CountFriends(p[2]) >= FriendCap
  THEN "none" ELSE "befriend"

\* What the checks of request_friend lead to; a request the other way round is
\* accepted, whatever the number of friends.
RequestPlan(p) ==
  CASE Blocked(p) \/ AreFriends(p) -> "none"
    [] ~Blocked(p) /\ edge[p] = "pending" -> "accept"
    [] OTHER -> IF CountFriends(p[1]) >= FriendCap THEN "none" ELSE "pending"

Check(w) ==
  LET p == job[w].pair
      plan == IF job[w].op = "request" THEN RequestPlan(p) ELSE BefriendPlan(p)
  IN /\ job[w].op \in Forming /\ job[w].plan = "check"
     /\ job' = [job EXCEPT ![w] = IF plan = "none" THEN Free ELSE [@ EXCEPT !.plan = plan]]
     /\ UNCHANGED <<graph, ver, offers, shares, requests, history>>

\* accept_request: only a pending row is promoted, and then its reverse written.
Promote(p) ==
  IF edge[p] = "pending" THEN [q \in Pairs |-> IF q \in Both(p) THEN "accepted" ELSE edge[q]]
  ELSE edge

\* The insert and the commit of befriend; a link is used up by it.
Befriend(w) ==
  LET p == job[w].pair
      o == p[2]
  IN /\ job[w].plan = "befriend"
     /\ edge' = [q \in Pairs |-> IF q \in Both(p) THEN "accepted" ELSE edge[q]]
     /\ agreed' = agreed \cup Both(p)
     /\ IF job[w].op = "link"
        THEN /\ ver' = [ver EXCEPT ![o] = @ + 1]
             /\ consumed' = consumed \cup {l \in links : l[1] = o /\ l[2] <= ver[o]}
             /\ lateUses' = IF job[w].late THEN lateUses \cup {p} ELSE lateUses
        ELSE UNCHANGED <<ver, consumed, lateUses>>
     /\ job' = [job EXCEPT ![w] = Free]
     /\ UNCHANGED <<mutes, offers, shares, requests, raced>>

\* The UPDATE and INSERT of a request that found one the other way round.
AcceptReciprocal(w) ==
  LET p == job[w].pair
  IN /\ job[w].plan = "accept"
     /\ edge' = Promote(p)
     /\ agreed' = agreed \cup {p}
     /\ job' = [job EXCEPT ![w] = Free]
     /\ UNCHANGED <<mutes, ver, offers, shares, requests, raced, consumed, lateUses>>

\* The pending row that the target sees among its requests.
InsertPending(w) ==
  LET p == job[w].pair
  IN /\ job[w].plan = "pending"
     /\ edge' = [edge EXCEPT ![Back(p)] = IF @ = "none" THEN "pending" ELSE @]
     /\ agreed' = agreed \cup {p}
     /\ job' = [job EXCEPT ![w] = Free]
     /\ UNCHANGED <<mutes, ver, offers, shares, requests, raced, consumed, lateUses>>

\* Fault: whatever row there is, or none, is promoted.
AcceptUnasked(p) ==
  /\ Request
  /\ edge' = [q \in Pairs |-> IF q \in Both(p) THEN "accepted" ELSE edge[q]]
  /\ agreed' = agreed \cup {p}
  /\ UNCHANGED <<mutes, ver, offers, shares, job, raced, consumed, lateUses>>

\* POST /friends accept.
AcceptRequest(p) ==
  /\ Request
  /\ edge' = Promote(p)
  /\ agreed' = agreed \cup {p}
  /\ raced' = IF Overlaps(p, Ending) THEN raced \cup {Ends(p)} ELSE raced
  /\ UNCHANGED <<mutes, ver, offers, shares, job, consumed, lateUses>>

\* POST /friends decline.
DeclineRequest(p) ==
  /\ Request
  /\ edge[p] = "pending"
  /\ edge' = [edge EXCEPT ![p] = "none"]
  /\ job' = Deleted({p}, job)
  /\ UNCHANGED <<mutes, ver, offers, shares, history>>

-----------------------------------------------------------------------------
(* Ending it.                                                              *)

\* The rows that the DELETE of remove_friend sees.
RowsOf(p) == {q \in Both(p) : edge[q] # "none"}

\* POST /friends remove or block, up to the start of the DELETE.
StartEnding(w, op, p) ==
  /\ Begin(w, op, p, RowsOf(p), FALSE)
  /\ UNCHANGED <<graph, ver, offers, shares, agreed, consumed, lateUses>>

\* The DELETE has got its row locks, and the request commits.
Part(w) ==
  LET p == job[w].pair
      rows == job[w].rows
  IN /\ job[w].op \in Ending
     /\ edge' = [q \in Pairs |-> IF q \in rows THEN "none" ELSE edge[q]]
     /\ mutes' = IF job[w].op = "block" THEN mutes \cup {p} ELSE mutes
     /\ agreed' = agreed \ Both(p)
     /\ job' = Deleted(rows, [job EXCEPT ![w] = Free])
     /\ UNCHANGED <<ver, offers, shares, requests, raced, consumed, lateUses>>

\* POST /friends unblock.
Unblock(p) ==
  /\ Request
  /\ mutes' = mutes \ {p}
  /\ UNCHANGED <<edge, ver, offers, shares, job, history>>

\* A request fails before its commit: an error, a lost connection, the victim of
\* a deadlock.  Nothing of it stays.
Abort(w) ==
  /\ job[w] # Free
  /\ job' = [job EXCEPT ![w] = Free]
  /\ UNCHANGED <<graph, ver, offers, shares, requests, history>>

-----------------------------------------------------------------------------
(* What friends see.                                                       *)

\* POST /favorites on or off, /favorites/hide.
SetFavorite(u, e, state) ==
  /\ Request
  /\ state = "hidden" => fav[u][e] # "none"
  /\ fav[u][e] # state
  /\ fav' = [fav EXCEPT ![u][e] = state]
  /\ UNCHANGED <<graph, ver, offers, private, job, history>>

\* POST /settings friends_private.
SetPrivate(u, on) ==
  /\ Request
  /\ private' = IF on THEN private \cup {u} ELSE private \ {u}
  /\ UNCHANGED <<graph, ver, offers, fav, job, history>>

Shared(f) == {e \in Events : fav[f][e] = "shown" /\ f \notin private}

\* friends_who_favorited: the faces under an event.
Faces(u, e) == {f \in Users \ {u} : AreFriends(<<u, f>>) /\ e \in Shared(f) /\ ~Blocked(<<u, f>>)}

\* friend_activity: the feed of friends' saves.
Activity(u) ==
  {s \in (Users \ {u}) \X Events :
     AreFriends(<<u, s[1]>>) /\ s[2] \in Shared(s[1]) /\ ~Blocked(<<u, s[1]>>)}

\* friend_profile: nothing for strangers and across a block.
Profile(p) == IF AreFriends(p) /\ ~Blocked(p) THEN Shared(p[2]) ELSE {}

\* Fault: the digest forgets the mutes, now that a block removes the friend.
DigestUnmuted(u) ==
  {s \in (Users \ {u}) \X Events : AreFriends(<<u, s[1]>>) /\ s[2] \in Shared(s[1])}

\* friends_saved: the friends' section of the weekly digest.
DigestSection(u) ==
  {s \in (Users \ {u}) \X Events :
     AreFriends(<<u, s[1]>>) /\ s[2] \in Shared(s[1]) /\ ~Blocked(<<u, s[1]>>)}

\* _notify_friends_of_save: who may get a DM about u's new favourite.
SaveAudience(u) ==
  IF u \in private THEN {} ELSE {f \in Users \ {u} : AreFriends(<<u, f>>) /\ ~Blocked(<<u, f>>)}

\* list_friends: the list with each friend's visible saves, whatever the mutes.
FriendList(u) == {f \in Users \ {u} : AreFriends(<<u, f>>)}

-----------------------------------------------------------------------------
Next ==
  \/ \E u \in Users : \/ MakeLink(u) \/ ShareInvite(u)
                      \/ \E on \in BOOLEAN : SetPrivate(u, on)
                      \/ \E e \in Events, s \in {"none", "shown", "hidden"} : SetFavorite(u, e, s)
  \/ \E p \in Pairs : AcceptRequest(p) \/ DeclineRequest(p) \/ Unblock(p)
  \/ \E w \in Workers :
       \/ \E p \in Pairs : \/ \E l \in links : OpenLink(w, p, l)
                           \/ OpenInvite(w, p) \/ SendRequest(w, p)
                           \/ \E op \in Ending : StartEnding(w, op, p)
       \/ Check(w) \/ Befriend(w) \/ AcceptReciprocal(w) \/ InsertPending(w)
       \/ Part(w) \/ Abort(w)

Spec == Init /\ [][Next]_vars

-----------------------------------------------------------------------------
(* Properties.                                                             *)

Reaches(u, f, e) ==
  \/ f \in Faces(u, e) \/ <<f, e>> \in Activity(u) \/ e \in Profile(<<u, f>>)
  \/ <<f, e>> \in DigestSection(u)

\* No favourite and no save message passes between two people one of whom blocked the
\* other, not even when a race left their friendship standing; and but for such a race, of
\* joining and parting at once, a block ends friendship and requests and keeps them ended.
NothingAcrossBlock ==
  \A p \in Pairs : Blocked(p) =>
    /\ \A e \in Events : ~Reaches(p[1], p[2], e)
    /\ p[2] \notin SaveAudience(p[1])
    /\ edge[p] = "none" \/ Ends(p) \in raced

\* Two people are friends, and then both are, only when each agreed to it since they last
\* parted: by a link or invite handed out and one opened, or a request and its acceptance.
\* Only a pair that was being joined and parted at once can escape this.
FriendsByConsent ==
  \A p \in Pairs :
    AreFriends(p) => (AreFriends(Back(p)) /\ Both(p) \subseteq agreed) \/ Ends(p) \in raced

\* A link that made a friend makes no friend of whoever opens it afterwards; two
\* who opened it before may both get in.
LinkDies == lateUses = {}

\* What set_mute says of a block: both edges are gone, and stay gone.
BlockEndsFriendship ==
  \A p \in mutes : p[2] \notin FriendList(p[1]) /\ p[1] \notin FriendList(p[2])

-----------------------------------------------------------------------------
(* The inductive invariant behind the properties.                          *)

\* What a request in flight keeps.
Jobs ==
  {Free} \cup [op : Forming, pair : Pairs, plan : Plans, rows : SUBSET Pairs, late : BOOLEAN]
    \cup [op : Ending, pair : Pairs, plan : {"check"}, rows : SUBSET Pairs, late : BOOLEAN]

\* Every variable has its type; only what forms a friendship has a plan.
TypeOK ==
  /\ edge \in [Pairs -> Statuses] /\ mutes \subseteq Pairs
  /\ ver \in [Users -> Nat] /\ links \subseteq Users \X Nat
  /\ inviters \subseteq Users /\ private \subseteq Users
  /\ fav \in [Users -> [Events -> {"none", "shown", "hidden"}]]
  /\ job \in [Workers -> Jobs] /\ requests \in Nat
  /\ agreed \subseteq Pairs /\ consumed \subseteq links /\ lateUses \subseteq Pairs

\* A link that made a friend is of an older version than its owner's.
LinksSpent ==
  /\ \A l \in consumed : l[2] < ver[l[1]]
  /\ \A w \in Workers : ~job[w].late
  /\ LinkDies

\* A pair that is being joined and parted at once is known to race.
RacesKnown ==
  \A v, w \in Workers :
    job[v].op \in Forming /\ job[w].op \in Ending /\ Ends(job[v].pair) = Ends(job[w].pair)
      => Ends(job[w].pair) \in raced

\* What a request that joins has checked still holds of the block.
PlansClear ==
  \A w \in Workers : job[w].plan # "check" /\ Blocked(job[w].pair) => Ends(job[w].pair) \in raced

\* What a request that parts is about to delete is all there is of the pair.
RowsSeen ==
  \A w \in Workers : job[w].op \in Ending =>
    /\ job[w].rows \subseteq Both(job[w].pair)
    /\ \A q \in Both(job[w].pair) :
         edge[q] = "none" \/ q \in job[w].rows \/ Ends(q) \in raced

\* A blocked pair has no rows.
Apart == \A p \in Pairs : Blocked(p) => edge[p] = "none" \/ Ends(p) \in raced

\* Who is asked was asked by the other.
Asked == \A p \in Pairs : edge[p] = "pending" => Back(p) \in agreed \/ Ends(p) \in raced

IInv ==
  /\ TypeOK /\ LinksSpent /\ RacesKnown /\ PlansClear /\ RowsSeen /\ Apart
  /\ FriendsByConsent /\ Asked
=============================================================================
