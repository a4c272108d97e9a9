------------------------------ MODULE MiniApp -------------------------------
(***************************************************************************)
(* The Mini App on several phones of one account.  Hearts and followed     *)
(* venues live in a store per phone (lib/favorites.ts, lib/venueFollows.ts)*)
(* that a tap changes at once and the answer of the server overwrites; the *)
(* home city (lib/useCities.ts, App.tsx) is pushed by a pick and seeded    *)
(* from the account.  Each is a fetch of its own: the server handles them  *)
(* in any order.  The panes of the App fetch what they show (Panes).       *)
(*                                                                         *)
(* The App is the frame of them all (Shell).                               *)
(*                                                                         *)
(* The four never touch each other's state: a behaviour follows the marks, *)
(* the city, the frame or one pane, its scene.                             *)
(***************************************************************************)
EXTENDS Panes, Shell

CONSTANTS Phones, Items,
          ListOf,        \* of an item: "favorites" or "follows"
          PositionOf,    \* the city a phone is in, of those that give their position away
          LeftBehind,    \* items hearted on a phone before it knew the account
          Cities, NoCity,
          MaxTaps, MaxTurns, MaxOpens, MaxLosses,
          Keys,          \* what a pane may want
          Shown,         \* events on the map and in the lists
          MaxMoves,      \* bound on what the user does in the frame
          Scenes

Lists == {"favorites", "follows"}

ASSUME MiniAppAssumption ==
  /\ ListOf \in [Items -> Lists]
  /\ LeftBehind \in [Phones -> SUBSET {i \in Items : ListOf[i] = "favorites"}]
  /\ \E P \in SUBSET Phones : PositionOf \in [P -> Cities]
  /\ NoCity \notin Cities /\ Nothing \notin Keys
  /\ MaxTaps \in Nat /\ MaxTurns \in Nat /\ MaxOpens \in Nat /\ MaxLosses \in Nat
  /\ MaxMoves \in Nat /\ None \notin Shown /\ "nobody" \notin Phones /\ "city" \notin Items
  /\ Scenes \subseteq {"marks", "city", "shell"} \cup DOMAIN EffectOf /\ Scenes # {}

VARIABLES
  scene,
  account, \* the server's row: marks, merged, city
  phone,   \* what each phone keeps, in storage and in memory
  wire,    \* requests and answers on their way
  last, messy, \* history of an item, and of the city: the last tap, what became unclear since,
  overtaken,   \* and whether an answer was read before that tap was handled
  taps, opens, losses,
  pane, shell

tapHistory == <<last, messy, overtaken>>
counters == <<taps, opens, losses>>
screen == <<pane, shell>>
appVars == <<scene, account, phone, wire, tapHistory, counters, screen>>

TheCity == "city"
Marked == Items \cup {TheCity}

AppInit ==
  /\ scene \in Scenes
  /\ account = [marks |-> {}, merged |-> FALSE, city |-> NoCity]
  /\ phone = [d \in Phones |->
       [open |-> FALSE, marks |-> IF scene = "marks" THEN LeftBehind[d] ELSE {}, migrated |-> FALSE, seq |-> [l \in Lists |-> 0],
        city |-> NoCity, touched |-> FALSE, lacking |-> FALSE,
        located |-> FALSE]]
  /\ wire = {}
  /\ last = [k \in Marked |-> [by |-> "nobody"]]
  /\ messy = [k \in Marked |-> FALSE] /\ overtaken = [k \in Marked |-> FALSE]
  /\ taps = 0 /\ opens = 0 /\ losses = 0
  /\ pane = Unmounted
  /\ shell \in IF scene = "shell"
               THEN {Fresh(d, v, seen, l) : d \in Surfaces, v \in {"map", "friends"},
                                            seen \in BOOLEAN, l \in {None, "event", "inviting"}}
               ELSE {Fresh("phone", "map", TRUE, None)}

-----------------------------------------------------------------------------
(* Requests.  Every tap is a fetch of its own; nothing queues them, so     *)
(* that those of one phone are handled in any order, too.                  *)

\* at: sent, committed (the ids are listed after the commit), read, answered.  n numbers the
\* taps, and tells requests apart that are alike otherwise; the server does not see it.
Spare(d, kind) == CHOOSE i \in 0..MaxOpens : \A o \in wire : o.d = d /\ o.kind = kind => o.n # i
Request(d, kind, k, val) ==
  [d |-> d, n |-> IF kind \in {"toggle", "pick"} THEN taps ELSE Spare(d, kind),
   kind |-> kind, at |-> "sent", of |-> k, val |-> val, seq |-> phone[d].seq, add |-> {}, first |-> FALSE, gone |-> FALSE, got |-> {}, city |-> NoCity]

Without(m) == wire \ {m}
Now(m, at) == Without(m) \cup (IF m.gone /\ at = "committed" THEN {} ELSE {[m EXCEPT !.at = at]})

\* The taps on k that the server has not handled; the last one of all is among them.
Writes(W, k) == {m \in W : m.of = k /\ m.kind \in {"toggle", "pick"} /\ m.at = "sent"}
Awaited(k) == \E m \in Writes(wire, k) : m.n = last[k].n

\* beginFavoritesAdopt: the hearts to merge and the count of taps are taken up front.
Load(d, first, seq) ==
  [Request(d, "load", "none", FALSE) EXCEPT
     !.seq = seq, !.first = first,
     !.add = IF phone[d].migrated THEN {} ELSE {i \in phone[d].marks : ListOf[i] = "favorites"}]

\* One page on a phone at a time; a new page counts its taps from zero.
OpenPage(d) ==
  /\ scene \in {"marks", "city"}
  /\ ~phone[d].open /\ opens < MaxOpens /\ opens' = opens + 1
  /\ wire' = wire \cup {Load(d, TRUE, [l \in Lists |-> 0])}
  /\ phone' = [phone EXCEPT ![d].open = TRUE, ![d].seq = [l \in Lists |-> 0], ![d].touched = FALSE,
                            ![d].lacking = FALSE, ![d].located = FALSE]
  /\ UNCHANGED <<scene, account, tapHistory, taps, losses, screen>>

\* Requests that change something are keepalive: they go on, the answers to taps and loads
\* reach nobody.
ClosePage(d) ==
  /\ phone[d].open
  /\ phone' = [phone EXCEPT ![d].open = FALSE]
  /\ wire' = {IF m.d = d /\ m.of # TheCity THEN [m EXCEPT !.gone = TRUE] ELSE m :
                m \in {o \in wire : o.d # d \/ o.at \in {"sent", "read"}}}
  /\ UNCHANGED <<scene, account, tapHistory, counters, screen>>

-----------------------------------------------------------------------------
(* Taps.                                                                   *)

\* The history: the last tap decides.
Decides(d, k, val) ==
  /\ taps < MaxTaps /\ taps' = taps + 1
  /\ last' = [last EXCEPT ![k] = [by |-> d, val |-> val, n |-> taps]]
  /\ messy' = [messy EXCEPT ![k] = FALSE] /\ overtaken' = [overtaken EXCEPT ![k] = FALSE]

Mark(d, i, on) ==
  /\ phone[d].open /\ scene = "marks"
  /\ Decides(d, i, on)
  /\ phone' = [phone EXCEPT ![d].marks = IF on THEN @ \cup {i} ELSE @ \ {i},
                            ![d].seq[ListOf[i]] = @ + 1]
  /\ wire' = wire \cup {[Request(d, "toggle", i, on) EXCEPT !.seq[ListOf[i]] = @ + 1]}
  /\ UNCHANGED <<scene, account, opens, losses, screen>>

\* toggleFavorite, toggleVenueFollow.
Tap(d, i) == Mark(d, i, i \notin phone[d].marks)

\* acceptInvite: hearts the event, again if need be.
AcceptInvite(d, i) == ListOf[i] = "favorites" /\ Mark(d, i, TRUE)

\* pickCity.
Pick(d, c) ==
  /\ phone[d].open /\ scene = "city"
  /\ Decides(d, TheCity, c)
  /\ phone' = [phone EXCEPT ![d].city = c, ![d].touched = TRUE]
  /\ wire' = wire \cup {Request(d, "pick", TheCity, c)}
  /\ UNCHANGED <<scene, account, opens, losses, screen>>

\* The city that the map settles on becomes the home of an account without one.
SettleCity(d, c) ==
  /\ phone[d].open /\ scene = "city" /\ phone[d].lacking /\ ~phone[d].touched
  /\ phone' = [phone EXCEPT ![d].lacking = FALSE]
  /\ wire' = wire \cup {Request(d, "settle", TheCity, c)}
  /\ UNCHANGED <<scene, account, tapHistory, counters, screen>>

\* The first fix of the position.
Locate(d) ==
  /\ phone[d].open /\ scene = "city" /\ d \in DOMAIN PositionOf /\ ~phone[d].located
  /\ phone' = [phone EXCEPT ![d].located = TRUE]
  /\ wire' = wire \cup {Request(d, "locate", TheCity, PositionOf[d])}
  /\ UNCHANGED <<scene, account, tapHistory, counters, screen>>

-----------------------------------------------------------------------------
(* The server.                                                             *)

\* The history: an older tap is handled after the last one on the same mark.
Swaps(m) == messy' = [messy EXCEPT ![m.of] = @ \/ (m.n # last[m.of].n /\ ~Awaited(m.of))]

\* toggle_favorite, toggle_venue_follow.
Toggle(m) ==
  /\ m.kind = "toggle" /\ m.at = "sent"
  /\ account' = [account EXCEPT !.marks = IF m.val THEN @ \cup {m.of} ELSE @ \ {m.of}]
  /\ wire' = Now(m, "committed")
  /\ Swaps(m)
  /\ UNCHANGED <<scene, phone, last, overtaken, counters, screen>>

\* bootstrap, favorites/sync: the account takes a phone's hearts in once.
Merge(m) ==
  /\ m.kind = "load" /\ m.at = "sent"
  /\ LET claimed == m.add # {} /\ ~account.merged
         added == IF claimed THEN m.add \ account.marks ELSE {}
     IN  /\ account' = [account EXCEPT !.marks = @ \cup added, !.merged = @ \/ claimed]
         /\ messy' = [k \in Marked |-> messy[k] \/ (k \in added /\ ~Awaited(k))]
  /\ wire' = Now(m, "committed")
  /\ UNCHANGED <<scene, phone, last, overtaken, counters, screen>>

\* The answer to m will overwrite k on its phone, unless that taps again.
Heard(ph, m, k) ==
  /\ ~m.gone
  /\ IF k = TheCity THEN m.kind = "load" /\ ~ph[m.d].touched
     ELSE /\ m.kind = "load" \/ (m.kind = "toggle" /\ ListOf[m.of] = ListOf[k])
          /\ m.seq[ListOf[k]] = ph[m.d].seq[ListOf[k]]

\* The answer is read from the rows after the commit.
Listed(m) ==
  /\ m.kind \in {"toggle", "load"} /\ m.at = "committed"
  /\ wire' = Without(m) \cup {[m EXCEPT !.at = "answered", !.got = account.marks, !.city = account.city]}
  /\ overtaken' = [k \in Marked |-> overtaken[k] \/ (m.d = last[k].by /\ Heard(phone, m, k) /\ Awaited(k))]
  /\ UNCHANGED <<scene, account, phone, last, messy, counters, screen>>

\* A write over a pick that has been handled.
Overrules(c) ==
  messy' = [messy EXCEPT ![TheCity] =
              @ \/ IF last[TheCity].by = "nobody" THEN FALSE ELSE c # last[TheCity].val]

\* user_settings; nobody waits for the answer.  A fallback may come after another
\* phone's pick.
SetCity(m) ==
  /\ m.kind \in {"pick", "settle"} /\ m.at = "sent"
  /\ account' = [account EXCEPT !.city = m.val]
  /\ \/ m.kind = "pick" /\ Swaps(m)
     \/ m.kind = "settle" /\ ~Awaited(TheCity) /\ Overrules(m.val)
     \/ m.kind = "settle" /\ Awaited(TheCity) /\ UNCHANGED messy
  /\ wire' = Without(m)
  /\ UNCHANGED <<scene, phone, last, overtaken, counters, screen>>

\* save_location looks whether the account has a city, and then writes one.
LookForCity(m) ==
  /\ m.kind = "locate" /\ m.at = "sent"
  /\ wire' = IF account.city = NoCity THEN Now(m, "read") ELSE Without(m)
  /\ UNCHANGED <<scene, account, phone, tapHistory, counters, screen>>

SaveLocation(m) ==
  /\ m.kind = "locate" /\ m.at = "read"
  /\ account' = [account EXCEPT !.city = m.val]
  /\ IF Awaited(TheCity) THEN UNCHANGED messy ELSE Overrules(m.val)
  /\ wire' = Without(m)
  /\ UNCHANGED <<scene, phone, last, overtaken, counters, screen>>

-----------------------------------------------------------------------------
(* Answers.                                                                *)

OfList(marks, l) == {i \in marks : ListOf[i] = l}

\* Fault: any answer is adopted.
AnyAnswer(d, m, l) == TRUE

\* An answer counts if its phone tapped nothing on that list since it asked.
Current(d, m, l) == m.seq[l] = phone[d].seq[l]

AdoptedMarks(d, m, ls) ==
  UNION {IF l \in ls /\ Current(d, m, l) THEN OfList(m.got, l) ELSE OfList(phone[d].marks, l) : l \in Lists}

AdoptToggle(m) ==
  /\ m.kind = "toggle" /\ m.at = "answered"
  /\ phone' = [phone EXCEPT ![m.d].marks = AdoptedMarks(m.d, m, {ListOf[m.of]})]
  /\ wire' = Without(m)
  /\ UNCHANGED <<scene, account, tapHistory, counters, screen>>

\* applySettings seeds the city unless the user picked one since the page opened.
AdoptLoad(m) ==
  /\ m.kind = "load" /\ m.at = "answered"
  /\ phone' = [phone EXCEPT
       ![m.d].marks = AdoptedMarks(m.d, m, Lists), ![m.d].migrated = TRUE,
       ![m.d].city = IF ~phone[m.d].touched /\ m.city # NoCity THEN m.city ELSE @,
       ![m.d].lacking = @ \/ m.city = NoCity]
  /\ wire' = Without(m)
  /\ UNCHANGED <<scene, account, tapHistory, counters, screen>>

\* A request or its answer is lost: a lost bootstrap falls back to separate loads, which
\* read the marks to merge and the taps anew; a lost tap stands on its phone alone.
Lose(m) ==
  /\ losses < MaxLosses /\ losses' = losses + 1
  /\ IF m.first /\ ~m.gone
     THEN wire' = Without(m) \cup {Load(m.d, FALSE, phone[m.d].seq)}
     ELSE wire' = Without(m)
  /\ messy' = [k \in Marked |-> messy[k] \/ (m \in Writes(wire, k) /\ m.n = last[k].n)]
  /\ UNCHANGED <<scene, account, phone, last, overtaken, taps, opens, screen>>

-----------------------------------------------------------------------------
(* The pane of the scene.                                                  *)

OnPane == scene \in DOMAIN EffectOf
Effects == EffectOf[scene]
Keep == UNCHANGED <<scene, account, phone, wire, tapHistory, taps, opens, shell>>

\* Another key: a query, a zoom, an event, a place, a friend, a set of ids.
Turn(k) ==
  /\ OnPane /\ k # pane.want.key /\ taps < MaxTurns
  /\ k = Nothing => Effects.is["empties"] \/ Effects.is["freezes"]
  /\ pane' = Wants(Effects, pane, IF k = Nothing THEN Blank ELSE [key |-> k, nonce |-> opens], FALSE)
  /\ taps' = taps + 1
  /\ UNCHANGED <<scene, account, phone, wire, tapHistory, opens, losses, shell>>

\* Pulling to refresh, or the button to try again.
Refresh ==
  /\ OnPane /\ Effects.is["renews"] /\ pane.want # Blank /\ opens < MaxOpens
  /\ opens' = opens + 1
  /\ pane' = Wants(Effects, pane, [pane.want EXCEPT !.nonce = opens + 1], TRUE)
  /\ UNCHANGED <<scene, account, phone, wire, tapHistory, taps, losses, shell>>

Leave ==
  /\ OnPane /\ pane # Unmounted
  /\ ~Effects.is["empties"] /\ ~Effects.is["freezes"] /\ ~Effects.is["waits"]
  /\ pane' = Unmounted
  /\ Keep /\ UNCHANGED losses

Fire == pane.timer /\ pane' = Fired(pane) /\ Keep /\ UNCHANGED losses

Land(f) ==
  /\ pane' = IF f.stage < Effects.stages THEN Advanced(pane, f) ELSE Landed(Effects, pane, f)
  /\ Keep /\ UNCHANGED losses

\* A friend without saves has none to fetch.
LandEarly(f) == f.stage < Effects.stages /\ pane' = Landed(Effects, pane, f) /\ Keep /\ UNCHANGED losses

Fail(f) == losses < MaxLosses /\ losses' = losses + 1 /\ pane' = Failed(Effects, pane, f) /\ Keep

TimeOut(f) ==
  /\ losses < MaxLosses /\ losses' = losses + 1
  /\ pane' = IF Effects.is["retries"] /\ ~f.again THEN Repeated(pane, f) ELSE Failed(Effects, pane, f)
  /\ Keep

\* The other zooms of the query are fetched while the browser idles, one after another.
Prefetch(k) ==
  /\ OnPane /\ Effects.is["warms"] /\ pane.want # Blank
  /\ \A f \in pane.flights : f.role = "screen"
  /\ LET w == [key |-> k, nonce |-> opens]
     IN  w \notin pane.warm /\ pane' = [pane EXCEPT !.flights = @ \cup {Flight(w, "warm")}]
  /\ Keep /\ UNCHANGED losses

-----------------------------------------------------------------------------
(* The frame.                                                              *)

Becomes(s) ==
  /\ scene = "shell" /\ shell' = s
  /\ UNCHANGED <<scene, account, phone, wire, tapHistory, opens, losses, pane>>
Move(s) == taps < MaxMoves /\ taps' = taps + 1 /\ Becomes(s)
Settle(s) == Becomes(s) /\ UNCHANGED taps

\* The layer that a tap reaches.
AtHand(l) == scene = "shell" /\ On(shell, l)
AboveAll == \E l \in {"disclosure", "invite", "onboarding"} : Visible(shell, l)
Rail == IF shell.surface = "phone" THEN AtHand("drawer") ELSE ~AboveAll
SheetAtHand == scene = "shell" /\ Visible(shell, "sheet") /\ ~AboveAll /\ ~Visible(shell, "drawer")
Bare == AtHand("map")

TapEvent(e) == scene = "shell" /\ Offers(shell, e) /\ Move(OpenEvent(shell, e))
ChooseFound(e) == AtHand("search") /\ Move(Choose(shell, e))
TapPoint(es) == Bare /\ Cardinality(es) > 1 /\ Move(TapCluster(shell, es))
SwipeSheet == SheetAtHand /\ shell.surface = "phone" /\ ~shell.closing /\ Move(SwipeDown(shell))
TapOnMap == SheetAtHand /\ Move(ShowOnMap(shell))
TapVenue == (SheetAtHand \/ AtHand("peek") \/ AtHand("venues")) /\ Move(OpenVenue(shell))
Dim == Bare /\ shell.focused # None /\ Move(Unlight(shell))
Zoom == Bare /\ shell.focused # None /\ Move(ZoomOut(shell))
Press(v) == Rail /\ v # shell.view /\ Move(Navigate(shell, v))

\* The menu, the search, the filters and the list are laid over the map; a collection over
\* the feed, a friend over the friends.  On a keyboard the search opens from anywhere.
LayOver(l) ==
  /\ l \notin shell.over
  /\ CASE l = "drawer" -> Bare /\ shell.surface = "phone"
       [] l = "search" -> Bare \/ (shell.surface = "web" /\ ~AboveAll)
       [] l = "filters" -> Bare
       [] l = "list" -> Bare /\ shell.selected = None /\ shell.focused = None
       [] l = "collection" -> AtHand("recs")
       [] OTHER -> AtHand("friends")
  /\ Move(Lay(shell, l))

\* The feed's tiles, and the ticker and the profile's ways to other tabs.
PickTile(s) == AtHand("recs") /\ Move(s)
Follow(v) ==
  /\ \/ v = "recs" /\ Bare /\ shell.selected = None
     \/ v = "favorites" /\ AtHand("profile")
     \/ v = "friends" /\ AtHand("disclosure")
  /\ Move(GoTo(Unlay(shell, "disclosure"), v))

Cross(l) == (AtHand(l) \/ (l = "sheet" /\ SheetAtHand)) /\ Move(Shut(shell, l))
PressBack == scene = "shell" /\ Opened(shell) \ {"disclosure"} # {} /\ Move(Back(shell))
Browse(i) ==
  /\ shell.surface = "web" /\ i \in DOMAIN shell.paths /\ i \in {shell.at - 1, shell.at + 1}
  /\ Move(Traverse(shell, i))
Accept == AtHand("invite") /\ Move(AcceptInviter(shell))

Boot == shell.booting /\ \E seen, befriended \in BOOLEAN : Settle(Booted(shell, seen, befriended))
LinkOpens == shell.link = "event" /\ \E e \in Shown : Settle(OpenEvent([shell EXCEPT !.link = None], e))
LinkFails == shell.link = "event" /\ Settle([shell EXCEPT !.link = None])
InviteShows == shell.link = "inviting" /\ \E good \in BOOLEAN : Settle(InviteKnown(shell, good))
Rise == shell.rising /\ Settle([shell EXCEPT !.ready = TRUE, !.rising = FALSE])
CloseLate == shell.closing /\ Settle(SwipedAway(shell))
FadeOut == shell.fading /\ Settle(Fade(shell))

Frame ==
  \/ \E e \in Shown : TapEvent(e) \/ ChooseFound(e)
  \/ \E es \in SUBSET Shown : TapPoint(es)
  \/ SwipeSheet \/ TapOnMap \/ TapVenue \/ Dim \/ Zoom
  \/ \E v \in Views : Press(v) \/ Follow(v)
  \/ \E l \in {"drawer", "search", "filters", "list", "collection", "friend"} : LayOver(l)
  \/ PickTile(ToCategories(shell)) \/ PickTile(ToCategory(shell))
  \/ \E l \in {Layers[i] : i \in DOMAIN Layers} : Cross(l)
  \/ PressBack \/ Accept \/ \E i \in {shell.at - 1, shell.at + 1} : Browse(i)
  \/ Boot \/ LinkOpens \/ LinkFails \/ InviteShows \/ Rise \/ CloseLate \/ FadeOut

-----------------------------------------------------------------------------
User(d) ==
  \/ OpenPage(d) \/ ClosePage(d)
  \/ \E i \in Items : Tap(d, i) \/ AcceptInvite(d, i)
  \/ Locate(d) \/ \E c \in Cities : Pick(d, c) \/ SettleCity(d, c)
Server(m) == Toggle(m) \/ Merge(m) \/ Listed(m) \/ SetCity(m) \/ LookForCity(m) \/ SaveLocation(m)
Answer(m) == AdoptToggle(m) \/ AdoptLoad(m) \/ Lose(m)
Screen ==
  \/ \E k \in Keys \cup {Nothing} : Turn(k)
  \/ Refresh \/ Leave \/ Fire
  \/ \E f \in pane.flights : Land(f) \/ LandEarly(f) \/ Fail(f) \/ TimeOut(f)
  \/ \E k \in Keys : Prefetch(k)

AppNext == (\E d \in Phones : User(d)) \/ (\E m \in wire : Server(m) \/ Answer(m)) \/ Screen \/ Frame
AppSpec == AppInit /\ [][AppNext]_appVars

-----------------------------------------------------------------------------
\* What a user tapped last stands: once nothing is on its way, a heart, a followed venue
\* and the home city are in the account as that last tap left them, and on the phone that
\* set them - whatever older answers, lists and loads arrived in between.  Not in the
\* account where the tap got lost, where an older one on the same mark was handled after
\* it, or where the one merge of old hearts or a city nobody picked came over it; and not
\* on the phone where that takes the answer to another request that was read before the
\* tap was handled (LatestWins).
TapsStand ==
  wire = {} => \A k \in Marked :
    last[k].by \in Phones /\ ~messy[k] =>
      LET p == phone[last[k].by]
      IN  /\ IF k = TheCity THEN account.city = last[k].val ELSE (k \in account.marks) = last[k].val
          /\ ~overtaken[k] => IF k = TheCity THEN p.city = last[k].val ELSE (k \in p.marks) = last[k].val

\* favorites.ts:26 "otherwise a stale list clobbers a fresh tap": where no request is lost, the
\* last tap on an item stands, and the phone shows it.
LatestWins ==
  wire = {} /\ losses = 0 => \A i \in Items :
    last[i].by \in Phones =>
      (i \in account.marks) = last[i].val /\ (i \in phone[last[i].by].marks) = last[i].val

\* A pane that rests shows the answer to what is wanted now, or that its request failed:
\* never an older answer that came late, an outage as an empty list, or a skeleton for
\* good.  The lists of saved events and of followed venues, which drop nothing, are exempt.
ScreenHonest == OnPane /\ Effects.is["drops"] => Honest(Effects, pane)

\* Whatever is laid over the map, Back is there to be pressed, and each press takes
\* something away and brings nothing up: it never leaves the app from under an open layer,
\* and comes to the bare map in the end.  Only the note on a first friend is not for Back.
BackUnwinds == scene = "shell" => Unwinds(shell)

\* The last act on the frame stands, whatever timer or answer of an earlier one comes
\* after it: the sheet shows the event opened last until that is closed, unless a swipe was
\* still closing another; the marker lit last is lit until it is put out; and the address
\* of the browser names the tab.
LastActStands == scene = "shell" => Stands(shell)

\* App.tsx:947 "close everything that covers it so the pin is in view": going to the map from
\* a sheet leaves nothing over the map.
PinInView == [][TapOnMap => shell'.over \subseteq {"disclosure"}]_appVars

\* FavoritesPanel.tsx:10 "so the list always matches the count": the list of saved events
\* that rests is of the set that is saved now, unless its request failed.
ListMatchesCount == scene = "saved" /\ Resting(pane) => pane.shown = pane.want \/ pane.failed
=============================================================================
