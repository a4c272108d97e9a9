-------------------------------- MODULE Shell --------------------------------
(***************************************************************************)
(* The frame of the Mini App (app/App.tsx): its tabs, the layers over the  *)
(* map and over each other, the marker that stays lit, the sheet that      *)
(* rises a little after its event was opened, links that open something    *)
(* once the server answered, and what Back does to all that.               *)
(*                                                                         *)
(* A tap reaches the layer on top alone.  In a browser the rail of tabs is *)
(* always within reach, the sheet covers nothing, and each tab has a path  *)
(* of its own.  The effects of React run with the change that causes them. *)
(***************************************************************************)
EXTENDS Naturals, Sequences, FiniteSets

Surfaces == {"phone", "web"}
Views == {"map", "recs", "favorites", "venues", "friends", "profile"}
None == "none"

\* The layers from the top down: by z-index, and by the order in the document.
Layers == <<"disclosure", "invite", "onboarding", "drawer", "sheet", "search", "venue", "filters",
            "friend", "friends", "venues", "favorites", "profile", "collection", "recs", "list", "peek">>

Fresh(surface, view, onboarded, link) ==
  [surface |-> surface, view |-> view, over |-> IF onboarded THEN {} ELSE {"onboarding"},
   selected |-> None, ready |-> FALSE, rising |-> FALSE, closing |-> FALSE,
   focused |-> None, fading |-> FALSE, peek |-> {}, link |-> link, booting |-> TRUE,
   paths |-> <<view>>, at |-> 1, popped |-> FALSE,
   \* history: the event that was opened last and not closed since, that was lit last and
   \* not dismissed since; whether an event was opened while a swipe still closed another
   meant |-> None, lit |-> None, hasty |-> FALSE]

Visible(s, l) ==
  CASE l = "sheet"  -> s.selected # None /\ s.ready
    [] l = "peek"   -> s.peek # {} /\ s.selected = None
    [] l = "invite" -> s.link = "invited"
    [] l \in Views  -> s.view = l
    [] OTHER        -> l \in s.over

\* The sheet of a browser is a dock beside the map.
Covers(s, l) == Visible(s, l) /\ (l = "sheet" => s.surface = "phone")
Covering(s) == {l \in {Layers[i] : i \in DOMAIN Layers} : Covers(s, l)}
On(s, l) ==
  IF l = "map" THEN Covering(s) = {}
  ELSE \E i \in DOMAIN Layers : Layers[i] = l /\ Covers(s, l) /\ \A j \in 1..(i - 1) : ~Covers(s, Layers[j])

-----------------------------------------------------------------------------
(* What follows a change.                                                  *)

\* The sheet waits for the camera on the map only.
Rising(old, s) ==
  CASE s.selected = None -> [s EXCEPT !.ready = FALSE, !.rising = FALSE]
    [] s.selected # None /\ s.view # "map" -> [s EXCEPT !.ready = TRUE, !.rising = FALSE]
    [] OTHER -> IF s.selected = old.selected /\ s.view = old.view THEN s ELSE [s EXCEPT !.rising = TRUE]

\* Peek and friend go with their tab.
Dropped(s) ==
  [s EXCEPT !.peek = IF s.view # "map" THEN {} ELSE @,
            !.over = IF s.view # "friends" THEN @ \ {"friend"} ELSE @]

\* A tab that was not reached through the history of the browser is put there.
Addressed(old, s) ==
  IF s.surface = "phone" \/ s.view = old.view THEN s
  ELSE IF s.popped THEN [s EXCEPT !.popped = FALSE]
  ELSE IF s.paths[s.at] = s.view THEN s
  ELSE [s EXCEPT !.paths = Append(SubSeq(@, 1, s.at), s.view), !.at = s.at + 1]

After(old, s) == Addressed(old, Rising(old, Dropped(s)))

-----------------------------------------------------------------------------
(* Events.                                                                 *)

\* Fault: a marker that is fading out is lit, and fades on.
OpenFading(s, e) ==
  After(s, [s EXCEPT !.peek = IF e \in @ THEN @ ELSE {}, !.selected = e, !.focused = e,
                     !.meant = e, !.lit = e, !.hasty = s.closing])

\* openEvent; the list of a point stays behind the sheet of one of its events.
OpenEvent(s, e) ==
  After(s, [s EXCEPT !.peek = IF e \in @ THEN @ ELSE {}, !.selected = e, !.focused = e, !.fading = FALSE,
                     !.meant = e, !.lit = e, !.hasty = s.closing])

\* Pins, the bar of the lit marker, cards, rows, the events of the point, similar ones.
Offers(s, e) ==
  \/ On(s, "map")
  \/ On(s, "peek") /\ e \in s.peek
  \/ \E l \in {"list", "collection", "venue", "recs", "favorites", "friends", "friend"} : On(s, l)
  \/ Visible(s, "sheet") /\ ~(\E l \in {"disclosure", "invite", "onboarding", "drawer"} : Visible(s, l))

\* SearchOverlay closes itself with a choice.
Choose(s, e) == LET t == OpenEvent(s, e) IN [t EXCEPT !.over = @ \ {"search"}]

\* onCluster.
TapCluster(s, es) == [s EXCEPT !.peek = es]

CloseSheet(s) == After(s, [s EXCEPT !.selected = None, !.meant = None])

\* A swipe closes the sheet when its animation is over, whatever it shows by then.
SwipeDown(s) == [s EXCEPT !.closing = TRUE, !.meant = None]
SwipedAway(s) == After(s, [s EXCEPT !.selected = None, !.closing = FALSE])

\* showOnMap: "close everything that covers it so the pin is in view".
ShowOnMap(s) ==
  After(s, [s EXCEPT !.view = "map", !.over = @ \ {"list", "venue", "search"}, !.selected = None,
                     !.peek = {}, !.meant = None])

\* onOpenVenue, from the sheet, the list of a point, or the followed venues.
OpenVenue(s) ==
  After(s, [s EXCEPT !.over = @ \cup {"venue"}, !.selected = None, !.peek = {}, !.meant = None])

\* dismissFocus, clearFocus, and the end of the animation.
Unlight(s) == [s EXCEPT !.fading = TRUE, !.lit = None]
Fade(s) == [s EXCEPT !.focused = None, !.fading = FALSE]

\* Zooming out to where cities are picked puts the marker out at once.
ZoomOut(s) == [s EXCEPT !.focused = None, !.fading = FALSE, !.lit = None]

-----------------------------------------------------------------------------
(* Tabs and layers.                                                        *)

Lay(s, l) == [s EXCEPT !.over = @ \cup {l}]
Unlay(s, l) == [s EXCEPT !.over = @ \ {l}]
GoTo(s, v) == After(s, [s EXCEPT !.view = v])

\* The drawer, or the rail, closes the drawer alone.
Navigate(s, v) == GoTo(Unlay(s, "drawer"), v)

\* onAllCategories; onPickCategory without the filters.
ToCategories(s) == GoTo(Unlay(Lay(s, "filters"), "collection"), "map")
ToCategory(s) == GoTo(Unlay(s, "collection"), "map")

\* A venue, a list, a search, a dialog, a panel: the cross of the layer on top.
Shut(s, l) ==
  CASE l = "sheet"  -> CloseSheet(s)
    [] l = "peek"   -> [s EXCEPT !.peek = {}]
    [] l = "invite" -> [s EXCEPT !.link = None]
    [] l \in Views  -> GoTo(s, "map")
    [] OTHER        -> Unlay(s, l)

-----------------------------------------------------------------------------
(* Back.                                                                   *)

\* Open in the sense of the state: a sheet that has not risen yet, a list behind a
\* sheet, an invite that is looked up count.
Opened(s) ==
  s.over \cup {l \in Views \ {"map"} : s.view = l}
  \cup (IF s.selected = None THEN {} ELSE {"sheet"}) \cup (IF s.peek = {} THEN {} ELSE {"peek"})
  \cup (IF s.link \in {"inviting", "invited"} THEN {"invite"} ELSE {})

\* Fault: a layer that was added to the frame is not among those that Back closes.
LadderBefore == <<"search", "sheet", "venue", "peek", "filters", "drawer", "list", "invite", "friend">>

\* closeTop asks in this order, and then for the tab.
Ladder == <<"search", "sheet", "venue", "peek", "filters", "drawer", "list", "collection", "invite", "friend">>

CloseTop(s) ==
  LET rungs == {i \in DOMAIN Ladder : Ladder[i] \in Opened(s)}
  IN  IF rungs # {} THEN Shut(s, Ladder[CHOOSE i \in rungs : \A j \in rungs : i <= j])
      ELSE GoTo(s, "map")

\* The button of Telegram is shown while something is stacked; the first-run guide is
\* above it all.
Stacked(s) == Opened(s) \ {"disclosure"} # {}
Back(s) == IF "onboarding" \in s.over THEN Unlay(s, "onboarding") ELSE CloseTop(s)

-----------------------------------------------------------------------------
(* Answers, and the history of the browser.                                *)

\* bootstrap: the guide was seen on another device; a friend was made meanwhile.
Booted(s, seen, befriended) ==
  [s EXCEPT !.booting = FALSE,
            !.over = (IF seen THEN @ \ {"onboarding"} ELSE @) \cup (IF befriended THEN {"disclosure"} ELSE {})]

\* peekFriendLink: a link that is no good is dismissed.
InviteKnown(s, good) == [s EXCEPT !.link = IF good THEN "invited" ELSE None]
AcceptInviter(s) == GoTo([s EXCEPT !.link = None], "friends")

Traverse(s, i) == After(s, [s EXCEPT !.at = i, !.popped = TRUE, !.view = s.paths[i]])

-----------------------------------------------------------------------------
(* Properties of a frame.                                                  *)

Unwinds(s) ==
  Opened(s) \ {"disclosure"} # {} =>
    /\ Stacked(s)
    /\ Opened(Back(s)) \subseteq Opened(s)
    /\ Cardinality(Opened(Back(s))) < Cardinality(Opened(s))

Stands(s) ==
  /\ s.selected # None /\ ~s.closing => s.selected = s.meant
  /\ s.meant # None /\ ~s.hasty => s.selected = s.meant
  /\ ~s.fading => s.focused = s.lit
  /\ s.surface = "web" => s.paths[s.at] = s.view /\ ~s.popped
=============================================================================
