----------------------------- MODULE MCReadApi -----------------------------
(***************************************************************************)
(* Two units a day.  Four places: 0 is the placeholder, which has no       *)
(* coordinates, 1 and 2 are a stage and a gallery of one                   *)
(* city, 3 a club of another.  A play with two showings, an exhibition     *)
(* that runs, a tour whose place nobody told but for its second date, and  *)
(* a concert far away.                                                     *)
(***************************************************************************)
EXTENDS Service

DontKnow == {-1}
TheCat == <<"theatre", "exhibition", "tour", "concert">>
ThePrice == <<3, 0, 1000, 3>>
TheArea == [p \in 0..3 |-> <<"none", "msk", "msk", "spb">>[p + 1]]
ThePos == [p \in 0..3 |-> <<0, 1, 3, 9>>[p + 1]]
TheHours == [p \in 0..3 |-> <<DontKnow, {0, 1}, {1}, DontKnow>>[p + 1]]
TheVenue == [p \in 0..3 |-> <<"", "stage", "gallery", "club">>[p + 1]]

On(e, p, from, to) == [ev |-> e, place |-> p, from |-> from, to |-> to]
TheRows == {On(1, 1, 0, 0), On(1, 2, 1, 1), On(2, 2, 0, 3), On(3, 0, 1, 1), On(3, 1, 3, 3), On(4, 3, 2, 2)}

TheViews == <<0, 2, 1, 0>>
TheIntents == <<0, 0, 0, 1>>
TheCreated == <<0, 0, 1, 0>>
TheQuality == <<100, 60, 0, 80>>
TheChanges == [cache |-> 1, list |-> 2, feed |-> 1, views |-> 1, index |-> 1, calls |-> 0]
TheNow == [cache |-> 3, list |-> 1, feed |-> 2, views |-> 3, index |-> 1, calls |-> 0]
TheProcess == [c \in Calls |-> IF c = "api" THEN "api" ELSE "worker"]
TheWorkers == [r \in {"r1", "r2"} |-> "w"]
=============================================================================
