----------------------------- MODULE MCMiniApp -----------------------------
(* Two phones of one account; one has an old heart from before.            *)
EXTENDS MiniApp, TLC

TheLists == [i \in Items |-> IF i = "venue" THEN "follows" ELSE "favorites"]
TheLeftBehind == [d \in Phones |-> IF d = "old" THEN {"jazz"} ELSE {}]
ThePosition == [d \in {"new"} |-> "spb"]
=============================================================================
