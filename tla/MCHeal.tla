------------------------------- MODULE MCHeal -------------------------------
(***************************************************************************)
(* Small instances of Heal: venue rows 1 and 2 are one place, 3 another.   *)
(***************************************************************************)
EXTENDS Heal, TLC

CONSTANTS p, q, A, B

MCPlace == [v \in Venues |-> IF v < 3 THEN p ELSE q]
MCTitle == [r \in Raws |-> IF r = 1 THEN A ELSE B]
MCSeat == [r \in Raws |-> IF r = 3 THEN 3 ELSE r]
MCList == [r \in Raws |-> IF r = 1 THEN {0} ELSE {1}]
MCClose == {{A, B}}
MCTour == {<<1, 1>>, <<3, 1>>, <<5, 3>>}
=============================================================================
