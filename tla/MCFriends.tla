----------------------------- MODULE MCFriends ------------------------------
(***************************************************************************)
(* Small instances of Friends.                                             *)
(***************************************************************************)
EXTENDS Friends, TLC

Symmetry == Permutations(Users) \cup Permutations(Workers)
=============================================================================
