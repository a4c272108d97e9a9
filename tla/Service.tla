------------------------------- MODULE Service -------------------------------
(***************************************************************************)
(* The readers of the catalogue beside the budget of the language model:   *)
(* both live in the processes of the service and in its one Redis, under   *)
(* keys of their own, so that neither touches the other.                   *)
(***************************************************************************)
EXTENDS ReadApi, Slots

ServiceVars == <<vars, slotVars>>
ServiceInit == Init /\ SlotInit /\ (scene # "calls" => ~night)
ServiceNext ==
  \/ Next /\ UNCHANGED slotVars
  \/ scene = "calls" /\ SlotNext /\ UNCHANGED vars
ServiceSpec == ServiceInit /\ [][ServiceNext]_ServiceVars /\ Fairness
=============================================================================
