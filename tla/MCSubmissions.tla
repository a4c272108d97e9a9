--------------------------- MODULE MCSubmissions ---------------------------
(***************************************************************************)
(* Small instances of Submissions: 1 suggests a channel that Telegram does *)
(* not know, 2 one that it knows, 3 an event.                              *)
(***************************************************************************)
EXTENDS Submissions, TLC

CONSTANTS g, h, a1, a2

MCHandle == [s \in Subs |-> CASE s = 1 -> g [] s = 2 -> h [] OTHER -> NoHandle]
=============================================================================
