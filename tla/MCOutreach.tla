----------------------------- MODULE MCOutreach -----------------------------
(***************************************************************************)
(* Small instances of Outreach.  A tick stands for some hours.             *)
(***************************************************************************)
EXTENDS Outreach, TLC

\* An event with a session at 1 and a long run that is open from 0 to 3: its
\* reminder is set by the start up to 1, then by the end, then by nothing.
MCSessions == [e \in Events |-> {[start |-> 1, end |-> Open], [start |-> 0, end |-> 3]}]

MCWindow == [k \in Nudges |-> IF k = "welcome" THEN <<0, 2>> ELSE <<2, 5>>]
\* The reminders, the digest and the nudges share no table but the accounts.
MCLanes == {{"reminders"}, {"digest"}, Nudges}
=============================================================================
