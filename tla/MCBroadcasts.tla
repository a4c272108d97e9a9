---------------------------- MODULE MCBroadcasts ----------------------------
(***************************************************************************)
(* Small instances of Broadcasts.  Campaigns and users are numbers because *)
(* the code orders them (ORDER BY created_at, ORDER BY telegram_user_id).  *)
(***************************************************************************)
EXTENDS Broadcasts, TLC

CONSTANTS k1, k2

\* The first content addresses everybody, the second one the first user only.
MCAudOf == [k \in Contents |-> IF k = k1 THEN Users ELSE {u \in Users : u = 1}]
=============================================================================
