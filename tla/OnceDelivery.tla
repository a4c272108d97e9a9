---------------------------- MODULE OnceDelivery ----------------------------
(***************************************************************************)
(* What a custom broadcast promises its audience, with no dispatcher, no   *)
(* ledger and no failures: an administrator releases a campaign with one   *)
(* content, and from then on each user may receive that content, at most   *)
(* once.  Nothing forces a delivery: a rare loss is accepted, a duplicate  *)
(* is not (module docstring of apps/worker/tasks/broadcasts.py).           *)
(***************************************************************************)
EXTENDS Sequences

CONSTANTS Campaigns,  \* campaign identifiers
          Users,      \* Telegram users
          Contents,   \* what a campaign says and whom it addresses
          NoContent   \* stands for "not released yet"

VARIABLES released,   \* released[c]: the content c was released with, or NoContent
          inbox       \* inbox[c][u]: the messages of campaign c that u received

vars == <<released, inbox>>

Init == /\ released = [c \in Campaigns |-> NoContent]
        /\ inbox = [c \in Campaigns |-> [u \in Users |-> <<>>]]

Release(c) == /\ released[c] = NoContent
              /\ \E k \in Contents : released' = [released EXCEPT ![c] = k]
              /\ UNCHANGED inbox

Deliver(c, u) == /\ released[c] # NoContent
                 /\ inbox[c][u] = <<>>
                 /\ inbox' = [inbox EXCEPT ![c][u] = <<released[c]>>]
                 /\ UNCHANGED released

Next == \E c \in Campaigns : Release(c) \/ \E u \in Users : Deliver(c, u)

Spec == Init /\ [][Next]_vars
=============================================================================
