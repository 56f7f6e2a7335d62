----------------------------- MODULE MCBroadcaster -----------------------------
(***************************************************************************)
(* Small instances of Broadcaster for TLC: two subscriptions, both overflow *)
(* policies, and queues of one and two items.                              *)
(***************************************************************************)
EXTENDS Broadcaster

CONSTANTS s1, s2

MCSubscribers == {s1, s2}
===============================================================================
