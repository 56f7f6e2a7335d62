---------------------------- MODULE MCSubscription -----------------------------
(***************************************************************************)
(* Small instances of Subscription for TLC: one waiter, and one consumer of *)
(* another kind.                                                           *)
(***************************************************************************)
EXTENDS Subscription, TLC

CONSTANTS s1, s2

MCSubscribers == {s1, s2}
MCKinds == {s1 :> "wait_until" @@ s2 :> k : k \in {"subscribe", "watch"}}
MCSnapshots == {[health |-> "live", matches |-> TRUE], [health |-> "stale", matches |-> TRUE]}
===============================================================================
