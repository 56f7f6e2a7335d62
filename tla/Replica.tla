-------------------------------- MODULE Replica --------------------------------
(***************************************************************************)
(* What a NiriState object promises its readers, whatever its connections,  *)
(* its loop and its callers do: a sequence of snapshots with growing         *)
(* revisions, a health that follows the table, and subscriptions that are    *)
(* ended only after the last snapshot.                                     *)
(***************************************************************************)
EXTENDS Naturals, Health

VARIABLES
    current,   \* revision and health of the current snapshot; 0 before the first
    health,    \* what health() returns
    ended      \* the subscriptions have been ended

vars == <<current, health, ended>>

Init ==
    /\ health = "bootstrapping"
    /\ current = [revision |-> 0, health |-> health]
    /\ ended = FALSE

\* A snapshot is published, for somebody to read: with a higher revision than all
\* before it, and with the health that health() now returns.  The first is LIVE or
\* STALE; none follows one that is CLOSED or FAILED.
Publishes ==
    /\ ~ended
    /\ current.health \notin Terminal
    /\ current'.revision > current.revision
    /\ current.revision = 0 => health' \in {"live", "stale"}
    /\ current'.health = health'
    /\ CanTransition(health, health')
    /\ UNCHANGED ended

\* The one change of health that is not published.
StartsResync ==
    /\ ~ended
    /\ health \in {"live", "stale"}
    /\ health' = "resyncing"
    /\ UNCHANGED <<current, ended>>

\* Subscribers are told CLOSED or FAILED before their streams end, unless there
\* never was a snapshot.
EndsStreams ==
    /\ ~ended
    /\ current.revision = 0 \/ current.health \in Terminal
    /\ ended' = TRUE
    /\ UNCHANGED <<current, health>>

Next == Publishes \/ StartsResync \/ EndsStreams

Spec == Init /\ [][Next]_vars
===============================================================================
