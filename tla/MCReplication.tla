----------------------------- MODULE MCReplication -----------------------------
(***************************************************************************)
(* Small instances of Replication for TLC, from every arrangement of windows *)
(* on workspaces and of workspaces on outputs.                             *)
(***************************************************************************)
EXTENDS Replication

CONSTANTS w1, w2, ws1, ws2, out1, out2

\* The label of a publication says nothing of what may come next.
WithoutChanges == <<engine, compositor, stream, bootstrap>>

===============================================================================
