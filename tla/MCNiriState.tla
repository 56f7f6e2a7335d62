------------------------------ MODULE MCNiriState ------------------------------
(***************************************************************************)
(* Small instances of NiriState for TLC.  The user's tasks and the          *)
(* connections are interchangeable; symmetry is used by the runs that check *)
(* no liveness property.                                                    *)
(***************************************************************************)
EXTENDS NiriState, TLC

CONSTANTS c1, c2, b1, b2, b3

MCCallers == {c1, c2}
MCBundles == {b1, b2, b3}
MCSymmetry == Permutations(MCCallers) \cup Permutations(MCBundles)
===============================================================================
