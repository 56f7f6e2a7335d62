------------------------------- MODULE MCEngine --------------------------------
(***************************************************************************)
(* A small instance of Engine for TLC: two windows, two workspaces, and two *)
(* outputs of which the bootstrap saw one, so that a workspace can be on an  *)
(* output that was plugged in later.                                       *)
(***************************************************************************)
EXTENDS Engine, TLC

CONSTANTS w1, w2, ws1, ws2, out1, out2

MCWindows == {w1, w2}
MCWorkspaces == {ws1, ws2}
MCOutputs == {out1, out2}
MCKnownOutputs == {out1}

\* Indexes of a name, and one and two past the last.
MCKeyboards == [names : {1, 2}, current_idx : {0, 1, 3}]

MCWindowLists ==
    Dict(MCWindows, [workspace_id : MCWorkspaces \cup {None}, layout : Layouts])

\* Nothing; one workspace; two on one output; two on two outputs.
Shown(output, focused, window) ==
    [output |-> output, is_active |-> TRUE, is_focused |-> focused,
     active_window_id |-> window]
Hidden(output) ==
    [output |-> output, is_active |-> FALSE, is_focused |-> FALSE,
     active_window_id |-> None]
MCWorkspaceLists ==
    {<<>>,
     ws1 :> Shown(out1, TRUE, w1),
     ws1 :> Shown(out1, TRUE, w1) @@ ws2 :> Hidden(out1),
     ws1 :> Shown(out1, FALSE, None) @@ ws2 :> Shown(out2, TRUE, w2)}

\* The label of a publication says nothing of what may come next.
EngineOnly == engine

===============================================================================
