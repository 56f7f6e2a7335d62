-------------------------------- MODULE Engine ---------------------------------
(***************************************************************************)
(* What one event does to the data of a replica: the reducers of            *)
(* core/reducers.py, the repairs of core/reconcile.py, the checks of         *)
(* core/invariants.py, and the part of the mutation loop (api/state.py) that *)
(* chains them and labels the publication with the domains that changed.    *)
(*                                                                         *)
(* The engine is published after every event that is not ignored, so it is  *)
(* the current snapshot.  Urgency and focus timestamps are left out, a       *)
(* window's layout is one of two values, and a keyboard is a number of       *)
(* layouts with an index.  The invariant and unknown-event policies are      *)
(* "stale"; what the others do to the loop is in NiriState.                  *)
(***************************************************************************)
EXTENDS Naturals, Functions

CONSTANTS
    Windows, Workspaces, Outputs,   \* ids the compositor may use
    Layouts,            \* what a window's layout may be
    None,
    KnownOutputs,       \* outputs reported by the bootstrap's query
    WindowLists,        \* lists of windows the compositor may send
    WorkspaceLists,     \* lists of workspaces it may send
    Keyboards           \* keyboards it may send

Window == [workspace_id : Workspaces \cup {None}, layout : Layouts]
Workspace == [output : Outputs \cup {None}, is_active : BOOLEAN,
              is_focused : BOOLEAN, active_window_id : Windows \cup {None}]

\* Dictionaries from ids of S to values of V.
Dict(S, V) == UNION {[D -> V] : D \in SUBSET S}

ASSUME EngineAssumption ==
    /\ None \notin Windows \cup Workspaces \cup Outputs
    /\ KnownOutputs \subseteq Outputs
    /\ WindowLists \subseteq Dict(Windows, Window)
    /\ WorkspaceLists \subseteq Dict(Workspaces, Workspace)
    /\ Keyboards \subseteq [names : Nat, current_idx : Nat]

VARIABLES
    engine,    \* EngineState
    changes    \* ChangeSet of the last publication

vars == <<engine, changes>>

Domains == {"outputs", "workspaces", "windows", "focus", "keyboard",
            "overview", "health", "diagnostics"}

\* The current name of a keyboard with names can be looked up.
InRange(k) == k.names = 0 \/ k.current_idx < k.names

TypeOK ==
    /\ engine.outputs \subseteq Outputs
    /\ engine.workspaces \in Dict(Workspaces, Workspace)
    /\ engine.windows \in Dict(Windows, Window)
    /\ engine.focused_window_id \in Windows \cup {None}
    /\ engine.focused_workspace_id \in Workspaces \cup {None}
    /\ engine.keyboard \in [names : Nat, current_idx : Nat]
    /\ InRange(engine.keyboard)
    /\ engine.overview \in BOOLEAN
    /\ engine.health \in {"live", "stale"}
    /\ engine.desynced \in BOOLEAN
    /\ changes.cause \in {"bootstrap", "event", "health"}
    /\ changes.domains \subseteq Domains

-------------------------------------------------------------------------------
(* reconcile *)

\* Mutant: the workspace is set only when none was.
InferFocusedWorkspace(e) ==
    LET f == e.focused_window_id IN
    IF f = None THEN e
    ELSE IF f \notin DOMAIN e.windows THEN [e EXCEPT !.focused_window_id = None]
    ELSE IF e.focused_workspace_id # None THEN e
    ELSE [e EXCEPT !.focused_workspace_id = e.windows[f].workspace_id]

\* A focused window that is gone is forgotten; one that is on a workspace makes
\* that workspace the focused one.
ReconcileFocusedWindow(e) ==
    LET f == e.focused_window_id IN
    IF f = None THEN e
    ELSE IF f \notin DOMAIN e.windows THEN [e EXCEPT !.focused_window_id = None]
    ELSE IF e.windows[f].workspace_id = None THEN e
    ELSE [e EXCEPT !.focused_workspace_id = e.windows[f].workspace_id]

\* A focused workspace that is gone is replaced by one that says it is focused;
\* CHOOSE stands for the first of them in the compositor's list.
ReconcileFocusedWorkspace(e) ==
    LET flagged == {w \in DOMAIN e.workspaces : e.workspaces[w].is_focused} IN
    IF e.focused_workspace_id \in DOMAIN e.workspaces THEN e
    ELSE [e EXCEPT !.focused_workspace_id =
            IF flagged = {} THEN None ELSE CHOOSE w \in flagged : TRUE]

\* Mutants: the index is left as it came, or moved back by one.
KeepKeyboard(e) == e
StepKeyboardBack(e) ==
    IF InRange(e.keyboard) THEN e ELSE [e EXCEPT !.keyboard.current_idx = @ - 1]

ReconcileKeyboard(e) ==
    IF InRange(e.keyboard) THEN e ELSE [e EXCEPT !.keyboard.current_idx = 0]

\* An active window must exist and be on that workspace.
OnWorkspace(e, window, w) ==
    window \in DOMAIN e.windows /\ e.windows[window].workspace_id = w

ReconcileRelationships(e) ==
    [e EXCEPT !.workspaces =
       [w \in DOMAIN e.workspaces |->
          IF OnWorkspace(e, e.workspaces[w].active_window_id, w)
          THEN e.workspaces[w]
          ELSE [e.workspaces[w] EXCEPT !.active_window_id = None]]]

\* A live engine has no desync mark.
ReconcileDiagnostics(e) == [e EXCEPT !.desynced = @ /\ e.health # "live"]

\* Mutant: the focused workspace is checked before the window sets it.
ReconcileOutOfOrder(e) ==
    ReconcileDiagnostics(ReconcileRelationships(ReconcileKeyboard(
        ReconcileFocusedWindow(ReconcileFocusedWorkspace(e)))))

Reconcile(e) ==
    ReconcileDiagnostics(ReconcileRelationships(ReconcileKeyboard(
        ReconcileFocusedWorkspace(ReconcileFocusedWindow(e)))))

-------------------------------------------------------------------------------
(* Invariants and publication *)

\* collect_invariant_violations finds nothing.  Its checks of the derived indexes
\* compare them with what they are computed from, and are left out.
Valid(e) ==
    /\ e.focused_window_id \in DOMAIN e.windows \cup {None}
    /\ e.focused_workspace_id \in DOMAIN e.workspaces \cup {None}
    /\ \A w \in DOMAIN e.windows :
         e.windows[w].workspace_id \in DOMAIN e.workspaces \cup {None}
    /\ \A w \in DOMAIN e.workspaces :
         e.workspaces[w].output \in e.outputs \cup {None}

\* _handle_invariant_violations, under the stale policy.
Checked(e) == IF Valid(e) THEN e ELSE Reconcile([e EXCEPT !.health = "stale"])

\* Mutants: the invariants are checked before the repairs; a change of health is
\* not labelled.
ApplyUnrepaired(e, domains) ==
    /\ engine' = Reconcile(IF Valid(engine) THEN e ELSE [e EXCEPT !.health = "stale"])
    /\ changes' = [cause |-> "event", domains |-> domains]
ApplyUnlabelled(e, domains) ==
    /\ engine' = Checked(Reconcile(e))
    /\ changes' = [cause |-> "event", domains |-> domains]

\* The loop's body, once a reducer has made e of the engine.
Apply(e, domains) ==
    /\ engine' = Checked(Reconcile(e))
    /\ changes' = [cause |-> "event",
                   domains |-> domains \cup (IF engine'.health = engine.health THEN {}
                                             ELSE {"health", "diagnostics"})]

\* _mark_desynced, once a reducer that raised DesyncError has left e.
Desync(e) ==
    /\ engine' = Reconcile([e EXCEPT !.health = "stale", !.desynced = TRUE])
    /\ changes' = [cause |-> "health", domains |-> {"health", "diagnostics"}]

-------------------------------------------------------------------------------
(* The reducers: what each makes of engine e, and the domains it names.  One that *)
(* raises DesyncError may have changed e before.                               *)

Put(f, k, v) == [x \in DOMAIN f \cup {k} |-> IF x = k THEN v ELSE f[x]]
Drop(f, k) == Restrict(f, DOMAIN f \ {k})

Applied(e, domains) == [engine |-> e, domains |-> domains, desync |-> FALSE]
Raised(e) == [engine |-> e, domains |-> {}, desync |-> TRUE]

ReduceWindowsChanged(e, list) ==
    Applied([e EXCEPT !.windows = list], {"windows", "focus"})

ReduceWindowOpenedOrChanged(e, id, window, focused) ==
    LET opened == [e EXCEPT !.windows = Put(@, id, window)] IN
    IF focused
    THEN Applied([opened EXCEPT !.focused_window_id = id], {"windows", "focus"})
    ELSE Applied(opened, {"windows"})

ReduceWindowClosed(e, id) ==
    LET closed == [e EXCEPT !.windows = Drop(@, id)] IN
    IF e.focused_window_id = id
    THEN Applied([closed EXCEPT !.focused_window_id = None], {"windows", "focus"})
    ELSE Applied(closed, {"windows"})

ReduceWindowFocusChanged(e, id) ==
    Applied([e EXCEPT !.focused_window_id = id], {"focus"})

\* Urgency, whose domain is windows, and focus timestamp, which adds focus.
ReduceWindowAttribute(e, id, domains) ==
    IF id \in DOMAIN e.windows THEN Applied(e, domains) ELSE Raised(e)

\* The layouts are set one by one, until an unknown window if there is one.
ReduceWindowLayoutsChanged(e, layouts, unknown) ==
    LET laid == [e EXCEPT !.windows =
                   [w \in DOMAIN @ |-> IF w \in DOMAIN layouts
                                       THEN [@[w] EXCEPT !.layout = layouts[w]]
                                       ELSE @[w]]]
    IN IF unknown THEN Raised(laid) ELSE Applied(laid, {"windows"})

ReduceWorkspacesChanged(e, list) ==
    Applied([e EXCEPT !.workspaces = list], {"workspaces", "focus"})

\* Mutant: the workspaces of every output stop being active or focused.
ReduceWorkspaceActivatedAlone(e, id, focused) ==
    IF id \notin DOMAIN e.workspaces THEN Raised(e)
    ELSE Applied([e EXCEPT
           !.workspaces = [w \in DOMAIN @ |->
              [@[w] EXCEPT !.is_active = w = id, !.is_focused = focused /\ w = id]],
           !.focused_workspace_id = IF focused THEN id ELSE @],
           {"workspaces", "focus"})

\* The other workspaces of the same output stop being active or focused.
ReduceWorkspaceActivated(e, id, focused) ==
    LET output == e.workspaces[id].output
        activated == [w \in DOMAIN e.workspaces |->
          IF w = id
          THEN [e.workspaces[w] EXCEPT !.is_active = TRUE, !.is_focused = focused]
          ELSE IF e.workspaces[w].output = output
          THEN [e.workspaces[w] EXCEPT !.is_active = FALSE, !.is_focused = FALSE]
          ELSE e.workspaces[w]]
    IN IF id \notin DOMAIN e.workspaces THEN Raised(e)
       ELSE Applied([e EXCEPT !.workspaces = activated,
                              !.focused_workspace_id = IF focused THEN id ELSE @],
                    {"workspaces", "focus"})

ReduceWorkspaceActiveWindowChanged(e, id, window) ==
    IF id \notin DOMAIN e.workspaces THEN Raised(e)
    ELSE Applied([e EXCEPT !.workspaces[id].active_window_id = window],
                 {"workspaces", "focus"})

ReduceWorkspaceUrgencyChanged(e, id) ==
    IF id \in DOMAIN e.workspaces THEN Applied(e, {"workspaces"}) ELSE Raised(e)

ReduceKeyboardLayoutsChanged(e, k) == Applied([e EXCEPT !.keyboard = k], {"keyboard"})

ReduceKeyboardLayoutSwitched(e, idx) ==
    Applied([e EXCEPT !.keyboard.current_idx = idx], {"keyboard"})

ReduceOverviewOpenedOrClosed(e, is_open) ==
    Applied([e EXCEPT !.overview = is_open], {"overview"})

-------------------------------------------------------------------------------
(* The mutation loop's body, for each event *)

Handle(r) == IF r.desync THEN Desync(r.engine) ELSE Apply(r.engine, r.domains)

WindowsChanged == \E list \in WindowLists : Handle(ReduceWindowsChanged(engine, list))

WindowOpenedOrChanged ==
    \E id \in Windows, window \in Window, focused \in BOOLEAN :
        Handle(ReduceWindowOpenedOrChanged(engine, id, window, focused))

WindowClosed == \E id \in Windows : Handle(ReduceWindowClosed(engine, id))

WindowFocusChanged ==
    \E id \in Windows \cup {None} : Handle(ReduceWindowFocusChanged(engine, id))

WindowAttributeChanged ==
    \E id \in Windows, domains \in {{"windows"}, {"windows", "focus"}} :
        Handle(ReduceWindowAttribute(engine, id, domains))

WindowLayoutsChanged ==
    \E layouts \in Dict(DOMAIN engine.windows, Layouts), unknown \in BOOLEAN :
        /\ unknown => DOMAIN engine.windows # Windows
        /\ Handle(ReduceWindowLayoutsChanged(engine, layouts, unknown))

WorkspacesChanged ==
    \E list \in WorkspaceLists : Handle(ReduceWorkspacesChanged(engine, list))

WorkspaceActivated ==
    \E id \in Workspaces, focused \in BOOLEAN :
        Handle(ReduceWorkspaceActivated(engine, id, focused))

WorkspaceActiveWindowChanged ==
    \E id \in Workspaces, window \in Windows \cup {None} :
        Handle(ReduceWorkspaceActiveWindowChanged(engine, id, window))

WorkspaceUrgencyChanged ==
    \E id \in Workspaces : Handle(ReduceWorkspaceUrgencyChanged(engine, id))

KeyboardLayoutsChanged ==
    \E k \in Keyboards : Handle(ReduceKeyboardLayoutsChanged(engine, k))

KeyboardLayoutSwitched ==
    \E k \in Keyboards : Handle(ReduceKeyboardLayoutSwitched(engine, k.current_idx))

OverviewOpenedOrClosed ==
    \E is_open \in BOOLEAN : Handle(ReduceOverviewOpenedOrClosed(engine, is_open))

\* ConfigLoaded and ScreenshotCaptured.
NoEffect == Handle(Applied(engine, {}))

UnknownEvent ==
    Handle(Applied([engine EXCEPT !.health = "stale", !.desynced = TRUE],
                   {"diagnostics"}))

Next ==
    \/ WindowsChanged \/ WindowOpenedOrChanged \/ WindowClosed
    \/ WindowFocusChanged \/ WindowAttributeChanged \/ WindowLayoutsChanged
    \/ WorkspacesChanged \/ WorkspaceActivated \/ WorkspaceActiveWindowChanged
    \/ WorkspaceUrgencyChanged
    \/ KeyboardLayoutsChanged \/ KeyboardLayoutSwitched \/ OverviewOpenedOrClosed
    \/ NoEffect \/ UnknownEvent

\* build_initial_engine_state.  Each query is a request of its own: the focused
\* window need not be in the list of windows, nor its workspace in theirs.
BuildInitial(windows, workspaces, focused, workspace, keyboard, overview) ==
    Reconcile([outputs |-> KnownOutputs, workspaces |-> workspaces,
               windows |-> windows, focused_window_id |-> focused,
               focused_workspace_id |-> IF focused = None THEN None ELSE workspace,
               keyboard |-> keyboard, overview |-> overview,
               health |-> "bootstrapping", desynced |-> FALSE])

\* Mutant: the health stays what it was during the bootstrap.
BootstrappedAsIs(e) == Checked(e)

\* The end of run_bootstrap: LIVE, or STALE if invariants are violated.
Bootstrapped(e) ==
    Checked([e EXCEPT !.health = IF @ = "bootstrapping" THEN "live" ELSE @])

Init ==
    /\ \E windows \in WindowLists, workspaces \in WorkspaceLists,
          focused \in Windows \cup {None}, workspace \in Workspaces \cup {None},
          keyboard \in Keyboards, overview \in BOOLEAN :
         engine = Bootstrapped(BuildInitial(windows, workspaces, focused, workspace,
                                            keyboard, overview))
    /\ changes = [cause |-> "bootstrap", domains |-> Domains]

Spec == Init /\ [][Next]_vars

-------------------------------------------------------------------------------
(* Properties *)

\* Every reference in a published snapshot that reconcile is responsible for
\* resolves: the focused window and workspace exist, and the active window of a
\* workspace exists and is on it, whatever order the events came in.
ReferencesResolve ==
    /\ engine.focused_window_id \in DOMAIN engine.windows \cup {None}
    /\ engine.focused_workspace_id \in DOMAIN engine.workspaces \cup {None}
    /\ \A w \in DOMAIN engine.workspaces :
         LET active == engine.workspaces[w].active_window_id IN
         active = None \/ OnWorkspace(engine, active, w)

\* One pass of reconcile is enough, in the order its repairs are made: a second
\* one would change nothing.
ReconcileIsStable == Reconcile(engine) = engine

\* A snapshot that breaks an invariant is not LIVE.
InvalidIsStale == ~Valid(engine) => engine.health = "stale"

\* The focused workspace is the focused window's, when that one is known.
FocusFollowsWindow ==
    engine.focused_window_id # None =>
        LET w == engine.windows[engine.focused_window_id].workspace_id IN
        w \in DOMAIN engine.workspaces => engine.focused_workspace_id = w

\* What a consumer that reads only the named domains may count on, as FINAL_SPEC.md:326
\* has every event return changed-domain metadata.  Reducers name what they assign, and
\* reconcile, which names nothing, then changes more: the focused workspace and the
\* workspaces' active windows may also change under "windows", so their readers must
\* watch that domain too, although FINAL_SPEC.md:175 counts it as focus and the CLI
\* prints it as such (cli.py:174); nothing else changes unnamed.  A desync names only
\* health, whatever its reducer had changed: the layouts that
\* reduce_window_layouts_changed set before it raised are published (reducers.py:176,
\* against FINAL_SPEC.md:189).
DomainsReportChanges ==
    [][/\ engine'.health # engine.health => "health" \in changes'.domains
       /\ engine'.focused_window_id # engine.focused_window_id
            => "focus" \in changes'.domains
       /\ engine'.focused_workspace_id # engine.focused_workspace_id
            => {"focus", "windows"} \cap changes'.domains # {}
       /\ engine'.workspaces # engine.workspaces
            => {"workspaces", "windows"} \cap changes'.domains # {}
       /\ engine'.windows # engine.windows
            => "windows" \in changes'.domains \/ changes'.cause = "health"
       /\ engine'.keyboard # engine.keyboard => "keyboard" \in changes'.domains
       /\ engine'.overview # engine.overview => "overview" \in changes'.domains]_vars

===============================================================================
