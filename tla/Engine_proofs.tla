---------------------------- MODULE Engine_proofs -----------------------------
(***************************************************************************)
(* Proofs about Engine, for every set of ids, of lists and of keyboards: what *)
(* the repairs establish, and what every published snapshot then satisfies.  *)
(***************************************************************************)
EXTENDS Engine, TLAPS

\* Engines as they are while an event is reduced: references may dangle.
EngineState ==
    [outputs : SUBSET Outputs,
     workspaces : Dict(Workspaces, Workspace),
     windows : Dict(Windows, Window),
     focused_window_id : Windows \cup {None},
     focused_workspace_id : Workspaces \cup {None},
     keyboard : [names : Nat, current_idx : Nat],
     overview : BOOLEAN,
     health : {"bootstrapping", "live", "stale"},
     desynced : BOOLEAN]

(* A dictionary is a function whose domain may be any part of the keys. *)
LEMMA DictElement ==
    ASSUME NEW S, NEW V, NEW f
    PROVE  f \in Dict(S, V) <=> DOMAIN f \subseteq S /\ f \in [DOMAIN f -> V]
BY DEF Dict

(* windows[id] = window: the dictionary gets the key and stays a dictionary. *)
LEMMA PutWindow ==
    ASSUME NEW f \in Dict(Windows, Window), NEW k \in Windows, NEW v \in Window
    PROVE  /\ Put(f, k, v) \in Dict(Windows, Window)
           /\ DOMAIN Put(f, k, v) = DOMAIN f \cup {k}
BY DictElement DEF Put

(* windows.pop(id): the dictionary loses the key and stays a dictionary. *)
LEMMA DropWindow ==
    ASSUME NEW f \in Dict(Windows, Window), NEW k
    PROVE  /\ Drop(f, k) \in Dict(Windows, Window)
           /\ DOMAIN Drop(f, k) = DOMAIN f \ {k}
BY DictElement DEF Drop, Restrict

(* What a stored window may refer to. *)
LEMMA WindowOf ==
    ASSUME NEW e \in EngineState, NEW w \in DOMAIN e.windows
    PROVE  /\ w \in Windows /\ w # None
           /\ e.windows[w] \in Window
           /\ e.windows[w].workspace_id \in Workspaces \cup {None}
<1>1. e.windows \in Dict(Windows, Window)
  BY DEF EngineState
<1>2. w \in Windows /\ e.windows[w] \in Window
  BY <1>1, DictElement
<1> QED
  BY <1>2, EngineAssumption DEF Window

(* A stored workspace is a workspace, under an id that is not None. *)
LEMMA WorkspaceOf ==
    ASSUME NEW e \in EngineState, NEW w \in DOMAIN e.workspaces
    PROVE  /\ w \in Workspaces /\ w # None
           /\ e.workspaces[w] \in Workspace
<1>1. e.workspaces \in Dict(Workspaces, Workspace)
  BY DEF EngineState
<1>2. w \in Workspaces /\ e.workspaces[w] \in Workspace
  BY <1>1, DictElement
<1> QED
  BY <1>2, EngineAssumption

-------------------------------------------------------------------------------
(* The repairs *)

(* The first repair: a focused window that is gone is forgotten, one that exists
   takes the focused workspace along. *)
LEMMA FocusedWindowRepair ==
    ASSUME NEW e \in EngineState
    PROVE  LET r == ReconcileFocusedWindow(e)
               f == e.focused_window_id
           IN /\ r \in EngineState
              /\ r.focused_window_id = IF f \in DOMAIN e.windows THEN f ELSE None
              /\ r.focused_workspace_id =
                   IF f \in DOMAIN e.windows /\ e.windows[f].workspace_id # None
                   THEN e.windows[f].workspace_id ELSE e.focused_workspace_id
              /\ r.outputs = e.outputs /\ r.workspaces = e.workspaces
              /\ r.windows = e.windows /\ r.keyboard = e.keyboard
              /\ r.overview = e.overview /\ r.health = e.health
              /\ r.desynced = e.desynced
<1> DEFINE f == e.focused_window_id
           r == ReconcileFocusedWindow(e)
<1>1. CASE f \notin DOMAIN e.windows
  <2>1. f = None => r = [e EXCEPT !.focused_window_id = None]
    BY DEF EngineState, ReconcileFocusedWindow
  <2>2. r = [e EXCEPT !.focused_window_id = None]
    BY <1>1, <2>1 DEF ReconcileFocusedWindow
  <2> QED
    BY <1>1, <2>2 DEF EngineState
<1>2. CASE f \in DOMAIN e.windows /\ e.windows[f].workspace_id = None
  <2>1. r = e
    BY <1>2 DEF ReconcileFocusedWindow
  <2> QED
    BY <1>2, <2>1
<1>3. CASE f \in DOMAIN e.windows /\ e.windows[f].workspace_id # None
  <2>1. f \in Windows /\ e.windows[f].workspace_id \in Workspaces /\ f # None
    BY <1>3, WindowOf
  <2>2. r = [e EXCEPT !.focused_workspace_id = e.windows[f].workspace_id]
    BY <1>3, <2>1 DEF ReconcileFocusedWindow
  <2> QED
    BY <1>3, <2>1, <2>2 DEF EngineState
<1> QED
  BY <1>1, <1>2, <1>3

\* What stands in for focused workspace w.
Flagged(workspaces) == {w \in DOMAIN workspaces : workspaces[w].is_focused}
Resolved(workspaces, w) ==
    IF w \in DOMAIN workspaces THEN w
    ELSE IF Flagged(workspaces) = {} THEN None
    ELSE CHOOSE x \in Flagged(workspaces) : TRUE

(* The id that Resolved returns exists, or is None. *)
LEMMA ResolvedResolves ==
    ASSUME NEW workspaces, NEW w
    PROVE  Resolved(workspaces, w) \in DOMAIN workspaces \cup {None}
<1>1. Flagged(workspaces) \subseteq DOMAIN workspaces
  BY DEF Flagged
<1>2. Flagged(workspaces) # {}
        => (CHOOSE x \in Flagged(workspaces) : TRUE) \in Flagged(workspaces)
  OBVIOUS
<1> QED
  BY <1>1, <1>2 DEF Resolved

(* The second repair touches the focused workspace only. *)
LEMMA FocusedWorkspaceRepair ==
    ASSUME NEW e \in EngineState
    PROVE  LET r == ReconcileFocusedWorkspace(e)
           IN /\ r \in EngineState
              /\ r.focused_workspace_id = Resolved(e.workspaces, e.focused_workspace_id)
              /\ r.focused_window_id = e.focused_window_id
              /\ r.outputs = e.outputs /\ r.workspaces = e.workspaces
              /\ r.windows = e.windows /\ r.keyboard = e.keyboard
              /\ r.overview = e.overview /\ r.health = e.health
              /\ r.desynced = e.desynced
<1> DEFINE r == ReconcileFocusedWorkspace(e)
           w == Resolved(e.workspaces, e.focused_workspace_id)
<1>1. CASE e.focused_workspace_id \in DOMAIN e.workspaces
  <2>1. r = e /\ w = e.focused_workspace_id
    BY <1>1 DEF ReconcileFocusedWorkspace, Resolved
  <2> QED
    BY <2>1
<1>2. CASE e.focused_workspace_id \notin DOMAIN e.workspaces
  <2>1. r = [e EXCEPT !.focused_workspace_id = w]
    BY <1>2 DEF ReconcileFocusedWorkspace, Resolved, Flagged
  <2>2. w \in Workspaces \cup {None}
    BY ResolvedResolves, WorkspaceOf
  <2> HIDE DEF w
  <2>3. /\ r \in EngineState
        /\ r.focused_workspace_id = w
        /\ r.focused_window_id = e.focused_window_id
        /\ r.outputs = e.outputs /\ r.workspaces = e.workspaces
        /\ r.windows = e.windows /\ r.keyboard = e.keyboard
        /\ r.overview = e.overview /\ r.health = e.health
        /\ r.desynced = e.desynced
    BY <2>1, <2>2 DEF EngineState
  <2> QED
    BY <2>3 DEF w
<1> QED
  BY <1>1, <1>2

(* The third repair touches the index of the keyboard layout only. *)
LEMMA KeyboardRepair ==
    ASSUME NEW e \in EngineState
    PROVE  LET r == ReconcileKeyboard(e)
           IN /\ r \in EngineState
              /\ r.keyboard = IF InRange(e.keyboard) THEN e.keyboard
                              ELSE [e.keyboard EXCEPT !.current_idx = 0]
              /\ r.focused_window_id = e.focused_window_id
              /\ r.focused_workspace_id = e.focused_workspace_id
              /\ r.outputs = e.outputs /\ r.workspaces = e.workspaces
              /\ r.windows = e.windows
              /\ r.overview = e.overview /\ r.health = e.health
              /\ r.desynced = e.desynced
<1> DEFINE r == ReconcileKeyboard(e)
           k == [e.keyboard EXCEPT !.current_idx = 0]
<1>1. CASE InRange(e.keyboard)
  BY <1>1 DEF ReconcileKeyboard
<1>2. CASE ~InRange(e.keyboard)
  <2>1. r = [e EXCEPT !.keyboard = k]
    BY <1>2 DEF ReconcileKeyboard, EngineState
  <2>2. k \in [names : Nat, current_idx : Nat]
    BY DEF EngineState
  <2> HIDE DEF k
  <2>3. /\ r \in EngineState
        /\ r.keyboard = k
        /\ r.focused_window_id = e.focused_window_id
        /\ r.focused_workspace_id = e.focused_workspace_id
        /\ r.outputs = e.outputs /\ r.workspaces = e.workspaces
        /\ r.windows = e.windows
        /\ r.overview = e.overview /\ r.health = e.health
        /\ r.desynced = e.desynced
    BY <2>1, <2>2 DEF EngineState
  <2> QED
    BY <1>2, <2>3 DEF k
<1> QED
  BY <1>1, <1>2

\* A workspace whose active window is not on it has none.
Related(e) ==
    [w \in DOMAIN e.workspaces |->
       IF OnWorkspace(e, e.workspaces[w].active_window_id, w)
       THEN e.workspaces[w]
       ELSE [e.workspaces[w] EXCEPT !.active_window_id = None]]

(* The fourth repair touches the workspaces only. *)
LEMMA RelationshipsRepair ==
    ASSUME NEW e \in EngineState
    PROVE  LET r == ReconcileRelationships(e)
           IN /\ r \in EngineState
              /\ r.workspaces = Related(e)
              /\ r.focused_window_id = e.focused_window_id
              /\ r.focused_workspace_id = e.focused_workspace_id
              /\ r.outputs = e.outputs /\ r.windows = e.windows
              /\ r.keyboard = e.keyboard
              /\ r.overview = e.overview /\ r.health = e.health
              /\ r.desynced = e.desynced
<1> DEFINE r == ReconcileRelationships(e)
<1>1. r = [e EXCEPT !.workspaces = Related(e)]
  BY DEF ReconcileRelationships, Related
<1>2. Related(e) \in Dict(Workspaces, Workspace)
  <2>1. ASSUME NEW w \in DOMAIN e.workspaces
        PROVE  w \in Workspaces /\ Related(e)[w] \in Workspace
    <3>1. w \in Workspaces /\ e.workspaces[w] \in Workspace
      BY WorkspaceOf
    <3>2. [e.workspaces[w] EXCEPT !.active_window_id = None] \in Workspace
      BY <3>1 DEF Workspace
    <3> QED
      BY <3>1, <3>2 DEF Related
  <2>2. DOMAIN Related(e) = DOMAIN e.workspaces
    BY DEF Related
  <2>3. Related(e) \in [DOMAIN e.workspaces -> Workspace]
    BY <2>1 DEF Related
  <2>4. DOMAIN e.workspaces \subseteq Workspaces
    BY <2>1
  <2> QED
    BY <2>2, <2>3, <2>4, DictElement
<1> QED
  BY <1>1, <1>2 DEF EngineState

(* The fifth repair clears the desync mark of a LIVE engine and nothing else. *)
LEMMA DiagnosticsRepair ==
    ASSUME NEW e \in EngineState
    PROVE  LET r == ReconcileDiagnostics(e)
           IN /\ r \in EngineState
              /\ r.desynced = (e.desynced /\ e.health # "live")
              /\ r.focused_window_id = e.focused_window_id
              /\ r.focused_workspace_id = e.focused_workspace_id
              /\ r.outputs = e.outputs /\ r.workspaces = e.workspaces
              /\ r.windows = e.windows /\ r.keyboard = e.keyboard
              /\ r.overview = e.overview /\ r.health = e.health
<1> DEFINE r == ReconcileDiagnostics(e)
           d == e.desynced /\ e.health # "live"
<1>1. r = [e EXCEPT !.desynced = d]
  BY DEF ReconcileDiagnostics
<1>2. d \in BOOLEAN
  OBVIOUS
<1> HIDE DEF d
<1>3. /\ r \in EngineState
      /\ r.desynced = d
      /\ r.focused_window_id = e.focused_window_id
      /\ r.focused_workspace_id = e.focused_workspace_id
      /\ r.outputs = e.outputs /\ r.workspaces = e.workspaces
      /\ r.windows = e.windows /\ r.keyboard = e.keyboard
      /\ r.overview = e.overview /\ r.health = e.health
  BY <1>1, <1>2 DEF EngineState
<1> QED
  BY <1>3 DEF d

-------------------------------------------------------------------------------
(* All the repairs, in their order *)

\* The workspace that the focused window makes the focused one.
FollowedFocus(e) ==
    IF e.focused_window_id \in DOMAIN e.windows
       /\ e.windows[e.focused_window_id].workspace_id # None
    THEN e.windows[e.focused_window_id].workspace_id ELSE e.focused_workspace_id

\* What reconcile makes of each field.
LEMMA Reconciled ==
    ASSUME NEW e \in EngineState
    PROVE  LET r == Reconcile(e)
           IN /\ r \in EngineState
              /\ r.focused_window_id =
                   IF e.focused_window_id \in DOMAIN e.windows
                   THEN e.focused_window_id ELSE None
              /\ r.focused_workspace_id = Resolved(e.workspaces, FollowedFocus(e))
              /\ r.keyboard = IF InRange(e.keyboard) THEN e.keyboard
                              ELSE [e.keyboard EXCEPT !.current_idx = 0]
              /\ r.workspaces = Related(e)
              /\ r.desynced = (e.desynced /\ e.health # "live")
              /\ r.outputs = e.outputs /\ r.windows = e.windows
              /\ r.overview = e.overview /\ r.health = e.health
<1> DEFINE r1 == ReconcileFocusedWindow(e)
           r2 == ReconcileFocusedWorkspace(r1)
           r3 == ReconcileKeyboard(r2)
           r4 == ReconcileRelationships(r3)
           r5 == ReconcileDiagnostics(r4)
<1>0. Reconcile(e) = r5
  BY DEF Reconcile
<1>1. /\ r1 \in EngineState
      /\ r1.focused_window_id = IF e.focused_window_id \in DOMAIN e.windows
                                THEN e.focused_window_id ELSE None
      /\ r1.focused_workspace_id = FollowedFocus(e)
      /\ r1.outputs = e.outputs /\ r1.workspaces = e.workspaces
      /\ r1.windows = e.windows /\ r1.keyboard = e.keyboard
      /\ r1.overview = e.overview /\ r1.health = e.health
      /\ r1.desynced = e.desynced
  BY FocusedWindowRepair DEF FollowedFocus
<1> HIDE DEF r1
<1>2. /\ r2 \in EngineState
      /\ r2.focused_workspace_id = Resolved(r1.workspaces, r1.focused_workspace_id)
      /\ r2.focused_window_id = r1.focused_window_id
      /\ r2.outputs = r1.outputs /\ r2.workspaces = r1.workspaces
      /\ r2.windows = r1.windows /\ r2.keyboard = r1.keyboard
      /\ r2.overview = r1.overview /\ r2.health = r1.health
      /\ r2.desynced = r1.desynced
  BY <1>1, FocusedWorkspaceRepair
<1> HIDE DEF r2
<1>3. /\ r3 \in EngineState
      /\ r3.keyboard = IF InRange(r2.keyboard) THEN r2.keyboard
                       ELSE [r2.keyboard EXCEPT !.current_idx = 0]
      /\ r3.focused_window_id = r2.focused_window_id
      /\ r3.focused_workspace_id = r2.focused_workspace_id
      /\ r3.outputs = r2.outputs /\ r3.workspaces = r2.workspaces
      /\ r3.windows = r2.windows
      /\ r3.overview = r2.overview /\ r3.health = r2.health
      /\ r3.desynced = r2.desynced
  BY <1>2, KeyboardRepair
<1> HIDE DEF r3
<1>4. /\ r4 \in EngineState
      /\ r4.workspaces = Related(r3)
      /\ r4.focused_window_id = r3.focused_window_id
      /\ r4.focused_workspace_id = r3.focused_workspace_id
      /\ r4.outputs = r3.outputs /\ r4.windows = r3.windows
      /\ r4.keyboard = r3.keyboard
      /\ r4.overview = r3.overview /\ r4.health = r3.health
      /\ r4.desynced = r3.desynced
  BY <1>3, RelationshipsRepair
<1> HIDE DEF r4
<1>5. /\ r5 \in EngineState
      /\ r5.desynced = (r4.desynced /\ r4.health # "live")
      /\ r5.focused_window_id = r4.focused_window_id
      /\ r5.focused_workspace_id = r4.focused_workspace_id
      /\ r5.outputs = r4.outputs /\ r5.workspaces = r4.workspaces
      /\ r5.windows = r4.windows /\ r5.keyboard = r4.keyboard
      /\ r5.overview = r4.overview /\ r5.health = r4.health
  BY <1>4, DiagnosticsRepair
<1> HIDE DEF r5
<1>6. Related(r3) = Related(e)
  BY <1>1, <1>2, <1>3 DEF Related, OnWorkspace
<1> QED
  BY <1>0, <1>1, <1>2, <1>3, <1>4, <1>5, <1>6

\* A record is its fields.
LEMMA SameEngine ==
    ASSUME NEW d \in EngineState, NEW e \in EngineState,
           d.outputs = e.outputs, d.workspaces = e.workspaces,
           d.windows = e.windows, d.focused_window_id = e.focused_window_id,
           d.focused_workspace_id = e.focused_workspace_id,
           d.keyboard = e.keyboard, d.overview = e.overview,
           d.health = e.health, d.desynced = e.desynced
    PROVE  d = e
BY DEF EngineState

\* One pass is enough, whatever the engine was.
LEMMA ReconcileTwice ==
    ASSUME NEW e \in EngineState
    PROVE  Reconcile(Reconcile(e)) = Reconcile(e)
<1> DEFINE r == Reconcile(e)
           s == Reconcile(r)
<1>1. /\ r \in EngineState
      /\ r.focused_window_id = IF e.focused_window_id \in DOMAIN e.windows
                               THEN e.focused_window_id ELSE None
      /\ r.focused_workspace_id = Resolved(e.workspaces, FollowedFocus(e))
      /\ r.keyboard = IF InRange(e.keyboard) THEN e.keyboard
                      ELSE [e.keyboard EXCEPT !.current_idx = 0]
      /\ r.workspaces = Related(e)
      /\ r.desynced = (e.desynced /\ e.health # "live")
      /\ r.outputs = e.outputs /\ r.windows = e.windows
      /\ r.overview = e.overview /\ r.health = e.health
  BY Reconciled
<1> HIDE DEF r
<1>2. /\ s \in EngineState
      /\ s.focused_window_id = IF r.focused_window_id \in DOMAIN r.windows
                               THEN r.focused_window_id ELSE None
      /\ s.focused_workspace_id = Resolved(r.workspaces, FollowedFocus(r))
      /\ s.keyboard = IF InRange(r.keyboard) THEN r.keyboard
                      ELSE [r.keyboard EXCEPT !.current_idx = 0]
      /\ s.workspaces = Related(r)
      /\ s.desynced = (r.desynced /\ r.health # "live")
      /\ s.outputs = r.outputs /\ s.windows = r.windows
      /\ s.overview = r.overview /\ s.health = r.health
  BY <1>1, Reconciled
<1> HIDE DEF s
<1>3. s.focused_window_id = r.focused_window_id
  BY <1>1, <1>2, WindowOf
<1>4. DOMAIN r.workspaces = DOMAIN e.workspaces /\ Flagged(r.workspaces) = Flagged(e.workspaces)
  <2>1. DOMAIN r.workspaces = DOMAIN e.workspaces
    BY <1>1 DEF Related
  <2>2. ASSUME NEW w \in DOMAIN e.workspaces
        PROVE  r.workspaces[w].is_focused = e.workspaces[w].is_focused
    BY <1>1, WorkspaceOf DEF Related, Workspace
  <2> QED
    BY <2>1, <2>2 DEF Flagged
<1>5. s.focused_workspace_id = r.focused_workspace_id
  <2>1. \A w : Resolved(r.workspaces, w) = Resolved(e.workspaces, w)
    BY <1>4 DEF Resolved
  <2>2. CASE FollowedFocus(r) = FollowedFocus(e)
    BY <1>1, <1>2, <2>1, <2>2
  <2>3. CASE FollowedFocus(r) # FollowedFocus(e)
    <3>1. FollowedFocus(r) = r.focused_workspace_id
      BY <1>1, <2>3, WindowOf DEF FollowedFocus
    <3>2. Resolved(e.workspaces, r.focused_workspace_id) = r.focused_workspace_id
      BY <1>1 DEF Resolved, Flagged
    <3> QED
      BY <1>1, <1>2, <2>1, <3>1, <3>2
  <2> QED
    BY <2>2, <2>3
<1>6. s.keyboard = r.keyboard
  <2>1. InRange(r.keyboard)
    BY <1>1 DEF InRange, EngineState
  <2> QED
    BY <1>2, <2>1
<1>7. s.workspaces = r.workspaces
  <2>1. ASSUME NEW w \in DOMAIN r.workspaces
        PROVE  Related(r)[w] = Related(e)[w]
    <3>1. w \in DOMAIN e.workspaces /\ r.workspaces[w] = Related(e)[w]
      BY <1>1, <1>4
    <3>2. CASE OnWorkspace(e, e.workspaces[w].active_window_id, w)
      <4>1. r.workspaces[w] = e.workspaces[w]
        BY <3>1, <3>2 DEF Related
      <4>2. OnWorkspace(r, r.workspaces[w].active_window_id, w)
        BY <1>1, <3>2, <4>1 DEF OnWorkspace
      <4> QED
        BY <3>1, <4>2 DEF Related
    <3>3. CASE ~OnWorkspace(e, e.workspaces[w].active_window_id, w)
      <4>1. r.workspaces[w] = [e.workspaces[w] EXCEPT !.active_window_id = None]
        BY <3>1, <3>3 DEF Related
      <4>2. r.workspaces[w].active_window_id = None
        BY <3>1, <4>1, WorkspaceOf DEF Workspace
      <4>3. ~OnWorkspace(r, None, w)
        BY <1>1, WindowOf DEF OnWorkspace
      <4>4. Related(r)[w] = [r.workspaces[w] EXCEPT !.active_window_id = None]
        BY <4>2, <4>3 DEF Related
      <4>5. [r.workspaces[w] EXCEPT !.active_window_id = None] = r.workspaces[w]
        BY <1>1, <4>2, WorkspaceOf DEF Workspace
      <4> QED
        BY <3>1, <4>4, <4>5
    <3> QED
      BY <3>2, <3>3
  <2>2. DOMAIN Related(r) = DOMAIN Related(e)
    BY <1>4 DEF Related
  <2>3. Related(r) = Related(e)
    BY <1>1, <1>4, <2>1, <2>2 DEF Related
  <2> QED
    BY <1>1, <1>2, <2>3
<1>8. s.desynced = r.desynced
  BY <1>1, <1>2
<1>9. s = r
  BY <1>1, <1>2, <1>3, <1>5, <1>6, <1>7, <1>8, SameEngine
<1> QED
  BY <1>9 DEF r, s

-------------------------------------------------------------------------------
(* What is published *)

\* An engine that the repairs leave as it is.
Repaired(e) == e \in EngineState /\ Reconcile(e) = e

(* What the five repairs establish together, which is what the references need. *)
LEMMA RepairedResolves ==
    ASSUME NEW e, Repaired(e)
    PROVE  /\ e.focused_window_id \in DOMAIN e.windows \cup {None}
           /\ e.focused_workspace_id = Resolved(e.workspaces, FollowedFocus(e))
           /\ InRange(e.keyboard)
           /\ e.workspaces = Related(e)
<1> USE DEF Repaired
<1>1. /\ e.focused_window_id = IF e.focused_window_id \in DOMAIN e.windows
                               THEN e.focused_window_id ELSE None
      /\ e.focused_workspace_id = Resolved(e.workspaces, FollowedFocus(e))
      /\ e.keyboard = IF InRange(e.keyboard) THEN e.keyboard
                      ELSE [e.keyboard EXCEPT !.current_idx = 0]
      /\ e.workspaces = Related(e)
  BY Reconciled
<1>2. InRange(e.keyboard)
  BY <1>1 DEF InRange, EngineState
<1> QED
  BY <1>1, <1>2

\* A repaired engine without a mark stays so whatever its health becomes.
LEMMA RepairedHealth ==
    ASSUME NEW e, Repaired(e), ~e.desynced, NEW h \in {"bootstrapping", "live", "stale"}
    PROVE  Repaired([e EXCEPT !.health = h])
<1> DEFINE d == [e EXCEPT !.health = h]
           r == Reconcile(d)
<1>1. /\ d \in EngineState
      /\ d.outputs = e.outputs /\ d.workspaces = e.workspaces
      /\ d.windows = e.windows /\ d.focused_window_id = e.focused_window_id
      /\ d.focused_workspace_id = e.focused_workspace_id
      /\ d.keyboard = e.keyboard /\ d.overview = e.overview
      /\ d.desynced = e.desynced
  BY DEF Repaired, EngineState
<1> HIDE DEF d
<1>2. /\ r \in EngineState
      /\ r.focused_window_id = IF d.focused_window_id \in DOMAIN d.windows
                               THEN d.focused_window_id ELSE None
      /\ r.focused_workspace_id = Resolved(d.workspaces, FollowedFocus(d))
      /\ r.keyboard = IF InRange(d.keyboard) THEN d.keyboard
                      ELSE [d.keyboard EXCEPT !.current_idx = 0]
      /\ r.workspaces = Related(d)
      /\ r.desynced = (d.desynced /\ d.health # "live")
      /\ r.outputs = d.outputs /\ r.windows = d.windows
      /\ r.overview = d.overview /\ r.health = d.health
  BY <1>1, Reconciled
<1> HIDE DEF r
<1>3. FollowedFocus(d) = FollowedFocus(e) /\ Related(d) = Related(e)
  BY <1>1 DEF FollowedFocus, Related, OnWorkspace
<1>4. r.desynced = d.desynced
  BY <1>1, <1>2 DEF Repaired, EngineState
<1>5. r = d
  BY <1>1, <1>2, <1>3, <1>4, RepairedResolves, SameEngine
<1> QED
  BY <1>1, <1>5 DEF r, d, Repaired

\* What the loop and the bootstrap publish.
Publishable(e) ==
    /\ Repaired(e)
    /\ e.health \in {"live", "stale"}
    /\ ~Valid(e) => e.health = "stale"

\* The check keeps what a consumer follows by domain.
LEMMA CheckedPublishable ==
    ASSUME NEW e, Repaired(e), e.health \in {"live", "stale"}
    PROVE  /\ Publishable(Checked(e))
           /\ Checked(e).focused_window_id = e.focused_window_id
           /\ Checked(e).focused_workspace_id = e.focused_workspace_id
           /\ Checked(e).workspaces = e.workspaces
           /\ Checked(e).windows = e.windows
           /\ Checked(e).keyboard = e.keyboard
           /\ Checked(e).overview = e.overview
<1>1. CASE Valid(e)
  BY <1>1 DEF Checked, Publishable
<1>2. CASE ~Valid(e)
  <2> DEFINE d == [e EXCEPT !.health = "stale"]
             r == Reconcile(d)
  <2>1. /\ d \in EngineState
        /\ d.windows = e.windows /\ d.focused_window_id = e.focused_window_id
        /\ d.workspaces = e.workspaces
        /\ d.focused_workspace_id = e.focused_workspace_id
        /\ d.keyboard = e.keyboard /\ d.overview = e.overview
        /\ d.health = "stale"
    BY DEF Repaired, EngineState
  <2> HIDE DEF d
  <2>2. /\ r \in EngineState
        /\ r.focused_window_id = IF d.focused_window_id \in DOMAIN d.windows
                                 THEN d.focused_window_id ELSE None
        /\ r.focused_workspace_id = Resolved(d.workspaces, FollowedFocus(d))
        /\ r.workspaces = Related(d) /\ r.windows = d.windows
        /\ r.keyboard = IF InRange(d.keyboard) THEN d.keyboard
                        ELSE [d.keyboard EXCEPT !.current_idx = 0]
        /\ r.overview = d.overview /\ r.health = d.health
    BY <2>1, Reconciled
  <2>3. Reconcile(r) = r
    BY <2>1, ReconcileTwice
  <2> HIDE DEF r
  <2>4. Checked(e) = r
    BY <1>2 DEF Checked, r, d
  <2>5. Publishable(r)
    BY <2>1, <2>2, <2>3 DEF Publishable, Repaired
  <2>6. FollowedFocus(d) = FollowedFocus(e) /\ Related(d) = Related(e)
    BY <2>1 DEF FollowedFocus, Related, OnWorkspace
  <2> QED
    BY <2>1, <2>2, <2>4, <2>5, <2>6, RepairedResolves
<1> QED
  BY <1>1, <1>2

-------------------------------------------------------------------------------
(* The reducers *)

\* Engine d has the windows of e where e has them.
SamePlaces(e, d) ==
    /\ DOMAIN d.windows = DOMAIN e.windows
    /\ \A w \in DOMAIN e.windows : d.windows[w].workspace_id = e.windows[w].workspace_id

\* The repairs then make the same of both.
LEMMA SameRepairs ==
    ASSUME NEW e, NEW d, SamePlaces(e, d), d.workspaces = e.workspaces
    PROVE  /\ Related(d) = Related(e)
           /\ d.focused_window_id = e.focused_window_id
              /\ d.focused_workspace_id = e.focused_workspace_id
              => FollowedFocus(d) = FollowedFocus(e)
BY DEF SamePlaces, Related, OnWorkspace, FollowedFocus

\* A reducer leaves an engine, and names the domains of what it changes, or, where it
\* raises, leaves everything but the windows' layouts; the focus also changes when the
\* repairs find the focused window gone.
Sound(e, r) ==
    /\ r.engine \in EngineState /\ r.engine.health \in {"live", "stale"}
    /\ r.domains \subseteq Domains
    /\ r.desync \in BOOLEAN
    /\ r.desync => r.domains = {}
    /\ "focus" \notin r.domains =>
         /\ r.engine.focused_window_id = e.focused_window_id
         /\ e.focused_window_id \in DOMAIN r.engine.windows \cup {None}
         /\ r.engine.focused_workspace_id = e.focused_workspace_id
         /\ r.engine.workspaces = e.workspaces
    /\ "workspaces" \notin r.domains => r.engine.workspaces = e.workspaces
    /\ "windows" \notin r.domains =>
         /\ SamePlaces(e, r.engine)
         /\ ~r.desync => r.engine.windows = e.windows
    /\ "keyboard" \notin r.domains => r.engine.keyboard = e.keyboard
    /\ "overview" \notin r.domains => r.engine.overview = e.overview

\* Nothing but the windows is changed, and the focused one is still there.
LEMMA NewWindows ==
    ASSUME NEW e, Publishable(e), NEW ws \in Dict(Windows, Window),
           NEW domains, domains \subseteq Domains, "windows" \in domains,
           "focus" \in domains \/ e.focused_window_id \in DOMAIN ws \cup {None}
    PROVE  Sound(e, Applied([e EXCEPT !.windows = ws], domains))
<1> DEFINE d == [e EXCEPT !.windows = ws]
<1>1. /\ d \in EngineState /\ d.windows = ws
      /\ d.focused_window_id = e.focused_window_id
      /\ d.focused_workspace_id = e.focused_workspace_id
      /\ d.workspaces = e.workspaces
      /\ d.keyboard = e.keyboard /\ d.overview = e.overview
      /\ d.health = e.health
  BY DEF Publishable, Repaired, EngineState
<1> HIDE DEF d
<1> QED
  BY <1>1 DEF Sound, Applied, Publishable, d

\* Windows and the focused one.
LEMMA NewFocus ==
    ASSUME NEW e, Publishable(e), NEW ws \in Dict(Windows, Window),
           NEW f \in Windows \cup {None}, NEW domains,
           domains \subseteq Domains, {"windows", "focus"} \subseteq domains
    PROVE  Sound(e, Applied([[e EXCEPT !.windows = ws] EXCEPT !.focused_window_id = f],
                            domains))
<1> DEFINE c == [e EXCEPT !.windows = ws]
           d == [c EXCEPT !.focused_window_id = f]
<1>1. /\ c \in EngineState /\ c.workspaces = e.workspaces
      /\ c.keyboard = e.keyboard /\ c.overview = e.overview
      /\ c.health = e.health
  BY DEF Publishable, Repaired, EngineState
<1> HIDE DEF c
<1>2. /\ d \in EngineState /\ d.workspaces = e.workspaces
      /\ d.keyboard = e.keyboard /\ d.overview = e.overview
      /\ d.health = e.health
  BY <1>1 DEF EngineState
<1> HIDE DEF d
<1> QED
  BY <1>2 DEF Sound, Applied, Publishable, c, d

\* Workspaces and the focused one.
LEMMA NewWorkspaces ==
    ASSUME NEW e, Publishable(e), NEW list \in Dict(Workspaces, Workspace),
           NEW f \in Workspaces \cup {None}
    PROVE  Sound(e, Applied([e EXCEPT !.workspaces = list,
                                      !.focused_workspace_id = f],
                            {"workspaces", "focus"}))
<1> DEFINE d == [e EXCEPT !.workspaces = list, !.focused_workspace_id = f]
<1>1. /\ d \in EngineState /\ d.windows = e.windows
      /\ d.keyboard = e.keyboard /\ d.overview = e.overview
      /\ d.health = e.health
  BY DEF Publishable, Repaired, EngineState
<1> HIDE DEF d
<1> QED
  BY <1>1 DEF Sound, SamePlaces, Applied, Publishable, Domains, d

\* Nothing is changed.
LEMMA NothingNew ==
    ASSUME NEW e, Publishable(e), NEW domains, domains \subseteq Domains
    PROVE  Sound(e, Applied(e, domains)) /\ Sound(e, Raised(e))
BY RepairedResolves DEF Sound, SamePlaces, Applied, Raised, Publishable, Repaired

(* WindowsChanged replaces the windows and names every domain it changes. *)
LEMMA WindowsReduced ==
    ASSUME NEW e, Publishable(e), NEW list \in WindowLists
    PROVE  Sound(e, ReduceWindowsChanged(e, list))
BY NewWindows, EngineAssumption DEF ReduceWindowsChanged, Domains

(* WindowOpenedOrChanged stores one window and names every domain it changes. *)
LEMMA OpenedReduced ==
    ASSUME NEW e, Publishable(e), NEW id \in Windows, NEW window \in Window,
           NEW focused \in BOOLEAN
    PROVE  Sound(e, ReduceWindowOpenedOrChanged(e, id, window, focused))
<1> DEFINE ws == Put(e.windows, id, window)
           opened == [e EXCEPT !.windows = ws]
<1>1. e.windows \in Dict(Windows, Window)
  BY DEF Publishable, Repaired, EngineState
<1>2. ws \in Dict(Windows, Window) /\ DOMAIN ws = DOMAIN e.windows \cup {id}
  BY <1>1, PutWindow
<1>3. e.focused_window_id \in DOMAIN ws \cup {None}
  BY <1>2, RepairedResolves DEF Publishable
<1>4. ReduceWindowOpenedOrChanged(e, id, window, focused) =
        IF focused
        THEN Applied([opened EXCEPT !.focused_window_id = id], {"windows", "focus"})
        ELSE Applied(opened, {"windows"})
  BY DEF ReduceWindowOpenedOrChanged
<1> HIDE DEF ws
<1>5. Sound(e, Applied(opened, {"windows"}))
  BY <1>2, <1>3, NewWindows DEF Domains
<1>6. Sound(e, Applied([opened EXCEPT !.focused_window_id = id], {"windows", "focus"}))
  BY <1>2, NewFocus DEF Domains
<1> QED
  BY <1>4, <1>5, <1>6

(* WindowClosed removes one window, or raises with the engine as it was. *)
LEMMA ClosedReduced ==
    ASSUME NEW e, Publishable(e), NEW id \in Windows
    PROVE  Sound(e, ReduceWindowClosed(e, id))
<1> DEFINE ws == Drop(e.windows, id)
           shut == [e EXCEPT !.windows = ws]
<1>1. e.windows \in Dict(Windows, Window)
  BY DEF Publishable, Repaired, EngineState
<1>2. ws \in Dict(Windows, Window) /\ DOMAIN ws = DOMAIN e.windows \ {id}
  BY <1>1, DropWindow
<1>3. e.focused_window_id # id => e.focused_window_id \in DOMAIN ws \cup {None}
  BY <1>2, RepairedResolves DEF Publishable
<1>4. ReduceWindowClosed(e, id) =
        IF e.focused_window_id = id
        THEN Applied([shut EXCEPT !.focused_window_id = None], {"windows", "focus"})
        ELSE Applied(shut, {"windows"})
  BY DEF ReduceWindowClosed
<1> HIDE DEF ws
<1>5. e.focused_window_id # id => Sound(e, Applied(shut, {"windows"}))
  BY <1>2, <1>3, NewWindows DEF Domains
<1>6. Sound(e, Applied([shut EXCEPT !.focused_window_id = None], {"windows", "focus"}))
  BY <1>2, NewFocus DEF Domains
<1> QED
  BY <1>4, <1>5, <1>6

(* WindowLayoutsChanged updates layouts, and may raise with some of them updated. *)
LEMMA LayoutsReduced ==
    ASSUME NEW e, Publishable(e), NEW layouts \in Dict(DOMAIN e.windows, Layouts),
           NEW unknown \in BOOLEAN
    PROVE  Sound(e, ReduceWindowLayoutsChanged(e, layouts, unknown))
<1> DEFINE ws == [w \in DOMAIN e.windows |->
                    IF w \in DOMAIN layouts
                    THEN [e.windows[w] EXCEPT !.layout = layouts[w]]
                    ELSE e.windows[w]]
           laid == [e EXCEPT !.windows = ws]
<1>1. /\ ws \in Dict(Windows, Window) /\ DOMAIN ws = DOMAIN e.windows
      /\ \A w \in DOMAIN e.windows : ws[w].workspace_id = e.windows[w].workspace_id
  <2>1. ASSUME NEW w \in DOMAIN e.windows
        PROVE  /\ w \in Windows /\ ws[w] \in Window
               /\ ws[w].workspace_id = e.windows[w].workspace_id
    <3>1. w \in Windows /\ e.windows[w] \in Window
      BY WindowOf DEF Publishable, Repaired
    <3>2. w \in DOMAIN layouts => layouts[w] \in Layouts
      BY DictElement
    <3>3. w \in DOMAIN layouts => [e.windows[w] EXCEPT !.layout = layouts[w]] \in Window
      BY <3>1, <3>2 DEF Window
    <3>4. ws[w].workspace_id = e.windows[w].workspace_id
      BY <3>1 DEF Window
    <3> QED
      BY <3>1, <3>3, <3>4
  <2>2. ws \in [DOMAIN e.windows -> Window] /\ DOMAIN e.windows \subseteq Windows
    BY <2>1
  <2> QED
    BY <2>1, <2>2, DictElement
<1>2. ReduceWindowLayoutsChanged(e, layouts, unknown) =
        IF unknown THEN Raised(laid) ELSE Applied(laid, {"windows"})
  BY DEF ReduceWindowLayoutsChanged
<1> HIDE DEF ws
<1>3. e.focused_window_id \in DOMAIN ws \cup {None}
  BY <1>1, RepairedResolves DEF Publishable
<1>4. Sound(e, Applied(laid, {"windows"}))
  BY <1>1, <1>3, NewWindows DEF Domains
<1>5. Sound(e, Raised(laid))
  <2>1. /\ laid.windows = ws /\ laid.focused_window_id = e.focused_window_id
        /\ laid.focused_workspace_id = e.focused_workspace_id
        /\ laid.workspaces = e.workspaces
    BY DEF Publishable, Repaired, EngineState
  <2> HIDE DEF laid
  <2> QED
    BY <1>1, <1>3, <1>4, <2>1 DEF Sound, SamePlaces, Applied, Raised
<1> QED
  BY <1>2, <1>4, <1>5

(* WorkspaceActivated moves the flags within an output, and the focus if it is told
   to. *)
LEMMA ActivatedReduced ==
    ASSUME NEW e, Publishable(e), NEW id \in Workspaces, NEW focused \in BOOLEAN
    PROVE  Sound(e, ReduceWorkspaceActivated(e, id, focused))
<1> DEFINE activated ==
             [w \in DOMAIN e.workspaces |->
               IF w = id
               THEN [e.workspaces[w] EXCEPT !.is_active = TRUE, !.is_focused = focused]
               ELSE IF e.workspaces[w].output = e.workspaces[id].output
               THEN [e.workspaces[w] EXCEPT !.is_active = FALSE, !.is_focused = FALSE]
               ELSE e.workspaces[w]]
           f == IF focused THEN id ELSE e.focused_workspace_id
<1>1. activated \in Dict(Workspaces, Workspace)
  <2>1. ASSUME NEW w \in DOMAIN e.workspaces
        PROVE  w \in Workspaces /\ activated[w] \in Workspace
    <3>1. w \in Workspaces /\ e.workspaces[w] \in Workspace
      BY WorkspaceOf DEF Publishable, Repaired
    <3>2. /\ [e.workspaces[w] EXCEPT !.is_active = TRUE, !.is_focused = focused]
               \in Workspace
          /\ [e.workspaces[w] EXCEPT !.is_active = FALSE, !.is_focused = FALSE]
               \in Workspace
      BY <3>1 DEF Workspace
    <3> QED
      BY <3>1, <3>2
  <2>2. /\ activated \in [DOMAIN e.workspaces -> Workspace]
        /\ DOMAIN e.workspaces \subseteq Workspaces
    BY <2>1
  <2> QED
    BY <2>2, DictElement
<1>2. f \in Workspaces \cup {None}
  BY DEF Publishable, Repaired, EngineState
<1>3. ReduceWorkspaceActivated(e, id, focused) =
        IF id \notin DOMAIN e.workspaces THEN Raised(e)
        ELSE Applied([e EXCEPT !.workspaces = activated, !.focused_workspace_id = f],
                     {"workspaces", "focus"})
  BY DEF ReduceWorkspaceActivated
<1> HIDE DEF activated, f
<1>4. Sound(e, Raised(e))
  BY NothingNew DEF Domains
<1> QED
  BY <1>1, <1>2, <1>3, <1>4, NewWorkspaces

(* WorkspaceActiveWindowChanged updates one workspace, or raises. *)
LEMMA ActiveWindowReduced ==
    ASSUME NEW e, Publishable(e), NEW id \in Workspaces, NEW window \in Windows \cup {None}
    PROVE  Sound(e, ReduceWorkspaceActiveWindowChanged(e, id, window))
<1>1. CASE id \notin DOMAIN e.workspaces
  BY <1>1, NothingNew DEF ReduceWorkspaceActiveWindowChanged
<1>2. CASE id \in DOMAIN e.workspaces
  <2> DEFINE v == [e.workspaces[id] EXCEPT !.active_window_id = window]
             list == [e.workspaces EXCEPT ![id] = v]
             d == [e EXCEPT !.workspaces = list]
  <2>1. list \in Dict(Workspaces, Workspace)
    <3>1. e.workspaces \in Dict(Workspaces, Workspace) /\ e.workspaces[id] \in Workspace
      BY <1>2, WorkspaceOf DEF Publishable, Repaired, EngineState
    <3>2. v \in Workspace
      BY <3>1 DEF Workspace
    <3> HIDE DEF v
    <3>3. list \in [DOMAIN e.workspaces -> Workspace] /\ DOMAIN e.workspaces \subseteq Workspaces
      BY <3>1, <3>2, DictElement
    <3> QED
      BY <3>3, DictElement
  <2>2. ReduceWorkspaceActiveWindowChanged(e, id, window) =
          Applied(d, {"workspaces", "focus"})
    BY <1>2, Zenon DEF ReduceWorkspaceActiveWindowChanged
  <2> HIDE DEF list
  <2>3. /\ d \in EngineState
        /\ d.windows = e.windows
        /\ d.keyboard = e.keyboard /\ d.overview = e.overview /\ d.health = e.health
    BY <2>1 DEF Publishable, Repaired, EngineState
  <2> HIDE DEF d
  <2> QED
    BY <2>2, <2>3 DEF Sound, SamePlaces, Applied, Publishable, Domains
<1> QED
  BY <1>1, <1>2

(* WorkspacesChanged replaces the workspaces and names every domain it changes. *)
LEMMA ListReduced ==
    ASSUME NEW e, Publishable(e), NEW list \in WorkspaceLists
    PROVE  Sound(e, ReduceWorkspacesChanged(e, list))
<1> DEFINE d == [e EXCEPT !.workspaces = list]
<1>1. list \in Dict(Workspaces, Workspace)
  BY EngineAssumption
<1>2. /\ d \in EngineState
      /\ d.windows = e.windows
      /\ d.keyboard = e.keyboard /\ d.overview = e.overview /\ d.health = e.health
  BY <1>1 DEF Publishable, Repaired, EngineState
<1> HIDE DEF d
<1> QED
  BY <1>2 DEF Sound, SamePlaces, ReduceWorkspacesChanged, Applied, Publishable, Domains, d

\* The keyboard, the overview, or the health and the mark.
LEMMA KeyboardReduced ==
    ASSUME NEW e, Publishable(e), NEW k \in [names : Nat, current_idx : Nat]
    PROVE  Sound(e, Applied([e EXCEPT !.keyboard = k], {"keyboard"}))
<1> DEFINE d == [e EXCEPT !.keyboard = k]
<1>1. /\ d \in EngineState
      /\ d.focused_window_id = e.focused_window_id /\ d.windows = e.windows
      /\ d.focused_workspace_id = e.focused_workspace_id
      /\ d.workspaces = e.workspaces
      /\ d.overview = e.overview /\ d.health = e.health
  BY DEF Publishable, Repaired, EngineState
<1> HIDE DEF d
<1>2. e.focused_window_id \in DOMAIN d.windows \cup {None}
  BY <1>1, RepairedResolves DEF Publishable
<1> QED
  BY <1>1, <1>2 DEF Sound, SamePlaces, Applied, Publishable, Domains, d

(* KeyboardLayoutSwitched sets the index, in or out of range. *)
LEMMA SwitchReduced ==
    ASSUME NEW e, Publishable(e), NEW idx \in Nat
    PROVE  Sound(e, ReduceKeyboardLayoutSwitched(e, idx))
<1> DEFINE k == [e.keyboard EXCEPT !.current_idx = idx]
<1>1. k \in [names : Nat, current_idx : Nat]
  BY DEF Publishable, Repaired, EngineState
<1>2. [e EXCEPT !.keyboard.current_idx = idx] = [e EXCEPT !.keyboard = k]
  BY Zenon
<1> HIDE DEF k
<1> QED
  BY <1>1, <1>2, KeyboardReduced DEF ReduceKeyboardLayoutSwitched

(* OverviewOpenedOrClosed sets one flag. *)
LEMMA OverviewReduced ==
    ASSUME NEW e, Publishable(e), NEW is_open \in BOOLEAN
    PROVE  Sound(e, ReduceOverviewOpenedOrClosed(e, is_open))
<1> DEFINE d == [e EXCEPT !.overview = is_open]
<1>1. /\ d \in EngineState
      /\ d.focused_window_id = e.focused_window_id /\ d.windows = e.windows
      /\ d.focused_workspace_id = e.focused_workspace_id
      /\ d.workspaces = e.workspaces
      /\ d.keyboard = e.keyboard /\ d.health = e.health
  BY DEF Publishable, Repaired, EngineState
<1> HIDE DEF d
<1>2. e.focused_window_id \in DOMAIN d.windows \cup {None}
  BY <1>1, RepairedResolves DEF Publishable
<1> QED
  BY <1>1, <1>2 DEF Sound, SamePlaces, ReduceOverviewOpenedOrClosed, Applied, Publishable, Domains, d

(* The unknown-event handler under the stale policy marks the engine. *)
LEMMA MarkReduced ==
    ASSUME NEW e, Publishable(e)
    PROVE  Sound(e, Applied([e EXCEPT !.health = "stale", !.desynced = TRUE],
                            {"diagnostics"}))
<1> DEFINE d == [e EXCEPT !.health = "stale", !.desynced = TRUE]
<1>1. /\ d \in EngineState
      /\ d.focused_window_id = e.focused_window_id /\ d.windows = e.windows
      /\ d.focused_workspace_id = e.focused_workspace_id
      /\ d.workspaces = e.workspaces
      /\ d.keyboard = e.keyboard /\ d.overview = e.overview
      /\ d.health = "stale"
  BY DEF Publishable, Repaired, EngineState
<1> HIDE DEF d
<1>2. e.focused_window_id \in DOMAIN d.windows \cup {None}
  BY <1>1, RepairedResolves DEF Publishable
<1> QED
  BY <1>1, <1>2 DEF Sound, SamePlaces, Applied, Domains, d

-------------------------------------------------------------------------------
(* The loop *)

\* What a step publishes: an engine, and the domains of what has changed.
Published ==
    /\ Publishable(engine)'
    /\ changes'.cause \in {"event", "health"} /\ changes'.domains \subseteq Domains
    /\ engine'.health # engine.health => "health" \in changes'.domains
    /\ engine'.focused_window_id # engine.focused_window_id => "focus" \in changes'.domains
    /\ engine'.focused_workspace_id # engine.focused_workspace_id
         => {"focus", "windows"} \cap changes'.domains # {}
    /\ engine'.workspaces # engine.workspaces
         => {"workspaces", "windows"} \cap changes'.domains # {}
    /\ engine'.windows # engine.windows
         => "windows" \in changes'.domains \/ changes'.cause = "health"
    /\ engine'.keyboard # engine.keyboard => "keyboard" \in changes'.domains
    /\ engine'.overview # engine.overview => "overview" \in changes'.domains

\* One event: what its reducer made is repaired, checked and published.
LEMMA Handled ==
    ASSUME Publishable(engine), NEW r, Sound(engine, r), Handle(r)
    PROVE  Published
<1> USE DEF Published
<1> DEFINE e == r.engine
<1>0. /\ e \in EngineState /\ e.health \in {"live", "stale"}
      /\ r.domains \subseteq Domains
      /\ InRange(engine.keyboard)
      /\ engine.focused_window_id \in DOMAIN engine.windows \cup {None}
      /\ engine.focused_workspace_id = Resolved(engine.workspaces, FollowedFocus(engine))
      /\ engine.workspaces = Related(engine)
  BY RepairedResolves DEF Sound, Publishable
<1>1. CASE ~r.desync
  <2> DEFINE d == Reconcile(e)
  <2>1. /\ Repaired(d) /\ d.health = e.health
        /\ d.focused_window_id = IF e.focused_window_id \in DOMAIN e.windows
                                 THEN e.focused_window_id ELSE None
        /\ d.focused_workspace_id = Resolved(e.workspaces, FollowedFocus(e))
        /\ d.workspaces = Related(e) /\ d.windows = e.windows
        /\ d.keyboard = IF InRange(e.keyboard) THEN e.keyboard
                        ELSE [e.keyboard EXCEPT !.current_idx = 0]
        /\ d.overview = e.overview
    BY <1>0, Reconciled, ReconcileTwice DEF Repaired
  <2>2. Apply(e, r.domains)
    BY <1>1 DEF Handle
  <2>3. engine' = Checked(d)
    BY <2>2 DEF Apply
  <2>4. /\ changes'.cause = "event"
        /\ changes'.domains = r.domains \cup
             (IF engine'.health = engine.health THEN {} ELSE {"health", "diagnostics"})
    BY <2>2 DEF Apply
  <2> HIDE DEF d
  <2>5. /\ Publishable(engine')
        /\ engine'.focused_window_id = d.focused_window_id
        /\ engine'.focused_workspace_id = d.focused_workspace_id
        /\ engine'.workspaces = d.workspaces /\ engine'.windows = d.windows
        /\ engine'.keyboard = d.keyboard
        /\ engine'.overview = d.overview
    BY <1>0, <2>1, <2>3, CheckedPublishable
  <2>6. Publishable(engine)'
    BY <2>5
  <2>7. changes'.domains \subseteq Domains
    BY <1>0, <2>4 DEF Domains
  <2>8. engine'.health # engine.health => "health" \in changes'.domains
    BY <2>4
  <2>9. engine'.focused_window_id # engine.focused_window_id => "focus" \in r.domains
    BY <2>1, <2>5 DEF Sound
  <2>10. engine'.keyboard # engine.keyboard => "keyboard" \in r.domains
    BY <1>0, <2>1, <2>5 DEF Sound
  <2>11. engine'.overview # engine.overview => "overview" \in r.domains
    BY <2>1, <2>5 DEF Sound
  <2>12. "windows" \notin r.domains => engine'.windows = engine.windows
    BY <1>1, <2>1, <2>5 DEF Sound
  <2>13. {"workspaces", "windows"} \cap r.domains = {}
           => engine'.workspaces = engine.workspaces
    BY <1>0, <2>1, <2>5, SameRepairs DEF Sound
  <2>14. {"focus", "windows"} \cap r.domains = {}
           => engine'.focused_workspace_id = engine.focused_workspace_id
    BY <1>0, <2>1, <2>5, SameRepairs DEF Sound
  <2>15. r.domains \subseteq changes'.domains
    BY <2>4
  <2> HIDE DEF e
  <2> QED
    BY <2>6, <2>7, <2>8, <2>9, <2>10, <2>11, <2>12, <2>13, <2>14, <2>15, <2>4
<1>2. CASE r.desync
  <2> DEFINE c == [e EXCEPT !.health = "stale", !.desynced = TRUE]
             d == Reconcile(c)
  <2>1. /\ c \in EngineState /\ c.health = "stale"
        /\ c.windows = e.windows /\ c.focused_window_id = e.focused_window_id
        /\ c.focused_workspace_id = e.focused_workspace_id
        /\ c.workspaces = e.workspaces
        /\ c.keyboard = e.keyboard /\ c.overview = e.overview
    BY <1>0 DEF EngineState
  <2>2. Desync(e)
    BY <1>2 DEF Handle
  <2>3. engine' = d
    BY <2>2 DEF Desync
  <2>4. changes' = [cause |-> "health", domains |-> {"health", "diagnostics"}]
    BY <2>2 DEF Desync
  <2> HIDE DEF c
  <2>5. /\ Repaired(d) /\ d.health = c.health
        /\ d.focused_window_id = IF c.focused_window_id \in DOMAIN c.windows
                                 THEN c.focused_window_id ELSE None
        /\ d.focused_workspace_id = Resolved(c.workspaces, FollowedFocus(c))
        /\ d.workspaces = Related(c)
        /\ d.keyboard = IF InRange(c.keyboard) THEN c.keyboard
                        ELSE [c.keyboard EXCEPT !.current_idx = 0]
        /\ d.overview = c.overview
    BY <2>1, Reconciled, ReconcileTwice DEF Repaired
  <2> HIDE DEF d
  <2>6. /\ e.focused_window_id = engine.focused_window_id
        /\ engine.focused_window_id \in DOMAIN e.windows \cup {None}
        /\ e.focused_workspace_id = engine.focused_workspace_id
        /\ e.workspaces = engine.workspaces /\ SamePlaces(engine, e)
        /\ e.keyboard = engine.keyboard /\ e.overview = engine.overview
    BY <1>2 DEF Sound
  <2>9. SamePlaces(engine, c) /\ c.workspaces = engine.workspaces
    BY <2>1, <2>6 DEF SamePlaces
  <2>10. Related(c) = Related(engine) /\ FollowedFocus(c) = FollowedFocus(engine)
    BY <2>1, <2>6, <2>9, SameRepairs
  <2>7. /\ d.focused_window_id = engine.focused_window_id
        /\ d.focused_workspace_id = engine.focused_workspace_id
        /\ d.workspaces = engine.workspaces
        /\ d.keyboard = engine.keyboard /\ d.overview = engine.overview
    BY <1>0, <2>1, <2>5, <2>6, <2>10
  <2>8. Publishable(d)
    BY <2>1, <2>5 DEF Publishable
  <2> QED
    BY <2>3, <2>4, <2>7, <2>8 DEF Domains
<1> QED
  BY <1>1, <1>2

(* Every event, whatever it does to the data, ends in a publishable engine. *)
LEMMA NextPublishes ==
    ASSUME Publishable(engine), Next
    PROVE  Published
<1>1. CASE WindowsChanged
  BY <1>1, WindowsReduced, Handled DEF WindowsChanged
<1>2. CASE WindowOpenedOrChanged
  BY <1>2, OpenedReduced, Handled DEF WindowOpenedOrChanged
<1>3. CASE WindowClosed
  BY <1>3, ClosedReduced, Handled DEF WindowClosed
<1>4. CASE WindowFocusChanged
  <2>1. PICK id \in Windows \cup {None} : Handle(ReduceWindowFocusChanged(engine, id))
    BY <1>4 DEF WindowFocusChanged
  <2> DEFINE d == [engine EXCEPT !.focused_window_id = id]
  <2>2. /\ d \in EngineState
        /\ d.windows = engine.windows /\ d.workspaces = engine.workspaces
        /\ d.keyboard = engine.keyboard /\ d.overview = engine.overview
        /\ d.health = engine.health
    BY DEF Publishable, Repaired, EngineState
  <2> HIDE DEF d
  <2>3. Sound(engine, ReduceWindowFocusChanged(engine, id))
    BY <2>2 DEF Sound, SamePlaces, ReduceWindowFocusChanged, Applied, Publishable, Domains, d
  <2> QED
    BY <2>1, <2>3, Handled
<1>5. CASE WindowAttributeChanged
  <2>1. PICK id \in Windows, domains \in {{"windows"}, {"windows", "focus"}} :
          Handle(ReduceWindowAttribute(engine, id, domains))
    BY <1>5 DEF WindowAttributeChanged
  <2>2. domains \subseteq Domains
    BY DEF Domains
  <2>3. Sound(engine, ReduceWindowAttribute(engine, id, domains))
    BY <2>2, NothingNew DEF ReduceWindowAttribute
  <2> QED
    BY <2>1, <2>3, Handled
<1>6. CASE WindowLayoutsChanged
  BY <1>6, LayoutsReduced, Handled DEF WindowLayoutsChanged
<1>7. CASE WorkspacesChanged
  BY <1>7, ListReduced, Handled DEF WorkspacesChanged
<1>8. CASE WorkspaceActivated
  BY <1>8, ActivatedReduced, Handled DEF WorkspaceActivated
<1>9. CASE WorkspaceActiveWindowChanged
  BY <1>9, ActiveWindowReduced, Handled DEF WorkspaceActiveWindowChanged
<1>10. CASE WorkspaceUrgencyChanged
  <2>1. PICK id \in Workspaces : Handle(ReduceWorkspaceUrgencyChanged(engine, id))
    BY <1>10 DEF WorkspaceUrgencyChanged
  <2>2. Sound(engine, ReduceWorkspaceUrgencyChanged(engine, id))
    BY NothingNew DEF ReduceWorkspaceUrgencyChanged, Domains
  <2> QED
    BY <2>1, <2>2, Handled
<1>11. CASE KeyboardLayoutsChanged
  BY <1>11, KeyboardReduced, Handled, EngineAssumption
  DEF KeyboardLayoutsChanged, ReduceKeyboardLayoutsChanged
<1>12. CASE KeyboardLayoutSwitched
  <2>1. PICK k \in Keyboards : Handle(ReduceKeyboardLayoutSwitched(engine, k.current_idx))
    BY <1>12 DEF KeyboardLayoutSwitched
  <2>2. k.current_idx \in Nat
    BY EngineAssumption
  <2> QED
    BY <2>1, <2>2, SwitchReduced, Handled
<1>13. CASE OverviewOpenedOrClosed
  BY <1>13, OverviewReduced, Handled DEF OverviewOpenedOrClosed
<1>14. CASE NoEffect
  BY <1>14, NothingNew, Handled DEF NoEffect
<1>15. CASE UnknownEvent
  BY <1>15, MarkReduced, Handled DEF UnknownEvent
<1> QED
  BY <1>1, <1>2, <1>3, <1>4, <1>5, <1>6, <1>7, <1>8, <1>9, <1>10, <1>11, <1>12,
     <1>13, <1>14, <1>15 DEF Next

EngineInv ==
    /\ Publishable(engine)
    /\ changes.cause \in {"bootstrap", "event", "health"}
    /\ changes.domains \subseteq Domains

(* The engine that a bootstrap starts with is publishable. *)
LEMMA BootstrapPublishes == Init => EngineInv
<1> SUFFICES ASSUME Init PROVE Publishable(engine)
  BY DEF Init, EngineInv
<1>1. PICK windows \in WindowLists, workspaces \in WorkspaceLists,
           focused \in Windows \cup {None}, workspace \in Workspaces \cup {None},
           keyboard \in Keyboards, overview \in BOOLEAN :
        engine = Bootstrapped(BuildInitial(windows, workspaces, focused, workspace,
                                           keyboard, overview))
  BY DEF Init
<1> DEFINE f == IF focused = None THEN None ELSE workspace
           a == [outputs |-> KnownOutputs, workspaces |-> workspaces,
                 windows |-> windows, focused_window_id |-> focused,
                 focused_workspace_id |-> f,
                 keyboard |-> keyboard, overview |-> overview,
                 health |-> "bootstrapping", desynced |-> FALSE]
           b == Reconcile(a)
           c == [b EXCEPT !.health = "live"]
<1>2. f \in Workspaces \cup {None}
  OBVIOUS
<1> HIDE DEF f
<1>3. a \in EngineState /\ a.health = "bootstrapping" /\ ~a.desynced
  BY <1>2, EngineAssumption DEF EngineState
<1>4. b = BuildInitial(windows, workspaces, focused, workspace, keyboard, overview)
  BY DEF BuildInitial, f
<1> HIDE DEF a
<1>5. Repaired(b) /\ b.health = "bootstrapping" /\ ~b.desynced
  BY <1>3, Reconciled, ReconcileTwice DEF Repaired
<1> HIDE DEF b
<1>6. engine = Checked(c)
  BY <1>1, <1>4, <1>5 DEF Bootstrapped
<1>7. Repaired(c) /\ c.health = "live"
  BY <1>5, RepairedHealth DEF Repaired, EngineState
<1> QED
  BY <1>6, <1>7, CheckedPublishable

(* The inductive invariant of the engine. *)
LEMMA EngineInvariance == Spec => []EngineInv
<1>1. EngineInv /\ [Next]_vars => EngineInv'
  <2>1. ASSUME EngineInv, Next PROVE EngineInv'
    BY <2>1, NextPublishes DEF EngineInv, Published
  <2>2. ASSUME EngineInv, UNCHANGED vars PROVE EngineInv'
    BY <2>2 DEF EngineInv, vars
  <2> QED
    BY <2>1, <2>2
<1> QED
  BY <1>1, BootstrapPublishes, PTL DEF Spec

(* A published engine is well formed. *)
LEMMA WellFormed == EngineInv => TypeOK
BY RepairedResolves
DEF EngineInv, Publishable, Repaired, EngineState, TypeOK

(* Its references resolve. *)
LEMMA Resolving == EngineInv => ReferencesResolve
<1> SUFFICES ASSUME EngineInv PROVE ReferencesResolve
  OBVIOUS
<1>1. Repaired(engine)
  BY DEF EngineInv, Publishable
<1>2. engine.focused_window_id \in DOMAIN engine.windows \cup {None}
  BY <1>1, RepairedResolves
<1>3. engine.focused_workspace_id \in DOMAIN engine.workspaces \cup {None}
  BY <1>1, RepairedResolves, ResolvedResolves
<1>4. ASSUME NEW w \in DOMAIN engine.workspaces,
             ~OnWorkspace(engine, engine.workspaces[w].active_window_id, w)
      PROVE  engine.workspaces[w].active_window_id = None
  <2>1. engine.workspaces[w] \in Workspace
    BY <1>1, WorkspaceOf DEF Repaired
  <2>2. Related(engine)[w] = [engine.workspaces[w] EXCEPT !.active_window_id = None]
    BY <1>4 DEF Related
  <2>3. engine.workspaces[w] = [engine.workspaces[w] EXCEPT !.active_window_id = None]
    BY <1>1, <2>2, RepairedResolves
  <2> QED
    BY <2>1, <2>3 DEF Workspace
<1> QED
  BY <1>2, <1>3, <1>4 DEF ReferencesResolve

(* A second pass of the repairs would change nothing. *)
LEMMA Stable == EngineInv => ReconcileIsStable
BY DEF EngineInv, Publishable, Repaired, ReconcileIsStable

(* An engine that breaks an invariant is stale. *)
LEMMA StaleIfInvalid == EngineInv => InvalidIsStale
BY DEF EngineInv, Publishable, InvalidIsStale

(* The focused workspace is that of the focused window. *)
LEMMA FocusAgreeing == EngineInv => FocusFollowsWindow
<1> SUFFICES ASSUME EngineInv PROVE FocusFollowsWindow
  OBVIOUS
<1>1. Repaired(engine)
  BY DEF EngineInv, Publishable
<1>2. SUFFICES ASSUME engine.focused_window_id # None,
                      engine.windows[engine.focused_window_id].workspace_id
                        \in DOMAIN engine.workspaces
               PROVE  engine.focused_workspace_id =
                        engine.windows[engine.focused_window_id].workspace_id
  BY DEF FocusFollowsWindow
<1>3. engine.focused_window_id \in DOMAIN engine.windows
  BY <1>1, <1>2, RepairedResolves
<1>4. FollowedFocus(engine) = engine.windows[engine.focused_window_id].workspace_id
  BY <1>1, <1>2, <1>3, WorkspaceOf DEF FollowedFocus, Repaired
<1> QED
  BY <1>1, <1>2, <1>4, RepairedResolves DEF Resolved

\* Every published snapshot is well formed; in particular the current keyboard
\* layout is in range and a workspace's fields are whole.
THEOREM EngineTypes == Spec => []TypeOK
BY WellFormed, EngineInvariance, PTL

\* The references that reconcile is responsible for resolve in every published
\* snapshot, whatever lists and events the compositor sent, in whatever order.
THEOREM ReferencesAlwaysResolve == Spec => []ReferencesResolve
BY Resolving, EngineInvariance, PTL

\* One pass of the repairs, in the order they are made, is always enough.
THEOREM ReconcileStable == Spec => []ReconcileIsStable
BY Stable, EngineInvariance, PTL

\* A snapshot whose references do not resolve never claims to be LIVE.
THEOREM InvalidAlwaysStale == Spec => []InvalidIsStale
BY StaleIfInvalid, EngineInvariance, PTL

\* The two focus fields, which different events set, never disagree when the
\* focused window's workspace is known.
THEOREM FocusAgrees == Spec => []FocusFollowsWindow
BY FocusAgreeing, EngineInvariance, PTL

\* The domains that a ChangeSet names cover what the event, the repairs and the check
\* changed: the focused workspace and the workspaces' active windows under "windows" if
\* not under their own name, everything else under its own, but for a desync's windows.
THEOREM DomainsReport == Spec => DomainsReportChanges
<1>1. EngineInv /\ [Next]_vars =>
        [/\ engine'.health # engine.health => "health" \in changes'.domains
         /\ engine'.focused_window_id # engine.focused_window_id
              => "focus" \in changes'.domains
         /\ engine'.focused_workspace_id # engine.focused_workspace_id
              => {"focus", "windows"} \cap changes'.domains # {}
         /\ engine'.workspaces # engine.workspaces
              => {"workspaces", "windows"} \cap changes'.domains # {}
         /\ engine'.windows # engine.windows
              => "windows" \in changes'.domains \/ changes'.cause = "health"
         /\ engine'.keyboard # engine.keyboard => "keyboard" \in changes'.domains
         /\ engine'.overview # engine.overview => "overview" \in changes'.domains]_vars
  BY NextPublishes DEF EngineInv, Published
<1> QED
  BY <1>1, EngineInvariance, PTL DEF Spec, DomainsReportChanges
===============================================================================
