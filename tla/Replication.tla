------------------------------- MODULE Replication -------------------------------
(***************************************************************************)
(* How a replica comes to agree with a compositor that keeps changing:      *)
(* run_bootstrap (core/bootstrap.py) and then the mutation loop, composed    *)
(* with the reducers and repairs of Engine, whose engine is the replica's.   *)
(*                                                                         *)
(* The compositor is external.  The model takes from the code that its event *)
(* stream is a queue, that every change sends the events of the reducers,    *)
(* and that each query is answered by itself, at some moment (asyncio.gather *)
(* over one connection per request).  Two things the code does not say are   *)
(* left open: whether the stream starts with the full lists (greeted), and    *)
(* whether the events of one change about workspaces come before those about *)
(* windows (workspacesFirst).  Keyboard, overview and version, each in one    *)
(* query and one kind of event, are left out, and so are unknown events       *)
(* (Engine, NiriState).                                                    *)
(***************************************************************************)
EXTENDS Engine, SequencesExt

CONSTANTS
    Layout,       \* the layout of every window
    MaxChanges    \* bound: the changes of the compositor

\* Ids are numbers of 64 bits.
ASSUME ReplicationAssumption ==
    /\ Layout \in Layouts /\ MaxChanges \in Nat
    /\ IsFiniteSet(Windows) /\ IsFiniteSet(Workspaces)

VARIABLES
    greeted, workspacesFirst,
    world,      \* the compositor
    opened,     \* windows that were ever open: an id is not used again
    stream,     \* events sent and not yet taken from the connection
    phase,      \* "querying", "live" or "failed"
    answers,    \* answers to the queries that have been answered
    buffer,     \* buffered_events
    budget      \* changes the compositor may still make

compositor == <<greeted, workspacesFirst, world, opened, budget>>
bootstrap == <<phase, answers, buffer>>
allVars == <<vars, compositor, stream, bootstrap>>

-------------------------------------------------------------------------------
(* The compositor *)

Focused(w) == w.active[w.focused]

WindowList(w) == [id \in DOMAIN w.where |->
                    [workspace_id |-> w.where[id], layout |-> Layout]]

\* The workspaces shown, one on each output that has any, are the active ones; one of
\* them has the focus.
WorkspaceList(w) ==
    [ws \in DOMAIN w.active |->
       [output |-> w.output[ws], is_active |-> ws \in w.shown,
        is_focused |-> ws = w.focused, active_window_id |-> w.active[ws]]]

\* Of the workspaces of an output just one is shown; the focus is on one of those.
OneShown(w) ==
    /\ w.focused \in w.shown
    /\ w.shown \subseteq DOMAIN w.output
    /\ \A ws \in DOMAIN w.output : \E s \in w.shown : w.output[s] = w.output[ws]
    /\ \A s, t \in w.shown : w.output[s] = w.output[t] => s = t

On(w, ws) == {id \in DOMAIN w.where : w.where[id] = ws}

\* What is active where once window id has left workspace ws.
Without(w, id, ws) ==
    IF w.active[ws] # id THEN w.active
    ELSE [w.active EXCEPT ![ws] = IF On(w, ws) = {id} THEN None
                                  ELSE CHOOSE i \in On(w, ws) \ {id} : TRUE]

\* Workspace ws is shown on its output.
Showing(w, ws) == {s \in w.shown : w.output[s] # w.output[ws]} \cup {ws}

Opens(w, id) == [w EXCEPT !.where = Put(@, id, w.focused), !.active[w.focused] = id]
Closes(w, id) ==
    [w EXCEPT !.where = Drop(@, id), !.active = Without(w, id, w.where[id])]
Moves(w, id, ws) ==
    [w EXCEPT !.where[id] = ws, !.active = [Without(w, id, w.where[id]) EXCEPT ![ws] = id]]
Focuses(w, id) ==
    [w EXCEPT !.focused = w.where[id], !.shown = Showing(w, w.where[id]),
              !.active[w.where[id]] = id]
Switches(w, ws) == [w EXCEPT !.focused = ws, !.shown = Showing(w, ws)]
Reveals(w, ws) == [w EXCEPT !.shown = Showing(w, ws)]
Adds(w, ws, o) ==
    [w EXCEPT !.active = Put(@, ws, None), !.output = Put(@, ws, o),
              !.shown = IF \E s \in @ : w.output[s] = o THEN @ ELSE @ \cup {ws}]
Removes(w, ws) == [w EXCEPT !.active = Drop(@, ws), !.output = Drop(@, ws)]

\* Workspace ws goes to output o; what is then shown on the two outputs is left open.
Relocates(w, ws, o) ==
    {v \in {[w EXCEPT !.output[ws] = o, !.shown = s] : s \in SUBSET DOMAIN w.active} :
        /\ OneShown(v)
        /\ \A s \in v.shown \ w.shown : w.output[s] \in {o, w.output[ws]}}

NextWorlds(w) ==
    {Opens(w, id) : id \in Windows \ opened}
    \cup {Closes(w, id) : id \in DOMAIN w.where}
    \cup {Focuses(w, id) : id \in DOMAIN w.where}
    \cup {Moves(w, id, ws) : id \in DOMAIN w.where, ws \in DOMAIN w.active}
    \cup {Switches(w, ws) : ws \in DOMAIN w.active}
    \cup {Reveals(w, ws) :
            ws \in {s \in DOMAIN w.active : w.output[s] # w.output[w.focused]}}
    \cup {Adds(w, ws, o) : ws \in Workspaces \ DOMAIN w.active, o \in Outputs}
    \cup {Removes(w, ws) : ws \in {s \in DOMAIN w.active \ w.shown : On(w, s) = {}}}
    \cup UNION {Relocates(w, ws, o) : ws \in DOMAIN w.active, o \in Outputs}

\* What the compositor sends when w has become v.
WorkspaceEvents(w, v) ==
    IF w.output # v.output
    THEN <<[type |-> "WorkspacesChanged", list |-> WorkspaceList(v)]>>
    ELSE SetToSeq({[type |-> "WorkspaceActivated", id |-> ws, focused |-> ws = v.focused] :
                   ws \in {s \in v.shown : \/ s \notin w.shown
                                           \/ s = v.focused /\ s # w.focused}})
         \o SetToSeq({[type |-> "WorkspaceActiveWindowChanged", id |-> ws,
                       window |-> v.active[ws]] :
                      ws \in {s \in DOMAIN w.active : w.active[s] # v.active[s]}})

WindowEvents(w, v) ==
    SetToSeq({[type |-> "WindowOpenedOrChanged", id |-> id,
               window |-> WindowList(v)[id], focused |-> id = Focused(v)] :
              id \in {i \in DOMAIN v.where :
                        i \notin DOMAIN w.where \/ w.where[i] # v.where[i]}})
    \o SetToSeq({[type |-> "WindowClosed", id |-> id] :
                 id \in DOMAIN w.where \ DOMAIN v.where})
    \o (IF Focused(w) = Focused(v) THEN <<>>
        ELSE <<[type |-> "WindowFocusChanged", id |-> Focused(v)]>>)

Change ==
    /\ budget > 0
    /\ budget' = budget - 1
    /\ world' \in NextWorlds(world) \ {world}
    /\ opened' = opened \cup DOMAIN world'.where
    /\ stream' = stream \o (IF workspacesFirst
                            THEN WorkspaceEvents(world, world') \o WindowEvents(world, world')
                            ELSE WindowEvents(world, world') \o WorkspaceEvents(world, world'))
    /\ UNCHANGED <<vars, greeted, workspacesFirst, bootstrap>>

\* The focus timestamp of a window, or its urgency, changes.
Touch ==
    /\ budget > 0
    /\ budget' = budget - 1
    /\ \E id \in DOMAIN world.where :
         stream' = Append(stream, [type |-> "WindowAttribute", id |-> id])
    /\ UNCHANGED <<vars, greeted, workspacesFirst, world, opened, bootstrap>>

-------------------------------------------------------------------------------
(* The replica *)

\* reduce_event: the reducer registered for the event's type.
Reduce(e, ev) ==
    CASE ev.type = "WindowsChanged" -> ReduceWindowsChanged(e, ev.list)
      [] ev.type = "WindowOpenedOrChanged" ->
           ReduceWindowOpenedOrChanged(e, ev.id, ev.window, ev.focused)
      [] ev.type = "WindowClosed" -> ReduceWindowClosed(e, ev.id)
      [] ev.type = "WindowFocusChanged" -> ReduceWindowFocusChanged(e, ev.id)
      [] ev.type = "WindowAttribute" -> ReduceWindowAttribute(e, ev.id, {"windows"})
      [] ev.type = "WorkspacesChanged" -> ReduceWorkspacesChanged(e, ev.list)
      [] ev.type = "WorkspaceActivated" -> ReduceWorkspaceActivated(e, ev.id, ev.focused)
      [] ev.type = "WorkspaceActiveWindowChanged" ->
           ReduceWorkspaceActiveWindowChanged(e, ev.id, ev.window)

\* One query of the gather is answered.
Queries == {"workspaces", "windows", "focused_window"}
Answer ==
    /\ phase = "querying"
    /\ \E q \in Queries \ DOMAIN answers :
         answers' = Put(answers, q,
           CASE q = "workspaces" -> WorkspaceList(world)
             [] q = "windows" -> WindowList(world)
             [] q = "focused_window" ->
                  IF Focused(world) = None THEN [id |-> None, workspace |-> None]
                  ELSE [id |-> Focused(world), workspace |-> world.where[Focused(world)]])
    /\ UNCHANGED <<vars, compositor, stream, phase, buffer>>

\* _buffer_events takes the next event.
BufferEvent ==
    /\ phase = "querying" /\ stream # <<>>
    /\ buffer' = Append(buffer, Head(stream))
    /\ stream' = Tail(stream)
    /\ UNCHANGED <<vars, compositor, phase, answers>>

\* Mutant: full lists are not replayed over the answers, which are newer.
ReplayIncrements(r, ev) ==
    IF r.desync \/ ev.type \in {"WindowsChanged", "WorkspacesChanged"} THEN r
    ELSE LET result == Reduce(r.engine, ev)
         IN [result EXCEPT !.engine = Reconcile(@)]

\* One buffered event; the first DesyncError is the last.
Replay(r, ev) ==
    IF r.desync THEN r
    ELSE LET result == Reduce(r.engine, ev)
         IN [result EXCEPT !.engine = Reconcile(@)]

\* With every answer there, the buffering is cancelled, the engine built and the
\* buffer replayed: a DesyncError fails the bootstrap.  What was not buffered stays
\* in the stream, for the loop.
FinishBootstrap ==
    /\ phase = "querying" /\ DOMAIN answers = Queries
    /\ LET focused == answers["focused_window"]
           built == BuildInitial(answers["windows"], answers["workspaces"],
                                 focused.id, focused.workspace,
                                 engine.keyboard, engine.overview)
           replayed == FoldLeft(Replay, Applied(built, {}), buffer)
       IN IF replayed.desync
          THEN phase' = "failed" /\ UNCHANGED vars
          ELSE /\ phase' = "live"
               /\ engine' = Bootstrapped(replayed.engine)
               /\ changes' = [cause |-> "bootstrap", domains |-> Domains]
    /\ answers' = <<>>
    /\ buffer' = <<>>
    /\ UNCHANGED <<compositor, stream>>

\* The mutation loop takes the next event.
HandleEvent ==
    /\ phase = "live" /\ stream # <<>>
    /\ Handle(Reduce(engine, Head(stream)))
    /\ stream' = Tail(stream)
    /\ UNCHANGED <<compositor, bootstrap>>

-------------------------------------------------------------------------------

EmptyEngine ==
    [outputs |-> KnownOutputs, workspaces |-> <<>>, windows |-> <<>>,
     focused_window_id |-> None, focused_workspace_id |-> None,
     keyboard |-> [names |-> 0, current_idx |-> 0], overview |-> FALSE,
     health |-> "bootstrapping", desynced |-> FALSE]

Worlds ==
    {w \in [where : Dict(Windows, Workspaces),
            active : Dict(Workspaces, Windows \cup {None}),
            output : Dict(Workspaces, Outputs),
            shown : SUBSET Workspaces, focused : Workspaces] :
        /\ DOMAIN w.output = DOMAIN w.active
        /\ OneShown(w)
        /\ \A id \in DOMAIN w.where : w.where[id] \in DOMAIN w.active
        /\ \A ws \in DOMAIN w.active :
             IF On(w, ws) = {} THEN w.active[ws] = None ELSE w.active[ws] \in On(w, ws)}

Greeting(w) == <<[type |-> "WorkspacesChanged", list |-> WorkspaceList(w)],
                 [type |-> "WindowsChanged", list |-> WindowList(w)]>>

\* The stream has just been opened, on a compositor that runs.
ReplicationInit ==
    /\ greeted \in BOOLEAN
    /\ workspacesFirst \in BOOLEAN
    /\ world \in Worlds
    /\ opened = DOMAIN world.where
    /\ stream = IF greeted THEN Greeting(world) ELSE <<>>
    /\ phase = "querying"
    /\ answers = <<>>
    /\ buffer = <<>>
    /\ budget = MaxChanges
    /\ engine = EmptyEngine
    /\ changes = [cause |-> "bootstrap", domains |-> {}]

ReplicationNext ==
    \/ Change \/ Touch
    \/ Answer \/ BufferEvent \/ FinishBootstrap \/ HandleEvent

ReplicationSpec == ReplicationInit /\ [][ReplicationNext]_allVars

-------------------------------------------------------------------------------
(* Properties *)

\* What each query may be answered.
Answers ==
    [workspaces |-> Dict(Workspaces, Workspace), windows |-> Dict(Windows, Window),
     focused_window |-> [id : Windows \cup {None}, workspace : Workspaces \cup {None}]]

\* Type invariant, with what each phase leaves behind: no query or buffer outlives
\* the bootstrap, whose engine is published only with a health a replica may have.
ReplicationOK ==
    /\ world \in Worlds /\ opened \subseteq Windows /\ budget \in 0..MaxChanges
    /\ phase \in {"querying", "live", "failed"}
    /\ phase = "querying" =>
         /\ engine = EmptyEngine
         /\ \A q \in DOMAIN answers : answers[q] \in Answers[q]
    /\ phase # "querying" => answers = <<>> /\ buffer = <<>>
    /\ phase = "live" => TypeOK

\* Everything the compositor has sent has been handled.
CaughtUp == phase = "live" /\ stream = <<>>

\* FINAL_CONCEPT_ANALYSIS.md, 7.3: replaying the buffered events closes the race.
\* However queries, changes and events interleave, a replica that has caught up has
\* the compositor's windows and focused window, its workspaces with their outputs, and
\* knows which one is active on each output: nothing that happened during the
\* bootstrap is lost, nothing old is left.  The workspace with the focus says so, and
\* of the others one that is active on another output may too: an activation clears the
\* flags of its own output only (reducers.py:212), and no event tells the others.
\* The focused workspace agrees if a window has the focus.  If none has, it may
\* differ for ever: a focused window that moves away pulls focused_workspace_id
\* along (reconcile.py:28), and nothing sets it back.
CaughtUpAgrees ==
    CaughtUp =>
        /\ engine.windows = WindowList(world)
        /\ engine.focused_window_id = Focused(world)
        /\ DOMAIN engine.workspaces = DOMAIN world.active
        /\ \A ws \in DOMAIN world.active :
             LET workspace == engine.workspaces[ws] IN
             /\ workspace.output = world.output[ws]
             /\ workspace.is_active = (ws \in world.shown)
             /\ workspace.is_focused => ws \in world.shown
             /\ ws = world.focused => workspace.is_focused
        /\ Focused(world) # None => engine.focused_workspace_id = world.focused

\* No workspace of such a replica has an active window that the compositor no longer
\* has there; if the events about windows come first, each has the compositor's.  In
\* the other order reconcile erases an active window whose arrival has not been
\* reduced yet (reconcile.py:62-64), and it stays erased.
ActiveWindowsAgree ==
    CaughtUp =>
        /\ DOMAIN engine.workspaces = DOMAIN world.active
        /\ \A ws \in DOMAIN world.active :
             LET active == engine.workspaces[ws].active_window_id IN
             /\ active \in {world.active[ws], None}
             /\ workspacesFirst \/ active = world.active[ws]

\* A stream that starts with the full lists can be replayed over any answers: no
\* event about something the answers no longer, or do not yet, have makes the
\* connection fail.
GreetedConnects == greeted => phase # "failed"

===============================================================================
