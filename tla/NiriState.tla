------------------------------- MODULE NiriState -------------------------------
(***************************************************************************)
(* The lifecycle of one replica: the NiriState object of api/state.py, its  *)
(* mutation loop, and the ResyncCoordinator of core/resync.py.             *)
(*                                                                         *)
(* The program is a set of asyncio tasks on one thread: the user's tasks    *)
(* (Callers) that call connect, refresh and close, the coordinator, and the *)
(* loop.  A task runs alone until it awaits something that is not ready, so *)
(* an action is the code between two such awaits.  publish,                 *)
(* _transition_health and ResyncCoordinator.start never suspend and belong  *)
(* to the action that awaits them.                                         *)
(*                                                                         *)
(* What a snapshot holds is left out: an event is good or bad in one of the *)
(* ways of FaultKinds.  Subscribers appear only through the error that a    *)
(* publication may raise under the fail-fast policy.                       *)
(***************************************************************************)
EXTENDS Integers, Health

CONSTANTS
    Callers, Coordinator,     \* the user's tasks, the coordinator's task
    Nobody,                   \* who holds the lock when it is free
    Bundles, NoBundle,        \* connections that can be open together
    ResyncPolicy, UnknownEventPolicy, InvariantFailurePolicy,
    SubscriberOverflowPolicy, ResyncMaxAttempts,   \* NiriStateConfig
    Faults,                   \* what the environment may do wrong
    MaxCalls, MaxEvents       \* bounds: the user's calls, the events sent

FaultKinds ==
    {"open_fails", "bootstrap_fails", "bundle_close_fails", "stream_ends",
     "stream_fails", "unknown_event", "dangling_event", "malformed_event",
     "invalid_snapshot", "user_cancels"}

Tasks == Callers \cup {Coordinator}

ASSUME TasksAssumption == Coordinator \notin Callers /\ Nobody \notin Tasks
ASSUME BundlesAssumption == NoBundle \notin Bundles
ASSUME ConfigAssumption ==
    /\ ResyncPolicy \in {"manual", "auto"}
    /\ UnknownEventPolicy \in {"stale", "fail", "ignore"}
    /\ InvariantFailurePolicy \in {"stale", "fail"}
    /\ SubscriberOverflowPolicy \in {"drop_oldest", "fail_fast"}
    /\ ResyncMaxAttempts \in Nat \ {0}
ASSUME FaultsAssumption == Faults \subseteq FaultKinds
ASSUME BoundsAssumption == MaxCalls \in Nat /\ MaxEvents \in Nat

VARIABLES
    lock,      \* holder of NiriState._lock
    pc,        \* where each task is suspended
    result,    \* how the last call of each user task ended
    attempt,   \* failed attempts in the coordinator's current round
    closed,    \* _closed
    bundle,    \* _bundle; set in the step that sets _started
    engine,    \* health and diagnostics.desynced of _engine
    snapshot,  \* _snapshot; revision 0 stands for None
    revision,  \* _revision
    open,      \* the connections that are open
    spare,     \* the connection a call has opened, not installed, or has
               \* replaced, not closed
    loop,      \* _mutation_task: its status and the connection it reads
    trigger,   \* ResyncCoordinator._trigger
    broadcasterClosed, calls, events

control == <<lock, pc, result, attempt>>
replica == <<closed, bundle, engine, snapshot, revision>>
quiet == <<trigger, broadcasterClosed, calls, events>>
vars == <<control, replica, open, spare, loop, quiet>>

WaitingPc == {"connect_lock", "refresh_lock", "close_lock"}
CriticalPc ==
    {"connect_open", "connect_boot", "connect_undo", "refresh_stop",
     "refresh_open", "refresh_boot", "refresh_undo", "refresh_retire",
     "close_stop", "close_bundle", "close_coordinator"}
CallerPc == {"idle"} \cup WaitingPc \cup CriticalPc
RefreshPc == {"refresh_lock", "refresh_stop", "refresh_open", "refresh_boot",
              "refresh_undo", "refresh_retire"}
CoordinatorPc == RefreshPc \cup
    {"not_created", "awaiting_trigger", "sleeping", "cancelling", "done"}
Results == {"none", "connected", "refreshed", "closed", "raised", "cancelled"}
LoopStatus == {"none", "running", "cancelling", "ended", "failed"}

ControlTypeOK ==
    /\ lock \in Tasks \cup {Nobody}
    /\ pc \in [Tasks -> CallerPc \cup CoordinatorPc]
    /\ \A p \in Callers : pc[p] \in CallerPc
    /\ pc[Coordinator] \in CoordinatorPc
    /\ result \in [Callers -> Results]
    /\ attempt \in 0 .. ResyncMaxAttempts
DataTypeOK ==
    /\ closed \in BOOLEAN
    /\ bundle \in Bundles \cup {NoBundle}
    /\ engine \in [health : HealthState, desynced : BOOLEAN]
    /\ snapshot \in [revision : Nat, health : HealthState, desynced : BOOLEAN]
    /\ revision \in Nat
    /\ open \subseteq Bundles
    /\ spare \in Bundles \cup {NoBundle}
    /\ loop \in [status : LoopStatus, bundle : Bundles \cup {NoBundle}]
    /\ trigger \in BOOLEAN
    /\ broadcasterClosed \in BOOLEAN
    /\ calls \in 0 .. MaxCalls
    /\ events \in 0 .. MaxEvents
TypeOK == ControlTypeOK /\ DataTypeOK

NoLoop == [status |-> "none", bundle |-> NoBundle]
RunningLoop(b) == [status |-> "running", bundle |-> b]

\* EngineState.freeze
Freeze(e, r) == [revision |-> r, health |-> e.health, desynced |-> e.desynced]

Init ==
    /\ lock = Nobody
    /\ pc = [p \in Tasks |-> IF p = Coordinator THEN "not_created" ELSE "idle"]
    /\ result = [p \in Callers |-> "none"]
    /\ attempt = 0
    /\ closed = FALSE
    /\ bundle = NoBundle
    /\ engine = [health |-> "bootstrapping", desynced |-> FALSE]
    /\ revision = 0
    /\ snapshot = Freeze(engine, 0)
    /\ open = {}
    /\ spare = NoBundle
    /\ loop = NoLoop
    /\ trigger = FALSE
    /\ broadcasterClosed = FALSE
    /\ calls = 0
    /\ events = 0

-------------------------------------------------------------------------------
(* Helpers *)

\* Mutant: the snapshot is frozen before the revision changes.
FreezeUnnumbered(e, r) ==
    engine' = e /\ revision' = r /\ snapshot' = Freeze(e, revision)

\* Install engine e, number its snapshot r, and publish it.
Publish(e, r) ==
    /\ engine' = e
    /\ revision' = r
    /\ snapshot' = Freeze(e, r)

\* A publication may overflow a subscriber's queue; only the fail-fast policy
\* lets that surface as an exception, once every queue has been served.
Overflow == IF SubscriberOverflowPolicy = "fail_fast" THEN BOOLEAN ELSE {FALSE}

\* Mutants: the connection is forgotten, or the installed one closed instead.
ForgetSpare == UNCHANGED open
CloseInstalled == open' = open \ {bundle}

\* The connection that was not installed, or was replaced, is closed.
CloseSpare == open' = open \ {spare}

\* Closing connection b went wrong: it may be open or not.
BadClose(b) == open' \in {open, open \ {b}}

\* Mutant: the health is left as it was.
StaysAsItWas(e) == e

\* A refresh makes a LIVE or STALE engine RESYNCING.
Resyncing(e) == IF e.health \in {"live", "stale"}
                THEN [e EXCEPT !.health = "resyncing"] ELSE e

\* Task p goes on to suspend at s, with the lock.
Suspends(p, s) ==
    /\ lock' = p
    /\ pc' = [pc EXCEPT ![p] = s]
    /\ UNCHANGED <<result, attempt>>

\* p's call ends and gives up the lock.
Leaves(p, res) ==
    /\ lock' = Nobody
    /\ pc' = [pc EXCEPT ![p] = "idle"]
    /\ result' = [result EXCEPT ![p] = res]
    /\ UNCHANGED attempt

\* Mutant: one attempt too many.
AttemptEndsLate(ok) ==
    /\ lock' = Nobody
    /\ attempt' = IF ok THEN 0 ELSE attempt + 1
    /\ pc' = [pc EXCEPT ![Coordinator] =
                IF ok \/ attempt = ResyncMaxAttempts
                THEN "awaiting_trigger" ELSE "sleeping"]
    /\ UNCHANGED result

\* The coordinator's refresh ends.  After a failure _run_attempts backs off, or
\* gives up if that was the last attempt.
AttemptEnds(ok) ==
    /\ lock' = Nobody
    /\ attempt' = IF ok THEN 0 ELSE attempt + 1
    /\ pc' = [pc EXCEPT ![Coordinator] =
                IF ok \/ attempt + 1 = ResyncMaxAttempts
                THEN "awaiting_trigger" ELSE "sleeping"]
    /\ UNCHANGED result

Raises(p) == IF p = Coordinator THEN AttemptEnds(FALSE) ELSE Leaves(p, "raised")

\* Mutant: the lock is not taken.
Proceeds(p, s) == pc[p] = s

\* p is next to get the free lock, in call s.
Acquires(p, s) == pc[p] = s /\ lock = Nobody

\* Mutant: a task that died is taken for one that ended.
LoopIsDone == loop.status \in {"none", "ended", "failed"}

\* _stop_mutation_loop returns at once...
LoopIsOver == loop.status \in {"none", "ended"}
\* ...or cancels the task and awaits it...
CancelLoop ==
    /\ loop.status = "running"
    /\ loop' = [loop EXCEPT !.status = "cancelling"]
\* ...or raises what the task died of.
LoopHasFailed == loop.status = "failed"

\* Mutant: the loop is not started again.
LeaveLoop == UNCHANGED loop

\* A failed refresh starts the loop again on the old connection and engine, whose
\* health stays RESYNCING.
RestoreLoop == loop' = RunningLoop(bundle)

\* A user task makes a call: it first awaits the lock.
Call(p) ==
    /\ pc[p] = "idle"
    /\ calls < MaxCalls
    /\ calls' = calls + 1
    /\ \E s \in WaitingPc : pc' = [pc EXCEPT ![p] = s]
    /\ result' = [result EXCEPT ![p] = "none"]
    /\ UNCHANGED <<lock, attempt, replica, open, spare, loop, trigger,
                   broadcasterClosed, events>>

-------------------------------------------------------------------------------
(* connect(), and what it shares with refresh() *)

\* The lifecycle check fails, or, for a refresh, the loop's own exception comes
\* out of _stop_mutation_loop.
Refused(p) ==
    /\ \/ Acquires(p, "connect_lock") /\ (closed \/ bundle # NoBundle)
       \/ /\ Acquires(p, "refresh_lock")
          /\ closed \/ bundle = NoBundle \/ LoopHasFailed
    /\ Raises(p)
    /\ UNCHANGED <<replica, open, spare, loop, quiet>>

ConnectBegins(p) ==
    /\ Acquires(p, "connect_lock")
    /\ ~closed /\ bundle = NoBundle
    /\ Suspends(p, "connect_open")
    /\ UNCHANGED <<replica, open, spare, loop, quiet>>

\* _open_bundle returns a new connection.
OpenSucceeds(p) ==
    /\ \/ pc[p] = "connect_open" /\ Suspends(p, "connect_boot")
       \/ pc[p] = "refresh_open" /\ Suspends(p, "refresh_boot")
    /\ \E b \in Bundles \ open : open' = open \cup {b} /\ spare' = b
    /\ UNCHANGED <<replica, loop, quiet>>

\* It raises; so it does when no connection is left.
OpenFails(p) ==
    /\ "open_fails" \in Faults \/ open = Bundles
    /\ \/ pc[p] = "connect_open" /\ UNCHANGED loop
       \/ pc[p] = "refresh_open" /\ RestoreLoop
    /\ Raises(p)
    /\ UNCHANGED <<replica, open, spare, quiet>>

\* What run_bootstrap makes of the compositor's answers: events buffered during
\* the queries are replayed, then the invariants are checked.
BootstrapEngines ==
    {[health |-> "live", desynced |-> FALSE]}
    \cup (IF "unknown_event" \in Faults /\ UnknownEventPolicy = "stale"
          THEN {[health |-> "stale", desynced |-> TRUE]} ELSE {})
    \cup (IF "invalid_snapshot" \in Faults /\ InvariantFailurePolicy = "stale"
          THEN {[health |-> "stale", desynced |-> FALSE]} ELSE {})

BootstrapFails(p) ==
    /\ \/ Faults \cap {"bootstrap_fails", "dangling_event", "malformed_event"} # {}
       \/ "unknown_event" \in Faults /\ UnknownEventPolicy = "fail"
       \/ "invalid_snapshot" \in Faults /\ InvariantFailurePolicy = "fail"
    /\ \/ pc[p] = "connect_boot" /\ Suspends(p, "connect_undo")
       \/ pc[p] = "refresh_boot" /\ Suspends(p, "refresh_undo")
    /\ UNCHANGED <<replica, open, spare, loop, quiet>>

\* From the bootstrap's return to the end of connect is one step.  Its
\* publication is the first one, and finds every queue empty.
ConnectSucceeds(p) ==
    /\ pc[p] = "connect_boot"
    /\ bundle' = spare
    /\ spare' = NoBundle
    /\ \E e \in BootstrapEngines : Publish(e, 1)
    /\ loop' = RunningLoop(spare)
    /\ lock' = Nobody
    /\ pc' = [pc EXCEPT ![p] = "idle",
                        ![Coordinator] = IF ResyncPolicy = "auto"
                                         THEN "awaiting_trigger" ELSE @]
    /\ result' = [result EXCEPT ![p] = "connected"]
    /\ UNCHANGED <<attempt, closed, open, quiet>>

\* The new connection is closed after a failed bootstrap, and the call raises.
\* A refresh restores the loop, unless that close itself raises.
Undone(p) ==
    /\ pc[p] \in {"connect_undo", "refresh_undo"}
    /\ \/ /\ CloseSpare
          /\ IF pc[p] = "refresh_undo" THEN RestoreLoop ELSE UNCHANGED loop
       \/ "bundle_close_fails" \in Faults /\ BadClose(spare) /\ UNCHANGED loop
    /\ spare' = NoBundle
    /\ Raises(p)
    /\ UNCHANGED <<replica, quiet>>

-------------------------------------------------------------------------------
(* refresh(), by a user task or by the coordinator *)

\* A running loop is cancelled and awaited; with no loop to wait for, the engine
\* becomes RESYNCING (unpublished) and a connection is opened at once.
RefreshBegins(p) ==
    /\ Acquires(p, "refresh_lock")
    /\ bundle # NoBundle /\ ~closed
    /\ \/ CancelLoop /\ UNCHANGED engine /\ Suspends(p, "refresh_stop")
       \/ /\ LoopIsOver
          /\ loop' = NoLoop
          /\ engine' = Resyncing(engine)
          /\ Suspends(p, "refresh_open")
    /\ UNCHANGED <<closed, bundle, snapshot, revision, open, spare, quiet>>

\* The cancelled loop has ended.  A cancellation of the caller during this wait
\* is swallowed by contextlib.suppress.
RefreshLoopStopped(p) ==
    /\ pc[p] = "refresh_stop"
    /\ loop' = NoLoop
    /\ engine' = Resyncing(engine)
    /\ Suspends(p, "refresh_open")
    /\ UNCHANGED <<closed, bundle, snapshot, revision, open, spare, quiet>>

\* The bootstrap succeeded: connection and engine are installed, the desync mark
\* cleared (with_resync), the snapshot published, and the loop started before
\* the old connection is closed.  If the publication raises, that is all.
RefreshInstalls(p) ==
    /\ pc[p] = "refresh_boot"
    /\ bundle' = spare
    /\ \E e \in BootstrapEngines :
         Publish([e EXCEPT !.desynced = FALSE], revision + 1)
    /\ \E overflow \in Overflow :
         IF overflow
         THEN Raises(p) /\ spare' = NoBundle /\ UNCHANGED loop
         ELSE /\ Suspends(p, "refresh_retire")
              /\ spare' = bundle
              /\ loop' = RunningLoop(bundle')
    /\ UNCHANGED <<closed, open, quiet>>

\* The old connection is closed, the lock still held; a failure is ignored.
RefreshRetires(p) ==
    /\ pc[p] = "refresh_retire"
    /\ \/ CloseSpare
       \/ "bundle_close_fails" \in Faults /\ BadClose(spare)
    /\ spare' = NoBundle
    /\ IF p = Coordinator THEN AttemptEnds(TRUE) ELSE Leaves(p, "refreshed")
    /\ UNCHANGED <<replica, loop, quiet>>

-------------------------------------------------------------------------------
(* close() *)

\* A second close, or a close with nothing connected: no await suspends.
CloseAtOnce(p) ==
    /\ Acquires(p, "close_lock")
    /\ \/ closed /\ UNCHANGED <<closed, broadcasterClosed>>
       \/ /\ ~closed /\ bundle = NoBundle
          /\ closed' = TRUE
          /\ broadcasterClosed' = TRUE
    /\ Leaves(p, "closed")
    /\ UNCHANGED <<bundle, engine, snapshot, revision, open, spare, loop, trigger,
                   calls, events>>

\* The loop is stopped; if it had failed, its exception comes out of close.
CloseBegins(p) ==
    /\ Acquires(p, "close_lock")
    /\ ~closed /\ bundle # NoBundle
    /\ closed' = TRUE
    /\ \/ CancelLoop /\ Suspends(p, "close_stop")
       \/ LoopHasFailed /\ Raises(p) /\ UNCHANGED loop
    /\ UNCHANGED <<bundle, engine, snapshot, revision, open, spare, quiet>>

\* Mutant: the connection and the streams are closed with nothing published.
CloseSilently(p) ==
    /\ \/ Acquires(p, "close_lock") /\ ~closed /\ bundle # NoBundle /\ LoopIsOver
       \/ pc[p] = "close_stop"
    /\ closed' = TRUE
    /\ loop' = NoLoop
    /\ Suspends(p, "close_bundle")
    /\ UNCHANGED <<bundle, engine, snapshot, revision, open, spare, quiet>>

\* With the loop over, CLOSED is published and the connection's close awaited.
\* If the publication raises, nothing more happens.
CloseAnnounces(p) ==
    /\ \/ Acquires(p, "close_lock") /\ ~closed /\ bundle # NoBundle /\ LoopIsOver
       \/ pc[p] = "close_stop"
    /\ closed' = TRUE
    /\ loop' = NoLoop
    /\ IF engine.health \in Terminal
       THEN Suspends(p, "close_bundle") /\ UNCHANGED <<engine, revision, snapshot>>
       ELSE /\ Publish([engine EXCEPT !.health = "closed"], revision + 1)
            /\ \E overflow \in Overflow :
                 IF overflow THEN Raises(p) ELSE Suspends(p, "close_bundle")
    /\ UNCHANGED <<bundle, open, spare, quiet>>

\* Mutants: an idle coordinator is not cancelled, or one is awaited uncancelled.
CoordinatorBusy == pc[Coordinator] \in RefreshPc \cup {"sleeping"}
AwaitCoordinator(p) == pc' = [pc EXCEPT ![p] = "close_coordinator"]

CoordinatorRuns == pc[Coordinator] \notin {"not_created", "done"}

CancelCoordinator(p) ==
    pc' = [pc EXCEPT ![p] = "close_coordinator", ![Coordinator] = "cancelling"]

\* ResyncCoordinator.close(), then Broadcaster.close(): a coordinator that was
\* started is cancelled and awaited.  res is how close() will end.
CloseRest(p, res) ==
    /\ result' = [result EXCEPT ![p] = res]
    /\ IF CoordinatorRuns
       THEN CancelCoordinator(p) /\ UNCHANGED <<lock, broadcasterClosed>>
       ELSE /\ lock' = Nobody
            /\ pc' = [pc EXCEPT ![p] = "idle"]
            /\ broadcasterClosed' = TRUE
    /\ UNCHANGED <<attempt, replica, spare, loop, trigger, calls, events>>

\* The finally blocks run whether or not the connection's close raised.
CloseBundleClosed(p) ==
    /\ pc[p] = "close_bundle"
    /\ \/ open' = open \ {bundle} /\ CloseRest(p, "closed")
       \/ /\ "bundle_close_fails" \in Faults
          /\ BadClose(bundle)
          /\ CloseRest(p, "raised")

CloseEnds(p) ==
    /\ pc[p] = "close_coordinator"
    /\ pc[Coordinator] = "done"
    /\ broadcasterClosed' = TRUE
    /\ Leaves(p, result[p])
    /\ UNCHANGED <<replica, open, spare, loop, trigger, calls, events>>

-------------------------------------------------------------------------------
(* A user task is cancelled.  CancelledError is not an Exception: no except    *)
(* clause of connect or refresh undoes anything, only the lock is released.    *)

CancelWaiting(p) ==
    /\ pc[p] \in WaitingPc
    /\ pc' = [pc EXCEPT ![p] = "idle"]
    /\ result' = [result EXCEPT ![p] = "cancelled"]
    /\ UNCHANGED <<lock, attempt, replica, open, spare, loop, quiet>>

\* A connection being bootstrapped stays open with nobody left to close it, one
\* being closed may or may not be.
CancelInside(p) ==
    /\ \/ /\ pc[p] \in {"connect_open", "connect_boot",
                        "refresh_open", "refresh_boot"}
          /\ UNCHANGED open
       \/ /\ pc[p] \in {"connect_undo", "refresh_undo", "refresh_retire"}
          /\ BadClose(spare)
    /\ spare' = NoBundle
    /\ Leaves(p, "cancelled")
    /\ UNCHANGED <<replica, loop, quiet>>

\* close() still runs its finally blocks.
CancelClose(p) ==
    /\ pc[p] = "close_bundle"
    /\ BadClose(bundle)
    /\ CloseRest(p, "cancelled")

UserCancels(p) ==
    /\ "user_cancels" \in Faults
    /\ CancelWaiting(p) \/ CancelInside(p) \/ CancelClose(p)

-------------------------------------------------------------------------------
(* The mutation loop: an event, its reduction and its publication are one step. *)
(* Its test of _closed is left out: close() sets the flag and cancels the loop  *)
(* in one step, so no event is taken with the flag set.                         *)

EventArrives ==
    /\ loop.status = "running"
    /\ events < MaxEvents
    /\ events' = events + 1
    /\ UNCHANGED <<control, closed, bundle, open, spare, broadcasterClosed, calls>>

\* Mutant: the health is left as it was.
MarkedOnly(e) == [e EXCEPT !.desynced = TRUE]

MarkedStale(e) == [e EXCEPT !.health = "stale", !.desynced = TRUE]

\* Mutant: an event that could be reduced is taken for recovery.
RecoveredEngines == {[engine EXCEPT !.health = "live"]}

\* What the reduction leaves: under the stale policy an unknown event marks the
\* engine.
ReducedEngines ==
    {engine} \cup (IF "unknown_event" \in Faults /\ UnknownEventPolicy = "stale"
                   THEN {MarkedStale(engine)} ELSE {})

\* An unknown event is ignored, or the engine is published, stale if its
\* snapshot breaks an invariant.
ApplyEvent ==
    /\ EventArrives
    /\ \/ /\ "unknown_event" \in Faults /\ UnknownEventPolicy = "ignore"
          /\ UNCHANGED <<engine, revision, snapshot>>
       \/ \E e \in ReducedEngines :
            \/ Publish(e, revision + 1)
            \/ /\ "invalid_snapshot" \in Faults
               /\ InvariantFailurePolicy = "stale"
               /\ Publish([e EXCEPT !.health = "stale"], revision + 1)
    /\ UNCHANGED <<loop, trigger>>

\* _fail() publishes FAILED and the exception ends the task.  If it was raised
\* by the publication or by the invariant check, the revision was already used.
FailOnEvent ==
    /\ EventArrives
    /\ \E e \in ReducedEngines, numbered \in BOOLEAN :
         /\ IF numbered
            THEN \/ TRUE \in Overflow
                 \/ /\ "invalid_snapshot" \in Faults
                    /\ InvariantFailurePolicy = "fail"
            ELSE "malformed_event" \in Faults
         /\ Publish([e EXCEPT !.health = "failed"],
                    revision + (IF numbered THEN 2 ELSE 1))
    /\ loop' = [loop EXCEPT !.status = "failed"]
    /\ UNCHANGED trigger

\* Mutant: nobody is told.
RequestNothing == UNCHANGED trigger

\* ResyncCoordinator.request(), under the auto policy; its task cannot have been
\* closed, as the loop is over by then.
RequestResync == trigger' = (trigger \/ ResyncPolicy = "auto")

\* A DesyncError: _mark_desynced publishes STALE and asks for a resync.  If the
\* publication raises, inside the except clause, the task dies without asking.
DesyncOnEvent ==
    /\ EventArrives
    /\ \/ "dangling_event" \in Faults
       \/ "unknown_event" \in Faults /\ UnknownEventPolicy = "fail"
    /\ Publish(MarkedStale(engine), revision + 1)
    /\ \E overflow \in Overflow :
         IF overflow
         THEN loop' = [loop EXCEPT !.status = "failed"] /\ UNCHANGED trigger
         ELSE RequestResync /\ UNCHANGED loop

\* The stream ends, or raises: the iteration is outside the try block, so the
\* task ends, or dies, and the health stays as it is.
StreamStops ==
    /\ loop.status = "running"
    /\ \E s \in {"ended", "failed"} :
         /\ (IF s = "ended" THEN "stream_ends" ELSE "stream_fails") \in Faults
         /\ loop' = [loop EXCEPT !.status = s]
    /\ UNCHANGED <<control, replica, open, spare, quiet>>

-------------------------------------------------------------------------------
(* The coordinator's task, outside the refresh it awaits *)

\* The trigger wakes it, or its backoff delay is over.
CoordinatorWakes ==
    /\ \/ /\ pc[Coordinator] = "awaiting_trigger" /\ trigger
          /\ trigger' = FALSE
          /\ attempt' = 0
       \/ pc[Coordinator] = "sleeping" /\ UNCHANGED <<trigger, attempt>>
    /\ pc' = [pc EXCEPT ![Coordinator] = "refresh_lock"]
    /\ UNCHANGED <<lock, result, replica, open, spare, loop, broadcasterClosed,
                   calls, events>>

\* CancelledError goes through _run_attempts and _run, wherever it was thrown.
CoordinatorCancelled ==
    /\ pc[Coordinator] = "cancelling"
    /\ pc' = [pc EXCEPT ![Coordinator] = "done"]
    /\ UNCHANGED <<lock, result, attempt, replica, open, spare, loop, quiet>>

-------------------------------------------------------------------------------
(* The specification *)

Connect(p) == ConnectBegins(p) \/ ConnectSucceeds(p)

Refresh(p) ==
    \/ Refused(p) \/ OpenSucceeds(p) \/ OpenFails(p)
    \/ BootstrapFails(p) \/ Undone(p)
    \/ RefreshBegins(p) \/ RefreshLoopStopped(p)
    \/ RefreshInstalls(p) \/ RefreshRetires(p)

Close(p) ==
    \/ CloseAtOnce(p) \/ CloseBegins(p) \/ CloseAnnounces(p)
    \/ CloseBundleClosed(p) \/ CloseEnds(p)

MutationLoop == ApplyEvent \/ FailOnEvent \/ DesyncOnEvent \/ StreamStops

CoordinatorStep == CoordinatorWakes \/ CoordinatorCancelled

\* Nobody is in a call: the replica may stay as it is for ever.
Rest ==
    /\ \A p \in Callers : pc[p] = "idle"
    /\ \/ pc[Coordinator] \in {"not_created", "done"}
       \/ pc[Coordinator] = "awaiting_trigger" /\ ~trigger
    /\ UNCHANGED vars

Next ==
    \/ \E p \in Callers : Call(p) \/ Connect(p) \/ Close(p) \/ UserCancels(p)
    \/ \E p \in Tasks : Refresh(p)
    \/ MutationLoop
    \/ CoordinatorStep
    \/ Rest

\* A ready task runs, and the connection answers: niri_pypc bounds its waits by
\* timeouts.  asyncio.Lock serves its waiters in order; as calls are finitely
\* many, weak fairness of each waiter is all we need of that.  Nothing is
\* assumed of events, of faults or of the user's calls.
Fairness ==
    /\ \A p \in Callers : WF_vars(Connect(p) \/ Refresh(p) \/ Close(p))
    /\ WF_vars(Refresh(Coordinator))
    /\ WF_vars(CoordinatorStep)

Spec == Init /\ [][Next]_vars /\ Fairness

-------------------------------------------------------------------------------
(* The inductive invariant of NiriState_proofs *)

\* The lock is held by the one task that is inside a call.
MutualExclusion == \A p \in Tasks : pc[p] \in CriticalPc <=> lock = p

\* The coordinator works on an attempt only when one is left.
AttemptsLeft ==
    pc[Coordinator] \in RefreshPc \cup {"sleeping"} => attempt < ResyncMaxAttempts

\* What a task suspended at s may rely on: the checks made when it took the lock
\* still hold, the loop it has stopped has not come back, and the connection it is
\* bootstrapping is open.
Ground(s) ==
    /\ s \in {"connect_open", "connect_boot", "connect_undo"}
         => ~closed /\ bundle = NoBundle
    /\ s \in RefreshPc \cap CriticalPc => ~closed /\ bundle # NoBundle
    /\ s \in {"refresh_stop", "close_stop"} => loop.status = "cancelling"
    /\ s \in {"refresh_open", "refresh_boot", "refresh_undo"}
         => loop = NoLoop /\ engine.health = "resyncing"
    /\ s \in {"connect_boot", "refresh_boot"} => spare \in open
    /\ s \in {"close_stop", "close_bundle", "close_coordinator"}
         => closed /\ bundle # NoBundle
CallsKeepTheirGround == \A p \in Tasks : Ground(pc[p])

\* The installed connection is open until close() begins, and it is never the one
\* that a call may close.
ConnectionsApart ==
    /\ bundle # NoBundle /\ ~closed => bundle \in open
    /\ spare # NoBundle => spare # bundle

\* The health tells how far the replica got.
HealthTellsStage ==
    /\ bundle = NoBundle <=> engine.health = "bootstrapping"
    /\ bundle = NoBundle => revision = 0 /\ loop = NoLoop
    /\ engine.health = "failed" => loop.status = "failed"
    /\ engine.health = "closed" => closed /\ loop = NoLoop

\* The mutation loop only ever reads the connection whose bootstrap built the
\* engine it updates, while that connection is open and close() has not begun.
\* _start_mutation_loop reads self._bundle, which refresh swaps and restores.
LoopReadsInstalledConnection ==
    loop.status = "running" => loop.bundle = bundle /\ bundle \in open /\ ~closed

IInv ==
    /\ TypeOK
    /\ AttemptsLeft
    /\ MutualExclusion
    /\ CallsKeepTheirGround
    /\ ConnectionsApart
    /\ HealthTellsStage
    /\ LoopReadsInstalledConnection

-------------------------------------------------------------------------------
(* Properties *)

Connected == bundle # NoBundle /\ ~closed

\* However a refresh ends, the replica has its loop back when the lock is free:
\* the restore in refresh's except clause leaves no path without one.
LoopSurvivesRefresh == lock = Nobody /\ Connected => loop.status # "none"

\* ...or its health() says RESYNCING: a cancelled refresh, or one that failed and
\* whose connection then failed to close, leaves no loop, but never a replica that
\* reports LIVE while nothing updates it.  This is about health() alone: the snapshot may
\* still say LIVE (FailedRecoveryIsSaid).
LooplessIsResyncing ==
    lock = Nobody /\ Connected /\ loop.status = "none" => engine.health = "resyncing"

\* Between calls no connection is open but the installed one: each path of
\* connect and refresh closes what it opened or replaced.
NoConnectionLeaks == lock = Nobody => open \subseteq {bundle}

\* Once a close() has returned, to whichever of its callers, everything has been
\* released: the loop, the coordinator, the connection and the broadcaster.
CloseReleases ==
    (\E p \in Callers : result[p] = "closed") /\ lock = Nobody
        => /\ loop = NoLoop
           /\ ~CoordinatorRuns
           /\ open = {}
           /\ broadcasterClosed

\* A snapshot is LIVE only if no desync was seen since its bootstrap.
LiveIsTrusted == snapshot.health = "live" => ~snapshot.desynced /\ ~engine.desynced

\* LIVE, once lost, comes back only from a new bootstrap, over a connection that is
\* open.  The table lets STALE and RESYNCING go to LIVE, but no event of the loop, no
\* failed refresh that restores the old engine, and no invariant check may take a
\* replica that had lost its compositor's trust for LIVE again.
LiveIsBootstrapped ==
    [][\/ engine'.health = "live" /\ engine.health # "live"
       \/ snapshot'.health = "live" /\ snapshot.health # "live"
       => bundle' # bundle /\ bundle' \in open']_vars

\* A snapshot never changes without getting a revision above all the earlier ones,
\* over refreshes, failures of the loop and close.  Numbers may be skipped, against
\* FINAL_SPEC.md:188: an invariant check that raises has used its number up
\* (state.py:209), and _fail takes the next.
RevisionsIncrease ==
    [][snapshot' # snapshot => snapshot'.revision > snapshot.revision]_vars

\* The engine's health changes as the table of api/health.py allows, although
\* bootstrap, refresh and _handle_invariant_violations assign it unchecked; in
\* particular FAILED and CLOSED are never left.  FINAL_SPEC.md:206 has a transition
\* from FAILED to CLOSED that this table has not (CloseConcludes).
HealthFollowsTable == [][CanTransition(engine.health, engine'.health)]_vars

\* ResyncCoordinator.close() cancels the coordinator while it waits for its
\* trigger, its delay or the lock, never inside a refresh, whose cleanup a
\* cancellation would skip: close() holds the lock meanwhile.
CoordinatorNotCancelledInside ==
    [][pc'[Coordinator] = "cancelling" /\ pc[Coordinator] # "cancelling"
       => pc[Coordinator] \in {"awaiting_trigger", "sleeping", "refresh_lock"}]_vars

\* The replica keeps the promise of Replica to its readers, with every fault and
\* policy: in particular nothing is published once the broadcaster is closed, and it
\* is not closed before subscribers have been told CLOSED or FAILED.  Like the code's
\* table, Replica lets nothing follow FAILED.
Replica == INSTANCE Replica WITH
    current <- [revision |-> snapshot.revision, health |-> snapshot.health],
    health <- engine.health,
    ended <- broadcasterClosed
ImplementsReplica == Replica!Spec

\* README.md:64, "close() is idempotent and wakes blocked subscribers", and
\* FINAL_SPEC.md:394, it makes a "transition to closed state", which :206 has from FAILED
\* too.  When no close() is under way any more on a closed replica, its broadcaster has
\* been closed, and it says CLOSED if it was ever connected.
CloseConcludes ==
    closed /\ lock = Nobody
        => /\ broadcasterClosed
           /\ bundle # NoBundle => engine.health = "closed"

\* FINAL_SPEC.md:422 names "stream terminal/overflow failures" among the triggers of
\* STALE, and FINAL_IMPLEMENTATION_GUIDE.md:1824 has an overflow under FAIL_FAST "mark
\* runtime stale/failed": a LIVE replica that no call is working on has its loop
\* running.
LiveIsFed ==
    lock = Nobody /\ Connected /\ snapshot.health = "live"
        => loop.status = "running"

\* Every call returns: in particular close(), which awaits the coordinator with
\* the lock held, does not wait for a coordinator that waits for the lock.
CallsReturn == \A p \in Callers : pc[p] # "idle" ~> pc[p] = "idle"

\* FINAL_SPEC.md:431, "failed auto recovery transitions to stale/failed state": a
\* coordinator that has given up does not leave a replica that says RESYNCING while
\* nobody works on it.
FailedRecoveryIsSaid ==
    /\ attempt = ResyncMaxAttempts
    /\ pc[Coordinator] = "awaiting_trigger" /\ ~trigger
    /\ lock = Nobody
    => engine.health # "resyncing"

\* Under the auto policy no desync is forgotten: the mark goes, or every attempt of a
\* round fails, or the replica is closed.  After such a round `attempt` says nothing of
\* the next one; but a refresh that has begun makes the engine RESYNCING, so one that
\* is STALE with a mark has been desynced since, and a refresh does begin: no request is
\* lost that comes during a round, between its attempts or after the last one.
DesyncIsResynced ==
    /\ ResyncPolicy = "auto" /\ snapshot.desynced
        ~> ~snapshot.desynced \/ attempt = ResyncMaxAttempts \/ closed
    /\ ResyncPolicy = "auto" /\ engine.health = "stale" /\ engine.desynced
        ~> engine.health # "stale" \/ closed

\* FINAL_SPEC.md: an unknown event makes the replica STALE, and the auto policy
\* then bootstraps again: it does not stay STALE with no attempt made.
StaleIsResynced ==
    ResyncPolicy = "auto" /\ snapshot.health = "stale"
        ~> snapshot.health # "stale" \/ attempt = ResyncMaxAttempts \/ closed

===============================================================================
