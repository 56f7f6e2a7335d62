----------------------- MODULE NiriState_release_proofs -----------------------
(***************************************************************************)
(* Proofs of what NiriState loses when connections fail to close, callers    *)
(* are cancelled, or publications and the loop fail: that every connection   *)
(* is closed, that a refresh brings the loop back, and that close() releases *)
(* everything.  Each theorem names the faults it excludes; with each of them *)
(* TLC finds the property violated.                                        *)
(***************************************************************************)
EXTENDS NiriState_proofs

\* No call is cut short: nobody cancels it, a connection that is closed is closed,
\* and a publication does not raise.
Undisturbed ==
    /\ Faults \cap {"user_cancels", "bundle_close_fails"} = {}
    /\ SubscriberOverflowPolicy = "drop_oldest"

\* The mutation loop does not die.
LoopEndsWell ==
    /\ Faults \cap {"stream_fails", "malformed_event"} = {}
    /\ "invalid_snapshot" \in Faults => InvariantFailurePolicy = "stale"

\* Where the one task inside a call is; "idle" if there is none.
At == IF lock = Nobody THEN "idle" ELSE pc[lock]

(* Under drop_oldest a publication never raises. *)
LEMMA NoOverflow ==
    ASSUME SubscriberOverflowPolicy = "drop_oldest"
    PROVE  Overflow = {FALSE}
BY DEF Overflow

(* A task that suspends is at the await it suspends at. *)
LEMMA AtSuspends ==
    ASSUME ControlTypeOK, NEW p \in Tasks, NEW s, Suspends(p, s)
    PROVE  At' = s
BY TasksAssumption DEF ControlTypeOK, Suspends, At

(* After a call has ended nobody is at an await inside a call. *)
LEMMA AtLeaves ==
    ASSUME NEW p \in Tasks,
           \/ Raises(p)
           \/ AttemptEnds(TRUE)
           \/ \E res : Leaves(p, res)
    PROVE  At' = "idle"
BY DEF Raises, AttemptEnds, Leaves, At

\* The task that acts inside a call is the one At tells of.
LEMMA AtActor ==
    ASSUME IInv, NEW p \in Tasks
    PROVE  /\ pc[p] \in CriticalPc => lock = p /\ At = pc[p]
           /\ lock = Nobody => At = "idle"
BY TasksAssumption DEF IInv, MutualExclusion, At

\* What the loop, the coordinator and the tasks that wait do leaves At alone.
LEMMA AtStays ==
    ASSUME IInv, [Next]_vars,
           \/ \E p \in Callers : Call(p) \/ CancelWaiting(p)
           \/ MutationLoop \/ CoordinatorStep \/ Rest \/ UNCHANGED vars
    PROVE  At' = At
<1> USE TasksAssumption
<1> USE DEF Tasks, At
<1>0. /\ ControlTypeOK
      /\ lock # Nobody => lock \in Tasks /\ pc[lock] \in CriticalPc
  BY DEF IInv, TypeOK, ControlTypeOK, MutualExclusion
<1>1. ASSUME NEW p \in Callers, Call(p) \/ CancelWaiting(p)
      PROVE  At' = At
  BY <1>0, <1>1 DEF Call, CancelWaiting, ControlTypeOK, WaitingPc, CriticalPc
<1>2. CASE MutationLoop
  BY <1>2 DEF MutationLoop, ApplyEvent, FailOnEvent, DesyncOnEvent, StreamStops,
              EventArrives, control
<1>3. CASE CoordinatorStep
  BY <1>0, <1>3 DEF CoordinatorStep, CoordinatorWakes, CoordinatorCancelled,
                    ControlTypeOK, CriticalPc
<1>4. CASE Rest \/ UNCHANGED vars
  BY <1>4 DEF Rest, vars, control
<1> QED
  BY <1>1, <1>2, <1>3, <1>4

-------------------------------------------------------------------------------
(* Loops *)

\* Without a loop, a connected replica is RESYNCING, whoever holds the lock.
Loopless == Connected /\ loop.status = "none" => engine.health = "resyncing"

(* Every step keeps Loopless: only a refresh in progress, or one that failed, lacks a
   loop. *)
LEMMA LooplessStep ==
    ASSUME SubscriberOverflowPolicy = "drop_oldest", IInv, Loopless, [Next]_vars
    PROVE  Loopless'
<1> USE DEF Loopless, Connected, Tasks, replica, NoLoop, RunningLoop
<1>0. DataTypeOK /\ HealthTellsStage /\ \A p \in Tasks : Ground(pc[p])
  BY DEF IInv, TypeOK, CallsKeepTheirGround
<1>1. ASSUME NEW p \in Callers, Call(p) \/ UserCancels(p)
      PROVE  Loopless'
  BY <1>1 DEF Call, UserCancels, CancelWaiting, CancelInside, CancelClose, CloseRest
<1>2. ASSUME NEW p \in Callers, Connect(p)
      PROVE  Loopless'
  BY <1>2 DEF Connect, ConnectBegins, ConnectSucceeds
<1>3. ASSUME NEW p \in Callers, Close(p)
      PROVE  Loopless'
  BY <1>3 DEF Close, CloseAtOnce, CloseBegins, CloseAnnounces, CloseBundleClosed,
              CloseRest, CloseEnds
<1>4. ASSUME NEW p \in Tasks, Refresh(p)
      PROVE  Loopless'
  <2>1. CASE RefreshBegins(p)
    <3>1. CASE LoopIsOver /\ engine' = Resyncing(engine)
      <4>1. engine.health \notin {"bootstrapping", "failed", "closed"}
        BY <1>0, <2>1, <3>1 DEF RefreshBegins, LoopIsOver, HealthTellsStage
      <4> QED
        BY <1>0, <3>1, <4>1, ResyncingHealth DEF DataTypeOK
    <3>2. CASE CancelLoop
      BY <1>0, <2>1, <3>2 DEF RefreshBegins, CancelLoop, DataTypeOK
    <3> QED
      BY <2>1, <3>1, <3>2 DEF RefreshBegins
  <2>2. CASE RefreshLoopStopped(p)
    <3>1. engine.health \notin {"bootstrapping", "failed", "closed"}
      BY <1>0, <2>2 DEF RefreshLoopStopped, Ground, RefreshPc, CriticalPc, HealthTellsStage
    <3> QED
      BY <1>0, <2>2, <3>1, ResyncingHealth DEF RefreshLoopStopped, DataTypeOK
  <2>3. CASE RefreshInstalls(p)
    <3>1. loop' = RunningLoop(bundle')
      BY <2>3, NoOverflow DEF RefreshInstalls
    <3> QED
      BY <3>1
  <2>4. CASE OpenFails(p) \/ Undone(p)
    BY <2>4 DEF OpenFails, Undone, RestoreLoop
  <2> QED
    BY <1>4, <2>1, <2>2, <2>3, <2>4
    DEF Refresh, Refused, OpenSucceeds, BootstrapFails, RefreshRetires
<1>5. CASE MutationLoop
  <2>1. /\ loop.status = "running"
        /\ \/ UNCHANGED loop
           \/ \E s \in {"ended", "failed"} : loop' = [loop EXCEPT !.status = s]
    BY <1>5 DEF MutationLoop, ApplyEvent, FailOnEvent, DesyncOnEvent, StreamStops,
                EventArrives
  <2> QED
    BY <1>0, <2>1 DEF DataTypeOK
<1>6. CASE CoordinatorStep \/ Rest \/ UNCHANGED vars
  BY <1>6 DEF CoordinatorStep, CoordinatorWakes, CoordinatorCancelled, Rest, vars
<1> QED
  BY <1>1, <1>2, <1>3, <1>4, <1>5, <1>6 DEF Next

\* If no publication raises, a replica that nothing updates says RESYNCING, also
\* after a cancelled refresh or one whose connection would not close.
THEOREM LooplessSaysSo ==
    ASSUME SubscriberOverflowPolicy = "drop_oldest"
    PROVE  Spec => []LooplessIsResyncing
<1>1. Init => Loopless
  BY DEF Init, Loopless, Connected
<1>2. IInv /\ Loopless /\ [Next]_vars => Loopless'
  BY LooplessStep
<1>3. Loopless => LooplessIsResyncing
  BY DEF Loopless, LooplessIsResyncing
<1> QED
  BY <1>1, <1>2, <1>3, Invariance, PTL DEF Spec

-------------------------------------------------------------------------------
(* Connections and loops in hand *)

\* Where a call has a connection that is not the installed one.
SparePc == {"connect_boot", "connect_undo", "refresh_boot", "refresh_undo",
            "refresh_retire"}

\* Only a call that is there holds such a connection, and no other is open...
SpareInHand ==
    /\ open \subseteq {bundle, spare}
    /\ At \notin SparePc => spare = NoBundle

\* ...and only a refresh that is opening its connection has stopped the loop.
LoopInHand ==
    Connected /\ loop.status = "none"
        => At \in {"refresh_open", "refresh_boot", "refresh_undo"}

InHand == SpareInHand /\ LoopInHand

\* How the steps of connect and refresh pass on what they hold.
LEMMA InHandRefresh ==
    ASSUME Undisturbed, IInv, InHand, NEW p \in Tasks, Refresh(p)
    PROVE  InHand'
<1> USE BundlesAssumption
<1> USE DEF InHand, SpareInHand, LoopInHand, Connected, Tasks, replica, SparePc
<1>0. /\ ControlTypeOK /\ DataTypeOK /\ Ground(pc[p])
      /\ spare # NoBundle => spare # bundle
      /\ pc[p] \in CriticalPc => At = pc[p]
      /\ lock = Nobody => At = "idle"
  BY AtActor DEF IInv, TypeOK, CallsKeepTheirGround, ConnectionsApart
<1>1. CASE Refused(p)
  <2>1. At = "idle" /\ At' = "idle"
    BY <1>0, <1>1, AtLeaves DEF Refused, Acquires
  <2> QED
    BY <1>1, <2>1 DEF Refused
<1>2. CASE OpenSucceeds(p)
  <2>1. PICK b \in Bundles : open' = open \cup {b} /\ spare' = b
    BY <1>2 DEF OpenSucceeds
  <2>2. \/ At = "connect_open" /\ At' = "connect_boot"
        \/ At = "refresh_open" /\ At' = "refresh_boot"
    BY <1>0, <1>2, AtSuspends DEF OpenSucceeds, CriticalPc
  <2>3. UNCHANGED <<closed, bundle, loop>>
    BY <1>2 DEF OpenSucceeds
  <2> QED
    BY <1>0, <2>1, <2>2, <2>3 DEF DataTypeOK
<1>3. CASE OpenFails(p)
  <2>1. /\ At \in {"connect_open", "refresh_open"} /\ At' = "idle"
        /\ At = pc[p]
    BY <1>0, <1>3, AtLeaves DEF OpenFails, CriticalPc
  <2> QED
    BY <1>0, <1>3, <2>1 DEF OpenFails, RestoreLoop, RunningLoop, Ground
<1>4. CASE BootstrapFails(p)
  <2>1. \/ At = "connect_boot" /\ At' = "connect_undo"
        \/ At = "refresh_boot" /\ At' = "refresh_undo"
    BY <1>0, <1>4, AtSuspends DEF BootstrapFails, CriticalPc
  <2> QED
    BY <1>4, <2>1 DEF BootstrapFails
<1>5. CASE Undone(p)
  <2>1. At \in {"connect_undo", "refresh_undo"} /\ At' = "idle" /\ At = pc[p]
    BY <1>0, <1>5, AtLeaves DEF Undone, CriticalPc
  <2>2. open' = open \ {spare} /\ spare' = NoBundle
    BY <1>5 DEF Undone, CloseSpare, Undisturbed
  <2>3. IF At = "refresh_undo" THEN RestoreLoop ELSE UNCHANGED loop
    BY <1>5, <2>1 DEF Undone, Undisturbed
  <2> QED
    BY <1>0, <1>5, <2>1, <2>2, <2>3 DEF Undone, RestoreLoop, RunningLoop, Ground
<1>6. CASE RefreshBegins(p)
  <2>1. At = "idle" /\ At' \in {"refresh_stop", "refresh_open"}
    BY <1>0, <1>6, AtSuspends DEF RefreshBegins, Acquires
  <2>2. /\ UNCHANGED <<closed, bundle, open, spare>>
        /\ At' = "refresh_stop" => loop'.status = "cancelling"
    BY <1>0, <1>6, AtSuspends DEF RefreshBegins, CancelLoop, DataTypeOK
  <2> QED
    BY <2>1, <2>2
<1>7. CASE RefreshLoopStopped(p)
  <2>1. At = "refresh_stop" /\ At' = "refresh_open"
    BY <1>0, <1>7, AtSuspends DEF RefreshLoopStopped, CriticalPc
  <2> QED
    BY <1>7, <2>1 DEF RefreshLoopStopped
<1>8. CASE RefreshInstalls(p)
  <2>1. /\ Suspends(p, "refresh_retire")
        /\ bundle' = spare /\ spare' = bundle /\ open' = open
        /\ loop' = RunningLoop(bundle')
    BY <1>8, NoOverflow DEF RefreshInstalls, Undisturbed
  <2>2. At' = "refresh_retire"
    BY <1>0, <2>1, AtSuspends
  <2> QED
    BY <2>1, <2>2 DEF RunningLoop
<1>9. CASE RefreshRetires(p)
  <2>1. At = "refresh_retire" /\ At' = "idle"
    BY <1>0, <1>9, AtLeaves DEF RefreshRetires, CriticalPc
  <2>2. open' = open \ {spare} /\ spare' = NoBundle
    BY <1>9 DEF RefreshRetires, CloseSpare, Undisturbed
  <2> QED
    BY <1>9, <2>1, <2>2 DEF RefreshRetires
<1> QED
  BY <1>1, <1>2, <1>3, <1>4, <1>5, <1>6, <1>7, <1>8, <1>9 DEF Refresh

(* Every step of an undisturbed replica keeps every open connection and the loop in
   hand. *)
LEMMA InHandStep ==
    ASSUME Undisturbed, IInv, InHand, [Next]_vars
    PROVE  InHand'
<1> USE BundlesAssumption
<1> USE DEF InHand, SpareInHand, LoopInHand, Connected, Tasks, replica, SparePc
<1>0. /\ ControlTypeOK /\ DataTypeOK
      /\ \A p \in Tasks : /\ Ground(pc[p])
                          /\ pc[p] \in CriticalPc => At = pc[p]
      /\ lock = Nobody => At = "idle"
  BY AtActor DEF IInv, TypeOK, CallsKeepTheirGround
<1>1. ASSUME NEW p \in Callers, Call(p)
      PROVE  InHand'
  <2>1. At' = At
    BY <1>1, AtStays
  <2> QED
    BY <1>1, <2>1 DEF Call
<1>2. ASSUME NEW p \in Callers, Connect(p)
      PROVE  InHand'
  <2>1. CASE ConnectBegins(p)
    <3>1. At = "idle" /\ At' = "connect_open"
      BY <1>0, <2>1, AtSuspends DEF ConnectBegins, Acquires
    <3> QED
      BY <2>1, <3>1 DEF ConnectBegins
  <2>2. CASE ConnectSucceeds(p)
    <3>1. bundle = NoBundle
      BY <1>0, <2>2 DEF ConnectSucceeds, Ground
    <3>2. bundle' = spare /\ spare' = NoBundle /\ open' = open /\ loop'.status = "running"
      BY <2>2 DEF ConnectSucceeds, RunningLoop
    <3> QED
      BY <3>1, <3>2
  <2> QED
    BY <1>2, <2>1, <2>2 DEF Connect
<1>3. ASSUME NEW p \in Callers, Close(p)
      PROVE  InHand'
  <2>1. closed' /\ UNCHANGED <<bundle, spare>> /\ open' \subseteq open
    BY <1>0, <1>3 DEF Close, CloseAtOnce, CloseBegins, CloseAnnounces,
       CloseBundleClosed, BadClose, CloseRest, CloseEnds, Ground
  <2>2. At \notin SparePc
    BY <1>0, <1>3 DEF Close, CloseAtOnce, CloseBegins, CloseAnnounces,
       CloseBundleClosed, CloseEnds, Acquires, CriticalPc
  <2> QED
    BY <2>1, <2>2
<1>4. ASSUME NEW p \in Callers, UserCancels(p)
      PROVE  FALSE
  BY <1>4 DEF UserCancels, Undisturbed
<1>5. CASE \E p \in Tasks : Refresh(p)
  BY <1>5, InHandRefresh
<1>6. CASE MutationLoop
  <2>1. At' = At
    BY <1>6, AtStays
  <2>2. /\ UNCHANGED <<closed, bundle, open, spare>>
        /\ loop.status = "running"
        /\ \/ UNCHANGED loop
           \/ \E s \in {"ended", "failed"} : loop' = [loop EXCEPT !.status = s]
    BY <1>6 DEF MutationLoop, ApplyEvent, FailOnEvent, DesyncOnEvent, StreamStops,
                EventArrives
  <2>3. loop'.status # "none"
    BY <1>0, <2>2 DEF DataTypeOK
  <2> QED
    BY <2>1, <2>2, <2>3
<1>7. CASE CoordinatorStep \/ Rest \/ UNCHANGED vars
  <2>1. At' = At
    BY <1>7, AtStays
  <2> QED
    BY <1>7, <2>1 DEF CoordinatorStep, CoordinatorWakes, CoordinatorCancelled, Rest, vars
<1> QED
  BY <1>1, <1>2, <1>3, <1>4, <1>5, <1>6, <1>7 DEF Next

(* InHand holds in every state of an undisturbed replica. *)
LEMMA InHandInvariance ==
    ASSUME Undisturbed
    PROVE  Spec => []InHand
<1>1. Init => InHand
  BY DEF Init, InHand, SpareInHand, LoopInHand, Connected
<1>2. IInv /\ InHand /\ [Next]_vars => InHand'
  BY InHandStep
<1> QED
  BY <1>1, <1>2, Invariance, PTL DEF Spec

\* Between calls no connection is open but the installed one, unless a connection
\* fails to close, a call is cancelled, or a publication raises.
THEOREM ConnectionsDoNotLeak ==
    ASSUME Undisturbed
    PROVE  Spec => []NoConnectionLeaks
<1>1. IInv /\ InHand => NoConnectionLeaks
  BY AtActor, BundlesAssumption
  DEF IInv, TypeOK, DataTypeOK, InHand, SpareInHand, SparePc, NoConnectionLeaks, At
<1> QED
  BY <1>1, Invariance, InHandInvariance, PTL

\* With the same exceptions, however a refresh ends, it leaves a loop: the restore
\* in its except clause is on every path that stopped it.
THEOREM LoopComesBack ==
    ASSUME Undisturbed
    PROVE  Spec => []LoopSurvivesRefresh
<1>1. InHand => LoopSurvivesRefresh
  BY DEF InHand, LoopInHand, LoopSurvivesRefresh, At
<1> QED
  BY <1>1, InHandInvariance, PTL

-------------------------------------------------------------------------------
(* What close() releases *)

\* What close() has done when it is where At tells; outside of calls, all of it.
ClosedIsReleased ==
    /\ bundle = NoBundle => pc[Coordinator] = "not_created"
    /\ At \in {"close_bundle", "close_coordinator"} => loop = NoLoop
    /\ At = "close_coordinator" => open = {}
    /\ closed /\ At = "idle" =>
         loop = NoLoop /\ ~CoordinatorRuns /\ open = {} /\ broadcasterClosed

\* The loop does not die, and only close() ends a call as closed.
ClosedIsTold ==
    /\ loop.status # "failed"
    /\ \A p \in Callers : result[p] = "closed" => closed

Released == ClosedIsReleased /\ ClosedIsTold

\* Without the faults that kill it, the loop lives until it is cancelled.
LEMMA ToldStep ==
    ASSUME Undisturbed, LoopEndsWell, IInv, ClosedIsTold, [Next]_vars
    PROVE  ClosedIsTold'
<1> USE TasksAssumption
<1> USE DEF ClosedIsTold, Tasks, replica
<1>0. ControlTypeOK /\ DataTypeOK /\ \A p \in Tasks : Ground(pc[p])
  BY DEF IInv, TypeOK, CallsKeepTheirGround
<1>1. ASSUME NEW p \in Callers, Call(p)
      PROVE  ClosedIsTold'
  BY <1>0, <1>1 DEF Call, ControlTypeOK
<1>2. ASSUME NEW p \in Callers, Connect(p)
      PROVE  ClosedIsTold'
  BY <1>0, <1>2 DEF Connect, ConnectBegins, ConnectSucceeds, Suspends, RunningLoop,
                    ControlTypeOK
<1>3. ASSUME NEW p \in Callers, Close(p)
      PROVE  ClosedIsTold'
  <2>1. closed'
    BY <1>0, <1>3 DEF Close, CloseAtOnce, CloseBegins, CloseAnnounces,
       CloseBundleClosed, CloseRest, CloseEnds, Ground
  <2>2. loop'.status # "failed"
    BY <1>0, <1>3 DEF Close, CloseAtOnce, CloseBegins, CancelLoop, LoopHasFailed,
       CloseAnnounces, NoLoop, CloseBundleClosed, CloseRest, CloseEnds, DataTypeOK
  <2> QED
    BY <2>1, <2>2
<1>4. ASSUME NEW p \in Callers, UserCancels(p)
      PROVE  FALSE
  BY <1>4 DEF UserCancels, Undisturbed
<1>5. ASSUME NEW p \in Tasks, Refresh(p)
      PROVE  ClosedIsTold'
  <2>1. UNCHANGED closed
    BY <1>5 DEF Refresh, Refused, OpenSucceeds, OpenFails, BootstrapFails, Undone,
       RefreshBegins, RefreshLoopStopped, RefreshInstalls, RefreshRetires
  <2>2. \/ UNCHANGED loop
        \/ CancelLoop
        \/ loop' = NoLoop
        \/ \E b : loop' = RunningLoop(b)
    BY <1>5 DEF Refresh, Refused, OpenSucceeds, OpenFails, BootstrapFails, Undone,
       RefreshBegins, RefreshLoopStopped, RefreshInstalls, RefreshRetires, RestoreLoop
  <2>3. loop'.status # "failed"
    BY <1>0, <2>2 DEF RunningLoop, NoLoop, CancelLoop, DataTypeOK
  <2>4. \/ \E s : Suspends(p, s)
        \/ Raises(p)
        \/ p = Coordinator /\ AttemptEnds(TRUE)
        \/ p # Coordinator /\ Leaves(p, "refreshed")
    BY <1>5 DEF Refresh, Refused, OpenSucceeds, OpenFails, BootstrapFails, Undone,
                RefreshBegins, RefreshLoopStopped, RefreshInstalls, RefreshRetires
  <2>5. \A c \in Callers : result'[c] = "closed" => result[c] = "closed"
    BY <1>0, <2>4 DEF Suspends, Raises, AttemptEnds, Leaves, ControlTypeOK
  <2> QED
    BY <2>1, <2>5, <2>3
<1>6. CASE MutationLoop
  <2>1. CASE ApplyEvent
    BY <2>1 DEF ApplyEvent, EventArrives, control
  <2>2. CASE FailOnEvent
    BY <2>2, NoOverflow DEF FailOnEvent, Undisturbed, LoopEndsWell
  <2>3. CASE DesyncOnEvent
    BY <2>3, NoOverflow DEF DesyncOnEvent, EventArrives, control, Undisturbed
  <2>4. CASE StreamStops
    <3>1. loop' = [loop EXCEPT !.status = "ended"] /\ UNCHANGED <<closed, result>>
      BY <2>4 DEF StreamStops, LoopEndsWell, control
    <3> QED
      BY <1>0, <3>1 DEF DataTypeOK
  <2> QED
    BY <1>6, <2>1, <2>2, <2>3, <2>4 DEF MutationLoop
<1>7. CASE CoordinatorStep \/ Rest \/ UNCHANGED vars
  BY <1>7 DEF CoordinatorStep, CoordinatorWakes, CoordinatorCancelled, Rest, vars, control
<1> QED
  BY <1>1, <1>2, <1>3, <1>4, <1>5, <1>6, <1>7 DEF Next

\* Nobody but close() and connect() moves the coordinator on its behalf.
LEMMA CoordinatorStays ==
    ASSUME ControlTypeOK, NEW p \in Callers,
           \/ \E s : Suspends(p, s)
           \/ \E res : Leaves(p, res)
    PROVE  pc'[Coordinator] = pc[Coordinator]
BY TasksAssumption DEF ControlTypeOK, Suspends, Leaves, Tasks

\* close() finds one connection at most, and leaves nothing behind.
LEMMA ReleasedClose ==
    ASSUME Undisturbed, IInv, InHand, Released, NEW p \in Callers, Close(p)
    PROVE  ClosedIsReleased'
<1> USE TasksAssumption, BundlesAssumption
<1> USE DEF Released, ClosedIsReleased, Tasks, replica
<1>0. /\ ControlTypeOK /\ DataTypeOK /\ HealthTellsStage /\ Ground(pc[p])
      /\ pc[p] \in CriticalPc => At = pc[p] /\ lock = p
      /\ lock = Nobody => At = "idle"
  BY AtActor DEF IInv, TypeOK, CallsKeepTheirGround
<1>1. At \notin SparePc => open \subseteq {bundle}
  BY <1>0 DEF InHand, SpareInHand, DataTypeOK
<1>2. CASE CloseAtOnce(p)
  <2>1. At = "idle" /\ At' = "idle" /\ pc'[Coordinator] = pc[Coordinator]
    BY <1>0, <1>2, AtLeaves, CoordinatorStays DEF CloseAtOnce, Acquires
  <2>2. CASE closed
    BY <1>2, <2>1, <2>2 DEF CloseAtOnce, CoordinatorRuns
  <2>3. CASE bundle = NoBundle
    <3>1. loop = NoLoop /\ open = {} /\ pc[Coordinator] = "not_created"
      BY <1>0, <1>1, <2>1, <2>3 DEF HealthTellsStage, SparePc, DataTypeOK
    <3>2. /\ UNCHANGED <<loop, open, bundle>>
          /\ closed' /\ (closed \/ broadcasterClosed')
      BY <1>2 DEF CloseAtOnce
    <3> QED
      BY <1>2, <2>1, <2>2, <3>1, <3>2 DEF CoordinatorRuns
  <2> QED
    BY <1>2, <2>2, <2>3 DEF CloseAtOnce
<1>3. CASE CloseBegins(p)
  <2>1. Suspends(p, "close_stop") /\ UNCHANGED bundle
    BY <1>3 DEF CloseBegins, LoopHasFailed, ClosedIsTold
  <2>2. At' = "close_stop" /\ pc'[Coordinator] = pc[Coordinator]
    BY <1>0, <2>1, AtSuspends, CoordinatorStays
  <2> QED
    BY <2>1, <2>2
<1>4. CASE CloseAnnounces(p)
  <2>1. Suspends(p, "close_bundle") /\ UNCHANGED bundle /\ loop' = NoLoop
    BY <1>4, NoOverflow DEF CloseAnnounces, Undisturbed
  <2>2. At' = "close_bundle" /\ pc'[Coordinator] = pc[Coordinator]
    BY <1>0, <2>1, AtSuspends, CoordinatorStays
  <2> QED
    BY <2>1, <2>2
<1>5. CASE CloseBundleClosed(p)
  <2>1. At = "close_bundle" /\ lock = p /\ bundle # NoBundle
    BY <1>0, <1>5 DEF CloseBundleClosed, CriticalPc, Ground
  <2>2. CloseRest(p, "closed") /\ open' = open \ {bundle}
    BY <1>5 DEF CloseBundleClosed, Undisturbed
  <2>3. open' = {} /\ loop' = NoLoop /\ bundle' # NoBundle
    BY <1>1, <2>1, <2>2 DEF SparePc, CloseRest
  <2>4. CASE CoordinatorRuns
    <3>1. At' = "close_coordinator"
      BY <1>0, <2>1, <2>2, <2>4 DEF CloseRest, CancelCoordinator, ControlTypeOK, At
    <3> QED
      BY <2>3, <3>1
  <2>5. CASE ~CoordinatorRuns
    <3>1. /\ At' = "idle" /\ broadcasterClosed'
          /\ pc'[Coordinator] = pc[Coordinator]
      BY <1>0, <2>2, <2>5 DEF CloseRest, ControlTypeOK, At
    <3> QED
      BY <2>3, <2>5, <3>1 DEF CoordinatorRuns
  <2> QED
    BY <2>4, <2>5
<1>6. CASE CloseEnds(p)
  <2>1. At = "close_coordinator" /\ At' = "idle"
    BY <1>0, <1>6, AtLeaves DEF CloseEnds, CriticalPc
  <2>2. pc'[Coordinator] = "done"
    BY <1>0, <1>6, CoordinatorStays DEF CloseEnds
  <2>3. bundle # NoBundle
    BY <1>6 DEF CloseEnds
  <2> QED
    BY <1>6, <2>1, <2>2, <2>3 DEF CloseEnds, CoordinatorRuns
<1> QED
  BY <1>2, <1>3, <1>4, <1>5, <1>6 DEF Close

\* A refresh works on an open replica, or is refused.
LEMMA ReleasedRefresh ==
    ASSUME IInv, Released, NEW p \in Tasks, Refresh(p)
    PROVE  ClosedIsReleased'
<1> USE TasksAssumption, BundlesAssumption
<1> USE DEF Released, ClosedIsReleased, Tasks, replica
<1>0. /\ ControlTypeOK /\ DataTypeOK /\ Ground(pc[p])
      /\ pc[p] \in CriticalPc => At = pc[p]
      /\ lock = Nobody => At = "idle"
  BY AtActor DEF IInv, TypeOK, CallsKeepTheirGround
<1>1. CASE Refused(p)
  <2>1. At = "idle" /\ At' = "idle" /\ UNCHANGED <<replica, open, loop, broadcasterClosed>>
    BY <1>0, <1>1, AtLeaves DEF Refused, Acquires, quiet
  <2>2. CASE p = Coordinator
    <3>1. bundle # NoBundle /\ ~closed
      BY <1>1, <2>1, <2>2 DEF Refused, Acquires, CoordinatorRuns
    <3> QED
      BY <2>1, <3>1
  <2>3. CASE p # Coordinator
    <3>1. pc'[Coordinator] = pc[Coordinator]
      BY <1>0, <1>1, <2>3, CoordinatorStays DEF Refused, Raises
    <3> QED
      BY <2>1, <3>1 DEF CoordinatorRuns
  <2> QED
    BY <2>2, <2>3
<1>2. CASE ~Refused(p)
  <2>1. ~closed /\ UNCHANGED closed
    BY <1>0, <1>2 DEF Refresh, OpenSucceeds, OpenFails, BootstrapFails, Undone,
       RefreshBegins, RefreshLoopStopped, RefreshInstalls, RefreshRetires, Ground,
       RefreshPc, CriticalPc
  <2>2. \/ \E s \in {"connect_boot", "refresh_boot", "connect_undo", "refresh_undo",
                      "refresh_stop", "refresh_open", "refresh_retire"} : Suspends(p, s)
        \/ Raises(p)
        \/ p = Coordinator /\ AttemptEnds(TRUE)
        \/ p # Coordinator /\ Leaves(p, "refreshed")
    BY <1>2 DEF Refresh, OpenSucceeds, OpenFails, BootstrapFails, Undone,
                RefreshBegins, RefreshLoopStopped, RefreshInstalls, RefreshRetires
  <2>3. At' \notin {"close_bundle", "close_coordinator"}
    BY <1>0, <2>2, AtSuspends, AtLeaves
  <2>4. CASE RefreshInstalls(p)
    <3>1. bundle' # NoBundle
      BY <1>0, <2>4 DEF RefreshInstalls, Ground, DataTypeOK
    <3> QED
      BY <2>1, <2>3, <3>1
  <2>5. CASE ~RefreshInstalls(p)
    <3>1. UNCHANGED bundle
      BY <1>2, <2>5 DEF Refresh, OpenSucceeds, OpenFails, BootstrapFails, Undone,
         RefreshBegins, RefreshLoopStopped, RefreshRetires
    <3>2. p # Coordinator \/ bundle # NoBundle
      BY <1>0, <1>2, <2>5 DEF Refresh, OpenSucceeds, OpenFails, BootstrapFails, Undone,
         RefreshBegins, RefreshLoopStopped, RefreshRetires, Acquires
    <3>3. p # Coordinator => pc'[Coordinator] = pc[Coordinator]
      BY <1>0, <2>2, CoordinatorStays DEF Raises
    <3> QED
      BY <2>1, <2>3, <3>1, <3>2, <3>3
  <2> QED
    BY <2>4, <2>5
<1> QED
  BY <1>1, <1>2

(* Every step keeps what close() has released, and what it has told. *)
LEMMA ReleasedStep ==
    ASSUME Undisturbed, LoopEndsWell, IInv, InHand, Released, [Next]_vars
    PROVE  Released'
<1> USE TasksAssumption, BundlesAssumption
<1> USE DEF ClosedIsReleased, Tasks, replica
<1>0. /\ ControlTypeOK /\ DataTypeOK /\ LoopReadsInstalledConnection
      /\ \A p \in Tasks : Ground(pc[p]) /\ (pc[p] \in CriticalPc => At = pc[p])
      /\ lock = Nobody => At = "idle"
      /\ ClosedIsReleased
  BY AtActor DEF IInv, TypeOK, CallsKeepTheirGround, Released
<1>1. SUFFICES ClosedIsReleased'
  BY ToldStep DEF Released
<1>2. ASSUME NEW p \in Callers, Call(p)
      PROVE  ClosedIsReleased'
  <2>1. At' = At /\ pc'[Coordinator] = pc[Coordinator]
    BY <1>0, <1>2, AtStays DEF Call, ControlTypeOK
  <2> QED
    BY <1>0, <1>2, <2>1 DEF Call, CoordinatorRuns
<1>3. ASSUME NEW p \in Callers, Connect(p)
      PROVE  ClosedIsReleased'
  <2>1. CASE ConnectBegins(p)
    <3>1. At' = "connect_open" /\ pc'[Coordinator] = pc[Coordinator]
      BY <1>0, <2>1, AtSuspends, CoordinatorStays DEF ConnectBegins
    <3> QED
      BY <1>0, <2>1, <3>1 DEF ConnectBegins
  <2>2. CASE ConnectSucceeds(p)
    <3>1. ~closed /\ bundle' = spare /\ spare \in Bundles /\ UNCHANGED closed
      BY <1>0, <2>2 DEF ConnectSucceeds, Ground, DataTypeOK
    <3>2. At' = "idle"
      BY <2>2 DEF ConnectSucceeds, At
    <3> QED
      BY <3>1, <3>2
  <2> QED
    BY <1>3, <2>1, <2>2 DEF Connect
<1>4. ASSUME NEW p \in Callers, Close(p)
      PROVE  ClosedIsReleased'
  BY <1>4, ReleasedClose
<1>5. ASSUME NEW p \in Callers, UserCancels(p)
      PROVE  FALSE
  BY <1>5 DEF UserCancels, Undisturbed
<1>6. CASE \E p \in Tasks : Refresh(p)
  BY <1>6, ReleasedRefresh
<1>7. CASE MutationLoop
  <2>1. At' = At
    BY <1>7, AtStays
  <2>2. loop.status = "running" /\ UNCHANGED <<closed, bundle, open, control>>
    BY <1>7 DEF MutationLoop, ApplyEvent, FailOnEvent, DesyncOnEvent, StreamStops,
                EventArrives
  <2>3. ~closed /\ loop # NoLoop
    BY <1>0, <2>2 DEF LoopReadsInstalledConnection, NoLoop
  <2> QED
    BY <1>0, <2>1, <2>2, <2>3 DEF control
<1>8. CASE CoordinatorStep
  <2>1. At' = At /\ UNCHANGED <<closed, bundle, open, loop>>
    BY <1>8, AtStays DEF CoordinatorStep, CoordinatorWakes, CoordinatorCancelled
  <2>2. CoordinatorRuns /\ bundle # NoBundle
    BY <1>0, <1>8 DEF CoordinatorStep, CoordinatorWakes, CoordinatorCancelled,
                      CoordinatorRuns
  <2> QED
    BY <1>0, <2>1, <2>2
<1>9. CASE Rest \/ UNCHANGED vars
  <2>1. At' = At
    BY <1>9, AtStays
  <2> QED
    BY <1>0, <1>9, <2>1 DEF Rest, vars, control, quiet, CoordinatorRuns
<1> QED
  BY <1>2, <1>3, <1>4, <1>5, <1>6, <1>7, <1>8, <1>9 DEF Next

\* Once a close() has returned, to whichever caller, everything is released, unless
\* a connection fails to close, a call is cancelled, a publication raises, or the
\* loop dies: its exception comes out of close(), which then does nothing more.
THEOREM CloseReleasesAll ==
    ASSUME Undisturbed, LoopEndsWell
    PROVE  Spec => []CloseReleases
<1>1. Init => Released
  BY TasksAssumption
  DEF Init, Released, ClosedIsReleased, ClosedIsTold, NoLoop, Tasks, At
<1>2. IInv /\ InHand /\ Released /\ [Next]_vars => Released'
  BY ReleasedStep
<1>3. Released => CloseReleases
  BY DEF Released, ClosedIsReleased, ClosedIsTold, CloseReleases, At
<1> QED
  BY <1>1, <1>2, <1>3, Invariance, InHandInvariance, PTL DEF Spec
===============================================================================
