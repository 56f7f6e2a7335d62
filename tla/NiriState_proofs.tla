--------------------------- MODULE NiriState_proofs ---------------------------
(***************************************************************************)
(* Proofs about NiriState, for every set of callers and connections, every  *)
(* configuration, every set of faults and every bound; last, that it         *)
(* implements Replica: readers are given a growing sequence of snapshots and *)
(* their streams end only after the last of them.                          *)
(***************************************************************************)
EXTENDS NiriState, TLAPS

-------------------------------------------------------------------------------
(* Types *)

\* What a bootstrap makes is an engine, LIVE or STALE, and LIVE without a mark.
LEMMA BootstrapEnginesType ==
    /\ BootstrapEngines \subseteq [health : {"live", "stale"}, desynced : BOOLEAN]
    /\ \A e \in BootstrapEngines : e.health = "live" => ~e.desynced
<1>1. ASSUME NEW e \in BootstrapEngines
      PROVE  \/ e = [health |-> "live", desynced |-> FALSE]
             \/ e = [health |-> "stale", desynced |-> TRUE]
             \/ e = [health |-> "stale", desynced |-> FALSE]
  BY DEF BootstrapEngines
<1>2. ASSUME NEW e \in BootstrapEngines
      PROVE  /\ e \in [health : {"live", "stale"}, desynced : BOOLEAN]
             /\ e.health = "live" => ~e.desynced
  <2>1. CASE e = [health |-> "live", desynced |-> FALSE]
    BY <2>1
  <2>2. CASE e = [health |-> "stale", desynced |-> TRUE]
    BY <2>2
  <2>3. CASE e = [health |-> "stale", desynced |-> FALSE]
    BY <2>3
  <2> QED
    BY <1>1, <2>1, <2>2, <2>3
<1> QED
  BY <1>2

\* What a reduction leaves is the engine, or the engine marked stale.
LEMMA ReducedEnginesType ==
    ASSUME engine \in [health : HealthState, desynced : BOOLEAN]
    PROVE  /\ ReducedEngines \subseteq [health : HealthState, desynced : BOOLEAN]
           /\ \A e \in ReducedEngines : e = engine \/ (e.health = "stale" /\ e.desynced)
<1>1. MarkedStale(engine) \in [health : HealthState, desynced : BOOLEAN]
  BY DEF MarkedStale, HealthState
<1>2. MarkedStale(engine).health = "stale" /\ MarkedStale(engine).desynced
  BY DEF MarkedStale
<1>3. \A e \in ReducedEngines : e = engine \/ e = MarkedStale(engine)
  BY DEF ReducedEngines
<1>4. ReducedEngines \subseteq [health : HealthState, desynced : BOOLEAN]
  BY <1>1, <1>3
<1>5. ASSUME NEW e \in ReducedEngines, e # engine
      PROVE  e.health = "stale" /\ e.desynced
  <2>1. e = MarkedStale(engine)
    BY <1>3, <1>5
  <2> QED
    BY <1>2, <2>1, Zenon
<1> QED
  BY <1>4, <1>5, Zenon

\* The control variables keep their types however a call of p goes on...
LEMMA SuspendsType ==
    ASSUME ControlTypeOK, AttemptsLeft, NEW p \in Tasks, NEW s, Suspends(p, s),
           p \in Callers => s \in CallerPc,
           p = Coordinator => {s, pc[p]} \subseteq RefreshPc
    PROVE  ControlTypeOK' /\ AttemptsLeft'
BY TasksAssumption
DEF ControlTypeOK, Suspends, AttemptsLeft, Tasks, CoordinatorPc

\* ...and however it ends.
LEMMA LeavesType ==
    ASSUME ControlTypeOK, AttemptsLeft, NEW p \in Callers, NEW res \in Results,
           Leaves(p, res)
    PROVE  ControlTypeOK' /\ AttemptsLeft'
BY TasksAssumption DEF ControlTypeOK, Leaves, AttemptsLeft, Tasks, CallerPc

(* The end of an attempt of the coordinator counts it and stays within the maximum. *)
LEMMA AttemptEndsType ==
    ASSUME ControlTypeOK, AttemptsLeft, NEW ok \in BOOLEAN, AttemptEnds(ok),
           pc[Coordinator] \in RefreshPc
    PROVE  ControlTypeOK' /\ AttemptsLeft'
<1>1. attempt < ResyncMaxAttempts
  BY DEF AttemptsLeft
<1> QED
  BY <1>1, TasksAssumption, ConfigAssumption
  DEF ControlTypeOK, AttemptEnds, AttemptsLeft, Tasks, CoordinatorPc, RefreshPc

(* A task that raises keeps the types. *)
LEMMA RaisesType ==
    ASSUME ControlTypeOK, AttemptsLeft, NEW p \in Tasks, Raises(p),
           p = Coordinator => pc[p] \in RefreshPc
    PROVE  ControlTypeOK' /\ AttemptsLeft'
BY AttemptEndsType, LeavesType DEF Raises, Tasks, Results

(* The rest of close() after the awaits keeps the types. *)
LEMMA CloseRestType ==
    ASSUME ControlTypeOK, AttemptsLeft, NEW p \in Callers, NEW res \in Results,
           CloseRest(p, res)
    PROVE  ControlTypeOK' /\ AttemptsLeft'
BY TasksAssumption
DEF ControlTypeOK, CloseRest, CancelCoordinator, AttemptsLeft, Tasks, CallerPc,
    CriticalPc, CoordinatorPc, RefreshPc

\* Every step keeps the types of the control variables, and the coordinator
\* within its attempts.
LEMMA ControlTypeStep ==
    ASSUME ControlTypeOK, AttemptsLeft, [Next]_vars
    PROVE  ControlTypeOK' /\ AttemptsLeft'
<1> USE TasksAssumption, ConfigAssumption
<1> USE DEF Tasks
<1>1. ASSUME NEW p \in Callers, Call(p)
      PROVE  ControlTypeOK' /\ AttemptsLeft'
  BY <1>1 DEF Call, ControlTypeOK, AttemptsLeft, WaitingPc, CallerPc, Results
<1>2. ASSUME NEW p \in Callers, Connect(p)
      PROVE  ControlTypeOK' /\ AttemptsLeft'
  <2>1. CASE ConnectBegins(p)
    BY <2>1, SuspendsType DEF ConnectBegins, CallerPc, CriticalPc
  <2>2. CASE ConnectSucceeds(p)
    BY <2>2 DEF ConnectSucceeds, ControlTypeOK, AttemptsLeft, CallerPc,
                CoordinatorPc, RefreshPc, Results
  <2> QED
    BY <1>2, <2>1, <2>2 DEF Connect
<1>3. ASSUME NEW p \in Callers, Close(p)
      PROVE  ControlTypeOK' /\ AttemptsLeft'
  <2>1. CASE CloseAtOnce(p)
    BY <2>1, LeavesType DEF CloseAtOnce, Results
  <2>2. CASE CloseBegins(p)
    BY <2>2, SuspendsType, RaisesType DEF CloseBegins, CallerPc, CriticalPc
  <2>3. CASE CloseAnnounces(p)
    BY <2>3, SuspendsType, RaisesType DEF CloseAnnounces, CallerPc, CriticalPc
  <2>4. CASE CloseBundleClosed(p)
    BY <2>4, CloseRestType DEF CloseBundleClosed, Results
  <2>5. CASE CloseEnds(p)
    BY <2>5, LeavesType DEF CloseEnds, ControlTypeOK
  <2> QED
    BY <1>3, <2>1, <2>2, <2>3, <2>4, <2>5 DEF Close
<1>4. ASSUME NEW p \in Callers, UserCancels(p)
      PROVE  ControlTypeOK' /\ AttemptsLeft'
  <2>1. CASE CancelWaiting(p)
    BY <2>1 DEF CancelWaiting, ControlTypeOK, AttemptsLeft, CallerPc, Results
  <2>2. CASE CancelInside(p)
    BY <2>2, LeavesType DEF CancelInside, Results
  <2>3. CASE CancelClose(p)
    BY <2>3, CloseRestType DEF CancelClose, Results
  <2> QED
    BY <1>4, <2>1, <2>2, <2>3 DEF UserCancels
<1>5. ASSUME NEW p \in Tasks, Refresh(p)
      PROVE  ControlTypeOK' /\ AttemptsLeft'
  <2>0. p = Coordinator => pc[p] \in CoordinatorPc
    BY DEF ControlTypeOK
  <2>1. CASE Refused(p)
    BY <2>0, <2>1, RaisesType DEF Refused, Acquires, CoordinatorPc, RefreshPc
  <2>2. CASE OpenSucceeds(p)
    BY <2>0, <2>2, SuspendsType
    DEF OpenSucceeds, CoordinatorPc, RefreshPc, CallerPc, CriticalPc
  <2>3. CASE OpenFails(p)
    BY <2>0, <2>3, RaisesType DEF OpenFails, CoordinatorPc, RefreshPc
  <2>4. CASE BootstrapFails(p)
    BY <2>0, <2>4, SuspendsType
    DEF BootstrapFails, CoordinatorPc, RefreshPc, CallerPc, CriticalPc
  <2>5. CASE Undone(p)
    BY <2>0, <2>5, RaisesType DEF Undone, CoordinatorPc, RefreshPc
  <2>6. CASE RefreshBegins(p)
    BY <2>6, SuspendsType DEF RefreshBegins, Acquires, RefreshPc, CallerPc, CriticalPc
  <2>7. CASE RefreshLoopStopped(p)
    BY <2>7, SuspendsType DEF RefreshLoopStopped, RefreshPc, CallerPc, CriticalPc
  <2>8. CASE RefreshInstalls(p)
    BY <2>8, SuspendsType, RaisesType
    DEF RefreshInstalls, RefreshPc, CallerPc, CriticalPc
  <2>9. CASE RefreshRetires(p)
    BY <2>9, LeavesType, AttemptEndsType DEF RefreshRetires, RefreshPc, Results
  <2> QED
    BY <1>5, <2>1, <2>2, <2>3, <2>4, <2>5, <2>6, <2>7, <2>8, <2>9 DEF Refresh
<1>6. CASE MutationLoop
  BY <1>6 DEF MutationLoop, ApplyEvent, FailOnEvent, DesyncOnEvent, StreamStops,
              EventArrives, control, ControlTypeOK, AttemptsLeft
<1>7. CASE CoordinatorStep
  BY <1>7 DEF CoordinatorStep, CoordinatorWakes, CoordinatorCancelled,
              ControlTypeOK, AttemptsLeft, CoordinatorPc, RefreshPc
<1>8. CASE Rest \/ UNCHANGED vars
  BY <1>8 DEF Rest, vars, control, ControlTypeOK, AttemptsLeft
<1> QED
  BY <1>1, <1>2, <1>3, <1>4, <1>5, <1>6, <1>7, <1>8 DEF Next

\* An engine that is published keeps the types.
LEMMA PublishType ==
    ASSUME NEW e \in [health : HealthState, desynced : BOOLEAN], NEW r \in Nat,
           Publish(e, r)
    PROVE  /\ engine' \in [health : HealthState, desynced : BOOLEAN]
           /\ snapshot' \in [revision : Nat, health : HealthState, desynced : BOOLEAN]
           /\ revision' \in Nat
BY DEF Publish, Freeze

(* Every step keeps the types of engine, snapshot and revision. *)
LEMMA DataTypeStep ==
    ASSUME TypeOK, [Next]_vars
    PROVE  DataTypeOK'
<1> USE BundlesAssumption, BoundsAssumption
<1> USE DEF TypeOK, DataTypeOK, replica, quiet
<1>1. ASSUME NEW p \in Callers, Call(p)
      PROVE  DataTypeOK'
  BY <1>1 DEF Call
<1>2. ASSUME NEW p \in Callers, Connect(p)
      PROVE  DataTypeOK'
  <2>1. CASE ConnectBegins(p)
    BY <2>1 DEF ConnectBegins
  <2>2. CASE ConnectSucceeds(p)
    <3>1. PICK e \in BootstrapEngines : Publish(e, 1)
      BY <2>2 DEF ConnectSucceeds
    <3>2. e \in [health : HealthState, desynced : BOOLEAN]
      BY BootstrapEnginesType DEF HealthState
    <3> QED
      BY <2>2, <3>1, <3>2, PublishType DEF ConnectSucceeds, RunningLoop, LoopStatus
  <2> QED
    BY <1>2, <2>1, <2>2 DEF Connect
<1>3. ASSUME NEW p \in Callers, Close(p)
      PROVE  DataTypeOK'
  <2>1. CASE CloseAtOnce(p)
    BY <2>1 DEF CloseAtOnce
  <2>2. CASE CloseBegins(p)
    BY <2>2 DEF CloseBegins, CancelLoop, LoopStatus
  <2>3. CASE CloseAnnounces(p)
    <3>1. [engine EXCEPT !.health = "closed"] \in [health : HealthState, desynced : BOOLEAN]
      BY DEF HealthState
    <3> QED
      BY <2>3, <3>1, PublishType DEF CloseAnnounces, NoLoop, LoopStatus
  <2>4. CASE CloseBundleClosed(p)
    BY <2>4 DEF CloseBundleClosed, BadClose, CloseRest
  <2>5. CASE CloseEnds(p)
    BY <2>5 DEF CloseEnds
  <2> QED
    BY <1>3, <2>1, <2>2, <2>3, <2>4, <2>5 DEF Close
<1>4. ASSUME NEW p \in Callers, UserCancels(p)
      PROVE  DataTypeOK'
  BY <1>4 DEF UserCancels, CancelWaiting, CancelInside, CancelClose, BadClose, CloseRest
<1>5. ASSUME NEW p \in Tasks, Refresh(p)
      PROVE  DataTypeOK'
  <2>0. /\ NoLoop \in [status : LoopStatus, bundle : Bundles \cup {NoBundle}]
        /\ RunningLoop(bundle) \in [status : LoopStatus, bundle : Bundles \cup {NoBundle}]
        /\ RunningLoop(spare) \in [status : LoopStatus, bundle : Bundles \cup {NoBundle}]
        /\ Resyncing(engine) \in [health : HealthState, desynced : BOOLEAN]
    BY DEF NoLoop, RunningLoop, LoopStatus, Resyncing, HealthState
  <2>1. CASE Refused(p)
    BY <2>1 DEF Refused
  <2>2. CASE OpenSucceeds(p)
    BY <2>2 DEF OpenSucceeds
  <2>3. CASE OpenFails(p)
    BY <2>0, <2>3 DEF OpenFails, RestoreLoop
  <2>4. CASE BootstrapFails(p)
    BY <2>4 DEF BootstrapFails
  <2>5. CASE Undone(p)
    BY <2>0, <2>5 DEF Undone, RestoreLoop, CloseSpare, BadClose
  <2>6. CASE RefreshBegins(p)
    BY <2>0, <2>6 DEF RefreshBegins, CancelLoop, LoopStatus
  <2>7. CASE RefreshLoopStopped(p)
    BY <2>0, <2>7 DEF RefreshLoopStopped
  <2>8. CASE RefreshInstalls(p)
    <3>1. PICK e \in BootstrapEngines : Publish([e EXCEPT !.desynced = FALSE], revision + 1)
      BY <2>8 DEF RefreshInstalls
    <3>2. [e EXCEPT !.desynced = FALSE] \in [health : HealthState, desynced : BOOLEAN]
      BY BootstrapEnginesType DEF HealthState
    <3> QED
      BY <2>0, <2>8, <3>1, <3>2, PublishType DEF RefreshInstalls
  <2>9. CASE RefreshRetires(p)
    BY <2>9 DEF RefreshRetires, CloseSpare, BadClose
  <2> QED
    BY <1>5, <2>1, <2>2, <2>3, <2>4, <2>5, <2>6, <2>7, <2>8, <2>9 DEF Refresh
<1>6. CASE MutationLoop
  <2>0. /\ \A e \in ReducedEngines, h \in HealthState :
             /\ e \in [health : HealthState, desynced : BOOLEAN]
             /\ [e EXCEPT !.health = h] \in [health : HealthState, desynced : BOOLEAN]
        /\ MarkedStale(engine) \in [health : HealthState, desynced : BOOLEAN]
    BY ReducedEnginesType DEF MarkedStale, HealthState
  <2>1. CASE ApplyEvent
    <3>1. \/ UNCHANGED <<engine, revision, snapshot>>
          \/ \E e \in [health : HealthState, desynced : BOOLEAN] : Publish(e, revision + 1)
      BY <2>0, <2>1 DEF ApplyEvent, HealthState
    <3>2. UNCHANGED <<closed, bundle, open, spare, loop, trigger, broadcasterClosed, calls>>
          /\ events < MaxEvents /\ events' = events + 1
      BY <2>1 DEF ApplyEvent, EventArrives
    <3>3. CASE UNCHANGED <<engine, revision, snapshot>>
      BY <3>2, <3>3
    <3>4. CASE \E e \in [health : HealthState, desynced : BOOLEAN] : Publish(e, revision + 1)
      BY <3>2, <3>4, PublishType
    <3> QED
      BY <3>1, <3>3, <3>4
  <2>2. CASE FailOnEvent
    <3>1. PICK e \in [health : HealthState, desynced : BOOLEAN], numbered \in BOOLEAN :
            Publish(e, revision + (IF numbered THEN 2 ELSE 1))
      BY <2>0, <2>2 DEF FailOnEvent, HealthState
    <3>2. revision + (IF numbered THEN 2 ELSE 1) \in Nat
      OBVIOUS
    <3>3. /\ UNCHANGED <<closed, bundle, open, spare, trigger, broadcasterClosed, calls>>
          /\ events < MaxEvents /\ events' = events + 1
          /\ loop' = [loop EXCEPT !.status = "failed"]
      BY <2>2 DEF FailOnEvent, EventArrives
    <3> QED
      BY <3>1, <3>2, <3>3, PublishType DEF LoopStatus
  <2>3. CASE DesyncOnEvent
    <3>1. Publish(MarkedStale(engine), revision + 1)
      BY <2>3 DEF DesyncOnEvent
    <3>2. /\ UNCHANGED <<closed, bundle, open, spare, broadcasterClosed, calls>>
          /\ events < MaxEvents /\ events' = events + 1
          /\ loop' \in {loop, [loop EXCEPT !.status = "failed"]}
          /\ trigger' \in BOOLEAN
      BY <2>3 DEF DesyncOnEvent, EventArrives, RequestResync
    <3> QED
      BY <2>0, <3>1, <3>2, PublishType DEF LoopStatus
  <2>4. CASE StreamStops
    BY <2>4 DEF StreamStops, LoopStatus
  <2> QED
    BY <1>6, <2>1, <2>2, <2>3, <2>4 DEF MutationLoop
<1>7. CASE CoordinatorStep
  BY <1>7 DEF CoordinatorStep, CoordinatorWakes, CoordinatorCancelled
<1>8. CASE Rest \/ UNCHANGED vars
  BY <1>8 DEF Rest, vars
<1> QED
  BY <1>1, <1>2, <1>3, <1>4, <1>5, <1>6, <1>7, <1>8 DEF Next

(* The initial types. *)
LEMMA TypeInit == Init => TypeOK /\ AttemptsLeft
<1> SUFFICES ASSUME Init PROVE TypeOK /\ AttemptsLeft
  OBVIOUS
<1> USE TasksAssumption, BundlesAssumption, ConfigAssumption, BoundsAssumption
<1>1. ControlTypeOK /\ AttemptsLeft
  BY DEF Init, ControlTypeOK, AttemptsLeft, Tasks, CallerPc, CoordinatorPc,
         RefreshPc, Results
<1>2. engine \in [health : HealthState, desynced : BOOLEAN]
  BY DEF Init, HealthState
<1>3. snapshot \in [revision : Nat, health : HealthState, desynced : BOOLEAN]
  BY <1>2 DEF Init, Freeze
<1>4. loop \in [status : LoopStatus, bundle : Bundles \cup {NoBundle}]
  BY DEF Init, NoLoop, LoopStatus
<1>5. DataTypeOK
  <2>1. /\ closed = FALSE /\ bundle = NoBundle /\ revision = 0 /\ open = {}
        /\ spare = NoBundle /\ trigger = FALSE /\ broadcasterClosed = FALSE
        /\ calls = 0 /\ events = 0
    BY DEF Init
  <2>2. calls \in 0 .. MaxCalls /\ events \in 0 .. MaxEvents
    BY <2>1
  <2>3. closed \in BOOLEAN /\ trigger \in BOOLEAN /\ broadcasterClosed \in BOOLEAN
    BY <2>1
  <2>4. open \subseteq Bundles /\ revision \in Nat
    BY <2>1
  <2> QED
    BY <1>2, <1>3, <1>4, <2>1, <2>2, <2>3, <2>4, Zenon DEF DataTypeOK
<1> QED
  BY <1>1, <1>5 DEF TypeOK

(* Types and the bound on the attempts are inductive together. *)
LEMMA TypeStep == TypeOK /\ AttemptsLeft /\ [Next]_vars => (TypeOK /\ AttemptsLeft)'
BY ControlTypeStep, DataTypeStep DEF TypeOK

\* The replica's variables keep their types, and the coordinator never makes more
\* attempts than the configuration allows.
THEOREM TypeCorrect == Spec => [](TypeOK /\ AttemptsLeft)
BY TypeInit, TypeStep, PTL DEF Spec

-------------------------------------------------------------------------------
(* The lock *)

\* The lock stays with the task inside a call however the call goes on or ends.
LEMMA LockSuspends ==
    ASSUME ControlTypeOK, MutualExclusion, NEW p \in Tasks, NEW s \in CriticalPc,
           lock \in {Nobody, p}, Suspends(p, s)
    PROVE  MutualExclusion'
BY TasksAssumption DEF ControlTypeOK, MutualExclusion, Suspends

(* A caller that returns releases the lock. *)
LEMMA LockLeaves ==
    ASSUME ControlTypeOK, MutualExclusion, NEW p \in Callers, NEW res,
           lock \in {Nobody, p}, Leaves(p, res)
    PROVE  MutualExclusion'
BY TasksAssumption DEF ControlTypeOK, MutualExclusion, Leaves, Tasks, CriticalPc

(* A task that raises releases the lock. *)
LEMMA LockRaises ==
    ASSUME ControlTypeOK, MutualExclusion, NEW p \in Tasks,
           lock \in {Nobody, p}, Raises(p)
    PROVE  MutualExclusion'
<1>1. CASE p = Coordinator
  BY <1>1, TasksAssumption
  DEF Raises, AttemptEnds, ControlTypeOK, MutualExclusion, Tasks, CriticalPc
<1>2. CASE p # Coordinator
  BY <1>2, LockLeaves DEF Raises, Tasks
<1> QED
  BY <1>1, <1>2

\* close() gives the lock up, or keeps it and cancels a coordinator that is outside.
LEMMA LockCloseRest ==
    ASSUME ControlTypeOK, MutualExclusion, NEW p \in Callers, NEW res,
           lock = p, CloseRest(p, res)
    PROVE  MutualExclusion'
BY TasksAssumption
DEF CloseRest, CancelCoordinator, ControlTypeOK, MutualExclusion, Tasks, CriticalPc

(* Every step keeps the lock with the one task that is inside a call. *)
LEMMA LockStep ==
    ASSUME ControlTypeOK, MutualExclusion, [Next]_vars
    PROVE  MutualExclusion'
<1> USE TasksAssumption
<1> USE DEF Tasks
<1>0. ASSUME NEW p \in Tasks, pc[p] \in CriticalPc
      PROVE  lock = p
  BY <1>0 DEF MutualExclusion
<1>1. ASSUME NEW p \in Callers, Call(p)
      PROVE  MutualExclusion'
  BY <1>1 DEF Call, ControlTypeOK, MutualExclusion, WaitingPc, CriticalPc
<1>2. ASSUME NEW p \in Callers, Connect(p)
      PROVE  MutualExclusion'
  <2>1. CASE ConnectBegins(p)
    BY <2>1, LockSuspends DEF ConnectBegins, Acquires, CriticalPc
  <2>2. CASE ConnectSucceeds(p)
    <3>1. lock = p
      BY <1>0, <2>2 DEF ConnectSucceeds, CriticalPc
    <3> QED
      BY <2>2, <3>1 DEF ConnectSucceeds, ControlTypeOK, MutualExclusion, CriticalPc
  <2> QED
    BY <1>2, <2>1, <2>2 DEF Connect
<1>3. ASSUME NEW p \in Callers, Close(p)
      PROVE  MutualExclusion'
  <2>1. CASE CloseAtOnce(p)
    BY <2>1, LockLeaves DEF CloseAtOnce, Acquires
  <2>2. CASE CloseBegins(p)
    BY <2>2, LockSuspends, LockRaises DEF CloseBegins, Acquires, CriticalPc
  <2>3. CASE CloseAnnounces(p)
    <3>1. lock \in {Nobody, p}
      BY <1>0, <2>3 DEF CloseAnnounces, Acquires, CriticalPc
    <3> QED
      BY <2>3, <3>1, LockSuspends, LockRaises DEF CloseAnnounces, CriticalPc
  <2>4. CASE CloseBundleClosed(p)
    BY <1>0, <2>4, LockCloseRest DEF CloseBundleClosed, CriticalPc
  <2>5. CASE CloseEnds(p)
    BY <1>0, <2>5, LockLeaves DEF CloseEnds, CriticalPc
  <2> QED
    BY <1>3, <2>1, <2>2, <2>3, <2>4, <2>5 DEF Close
<1>4. ASSUME NEW p \in Callers, UserCancels(p)
      PROVE  MutualExclusion'
  <2>1. CASE CancelWaiting(p)
    BY <2>1 DEF CancelWaiting, ControlTypeOK, MutualExclusion, WaitingPc, CriticalPc
  <2>2. CASE CancelInside(p)
    BY <1>0, <2>2, LockLeaves DEF CancelInside, CriticalPc
  <2>3. CASE CancelClose(p)
    BY <1>0, <2>3, LockCloseRest DEF CancelClose, CriticalPc
  <2> QED
    BY <1>4, <2>1, <2>2, <2>3 DEF UserCancels
<1>5. ASSUME NEW p \in Tasks, Refresh(p)
      PROVE  MutualExclusion'
  <2>1. CASE Refused(p)
    BY <2>1, LockRaises DEF Refused, Acquires
  <2>2. CASE OpenSucceeds(p)
    BY <1>0, <2>2, LockSuspends DEF OpenSucceeds, CriticalPc
  <2>3. CASE OpenFails(p)
    BY <1>0, <2>3, LockRaises DEF OpenFails, CriticalPc
  <2>4. CASE BootstrapFails(p)
    BY <1>0, <2>4, LockSuspends DEF BootstrapFails, CriticalPc
  <2>5. CASE Undone(p)
    BY <1>0, <2>5, LockRaises DEF Undone, CriticalPc
  <2>6. CASE RefreshBegins(p)
    BY <2>6, LockSuspends DEF RefreshBegins, Acquires, CriticalPc
  <2>7. CASE RefreshLoopStopped(p)
    BY <1>0, <2>7, LockSuspends DEF RefreshLoopStopped, CriticalPc
  <2>8. CASE RefreshInstalls(p)
    BY <1>0, <2>8, LockSuspends, LockRaises DEF RefreshInstalls, CriticalPc
  <2>9. CASE RefreshRetires(p)
    <3>1. lock = p
      BY <1>0, <2>9 DEF RefreshRetires, CriticalPc
    <3>2. CASE p = Coordinator
      BY <2>9, <3>1, <3>2 DEF RefreshRetires, AttemptEnds, ControlTypeOK,
                              MutualExclusion, CriticalPc
    <3>3. CASE p # Coordinator
      BY <2>9, <3>1, <3>3, LockLeaves DEF RefreshRetires
    <3> QED
      BY <3>2, <3>3
  <2> QED
    BY <1>5, <2>1, <2>2, <2>3, <2>4, <2>5, <2>6, <2>7, <2>8, <2>9 DEF Refresh
<1>6. CASE MutationLoop
  BY <1>6 DEF MutationLoop, ApplyEvent, FailOnEvent, DesyncOnEvent, StreamStops,
              EventArrives, control, MutualExclusion
<1>7. CASE CoordinatorStep
  BY <1>7 DEF CoordinatorStep, CoordinatorWakes, CoordinatorCancelled,
              ControlTypeOK, MutualExclusion, CriticalPc
<1>8. CASE Rest \/ UNCHANGED vars
  BY <1>8 DEF Rest, vars, control, MutualExclusion
<1> QED
  BY <1>1, <1>2, <1>3, <1>4, <1>5, <1>6, <1>7, <1>8 DEF Next

(* At first the lock is free and nobody is inside. *)
LEMMA LockInit == Init => MutualExclusion
BY TasksAssumption DEF Init, MutualExclusion, Tasks, CriticalPc

\* Only the holder of the lock is inside a call: what a call does between two of
\* its awaits is never seen half done by another call.
THEOREM CallsExclude == Spec => []MutualExclusion
<1>1. TypeOK /\ AttemptsLeft /\ MutualExclusion /\ [Next]_vars => MutualExclusion'
  BY LockStep DEF TypeOK
<1> QED
  BY <1>1, LockInit, TypeCorrect, PTL DEF Spec

\* Only close() cancels the coordinator, with the lock in its own hands.
LEMMA OnlyCloseCancels ==
    ASSUME ControlTypeOK, MutualExclusion, Next,
           pc'[Coordinator] = "cancelling", pc[Coordinator] # "cancelling"
    PROVE  lock \in Callers /\ CoordinatorRuns
<1> USE TasksAssumption
<1> USE DEF Tasks, ControlTypeOK
<1>1. ASSUME NEW p \in Callers, NEW res, pc[p] = "close_bundle", CloseRest(p, res)
      PROVE  lock \in Callers /\ CoordinatorRuns
  BY <1>1 DEF CloseRest, MutualExclusion, CriticalPc
<1>2. ASSUME NEW p \in Callers, Call(p) \/ Connect(p)
      PROVE  FALSE
  BY <1>2 DEF Call, Connect, ConnectBegins, ConnectSucceeds, Suspends
<1>3. ASSUME NEW p \in Callers, Close(p)
      PROVE  CloseBundleClosed(p)
  BY <1>3 DEF Close, CloseAtOnce, CloseBegins, CloseAnnounces, CloseEnds,
              Suspends, Leaves, Raises
<1>4. ASSUME NEW p \in Callers, UserCancels(p)
      PROVE  CancelClose(p)
  BY <1>4 DEF UserCancels, CancelWaiting, CancelInside, Leaves
<1>5. ASSUME NEW p \in Tasks, Refresh(p)
      PROVE  FALSE
  <2>1. \/ \E s \in CriticalPc : Suspends(p, s)
        \/ Raises(p)
        \/ p = Coordinator /\ AttemptEnds(TRUE)
        \/ p # Coordinator /\ Leaves(p, "refreshed")
    BY <1>5 DEF Refresh, Refused, OpenSucceeds, OpenFails, BootstrapFails, Undone,
                RefreshBegins, RefreshLoopStopped, RefreshInstalls, RefreshRetires,
                CriticalPc
  <2> QED
    BY <2>1 DEF Suspends, Raises, AttemptEnds, Leaves, CriticalPc
<1>6. ~MutationLoop
  BY DEF MutationLoop, ApplyEvent, FailOnEvent, DesyncOnEvent, StreamStops,
         EventArrives, control
<1>7. ~CoordinatorStep /\ ~Rest
  BY DEF CoordinatorStep, CoordinatorWakes, CoordinatorCancelled, Rest, vars, control
<1> QED
  BY <1>1, <1>2, <1>3, <1>4, <1>5, <1>6, <1>7 DEF Next, CloseBundleClosed, CancelClose

\* The coordinator is cancelled only where it holds no lock and has no connection
\* in hand.
THEOREM CancelledOutside == Spec => CoordinatorNotCancelledInside
<1>1. ASSUME TypeOK, MutualExclusion, Next,
             pc'[Coordinator] = "cancelling", pc[Coordinator] # "cancelling"
      PROVE  pc[Coordinator] \in {"awaiting_trigger", "sleeping", "refresh_lock"}
  <2>1. pc[Coordinator] \notin CriticalPc
    BY <1>1, OnlyCloseCancels, TasksAssumption DEF TypeOK, MutualExclusion, Tasks
  <2> QED
    BY <1>1, <2>1, OnlyCloseCancels
    DEF TypeOK, ControlTypeOK, CoordinatorPc, RefreshPc, CriticalPc, CoordinatorRuns
<1>2. TypeOK /\ AttemptsLeft /\ MutualExclusion /\ [Next]_vars
        => [pc'[Coordinator] = "cancelling" /\ pc[Coordinator] # "cancelling"
            => pc[Coordinator] \in {"awaiting_trigger", "sleeping", "refresh_lock"}]_vars
  BY <1>1
<1> QED
  BY <1>2, TypeCorrect, CallsExclude, PTL DEF Spec, CoordinatorNotCancelledInside

-------------------------------------------------------------------------------
(* Connections, health and loop *)

\* A refresh makes RESYNCING of the engine of a replica that works.
LEMMA ResyncingHealth ==
    ASSUME engine \in [health : HealthState, desynced : BOOLEAN],
           engine.health \notin {"bootstrapping", "failed", "closed"}
    PROVE  /\ Resyncing(engine).health = "resyncing"
           /\ Resyncing(engine).desynced = engine.desynced
BY DEF Resyncing, HealthState

\* What is installed, and what the loop reads.
DataInv == ConnectionsApart /\ HealthTellsStage /\ LoopReadsInstalledConnection

(* Every step keeps what relates health, snapshot, connection and loop. *)
LEMMA DataInvStep ==
    ASSUME IInv, [Next]_vars
    PROVE  DataInv'
<1> USE TasksAssumption, BundlesAssumption
<1> USE DEF Tasks, replica, DataInv, ConnectionsApart, HealthTellsStage,
            LoopReadsInstalledConnection, NoLoop, RunningLoop
<1>0. DataTypeOK /\ DataInv /\ \A p \in Tasks : Ground(pc[p])
  BY DEF IInv, TypeOK, CallsKeepTheirGround
<1>1. CASE \E p \in Callers : Call(p)
  BY <1>0, <1>1 DEF Call
<1>2. ASSUME NEW p \in Callers, Connect(p)
      PROVE  DataInv'
  <2>1. CASE ConnectBegins(p)
    BY <1>0, <2>1 DEF ConnectBegins
  <2>2. CASE ConnectSucceeds(p)
    <3>1. ~closed /\ spare \in open /\ spare # NoBundle
      BY <1>0, <2>2 DEF ConnectSucceeds, Ground, DataTypeOK
    <3>2. engine'.health \in {"live", "stale"}
      BY <2>2, BootstrapEnginesType DEF ConnectSucceeds, Publish
    <3> QED
      BY <2>2, <3>1, <3>2 DEF ConnectSucceeds
  <2> QED
    BY <1>2, <2>1, <2>2 DEF Connect
<1>3. ASSUME NEW p \in Callers, Close(p)
      PROVE  DataInv'
  <2>1. CASE CloseAtOnce(p)
    BY <1>0, <2>1 DEF CloseAtOnce, DataTypeOK
  <2>2. CASE CloseBegins(p)
    BY <1>0, <2>2 DEF CloseBegins, CancelLoop, LoopHasFailed, DataTypeOK, LoopStatus
  <2>3. CASE CloseAnnounces(p)
    <3>1. bundle # NoBundle /\ loop' = NoLoop /\ closed' /\ UNCHANGED <<bundle, open, spare>>
      BY <1>0, <2>3 DEF CloseAnnounces, Ground
    <3>2. engine.health # "failed"
      BY <1>0, <2>3 DEF CloseAnnounces, Acquires, LoopIsOver, Ground
    <3>3. \/ UNCHANGED engine
          \/ engine' = [engine EXCEPT !.health = "closed"]
      BY <2>3 DEF CloseAnnounces, Publish
    <3>4. engine'.health \in {engine.health, "closed"}
      BY <1>0, <3>3 DEF DataTypeOK
    <3> QED
      BY <1>0, <3>1, <3>2, <3>4
  <2>4. CASE CloseBundleClosed(p)
    BY <1>0, <2>4 DEF CloseBundleClosed, CloseRest, Ground
  <2>5. CASE CloseEnds(p)
    BY <1>0, <2>5 DEF CloseEnds
  <2> QED
    BY <1>3, <2>1, <2>2, <2>3, <2>4, <2>5 DEF Close
<1>4. ASSUME NEW p \in Callers, UserCancels(p)
      PROVE  DataInv'
  <2>1. CASE CancelWaiting(p)
    BY <1>0, <2>1 DEF CancelWaiting
  <2>2. CASE CancelInside(p)
    BY <1>0, <2>2 DEF CancelInside, BadClose, DataTypeOK
  <2>3. CASE CancelClose(p)
    BY <1>0, <2>3 DEF CancelClose, CloseRest, Ground
  <2> QED
    BY <1>4, <2>1, <2>2, <2>3 DEF UserCancels
<1>5. ASSUME NEW p \in Tasks, Refresh(p)
      PROVE  DataInv'
  <2>1. CASE Refused(p)
    BY <1>0, <2>1 DEF Refused
  <2>2. CASE OpenSucceeds(p)
    BY <1>0, <2>2 DEF OpenSucceeds, Ground, DataTypeOK, RefreshPc, CriticalPc
  <2>3. CASE OpenFails(p)
    BY <1>0, <2>3 DEF OpenFails, Ground, RestoreLoop, RefreshPc, CriticalPc
  <2>4. CASE BootstrapFails(p)
    BY <1>0, <2>4 DEF BootstrapFails
  <2>5. CASE Undone(p)
    BY <1>0, <2>5 DEF Undone, CloseSpare, BadClose, RestoreLoop, Ground, DataTypeOK,
                      RefreshPc, CriticalPc
  <2>6. CASE RefreshBegins(p)
    <3>1. /\ bundle # NoBundle /\ ~closed
          /\ UNCHANGED <<closed, bundle, revision, open, spare>>
          /\ \/ CancelLoop /\ UNCHANGED engine
             \/ LoopIsOver /\ loop' = NoLoop /\ engine' = Resyncing(engine)
      BY <2>6 DEF RefreshBegins
    <3>2. CASE CancelLoop /\ UNCHANGED engine
      BY <1>0, <3>1, <3>2 DEF CancelLoop, DataTypeOK
    <3>3. CASE LoopIsOver /\ loop' = NoLoop /\ engine' = Resyncing(engine)
      <4>1. engine.health \notin {"bootstrapping", "failed", "closed"}
        BY <1>0, <3>1, <3>3 DEF LoopIsOver
      <4> QED
        BY <1>0, <3>1, <3>3, <4>1, ResyncingHealth DEF DataTypeOK
    <3> QED
      BY <3>1, <3>2, <3>3
  <2>7. CASE RefreshLoopStopped(p)
    BY <1>0, <2>7 DEF RefreshLoopStopped, Resyncing, Ground
  <2>8. CASE RefreshInstalls(p)
    <3>1. /\ ~closed /\ bundle # NoBundle /\ loop = NoLoop
          /\ spare \in open /\ spare # NoBundle /\ spare # bundle
      BY <1>0, <2>8 DEF RefreshInstalls, Ground, DataTypeOK, RefreshPc, CriticalPc
    <3>2. engine'.health \in {"live", "stale"}
      BY <2>8, BootstrapEnginesType DEF RefreshInstalls, Publish
    <3>3. /\ UNCHANGED <<closed, open>>
          /\ bundle' = spare
          /\ \/ spare' = NoBundle /\ UNCHANGED loop
             \/ spare' = bundle /\ loop' = RunningLoop(spare)
      BY <2>8 DEF RefreshInstalls
    <3> QED
      BY <3>1, <3>2, <3>3
  <2>9. CASE RefreshRetires(p)
    BY <1>0, <2>9 DEF RefreshRetires, CloseSpare, BadClose, DataTypeOK
  <2> QED
    BY <1>5, <2>1, <2>2, <2>3, <2>4, <2>5, <2>6, <2>7, <2>8, <2>9 DEF Refresh
<1>6. CASE MutationLoop
  <2>1. /\ loop.status = "running"
        /\ UNCHANGED <<closed, bundle, open, spare>>
    BY <1>6 DEF MutationLoop, ApplyEvent, FailOnEvent, DesyncOnEvent, StreamStops,
                EventArrives
  <2>2. bundle # NoBundle /\ engine.health \notin {"bootstrapping", "failed", "closed"}
    BY <1>0, <2>1
  <2>3. /\ \/ UNCHANGED loop
           \/ \E s \in {"ended", "failed"} : loop' = [loop EXCEPT !.status = s]
        /\ \/ engine'.health \in {engine.health, "stale"}
           \/ engine'.health = "failed" /\ loop' = [loop EXCEPT !.status = "failed"]
    <3>1. \A e \in ReducedEngines :
            /\ e.health \in {engine.health, "stale"}
            /\ [e EXCEPT !.health = "stale"].health = "stale"
            /\ [e EXCEPT !.health = "failed"].health = "failed"
      BY <1>0, ReducedEnginesType DEF DataTypeOK
    <3>2. MarkedStale(engine).health = "stale"
      BY <1>0 DEF MarkedStale, DataTypeOK
    <3>3. CASE ApplyEvent
      <4>1. /\ UNCHANGED loop
            /\ \/ UNCHANGED engine
               \/ engine' \in ReducedEngines
               \/ \E e \in ReducedEngines : engine' = [e EXCEPT !.health = "stale"]
        BY <3>3 DEF ApplyEvent, Publish
      <4>2. engine'.health \in {engine.health, "stale"}
        BY <3>1, <4>1
      <4> QED
        BY <4>1, <4>2
    <3>4. CASE FailOnEvent
      BY <3>1, <3>4 DEF FailOnEvent, Publish
    <3>5. CASE DesyncOnEvent
      BY <3>2, <3>5 DEF DesyncOnEvent, Publish
    <3>6. CASE StreamStops
      BY <3>6 DEF StreamStops
    <3> QED
      BY <1>6, <3>3, <3>4, <3>5, <3>6 DEF MutationLoop
  <2> QED
    BY <1>0, <2>1, <2>2, <2>3 DEF DataTypeOK
<1>7. CASE CoordinatorStep
  BY <1>0, <1>7 DEF CoordinatorStep, CoordinatorWakes, CoordinatorCancelled
<1>8. CASE Rest \/ UNCHANGED vars
  BY <1>0, <1>8 DEF Rest, vars
<1> QED
  BY <1>1, <1>2, <1>3, <1>4, <1>5, <1>6, <1>7, <1>8 DEF Next

\* Outside a call there is nothing to rely on.
LEMMA OnlyHolderRelies ==
    ASSUME MutualExclusion', lock' # Nobody => Ground(pc[lock])'
    PROVE  CallsKeepTheirGround'
<1>1. ASSUME NEW p \in Tasks, pc'[p] \in CriticalPc
      PROVE  Ground(pc[p])'
  BY <1>1, TasksAssumption DEF MutualExclusion
<1>2. ASSUME NEW p \in Tasks, pc'[p] \notin CriticalPc
      PROVE  Ground(pc[p])'
  BY <1>2 DEF Ground, CriticalPc, RefreshPc
<1> QED
  BY <1>1, <1>2 DEF CallsKeepTheirGround

\* A call that goes on needs its new ground, one that ends needs none.
LEMMA GroundSuspends ==
    ASSUME ControlTypeOK, MutualExclusion', NEW p \in Tasks, NEW s,
           Suspends(p, s), Ground(s)'
    PROVE  CallsKeepTheirGround'
<1>1. lock' = p /\ pc'[lock'] = s
  BY DEF Suspends, ControlTypeOK
<1>2. Ground(pc[lock])'
  BY <1>1 DEF Ground
<1> QED
  BY <1>2, OnlyHolderRelies

(* A step that releases the lock leaves nobody whose ground could be lost. *)
LEMMA GroundLeaves ==
    ASSUME MutualExclusion', lock' = Nobody
    PROVE  CallsKeepTheirGround'
BY OnlyHolderRelies

\* What others do outside the lock does not disturb the ground of its holder.
LEMMA GroundStays ==
    ASSUME ControlTypeOK, CallsKeepTheirGround, MutualExclusion',
           lock # Nobody => pc'[lock] = pc[lock],
           UNCHANGED <<lock, closed, bundle, open, spare>>,
           UNCHANGED <<engine, loop>> \/ loop.status = "running"
    PROVE  CallsKeepTheirGround'
<1>1. ASSUME lock # Nobody
      PROVE  Ground(pc[lock])'
  <2>1. lock \in Tasks /\ Ground(pc[lock])
    BY <1>1 DEF CallsKeepTheirGround, ControlTypeOK
  <2> QED
    BY <1>1, <2>1 DEF Ground, NoLoop
<1> QED
  BY <1>1, OnlyHolderRelies

\* close() has not lost its ground when its finally blocks run.
LEMMA GroundCloseRest ==
    ASSUME ControlTypeOK, MutualExclusion', NEW p \in Callers, NEW res,
           Ground(pc[p]), pc[p] = "close_bundle", CloseRest(p, res),
           lock = p
    PROVE  CallsKeepTheirGround'
<1> USE TasksAssumption DEF Tasks, replica
<1>1. CASE CoordinatorRuns
  <2>1. lock' = p /\ pc'[p] = "close_coordinator" /\ closed /\ bundle # NoBundle
    BY <1>1 DEF CloseRest, CancelCoordinator, Ground, ControlTypeOK
  <2>2. Ground(pc[lock])'
    BY <2>1 DEF CloseRest, Ground, RefreshPc
  <2> QED
    BY <2>2, OnlyHolderRelies
<1>2. CASE ~CoordinatorRuns
  BY <1>2, GroundLeaves DEF CloseRest
<1> QED
  BY <1>1, <1>2

(* Every step keeps what the task inside a call relies on. *)
LEMMA GroundStep ==
    ASSUME IInv, [Next]_vars, MutualExclusion'
    PROVE  CallsKeepTheirGround'
<1> USE TasksAssumption, BundlesAssumption
<1> USE DEF Tasks, replica
<1>0. /\ ControlTypeOK /\ DataTypeOK /\ MutualExclusion /\ CallsKeepTheirGround
      /\ \A p \in Tasks : Ground(pc[p])
      /\ \A p \in Tasks : pc[p] \in CriticalPc <=> lock = p
      /\ "close_bundle" \in CriticalPc
  BY DEF IInv, TypeOK, CallsKeepTheirGround, MutualExclusion, CriticalPc
<1>r. ASSUME NEW p \in Tasks, Raises(p)
      PROVE  CallsKeepTheirGround'
  BY <1>r, GroundLeaves DEF Raises, AttemptEnds, Leaves
<1>1. ASSUME NEW p \in Callers, Call(p)
      PROVE  CallsKeepTheirGround'
  <2>1. lock # Nobody => pc'[lock] = pc[lock]
    BY <1>0, <1>1 DEF Call, ControlTypeOK, CriticalPc
  <2> QED
    BY <1>0, <1>1, <2>1, GroundStays DEF Call
<1>2. ASSUME NEW p \in Callers, Connect(p)
      PROVE  CallsKeepTheirGround'
  <2>1. CASE ConnectBegins(p)
    <3>1. Ground("connect_open")'
      BY <2>1 DEF ConnectBegins, Ground, RefreshPc
    <3> QED
      BY <1>0, <2>1, <3>1, GroundSuspends DEF ConnectBegins
  <2>2. CASE ConnectSucceeds(p)
    BY <2>2, GroundLeaves DEF ConnectSucceeds
  <2> QED
    BY <1>2, <2>1, <2>2 DEF Connect
<1>3. ASSUME NEW p \in Callers, Close(p)
      PROVE  CallsKeepTheirGround'
  <2>1. CASE CloseAtOnce(p)
    BY <2>1, GroundLeaves DEF CloseAtOnce, Leaves
  <2>2. CASE CloseBegins(p)
    <3>1. CASE CancelLoop /\ Suspends(p, "close_stop")
      <4>1. Ground("close_stop")'
        BY <1>0, <2>2, <3>1 DEF CloseBegins, CancelLoop, DataTypeOK, Ground, RefreshPc
      <4> QED
        BY <1>0, <3>1, <4>1, GroundSuspends
    <3> QED
      BY <1>r, <2>2, <3>1 DEF CloseBegins
  <2>3. CASE CloseAnnounces(p)
    <3>1. Ground("close_bundle")'
      BY <1>0, <2>3 DEF CloseAnnounces, Ground, RefreshPc
    <3> QED
      BY <1>0, <1>r, <2>3, <3>1, GroundSuspends DEF CloseAnnounces
  <2>4. CASE CloseBundleClosed(p)
    BY <1>0, <2>4, GroundCloseRest DEF CloseBundleClosed
  <2>5. CASE CloseEnds(p)
    BY <2>5, GroundLeaves DEF CloseEnds, Leaves
  <2> QED
    BY <1>3, <2>1, <2>2, <2>3, <2>4, <2>5 DEF Close
<1>4. ASSUME NEW p \in Callers, UserCancels(p)
      PROVE  CallsKeepTheirGround'
  <2>1. CASE CancelWaiting(p)
    <3>1. lock # Nobody => pc'[lock] = pc[lock]
      BY <1>0, <2>1 DEF CancelWaiting, ControlTypeOK, WaitingPc, CriticalPc
    <3> QED
      BY <1>0, <2>1, <3>1, GroundStays DEF CancelWaiting
  <2>2. CASE CancelInside(p)
    BY <2>2, GroundLeaves DEF CancelInside, Leaves
  <2>3. CASE CancelClose(p)
    BY <1>0, <2>3, GroundCloseRest DEF CancelClose
  <2> QED
    BY <1>4, <2>1, <2>2, <2>3 DEF UserCancels
<1>5. ASSUME NEW p \in Tasks, Refresh(p)
      PROVE  CallsKeepTheirGround'
  <2>1. CASE Refused(p)
    BY <1>r, <2>1 DEF Refused
  <2>2. CASE OpenSucceeds(p)
    <3>1. pc[p] = "connect_open" => Ground("connect_boot")'
      BY <1>0, <2>2 DEF OpenSucceeds, Ground, RefreshPc
    <3>2. pc[p] = "refresh_open" => Ground("refresh_boot")'
      BY <1>0, <2>2 DEF OpenSucceeds, Ground, RefreshPc, CriticalPc
    <3> QED
      BY <1>0, <2>2, <3>1, <3>2, GroundSuspends DEF OpenSucceeds
  <2>3. CASE OpenFails(p)
    BY <1>r, <2>3 DEF OpenFails
  <2>4. CASE BootstrapFails(p)
    <3>1. pc[p] = "connect_boot" => Ground("connect_undo")'
      BY <1>0, <2>4 DEF BootstrapFails, Ground, RefreshPc
    <3>2. pc[p] = "refresh_boot" => Ground("refresh_undo")'
      BY <1>0, <2>4 DEF BootstrapFails, Ground, RefreshPc, CriticalPc
    <3> QED
      BY <1>0, <2>4, <3>1, <3>2, GroundSuspends DEF BootstrapFails
  <2>5. CASE Undone(p)
    BY <1>r, <2>5 DEF Undone
  <2>6. CASE RefreshBegins(p)
    <3>1. CASE CancelLoop /\ Suspends(p, "refresh_stop")
      <4>1. Ground("refresh_stop")'
        BY <1>0, <2>6, <3>1 DEF RefreshBegins, CancelLoop, DataTypeOK, Ground
      <4> QED
        BY <1>0, <3>1, <4>1, GroundSuspends
    <3>2. CASE LoopIsOver /\ Suspends(p, "refresh_open")
      <4>1. loop' = NoLoop /\ engine' = Resyncing(engine)
        BY <2>6, <3>2 DEF RefreshBegins, LoopIsOver, CancelLoop
      <4>2. engine.health \notin {"bootstrapping", "failed", "closed"}
        BY <2>6, <3>2 DEF IInv, HealthTellsStage, RefreshBegins, LoopIsOver
      <4>3. Ground("refresh_open")'
        BY <1>0, <2>6, <4>1, <4>2, ResyncingHealth DEF RefreshBegins, DataTypeOK, Ground
      <4> QED
        BY <1>0, <3>2, <4>3, GroundSuspends
    <3> QED
      BY <2>6, <3>1, <3>2 DEF RefreshBegins
  <2>7. CASE RefreshLoopStopped(p)
    <3>1. ~closed /\ bundle # NoBundle /\ loop.status = "cancelling"
      BY <1>0, <2>7 DEF RefreshLoopStopped, Ground, RefreshPc, CriticalPc
    <3>2. engine.health \notin {"bootstrapping", "failed", "closed"}
      BY <3>1 DEF IInv, HealthTellsStage, NoLoop
    <3>3. Ground("refresh_open")'
      BY <1>0, <2>7, <3>1, <3>2, ResyncingHealth DEF RefreshLoopStopped, DataTypeOK, Ground
    <3> QED
      BY <1>0, <2>7, <3>3, GroundSuspends DEF RefreshLoopStopped
  <2>8. CASE RefreshInstalls(p)
    <3>1. Ground("refresh_retire")'
      BY <1>0, <2>8 DEF RefreshInstalls, Ground, DataTypeOK, RefreshPc, CriticalPc
    <3> QED
      BY <1>0, <1>r, <2>8, <3>1, GroundSuspends DEF RefreshInstalls
  <2>9. CASE RefreshRetires(p)
    BY <2>9, GroundLeaves DEF RefreshRetires, Leaves, AttemptEnds
  <2> QED
    BY <1>5, <2>1, <2>2, <2>3, <2>4, <2>5, <2>6, <2>7, <2>8, <2>9 DEF Refresh
<1>6. CASE MutationLoop
  BY <1>0, <1>6, GroundStays
  DEF MutationLoop, ApplyEvent, FailOnEvent, DesyncOnEvent, StreamStops,
      EventArrives, control
<1>7. CASE CoordinatorStep
  <2>1. lock # Nobody => pc'[lock] = pc[lock]
    BY <1>0, <1>7 DEF CoordinatorStep, CoordinatorWakes, CoordinatorCancelled,
                      ControlTypeOK, CriticalPc
  <2> QED
    BY <1>0, <1>7, <2>1, GroundStays
    DEF CoordinatorStep, CoordinatorWakes, CoordinatorCancelled
<1>8. CASE Rest \/ UNCHANGED vars
  BY <1>0, <1>8, GroundStays DEF Rest, vars, control
<1> QED
  BY <1>1, <1>2, <1>3, <1>4, <1>5, <1>6, <1>7, <1>8 DEF Next

-------------------------------------------------------------------------------
(* Theorems *)

(* IInv is inductive. *)
LEMMA Inductive == IInv /\ [Next]_vars => IInv'
<1> SUFFICES ASSUME IInv, [Next]_vars
             PROVE  IInv'
  OBVIOUS
<1>1. (TypeOK /\ AttemptsLeft)'
  BY TypeStep DEF IInv
<1>2. MutualExclusion'
  BY LockStep DEF IInv, TypeOK
<1>3. CallsKeepTheirGround'
  BY <1>2, GroundStep
<1>4. DataInv'
  BY DataInvStep
<1> QED
  BY <1>1, <1>2, <1>3, <1>4 DEF IInv, DataInv

(* IInv holds at first. *)
LEMMA Initial == Init => IInv
<1> SUFFICES ASSUME Init
             PROVE  IInv
  OBVIOUS
<1>1. TypeOK /\ AttemptsLeft /\ MutualExclusion
  BY TypeInit, LockInit
<1>2. lock = Nobody
  BY DEF Init
<1>3. CallsKeepTheirGround
  <2>1. ASSUME NEW p \in Tasks
        PROVE  pc[p] \notin CriticalPc
    BY <1>1, <1>2, TasksAssumption DEF MutualExclusion
  <2> QED
    BY <2>1 DEF CallsKeepTheirGround, Ground, CriticalPc, RefreshPc
<1>4. DataInv
  BY DEF Init, DataInv, ConnectionsApart, HealthTellsStage,
         LoopReadsInstalledConnection, NoLoop
<1> QED
  BY <1>1, <1>3, <1>4 DEF IInv, DataInv

\* The engine and the snapshot change together, in one of four ways, or a refresh
\* makes the engine RESYNCING.
EngineStep ==
    \/ UNCHANGED <<engine, snapshot, revision>>
    \/ /\ engine.health \notin {"bootstrapping", "failed", "closed"}
       /\ engine' = Resyncing(engine)
       /\ UNCHANGED <<snapshot, revision>>
    \/ /\ engine.health = "bootstrapping" /\ revision = 0
       /\ bundle' # bundle /\ bundle' \in open'
       /\ \E e \in BootstrapEngines : Publish(e, 1)
    \/ /\ engine.health = "resyncing"
       /\ bundle' # bundle /\ bundle' \in open'
       /\ \E e \in BootstrapEngines :
            Publish([e EXCEPT !.desynced = FALSE], revision + 1)
    \/ /\ engine.health \notin Terminal \cup {"bootstrapping"}
       /\ Publish([engine EXCEPT !.health = "closed"], revision + 1)
    \/ /\ engine.health \notin {"bootstrapping", "failed", "closed"}
       /\ \E e \in ReducedEngines \cup {MarkedStale(engine)} :
            \/ Publish(e, revision + 1)
            \/ Publish([e EXCEPT !.health = "stale"], revision + 1)
            \/ \E n \in {1, 2} : Publish([e EXCEPT !.health = "failed"], revision + n)

(* Every step is of one of the kinds of EngineStep: what a step can do to engine,
   snapshot and revision. *)
LEMMA EngineChanges ==
    ASSUME IInv, [Next]_vars
    PROVE  EngineStep
<1> USE TasksAssumption, BundlesAssumption
<1> USE DEF Tasks, replica, EngineStep
<1>0. /\ DataTypeOK /\ HealthTellsStage /\ LoopReadsInstalledConnection
      /\ \A p \in Tasks : Ground(pc[p])
  BY DEF IInv, TypeOK, CallsKeepTheirGround
<1>1. CASE \E p \in Callers : Call(p) \/ UserCancels(p)
  BY <1>1 DEF Call, UserCancels, CancelWaiting, CancelInside, CancelClose, CloseRest
<1>2. ASSUME NEW p \in Callers, Connect(p)
      PROVE  EngineStep
  <2>1. CASE ConnectSucceeds(p)
    <3>1. bundle = NoBundle /\ spare \in Bundles /\ spare \in open
      BY <1>0, <2>1 DEF ConnectSucceeds, Ground, DataTypeOK
    <3> QED
      BY <1>0, <2>1, <3>1 DEF ConnectSucceeds, HealthTellsStage
  <2> QED
    BY <1>2, <2>1 DEF Connect, ConnectBegins
<1>3. ASSUME NEW p \in Callers, Close(p)
      PROVE  EngineStep
  <2>1. CASE CloseAnnounces(p)
    <3>1. bundle # NoBundle
      BY <1>0, <2>1 DEF CloseAnnounces, Ground
    <3> QED
      BY <1>0, <2>1, <3>1 DEF CloseAnnounces, HealthTellsStage
  <2> QED
    BY <1>3, <2>1 DEF Close, CloseAtOnce, CloseBegins, CloseBundleClosed, CloseRest, CloseEnds
<1>4. ASSUME NEW p \in Tasks, Refresh(p)
      PROVE  EngineStep
  <2>1. CASE RefreshBegins(p)
    BY <1>0, <2>1 DEF RefreshBegins, LoopIsOver, HealthTellsStage
  <2>2. CASE RefreshLoopStopped(p)
    BY <1>0, <2>2 DEF RefreshLoopStopped, Ground, RefreshPc, CriticalPc,
                      HealthTellsStage, NoLoop
  <2>3. CASE RefreshInstalls(p)
    <3>1. spare \in Bundles /\ spare \in open
      BY <1>0, <2>3 DEF RefreshInstalls, Ground, DataTypeOK
    <3>2. bundle' # bundle /\ bundle' \in open'
      BY <2>3, <3>1, BundlesAssumption DEF RefreshInstalls, IInv, ConnectionsApart
    <3> QED
      BY <1>0, <2>3, <3>2 DEF RefreshInstalls, Ground
  <2> QED
    BY <1>4, <2>1, <2>2, <2>3
    DEF Refresh, Refused, OpenSucceeds, OpenFails, BootstrapFails, Undone, RefreshRetires
<1>5. CASE MutationLoop
  <2>1. CASE StreamStops
    BY <2>1 DEF StreamStops
  <2>2. CASE ~StreamStops
    <3>1. engine.health \notin {"bootstrapping", "failed", "closed"}
      BY <1>0, <1>5, <2>2
      DEF MutationLoop, ApplyEvent, FailOnEvent, DesyncOnEvent, EventArrives,
          HealthTellsStage, LoopReadsInstalledConnection, NoLoop, DataTypeOK
    <3> QED
      BY <1>5, <2>2, <3>1
      DEF MutationLoop, ApplyEvent, FailOnEvent, DesyncOnEvent
  <2> QED
    BY <2>1, <2>2
<1>6. CASE CoordinatorStep \/ Rest \/ UNCHANGED vars
  BY <1>6 DEF CoordinatorStep, CoordinatorWakes, CoordinatorCancelled, Rest, vars
<1> QED
  BY <1>1, <1>2, <1>3, <1>4, <1>5, <1>6 DEF Next

\* The inductive invariant holds in every reachable state.
THEOREM Invariance == Spec => []IInv
BY Initial, Inductive, PTL DEF Spec

\* Through every refresh, failure, cancellation and close, the loop reads only the
\* connection that is installed, open and not being closed.
THEOREM LoopReadsInstalled == Spec => []LoopReadsInstalledConnection
<1>1. IInv => LoopReadsInstalledConnection
  BY DEF IInv
<1> QED
  BY <1>1, Invariance, PTL

\* The snapshot has the current revision, and another health than the engine only if
\* that is RESYNCING.
OnlyResyncingIsUnpublished ==
    /\ snapshot.revision = revision
    /\ engine.health # snapshot.health => engine.health = "resyncing"

LEMMA OnlyResyncing == Spec => []OnlyResyncingIsUnpublished
<1>1. Init => OnlyResyncingIsUnpublished
  BY DEF Init, Freeze, OnlyResyncingIsUnpublished
<1>2. ASSUME IInv, OnlyResyncingIsUnpublished, [Next]_vars
      PROVE  OnlyResyncingIsUnpublished'
  <2>1. CASE UNCHANGED <<engine, snapshot, revision>>
    BY <1>2, <2>1 DEF OnlyResyncingIsUnpublished
  <2>2. ASSUME NEW e, NEW r, Publish(e, r)
        PROVE  OnlyResyncingIsUnpublished'
    BY <2>2 DEF OnlyResyncingIsUnpublished, Publish, Freeze
  <2>3. CASE engine' = Resyncing(engine) /\ UNCHANGED <<snapshot, revision>>
    BY <1>2, <2>3 DEF OnlyResyncingIsUnpublished, Resyncing, IInv, TypeOK, DataTypeOK
  <2> QED
    BY <1>2, <2>1, <2>2, <2>3, EngineChanges DEF EngineStep
<1> QED
  BY <1>1, <1>2, Invariance, PTL DEF Spec

\* LIVE comes back to an engine that had lost it, and to the snapshot, only in the
\* step that installs the engine of a new bootstrap with its open connection.
THEOREM LiveBootstrapped == Spec => LiveIsBootstrapped
<1> DEFINE Regained == \/ engine'.health = "live" /\ engine.health # "live"
                       \/ snapshot'.health = "live" /\ snapshot.health # "live"
<1>1. ASSUME IInv, OnlyResyncingIsUnpublished, [Next]_vars, Regained
      PROVE  bundle' # bundle /\ bundle' \in open'
  <2>1. /\ engine \in [health : HealthState, desynced : BOOLEAN]
        /\ engine.health = "live" => snapshot.health = "live"
    BY <1>1 DEF IInv, TypeOK, DataTypeOK, OnlyResyncingIsUnpublished
  <2>2. ~UNCHANGED <<engine, snapshot>>
    BY <1>1
  <2>3. ASSUME engine.health \notin {"bootstrapping", "failed", "closed"},
               engine' = Resyncing(engine), UNCHANGED snapshot
        PROVE  FALSE
    BY <1>1, <2>1, <2>3, ResyncingHealth
  <2>4. ASSUME NEW e, NEW r, Publish(e, r), e.health \in {engine.health, "stale", "failed", "closed"}
        PROVE  FALSE
    BY <1>1, <2>1, <2>4 DEF Publish, Freeze
  <2>5. ASSUME NEW e \in ReducedEngines \cup {MarkedStale(engine)}
        PROVE  /\ e.health \in {engine.health, "stale"}
               /\ [e EXCEPT !.health = "stale"].health = "stale"
               /\ [e EXCEPT !.health = "failed"].health = "failed"
    BY <2>1, <2>5, ReducedEnginesType DEF MarkedStale
  <2>6. [engine EXCEPT !.health = "closed"].health = "closed"
    BY <2>1
  <2>7. ASSUME NEW e \in ReducedEngines \cup {MarkedStale(engine)},
               \/ Publish(e, revision + 1)
               \/ Publish([e EXCEPT !.health = "stale"], revision + 1)
               \/ \E n \in {1, 2} : Publish([e EXCEPT !.health = "failed"], revision + n)
        PROVE  FALSE
    BY <2>4, <2>5, <2>7
  <2>8. ~Publish([engine EXCEPT !.health = "closed"], revision + 1)
    BY <2>4, <2>6
  <2> QED
    BY <1>1, <2>2, <2>3, <2>7, <2>8, EngineChanges, Zenon DEF EngineStep
<1> QED
  BY <1>1, Invariance, OnlyResyncing, PTL DEF Spec, LiveIsBootstrapped

\* No snapshot is replaced by one with the same revision or a lower one.
THEOREM RevisionsGrow == Spec => RevisionsIncrease
<1>1. ASSUME IInv, OnlyResyncingIsUnpublished, [Next]_vars
      PROVE  snapshot' # snapshot => snapshot'.revision > snapshot.revision
  <2>1. revision \in Nat /\ snapshot.revision = revision
    BY <1>1 DEF IInv, TypeOK, DataTypeOK, OnlyResyncingIsUnpublished
  <2>2. ASSUME NEW e, NEW r \in Nat, r > revision, Publish(e, r)
        PROVE  snapshot'.revision > snapshot.revision
    BY <2>1, <2>2 DEF Publish, Freeze
  <2>3. ASSUME NEW e, revision = 0, Publish(e, 1)
        PROVE  snapshot'.revision > snapshot.revision
    BY <2>2, <2>3
  <2>4. ASSUME NEW e, Publish(e, revision + 1)
        PROVE  snapshot'.revision > snapshot.revision
    BY <2>1, <2>2, <2>4
  <2>5. ASSUME NEW e, NEW n \in {1, 2}, Publish(e, revision + n)
        PROVE  snapshot'.revision > snapshot.revision
    BY <2>1, <2>2, <2>5
  <2> QED
    BY <1>1, <2>3, <2>4, <2>5, EngineChanges, Zenon DEF EngineStep
<1> QED
  BY <1>1, Invariance, OnlyResyncing, PTL DEF Spec, RevisionsIncrease

Working == {"live", "stale", "resyncing"}

\* The table lets a working replica go anywhere but back to BOOTSTRAPPING or, from
\* where it is not resyncing, to LIVE.
LEMMA TableRows ==
    /\ \A h \in Working, t \in {"stale", "resyncing", "failed", "closed"} :
         CanTransition(h, t)
    /\ \A t \in {"live", "stale"} :
         CanTransition("bootstrapping", t) /\ CanTransition("resyncing", t)
    /\ Terminal = {"failed", "closed"}
BY DEF Working, CanTransition, AllowedTransitions, Terminal, HealthState

\* Every step takes the engine's health where the table allows.
LEMMA HealthStep ==
    ASSUME IInv, [Next]_vars
    PROVE  CanTransition(engine.health, engine'.health)
<1>0. /\ engine \in [health : HealthState, desynced : BOOLEAN]
      /\ engine.health \notin {"bootstrapping", "failed", "closed"}
           => engine.health \in Working
  BY DEF IInv, TypeOK, DataTypeOK, HealthState, Working
<1>1. CASE UNCHANGED engine
  BY <1>1 DEF CanTransition
<1>2. CASE engine.health \notin {"bootstrapping", "failed", "closed"}
           /\ engine' = Resyncing(engine)
  BY <1>0, <1>2, ResyncingHealth, TableRows
<1>3. CASE engine.health = "bootstrapping" /\ \E e \in BootstrapEngines : Publish(e, 1)
  BY <1>3, BootstrapEnginesType, TableRows DEF Publish
<1>4. CASE engine.health = "resyncing"
           /\ \E e \in BootstrapEngines :
                Publish([e EXCEPT !.desynced = FALSE], revision + 1)
  BY <1>4, BootstrapEnginesType, TableRows DEF Publish
<1>5. CASE engine.health \notin Terminal \cup {"bootstrapping"}
           /\ Publish([engine EXCEPT !.health = "closed"], revision + 1)
  BY <1>0, <1>5, TableRows DEF Publish
<1>6. ASSUME engine.health \notin {"bootstrapping", "failed", "closed"},
             NEW e \in ReducedEngines \cup {MarkedStale(engine)},
             engine' \in {e, [e EXCEPT !.health = "stale"], [e EXCEPT !.health = "failed"]}
      PROVE  CanTransition(engine.health, engine'.health)
  <2>1. e.health \in {engine.health, "stale"}
        /\ e \in [health : HealthState, desynced : BOOLEAN]
    BY <1>0, ReducedEnginesType DEF MarkedStale, HealthState
  <2>2. engine'.health \in {engine.health, "stale", "failed"}
    BY <1>6, <2>1
  <2> QED
    BY <1>0, <1>6, <2>2, TableRows DEF CanTransition
<1> QED
  BY <1>1, <1>2, <1>3, <1>4, <1>5, <1>6, EngineChanges DEF EngineStep, Publish

\* The engine's health goes only where the table of api/health.py lets it.
THEOREM HealthFollows == Spec => HealthFollowsTable
BY HealthStep, Invariance, PTL DEF Spec, HealthFollowsTable

\* A snapshot that says LIVE has no desync behind it, in the engine or in itself.
THEOREM LiveTrusted == Spec => []LiveIsTrusted
<1> DEFINE Trusted == engine.health = "live" => engine.desynced = FALSE
<1>1. Init => Trusted /\ LiveIsTrusted
  BY DEF Init, Freeze, LiveIsTrusted
<1>2. ASSUME IInv, Trusted, LiveIsTrusted, [Next]_vars
      PROVE  Trusted' /\ LiveIsTrusted'
  <2>0. engine \in [health : HealthState, desynced : BOOLEAN]
    BY <1>2 DEF IInv, TypeOK, DataTypeOK
  <2>1. CASE UNCHANGED <<engine, snapshot>>
    BY <1>2, <2>1 DEF LiveIsTrusted
  <2>2. CASE /\ engine.health \notin {"bootstrapping", "failed", "closed"}
             /\ engine' = Resyncing(engine)
             /\ UNCHANGED snapshot
    BY <1>2, <2>0, <2>2, ResyncingHealth DEF LiveIsTrusted
  <2>3. ASSUME NEW e, NEW r, Publish(e, r), e.health = "live" => e.desynced = FALSE
        PROVE  Trusted' /\ LiveIsTrusted'
    BY <2>3 DEF Publish, Freeze, LiveIsTrusted
  <2>4. ASSUME NEW e \in BootstrapEngines
        PROVE  /\ e.health = "live" => e.desynced = FALSE
               /\ [e EXCEPT !.desynced = FALSE].desynced = FALSE
    BY BootstrapEnginesType
  <2>5. [engine EXCEPT !.health = "closed"].health = "closed"
    BY <2>0
  <2>6. ASSUME NEW e \in ReducedEngines \cup {MarkedStale(engine)}
        PROVE  /\ e.health = "live" => e.desynced = FALSE
               /\ [e EXCEPT !.health = "stale"].health = "stale"
               /\ [e EXCEPT !.health = "failed"].health = "failed"
    <3>1. e = engine \/ e.health = "stale"
      BY <2>0, ReducedEnginesType DEF MarkedStale
    <3>2. e \in [health : HealthState, desynced : BOOLEAN]
      BY <2>0, ReducedEnginesType DEF MarkedStale, HealthState
    <3> QED
      BY <1>2, <3>1, <3>2
  <2> QED
    BY <1>2, <2>1, <2>2, <2>3, <2>4, <2>5, <2>6, EngineChanges DEF EngineStep
<1> QED
  BY <1>1, <1>2, Invariance, PTL DEF Spec

-------------------------------------------------------------------------------
(* That NiriState implements Replica: when the broadcaster is closed *)

ClosingPc == {"close_stop", "close_bundle", "close_coordinator"}

\* The broadcaster is closed last: only on a closed replica, with no close() under
\* way, and after a terminal snapshot if there ever was one.  A close() that is past
\* its announcement leaves a terminal health behind.
BroadcasterClosedLast ==
    /\ broadcasterClosed => closed /\ (bundle = NoBundle \/ engine.health \in Terminal)
    /\ \A p \in Tasks :
         /\ pc[p] \in ClosingPc => ~broadcasterClosed
         /\ pc[p] \in {"close_bundle", "close_coordinator"} => engine.health \in Terminal

\* A terminal snapshot agrees with the engine, and so does one with no number.
LastSnapshotStays ==
    /\ snapshot.health \in Terminal => engine.health = snapshot.health
    /\ revision = 0 => engine.health = "bootstrapping" /\ bundle = NoBundle

ReplicaInv == BroadcasterClosedLast /\ LastSnapshotStays

-------------------------------------------------------------------------------
(* Its inductive steps *)

\* A terminal health is never left, and nothing is published after it.
LEMMA TerminalStays ==
    ASSUME IInv, [Next]_vars, engine.health \in Terminal
    PROVE  UNCHANGED <<engine, snapshot, revision>>
<1>1. engine.health \in {"failed", "closed"}
  BY TableRows
<1> QED
  BY <1>1, TableRows, EngineChanges, Zenon DEF EngineStep

\* The connection is installed and exchanged only before close().
LEMMA ClosedStays ==
    ASSUME IInv, [Next]_vars, closed
    PROVE  closed' /\ UNCHANGED bundle
<1> USE DEF Tasks, replica
<1>0. \A p \in Tasks : Ground(pc[p])
  BY DEF IInv, CallsKeepTheirGround
<1>1. ASSUME NEW p \in Callers, Call(p) \/ UserCancels(p)
      PROVE  closed' /\ UNCHANGED bundle
  BY <1>1 DEF Call, UserCancels, CancelWaiting, CancelInside, CancelClose, CloseRest
<1>2. ASSUME NEW p \in Callers, Connect(p)
      PROVE  closed' /\ UNCHANGED bundle
  BY <1>0, <1>2 DEF Connect, ConnectBegins, ConnectSucceeds, Ground
<1>3. ASSUME NEW p \in Callers, Close(p)
      PROVE  closed' /\ UNCHANGED bundle
  BY <1>3 DEF Close, CloseAtOnce, CloseBegins, CloseAnnounces, CloseBundleClosed,
              CloseRest, CloseEnds
<1>4. ASSUME NEW p \in Tasks, Refresh(p)
      PROVE  closed' /\ UNCHANGED bundle
  <2>1. ~RefreshInstalls(p)
    BY <1>0 DEF RefreshInstalls, Ground, RefreshPc, CriticalPc
  <2> QED
    BY <1>4, <2>1 DEF Refresh, Refused, OpenSucceeds, OpenFails, BootstrapFails,
                      Undone, RefreshBegins, RefreshLoopStopped, RefreshRetires
<1>5. CASE MutationLoop
  BY <1>5 DEF MutationLoop, ApplyEvent, FailOnEvent, DesyncOnEvent, StreamStops,
              EventArrives
<1>6. CASE CoordinatorStep \/ Rest \/ UNCHANGED vars
  BY <1>6 DEF CoordinatorStep, CoordinatorWakes, CoordinatorCancelled, Rest, vars
<1> QED
  BY <1>1, <1>2, <1>3, <1>4, <1>5, <1>6 DEF Next

\* A step of which no close() knows anything.
LEMMA OutsideClose ==
    ASSUME IInv, BroadcasterClosedLast, [Next]_vars, UNCHANGED broadcasterClosed,
           \A p \in Tasks : pc'[p] \in ClosingPc => pc[p] = pc'[p]
    PROVE  BroadcasterClosedLast'
BY TerminalStays, ClosedStays DEF BroadcasterClosedLast, ClosingPc

\* close() itself: p is the only task inside a call, and goes on to suspend at s.
LEMMA InsideClose ==
    ASSUME IInv, BroadcasterClosedLast, ~broadcasterClosed, ~broadcasterClosed',
           NEW p \in Callers, NEW s, lock \in {Nobody, p},
           \A q \in Tasks \ {p} : pc'[q] \in ClosingPc => pc[q] = pc'[q],
           pc'[p] = s,
           s \in {"close_bundle", "close_coordinator"} => engine'.health \in Terminal
    PROVE  BroadcasterClosedLast'
<1>1. \A q \in Tasks \ {p} : pc[q] \notin ClosingPc
  BY TasksAssumption DEF IInv, MutualExclusion, ClosingPc, CriticalPc
<1>2. \A q \in Tasks \ {p} : pc'[q] \notin ClosingPc
  BY <1>1
<1> QED
  BY <1>2 DEF BroadcasterClosedLast, ClosingPc

\* close() ends: the broadcaster may be closed if its work is done.
LEMMA LeavesClose ==
    ASSUME IInv, NEW p \in Callers, lock \in {Nobody, p},
           \A q \in Tasks \ {p} : pc'[q] \in ClosingPc => pc[q] = pc'[q],
           pc'[p] = "idle",
           broadcasterClosed' => closed' /\ (bundle' = NoBundle \/ engine'.health \in Terminal)
    PROVE  BroadcasterClosedLast'
<1>1. \A q \in Tasks \ {p} : pc[q] \notin ClosingPc
  BY TasksAssumption DEF IInv, MutualExclusion, ClosingPc, CriticalPc
<1>2. \A q \in Tasks : pc'[q] \notin ClosingPc
  BY <1>1 DEF ClosingPc
<1> QED
  BY <1>2 DEF BroadcasterClosedLast, ClosingPc

(* Every step keeps the broadcaster open until the last snapshot is published. *)
LEMMA BroadcasterClosedLastStep ==
    ASSUME IInv, BroadcasterClosedLast, [Next]_vars
    PROVE  BroadcasterClosedLast'
<1> USE TasksAssumption
<1> USE DEF Tasks, quiet
<1>0. /\ ControlTypeOK /\ MutualExclusion
      /\ \A p \in Tasks : Ground(pc[p])
      /\ \A p \in Tasks : pc[p] \in CriticalPc => lock = p
  BY DEF IInv, TypeOK, CallsKeepTheirGround, MutualExclusion
<1>1. ASSUME NEW p \in Callers, Call(p)
      PROVE  BroadcasterClosedLast'
  BY <1>0, <1>1, OutsideClose DEF Call, ControlTypeOK, WaitingPc, ClosingPc
<1>2. ASSUME NEW p \in Callers, Connect(p)
      PROVE  BroadcasterClosedLast'
  <2>1. UNCHANGED broadcasterClosed
    BY <1>2 DEF Connect, ConnectBegins, ConnectSucceeds
  <2>2. \A q \in Tasks : pc'[q] \in ClosingPc => pc[q] = pc'[q]
    BY <1>0, <1>2 DEF Connect, ConnectBegins, ConnectSucceeds, Suspends,
                      ControlTypeOK, ClosingPc
  <2> QED
    BY <2>1, <2>2, OutsideClose
<1>c. ASSUME NEW p \in Callers, NEW res, pc[p] = "close_bundle", CloseRest(p, res)
      PROVE  BroadcasterClosedLast'
  <2>1. /\ lock = p /\ closed /\ engine.health \in Terminal /\ ~broadcasterClosed
    BY <1>0, <1>c DEF BroadcasterClosedLast, Ground, ClosingPc, CriticalPc
  <2>2. UNCHANGED <<closed, engine>>
    BY <1>c DEF CloseRest, replica
  <2>3. \A q \in Tasks \ {p} : pc'[q] \in ClosingPc => pc[q] = pc'[q]
    BY <1>0, <1>c DEF CloseRest, CancelCoordinator, ControlTypeOK, ClosingPc
  <2>4. CASE CoordinatorRuns
    BY <1>0, <1>c, <2>1, <2>2, <2>3, <2>4, InsideClose
    DEF CloseRest, CancelCoordinator, ControlTypeOK
  <2>5. CASE ~CoordinatorRuns
    BY <1>0, <1>c, <2>1, <2>2, <2>3, <2>5, LeavesClose DEF CloseRest, ControlTypeOK
  <2> QED
    BY <2>4, <2>5
<1>3. ASSUME NEW p \in Callers, Close(p)
      PROVE  BroadcasterClosedLast'
  <2>1. CASE CloseAtOnce(p)
    BY <1>0, <2>1, LeavesClose
    DEF CloseAtOnce, Acquires, Leaves, BroadcasterClosedLast, ControlTypeOK
  <2>2. CASE CloseBegins(p)
    <3>1. /\ lock = Nobody /\ ~broadcasterClosed /\ ~broadcasterClosed'
          /\ \A q \in Tasks \ {p} : pc'[q] = pc[q]
          /\ pc'[p] \in {"close_stop", "idle"}
      BY <1>0, <2>2 DEF CloseBegins, Acquires, BroadcasterClosedLast, Suspends,
                        Raises, Leaves, ControlTypeOK
    <3> QED
      BY <3>1, InsideClose
  <2>3. CASE CloseAnnounces(p)
    <3>1. /\ lock \in {Nobody, p} /\ ~broadcasterClosed /\ ~broadcasterClosed'
      BY <1>0, <2>3 DEF CloseAnnounces, Acquires, BroadcasterClosedLast, ClosingPc,
                        CriticalPc
    <3>2. \A q \in Tasks \ {p} : pc'[q] = pc[q]
      BY <1>0, <2>3 DEF CloseAnnounces, Suspends, Raises, Leaves, ControlTypeOK
    <3>3. engine'.health \in Terminal
      <4>1. engine \in [health : HealthState, desynced : BOOLEAN]
        BY DEF IInv, TypeOK, DataTypeOK
      <4> QED
        BY <2>3, <4>1, TableRows DEF CloseAnnounces, Publish
    <3> QED
      BY <3>1, <3>2, <3>3, InsideClose
  <2>4. CASE CloseBundleClosed(p)
    BY <1>c, <2>4 DEF CloseBundleClosed
  <2>5. CASE CloseEnds(p)
    <3>1. lock = p /\ closed /\ engine.health \in Terminal
      BY <1>0, <2>5 DEF CloseEnds, BroadcasterClosedLast, Ground, CriticalPc
    <3> QED
      BY <1>0, <2>5, <3>1, LeavesClose DEF CloseEnds, Leaves, replica, ControlTypeOK
  <2> QED
    BY <1>3, <2>1, <2>2, <2>3, <2>4, <2>5 DEF Close
<1>4. ASSUME NEW p \in Callers, UserCancels(p)
      PROVE  BroadcasterClosedLast'
  <2>1. CASE CancelWaiting(p) \/ CancelInside(p)
    BY <1>0, <2>1, OutsideClose
    DEF CancelWaiting, CancelInside, Leaves, ControlTypeOK, ClosingPc
  <2>2. CASE CancelClose(p)
    BY <1>c, <2>2 DEF CancelClose
  <2> QED
    BY <1>4, <2>1, <2>2 DEF UserCancels
<1>5. ASSUME NEW p \in Tasks, Refresh(p)
      PROVE  BroadcasterClosedLast'
  <2>1. UNCHANGED broadcasterClosed
    BY <1>5 DEF Refresh, Refused, OpenSucceeds, OpenFails, BootstrapFails, Undone,
                RefreshBegins, RefreshLoopStopped, RefreshInstalls, RefreshRetires
  <2>2. \/ \E s \in CriticalPc \ ClosingPc : Suspends(p, s)
        \/ Raises(p)
        \/ p = Coordinator /\ AttemptEnds(TRUE)
        \/ p # Coordinator /\ Leaves(p, "refreshed")
    BY <1>5 DEF Refresh, Refused, OpenSucceeds, OpenFails, BootstrapFails, Undone,
                RefreshBegins, RefreshLoopStopped, RefreshInstalls, RefreshRetires,
                CriticalPc, ClosingPc
  <2>3. \A q \in Tasks : pc'[q] \in ClosingPc => pc[q] = pc'[q]
    BY <1>0, <2>2 DEF Suspends, Raises, AttemptEnds, Leaves, ControlTypeOK, ClosingPc
  <2> QED
    BY <2>1, <2>3, OutsideClose
<1>6. CASE MutationLoop
  BY <1>6, OutsideClose
  DEF MutationLoop, ApplyEvent, FailOnEvent, DesyncOnEvent, StreamStops,
      EventArrives, control
<1>7. CASE CoordinatorStep
  BY <1>0, <1>7, OutsideClose
  DEF CoordinatorStep, CoordinatorWakes, CoordinatorCancelled, ControlTypeOK, ClosingPc
<1>8. CASE Rest \/ UNCHANGED vars
  BY <1>8, OutsideClose DEF Rest, vars, control
<1> QED
  BY <1>1, <1>2, <1>3, <1>4, <1>5, <1>6, <1>7, <1>8 DEF Next

(* Every step keeps a terminal snapshot the one the engine has. *)
LEMMA LastSnapshotStep ==
    ASSUME IInv, LastSnapshotStays, [Next]_vars
    PROVE  LastSnapshotStays'
<1> USE DEF LastSnapshotStays
<1>0. revision \in Nat /\ engine \in [health : HealthState, desynced : BOOLEAN]
      /\ (engine.health \notin {"failed", "closed"} <=> engine.health \notin Terminal)
  BY TableRows DEF IInv, TypeOK, DataTypeOK
<1>b. engine.health = "bootstrapping" <=> bundle = NoBundle
  BY DEF IInv, HealthTellsStage
<1>1. ASSUME NEW e, NEW r \in Nat \ {0}, Publish(e, r)
      PROVE  LastSnapshotStays'
  BY <1>1 DEF Publish, Freeze
<1>2. CASE UNCHANGED <<engine, snapshot, revision>>
  <2>1. revision' = 0 => engine'.health = "bootstrapping"
    BY <1>2
  <2>2. IInv'
    BY Inductive
  <2> QED
    BY <1>2, <2>1, <2>2 DEF IInv, HealthTellsStage
<1>3. CASE /\ engine.health \notin {"bootstrapping", "failed", "closed"}
           /\ engine' = Resyncing(engine)
           /\ UNCHANGED <<snapshot, revision>>
  BY <1>0, <1>3
<1>4. ASSUME NEW e, NEW n \in {1, 2}, Publish(e, revision + n)
      PROVE  LastSnapshotStays'
  BY <1>0, <1>1, <1>4
<1>5. ASSUME NEW e, Publish(e, 1) \/ Publish(e, revision + 1)
      PROVE  LastSnapshotStays'
  BY <1>0, <1>1, <1>5
<1> QED
  BY <1>2, <1>3, <1>4, <1>5, EngineChanges, Zenon DEF EngineStep

\* The broadcaster is closed last, and the last snapshot stays.
LEMMA ReplicaInvariance == Spec => []ReplicaInv
<1>1. Init => ReplicaInv
  BY TableRows
  DEF Init, ReplicaInv, BroadcasterClosedLast, LastSnapshotStays, ClosingPc, Freeze
<1>2. IInv /\ ReplicaInv /\ [Next]_vars => ReplicaInv'
  BY BroadcasterClosedLastStep, LastSnapshotStep DEF ReplicaInv
<1> QED
  BY <1>1, <1>2, Invariance, PTL DEF Spec

-------------------------------------------------------------------------------
(* The refinement *)

\* The step that closes the broadcaster publishes nothing, and no step opens it.
LEMMA BroadcasterCloses ==
    ASSUME [Next]_vars, broadcasterClosed' # broadcasterClosed
    PROVE  broadcasterClosed' = TRUE /\ UNCHANGED <<engine, snapshot, revision>>
<1> USE DEF replica, quiet
<1>1. ASSUME NEW p \in Callers, Call(p) \/ Connect(p)
      PROVE  FALSE
  BY <1>1 DEF Call, Connect, ConnectBegins, ConnectSucceeds
<1>2. ASSUME NEW p \in Callers, Close(p)
      PROVE  broadcasterClosed' = TRUE /\ UNCHANGED <<engine, snapshot, revision>>
  BY <1>2 DEF Close, CloseAtOnce, CloseBegins, CloseAnnounces, CloseBundleClosed,
              CloseRest, CloseEnds
<1>3. ASSUME NEW p \in Callers, UserCancels(p)
      PROVE  broadcasterClosed' = TRUE /\ UNCHANGED <<engine, snapshot, revision>>
  BY <1>3 DEF UserCancels, CancelWaiting, CancelInside, CancelClose, CloseRest
<1>4. ASSUME NEW p \in Tasks, Refresh(p)
      PROVE  FALSE
  BY <1>4 DEF Refresh, Refused, OpenSucceeds, OpenFails, BootstrapFails, Undone,
              RefreshBegins, RefreshLoopStopped, RefreshInstalls, RefreshRetires
<1>5. ~MutationLoop
  BY DEF MutationLoop, ApplyEvent, FailOnEvent, DesyncOnEvent, StreamStops,
         EventArrives
<1>6. ~CoordinatorStep /\ ~Rest /\ ~UNCHANGED vars
  BY DEF CoordinatorStep, CoordinatorWakes, CoordinatorCancelled, Rest, vars
<1> QED
  BY <1>1, <1>2, <1>3, <1>4, <1>5, <1>6 DEF Next

\* Nothing is published, and no resync begins, on a closed broadcaster.
LEMMA NothingAfterTheEnd ==
    ASSUME IInv, ReplicaInv, [Next]_vars, broadcasterClosed
    PROVE  UNCHANGED <<engine, snapshot, revision>>
<1> USE DEF ReplicaInv, BroadcasterClosedLast
<1>1. CASE engine.health \in Terminal
  BY <1>1, TerminalStays
<1>2. CASE closed /\ bundle = NoBundle
  <2>1. engine.health = "bootstrapping" /\ engine'.health = "bootstrapping"
    BY <1>2, ClosedStays, Inductive DEF IInv, HealthTellsStage
  <2>2. ~\E e \in BootstrapEngines : Publish(e, 1)
    BY <2>1, BootstrapEnginesType DEF Publish
  <2> QED
    BY <2>1, <2>2, EngineChanges, Zenon DEF EngineStep
<1> QED
  BY <1>1, <1>2

\* A publication is one of Replica.
LEMMA MapsPublication ==
    ASSUME IInv, ReplicaInv, OnlyResyncingIsUnpublished, [Next]_vars,
           ~broadcasterClosed, UNCHANGED broadcasterClosed,
           engine.health \notin Terminal,
           CanTransition(engine.health, engine'.health),
           NEW e, NEW r, Publish(e, r), r > revision,
           engine.health = "bootstrapping" => engine'.health \in {"live", "stale"}
    PROVE  Replica!Publishes
<1>1. snapshot.revision = revision /\ snapshot.health \notin Terminal
  <2>1. snapshot.health \in Terminal => engine.health = snapshot.health
    BY DEF ReplicaInv, LastSnapshotStays
  <2> QED
    BY <2>1 DEF OnlyResyncingIsUnpublished
<1>2. snapshot'.revision = r /\ snapshot'.health = engine'.health
  BY DEF Publish, Freeze
<1>3. revision = 0 => engine'.health \in {"live", "stale"}
  BY DEF ReplicaInv, LastSnapshotStays
<1>4. Terminal = Replica!Terminal
  BY DEF Terminal, Replica!Terminal, AllowedTransitions, Replica!AllowedTransitions,
         HealthState, Replica!HealthState
<1>5. Replica!CanTransition(engine.health, engine'.health)
  BY DEF CanTransition, Replica!CanTransition, AllowedTransitions, Replica!AllowedTransitions
<1> QED
  BY <1>1, <1>2, <1>3, <1>4, <1>5 DEF Replica!Publishes

\* Each step of the program is a step of Replica, or changes nothing it sees.
LEMMA MapsStep ==
    ASSUME IInv, ReplicaInv, ReplicaInv', OnlyResyncingIsUnpublished, [Next]_vars
    PROVE  [Replica!Next]_(Replica!vars)
<1> USE DEF Replica!Next, Replica!vars
<1>0. /\ revision \in Nat
      /\ engine \in [health : HealthState, desynced : BOOLEAN]
      /\ broadcasterClosed \in BOOLEAN
      /\ Terminal = {"failed", "closed"}
      /\ CanTransition(engine.health, engine'.health)
  BY TableRows, HealthStep DEF IInv, TypeOK, DataTypeOK
<1>1. CASE UNCHANGED <<engine, snapshot, revision>>
  <2>1. CASE UNCHANGED broadcasterClosed
    BY <1>1, <2>1
  <2>2. CASE broadcasterClosed' # broadcasterClosed
    <3>1. ~broadcasterClosed /\ broadcasterClosed'
      BY <1>0, <2>2, BroadcasterCloses
    <3>2. bundle' = NoBundle \/ engine'.health \in Terminal
      BY <3>1 DEF ReplicaInv, BroadcasterClosedLast
    <3>3. bundle' = NoBundle => snapshot.revision = 0
      BY <1>1, Inductive DEF IInv, HealthTellsStage, OnlyResyncingIsUnpublished
    <3>4. engine'.health \in Terminal => snapshot.health \in Terminal
      BY <1>0, <1>1 DEF OnlyResyncingIsUnpublished
    <3>5. Terminal = Replica!Terminal
      BY DEF Terminal, Replica!Terminal, AllowedTransitions,
             Replica!AllowedTransitions, HealthState, Replica!HealthState
    <3> QED
      BY <1>1, <3>1, <3>2, <3>3, <3>4, <3>5 DEF Replica!EndsStreams
  <2> QED
    BY <2>1, <2>2
<1>2. CASE ~UNCHANGED <<engine, snapshot, revision>>
  <2>1. ~broadcasterClosed /\ UNCHANGED broadcasterClosed
    BY <1>0, <1>2, NothingAfterTheEnd, BroadcasterCloses
  <2>2. CASE /\ engine.health \notin {"bootstrapping", "failed", "closed"}
             /\ engine' = Resyncing(engine)
             /\ UNCHANGED <<snapshot, revision>>
    <3>1. engine.health \in {"live", "stale"} /\ engine'.health = "resyncing"
      BY <1>0, <1>2, <2>2, ResyncingHealth DEF Resyncing
    <3> QED
      BY <2>1, <2>2, <3>1 DEF Replica!StartsResync
  <2>3. ASSUME NEW e, NEW n \in {1, 2}, Publish(e, revision + n),
               engine.health \notin Terminal \cup {"bootstrapping"}
        PROVE  Replica!Publishes
    BY <1>0, <2>1, <2>3, MapsPublication
  <2>4. ASSUME engine.health = "bootstrapping", revision = 0,
               NEW e \in BootstrapEngines, Publish(e, 1)
        PROVE  Replica!Publishes
    <3>1. engine'.health \in {"live", "stale"}
      BY <2>4, BootstrapEnginesType DEF Publish
    <3> QED
      BY <1>0, <2>1, <2>4, <3>1, MapsPublication
  <2> QED
    BY <1>0, <1>2, <2>2, <2>3, <2>4, EngineChanges DEF EngineStep
<1> QED
  BY <1>1, <1>2

\* NiriState keeps the promise that Replica makes to readers.
THEOREM Refines == Spec => ImplementsReplica
<1>1. Init => Replica!Init
  BY DEF Init, Replica!Init, Freeze
<1>2. IInv /\ ReplicaInv /\ ReplicaInv' /\ OnlyResyncingIsUnpublished /\ [Next]_vars
        => [Replica!Next]_(Replica!vars)
  BY MapsStep
<1> QED
  BY <1>1, <1>2, Invariance, ReplicaInvariance, OnlyResyncing, PTL
  DEF Spec, ImplementsReplica, Replica!Spec
===============================================================================
