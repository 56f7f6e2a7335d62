\* Every fault, the cancellation of a user task and the overflow of a
\* subscriber under the fail-fast policy included.
SPECIFICATION Spec
CONSTANTS
    c1 = c1
    c2 = c2
    b1 = b1
    b2 = b2
    b3 = b3
    Callers <- MCCallers
    Coordinator = Coordinator
    Nobody = Nobody
    Bundles <- MCBundles
    NoBundle = NoBundle
    ResyncPolicy = "auto"
    UnknownEventPolicy = "fail"
    InvariantFailurePolicy = "stale"
    SubscriberOverflowPolicy = "fail_fast"
    ResyncMaxAttempts = 2
    Faults = {"open_fails", "bootstrap_fails", "bundle_close_fails", "stream_ends",
              "stream_fails", "unknown_event", "dangling_event", "malformed_event",
              "invalid_snapshot", "user_cancels"}
    MaxCalls = 4
    MaxEvents = 3
SYMMETRY MCSymmetry
INVARIANTS
    IInv
    LoopReadsInstalledConnection
PROPERTIES
    LiveIsBootstrapped
    RevisionsIncrease
    HealthFollowsTable
    CoordinatorNotCancelledInside
    ImplementsReplica
