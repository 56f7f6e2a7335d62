\* One desync, and a compositor that refuses connections.
SPECIFICATION Spec
CONSTANTS
    c1 = c1
    c2 = c2
    b1 = b1
    b2 = b2
    b3 = b3
    Callers <- MCCallers
    Coordinator = Coordinator
    Nobody = Nobody
    Bundles <- MCBundles
    NoBundle = NoBundle
    ResyncPolicy = "auto"
    UnknownEventPolicy = "stale"
    InvariantFailurePolicy = "stale"
    SubscriberOverflowPolicy = "drop_oldest"
    ResyncMaxAttempts = 2
    Faults = {"open_fails", "dangling_event"}
    MaxCalls = 1
    MaxEvents = 1
INVARIANTS
    FailedRecoveryIsSaid
