\* The compositor ends its event stream.
SPECIFICATION Spec
CONSTANTS
    c1 = c1
    c2 = c2
    b1 = b1
    b2 = b2
    b3 = b3
    Callers <- MCCallers
    Coordinator = Coordinator
    Nobody = Nobody
    Bundles <- MCBundles
    NoBundle = NoBundle
    ResyncPolicy = "auto"
    UnknownEventPolicy = "stale"
    InvariantFailurePolicy = "stale"
    SubscriberOverflowPolicy = "drop_oldest"
    ResyncMaxAttempts = 2
    Faults = {"stream_ends"}
    MaxCalls = 2
    MaxEvents = 2
INVARIANTS
    LiveIsFed
