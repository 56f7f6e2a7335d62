\* Liveness: desyncs under the auto policy, with refused connections, failed
\* bootstraps and cancelled callers.
SPECIFICATION Spec
CONSTANTS
    c1 = c1
    c2 = c2
    b1 = b1
    b2 = b2
    b3 = b3
    Callers <- MCCallers
    Coordinator = Coordinator
    Nobody = Nobody
    Bundles <- MCBundles
    NoBundle = NoBundle
    ResyncPolicy = "auto"
    UnknownEventPolicy = "ignore"
    InvariantFailurePolicy = "stale"
    SubscriberOverflowPolicy = "drop_oldest"
    ResyncMaxAttempts = 2
    Faults = {"open_fails", "bootstrap_fails", "dangling_event", "unknown_event",
              "user_cancels", "bundle_close_fails"}
    MaxCalls = 3
    MaxEvents = 2
INVARIANTS
    LooplessIsResyncing
PROPERTIES
    CallsReturn
    DesyncIsResynced
