\* The default policies with automatic resync; the compositor refuses
\* connections, fails bootstraps, ends its stream and sends bad events.
SPECIFICATION Spec
CONSTANTS
    c1 = c1
    c2 = c2
    b1 = b1
    b2 = b2
    b3 = b3
    Callers <- MCCallers
    Coordinator = Coordinator
    Nobody = Nobody
    Bundles <- MCBundles
    NoBundle = NoBundle
    ResyncPolicy = "auto"
    UnknownEventPolicy = "stale"
    InvariantFailurePolicy = "stale"
    SubscriberOverflowPolicy = "drop_oldest"
    ResyncMaxAttempts = 2
    Faults = {"open_fails", "bootstrap_fails", "stream_ends", "unknown_event",
              "dangling_event", "invalid_snapshot"}
    MaxCalls = 4
    MaxEvents = 3
SYMMETRY MCSymmetry
INVARIANTS
    TypeOK
    LoopSurvivesRefresh
    NoConnectionLeaks
    CloseReleases
    LiveIsTrusted
