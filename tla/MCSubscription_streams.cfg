\* A waiter and a subscriber or watcher, over every pace of the readers and both overflow
\* policies.  It ends when the publications have been made and read.
SPECIFICATION ConsumersSpec
CONSTANTS
    s1 = s1
    s2 = s2
    Subscribers <- MCSubscribers
    Kinds <- MCKinds
    Snapshots <- MCSnapshots
    WaitHealthPolicies = {"live_only", "allow_stale"}
    QueueSizes = {1, 2}
    OverflowPolicies = {"drop_oldest", "fail_fast"}
    ReadersRunFirst = TRUE
    MaxPublications = 4
CHECK_DEADLOCK FALSE
INVARIANTS
    ConsumersOK
    QueueIsLatest
    HealthySubscribersLoseNothing
    CloseKeepsLatest
    SeenInOrder
    WaitersMissNothing
    StreamEndIsOverflow
PROPERTIES
    StreamsEnd
    ImplementsStream
    StreamsDeliver
