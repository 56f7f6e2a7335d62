\* A subscriber, and a publication between its first item and its second.
SPECIFICATION ConsumersSpec
CONSTANTS
    s1 = s1
    s2 = s2
    Subscribers <- MCSubscribers
    Kinds <- MCKinds
    Snapshots <- MCSnapshots
    WaitHealthPolicies = {"live_only", "allow_stale"}
    QueueSizes = {1, 2}
    OverflowPolicies = {"drop_oldest", "fail_fast"}
    ReadersRunFirst = TRUE
    MaxPublications = 2
CHECK_DEADLOCK FALSE
INVARIANTS
    IdleSubscribersAreCurrent
