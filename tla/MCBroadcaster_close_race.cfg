\* close() may come before a reader that the last publication woke has run.
SPECIFICATION Spec
CONSTANTS
    s1 = s1
    s2 = s2
    Subscribers <- MCSubscribers
    QueueSizes = {1, 2}
    OverflowPolicies = {"drop_oldest", "fail_fast"}
    ReadersRunFirst = FALSE
    MaxPublications = 2
CHECK_DEADLOCK FALSE
PROPERTIES
    StreamsEnd
