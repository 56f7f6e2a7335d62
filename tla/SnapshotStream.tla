----------------------------- MODULE SnapshotStream -----------------------------
(***************************************************************************)
(* What a subscription promises, whatever queues and sentinels it is made   *)
(* of (core/broadcaster.py).  A subscriber is given publications made after *)
(* it subscribed, each at most once and in order; none is missing if the    *)
(* stream is lossless (fail_fast), unless it was cut.  A stream ends only    *)
(* when it was cut, or when the broadcaster was closed and the subscriber    *)
(* has been given the last publication; and then it does end.              *)
(***************************************************************************)
EXTENDS Naturals, SequencesExt

CONSTANTS Subscribers

VARIABLES
    lossless,    \* may publications be dropped to make room?
    published,   \* publications so far, each known by its number
    closed,
    cut,         \* the subscribers that fell behind a lossless stream
    status,      \* "none", "open", "over" (its stream has ended) or "left"
    since,       \* publications made before each subscription
    received     \* what each subscriber was given

vars == <<lossless, published, closed, cut, status, since, received>>

Init ==
    /\ lossless \in BOOLEAN
    /\ published = 0
    /\ closed = FALSE
    /\ cut = {}
    /\ status = [s \in Subscribers |-> "none"]
    /\ since = [s \in Subscribers |-> 0]
    /\ received = [s \in Subscribers |-> <<>>]

Publish ==
    /\ ~closed
    /\ published' = published + 1
    /\ cut \subseteq cut'
    /\ cut' \ cut \subseteq {s \in Subscribers : lossless /\ status[s] \in {"open", "left"}}
    /\ UNCHANGED <<lossless, closed, status, since, received>>

Close ==
    /\ ~closed
    /\ closed' = TRUE
    /\ UNCHANGED <<lossless, published, cut, status, since, received>>

Open(s) ==
    /\ status[s] = "none"
    /\ status' = [status EXCEPT ![s] = IF closed THEN "over" ELSE "open"]
    /\ since' = IF closed THEN since ELSE [since EXCEPT ![s] = published]
    /\ UNCHANGED <<lossless, published, closed, cut, received>>

\* The number of the last publication that s knows of.
Latest(s) == Last(<<since[s]>> \o received[s])

\* Publications that s may be given, in their order.
Undelivered(s) ==
    {q \in UNION {[1 .. k -> Latest(s) + 1 .. published] : k \in 0 .. published - Latest(s)} :
        \A i, j \in DOMAIN q : i < j => q[i] < q[j]}

\* s is given the publications q and is then in state st.
Given(s, q, st) ==
    /\ lossless /\ s \notin cut => \A i \in DOMAIN q : q[i] = Latest(s) + i
    /\ received' = [received EXCEPT ![s] = @ \o q]
    /\ status' = [status EXCEPT ![s] = st]
    /\ UNCHANGED <<lossless, published, closed, cut, since>>

Deliver(s) ==
    /\ status[s] = "open"
    /\ \E q \in Undelivered(s) \ {<<>>} : Given(s, q, "open")

\* Only the subscriber's own choice, or the end of the publications, ends a stream.
Leave(s) ==
    /\ status[s] = "open"
    /\ \E q \in Undelivered(s) : Given(s, q, "left")

End(s) ==
    /\ status[s] = "open"
    /\ \E q \in Undelivered(s) :
        /\ s \in cut \/ (closed /\ Last(<<Latest(s)>> \o q) = published)
        /\ Given(s, q, "over")

Next ==
    \/ Publish \/ Close
    \/ \E s \in Subscribers : Open(s) \/ Deliver(s) \/ Leave(s) \/ End(s)

Safety == Init /\ [][Next]_vars

\* What is published is delivered, and a stream that can end does, as long as the
\* subscriber stays.
Fairness == \A s \in Subscribers : WF_vars(Deliver(s) \/ End(s))

Spec == Safety /\ Fairness

===============================================================================
