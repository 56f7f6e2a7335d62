------------------------------ MODULE Broadcaster ------------------------------
(***************************************************************************)
(* The fan-out of publications to subscribers: core/broadcaster.py.  Each   *)
(* subscriber has a bounded asyncio.Queue and an asynchronous generator     *)
(* (_iter) that its task drives.                                           *)
(*                                                                         *)
(* publish() and close() never suspend, so each is one step.  A reader that *)
(* awaits queue.get() on an empty queue is woken by the next put, but runs  *)
(* only later: until then its queue may be filled, emptied, or, by close(), *)
(* replaced by another queue object, while its get() stays with the old one.*)
(*                                                                         *)
(* A publication is represented by its number.                             *)
(***************************************************************************)
EXTENDS Naturals, SequencesExt

CONSTANTS
    Subscribers,              \* subscriptions that may be made
    QueueSizes, OverflowPolicies,   \* configurations a broadcaster may be given
    ReadersRunFirst,          \* close() finds no woken reader waiting to run
    MaxPublications           \* bound

ASSUME QueueAssumption ==
    /\ QueueSizes \subseteq Nat \ {0}
    /\ OverflowPolicies \subseteq {"drop_oldest", "fail_fast"}
    /\ ReadersRunFirst \in BOOLEAN
    /\ MaxPublications \in Nat

VARIABLES
    config,        \* subscriber_queue_size and subscriber_overflow_policy
    subscribers,   \* _subscribers
    queue,         \* the queue object each _Subscriber holds
    reader,        \* what each subscription's task is doing
    detached,      \* the readers whose get() is on a replaced queue object
    closed,        \* _closed
    published,     \* publications so far
    since,         \* publications made before each subscription
    received,      \* what each reader has received
    overflowed     \* the subscriptions that fail-fast has ended

vars == <<config, subscribers, queue, reader, detached, closed, published, since,
          received, overflowed>>

None == 0   \* the sentinel that ends a stream

ReaderStates ==
    {"none",       \* not subscribed yet
     "ready",      \* between two items: the generator is not in get()
     "waiting",    \* in get(), on an empty queue
     "woken",      \* its get() has been woken and has not run yet
     "abandoned",  \* it left the loop; the generator is not finalized yet
     "left",       \* ...and now it is, or the task was cancelled
     "done"}       \* its stream has ended

Configs == [queueSize : QueueSizes, policy : OverflowPolicies]

TypeOK ==
    /\ config \in Configs
    /\ subscribers \subseteq Subscribers
    /\ queue \in [Subscribers -> Seq(0 .. MaxPublications)]
    /\ reader \in [Subscribers -> ReaderStates]
    /\ detached \subseteq Subscribers
    /\ closed \in BOOLEAN
    /\ published \in 0 .. MaxPublications
    /\ since \in [Subscribers -> 0 .. MaxPublications]
    /\ received \in [Subscribers -> Seq(1 .. MaxPublications)]
    /\ overflowed \subseteq Subscribers

Init ==
    /\ config \in Configs
    /\ subscribers = {}
    /\ queue = [s \in Subscribers |-> <<>>]
    /\ reader = [s \in Subscribers |-> "none"]
    /\ detached = {}
    /\ closed = FALSE
    /\ published = 0
    /\ since = [s \in Subscribers |-> 0]
    /\ received = [s \in Subscribers |-> <<>>]
    /\ overflowed = {}

\* asyncio.Queue: put_nowait raises QueueFull, and wakes a waiting get().
Full(q) == Len(q) >= config.queueSize
Wake(r) == IF r = "waiting" THEN "woken" ELSE r

\* subscribe(), after which the new subscription's reader is in state r: on a closed
\* broadcaster, an empty stream.
Registers(s, r) ==
    IF closed
    THEN reader' = [reader EXCEPT ![s] = "done"] /\ UNCHANGED <<subscribers, since>>
    ELSE /\ reader' = [reader EXCEPT ![s] = r]
         /\ subscribers' = subscribers \cup {s}
         /\ since' = [since EXCEPT ![s] = published]

Subscribe(s) ==
    /\ reader[s] = "none"
    /\ Registers(s, "ready")
    /\ UNCHANGED <<config, queue, detached, closed, published, received, overflowed>>

\* Mutant: the newest item is dropped.
DropNewest(q, item) == IF Full(q) THEN q ELSE Append(q, item)

\* put_nowait, after dropping the oldest item of a full queue.
PutDroppingOldest(q, item) == Append(IF Full(q) THEN Tail(q) ELSE q, item)

\* Mutants: the loop over subscribers stops at the first overflow; the sentinel
\* of an overflowed subscriber is not sent.
ServedUpTo(dead) == IF dead = {} THEN subscribers ELSE {}
NoSentinel(q) == q

\* Those whose queue takes the item.
Served(dead) == subscribers \ dead

\* What ends a subscriber that overflowed under fail_fast: its oldest item makes
\* room for the sentinel.
EndOverflowed(q) == Append(Tail(q), None)

\* publish(): every subscriber is served before the overflowed ones are ended
\* and the exception is raised.
Publish ==
    /\ ~closed
    /\ published < MaxPublications
    /\ published' = published + 1
    /\ LET dead == IF config.policy = "fail_fast"
                   THEN {s \in subscribers : Full(queue[s])} ELSE {}
       IN /\ queue' = [s \in Subscribers |->
                         IF s \in dead THEN EndOverflowed(queue[s])
                         ELSE IF s \in Served(dead)
                              THEN PutDroppingOldest(queue[s], published + 1)
                              ELSE queue[s]]
          /\ reader' = [s \in Subscribers |->
                          IF s \in subscribers THEN Wake(reader[s]) ELSE reader[s]]
          /\ subscribers' = subscribers \ dead
          /\ overflowed' = overflowed \cup dead
    /\ UNCHANGED <<config, detached, closed, since, received>>

\* Mutant: the sentinel is put the way publish puts an item.
PutSentinelDropping(q) == PutDroppingOldest(q, None)

\* close() puts the sentinel after what is queued: in a new, unbounded queue if
\* the old one is full, which empties the old one.
PutSentinel(q) == Append(q, None)

Close ==
    /\ ~closed
    /\ ReadersRunFirst => \A s \in subscribers : reader[s] # "woken"
    /\ closed' = TRUE
    /\ queue' = [s \in Subscribers |->
                   IF s \in subscribers THEN PutSentinel(queue[s]) ELSE queue[s]]
    /\ detached' = {s \in subscribers : Full(queue[s]) /\ reader[s] = "woken"}
    /\ reader' = [s \in Subscribers |->
                    IF s \in subscribers THEN Wake(reader[s]) ELSE reader[s]]
    /\ subscribers' = {}
    /\ UNCHANGED <<config, published, since, received, overflowed>>

\* Mutant: the sentinel is yielded like an item.
YieldAll(s) ==
    /\ queue[s] # <<>>
    /\ queue' = [queue EXCEPT ![s] = Tail(@)]
    /\ reader' = [reader EXCEPT ![s] = "ready"]
    /\ received' = [received EXCEPT ![s] = Append(@, Head(queue[s]))]
    /\ UNCHANGED subscribers

\* get() on a queue that is not empty, then the generator yields the item, or
\* ends at the sentinel and leaves the set of subscribers.
Take(s) ==
    /\ queue[s] # <<>>
    /\ queue' = [queue EXCEPT ![s] = Tail(@)]
    /\ IF Head(queue[s]) = None
       THEN /\ reader' = [reader EXCEPT ![s] = "done"]
            /\ subscribers' = subscribers \ {s}
            /\ UNCHANGED received
       ELSE /\ reader' = [reader EXCEPT ![s] = "ready"]
            /\ received' = [received EXCEPT ![s] = Append(@, Head(queue[s]))]
            /\ UNCHANGED subscribers

\* get() finds its queue empty and waits on it.
Wait(s) ==
    /\ reader' = [reader EXCEPT ![s] = "waiting"]
    /\ UNCHANGED <<subscribers, queue, received>>

\* The task asks for the next item.
NextItem(s) ==
    /\ reader[s] = "ready"
    /\ Take(s) \/ (queue[s] = <<>> /\ Wait(s))
    /\ UNCHANGED <<config, detached, closed, published, since, overflowed>>

\* A woken get() runs: it checks the queue object it was called on.
Run(s) ==
    /\ reader[s] = "woken"
    /\ IF s \in detached THEN Wait(s) ELSE Take(s)
    /\ UNCHANGED <<config, detached, closed, published, since, overflowed>>

\* The task leaves its async-for loop; the generator, and with it the
\* subscription, remains until it is finalized.
Abandon(s) ==
    /\ reader[s] = "ready"
    /\ reader' = [reader EXCEPT ![s] = "abandoned"]
    /\ UNCHANGED <<config, subscribers, queue, detached, closed, published, since,
                   received, overflowed>>

\* _iter's finally clause runs: the abandoned generator is finalized, or the task
\* was cancelled in get().
Finalize(s) ==
    /\ reader[s] \in {"abandoned", "waiting", "woken"}
    /\ reader' = [reader EXCEPT ![s] = "left"]
    /\ subscribers' = subscribers \ {s}
    /\ UNCHANGED <<config, queue, detached, closed, published, since, received, overflowed>>

Next ==
    \/ \E s \in Subscribers :
         Subscribe(s) \/ NextItem(s) \/ Run(s) \/ Abandon(s) \/ Finalize(s)
    \/ Publish
    \/ Close

\* Readers keep reading; nothing is assumed of publications, of close, or of the
\* finalization of abandoned generators.
Fairness == \A s \in Subscribers : WF_vars(NextItem(s) \/ Run(s))

Spec == Init /\ [][Next]_vars /\ Fairness

-------------------------------------------------------------------------------
(* Properties *)

\* A subscriber's queue holds the most recent publications, in order and without
\* a hole, and never more than its size: dropping loses only from the front.
QueueIsLatest ==
    \A s \in subscribers :
        /\ Len(queue[s]) <= config.queueSize
        /\ \A i \in DOMAIN queue[s] :
             queue[s][i] = published - Len(queue[s]) + i

\* Under fail_fast a subscriber loses nothing while it is subscribed, whichever
\* others overflow during the same publication.
HealthySubscribersLoseNothing ==
    config.policy = "fail_fast" =>
        \A s \in subscribers :
            received[s] \o queue[s] =
                [i \in 1 .. (published - since[s]) |-> since[s] + i]

Reading(s) == reader[s] \in {"ready", "waiting", "woken"}

\* The sentinel close() adds does not displace data: what a reader has received
\* and will find queued ends with the last publication, then the sentinel.
CloseKeepsLatest ==
    \A s \in Subscribers \ overflowed :
        closed /\ Reading(s) =>
            LET stream == <<since[s]>> \o received[s] \o queue[s]
            IN Last(stream) = None /\ Last(Front(stream)) = published

\* After close(), or an overflow under fail_fast, the stream of every reader that
\* keeps reading ends.
StreamsEnd ==
    \A s \in Subscribers :
        Reading(s) /\ (closed \/ s \in overflowed) ~> ~Reading(s)

===============================================================================
