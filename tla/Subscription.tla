------------------------------ MODULE Subscription ------------------------------
(***************************************************************************)
(* Consumers of a replica: NiriState.subscribe (api/state.py), watch and    *)
(* wait_until (api/waiters.py), each over a subscription to the broadcaster, *)
(* and the publications of the replica up to the last one.                  *)
(*                                                                         *)
(* subscribe is an asynchronous generator: it yields the current snapshot,  *)
(* and registers with the broadcaster only when it is asked for the next     *)
(* item.  The replica publishes meanwhile.  wait_until hands nothing to its  *)
(* caller, so from its first look at the replica to its first suspension in  *)
(* queue.get() it is one step, and so is each burst of queued snapshots.     *)
(***************************************************************************)
EXTENDS Broadcaster, FiniteSetsExt

CONSTANTS
    Kinds,               \* how the subscriptions may be consumed
    Snapshots,           \* what the replica may publish before its last snapshot
    WaitHealthPolicies   \* configurations a waiter may be given

Terminal == {"failed", "closed"}
Snapshot == [health : {"live", "stale", "resyncing"} \cup Terminal, matches : BOOLEAN]

ASSUME SubscriptionAssumption ==
    /\ Kinds \subseteq [Subscribers -> {"subscribe", "watch", "wait_until"}]
    /\ Snapshots \subseteq {s \in Snapshot : s.health \notin Terminal}
    /\ WaitHealthPolicies \subseteq {"live_only", "allow_stale"}

VARIABLES
    kind,       \* how each subscription is consumed
    policy,     \* wait_health_policy
    log,        \* the snapshots published; their numbers stand for their revisions
    stage,      \* how far the replica is on its way to its last publication
    offered,    \* what each consumer was given before it registered
    outcome     \* how each wait_until ended

consumption == <<kind, policy, log, stage, offered, outcome>>
allVars == <<vars, consumption>>

Outcomes == {"none", "returned", "lifecycle_error", "stream_ended", "timed_out"}

ConsumersOK ==
    /\ TypeOK
    /\ kind \in Kinds
    /\ policy \in WaitHealthPolicies
    /\ log \in Seq(Snapshot) /\ Len(log) = published
    /\ stage \in {"running", "failing", "closing", "over"}
    /\ offered \in [Subscribers -> Seq(1 .. MaxPublications)]
    /\ outcome \in [Subscribers -> Outcomes]

ConsumersInit ==
    /\ Init
    /\ kind \in Kinds
    /\ policy \in WaitHealthPolicies
    /\ log = <<>>
    /\ stage = "running"
    /\ offered = [s \in Subscribers |-> <<>>]
    /\ outcome = [s \in Subscribers |-> "none"]

-------------------------------------------------------------------------------
(* The replica *)

Ending(health) == [health |-> health, matches |-> FALSE]

\* A snapshot becomes the current one and is published.
Publishes(snapshot) ==
    /\ Publish
    /\ log' = Append(log, snapshot)
    /\ UNCHANGED <<kind, policy, offered, outcome>>

Overflows == overflowed' # overflowed

\* An event, a desync, or a refresh is published.  If that raises, the mutation
\* loop goes on to _fail in the same step; a refresh only raises to its caller.
PublishSnapshot ==
    /\ stage = "running"
    /\ published + 1 < MaxPublications
    /\ \E s \in Snapshots : Publishes(s)
    /\ stage' \in IF Overflows THEN {"running", "failing"} ELSE {"running"}

\* _fail.  A later close() raises what the loop died of, before it reaches the
\* broadcaster.
Fail ==
    /\ stage \in {"running", "failing"}
    /\ log # <<>>
    /\ Publishes(Ending("failed"))
    /\ stage' = "over"

\* Mutant: the subscribers are not told.
CloseSilently ==
    /\ stage = "running"
    /\ stage' = "closing"
    /\ UNCHANGED <<vars, kind, policy, log, offered, outcome>>

\* close() publishes CLOSED, and goes on to the broadcaster unless that raises.
CloseReplica ==
    /\ stage = "running"
    /\ log # <<>>
    /\ Publishes(Ending("closed"))
    /\ stage' = IF Overflows THEN "over" ELSE "closing"

\* The connection and the coordinator are closed: the broadcaster follows.  A
\* replica that never connected closes it at once.
CloseBroadcaster ==
    /\ stage = "closing" \/ (stage = "running" /\ log = <<>>)
    /\ Close
    /\ stage' = "over"
    /\ UNCHANGED <<kind, policy, log, offered, outcome>>

Replica == PublishSnapshot \/ Fail \/ CloseReplica \/ CloseBroadcaster

-------------------------------------------------------------------------------
(* Consumers.  Revision 0 stands for a _snapshot that is None. *)

Current == Len(log)
Starts(s, k) == kind[s] = k /\ reader[s] = "none" /\ offered[s] = <<>>
Resumes(s, k) == kind[s] = k /\ reader[s] = "none" /\ offered[s] # <<>>

\* The consumer is given the current snapshot, and is not registered.
Offers(s) ==
    /\ offered' = [offered EXCEPT ![s] = Append(@, Current)]
    /\ UNCHANGED vars

\* It registers, and its get() waits on the new, empty queue.
RegistersAndWaits(s) ==
    /\ Registers(s, "waiting")
    /\ UNCHANGED <<config, queue, detached, closed, published, received, overflowed>>

\* subscribe() before connect has no snapshot to yield, and registers at once.
SubscribeStarts(s) ==
    /\ Starts(s, "subscribe")
    /\ IF log = <<>> THEN RegistersAndWaits(s) /\ UNCHANGED offered ELSE Offers(s)
    /\ UNCHANGED <<kind, policy, log, stage, outcome>>

SubscribeResumes(s) ==
    /\ Resumes(s, "subscribe")
    /\ RegistersAndWaits(s)
    /\ UNCHANGED consumption

\* Before connect, watch() raises.
WatchStarts(s) ==
    /\ Starts(s, "watch")
    /\ log # <<>>
    /\ Offers(s)
    /\ UNCHANGED <<kind, policy, log, stage, outcome>>

\* Mutant: the first item of the subscription is yielded in any case.
IsNews(s) == Len(offered[s]) = 1

\* The first item of its subscription is yielded unless it is the one already
\* yielded.
IsNew(s) == Len(offered[s]) = 1 /\ Last(offered[s]) # Current

WatchResumes(s) ==
    /\ Resumes(s, "watch")
    /\ IF IsNew(s) THEN Offers(s) ELSE RegistersAndWaits(s) /\ UNCHANGED offered
    /\ UNCHANGED <<kind, policy, log, stage, outcome>>

\* The consumer reads on, leaves its loop, or is cancelled.
Iterates(s) ==
    /\ kind[s] # "wait_until"
    /\ NextItem(s) \/ Run(s)
    /\ UNCHANGED consumption
Leaves(s) ==
    /\ kind[s] # "wait_until"
    /\ Abandon(s) \/ Finalize(s)
    /\ UNCHANGED consumption

-------------------------------------------------------------------------------
(* wait_until *)

\* _health_allows_wait, and the predicate.
Satisfies(snapshot) ==
    /\ snapshot.health \in IF policy = "allow_stale" THEN {"live", "stale"} ELSE {"live"}
    /\ snapshot.matches

Decisive(snapshot) == Satisfies(snapshot) \/ snapshot.health \in Terminal

Verdict(snapshot) ==
    IF snapshot.health \in Terminal THEN "lifecycle_error" ELSE "returned"

\* The current snapshot is tested, again as the first item of the subscription,
\* and then the waiter is registered.
WaitStarts(s) ==
    /\ Starts(s, "wait_until")
    /\ log # <<>>
    /\ offered' = [offered EXCEPT ![s] = <<Current>>]
    /\ IF Decisive(Last(log))
       THEN /\ outcome' = [outcome EXCEPT ![s] = Verdict(Last(log))]
            /\ UNCHANGED vars
       ELSE /\ RegistersAndWaits(s)
            /\ outcome' = [outcome EXCEPT ![s] = IF closed THEN "stream_ended" ELSE @]
    /\ UNCHANGED <<kind, policy, log, stage>>

\* Mutant: a snapshot that will never change is passed over.
StopsAtMatch(q) == {i \in DOMAIN q : q[i] = None \/ Satisfies(log[q[i]])}

\* Where in queue q a waiter stops.
StopsAt(q) == {i \in DOMAIN q : q[i] = None \/ Decisive(log[q[i]])}

\* A woken waiter takes what is queued, up to an item that decides, and leaves its
\* generators to be finalized; or, with nothing decisive, waits again.
WaitRuns(s) ==
    /\ kind[s] = "wait_until"
    /\ reader[s] = "woken"
    /\ IF s \in detached THEN Wait(s) /\ UNCHANGED outcome
       ELSE IF StopsAt(queue[s]) = {}
       THEN /\ received' = [received EXCEPT ![s] = @ \o queue[s]]
            /\ queue' = [queue EXCEPT ![s] = <<>>]
            /\ reader' = [reader EXCEPT ![s] = "waiting"]
            /\ UNCHANGED <<subscribers, outcome>>
       ELSE LET k == Min(StopsAt(queue[s]))
                item == queue[s][k]
            IN /\ queue' = [queue EXCEPT ![s] = SubSeq(@, k + 1, Len(@))]
               /\ received' = [received EXCEPT ![s] =
                    @ \o SubSeq(queue[s], 1, IF item = None THEN k - 1 ELSE k)]
               /\ reader' = [reader EXCEPT ![s] =
                               IF item = None THEN "done" ELSE "abandoned"]
               /\ subscribers' = subscribers \ (IF item = None THEN {s} ELSE {})
               /\ outcome' = [outcome EXCEPT ![s] = IF item = None THEN "stream_ended"
                                                   ELSE Verdict(log[item])]
    /\ UNCHANGED <<config, detached, closed, published, since, overflowed>>
    /\ UNCHANGED <<kind, policy, log, stage, offered>>

\* The timeout cancels queue.get(), also one that has been woken.
WaitTimesOut(s) ==
    /\ kind[s] = "wait_until"
    /\ reader[s] \in {"waiting", "woken"}
    /\ Finalize(s)
    /\ outcome' = [outcome EXCEPT ![s] = "timed_out"]
    /\ UNCHANGED <<kind, policy, log, stage, offered>>

WaitFinalized(s) ==
    /\ kind[s] = "wait_until"
    /\ reader[s] = "abandoned"
    /\ Finalize(s)
    /\ UNCHANGED consumption

-------------------------------------------------------------------------------

Consumer(s) ==
    \/ SubscribeStarts(s) \/ SubscribeResumes(s) \/ WatchStarts(s) \/ WatchResumes(s)
    \/ Iterates(s) \/ Leaves(s)
    \/ WaitStarts(s) \/ WaitRuns(s) \/ WaitTimesOut(s) \/ WaitFinalized(s)

\* A publication that overflowed in the loop and the FAILED one are one step.
ConsumersNext ==
    \/ Replica
    \/ stage # "failing" /\ \E s \in Subscribers : Consumer(s)

\* As in Broadcaster: consumers that are given an item ask for the next one.
ConsumersFairness == \A s \in Subscribers : WF_allVars(Iterates(s) \/ WaitRuns(s))

ConsumersSpec == ConsumersInit /\ [][ConsumersNext]_allVars /\ ConsumersFairness

-------------------------------------------------------------------------------
(* Properties *)

\* What consumer s has been given, as revisions.
Seen(s) == offered[s] \o received[s]

\* README.md: "watch() yields snapshots and suppresses duplicate initial
\* publication revisions".  No consumer sees a revision twice or goes back.
SeenInOrder ==
    \A s \in Subscribers : \A i \in 2 .. Len(Seen(s)) : Seen(s)[i - 1] < Seen(s)[i]

\* A waiter sleeps only over a snapshot that says neither yes nor no: nothing
\* published between its first test and its registration, or dropped from a full
\* queue, leaves it asleep.  Under fail_fast it has not slept through one either.
WaitersMissNothing ==
    \A s \in Subscribers :
        kind[s] = "wait_until" /\ reader[s] = "waiting" =>
            /\ ~Decisive(Last(log))
            /\ config.policy = "fail_fast" =>
                 \A n \in Last(offered[s]) .. published : ~Decisive(log[n])

\* wait_until reports a stream that ended as a timeout.  That befalls only a waiter
\* that a fail-fast overflow cut off: any other sees CLOSED or FAILED first.
StreamEndIsOverflow ==
    \A s \in Subscribers : outcome[s] = "stream_ended" => s \in overflowed

\* README.md: "subscribe() yields the current snapshot first, then future
\* publications".  A subscriber that waits for the next publication has been given
\* the current one.
IdleSubscribersAreCurrent ==
    \A s \in Subscribers :
        reader[s] = "waiting" /\ log # <<>> => Last(Seen(s)) = Current

\* What a reader in state r is to its subscription.
Status(r) ==
    CASE r = "none" -> "none"
      [] r \in {"ready", "waiting", "woken"} -> "open"
      [] r \in {"abandoned", "left"} -> "left"
      [] r = "done" -> "over"

Stream == INSTANCE SnapshotStream WITH
    lossless <- (config.policy = "fail_fast"),
    cut <- overflowed,
    status <- [s \in Subscribers |-> Status(reader[s])]

\* What SnapshotStream promises of the steps of a subscription is kept...

ImplementsStream == Stream!Safety

\* ...and of their progress: as long as the consumer reads, what is published reaches
\* it, unless it is dropped, and its stream ends.
StreamsDeliver == Stream!Fairness

===============================================================================
