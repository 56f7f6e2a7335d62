-------------------------- MODULE Subscription_proofs --------------------------
(***************************************************************************)
(* Proofs about Subscription: what its consumers are given and when its      *)
(* waiters sleep, for every set of consumers and snapshots, every queue size *)
(* and policy, and every bound on the publications.                         *)
(*                                                                         *)
(* Every step of a consumer is a step of its broadcaster, or leaves it as it *)
(* is, so that the lines of Broadcaster_proofs keep their invariant.  Over   *)
(* it comes what a consumer was given before it registered, what a waiter    *)
(* has found undecided, and that the last snapshot is terminal.             *)
(***************************************************************************)
EXTENDS Subscription, Broadcaster_proofs, WellFoundedInduction

Concludes == log # <<>> /\ log[Len(log)].health \in Terminal

\* What a consumer was given before it registered was published, grew, and was
\* published before it registered.
Earlier(s) ==
    /\ \A i \in 1 .. Len(offered[s]) : offered[s][i] <= published
    /\ \A i, j \in 1 .. Len(offered[s]) : i < j => offered[s][i] < offered[s][j]
    /\ Reading(s) \/ received[s] # <<>> =>
         \A i \in 1 .. Len(offered[s]) : offered[s][i] <= since[s]

\* A waiter that is registered has tested the snapshot it registered after, and what
\* it received since.
Undecided(s) ==
    kind[s] = "wait_until" /\ Reading(s) =>
        /\ offered[s] = <<since[s]>>
        /\ since[s] \in 1 .. Len(log) /\ ~Decisive(log[since[s]])
        /\ \A i \in 1 .. Len(received[s]) : ~Decisive(log[received[s][i]])

\* The broadcaster is closed only after the terminal snapshot.
Concluded ==
    /\ closed => log = <<>> \/ Concludes
    /\ stage = "closing" => Concludes

ConsumersInv ==
    /\ Lines
    /\ ConsumersOK
    /\ Concluded
    /\ StreamEndIsOverflow
    /\ \A s \in Subscribers : Earlier(s) /\ Undecided(s)

\* A reader sleeps only on an empty queue if close() finds none waiting to run.
Idle ==
    /\ detached = {}
    /\ \A s \in Subscribers : reader[s] = "waiting" => queue[s] = <<>>

-------------------------------------------------------------------------------
(* The replica publishes, and is closed *)

\* What is known of a consumer from its line.
LEMMA ConsumerTypes ==
    ASSUME ConsumersInv, NEW s \in Subscribers
    PROVE  /\ queue[s] \in Seq(Nat) /\ received[s] \in Seq(Nat)
           /\ since[s] \in Nat /\ published \in Nat /\ since[s] <= published
           /\ offered[s] \in Seq(Nat)
           /\ log \in Seq(Snapshot) /\ Len(log) = published
           /\ \A i \in 1 .. Len(received[s]) :
                received[s][i] \in 1 .. published /\ since[s] < received[s][i]
<1>1. /\ queue[s] \in Seq(Nat) /\ received[s] \in Seq(Nat)
      /\ since[s] \in Nat /\ published \in Nat
  BY LineTypes DEF ConsumersInv, Lines
<1>2. since[s] <= published /\ InOrder(queue[s], received[s], since[s], published)
  BY DEF ConsumersInv, Lines, Line
<1>3. offered[s] \in Seq(Nat)
  <2>1. 1 .. MaxPublications \subseteq Nat /\ offered[s] \in Seq(1 .. MaxPublications)
    BY DEF ConsumersInv, ConsumersOK
  <2> QED
    BY <2>1, SeqMonotonic
<1>4. \A i \in 1 .. Len(received[s]) : received[s][i] \in Nat
  BY <1>1, ElementOfSeq
<1>5. \A i \in 1 .. Len(received[s]) :
        received[s][i] \in 1 .. published /\ since[s] < received[s][i]
  BY <1>1, <1>2, <1>4 DEF InOrder
<1> QED
  BY <1>1, <1>2, <1>3, <1>5 DEF ConsumersInv, ConsumersOK

\* A snapshot is published: what consumers have seen keeps its number.
LEMMA PublicationKeeps ==
    ASSUME ConsumersInv, NEW x \in Snapshot, Publishes(x),
           stage' \in {"running", "failing", "closing", "over"},
           stage' = "closing" => x.health \in Terminal
    PROVE  ConsumersInv'
<1>1. Lines'
  BY PublishKeepsLines DEF ConsumersInv, Publishes
<1>2. /\ log \in Seq(Snapshot) /\ Len(log) = published /\ published \in Nat
      /\ log' = Append(log, x) /\ published' = published + 1
      /\ UNCHANGED <<kind, policy, offered, outcome, closed, since, received>>
      /\ ~closed /\ overflowed \subseteq overflowed'
  BY QueueAssumption DEF ConsumersInv, ConsumersOK, TypeOK, Publishes, Publish
<1>3. /\ log' \in Seq(Snapshot) /\ Len(log') = Len(log) + 1
      /\ \A i \in 1 .. Len(log) : log'[i] = log[i]
      /\ log'[Len(log) + 1] = x /\ log' # <<>>
  BY <1>2, AppendProperties
<1>4. ConsumersOK'
  BY <1>1, <1>2, <1>3 DEF ConsumersInv, ConsumersOK, Lines
<1>5. Concluded'
  BY <1>2, <1>3 DEF Concluded, Concludes
<1>6. StreamEndIsOverflow'
  BY <1>2 DEF ConsumersInv, StreamEndIsOverflow
<1>7. ASSUME NEW s \in Subscribers PROVE Earlier(s)' /\ Undecided(s)'
  <2>1. Reading(s)' => Reading(s)
    BY DEF Reading, Publishes, Publish, Wake, ConsumersInv, Lines, TypeOK
  <2>2. Earlier(s) /\ Undecided(s)
    BY DEF ConsumersInv
  <2>3. /\ offered[s] \in Seq(Nat) /\ since[s] \in Nat
        /\ \A i \in 1 .. Len(received[s]) : received[s][i] \in 1 .. published
    BY ConsumerTypes
  <2>4. \A i \in 1 .. Len(offered[s]) : offered[s][i] \in Nat
    BY <2>3, ElementOfSeq
  <2>5. \A i \in 1 .. Len(offered[s]) : offered[s][i] <= published + 1
    BY <1>2, <2>2, <2>4 DEF Earlier
  <2>6. Earlier(s)'
    BY <1>2, <2>1, <2>2, <2>5 DEF Earlier
  <2>7. Undecided(s)'
    <3>1. SUFFICES ASSUME kind[s] = "wait_until", Reading(s)
                   PROVE  /\ offered[s] = <<since[s]>>
                          /\ since[s] \in 1 .. Len(log') /\ ~Decisive(log'[since[s]])
                          /\ \A i \in 1 .. Len(received[s]) :
                               ~Decisive(log'[received[s][i]])
      BY <1>2, <2>1 DEF Undecided, Decisive, Satisfies
    <3>2. /\ offered[s] = <<since[s]>>
          /\ since[s] \in 1 .. Len(log) /\ ~Decisive(log[since[s]])
          /\ \A i \in 1 .. Len(received[s]) : ~Decisive(log[received[s][i]])
      BY <2>2, <3>1 DEF Undecided
    <3>3. since[s] \in 1 .. Len(log') /\ log'[since[s]] = log[since[s]]
      BY <1>2, <1>3, <3>2
    <3>4. \A i \in 1 .. Len(received[s]) : log'[received[s][i]] = log[received[s][i]]
      BY <1>2, <1>3, <2>3
    <3> QED
      BY <3>2, <3>3, <3>4
  <2> QED
    BY <2>6, <2>7
<1> QED
  BY <1>1, <1>4, <1>5, <1>6, <1>7 DEF ConsumersInv

(* What the replica does (publishing, failing, closing) keeps what is known of every
   consumer. *)
LEMMA ReplicaKeeps ==
    ASSUME ConsumersInv, Replica
    PROVE  ConsumersInv'
<1>1. CASE PublishSnapshot
  <2>1. PICK x \in Snapshots : Publishes(x)
    BY <1>1 DEF PublishSnapshot
  <2>2. x \in Snapshot
    BY SubscriptionAssumption
  <2>3. stage' \in {"running", "failing"}
    BY <1>1 DEF PublishSnapshot
  <2> QED
    BY <2>1, <2>2, <2>3, PublicationKeeps
<1>2. CASE Fail
  <2>1. Ending("failed") \in Snapshot
    BY DEF Ending, Snapshot, Terminal
  <2>2. Publishes(Ending("failed")) /\ stage' = "over"
    BY <1>2 DEF Fail
  <2> QED
    BY <2>1, <2>2, PublicationKeeps
<1>3. CASE CloseReplica
  <2>1. Ending("closed") \in Snapshot /\ Ending("closed").health \in Terminal
    BY DEF Ending, Snapshot, Terminal
  <2>2. Publishes(Ending("closed")) /\ stage' \in {"over", "closing"}
    BY <1>3 DEF CloseReplica
  <2> QED
    BY <2>1, <2>2, PublicationKeeps
<1>4. CASE CloseBroadcaster
  <2>1. /\ Close /\ stage' = "over"
        /\ UNCHANGED <<kind, policy, log, offered, outcome>>
        /\ stage = "closing" \/ log = <<>>
    BY <1>4 DEF CloseBroadcaster
  <2>2. Lines'
    BY <2>1, CloseKeepsLines DEF ConsumersInv
  <2>3. UNCHANGED <<published, since, received, overflowed>>
    BY <2>1 DEF Close
  <2>4. ConsumersOK'
    BY <2>1, <2>2, <2>3 DEF ConsumersInv, ConsumersOK, Lines
  <2>5. Concluded'
    BY <2>1 DEF ConsumersInv, Concluded, Concludes
  <2>6. StreamEndIsOverflow'
    BY <2>1, <2>3 DEF ConsumersInv, StreamEndIsOverflow
  <2>7. ASSUME NEW s \in Subscribers PROVE Earlier(s)' /\ Undecided(s)'
    <3>1. Reading(s)' => Reading(s)
      BY <2>1 DEF Reading, Close, Wake, ConsumersInv, Lines, TypeOK
    <3> QED
      BY <2>1, <2>3, <3>1 DEF ConsumersInv, Earlier, Undecided, Decisive, Satisfies
  <2> QED
    BY <2>2, <2>4, <2>5, <2>6, <2>7 DEF ConsumersInv
<1> QED
  BY <1>1, <1>2, <1>3, <1>4 DEF Replica

-------------------------------------------------------------------------------
(* Consumers *)

\* A step of one consumer leaves the others as they are.
LEMMA OthersKeep ==
    ASSUME ConsumersInv, NEW s \in Subscribers,
           Lines', ConsumersOK', Earlier(s)', Undecided(s)',
           outcome'[s] = "stream_ended" => s \in overflowed,
           UNCHANGED <<kind, policy, log, stage, closed, published, overflowed>>,
           \A u \in Subscribers \ {s} :
             /\ offered'[u] = offered[u] /\ received'[u] = received[u]
             /\ since'[u] = since[u] /\ reader'[u] = reader[u]
             /\ outcome'[u] = outcome[u]
    PROVE  ConsumersInv'
<1>1. ASSUME NEW u \in Subscribers \ {s} PROVE Earlier(u)' /\ Undecided(u)'
  BY <1>1 DEF ConsumersInv, Earlier, Undecided, Reading, Decisive, Satisfies
<1>2. StreamEndIsOverflow'
  BY DEF ConsumersInv, StreamEndIsOverflow
<1>3. Concluded'
  BY DEF ConsumersInv, Concluded, Concludes
<1> QED
  BY <1>1, <1>2, <1>3 DEF ConsumersInv

\* A consumer is given the current snapshot, and has not registered.
LEMMA OffersKeep ==
    ASSUME ConsumersInv, NEW s \in Subscribers,
           reader[s] = "none", Offers(s), log # <<>>,
           offered[s] = <<>> \/ IsNew(s),
           UNCHANGED <<kind, policy, log, stage, outcome>>
    PROVE  ConsumersInv'
<1> DEFINE o == offered[s]
           c == published
<1>1. /\ o \in Seq(Nat) /\ Len(o) \in Nat /\ c \in Nat
      /\ log \in Seq(Snapshot) /\ Len(log) = c
  BY ConsumerTypes
<1>2. c # 0 /\ c \in 1 .. MaxPublications /\ Current = c
  BY <1>1, EmptySeq, QueueAssumption DEF ConsumersInv, ConsumersOK, TypeOK, Current
<1>3. /\ offered' = [offered EXCEPT ![s] = Append(o, c)]
      /\ UNCHANGED vars
  BY <1>2 DEF Offers
<1>4. Lines'
  BY <1>3, StutterKeepsLines DEF ConsumersInv
<1>5. offered \in [Subscribers -> Seq(1 .. MaxPublications)]
  BY DEF ConsumersInv, ConsumersOK
<1>6. Append(o, c) \in Seq(1 .. MaxPublications)
  BY <1>2, <1>5, AppendProperties
<1>7. ConsumersOK'
  BY <1>3, <1>4, <1>5, <1>6 DEF ConsumersInv, ConsumersOK, Lines, vars
<1>8. /\ Len(Append(o, c)) = Len(o) + 1
      /\ \A i \in 1 .. Len(o) : Append(o, c)[i] = o[i]
      /\ Append(o, c)[Len(o) + 1] = c
  BY <1>1, Appended
<1>9. ~Reading(s) /\ received[s] = <<>>
  BY DEF ConsumersInv, Lines, Line, Reading
<1>10. Earlier(s)'
  <2> DEFINE p == Append(o, c)
  <2>1. offered'[s] = p /\ UNCHANGED <<published, reader, received>>
    BY <1>3, <1>5 DEF vars
  <2>2. /\ \A i \in 1 .. Len(o) : o[i] <= c /\ o[i] \in Nat
        /\ Len(o) = 0 \/ (Len(o) = 1 /\ o[1] # c)
    BY <1>1, <1>2, ElementOfSeq DEF ConsumersInv, Earlier, IsNew, Last
  <2>3. /\ Len(p) = Len(o) + 1
        /\ \A i \in 1 .. Len(o) : p[i] = o[i]
        /\ p[Len(o) + 1] = c
    BY <1>8
  <2> HIDE DEF p, o, c
  <2>4. CASE Len(o) = 0
    <3>1. \A i \in 1 .. Len(p) : p[i] = c
      BY <2>3, <2>4
    <3>2. ~\E i, j \in 1 .. Len(p) : i < j
      BY <2>3, <2>4
    <3> QED
      BY <1>1, <1>9, <2>1, <3>1, <3>2 DEF Earlier, Reading, c
  <2>5. CASE Len(o) = 1
    <3>1. Len(p) = 2 /\ p[1] = o[1] /\ p[2] = c /\ o[1] < c /\ o[1] \in Nat
      BY <1>1, <2>2, <2>3, <2>5
    <3>2. \A i \in 1 .. Len(p) : i = 1 \/ i = 2
      BY <3>1
    <3>3. \A i \in 1 .. Len(p) : p[i] <= c
      BY <1>1, <3>1, <3>2
    <3>4. \A i, j \in 1 .. Len(p) : i < j => p[i] < p[j]
      BY <3>1, <3>2
    <3> QED
      BY <1>9, <2>1, <3>3, <3>4 DEF Earlier, Reading, c
  <2> QED
    BY <2>2, <2>4, <2>5
<1>11. Undecided(s)'
  BY <1>3, <1>9 DEF Undecided, Reading, vars
<1>12. \A u \in Subscribers \ {s} : offered'[u] = offered[u]
  BY <1>3, <1>5
<1>13. outcome[s] = "stream_ended" => s \in overflowed
  BY DEF ConsumersInv, StreamEndIsOverflow
<1> QED
  BY <1>3, <1>4, <1>7, <1>10, <1>11, <1>12, <1>13, OthersKeep DEF vars

\* A consumer registers: what it was given before is older than what it will receive.
LEMMA RegistersKeeps ==
    ASSUME ConsumersInv, NEW s \in Subscribers,
           reader[s] = "none", RegistersAndWaits(s), kind[s] # "wait_until",
           UNCHANGED consumption
    PROVE  ConsumersInv'
<1>1. /\ Registers(s, "waiting")
      /\ UNCHANGED <<config, queue, detached, closed, published, received, overflowed>>
      /\ UNCHANGED <<kind, policy, log, stage, offered, outcome>>
  BY DEF RegistersAndWaits, consumption
<1>2. Lines'
  BY <1>1, Registered DEF ConsumersInv
<1>3. ConsumersOK'
  BY <1>1, <1>2 DEF ConsumersInv, ConsumersOK, Lines
<1>4. received[s] = <<>>
  BY DEF ConsumersInv, Lines, Line
<1>5. \/ reader'[s] = "done" /\ since'[s] = since[s]
      \/ since'[s] = published
  BY <1>1 DEF Registers, ConsumersInv, Lines, TypeOK
<1>6. Earlier(s)'
  BY <1>1, <1>4, <1>5 DEF ConsumersInv, Earlier, Reading
<1>7. Undecided(s)'
  BY <1>1 DEF Undecided
<1>8. \A u \in Subscribers \ {s} : reader'[u] = reader[u] /\ since'[u] = since[u]
  BY <1>1 DEF Registers, ConsumersInv, Lines, TypeOK
<1>9. outcome[s] = "stream_ended" => s \in overflowed
  BY DEF ConsumersInv, StreamEndIsOverflow
<1> QED
  BY <1>1, <1>2, <1>3, <1>6, <1>7, <1>8, <1>9, OthersKeep

(* What a subscriber or a watcher does keeps what is known of every consumer. *)
LEMMA IteratesKeeps ==
    ASSUME ConsumersInv, NEW s \in Subscribers, Iterates(s)
    PROVE  ConsumersInv'
<1>1. /\ kind[s] # "wait_until"
      /\ Take(s) \/ Wait(s)
      /\ reader[s] \in {"ready", "woken"} /\ Reading(s)
      /\ UNCHANGED <<config, detached, closed, published, since, overflowed>>
      /\ UNCHANGED <<kind, policy, log, stage, offered, outcome>>
  BY DEF Iterates, NextItem, Run, Reading, consumption
<1>2. Lines'
  BY NextItemKeepsLines DEF ConsumersInv, Iterates
<1>3. ConsumersOK'
  BY <1>1, <1>2 DEF ConsumersInv, ConsumersOK, Lines
<1>4. Earlier(s)'
  <2>1. /\ \A i \in 1 .. Len(offered[s]) : offered[s][i] <= published
        /\ \A i, j \in 1 .. Len(offered[s]) : i < j => offered[s][i] < offered[s][j]
        /\ \A i \in 1 .. Len(offered[s]) : offered[s][i] <= since[s]
    BY <1>1 DEF ConsumersInv, Earlier
  <2>2. UNCHANGED <<offered, published, since>>
    BY <1>1
  <2> QED
    BY <2>1, <2>2 DEF Earlier
<1>5. Undecided(s)'
  BY <1>1 DEF Undecided
<1>6. \A u \in Subscribers \ {s} : reader'[u] = reader[u] /\ received'[u] = received[u]
  BY <1>1 DEF Take, Wait, ConsumersInv, Lines, TypeOK
<1>7. outcome[s] = "stream_ended" => s \in overflowed
  BY DEF ConsumersInv, StreamEndIsOverflow
<1> QED
  BY <1>1, <1>2, <1>3, <1>4, <1>5, <1>6, <1>7, OthersKeep

\* A consumer leaves: nothing is asked of it any more.
LEMMA LeavingKeeps ==
    ASSUME ConsumersInv, NEW s \in Subscribers, Abandon(s) \/ Finalize(s),
           UNCHANGED <<kind, policy, log, stage, offered>>,
           outcome' = outcome \/ outcome' = [outcome EXCEPT ![s] = "timed_out"]
    PROVE  ConsumersInv'
<1>1. Lines'
  BY LeavingKeepsLines DEF ConsumersInv
<1>2. UNCHANGED <<closed, published, since, received, overflowed>>
  BY DEF Abandon, Finalize
<1>3. /\ outcome' \in [Subscribers -> Outcomes]
      /\ outcome'[s] = "stream_ended" => outcome[s] = "stream_ended"
      /\ \A u \in Subscribers \ {s} : outcome'[u] = outcome[u]
  BY DEF ConsumersInv, ConsumersOK, Outcomes
<1>4. ConsumersOK'
  BY <1>1, <1>2, <1>3 DEF ConsumersInv, ConsumersOK, Lines
<1>5. reader'[s] \in {"abandoned", "left"} /\ reader[s] # "none"
  BY DEF Abandon, Finalize, ConsumersInv, Lines, TypeOK
<1>6. Earlier(s)' /\ Undecided(s)'
  BY <1>2, <1>5 DEF ConsumersInv, Earlier, Undecided, Reading
<1>7. \A u \in Subscribers \ {s} : reader'[u] = reader[u]
  BY DEF Abandon, Finalize, ConsumersInv, Lines, TypeOK
<1>8. outcome'[s] = "stream_ended" => s \in overflowed
  BY <1>3 DEF ConsumersInv, StreamEndIsOverflow
<1> QED
  BY <1>1, <1>2, <1>3, <1>4, <1>6, <1>7, <1>8, OthersKeep

\* wait_until starts: the snapshot it has tested is the one it registers after.  On a
\* closed broadcaster that snapshot is terminal, so that its stream is never empty.
LEMMA WaitStartsKeeps ==
    ASSUME ConsumersInv, NEW s \in Subscribers, WaitStarts(s)
    PROVE  ConsumersInv'
<1> DEFINE c == published
<1>1. /\ kind[s] = "wait_until" /\ reader[s] = "none" /\ log # <<>>
      /\ offered' = [offered EXCEPT ![s] = <<Current>>]
      /\ UNCHANGED <<kind, policy, log, stage>>
  BY DEF WaitStarts, Starts
<1>2. c \in Nat /\ log \in Seq(Snapshot) /\ Len(log) = c
  BY ConsumerTypes
<1>3. c # 0 /\ c \in 1 .. MaxPublications /\ c \in 1 .. Len(log) /\ Current = c
  BY <1>1, <1>2, EmptySeq, QueueAssumption DEF ConsumersInv, ConsumersOK, TypeOK, Current
<1>4. /\ offered \in [Subscribers -> Seq(1 .. MaxPublications)]
      /\ outcome \in [Subscribers -> Outcomes]
  BY DEF ConsumersInv, ConsumersOK
<1>5. <<c>> \in Seq(1 .. MaxPublications)
  BY <1>3
<1>6. /\ offered' \in [Subscribers -> Seq(1 .. MaxPublications)]
      /\ offered'[s] = <<c>>
      /\ \A u \in Subscribers \ {s} : offered'[u] = offered[u]
  BY <1>1, <1>3, <1>4, <1>5
<1>7. ~Reading(s) /\ received[s] = <<>> /\ queue[s] = <<>>
  BY <1>1 DEF ConsumersInv, Lines, Line, Reading
<1>8. outcome[s] = "stream_ended" => s \in overflowed
  BY DEF ConsumersInv, StreamEndIsOverflow
<1>9. ASSUME since'[s] = c \/ ~Reading(s)', published' = c, received'[s] = <<>>
      PROVE  Earlier(s)'
  <2>1. Len(offered'[s]) = 1 /\ \A i \in 1 .. 1 : offered'[s][i] = c
    BY <1>6
  <2>2. ~\E i, j \in 1 .. 1 : i < j
    OBVIOUS
  <2> QED
    BY <1>2, <1>9, <2>1, <2>2 DEF Earlier
<1>10. CASE Decisive(Last(log))
  <2>1. /\ outcome' = [outcome EXCEPT ![s] = Verdict(Last(log))]
        /\ UNCHANGED vars
    BY <1>10 DEF WaitStarts
  <2>2. Verdict(Last(log)) \in {"lifecycle_error", "returned"}
    BY DEF Verdict
  <2>3. /\ outcome' \in [Subscribers -> Outcomes] /\ outcome'[s] # "stream_ended"
        /\ \A u \in Subscribers \ {s} : outcome'[u] = outcome[u]
    BY <1>4, <2>1, <2>2 DEF Outcomes
  <2>4. Lines'
    BY <2>1, StutterKeepsLines DEF ConsumersInv
  <2>5. UNCHANGED <<closed, published, reader, received, since, overflowed>>
    BY <2>1 DEF vars
  <2>6. ConsumersOK'
    BY <1>1, <1>6, <2>3, <2>4, <2>5 DEF ConsumersInv, ConsumersOK, Lines
  <2>7. Earlier(s)' /\ Undecided(s)'
    BY <1>7, <1>9, <2>5 DEF Undecided, Reading
  <2> QED
    BY <1>1, <1>6, <2>3, <2>4, <2>5, <2>6, <2>7, OthersKeep
<1>11. CASE ~Decisive(Last(log))
  <2>1. ~closed
    <3>1. Concludes => Decisive(Last(log))
      BY DEF Concludes, Decisive, Last
    <3> QED
      BY <1>1, <1>11, <3>1 DEF ConsumersInv, Concluded
  <2>2. /\ Registers(s, "waiting")
        /\ UNCHANGED <<config, queue, detached, closed, published, received, overflowed>>
        /\ outcome' = [outcome EXCEPT ![s] = outcome[s]]
    BY <1>11, <2>1 DEF WaitStarts, RegistersAndWaits
  <2>3. Lines'
    BY <1>1, <2>2, Registered DEF ConsumersInv
  <2>4. outcome' = outcome
    BY <1>4, <2>2
  <2>5. since'[s] = c
    BY <2>1, <2>2 DEF Registers, ConsumersInv, Lines, TypeOK
  <2>6. \A u \in Subscribers \ {s} : reader'[u] = reader[u] /\ since'[u] = since[u]
    BY <2>2 DEF Registers, ConsumersInv, Lines, TypeOK
  <2>7. ConsumersOK'
    BY <1>1, <1>6, <2>2, <2>3, <2>4 DEF ConsumersInv, ConsumersOK, Lines
  <2>8. Earlier(s)'
    BY <1>7, <1>9, <2>2, <2>5
  <2>9. Undecided(s)'
    <3>1. /\ offered'[s] = <<since'[s]>> /\ since'[s] \in 1 .. Len(log')
          /\ \A i \in 1 .. Len(received'[s]) : FALSE
      BY <1>1, <1>3, <1>6, <1>7, <2>2, <2>5
    <3>2. ~Decisive(log[c])
      BY <1>2, <1>11 DEF Last
    <3>3. ~Decisive(log[since[s]])'
      BY <1>1, <2>5, <3>2 DEF Decisive, Satisfies
    <3> QED
      BY <3>1, <3>3 DEF Undecided
  <2> QED
    BY <1>1, <1>6, <1>8, <2>2, <2>3, <2>4, <2>6, <2>7, <2>8, <2>9, OthersKeep
<1> QED
  BY <1>10, <1>11

(* A set of numbers that is not empty has a least one: WaitRuns stops at the first
   item that ends it. *)
LEMMA LeastNatural ==
    ASSUME NEW T \in SUBSET Nat, T # {}
    PROVE  Min(T) \in T /\ \A y \in T : Min(T) <= y
<1> DEFINE R == OpToRel(<, Nat)
<1>1. IsWellFoundedOn(R, Nat)
  BY NatLessThanWellFounded
<1>2. \A x, y \in Nat : y < x => <<y, x>> \in R
  BY DEF OpToRel
<1> HIDE DEF R
<1>3. PICK x \in T : \A y \in T : <<y, x>> \notin R
  BY <1>1, WFMin
<1>4. ASSUME NEW y \in T PROVE x <= y
  <2>1. x \in Nat /\ y \in Nat
    OBVIOUS
  <2>2. ~(y < x)
    BY <1>2, <1>3, <2>1
  <2> QED
    BY <2>1, <2>2
<1> QED
  BY <1>3, <1>4 DEF Min

\* Where a waiter stops, and what it passes over.
LEMMA WaiterStops ==
    ASSUME NEW q \in Seq(Nat)
    PROVE  /\ StopsAt(q) = {} =>
                \A i \in 1 .. Len(q) : q[i] # None /\ ~Decisive(log[q[i]])
           /\ StopsAt(q) # {} =>
                LET k == Min(StopsAt(q))
                IN /\ k \in 1 .. Len(q)
                   /\ q[k] = None \/ Decisive(log[q[k]])
                   /\ \A i \in 1 .. k - 1 : q[i] # None /\ ~Decisive(log[q[i]])
<1>1. StopsAt(q) = {i \in 1 .. Len(q) : q[i] = None \/ Decisive(log[q[i]])}
  BY LenProperties DEF StopsAt
<1>2. Len(q) \in Nat
  OBVIOUS
<1>3. ASSUME StopsAt(q) # {}
      PROVE  LET k == Min(StopsAt(q))
             IN /\ k \in 1 .. Len(q)
                /\ q[k] = None \/ Decisive(log[q[k]])
                /\ \A i \in 1 .. k - 1 : q[i] # None /\ ~Decisive(log[q[i]])
  <2> DEFINE k == Min(StopsAt(q))
  <2>1. StopsAt(q) \in SUBSET Nat
    BY <1>1, <1>2
  <2>2. k \in StopsAt(q) /\ \A i \in StopsAt(q) : k <= i
    BY <1>3, <2>1, LeastNatural
  <2> HIDE DEF k
  <2>3. k \in 1 .. Len(q) /\ (q[k] = None \/ Decisive(log[q[k]]))
    BY <1>1, <2>2
  <2>4. ASSUME NEW i \in 1 .. k - 1 PROVE q[i] # None /\ ~Decisive(log[q[i]])
    <3>1. i \in 1 .. Len(q) /\ ~(k <= i)
      BY <1>2, <2>3
    <3>2. i \notin StopsAt(q)
      BY <2>2, <3>1
    <3> QED
      BY <1>1, <3>1, <3>2
  <2> QED
    BY <2>3, <2>4 DEF k
<1> QED
  BY <1>1, <1>3

\* A waiter whose stream ends was cut off: the sentinel of close() comes after the
\* terminal snapshot, which it would have stopped at.
LEMMA EndsAreOverflows ==
    ASSUME ConsumersInv, NEW s \in Subscribers, Reading(s), kind[s] = "wait_until",
           NEW k \in 1 .. Len(queue[s]), queue[s][k] = None,
           \A i \in 1 .. k - 1 : ~Decisive(log[queue[s][i]])
    PROVE  s \in overflowed
<1> SUFFICES ASSUME s \notin overflowed PROVE FALSE
  OBVIOUS
<1> DEFINE q == queue[s]
           r == received[s]
           a == since[s]
           n == published
<1>1. /\ q \in Seq(Nat) /\ r \in Seq(Nat) /\ a \in Nat /\ n \in Nat
      /\ Len(q) \in Nat /\ Len(r) \in Nat /\ Len(log) = n
      /\ (r = <<>> <=> Len(r) = 0)
  BY ConsumerTypes, EmptySeq
<1>2. s \notin subscribers
  <2>1. s \in subscribers => HasNoSentinel(q)
    BY <1>1, RecentIsData DEF ConsumersInv, Lines, Line
  <2> QED
    BY <2>1 DEF HasNoSentinel
<1>3. closed /\ Finishing(q, r, a, n) /\ InOrder(q, r, a, n)
  BY <1>2 DEF ConsumersInv, Lines, Line
<1>4. k = Len(q)
  <2>1. k < Len(q) => FALSE
    <3>1. k < Len(q) => Len(q) \in 1 .. Len(q)
      BY <1>1
    <3> QED
      BY <1>3, <3>1 DEF InOrder
  <2> QED
    BY <1>1, <2>1
<1>5. Undecided(s) /\ Concluded
  BY DEF ConsumersInv
<1>6. /\ a \in 1 .. n /\ ~Decisive(log[a])
      /\ \A i \in 1 .. Len(r) : ~Decisive(log[r[i]])
  BY <1>1, <1>5 DEF Undecided
<1>7. Decisive(log[n])
  <2>1. log # <<>>
    BY <1>1, <1>6, EmptySeq
  <2> QED
    BY <1>1, <1>3, <1>5, <2>1 DEF Concluded, Concludes, Decisive
<1>8. CASE Len(q) = 1
  <2>1. Latest(r, a) = n
    BY <1>3, <1>8 DEF Finishing
  <2>2. ~Decisive(log[Latest(r, a)])
    <3>1. CASE r = <<>>
      BY <1>6, <3>1 DEF Latest
    <3>2. CASE r # <<>>
      <4>1. Len(r) \in 1 .. Len(r)
        BY <1>1, <3>2
      <4> QED
        BY <1>6, <3>2, <4>1 DEF Latest
    <3> QED
      BY <3>1, <3>2
  <2> QED
    BY <1>7, <2>1, <2>2
<1>9. CASE Len(q) # 1
  <2>1. q[k - 1] = n
    BY <1>3, <1>4, <1>9 DEF Finishing
  <2>2. k - 1 \in 1 .. k - 1
    <3>1. k # 1 /\ k \in Nat /\ k # 0
      BY <1>1, <1>4, <1>9
    <3> QED
      BY <3>1
  <2> QED
    BY <1>7, <2>1, <2>2
<1> QED
  BY <1>8, <1>9

\* A waiter that is given items it does not stop at, or sleeps again, is undecided
\* about what it has received.
LEMMA StillUndecided ==
    ASSUME ConsumersInv, NEW s \in Subscribers, Reading(s), kind[s] = "wait_until",
           NEW k \in 0 .. Len(queue[s]), \A i \in 1 .. k : ~Decisive(log[queue[s][i]]),
           received'[s] = received[s] \o SubSeq(queue[s], 1, k),
           UNCHANGED <<since, kind, policy, log, offered>>
    PROVE  Undecided(s)'
<1> DEFINE q == queue[s]
           r == received[s]
           t == r \o SubSeq(q, 1, k)
<1>1. q \in Seq(Nat) /\ r \in Seq(Nat)
  BY ConsumerTypes
<1>2. /\ Len(t) = Len(r) + k
      /\ \A i \in 1 .. Len(r) : t[i] = r[i]
      /\ \A i \in 1 .. k : t[Len(r) + i] = q[i]
  BY <1>1, Delivered
<1>3. received'[s] = t
  OBVIOUS
<1>4. /\ offered[s] = <<since[s]>>
      /\ since[s] \in 1 .. Len(log) /\ ~Decisive(log[since[s]])
      /\ \A i \in 1 .. Len(r) : ~Decisive(log[r[i]])
  BY DEF ConsumersInv, Undecided
<1> HIDE DEF t
<1>5. ASSUME NEW i \in 1 .. Len(t) PROVE ~Decisive(log[t[i]])
  <2>1. CASE i \in 1 .. Len(r)
    BY <1>2, <1>4, <2>1
  <2>2. CASE ~(i \in 1 .. Len(r))
    <3>1. i - Len(r) \in 1 .. k /\ Len(r) + (i - Len(r)) = i
      <4>1. PICK x \in Nat : x = Len(r)
        BY <1>1
      <4>2. i \in 1 .. x + k /\ ~(i \in 1 .. x) /\ k \in Nat
        BY <1>1, <1>2, <2>2, <4>1
      <4>3. i - x \in 1 .. k /\ x + (i - x) = i
        BY <4>2
      <4> QED
        BY <4>1, <4>3
    <3>2. t[i] = q[i - Len(r)]
      BY <1>2, <3>1
    <3> QED
      BY <3>1, <3>2
  <2> QED
    BY <2>1, <2>2
<1> QED
  BY <1>3, <1>4, <1>5 DEF Undecided, Decisive, Satisfies

\* A woken waiter runs.
LEMMA WaitRunsKeeps ==
    ASSUME ConsumersInv, NEW s \in Subscribers, WaitRuns(s)
    PROVE  ConsumersInv'
<1> DEFINE q == queue[s]
           r == received[s]
           k == Min(StopsAt(q))
<1>1. /\ kind[s] = "wait_until" /\ reader[s] = "woken" /\ Reading(s)
      /\ UNCHANGED <<config, detached, closed, published, since, overflowed>>
      /\ UNCHANGED <<kind, policy, log, stage, offered>>
  BY DEF WaitRuns, Reading
<1>2. q \in Seq(Nat) /\ r \in Seq(Nat) /\ Len(q) \in Nat
  BY ConsumerTypes
<1>3. /\ queue \in [Subscribers -> Seq(0 .. MaxPublications)]
      /\ received \in [Subscribers -> Seq(1 .. MaxPublications)]
      /\ reader \in [Subscribers -> ReaderStates]
      /\ outcome \in [Subscribers -> Outcomes]
  BY DEF ConsumersInv, ConsumersOK, TypeOK
<1>4. r \o SubSeq(q, 1, 0) = r
  BY <1>2, SubSeqEmpty, ConcatEmptySeq
<1>5. SUFFICES /\ Lines' /\ Undecided(s)'
               /\ outcome' \in [Subscribers -> Outcomes]
               /\ outcome'[s] = "stream_ended" => s \in overflowed
               /\ \A u \in Subscribers \ {s} :
                    /\ received'[u] = received[u] /\ reader'[u] = reader[u]
                    /\ outcome'[u] = outcome[u]
  <2>1. ConsumersOK'
    BY <1>1, <1>5 DEF ConsumersInv, ConsumersOK, Lines
  <2>2. Earlier(s)'
    <3>1. /\ \A i \in 1 .. Len(offered[s]) : offered[s][i] <= published
          /\ \A i, j \in 1 .. Len(offered[s]) : i < j => offered[s][i] < offered[s][j]
          /\ \A i \in 1 .. Len(offered[s]) : offered[s][i] <= since[s]
      BY <1>1 DEF ConsumersInv, Earlier
    <3>2. UNCHANGED <<offered, published, since>>
      BY <1>1
    <3> QED
      BY <3>1, <3>2 DEF Earlier
  <2> QED
    BY <1>1, <1>5, <2>1, <2>2, OthersKeep
<1>6. outcome[s] = "stream_ended" => s \in overflowed
  BY DEF ConsumersInv, StreamEndIsOverflow
<1>7. CASE s \in detached
  <2>1. /\ reader' = [reader EXCEPT ![s] = "waiting"]
        /\ UNCHANGED <<subscribers, queue, received, outcome>>
    BY <1>7 DEF WaitRuns, Wait
  <2>2. Lines'
    <3>1. subscribers' = subscribers \ {} /\ reader[s] # "none" /\ {} \in SUBSET {s}
      BY <1>1, <2>1
    <3> QED
      BY <1>1, <2>1, <3>1, ReaderMoves DEF ConsumersInv
  <2>3. Undecided(s)'
    <3>1. 0 \in 0 .. Len(q) /\ \A i \in 1 .. 0 : ~Decisive(log[q[i]])
      BY <1>2
    <3>2. received'[s] = r \o SubSeq(q, 1, 0)
      BY <1>4, <2>1
    <3> QED
      BY <1>1, <3>1, <3>2, StillUndecided
  <2>4. \A u \in Subscribers \ {s} : reader'[u] = reader[u]
    BY <1>3, <2>1
  <2> QED
    BY <1>3, <1>6, <2>1, <2>2, <2>3, <2>4
<1>8. CASE s \notin detached /\ StopsAt(q) = {}
  <2>1. /\ received' = [received EXCEPT ![s] = received[s] \o queue[s]]
        /\ queue' = [queue EXCEPT ![s] = <<>>]
        /\ reader' = [reader EXCEPT ![s] = "waiting"]
        /\ UNCHANGED <<subscribers, outcome>>
    BY <1>8 DEF WaitRuns
  <2>2. /\ SubSeq(q, 1, Len(q)) = q
        /\ SubSeq(q, Len(q) + 1, Len(q)) = <<>>
        /\ Len(q) \in 0 .. Len(q)
    BY <1>2, SubSeqFull, SubSeqEmpty
  <2>3. \A i \in 1 .. Len(q) : q[i] # None /\ ~Decisive(log[q[i]])
    BY <1>2, <1>8, WaiterStops
  <2>4. /\ queue' = [queue EXCEPT ![s] = SubSeq(q, Len(q) + 1, Len(q))]
        /\ received' = [received EXCEPT ![s] = r \o SubSeq(q, 1, Len(q))]
    BY <2>1, <2>2
  <2>5. Lines'
    BY <1>1, <2>1, <2>2, <2>3, <2>4, ReaderTakes DEF ConsumersInv
  <2>6. Undecided(s)'
    <3>1. received'[s] = r \o SubSeq(q, 1, Len(q))
      BY <1>3, <2>4
    <3> QED
      BY <1>1, <2>2, <2>3, <3>1, StillUndecided
  <2>7. \A u \in Subscribers \ {s} : reader'[u] = reader[u] /\ received'[u] = received[u]
    BY <1>3, <2>1
  <2> QED
    BY <1>3, <1>6, <2>1, <2>5, <2>6, <2>7
<1>9. CASE s \notin detached /\ StopsAt(q) # {}
  <2>1. /\ k \in 1 .. Len(q)
        /\ q[k] = None \/ Decisive(log[q[k]])
        /\ \A i \in 1 .. k - 1 : q[i] # None /\ ~Decisive(log[q[i]])
    BY <1>2, <1>9, WaiterStops
  <2>2. /\ queue' = [queue EXCEPT ![s] = SubSeq(queue[s], k + 1, Len(queue[s]))]
        /\ received' = [received EXCEPT ![s] =
             received[s] \o SubSeq(queue[s], 1, IF q[k] = None THEN k - 1 ELSE k)]
        /\ reader' = [reader EXCEPT ![s] =
                        IF q[k] = None THEN "done" ELSE "abandoned"]
        /\ subscribers' = subscribers \ (IF q[k] = None THEN {s} ELSE {})
        /\ outcome' = [outcome EXCEPT ![s] = IF q[k] = None THEN "stream_ended"
                                             ELSE Verdict(log[q[k]])]
    BY <1>9 DEF WaitRuns
  <2> HIDE DEF k
  <2>3. reader'[s] \in {"done", "abandoned"}
    BY <1>3, <2>2
  <2>4. Undecided(s)'
    BY <2>3 DEF Undecided, Reading
  <2>5. \A x : Verdict(x) \in {"returned", "lifecycle_error"}
    BY DEF Verdict
  <2>6. /\ outcome' \in [Subscribers -> Outcomes]
        /\ outcome'[s] = "stream_ended" => q[k] = None
        /\ \A u \in Subscribers \ {s} :
             /\ received'[u] = received[u] /\ reader'[u] = reader[u]
             /\ outcome'[u] = outcome[u]
    <3>1. outcome' \in [Subscribers -> Outcomes]
      BY <1>3, <2>2, <2>5 DEF Outcomes
    <3>2. outcome'[s] = "stream_ended" => q[k] = None
      BY <1>3, <2>2, <2>5
    <3>3. \A u \in Subscribers \ {s} :
            /\ received'[u] = received[u] /\ reader'[u] = reader[u]
            /\ outcome'[u] = outcome[u]
      BY <1>3, <2>2
    <3> QED
      BY <3>1, <3>2, <3>3
  <2>7. CASE q[k] = None
    <3>1. k - 1 \in Nat /\ k - 1 < Len(q) /\ (k - 1) + 2 = k + 1
      BY <1>2, <2>1
    <3>2. /\ queue' = [queue EXCEPT ![s] = SubSeq(queue[s], (k - 1) + 2, Len(queue[s]))]
          /\ received' = [received EXCEPT ![s] =
                            received[s] \o SubSeq(queue[s], 1, k - 1)]
          /\ reader' = [reader EXCEPT ![s] = "done"]
          /\ subscribers' = subscribers \ {s}
      BY <2>2, <2>7, <3>1
    <3>3. Lines'
      BY <1>1, <2>1, <3>1, <3>2, ReaderEnds DEF ConsumersInv
    <3>4. s \in overflowed
      BY <1>1, <2>1, <2>7, EndsAreOverflows
    <3> QED
      BY <2>4, <2>6, <3>3, <3>4
  <2>8. CASE q[k] # None
    <3>1. k \in 0 .. Len(q) /\ \A i \in 1 .. k : q[i] # None
      <4>1. k \in 0 .. Len(q)
        BY <1>2, <2>1
      <4>2. ASSUME NEW i \in 1 .. k PROVE q[i] # None
        <5>1. i = k \/ i \in 1 .. k - 1
          BY <2>1
        <5> QED
          BY <2>1, <2>8, <5>1
      <4> QED
        BY <4>1, <4>2
    <3>2. /\ queue' = [queue EXCEPT ![s] = SubSeq(queue[s], k + 1, Len(queue[s]))]
          /\ received' = [received EXCEPT ![s] = received[s] \o SubSeq(queue[s], 1, k)]
          /\ reader' = [reader EXCEPT ![s] = "abandoned"]
          /\ subscribers' = subscribers
      BY <2>2, <2>8
    <3>3. Lines'
      BY <1>1, <3>1, <3>2, ReaderTakes DEF ConsumersInv
    <3> QED
      BY <2>4, <2>6, <2>8, <3>3
  <2> QED
    BY <2>7, <2>8
<1> QED
  BY <1>7, <1>8, <1>9

-------------------------------------------------------------------------------
(* The invariant *)

(* At first no consumer has asked for anything. *)
LEMMA ConsumersStart == ConsumersInit => ConsumersInv
<1> SUFFICES ASSUME ConsumersInit PROVE ConsumersInv
  OBVIOUS
<1>1. Lines /\ TypeOK
  BY InitLines DEF ConsumersInit, Lines
<1>2. /\ log = <<>> /\ stage = "running" /\ closed = FALSE /\ published = 0
      /\ offered = [s \in Subscribers |-> <<>>]
      /\ outcome = [s \in Subscribers |-> "none"]
      /\ reader = [s \in Subscribers |-> "none"]
      /\ received = [s \in Subscribers |-> <<>>]
  BY DEF ConsumersInit, Init
<1>3. ConsumersOK
  <2>1. offered \in [Subscribers -> Seq(1 .. MaxPublications)]
    BY <1>2, EmptySeq
  <2>2. log \in Seq(Snapshot) /\ Len(log) = published
    BY <1>2, EmptySeq
  <2>3. outcome \in [Subscribers -> Outcomes]
    BY <1>2 DEF Outcomes
  <2> QED
    BY <1>1, <1>2, <2>1, <2>2, <2>3 DEF ConsumersInit, ConsumersOK
<1>4. Concluded /\ StreamEndIsOverflow
  BY <1>2 DEF Concluded, StreamEndIsOverflow
<1>5. ASSUME NEW s \in Subscribers PROVE Earlier(s) /\ Undecided(s)
  <2>1. ~Reading(s) /\ received[s] = <<>> /\ offered[s] = <<>>
    BY <1>2 DEF Reading
  <2> QED
    BY <2>1 DEF Earlier, Undecided
<1> QED
  BY <1>1, <1>3, <1>4, <1>5 DEF ConsumersInv

(* Whatever a consumer does, of any kind, keeps what is known of all of them. *)
LEMMA ConsumerKeeps ==
    ASSUME ConsumersInv, NEW s \in Subscribers, Consumer(s)
    PROVE  ConsumersInv'
<1>1. CASE SubscribeStarts(s)
  <2>1. /\ reader[s] = "none" /\ offered[s] = <<>> /\ kind[s] = "subscribe"
        /\ UNCHANGED <<kind, policy, log, stage, outcome>>
    BY <1>1 DEF SubscribeStarts, Starts
  <2>2. CASE log = <<>>
    <3>1. RegistersAndWaits(s) /\ UNCHANGED consumption
      BY <1>1, <2>1, <2>2 DEF SubscribeStarts, consumption
    <3> QED
      BY <2>1, <3>1, RegistersKeeps
  <2>3. CASE log # <<>>
    <3>1. Offers(s)
      BY <1>1, <2>3 DEF SubscribeStarts
    <3> QED
      BY <2>1, <2>3, <3>1, OffersKeep
  <2> QED
    BY <2>2, <2>3
<1>2. CASE SubscribeResumes(s)
  BY <1>2, RegistersKeeps DEF SubscribeResumes, Resumes
<1>3. CASE WatchStarts(s)
  BY <1>3, OffersKeep DEF WatchStarts, Starts
<1>4. CASE WatchResumes(s)
  <2>1. /\ reader[s] = "none" /\ offered[s] # <<>> /\ kind[s] = "watch"
        /\ UNCHANGED <<kind, policy, log, stage, outcome>>
    BY <1>4 DEF WatchResumes, Resumes
  <2>2. CASE IsNew(s)
    <3>1. log # <<>>
      <4>1. /\ offered[s] \in Seq(1 .. MaxPublications)
            /\ offered[s] \in Seq(Nat)
            /\ published \in Nat /\ Len(log) = published
        BY ConsumerTypes DEF ConsumersInv, ConsumersOK
      <4>2. Len(offered[s]) = 1
        BY <2>2 DEF IsNew
      <4>3. offered[s][1] \in 1 .. MaxPublications /\ offered[s][1] <= published
        <5>1. 1 \in 1 .. Len(offered[s])
          BY <4>2
        <5>2. offered[s][1] \in 1 .. MaxPublications
          BY <4>1, <5>1, ElementOfSeq
        <5> QED
          BY <5>1, <5>2 DEF ConsumersInv, Earlier
      <4>4. published # 0
        BY <4>1, <4>3
      <4> QED
        BY <4>1, <4>4, EmptySeq
    <3>2. Offers(s)
      BY <1>4, <2>2 DEF WatchResumes
    <3> QED
      BY <2>1, <2>2, <3>1, <3>2, OffersKeep
  <2>3. CASE ~IsNew(s)
    <3>1. RegistersAndWaits(s) /\ UNCHANGED consumption
      BY <1>4, <2>1, <2>3 DEF WatchResumes, consumption
    <3> QED
      BY <2>1, <3>1, RegistersKeeps
  <2> QED
    BY <2>2, <2>3
<1>5. CASE Iterates(s)
  BY <1>5, IteratesKeeps
<1>6. CASE Leaves(s)
  BY <1>6, LeavingKeeps DEF Leaves, consumption
<1>7. CASE WaitStarts(s)
  BY <1>7, WaitStartsKeeps
<1>8. CASE WaitRuns(s)
  BY <1>8, WaitRunsKeeps
<1>9. CASE WaitTimesOut(s)
  BY <1>9, LeavingKeeps DEF WaitTimesOut
<1>10. CASE WaitFinalized(s)
  BY <1>10, LeavingKeeps DEF WaitFinalized, consumption
<1> QED
  BY <1>1, <1>2, <1>3, <1>4, <1>5, <1>6, <1>7, <1>8, <1>9, <1>10 DEF Consumer

(* ConsumersInv is inductive. *)
LEMMA ConsumersNextKeeps == ConsumersInv /\ [ConsumersNext]_allVars => ConsumersInv'
<1> SUFFICES ASSUME ConsumersInv, [ConsumersNext]_allVars PROVE ConsumersInv'
  OBVIOUS
<1>1. CASE Replica
  BY <1>1, ReplicaKeeps
<1>2. CASE \E s \in Subscribers : Consumer(s)
  BY <1>2, ConsumerKeeps
<1>3. CASE UNCHANGED allVars
  <2>1. UNCHANGED vars /\ UNCHANGED <<kind, policy, log, stage, offered, outcome>>
    BY <1>3 DEF allVars, consumption
  <2>2. Lines'
    BY <2>1, StutterKeepsLines DEF ConsumersInv
  <2>3. UNCHANGED <<reader, closed, published, since, received, overflowed>>
    BY <2>1 DEF vars
  <2>4. ConsumersOK'
    BY <2>1, <2>2, <2>3 DEF ConsumersInv, ConsumersOK, Lines
  <2>5. ASSUME NEW s \in Subscribers PROVE Earlier(s)' /\ Undecided(s)'
    BY <2>1, <2>3 DEF ConsumersInv, Earlier, Undecided, Reading, Decisive, Satisfies
  <2>6. Concluded' /\ StreamEndIsOverflow'
    BY <2>1, <2>3 DEF ConsumersInv, Concluded, Concludes, StreamEndIsOverflow
  <2> QED
    BY <2>2, <2>4, <2>5, <2>6 DEF ConsumersInv
<1> QED
  BY <1>1, <1>2, <1>3 DEF ConsumersNext

\* If close() finds no reader waiting to run, none is left asleep over its queue.
LEMMA IdleStarts == ConsumersInit => Idle
BY DEF ConsumersInit, Init, Idle

(* If readers run before close(), a consumer that waits has an empty queue, whatever
   happens next. *)
LEMMA IdleKeeps ==
    ASSUME ReadersRunFirst, ConsumersInv, Idle, [ConsumersNext]_allVars
    PROVE  Idle'
<1>1. /\ reader \in [Subscribers -> ReaderStates]
      /\ queue \in [Subscribers -> Seq(0 .. MaxPublications)]
      /\ subscribers \subseteq Subscribers
  BY DEF ConsumersInv, ConsumersOK, TypeOK
<1>2. CASE Publish
  <2>1. /\ \A s \in subscribers : reader'[s] # "waiting"
        /\ \A s \in Subscribers \ subscribers : reader'[s] = reader[s]
    BY <1>1, <1>2 DEF Publish, Wake
  <2>2. \A s \in Subscribers \ subscribers : queue'[s] = queue[s]
    BY <1>1, <1>2 DEF Publish, Served
  <2>3. detached' = detached
    BY <1>2 DEF Publish
  <2> QED
    BY <1>1, <2>1, <2>2, <2>3 DEF Idle
<1>3. CASE Close
  <2>1. /\ \A s \in subscribers : reader'[s] # "waiting"
        /\ \A s \in Subscribers \ subscribers :
             reader'[s] = reader[s] /\ queue'[s] = queue[s]
    BY <1>1, <1>3 DEF Close, Wake
  <2>2. detached' = {}
    BY <1>3 DEF Close
  <2> QED
    BY <1>1, <2>1, <2>2 DEF Idle
<1>4. ASSUME NEW s \in Subscribers, UNCHANGED detached,
             \A u \in Subscribers \ {s} :
               reader'[u] = reader[u] /\ queue'[u] = queue[u],
             reader'[s] = "waiting" => queue'[s] = <<>>
      PROVE  Idle'
  BY <1>4 DEF Idle
<1>5. ASSUME NEW s \in Subscribers, RegistersAndWaits(s), reader[s] = "none"
      PROVE  Idle'
  <2>1. queue[s] = <<>>
    BY <1>5 DEF ConsumersInv, Lines, Line
  <2>2. \A u \in Subscribers \ {s} : reader'[u] = reader[u]
    BY <1>1, <1>5 DEF RegistersAndWaits, Registers
  <2> QED
    BY <1>4, <1>5, <2>1, <2>2 DEF RegistersAndWaits
<1>6. ASSUME NEW s \in Subscribers, NextItem(s) \/ Run(s)
      PROVE  Idle'
  <2>1. UNCHANGED detached /\ (Take(s) \/ (queue[s] = <<>> /\ Wait(s)))
    BY <1>6 DEF NextItem, Run, Idle
  <2>2. \A u \in Subscribers \ {s} : reader'[u] = reader[u] /\ queue'[u] = queue[u]
    BY <1>1, <2>1 DEF Take, Wait
  <2>3. reader'[s] = "waiting" => queue'[s] = <<>>
    <3>1. Take(s) => reader'[s] # "waiting"
      BY <1>1 DEF Take
    <3>2. Wait(s) => queue' = queue
      BY DEF Wait
    <3> QED
      BY <2>1, <3>1, <3>2
  <2> QED
    BY <1>4, <2>1, <2>2, <2>3
<1>7. ASSUME NEW s \in Subscribers, Abandon(s) \/ Finalize(s)
      PROVE  Idle'
  <2>1. /\ UNCHANGED <<detached, queue>>
        /\ \A u \in Subscribers \ {s} : reader'[u] = reader[u]
        /\ reader'[s] # "waiting"
    BY <1>1, <1>7 DEF Abandon, Finalize
  <2> QED
    BY <1>4, <2>1
<1>8. ASSUME NEW s \in Subscribers, WaitRuns(s)
      PROVE  Idle'
  <2>1. s \notin detached /\ UNCHANGED detached
    BY <1>8 DEF Idle, WaitRuns
  <2>2. \A u \in Subscribers \ {s} : reader'[u] = reader[u] /\ queue'[u] = queue[u]
    BY <1>1, <1>8, <2>1 DEF WaitRuns
  <2>3. reader'[s] = "waiting" => queue'[s] = <<>>
    <3>1. CASE StopsAt(queue[s]) = {}
      BY <1>1, <1>8, <2>1, <3>1 DEF WaitRuns
    <3>2. CASE StopsAt(queue[s]) # {}
      BY <1>1, <1>8, <2>1, <3>2 DEF WaitRuns
    <3> QED
      BY <3>1, <3>2
  <2> QED
    BY <1>4, <2>1, <2>2, <2>3
<1>9. CASE UNCHANGED vars
  BY <1>9 DEF Idle, vars
<1>10. CASE Replica
  <2>1. Publish \/ Close
    BY <1>10 DEF Replica, PublishSnapshot, Fail, CloseReplica, CloseBroadcaster, Publishes
  <2> QED
    BY <1>2, <1>3, <2>1
<1>11. ASSUME NEW s \in Subscribers, Consumer(s) PROVE Idle'
  <2>1. CASE SubscribeStarts(s) \/ SubscribeResumes(s) \/ WatchStarts(s) \/ WatchResumes(s)
    <3>1. reader[s] = "none" /\ (RegistersAndWaits(s) \/ UNCHANGED vars)
      BY <2>1 DEF SubscribeStarts, SubscribeResumes, WatchStarts, WatchResumes, Offers,
                  Starts, Resumes
    <3> QED
      BY <1>5, <1>9, <3>1
  <2>2. CASE Iterates(s)
    BY <1>6, <2>2 DEF Iterates
  <2>3. CASE Leaves(s) \/ WaitTimesOut(s) \/ WaitFinalized(s)
    BY <1>7, <2>3 DEF Leaves, WaitTimesOut, WaitFinalized
  <2>4. CASE WaitStarts(s)
    <3>1. reader[s] = "none" /\ (RegistersAndWaits(s) \/ UNCHANGED vars)
      BY <2>4 DEF WaitStarts, Starts
    <3> QED
      BY <1>5, <1>9, <3>1
  <2>5. CASE WaitRuns(s)
    BY <1>8, <2>5
  <2> QED
    BY <1>11, <2>1, <2>2, <2>3, <2>4, <2>5 DEF Consumer
<1>12. CASE UNCHANGED allVars
  BY <1>9, <1>12 DEF allVars
<1> QED
  BY <1>10, <1>11, <1>12 DEF ConsumersNext

-------------------------------------------------------------------------------
(* What it says of consumers *)

(* ConsumersInv orders what was handed over. *)
LEMMA SeenIsInOrder == ConsumersInv => SeenInOrder
<1> SUFFICES ASSUME ConsumersInv, NEW s \in Subscribers, NEW i \in 2 .. Len(Seen(s))
             PROVE  Seen(s)[i - 1] < Seen(s)[i]
  BY DEF SeenInOrder
<1> DEFINE o == offered[s]
           r == received[s]
<1>1. /\ o \in Seq(Nat) /\ r \in Seq(Nat) /\ since[s] \in Nat
      /\ (r = <<>> <=> Len(r) = 0)
      /\ \A j \in 1 .. Len(r) : since[s] < r[j]
  BY ConsumerTypes, EmptySeq
<1>2. PICK x \in Nat, y \in Nat : x = Len(o) /\ y = Len(r)
  BY <1>1
<1>3. /\ Len(o \o r) = x + y
      /\ \A j \in 1 .. x + y : (o \o r)[j] = IF j <= x THEN o[j] ELSE r[j - x]
  <2>1. /\ Len(o \o r) = Len(o) + Len(r)
        /\ \A j \in 1 .. Len(o) + Len(r) :
             (o \o r)[j] = IF j <= Len(o) THEN o[j] ELSE r[j - Len(o)]
    BY <1>1, ConcatProperties
  <2> QED
    BY <1>2, <2>1
<1>4. i \in 2 .. x + y
  BY <1>3 DEF Seen
<1>5. i - 1 \in 1 .. x + y /\ i \in 1 .. x + y /\ i - 1 < i
  BY <1>4
<1>6. CASE i <= x
  <2>1. i - 1 \in 1 .. x /\ i \in 1 .. x
    BY <1>4, <1>6
  <2>2. o[i - 1] < o[i]
    BY <1>2, <1>5, <2>1 DEF ConsumersInv, Earlier
  <2>3. (o \o r)[i] = o[i] /\ (o \o r)[i - 1] = o[i - 1]
    <3>1. i <= x /\ i - 1 <= x
      BY <2>1
    <3> QED
      BY <1>3, <1>5, <3>1
  <2> QED
    BY <2>2, <2>3 DEF Seen
<1>7. CASE ~(i <= x) /\ i - 1 <= x
  <2>1. i - 1 \in 1 .. x /\ i - x \in 1 .. y /\ y # 0
    BY <1>4, <1>7
  <2>2. o[i - 1] <= since[s]
    BY <1>1, <1>2, <2>1 DEF ConsumersInv, Earlier
  <2>3. since[s] < r[i - x]
    BY <1>1, <1>2, <2>1
  <2>4. o[i - 1] \in Nat /\ r[i - x] \in Nat
    BY <1>1, <1>2, <2>1, ElementOfSeq
  <2>5. o[i - 1] < r[i - x]
    BY <1>1, <2>2, <2>3, <2>4
  <2> QED
    BY <1>3, <1>5, <1>7, <2>5 DEF Seen
<1>8. CASE ~(i - 1 <= x)
  <2>1. /\ i - x \in 1 .. y /\ (i - 1) - x \in 1 .. y /\ (i - 1) - x < i - x
        /\ ~(i <= x)
    BY <1>4, <1>8
  <2>2. \A j, l \in 1 .. y : j < l => r[j] < r[l]
    BY <1>2 DEF ConsumersInv, Lines, Line, InOrder
  <2>3. r[(i - 1) - x] < r[i - x]
    BY <2>1, <2>2
  <2> QED
    BY <1>3, <1>5, <1>8, <2>1, <2>3 DEF Seen
<1> QED
  BY <1>6, <1>7, <1>8

(* A waiter that sleeps over an empty queue has tested everything that was published
   to it. *)
LEMMA SleepersAreUndecided == ConsumersInv /\ Idle => WaitersMissNothing
<1> SUFFICES ASSUME ConsumersInv, Idle, NEW s \in Subscribers,
                    kind[s] = "wait_until", reader[s] = "waiting"
             PROVE  /\ ~Decisive(Last(log))
                    /\ config.policy = "fail_fast" =>
                         \A n \in Last(offered[s]) .. published : ~Decisive(log[n])
  BY DEF WaitersMissNothing
<1> DEFINE r == received[s]
           a == since[s]
<1>1. /\ r \in Seq(Nat) /\ a \in Nat /\ published \in Nat /\ Len(log) = published
      /\ (r = <<>> <=> Len(r) = 0)
  BY ConsumerTypes, EmptySeq
<1>2. Reading(s) /\ queue[s] = <<>>
  BY DEF Reading, Idle
<1>3. s \in subscribers
  BY <1>2 DEF ConsumersInv, Lines, Line, Finishing, Ended
<1>4. /\ Recent(<<>>, r, a, published)
      /\ config.policy = "fail_fast" => Complete(<<>>, r, a, published)
  BY <1>2, <1>3 DEF ConsumersInv, Lines, Line
<1>5. /\ offered[s] = <<a>> /\ ~Decisive(log[a])
      /\ \A i \in 1 .. Len(r) : ~Decisive(log[r[i]])
  BY <1>2 DEF ConsumersInv, Undecided
<1>6. ~Decisive(Last(log))
  <2>1. Latest(r, a) = published
    BY <1>4 DEF Recent
  <2>2. CASE r = <<>>
    BY <1>1, <1>5, <2>1, <2>2 DEF Latest, Last
  <2>3. CASE r # <<>>
    <3>1. Len(r) \in 1 .. Len(r)
      BY <1>1, <2>3
    <3> QED
      BY <1>1, <1>5, <2>1, <2>3, <3>1 DEF Latest, Last
  <2> QED
    BY <2>2, <2>3
<1>7. ASSUME config.policy = "fail_fast", NEW n \in Last(offered[s]) .. published
      PROVE  ~Decisive(log[n])
  <2>1. PICK x \in Nat : x = Len(r)
    BY <1>1
  <2>2. a + x = published /\ \A i \in 1 .. x : r[i] = a + i
    <3>1. Len(<<>>) = 0
      OBVIOUS
    <3>2. a + x + 0 = published /\ \A i \in 1 .. x : r[i] = a + i
      BY <1>4, <1>7, <2>1, <3>1 DEF Complete
    <3> QED
      BY <1>1, <3>2
  <2>3. n \in a .. published
    BY <1>1, <1>5 DEF Last
  <2>4. CASE n = a
    BY <1>5, <2>4
  <2>5. CASE n # a
    <3>1. n - a \in 1 .. x /\ a + (n - a) = n
      BY <1>1, <2>2, <2>3, <2>5
    <3>2. r[n - a] = n
      BY <2>2, <3>1
    <3> QED
      BY <1>5, <2>1, <3>1, <3>2
  <2> QED
    BY <2>4, <2>5
<1> QED
  BY <1>6, <1>7

-------------------------------------------------------------------------------
(* Theorems *)

\* The invariant holds in every state.
THEOREM ConsumersInvariance == ConsumersSpec => []ConsumersInv
BY ConsumersStart, ConsumersNextKeeps, PTL DEF ConsumersSpec

\* The consumers' variables have their types, and the replica's log has one snapshot
\* for each publication of the broadcaster.
THEOREM ConsumersTypes == ConsumersSpec => []ConsumersOK
<1>1. ConsumersInv => ConsumersOK
  BY DEF ConsumersInv
<1> QED
  BY <1>1, ConsumersInvariance, PTL

\* The broadcaster's promises hold below the consumers too: under the replica's order
\* of publications and the waiters' bursts.
THEOREM ConsumersKeepPromises ==
    ConsumersSpec =>
        [](QueueIsLatest /\ HealthySubscribersLoseNothing /\ CloseKeepsLatest)
<1>1. ConsumersInv => QueueIsLatest /\ HealthySubscribersLoseNothing /\ CloseKeepsLatest
  BY LinesQueueLatest, LinesLoseNothing, LinesKeepLatest DEF ConsumersInv
<1> QED
  BY <1>1, ConsumersInvariance, PTL

\* subscribe() and watch(): what a consumer was given before it registered and what
\* it received since never repeat a revision or go back.
THEOREM ConsumersSeeInOrder == ConsumersSpec => []SeenInOrder
BY SeenIsInOrder, ConsumersInvariance, PTL

\* wait_until(): the stream of a waiter ends only because a fail-fast overflow cut it
\* off; any other has seen the terminal snapshot first.
THEOREM EndedIsOverflowed == ConsumersSpec => []StreamEndIsOverflow
<1>1. ConsumersInv => StreamEndIsOverflow
  BY DEF ConsumersInv
<1> QED
  BY <1>1, ConsumersInvariance, PTL

\* wait_until(): no waiter sleeps over a snapshot that decides it.  Only a close()
\* that overtakes a woken reader could leave one asleep over its queue.
THEOREM SleepersMissNothing ==
    ASSUME ReadersRunFirst
    PROVE  ConsumersSpec => []WaitersMissNothing
<1>1. ConsumersInv /\ Idle /\ [ConsumersNext]_allVars => Idle'
  BY IdleKeeps
<1>2. ConsumersSpec => []Idle
  BY <1>1, IdleStarts, ConsumersInvariance, PTL DEF ConsumersSpec
<1> QED
  BY <1>2, SleepersAreUndecided, ConsumersInvariance, PTL
===============================================================================
