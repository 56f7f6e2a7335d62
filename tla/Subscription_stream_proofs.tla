----------------------- MODULE Subscription_stream_proofs ------------------------
(***************************************************************************)
(* Proof that Subscription implements SnapshotStream: every step of the     *)
(* replica, its broadcaster and its consumers is a publication, the end of   *)
(* the publications, a subscription, a delivery, the end of a stream, or     *)
(* nothing that a subscription promises anything about.                     *)
(*                                                                         *)
(* Over ConsumersInv it needs to know that a line that lost nothing stays   *)
(* without a hole after close(), when it no longer ends with the last        *)
(* publication but with the sentinel.                                      *)
(***************************************************************************)
EXTENDS Subscription_proofs

\* The items queued follow, one by one, what has been received.
Unbroken(q, r, a) == \A i \in 1 .. Len(q) : q[i] # None => q[i] = Latest(r, a) + i

\* So it is under fail_fast, before and after close(), unless the line overflowed.
Seamless(s) ==
    config.policy = "fail_fast" /\ Reading(s) /\ s \notin overflowed =>
        Unbroken(queue[s], received[s], since[s])

StreamInv == ConsumersInv /\ \A s \in Subscribers : Seamless(s)

-------------------------------------------------------------------------------
(* Lines without a hole *)

(* The last number in a line whose beginning is a. *)
LEMMA LastKnown ==
    ASSUME NEW r \in Seq(Nat), NEW a \in Nat
    PROVE  Last(<<a>> \o r) = Latest(r, a) /\ Latest(r, a) \in Nat
<1>1. PICK x \in Nat : x = Len(r)
  OBVIOUS
<1>2. <<a>> \in Seq(Nat) /\ Len(<<a>>) = 1 /\ <<a>>[1] = a
  OBVIOUS
<1>3. /\ Len(<<a>> \o r) = 1 + x
      /\ \A i \in 1 .. 1 + x : (<<a>> \o r)[i] = IF i <= 1 THEN <<a>>[i] ELSE r[i - 1]
  BY <1>1, <1>2, ConcatProperties
<1>4. CASE r = <<>>
  <2>1. x = 0
    BY <1>1, <1>4, EmptySeq
  <2> QED
    BY <1>2, <1>3, <1>4, <2>1 DEF Last, Latest
<1>5. CASE r # <<>>
  <2>1. x # 0
    BY <1>1, <1>5, EmptySeq
  <2>2. 1 + x \in 1 .. 1 + x /\ ~(1 + x <= 1) /\ (1 + x) - 1 = x /\ x \in 1 .. Len(r)
    BY <1>1, <2>1
  <2>3. r[x] \in Nat
    BY <2>2, ElementOfSeq
  <2> QED
    BY <1>1, <1>3, <1>5, <2>2, <2>3 DEF Last, Latest
<1> QED
  BY <1>4, <1>5

(* Numbers that grow, from above l, are at least as far from it as their places. *)
LEMMA Climbs ==
    ASSUME NEW k \in Nat, NEW l \in Nat, NEW d, \A i \in 1 .. k : d[i] \in Nat /\ l < d[i],
           \A i, j \in 1 .. k : i < j => d[i] < d[j]
    PROVE  \A i \in 1 .. k : l + i <= d[i]
<1> DEFINE T == {i \in 1 .. k : ~(l + i <= d[i])}
<1>1. SUFFICES ASSUME T # {} PROVE FALSE
  OBVIOUS
<1>2. T \in SUBSET Nat
  OBVIOUS
<1>3. PICK m \in T : \A y \in T : m <= y
  BY <1>1, <1>2, LeastNatural
<1>4. m \in 1 .. k /\ ~(l + m <= d[m]) /\ d[m] \in Nat /\ l < d[m]
  OBVIOUS
<1>5. m # 1 /\ m - 1 \in 1 .. k /\ m - 1 < m
  BY <1>4
<1>6. m - 1 \notin T
  BY <1>3, <1>4, <1>5
<1>7. l + (m - 1) <= d[m - 1] /\ d[m - 1] < d[m] /\ d[m - 1] \in Nat
  BY <1>4, <1>5, <1>6
<1> QED
  BY <1>4, <1>7

(* The items that are delivered, up to the k-th, are publications in their order. *)
LEMMA InLine ==
    ASSUME NEW q \in Seq(Nat), NEW r \in Seq(Nat), NEW a \in Nat, NEW n \in Nat, a <= n,
           NEW k \in 0 .. Len(q), \A i \in 1 .. k : q[i] # None, InOrder(q, r, a, n)
    PROVE  LET l == Latest(r, a)
               d == SubSeq(q, 1, k)
           IN /\ l \in Nat /\ l <= n /\ k \in 0 .. n - l
              /\ d \in [1 .. k -> l + 1 .. n] /\ DOMAIN d = 1 .. k
              /\ Len(d) = k /\ d \in Seq(Nat)
              /\ \A i \in 1 .. k : d[i] = q[i]
              /\ \A i, j \in 1 .. k : i < j => d[i] < d[j]
<1> DEFINE l == Latest(r, a)
           d == SubSeq(q, 1, k)
<1>1. k \in Nat /\ Len(q) \in Nat /\ k <= Len(q) /\ Len(r) \in Nat
  OBVIOUS
<1>2. \A i \in 1 .. k : i \in 1 .. Len(q) /\ q[i] \in Nat
  BY <1>1, ElementOfSeq
<1>3. /\ d \in Seq(Nat) /\ Len(d) = k
      /\ \A i \in 1 .. k : d[i] = q[i]
  <2>1. /\ d \in Seq(Nat)
        /\ Len(d) = IF 1 <= k THEN k - 1 + 1 ELSE 0
        /\ \A i \in 1 .. k - 1 + 1 : d[i] = q[1 + i - 1]
    BY <1>1, <1>2, SubSeqProperties
  <2> HIDE DEF d
  <2>2. Len(d) = k /\ k - 1 + 1 = k
    BY <1>1, <2>1
  <2>3. ASSUME NEW i \in 1 .. k PROVE d[i] = q[i]
    <3>1. 1 + i - 1 = i
      OBVIOUS
    <3> QED
      BY <2>1, <2>2, <3>1
  <2> QED
    BY <2>1, <2>2, <2>3
<1> HIDE DEF d
<1>4. DOMAIN d = 1 .. k
  BY <1>3, LenProperties
<1>5. l \in Nat /\ l <= n /\ \A i \in 1 .. k : l < q[i] /\ q[i] <= n
  <2>1. CASE r = <<>>
    BY <1>2, <2>1 DEF Latest, InOrder
  <2>2. CASE r # <<>>
    <3>1. Len(r) \in 1 .. Len(r)
      BY <1>1, <2>2, EmptySeq
    <3>2. l = r[Len(r)] /\ r[Len(r)] \in Nat
      BY <2>2, <3>1, ElementOfSeq DEF Latest
    <3> QED
      BY <1>2, <3>1, <3>2 DEF InOrder
  <2> QED
    BY <2>1, <2>2
<1> HIDE DEF l
<1>6. \A i \in 1 .. k : d[i] \in Nat /\ l < d[i] /\ d[i] <= n
  BY <1>2, <1>3, <1>5
<1>7. \A i, j \in 1 .. k : i < j => d[i] < d[j]
  <2>1. ASSUME NEW i \in 1 .. k, NEW j \in 1 .. k, i < j PROVE q[i] < q[j]
    BY <1>2, <2>1 DEF InOrder
  <2> QED
    BY <1>3, <2>1
<1>8. k \in 0 .. n - l
  <2>1. \A i \in 1 .. k : l + i <= d[i]
    BY <1>1, <1>5, <1>6, <1>7, Climbs
  <2>2. k = 0 \/ (k \in 1 .. k /\ l + k <= d[k] /\ d[k] <= n /\ d[k] \in Nat)
    BY <1>1, <1>6, <2>1
  <2> QED
    BY <1>1, <1>5, <2>2
<1>9. d \in [1 .. k -> l + 1 .. n]
  <2>1. \A i \in 1 .. k : d[i] \in l + 1 .. n
    BY <1>5, <1>6
  <2>2. d = [i \in 1 .. k |-> d[i]]
    BY <1>3, <1>4
  <2> QED
    BY <2>1, <2>2
<1> QED
  BY <1>3, <1>4, <1>5, <1>7, <1>8, <1>9 DEF l, d

(* A line that lost nothing, while it is registered. *)
LEMMA CompleteIsUnbroken ==
    ASSUME NEW q \in Seq(Nat), NEW r \in Seq(Nat), NEW a \in Nat, NEW n \in Nat,
           Recent(q, r, a, n), Complete(q, r, a, n)
    PROVE  Unbroken(q, r, a)
<1>1. PICK x \in Nat, y \in Nat : x = Len(q) /\ y = Len(r)
  OBVIOUS
<1>2. a + y + x = n /\ \A i \in 1 .. y : r[i] = a + i
  BY <1>1 DEF Complete
<1>3. Latest(r, a) = a + y
  <2>1. CASE r = <<>>
    BY <1>1, <2>1, EmptySeq DEF Latest
  <2>2. CASE r # <<>>
    <3>1. y \in 1 .. y
      BY <1>1, <2>2, EmptySeq
    <3> QED
      BY <1>1, <1>2, <2>2, <3>1 DEF Latest
  <2> QED
    BY <2>1, <2>2
<1>4. \A i \in 1 .. x : q[i] = n - x + i
  BY <1>1 DEF Recent
<1>5. \A i \in 1 .. x : n - x + i = a + y + i
  BY <1>2
<1> QED
  BY <1>1, <1>3, <1>4, <1>5 DEF Unbroken

(* The sentinel of close() does not break a line. *)
LEMMA SentinelBreaksNothing ==
    ASSUME NEW q \in Seq(Nat), NEW r, NEW a, Unbroken(q, r, a)
    PROVE  Unbroken(Append(q, None), r, a)
<1>1. None \in Nat /\ Len(q) \in Nat
  BY DEF None
<1>2. /\ Len(Append(q, None)) = Len(q) + 1
      /\ \A i \in 1 .. Len(q) : Append(q, None)[i] = q[i]
      /\ Append(q, None)[Len(q) + 1] = None
  BY <1>1, Appended
<1>3. ASSUME NEW i \in 1 .. Len(q) + 1 PROVE i \in 1 .. Len(q) \/ i = Len(q) + 1
  BY <1>1
<1> QED
  BY <1>2, <1>3 DEF Unbroken

(* Nor does a delivery from its front. *)
LEMMA UnbrokenDelivers ==
    ASSUME NEW q \in Seq(Nat), NEW r \in Seq(Nat), NEW a \in Nat, NEW k \in 0 .. Len(q),
           \A i \in 1 .. k : q[i] # None, Unbroken(q, r, a)
    PROVE  Unbroken(SubSeq(q, k + 1, Len(q)), r \o SubSeq(q, 1, k), a)
<1> DEFINE p == SubSeq(q, k + 1, Len(q))
           t == r \o SubSeq(q, 1, k)
           l == Latest(r, a)
<1>1. /\ t \in Seq(Nat) /\ Len(p) = Len(q) - k /\ Len(t) = Len(r) + k
      /\ \A i \in 1 .. Len(p) : p[i] = q[k + i]
      /\ \A i \in 1 .. Len(r) : t[i] = r[i]
      /\ \A i \in 1 .. k : t[Len(r) + i] = q[i]
  BY Delivered
<1>2. l \in Nat
  BY LastKnown
<1>3. PICK x \in Nat, y \in Nat : x = Len(q) /\ y = Len(r) /\ k \in Nat /\ k <= x
  OBVIOUS
<1> HIDE DEF p, t
<1>4. Latest(t, a) = l + k
  <2>1. CASE k = 0
    <3>1. t = <<>> <=> r = <<>>
      BY <1>1, <1>3, <2>1, EmptySeq
    <3>2. r # <<>> => y \in 1 .. y /\ t[y] = r[y] /\ Len(t) = y
      BY <1>1, <1>3, <2>1, EmptySeq
    <3> QED
      BY <1>2, <1>3, <2>1, <3>1, <3>2 DEF Latest, l
  <2>2. CASE k # 0
    <3>1. k \in 1 .. k /\ k \in 1 .. Len(q) /\ Len(t) = y + k /\ y + k # 0
      BY <1>1, <1>3, <2>2
    <3>2. t # <<>>
      BY <1>1, <3>1, EmptySeq
    <3>3. t[y + k] = q[k] /\ q[k] = l + k
      BY <1>1, <1>3, <3>1 DEF Unbroken, l
    <3> QED
      BY <3>1, <3>2, <3>3 DEF Latest
  <2> QED
    BY <2>1, <2>2
<1>5. ASSUME NEW i \in 1 .. Len(p), p[i] # None PROVE p[i] = Latest(t, a) + i
  <2>1. k + i \in 1 .. Len(q) /\ i \in Nat
    BY <1>1, <1>3
  <2>2. p[i] = q[k + i] /\ q[k + i] = l + (k + i)
    BY <1>1, <1>5, <2>1 DEF Unbroken, l
  <2>3. l + (k + i) = (l + k) + i
    BY <1>2, <1>3, <2>1
  <2> QED
    BY <1>4, <2>2, <2>3
<1> QED
  BY <1>5 DEF Unbroken, p, t

-------------------------------------------------------------------------------
(* Steps of one consumer *)

\* What a subscription is to its reader, as the mapping has it.
StatusOf == [s \in Subscribers |-> Status(reader[s])]

(* One reader moves: one subscription may change its status. *)
LEMMA StatusMoves ==
    ASSUME ConsumersInv, NEW s \in Subscribers, NEW st,
           reader' = [reader EXCEPT ![s] = st]
    PROVE  /\ StatusOf' = [StatusOf EXCEPT ![s] = Status(st)]
           /\ Status(st) = Status(reader[s]) => StatusOf' = StatusOf
<1>1. reader \in [Subscribers -> ReaderStates]
  BY DEF ConsumersInv, ConsumersOK, TypeOK
<1>2. \A u \in Subscribers : reader'[u] = IF u = s THEN st ELSE reader[u]
  BY <1>1
<1>3. \A u \in Subscribers : Status(reader'[u]) = IF u = s THEN Status(st)
                                                  ELSE Status(reader[u])
  BY <1>2
<1>4. StatusOf' = [u \in Subscribers |-> Status(reader'[u])]
  BY DEF StatusOf
<1> QED
  BY <1>3, <1>4 DEF StatusOf

(* The states of a reader as a subscription has them. *)
LEMMA Statuses ==
    /\ Status("none") = "none" /\ Status("done") = "over"
    /\ \A r \in {"ready", "waiting", "woken"} : Status(r) = "open"
    /\ \A r \in {"abandoned", "left"} : Status(r) = "left"
BY DEF Status

(* A step of one consumer does not touch the lines of the others. *)
LEMMA OthersSeamless ==
    ASSUME StreamInv, NEW s \in Subscribers, UNCHANGED <<config, overflowed>>,
           \A u \in Subscribers \ {s} :
             /\ queue'[u] = queue[u] /\ received'[u] = received[u]
             /\ since'[u] = since[u] /\ reader'[u] = reader[u],
           Seamless(s)'
    PROVE  \A u \in Subscribers : Seamless(u)'
<1>1. ASSUME NEW u \in Subscribers, u # s PROVE Seamless(u)'
  <2>1. /\ queue'[u] = queue[u] /\ received'[u] = received[u]
        /\ since'[u] = since[u] /\ reader'[u] = reader[u]
    BY <1>1
  <2>2. Seamless(u)
    BY DEF StreamInv
  <2> QED
    BY <2>1, <2>2 DEF Seamless, Reading
<1> QED
  BY <1>1

(* A reader is given the first k items queued: publications it was not given yet, in
   their order, and without a hole if the subscription promises that. *)
LEMMA Gives ==
    ASSUME StreamInv, NEW s \in Subscribers, Reading(s), NEW st,
           NEW k \in 0 .. Len(queue[s]), \A i \in 1 .. k : queue[s][i] # None,
           received' = [received EXCEPT ![s] = received[s] \o SubSeq(queue[s], 1, k)],
           reader' = [reader EXCEPT ![s] = st],
           UNCHANGED <<config, closed, published, since, overflowed>>
    PROVE  /\ StatusOf[s] = "open"
           /\ SubSeq(queue[s], 1, k) \in Stream!Undelivered(s)
           /\ Stream!Given(s, SubSeq(queue[s], 1, k), Status(st))
<1> DEFINE q == queue[s]
           r == received[s]
           a == since[s]
           n == published
           d == SubSeq(q, 1, k)
           l == Latest(r, a)
<1>1. /\ q \in Seq(Nat) /\ r \in Seq(Nat) /\ a \in Nat /\ n \in Nat /\ a <= n
  BY ConsumerTypes DEF StreamInv
<1>2. InOrder(q, r, a, n)
  BY DEF StreamInv, ConsumersInv, Lines, Line
<1>3. /\ l \in Nat /\ l <= n /\ k \in 0 .. n - l
      /\ d \in [1 .. k -> l + 1 .. n] /\ DOMAIN d = 1 .. k
      /\ \A i \in 1 .. k : d[i] = q[i]
      /\ \A i, j \in 1 .. k : i < j => d[i] < d[j]
  <2>1. k \in 0 .. Len(q) /\ \A i \in 1 .. k : q[i] # None
    OBVIOUS
  <2> HIDE DEF q, r, a, n
  <2> QED
    BY <1>1, <1>2, <2>1, InLine DEF l, d
<1>4. Stream!Latest(s) = l
  <2>1. Last(<<a>> \o r) = l
    BY <1>1, LastKnown
  <2> QED
    BY <2>1 DEF Stream!Latest, Stream!Last, Last
<1> HIDE DEF d, l
<1>5. d \in Stream!Undelivered(s)
  BY <1>3, <1>4 DEF Stream!Undelivered
<1>6. ASSUME config.policy = "fail_fast", s \notin overflowed, NEW i \in DOMAIN d
      PROVE  d[i] = Stream!Latest(s) + i
  <2>1. Unbroken(q, r, a)
    BY <1>6 DEF StreamInv, Seamless
  <2>2. i \in 1 .. k /\ i \in 1 .. Len(q)
    BY <1>1, <1>3, <1>6
  <2> QED
    BY <1>3, <1>4, <2>1, <2>2 DEF Unbroken, l
<1>7. StatusOf[s] = "open"
  BY Statuses DEF StatusOf, Reading
<1>8. StatusOf' = [StatusOf EXCEPT ![s] = Status(st)]
  BY StatusMoves DEF StreamInv
<1>9. received' = [received EXCEPT ![s] = received[s] \o d]
  BY DEF d
<1>10. Stream!Given(s, d, Status(st))
  BY <1>6, <1>8, <1>9 DEF Stream!Given, StatusOf
<1> QED
  BY <1>5, <1>7, <1>10 DEF d

\* A step of the abstract stream, or none.
StreamStep == [Stream!Next]_(Stream!vars)

\* What a step has to do to keep the promise.
Keeps == StreamStep /\ \A u \in Subscribers : Seamless(u)'

(* A reader is given what comes before the sentinel, and reads on or leaves. *)
LEMMA ReadingKeeps ==
    ASSUME StreamInv, NEW s \in Subscribers, Reading(s),
           NEW st \in {"ready", "waiting", "abandoned", "left"},
           NEW k \in 0 .. Len(queue[s]), \A i \in 1 .. k : queue[s][i] # None,
           queue' = [queue EXCEPT ![s] = SubSeq(queue[s], k + 1, Len(queue[s]))],
           received' = [received EXCEPT ![s] = received[s] \o SubSeq(queue[s], 1, k)],
           reader' = [reader EXCEPT ![s] = st],
           UNCHANGED <<config, closed, published, since, overflowed>>
    PROVE  Keeps
<1> DEFINE q == queue[s]
           r == received[s]
           a == since[s]
           d == SubSeq(q, 1, k)
<1>1. /\ StatusOf[s] = "open"
      /\ d \in Stream!Undelivered(s)
      /\ Stream!Given(s, d, Status(st))
  BY Gives
<1>2. /\ q \in Seq(Nat) /\ r \in Seq(Nat) /\ a \in Nat
      /\ queue \in [Subscribers -> Seq(0 .. MaxPublications)]
      /\ received \in [Subscribers -> Seq(1 .. MaxPublications)]
      /\ reader \in [Subscribers -> ReaderStates]
  BY ConsumerTypes DEF StreamInv, ConsumersInv, ConsumersOK, TypeOK
<1>3. StreamStep
  <2>1. CASE st \in {"abandoned", "left"}
    <3>1. Status(st) = "left"
      BY <2>1, Statuses
    <3>2. Stream!Leave(s)
      BY <1>1, <3>1 DEF Stream!Leave, StatusOf
    <3> QED
      BY <3>2 DEF StreamStep, Stream!Next
  <2>2. CASE st \in {"ready", "waiting"} /\ k # 0
    <3>1. Status(st) = "open"
      BY <2>2, Statuses
    <3>2. d # <<>>
      <4>1. \A i \in 1 .. k : q[i] \in Nat
        BY <1>2, ElementOfSeq
      <4>2. Len(d) = IF 1 <= k THEN k - 1 + 1 ELSE 0
        BY <1>2, <4>1, SubSeqProperties
      <4> QED
        BY <2>2, <4>2, EmptySeq
    <3>3. Stream!Deliver(s)
      BY <1>1, <3>1, <3>2 DEF Stream!Deliver, StatusOf
    <3> QED
      BY <3>3 DEF StreamStep, Stream!Next
  <2>3. CASE st \in {"ready", "waiting"} /\ k = 0
    <3>1. StatusOf' = StatusOf
      <4>1. Status(st) = Status(reader[s])
        BY <2>3, Statuses DEF Reading
      <4> QED
        BY <4>1, StatusMoves DEF StreamInv
    <3>2. r \o SubSeq(q, 1, 0) = r
      BY <1>2, SubSeqEmpty, ConcatEmptySeq
    <3>3. received' = received
      BY <1>2, <2>3, <3>2
    <3> QED
      BY <3>1, <3>3 DEF StreamStep, Stream!vars, StatusOf
  <2> QED
    BY <2>1, <2>2, <2>3
<1>4. Seamless(s)'
  <2>1. SUFFICES ASSUME config.policy = "fail_fast", s \notin overflowed
                 PROVE  Unbroken(queue'[s], received'[s], since'[s])
    BY DEF Seamless
  <2>2. Unbroken(q, r, a)
    BY <2>1 DEF StreamInv, Seamless
  <2>3. Unbroken(SubSeq(q, k + 1, Len(q)), r \o SubSeq(q, 1, k), a)
    BY <1>2, <2>2, UnbrokenDelivers
  <2>4. /\ queue'[s] = SubSeq(q, k + 1, Len(q))
        /\ received'[s] = r \o SubSeq(q, 1, k)
        /\ since'[s] = a
    BY <1>2
  <2> QED
    BY <2>3, <2>4
<1>5. \A u \in Subscribers \ {s} :
        /\ queue'[u] = queue[u] /\ received'[u] = received[u]
        /\ since'[u] = since[u] /\ reader'[u] = reader[u]
  BY <1>2
<1> QED
  BY <1>3, <1>4, <1>5, OthersSeamless DEF Keeps

(* A reader finds the sentinel after the first k items: it was dropped, or it has been
   given the last publication. *)
LEMMA EndingKeeps ==
    ASSUME StreamInv, NEW s \in Subscribers, Reading(s),
           NEW k \in Nat, k < Len(queue[s]), queue[s][k + 1] = None,
           \A i \in 1 .. k : queue[s][i] # None,
           NEW p, queue' = [queue EXCEPT ![s] = p],
           received' = [received EXCEPT ![s] = received[s] \o SubSeq(queue[s], 1, k)],
           reader' = [reader EXCEPT ![s] = "done"],
           UNCHANGED <<config, closed, published, since, overflowed>>
    PROVE  Keeps
<1> DEFINE q == queue[s]
           r == received[s]
           a == since[s]
           n == published
           d == SubSeq(q, 1, k)
           l == Latest(r, a)
<1>1. /\ q \in Seq(Nat) /\ r \in Seq(Nat) /\ a \in Nat /\ n \in Nat /\ a <= n
      /\ queue \in [Subscribers -> Seq(0 .. MaxPublications)]
      /\ received \in [Subscribers -> Seq(1 .. MaxPublications)]
      /\ reader \in [Subscribers -> ReaderStates]
      /\ Len(q) \in Nat
  BY ConsumerTypes DEF StreamInv, ConsumersInv, ConsumersOK, TypeOK
<1>2. k \in 0 .. Len(q) /\ k + 1 \in 1 .. Len(q)
  BY <1>1
<1>3. /\ StatusOf[s] = "open"
      /\ d \in Stream!Undelivered(s)
      /\ Stream!Given(s, d, "over")
  BY <1>2, Gives, Statuses
<1>4. ASSUME s \notin overflowed
      PROVE  closed /\ Last(<<Stream!Latest(s)>> \o d) = n
  <2>1. s \notin subscribers
    <3>1. s \in subscribers => HasNoSentinel(q)
      BY <1>1, RecentIsData DEF StreamInv, ConsumersInv, Lines, Line
    <3> QED
      BY <1>2, <3>1 DEF HasNoSentinel
  <2>2. closed /\ Finishing(q, r, a, n) /\ InOrder(q, r, a, n)
    BY <1>4, <2>1 DEF StreamInv, ConsumersInv, Lines, Line
  <2>3. Len(q) = k + 1
    <3>1. k + 1 < Len(q) => Len(q) \in 1 .. Len(q)
      BY <1>1
    <3>2. k + 1 < Len(q) => FALSE
      BY <1>2, <2>2, <3>1 DEF InOrder
    <3> QED
      BY <1>1, <1>2, <3>2
  <2>4. l \in Nat /\ d \in Seq(Nat) /\ Len(d) = k /\ \A i \in 1 .. k : d[i] = q[i]
    <3>1. k \in 0 .. Len(q) /\ \A i \in 1 .. k : q[i] # None
      BY <1>2
    <3> HIDE DEF q, r, a, n
    <3> QED
      BY <1>1, <2>2, <3>1, InLine DEF l, d
  <2>5. Stream!Latest(s) = l
    <3>1. Last(<<a>> \o r) = l
      BY <1>1, LastKnown
    <3> QED
      BY <3>1 DEF Stream!Latest, Stream!Last, Last
  <2>6. Last(<<l>> \o d) = Latest(d, l)
    BY <2>4, LastKnown
  <2>7. Latest(d, l) = n
    <3>1. CASE k = 0
      BY <2>2, <2>3, <2>4, <3>1, EmptySeq DEF Latest, Finishing
    <3>2. CASE k # 0
      <4>1. Len(q) # 1 /\ Len(q) - 1 = k /\ k \in 1 .. k
        BY <2>3, <3>2
      <4>2. q[k] = n /\ d[k] = q[k] /\ d # <<>>
        BY <2>2, <2>4, <3>2, <4>1, EmptySeq DEF Finishing
      <4> QED
        BY <2>4, <4>2 DEF Latest
    <3> QED
      BY <3>1, <3>2
  <2> QED
    BY <2>2, <2>5, <2>6, <2>7
<1> HIDE DEF d, n
<1>5. Stream!End(s)
  <2>1. s \in overflowed \/ (closed /\ Stream!Last(<<Stream!Latest(s)>> \o d) = published)
    BY <1>4 DEF Stream!Last, Last, n
  <2> QED
    BY <1>3, <2>1 DEF Stream!End, StatusOf
<1>6. StreamStep
  BY <1>5 DEF StreamStep, Stream!Next
<1>7. Seamless(s)'
  <2>1. reader'[s] = "done"
    BY <1>1
  <2> QED
    BY <2>1 DEF Seamless, Reading
<1>8. \A u \in Subscribers \ {s} :
        /\ queue'[u] = queue[u] /\ received'[u] = received[u]
        /\ since'[u] = since[u] /\ reader'[u] = reader[u]
  BY <1>1
<1> QED
  BY <1>6, <1>7, <1>8, OthersSeamless DEF Keeps

\* Nothing is delivered, and nothing is taken from the queue.
LEMMA NothingMoves ==
    ASSUME ConsumersInv, NEW s \in Subscribers
    PROVE  /\ 0 \in 0 .. Len(queue[s]) /\ \A i \in 1 .. 0 : queue[s][i] # None
           /\ queue = [queue EXCEPT ![s] = SubSeq(queue[s], 0 + 1, Len(queue[s]))]
           /\ received = [received EXCEPT ![s] = received[s] \o SubSeq(queue[s], 1, 0)]
<1>1. /\ queue[s] \in Seq(Nat) /\ received[s] \in Seq(Nat) /\ Len(queue[s]) \in Nat
      /\ queue \in [Subscribers -> Seq(0 .. MaxPublications)]
      /\ received \in [Subscribers -> Seq(1 .. MaxPublications)]
  BY ConsumerTypes DEF ConsumersInv, ConsumersOK, TypeOK
<1>2. SubSeq(queue[s], 0 + 1, Len(queue[s])) = queue[s]
  BY <1>1, SubSeqFull
<1>3. received[s] \o SubSeq(queue[s], 1, 0) = received[s]
  BY <1>1, SubSeqEmpty, ConcatEmptySeq
<1> QED
  BY <1>1, <1>2, <1>3

(* The next item is asked for, or a woken get() runs. *)
LEMMA IteratingKeeps ==
    ASSUME StreamInv, NEW s \in Subscribers, NextItem(s) \/ Run(s)
    PROVE  Keeps
<1>1. /\ Reading(s)
      /\ Take(s) \/ Wait(s)
      /\ UNCHANGED <<config, detached, closed, published, since, overflowed>>
  BY DEF NextItem, Run, Reading
<1>2. CASE Wait(s)
  <2>1. /\ reader' = [reader EXCEPT ![s] = "waiting"]
        /\ UNCHANGED <<queue, received>>
    BY <1>2 DEF Wait
  <2> QED
    BY <1>1, <2>1, NothingMoves, ReadingKeeps DEF StreamInv
<1>3. CASE Take(s)
  <2>1. \A i \in 1 .. 0 : queue[s][i] # None
    OBVIOUS
  <2>2. Lines
    BY DEF StreamInv, ConsumersInv
  <2> DEFINE p == SubSeq(queue[s], 0 + 2, Len(queue[s]))
             q == queue[s]
             r == received[s]
  <2>3. CASE /\ 0 < Len(q) /\ q[1] = None
             /\ queue' = [queue EXCEPT ![s] = p]
             /\ received' = [received EXCEPT ![s] = r \o SubSeq(q, 1, 0)]
             /\ reader' = [reader EXCEPT ![s] = "done"]
    <3> HIDE DEF p
    <3>1. 0 \in Nat /\ q[0 + 1] = None
      BY <2>3
    <3> QED
      BY <1>1, <2>1, <2>3, <3>1, EndingKeeps
  <2>4. CASE /\ 1 \in 0 .. Len(q) /\ \A i \in 1 .. 1 : q[i] # None
             /\ queue' = [queue EXCEPT ![s] = SubSeq(q, 1 + 1, Len(q))]
             /\ received' = [received EXCEPT ![s] = r \o SubSeq(q, 1, 1)]
             /\ reader' = [reader EXCEPT ![s] = "ready"]
    BY <1>1, <2>4, ReadingKeeps
  <2> QED
    BY <1>3, <2>2, <2>3, <2>4, TakesFirst
<1> QED
  BY <1>1, <1>2, <1>3

(* A reader leaves, or an abandoned generator is finalized, which changes nothing for
   the subscription. *)
LEMMA LeavingKeepsStream ==
    ASSUME StreamInv, NEW s \in Subscribers, Abandon(s) \/ Finalize(s)
    PROVE  Keeps
<1>1. PICK st \in {"abandoned", "left"} :
        /\ reader' = [reader EXCEPT ![s] = st]
        /\ UNCHANGED <<config, queue, closed, published, since, received, overflowed>>
        /\ Reading(s) \/ reader[s] = "abandoned"
  BY DEF Abandon, Finalize, Reading
<1>2. CASE Reading(s)
  BY <1>1, <1>2, NothingMoves, ReadingKeeps DEF StreamInv
<1>3. CASE reader[s] = "abandoned"
  <2>1. Status(st) = Status(reader[s])
    BY <1>3, Statuses
  <2>2. StatusOf' = StatusOf
    BY <1>1, <2>1, StatusMoves DEF StreamInv
  <2>3. StreamStep
    BY <1>1, <2>2 DEF StreamStep, Stream!vars, StatusOf
  <2>4. reader \in [Subscribers -> ReaderStates]
    BY DEF StreamInv, ConsumersInv, ConsumersOK, TypeOK
  <2>5. Seamless(s)'
    <3>1. reader'[s] = st
      BY <1>1, <2>4
    <3> QED
      BY <3>1 DEF Seamless, Reading
  <2> QED
    BY <1>1, <2>3, <2>4, <2>5, OthersSeamless DEF Keeps
<1> QED
  BY <1>1, <1>2, <1>3

(* Nothing happens to the broadcaster. *)
LEMMA StutterKeepsStream ==
    ASSUME StreamInv, UNCHANGED vars
    PROVE  Keeps
<1>1. UNCHANGED <<config, queue, reader, closed, published, since, received, overflowed>>
  BY DEF vars
<1>2. StreamStep
  BY <1>1 DEF StreamStep, Stream!vars
<1> QED
  BY <1>1, <1>2 DEF Keeps, StreamInv, Seamless, Reading

(* A consumer registers. *)
LEMMA RegisteringKeeps ==
    ASSUME StreamInv, NEW s \in Subscribers, reader[s] = "none", RegistersAndWaits(s)
    PROVE  Keeps
<1>1. /\ Registers(s, "waiting")
      /\ UNCHANGED <<config, queue, closed, published, received, overflowed>>
  BY DEF RegistersAndWaits
<1>2. /\ queue[s] = <<>> /\ received[s] = <<>>
      /\ reader \in [Subscribers -> ReaderStates]
      /\ since \in [Subscribers -> 0 .. MaxPublications]
  BY DEF StreamInv, ConsumersInv, ConsumersOK, TypeOK, Lines, Line
<1>3. reader' = [reader EXCEPT ![s] = IF closed THEN "done" ELSE "waiting"]
  BY <1>1 DEF Registers
<1>4. Stream!Open(s)
  <2>1. StatusOf[s] = "none"
    BY Statuses DEF StatusOf
  <2>2. Status(IF closed THEN "done" ELSE "waiting") = IF closed THEN "over" ELSE "open"
    BY Statuses
  <2>3. StatusOf' = [StatusOf EXCEPT ![s] = IF closed THEN "over" ELSE "open"]
    BY <1>3, <2>2, StatusMoves DEF StreamInv
  <2>4. since' = IF closed THEN since ELSE [since EXCEPT ![s] = published]
    BY <1>1 DEF Registers
  <2> QED
    BY <1>1, <2>1, <2>3, <2>4 DEF Stream!Open, StatusOf
<1>5. StreamStep
  BY <1>4 DEF StreamStep, Stream!Next
<1>6. Seamless(s)'
  <2>1. Len(queue'[s]) = 0
    BY <1>1, <1>2, EmptySeq
  <2>2. ~\E i \in 1 .. 0 : TRUE
    OBVIOUS
  <2> QED
    BY <2>1, <2>2 DEF Seamless, Unbroken
<1>7. \A u \in Subscribers \ {s} : reader'[u] = reader[u] /\ since'[u] = since[u]
  BY <1>1, <1>2 DEF Registers
<1> QED
  BY <1>1, <1>5, <1>6, <1>7, OthersSeamless DEF Keeps

(* A woken waiter takes what is queued, up to an item that decides. *)
LEMMA WaiterKeeps ==
    ASSUME StreamInv, NEW s \in Subscribers, WaitRuns(s)
    PROVE  Keeps
<1> DEFINE q == queue[s]
           r == received[s]
           k == Min(StopsAt(q))
<1>1. /\ Reading(s)
      /\ UNCHANGED <<config, detached, closed, published, since, overflowed>>
  BY DEF WaitRuns, Reading
<1>2. q \in Seq(Nat) /\ r \in Seq(Nat) /\ Len(q) \in Nat
  BY ConsumerTypes DEF StreamInv
<1>3. CASE s \in detached
  <2>1. /\ reader' = [reader EXCEPT ![s] = "waiting"]
        /\ UNCHANGED <<queue, received>>
    BY <1>3 DEF WaitRuns, Wait
  <2> QED
    BY <1>1, <2>1, NothingMoves, ReadingKeeps DEF StreamInv
<1>4. CASE s \notin detached /\ StopsAt(q) = {}
  <2>1. /\ received' = [received EXCEPT ![s] = r \o q]
        /\ queue' = [queue EXCEPT ![s] = <<>>]
        /\ reader' = [reader EXCEPT ![s] = "waiting"]
    BY <1>4 DEF WaitRuns
  <2>2. /\ SubSeq(q, 1, Len(q)) = q
        /\ SubSeq(q, Len(q) + 1, Len(q)) = <<>>
        /\ Len(q) \in 0 .. Len(q)
    BY <1>2, SubSeqFull, SubSeqEmpty
  <2>3. \A i \in 1 .. Len(q) : q[i] # None
    BY <1>2, <1>4, WaiterStops
  <2>4. /\ queue' = [queue EXCEPT ![s] = SubSeq(q, Len(q) + 1, Len(q))]
        /\ received' = [received EXCEPT ![s] = r \o SubSeq(q, 1, Len(q))]
    BY <2>1, <2>2
  <2> QED
    BY <1>1, <2>1, <2>2, <2>3, <2>4, ReadingKeeps
<1>5. CASE s \notin detached /\ StopsAt(q) # {}
  <2>1. /\ k \in 1 .. Len(q)
        /\ \A i \in 1 .. k - 1 : q[i] # None
    BY <1>2, <1>5, WaiterStops
  <2>2. /\ queue' = [queue EXCEPT ![s] = SubSeq(queue[s], k + 1, Len(queue[s]))]
        /\ received' = [received EXCEPT ![s] =
             received[s] \o SubSeq(queue[s], 1, IF q[k] = None THEN k - 1 ELSE k)]
        /\ reader' = [reader EXCEPT ![s] =
                        IF q[k] = None THEN "done" ELSE "abandoned"]
    BY <1>5 DEF WaitRuns
  <2> HIDE DEF k
  <2>3. CASE q[k] = None
    <3>1. k - 1 \in Nat /\ k - 1 < Len(q) /\ (k - 1) + 1 = k
      BY <1>2, <2>1
    <3>2. /\ received' = [received EXCEPT ![s] =
                            received[s] \o SubSeq(queue[s], 1, k - 1)]
          /\ reader' = [reader EXCEPT ![s] = "done"]
          /\ queue[s][(k - 1) + 1] = None
      BY <2>2, <2>3, <3>1
    <3> QED
      BY <1>1, <2>1, <2>2, <3>1, <3>2, EndingKeeps
  <2>4. CASE q[k] # None
    <3>1. k \in 0 .. Len(q)
      BY <1>2, <2>1
    <3>2. ASSUME NEW i \in 1 .. k PROVE q[i] # None
      <4>1. i = k \/ i \in 1 .. k - 1
        BY <2>1
      <4> QED
        BY <2>1, <2>4, <4>1
    <3>3. /\ received' = [received EXCEPT ![s] = received[s] \o SubSeq(queue[s], 1, k)]
          /\ reader' = [reader EXCEPT ![s] = "abandoned"]
      BY <2>2, <2>4
    <3> QED
      BY <1>1, <2>2, <3>1, <3>2, <3>3, ReadingKeeps
  <2> QED
    BY <2>3, <2>4
<1> QED
  BY <1>3, <1>4, <1>5

-------------------------------------------------------------------------------
(* Steps of the broadcaster *)

(* A get() that is woken is still a get(). *)
LEMMA WakingIsNoMove ==
    ASSUME reader' = [s \in Subscribers |->
                        IF s \in subscribers THEN Wake(reader[s]) ELSE reader[s]]
    PROVE  StatusOf' = StatusOf /\ \A s \in Subscribers : Reading(s)' => Reading(s)
<1>1. \A r : Status(Wake(r)) = Status(r)
  BY Statuses DEF Wake
<1>2. \A s \in Subscribers : Status(reader'[s]) = Status(reader[s])
  BY <1>1
<1>3. StatusOf' = [s \in Subscribers |-> Status(reader'[s])]
  BY DEF StatusOf
<1>4. \A s \in Subscribers : Reading(s)' => Reading(s)
  BY DEF Reading, Wake
<1> QED
  BY <1>2, <1>3, <1>4 DEF StatusOf

(* publish(): only subscribers that are registered are dropped, and the line of every
   other one has no hole. *)
LEMMA PublishingKeeps ==
    ASSUME StreamInv, Publish, ConsumersInv'
    PROVE  Keeps
<1> DEFINE dead == IF config.policy = "fail_fast"
                   THEN {s \in subscribers : Full(queue[s])} ELSE {}
<1>1. /\ ~closed /\ published' = published + 1
      /\ overflowed' = overflowed \cup dead
      /\ reader' = [s \in Subscribers |->
                      IF s \in subscribers THEN Wake(reader[s]) ELSE reader[s]]
      /\ UNCHANGED <<config, closed, since, received>>
  BY DEF Publish
<1>2. Stream!Publish
  <2>1. StatusOf' = StatusOf
    BY <1>1, WakingIsNoMove
  <2>2. ASSUME NEW s \in dead
        PROVE  /\ config.policy = "fail_fast" /\ s \in Subscribers
               /\ StatusOf[s] \in {"open", "left"}
    <3>1. s \in subscribers /\ s \in Subscribers /\ config.policy = "fail_fast"
      BY DEF StreamInv, ConsumersInv, Lines, TypeOK
    <3>2. reader[s] \in {"ready", "waiting", "woken", "abandoned"}
      BY <3>1 DEF StreamInv, ConsumersInv, Lines, Line
    <3> QED
      BY <3>1, <3>2, Statuses DEF StatusOf
  <2> HIDE DEF dead
  <2>3. /\ overflowed \subseteq overflowed'
        /\ overflowed' \ overflowed \subseteq
             {s \in Subscribers :
                config.policy = "fail_fast" /\ StatusOf[s] \in {"open", "left"}}
    BY <1>1, <2>2
  <2> QED
    BY <1>1, <2>1, <2>3 DEF Stream!Publish, StatusOf
<1>3. ASSUME NEW s \in Subscribers PROVE Seamless(s)'
  <2>1. SUFFICES ASSUME config'.policy = "fail_fast", Reading(s)', s \notin overflowed'
                 PROVE  Unbroken(queue'[s], received'[s], since'[s])
    BY DEF Seamless
  <2>2. s \in subscribers'
    BY <1>1, <2>1 DEF ConsumersInv, Lines, Line
  <2>3. /\ Recent(queue'[s], received'[s], since'[s], published')
        /\ Complete(queue'[s], received'[s], since'[s], published')
    BY <2>1, <2>2 DEF ConsumersInv, Lines, Line
  <2>4. /\ queue'[s] \in Seq(Nat) /\ received'[s] \in Seq(Nat)
        /\ since'[s] \in Nat /\ published' \in Nat
    <3>1. /\ queue'[s] \in Seq(0 .. MaxPublications)
          /\ received'[s] \in Seq(1 .. MaxPublications)
          /\ since'[s] \in 0 .. MaxPublications /\ published' \in 0 .. MaxPublications
      BY DEF ConsumersInv, ConsumersOK, TypeOK
    <3>2. 0 .. MaxPublications \subseteq Nat /\ 1 .. MaxPublications \subseteq Nat
      BY QueueAssumption
    <3> QED
      BY <3>1, <3>2, SeqMonotonic
  <2> QED
    BY <2>3, <2>4, CompleteIsUnbroken
<1> QED
  BY <1>2, <1>3 DEF Keeps, StreamStep, Stream!Next

(* close(): only the sentinel is added. *)
LEMMA ClosingKeeps ==
    ASSUME StreamInv, Close
    PROVE  Keeps
<1>1. /\ ~closed /\ closed' = TRUE
      /\ queue' = [s \in Subscribers |->
                     IF s \in subscribers THEN PutSentinel(queue[s]) ELSE queue[s]]
      /\ reader' = [s \in Subscribers |->
                      IF s \in subscribers THEN Wake(reader[s]) ELSE reader[s]]
      /\ UNCHANGED <<config, published, since, received, overflowed>>
  BY DEF Close
<1>2. Stream!Close
  BY <1>1, WakingIsNoMove DEF Stream!Close, StatusOf
<1>3. ASSUME NEW s \in Subscribers PROVE Seamless(s)'
  <2>1. SUFFICES ASSUME config'.policy = "fail_fast", Reading(s)', s \notin overflowed'
                 PROVE  Unbroken(queue'[s], received'[s], since'[s])
    BY DEF Seamless
  <2>2. Unbroken(queue[s], received[s], since[s])
    BY <1>1, <2>1, WakingIsNoMove DEF StreamInv, Seamless
  <2>3. Unbroken(Append(queue[s], None), received[s], since[s])
    BY <2>2, ConsumerTypes, SentinelBreaksNothing DEF StreamInv
  <2>4. queue'[s] \in {queue[s], Append(queue[s], None)}
    BY <1>1 DEF PutSentinel
  <2> QED
    BY <1>1, <2>2, <2>3, <2>4
<1> QED
  BY <1>2, <1>3 DEF Keeps, StreamStep, Stream!Next

-------------------------------------------------------------------------------
(* The refinement *)

(* Whatever a consumer does is a step of its subscription, or none. *)
LEMMA ConsumersKeepStreams ==
    ASSUME StreamInv, NEW s \in Subscribers, Consumer(s)
    PROVE  Keeps
<1>1. CASE UNCHANGED vars
  BY <1>1, StutterKeepsStream
<1>2. CASE reader[s] = "none" /\ RegistersAndWaits(s)
  BY <1>2, RegisteringKeeps
<1>3. CASE SubscribeStarts(s) \/ SubscribeResumes(s) \/ WatchStarts(s) \/ WatchResumes(s)
  BY <1>1, <1>2, <1>3 DEF SubscribeStarts, SubscribeResumes, WatchStarts, WatchResumes,
                          Starts, Resumes, Offers
<1>4. CASE WaitStarts(s)
  BY <1>1, <1>2, <1>4 DEF WaitStarts, Starts
<1>5. CASE Iterates(s)
  BY <1>5, IteratingKeeps DEF Iterates
<1>6. CASE Leaves(s) \/ WaitTimesOut(s) \/ WaitFinalized(s)
  BY <1>6, LeavingKeepsStream DEF Leaves, WaitTimesOut, WaitFinalized
<1>7. CASE WaitRuns(s)
  BY <1>7, WaiterKeeps
<1> QED
  BY <1>3, <1>4, <1>5, <1>6, <1>7 DEF Consumer

(* So is every step, and StreamInv is inductive. *)
LEMMA StepsAreStreamSteps ==
    StreamInv /\ [ConsumersNext]_allVars => StreamStep /\ StreamInv'
<1> SUFFICES ASSUME StreamInv, [ConsumersNext]_allVars PROVE StreamStep /\ StreamInv'
  OBVIOUS
<1>1. ConsumersInv'
  BY ConsumersNextKeeps DEF StreamInv
<1>2. CASE Replica
  BY <1>1, <1>2, PublishingKeeps, ClosingKeeps
     DEF Replica, PublishSnapshot, Fail, CloseReplica, CloseBroadcaster, Publishes,
         StreamInv, Keeps
<1>3. CASE \E s \in Subscribers : Consumer(s)
  BY <1>1, <1>3, ConsumersKeepStreams DEF StreamInv, Keeps
<1>4. CASE UNCHANGED allVars
  BY <1>1, <1>4, StutterKeepsStream DEF allVars, StreamInv, Keeps
<1> QED
  BY <1>2, <1>3, <1>4 DEF ConsumersNext

(* At first there is no subscription. *)
LEMMA StreamsStart == ConsumersInit => StreamInv /\ Stream!Init
<1> SUFFICES ASSUME ConsumersInit PROVE StreamInv /\ Stream!Init
  OBVIOUS
<1>1. /\ config \in Configs /\ published = 0 /\ closed = FALSE /\ overflowed = {}
      /\ reader = [s \in Subscribers |-> "none"]
      /\ since = [s \in Subscribers |-> 0]
      /\ received = [s \in Subscribers |-> <<>>]
  BY DEF ConsumersInit, Init
<1>2. StatusOf = [s \in Subscribers |-> "none"]
  BY <1>1, Statuses DEF StatusOf
<1>3. Stream!Init
  BY <1>1, <1>2 DEF Stream!Init, StatusOf
<1>4. \A s \in Subscribers : Seamless(s)
  BY <1>1 DEF Seamless, Reading
<1> QED
  BY <1>3, <1>4, ConsumersStart DEF StreamInv

\* Under fail_fast no reader's line has a hole, before and after close(): what it has
\* received is followed by what is queued.
THEOREM StreamsAreSeamless == ConsumersSpec => []StreamInv
BY StreamsStart, StepsAreStreamSteps, PTL DEF ConsumersSpec

\* Subscription implements the safety of SnapshotStream: whatever queues, sentinels
\* and wake-ups are, a subscriber is given publications made after it subscribed, each
\* once and in order, all of them under fail_fast unless it was dropped, and its
\* stream ends only then or after the last one.
THEOREM StreamsKeepTheirPromise == ConsumersSpec => ImplementsStream
<1>1. ConsumersInit => Stream!Init
  BY StreamsStart
<1>2. StreamInv /\ [ConsumersNext]_allVars => [Stream!Next]_(Stream!vars)
  BY StepsAreStreamSteps DEF StreamStep
<1> QED
  BY <1>1, <1>2, StreamsAreSeamless, PTL DEF ConsumersSpec, ImplementsStream, Stream!Safety
===============================================================================
