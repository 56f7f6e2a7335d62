-------------------------- MODULE Broadcaster_proofs ---------------------------
(***************************************************************************)
(* Proofs about Broadcaster, for every set of subscribers, every queue size  *)
(* and policy, and every bound on the publications.                         *)
(*                                                                         *)
(* The invariant is about one subscriber's line: its queue q, what it has    *)
(* received r, the publications a made before it subscribed, and those n     *)
(* made so far.  What each step does to a line is proved first, apart from   *)
(* the state.                                                              *)
(***************************************************************************)
EXTENDS Broadcaster, SequenceTheorems, TLAPS

\* The last publication that a reader knows of.
Latest(r, a) == IF r = <<>> THEN a ELSE r[Len(r)]

\* The line of a subscriber: the last publications are queued, and if none is, it
\* has received the last one.
Recent(q, r, a, n) ==
    /\ a + Len(q) <= n
    /\ \A i \in 1 .. Len(q) : q[i] = n - Len(q) + i
    /\ q = <<>> => Latest(r, a) = n

\* ...and that of one that has missed nothing.
Complete(q, r, a, n) ==
    /\ a + Len(r) + Len(q) = n
    /\ \A i \in 1 .. Len(r) : r[i] = a + i

Ended(q) == q # <<>> /\ q[Len(q)] = None

\* What close() leaves: the sentinel comes after the last publication.
Finishing(q, r, a, n) ==
    /\ Ended(q)
    /\ IF Len(q) = 1 THEN Latest(r, a) = n ELSE q[Len(q) - 1] = n

\* Publications are received, and queued, in their order; the sentinel is last.
InOrder(q, r, a, n) ==
    /\ \A i \in 1 .. Len(r) : a < r[i] /\ r[i] <= n
    /\ \A i, j \in 1 .. Len(r) : i < j => r[i] < r[j]
    /\ \A i \in 1 .. Len(q) : q[i] # None => a < q[i] /\ q[i] <= n
    /\ \A i, j \in 1 .. Len(q) :
         i < j => q[i] # None /\ (q[j] # None => q[i] < q[j])
    /\ \A i \in 1 .. Len(r), j \in 1 .. Len(q) : q[j] # None => r[i] < q[j]

\* How far a line is.
Line(s) ==
    /\ s \in subscribers =>
         /\ ~closed /\ s \notin overflowed
         /\ reader[s] \in {"ready", "waiting", "woken", "abandoned"}
         /\ Len(queue[s]) <= config.queueSize
         /\ Recent(queue[s], received[s], since[s], published)
         /\ config.policy = "fail_fast" =>
              Complete(queue[s], received[s], since[s], published)
    /\ Reading(s) /\ s \notin overflowed \cup subscribers =>
         /\ closed
         /\ Finishing(queue[s], received[s], since[s], published)
    /\ Reading(s) /\ s \in overflowed => Ended(queue[s])
    /\ reader[s] = "none" =>
         /\ queue[s] = <<>> /\ received[s] = <<>>
         /\ s \notin overflowed \cup subscribers
    /\ since[s] <= published
    /\ InOrder(queue[s], received[s], since[s], published)

Lines == TypeOK /\ \A s \in Subscribers : Line(s)

-------------------------------------------------------------------------------
(* What the steps do to a line *)

\* put_nowait, and what it leaves in place.
LEMMA Appended ==
    ASSUME NEW q \in Seq(Nat), NEW x \in Nat
    PROVE  /\ Append(q, x) \in Seq(Nat) /\ Append(q, x) # <<>>
           /\ Len(Append(q, x)) = Len(q) + 1
           /\ \A i \in 1 .. Len(q) : Append(q, x)[i] = q[i]
           /\ Append(q, x)[Len(q) + 1] = x
BY AppendProperties

HasNoSentinel(q) == \A i \in 1 .. Len(q) : q[i] # None

\* The last publications are not the sentinel.
LEMMA RecentIsData ==
    ASSUME NEW q \in Seq(Nat), NEW r, NEW a \in Nat, NEW n \in Nat, Recent(q, r, a, n)
    PROVE  HasNoSentinel(q)
<1>1. Len(q) \in Nat
  OBVIOUS
<1> QED
  BY <1>1 DEF Recent, HasNoSentinel, None

\* What is in order stays so while others are published to.
LEMMA OrderLasts ==
    ASSUME NEW q \in Seq(Nat), NEW r \in Seq(Nat), NEW a \in Nat, NEW n \in Nat,
           InOrder(q, r, a, n)
    PROVE  InOrder(q, r, a, n + 1)
<1>1. /\ \A i \in 1 .. Len(q) : q[i] \in Nat
      /\ \A i \in 1 .. Len(r) : r[i] \in Nat
  BY ElementOfSeq
<1> QED
  BY <1>1 DEF InOrder

\* A publication, or the sentinel, is queued behind publications.
LEMMA OrderAppends ==
    ASSUME NEW q \in Seq(Nat), NEW r \in Seq(Nat), NEW a \in Nat, NEW n \in Nat,
           NEW m \in Nat, a <= n, n <= m, HasNoSentinel(q), InOrder(q, r, a, n),
           NEW x \in {n + 1, None}, x <= m
    PROVE  InOrder(Append(q, x), r, a, m)
<1> DEFINE p == Append(q, x)
<1>1. x \in Nat
  BY DEF None
<1>2. /\ Len(p) = Len(q) + 1
      /\ \A i \in 1 .. Len(q) : p[i] = q[i]
      /\ p[Len(q) + 1] = x
  BY <1>1, Appended
<1>3. Len(q) \in Nat /\ Len(r) \in Nat
  OBVIOUS
<1>4. /\ \A i \in 1 .. Len(q) : q[i] \in Nat
      /\ \A i \in 1 .. Len(r) : r[i] \in Nat
  BY ElementOfSeq
<1> HIDE DEF p
<1>5. \A i \in 1 .. Len(r) : a < r[i] /\ r[i] <= m
  BY <1>3, <1>4 DEF InOrder
<1>6. \A i, j \in 1 .. Len(r) : i < j => r[i] < r[j]
  BY DEF InOrder
<1>7. ASSUME NEW i \in 1 .. Len(p), p[i] # None PROVE a < p[i] /\ p[i] <= m
  <2>1. CASE i = Len(q) + 1
    BY <1>2, <1>7, <2>1
  <2>2. CASE i # Len(q) + 1
    <3>1. i \in 1 .. Len(q) /\ p[i] = q[i]
      BY <1>2, <1>3, <2>2
    <3>2. a < q[i] /\ q[i] <= n /\ q[i] \in Nat
      BY <1>4, <1>7, <3>1 DEF InOrder
    <3> QED
      BY <3>1, <3>2
  <2> QED
    BY <2>1, <2>2
<1>8. \A i, j \in 1 .. Len(p) :
        i < j => p[i] # None /\ (p[j] # None => p[i] < p[j])
  <2>1. SUFFICES ASSUME NEW i \in 1 .. Len(p), NEW j \in 1 .. Len(p), i < j
                 PROVE  p[i] # None /\ (p[j] # None => p[i] < p[j])
    OBVIOUS
  <2>2. i \in 1 .. Len(q) /\ p[i] = q[i] /\ q[i] # None /\ q[i] \in Nat /\ q[i] <= n /\ q[i] <= m
    BY <1>2, <1>3, <1>4, <2>1 DEF InOrder, HasNoSentinel
  <2>3. CASE j = Len(q) + 1
    BY <1>2, <2>2, <2>3 DEF None
  <2>4. CASE j # Len(q) + 1
    <3>1. j \in 1 .. Len(q) /\ p[j] = q[j]
      BY <1>2, <1>3, <2>4
    <3>2. q[j] # None => q[i] < q[j]
      BY <2>1, <2>2, <3>1 DEF InOrder
    <3> QED
      BY <2>2, <3>1, <3>2
  <2> QED
    BY <2>3, <2>4
<1>9. \A i \in 1 .. Len(r), j \in 1 .. Len(p) : p[j] # None => r[i] < p[j]
  BY <1>2, <1>3, <1>4 DEF InOrder, None
<1> QED
  BY <1>5, <1>6, <1>7, <1>8, <1>9 DEF InOrder, p

\* A publication makes the most recent ones of those before it, whether or not the
\* oldest was dropped.
LEMMA RecentAppends ==
    ASSUME NEW q \in Seq(Nat), NEW r, NEW a \in Nat, NEW n \in Nat,
           a + Len(q) <= n, \A i \in 1 .. Len(q) : q[i] = n - Len(q) + i
    PROVE  Recent(Append(q, n + 1), r, a, n + 1)
<1> DEFINE p == Append(q, n + 1)
<1>1. /\ Len(p) = Len(q) + 1 /\ p # <<>>
      /\ \A i \in 1 .. Len(q) : p[i] = q[i]
      /\ p[Len(q) + 1] = n + 1
  BY Appended
<1>2. Len(q) \in Nat
  OBVIOUS
<1> HIDE DEF p
<1>3. \A i \in 1 .. Len(p) : p[i] = n + 1 - Len(p) + i
  <2>1. SUFFICES ASSUME NEW i \in 1 .. Len(p)
                 PROVE  p[i] = n + 1 - Len(p) + i
    OBVIOUS
  <2>2. CASE i = Len(q) + 1
    BY <1>1, <1>2, <2>2
  <2>3. CASE i # Len(q) + 1
    <3>1. i \in 1 .. Len(q) /\ p[i] = q[i]
      BY <1>1, <1>2, <2>3
    <3>2. q[i] = n - Len(q) + i
      BY <3>1
    <3> QED
      BY <1>1, <1>2, <3>1, <3>2
  <2> QED
    BY <2>2, <2>3
<1>4. Recent(p, r, a, n + 1)
  BY <1>1, <1>2, <1>3 DEF Recent
<1> QED
  BY <1>4 DEF p

(* put_nowait after get_nowait under drop_oldest: the oldest item makes room for the
   newest. *)
LEMMA RecentShifts ==
    ASSUME NEW q \in Seq(Nat), NEW r, NEW a \in Nat, NEW n \in Nat,
           Recent(q, r, a, n), q # <<>>
    PROVE  Recent(Append(Tail(q), n + 1), r, a, n + 1)
<1> DEFINE t == Tail(q)
<1>1. t \in Seq(Nat)
  BY HeadTailProperties
<1>2. Len(t) = Len(q) - 1 /\ \A i \in 1 .. Len(t) : t[i] = q[i + 1]
  BY HeadTailProperties
<1>3. Len(q) \in Nat /\ Len(t) \in Nat
  BY <1>1
<1> HIDE DEF t
<1>4. a + Len(t) <= n
  BY <1>2, <1>3 DEF Recent
<1>5. \A i \in 1 .. Len(t) : t[i] = n - Len(t) + i
  <2>1. SUFFICES ASSUME NEW i \in 1 .. Len(t)
                 PROVE  t[i] = n - Len(t) + i
    OBVIOUS
  <2>2. t[i] = q[i + 1] /\ i + 1 \in 1 .. Len(q)
    BY <1>2, <1>3
  <2>3. q[i + 1] = n - Len(q) + (i + 1)
    BY <2>2 DEF Recent
  <2> QED
    BY <1>2, <1>3, <2>2, <2>3
<1>6. Recent(Append(t, n + 1), r, a, n + 1)
  BY <1>1, <1>4, <1>5, RecentAppends
<1> QED
  BY <1>6 DEF t

(* Under fail_fast a publication that fits extends the stream without a hole. *)
LEMMA CompleteAppends ==
    ASSUME NEW q \in Seq(Nat), NEW r \in Seq(Nat), NEW a \in Nat, NEW n \in Nat,
           Complete(q, r, a, n)
    PROVE  Complete(Append(q, n + 1), r, a, n + 1)
<1>1. PICK x \in Nat, y \in Nat : x = Len(q) /\ y = Len(r)
  OBVIOUS
<1>2. Len(Append(q, n + 1)) = x + 1
  BY <1>1, Appended
<1>3. a + y + x = n
  BY <1>1 DEF Complete
<1>4. a + y + (x + 1) = n + 1
  BY <1>3
<1> QED
  BY <1>1, <1>2, <1>4 DEF Complete

(* close() puts the sentinel last. *)
LEMMA SentinelEnds ==
    ASSUME NEW q \in Seq(Nat)
    PROVE  Ended(Append(q, None))
<1> DEFINE p == Append(q, None)
<1>1. Len(p) = Len(q) + 1 /\ p # <<>> /\ p[Len(q) + 1] = None
  BY Appended DEF None
<1> HIDE DEF p
<1>2. Ended(p)
  BY <1>1 DEF Ended
<1> QED
  BY <1>2 DEF p

\* The sentinel ends a line that is up to date.
LEMMA SentinelFinishes ==
    ASSUME NEW q \in Seq(Nat), NEW r \in Seq(Nat), NEW a \in Nat, NEW n \in Nat,
           Recent(q, r, a, n)
    PROVE  Finishing(Append(q, None), r, a, n)
<1> DEFINE p == Append(q, None)
<1>1. /\ Len(p) = Len(q) + 1 /\ p # <<>>
      /\ \A i \in 1 .. Len(q) : p[i] = q[i]
      /\ p[Len(q) + 1] = None
  BY Appended DEF None
<1>2. Len(q) \in Nat /\ (q = <<>> <=> Len(q) = 0)
  BY EmptySeq
<1> HIDE DEF p
<1>3. CASE q = <<>>
  BY <1>1, <1>2, <1>3 DEF Recent, Finishing, Ended, p
<1>4. CASE q # <<>>
  <2>1. Len(q) \in 1 .. Len(q) /\ Len(p) # 1 /\ Len(p) - 1 = Len(q)
    BY <1>1, <1>2, <1>4
  <2>2. q[Len(q)] = n
    BY <1>2, <2>1 DEF Recent
  <2>3. p[Len(p) - 1] = n /\ p[Len(p)] = None
    BY <1>1, <1>2, <2>1, <2>2
  <2> QED
    BY <1>1, <2>1, <2>3 DEF Finishing, Ended, p
<1> QED
  BY <1>3, <1>4

\* The reader is given the first k items.
LEMMA Delivered ==
    ASSUME NEW q \in Seq(Nat), NEW r \in Seq(Nat), NEW k \in 0 .. Len(q)
    PROVE  LET p == SubSeq(q, k + 1, Len(q))
               t == r \o SubSeq(q, 1, k)
           IN /\ p \in Seq(Nat) /\ t \in Seq(Nat)
              /\ Len(p) = Len(q) - k /\ Len(t) = Len(r) + k
              /\ \A i \in 1 .. Len(p) : p[i] = q[k + i]
              /\ \A i \in 1 .. Len(r) : t[i] = r[i]
              /\ \A i \in 1 .. k : t[Len(r) + i] = q[i]
<1> DEFINE p == SubSeq(q, k + 1, Len(q))
           d == SubSeq(q, 1, k)
           t == r \o d
<1>1. Len(q) \in Nat /\ Len(r) \in Nat /\ k \in Nat /\ k <= Len(q)
  OBVIOUS
<1>2. \A i \in 1 .. Len(q) : q[i] \in Nat
  BY ElementOfSeq
<1>3. /\ p \in Seq(Nat) /\ Len(p) = Len(q) - k
      /\ \A i \in 1 .. Len(p) : p[i] = q[k + i]
  <2>1. \A i \in k + 1 .. Len(q) : q[i] \in Nat
    BY <1>1, <1>2
  <2> DEFINE m == k + 1
             l == Len(q)
  <2>0. m \in Int /\ l \in Int
    BY <1>1
  <2> HIDE DEF m, l
  <2>2. /\ p \in Seq(Nat)
        /\ Len(p) = IF k + 1 <= Len(q) THEN Len(q) - (k + 1) + 1 ELSE 0
        /\ \A i \in 1 .. Len(q) - (k + 1) + 1 : p[i] = q[(k + 1) + i - 1]
    <3>1. \A i \in m .. l : q[i] \in Nat
      BY <2>1 DEF m, l
    <3>2. /\ SubSeq(q, m, l) \in Seq(Nat)
          /\ Len(SubSeq(q, m, l)) = IF m <= l THEN l - m + 1 ELSE 0
          /\ \A i \in 1 .. l - m + 1 : SubSeq(q, m, l)[i] = q[m + i - 1]
      BY <2>0, <3>1, SubSeqProperties
    <3> QED
      BY <3>2 DEF m, l
  <2> HIDE DEF p
  <2>3. Len(p) = Len(q) - k
    BY <1>1, <2>2
  <2>4. ASSUME NEW i \in 1 .. Len(p) PROVE p[i] = q[k + i]
    <3>1. i \in 1 .. Len(q) - (k + 1) + 1 /\ (k + 1) + i - 1 = k + i
      BY <1>1, <2>3
    <3> QED
      BY <2>2, <3>1
  <2> QED
    BY <2>2, <2>3, <2>4
<1>4. d \in Seq(Nat) /\ Len(d) = k /\ \A i \in 1 .. k : d[i] = q[i]
  <2>1. \A i \in 1 .. k : q[i] \in Nat
    BY <1>1, <1>2
  <2>2. /\ d \in Seq(Nat)
        /\ Len(d) = IF 1 <= k THEN k - 1 + 1 ELSE 0
        /\ \A i \in 1 .. k - 1 + 1 : d[i] = q[1 + i - 1]
    BY <1>1, <2>1, SubSeqProperties
  <2> HIDE DEF d
  <2>3. Len(d) = k
    BY <1>1, <2>2
  <2>4. ASSUME NEW i \in 1 .. k PROVE d[i] = q[i]
    <3>1. i \in 1 .. k - 1 + 1 /\ 1 + i - 1 = i
      BY <1>1
    <3> QED
      BY <2>2, <3>1
  <2> QED
    BY <2>2, <2>3, <2>4
<1> HIDE DEF p, d
<1>5. /\ t \in Seq(Nat) /\ Len(t) = Len(r) + Len(d)
      /\ \A i \in 1 .. Len(r) + Len(d) : t[i] =
           IF i <= Len(r) THEN r[i] ELSE d[i - Len(r)]
  BY <1>4, ConcatProperties
<1> HIDE DEF t
<1>6. \A i \in 1 .. Len(r) : t[i] = r[i]
  BY <1>1, <1>4, <1>5
<1>7. ASSUME NEW i \in 1 .. k PROVE t[Len(r) + i] = q[i]
  <2>1. /\ Len(r) + i \in 1 .. Len(r) + Len(d)
        /\ ~(Len(r) + i <= Len(r)) /\ (Len(r) + i) - Len(r) = i
    BY <1>1, <1>4
  <2>2. t[Len(r) + i] = d[i]
    BY <1>5, <2>1
  <2> QED
    BY <1>4, <2>2
<1>8. Len(t) = Len(r) + k
  BY <1>4, <1>5
<1> QED
  BY <1>3, <1>5, <1>6, <1>7, <1>8 DEF p, t, d

\* ...which keeps its line as it should be, if the sentinel is not among them.
LEMMA LineDelivers ==
    ASSUME NEW q \in Seq(Nat), NEW r \in Seq(Nat), NEW a \in Nat, NEW n \in Nat,
           NEW k \in 0 .. Len(q), \A i \in 1 .. k : q[i] # None,
           InOrder(q, r, a, n)
    PROVE  LET p == SubSeq(q, k + 1, Len(q))
               t == r \o SubSeq(q, 1, k)
           IN /\ InOrder(p, t, a, n)
              /\ Recent(q, r, a, n) => Recent(p, t, a, n)
              /\ Recent(q, r, a, n) /\ Complete(q, r, a, n) => Complete(p, t, a, n)
              /\ Finishing(q, r, a, n) => Finishing(p, t, a, n)
              /\ Ended(q) => Ended(p)
<1> DEFINE p == SubSeq(q, k + 1, Len(q))
           t == r \o SubSeq(q, 1, k)
<1>1. /\ p \in Seq(Nat) /\ t \in Seq(Nat)
      /\ Len(p) = Len(q) - k /\ Len(t) = Len(r) + k
      /\ \A i \in 1 .. Len(p) : p[i] = q[k + i]
      /\ \A i \in 1 .. Len(r) : t[i] = r[i]
      /\ \A i \in 1 .. k : t[Len(r) + i] = q[i]
  BY Delivered
<1> HIDE DEF p, t
<1>2. /\ Len(q) \in Nat /\ Len(r) \in Nat /\ k \in Nat /\ k <= Len(q)
      /\ Len(p) \in Nat /\ Len(t) \in Nat
  BY <1>1
<1>3. /\ \A i \in 1 .. Len(q) : q[i] \in Nat
      /\ \A i \in 1 .. Len(r) : r[i] \in Nat
  BY ElementOfSeq
<1>4. ASSUME NEW i \in 1 .. Len(t), ~(i \in 1 .. Len(r))
      PROVE  i - Len(r) \in 1 .. k /\ i - Len(r) \in 1 .. Len(q) /\ t[i] = q[i - Len(r)]
  <2>1. PICK x \in Nat : x = Len(r)
    BY <1>2
  <2>2. i \in 1 .. x + k /\ ~(i \in 1 .. x)
    BY <1>1, <1>4, <2>1
  <2>3. i - x \in 1 .. k /\ x + (i - x) = i
    BY <1>2, <2>2
  <2>4. t[Len(r) + (i - x)] = q[i - x]
    BY <1>1, <2>3
  <2>5. i - x \in 1 .. Len(q)
    BY <1>2, <2>3
  <2> QED
    BY <2>1, <2>3, <2>4, <2>5
<1>5. ASSUME NEW i \in 1 .. Len(p)
      PROVE  k + i \in 1 .. Len(q) /\ p[i] = q[k + i] /\ q[k + i] \in Nat
  BY <1>1, <1>2, <1>3
<1>6. InOrder(p, t, a, n)
  <2>1. ASSUME NEW i \in 1 .. Len(t) PROVE a < t[i] /\ t[i] <= n
    <3>1. CASE i \in 1 .. Len(r)
      BY <1>1, <3>1 DEF InOrder
    <3>2. CASE ~(i \in 1 .. Len(r))
      <4>1. i - Len(r) \in 1 .. Len(q) /\ t[i] = q[i - Len(r)] /\ q[i - Len(r)] # None
        BY <1>4, <3>2
      <4> QED
        BY <4>1 DEF InOrder
    <3> QED
      BY <3>1, <3>2
  <2>2. ASSUME NEW i \in 1 .. Len(t), NEW j \in 1 .. Len(t), i < j PROVE t[i] < t[j]
    <3>1. CASE j \in 1 .. Len(r)
      <4>1. i \in 1 .. Len(r)
        BY <1>2, <2>2, <3>1
      <4>2. r[i] < r[j]
        BY <2>2, <3>1, <4>1 DEF InOrder
      <4> QED
        BY <1>1, <3>1, <4>1, <4>2
    <3>2. CASE ~(j \in 1 .. Len(r))
      <4>1. j - Len(r) \in 1 .. Len(q) /\ t[j] = q[j - Len(r)] /\ q[j - Len(r)] # None
        BY <1>4, <3>2
      <4>2. CASE i \in 1 .. Len(r)
        <5>1. r[i] < q[j - Len(r)]
          BY <4>1, <4>2 DEF InOrder
        <5> QED
          BY <1>1, <4>1, <4>2, <5>1
      <4>3. CASE ~(i \in 1 .. Len(r))
        <5>1. i - Len(r) \in 1 .. Len(q) /\ t[i] = q[i - Len(r)]
          BY <1>4, <4>3
        <5>2. i - Len(r) < j - Len(r)
          BY <1>2, <2>2
        <5>3. q[i - Len(r)] < q[j - Len(r)]
          BY <4>1, <5>1, <5>2 DEF InOrder
        <5> QED
          BY <4>1, <5>1, <5>3
      <4> QED
        BY <4>2, <4>3
    <3> QED
      BY <3>1, <3>2
  <2>3. ASSUME NEW i \in 1 .. Len(p), p[i] # None PROVE a < p[i] /\ p[i] <= n
    BY <1>5, <2>3 DEF InOrder
  <2>4. ASSUME NEW i \in 1 .. Len(p), NEW j \in 1 .. Len(p), i < j
        PROVE  p[i] # None /\ (p[j] # None => p[i] < p[j])
    <3>1. k + i \in 1 .. Len(q) /\ p[i] = q[k + i]
      BY <1>5
    <3>2. k + j \in 1 .. Len(q) /\ p[j] = q[k + j]
      BY <1>5
    <3>3. k + i < k + j
      BY <1>2, <2>4
    <3>4. q[k + i] # None /\ (q[k + j] # None => q[k + i] < q[k + j])
      BY <3>1, <3>2, <3>3 DEF InOrder
    <3> QED
      BY <3>1, <3>2, <3>4
  <2>5. ASSUME NEW i \in 1 .. Len(t), NEW j \in 1 .. Len(p), p[j] # None
        PROVE  t[i] < p[j]
    <3>1. k + j \in 1 .. Len(q) /\ p[j] = q[k + j]
      BY <1>5
    <3>2. CASE i \in 1 .. Len(r)
      <4>1. r[i] < q[k + j]
        BY <2>5, <3>1, <3>2 DEF InOrder
      <4> QED
        BY <1>1, <3>1, <3>2, <4>1
    <3>3. CASE ~(i \in 1 .. Len(r))
      <4>1. /\ i - Len(r) \in 1 .. Len(q) /\ t[i] = q[i - Len(r)]
            /\ i - Len(r) < k + j
        BY <1>2, <1>4, <3>3
      <4>2. q[i - Len(r)] < q[k + j]
        BY <2>5, <3>1, <4>1 DEF InOrder
      <4> QED
        BY <3>1, <4>1, <4>2
    <3> QED
      BY <3>2, <3>3
  <2> QED
    BY <2>1, <2>2, <2>3, <2>4, <2>5 DEF InOrder
<1>7. (k = 0 => Latest(t, a) = Latest(r, a)) /\ (k # 0 => Latest(t, a) = q[k])
  <2>1. /\ r = <<>> <=> Len(r) = 0
        /\ t = <<>> <=> Len(t) = 0
    BY <1>1, EmptySeq
  <2>2. ASSUME k = 0 PROVE Latest(t, a) = Latest(r, a)
    <3>1. CASE Len(r) = 0
      BY <1>1, <1>2, <2>1, <2>2, <3>1 DEF Latest
    <3>2. CASE Len(r) # 0
      <4>1. Len(t) = Len(r) /\ Len(r) \in 1 .. Len(r)
        BY <1>1, <1>2, <2>2, <3>2
      <4>2. t[Len(t)] = r[Len(r)]
        BY <1>1, <4>1
      <4> QED
        BY <2>1, <3>2, <4>1, <4>2 DEF Latest
    <3> QED
      BY <3>1, <3>2
  <2>3. ASSUME k # 0 PROVE Latest(t, a) = q[k]
    <3>1. k \in 1 .. k /\ Len(t) # 0
      BY <1>1, <1>2, <2>3
    <3>2. t[Len(t)] = q[k]
      BY <1>1, <3>1
    <3> QED
      BY <2>1, <3>1, <3>2 DEF Latest
  <2> QED
    BY <2>2, <2>3
<1>8. Len(p) = Len(q) - k /\ Len(t) = Len(r) + k
  BY <1>1
<1>9. q = <<>> <=> Len(q) = 0
  BY EmptySeq
<1>10. p = <<>> <=> Len(p) = 0
  BY <1>1, EmptySeq
<1>11. ASSUME Recent(q, r, a, n) PROVE Recent(p, t, a, n)
  <2>1. a + Len(p) <= n
    BY <1>1, <1>2, <1>11 DEF Recent
  <2>2. ASSUME NEW i \in 1 .. Len(p) PROVE p[i] = n - Len(p) + i
    <3>1. q[k + i] = n - Len(q) + (k + i)
      BY <1>5, <1>11 DEF Recent
    <3> QED
      BY <1>1, <1>2, <1>5, <3>1
  <2>3. ASSUME p = <<>> PROVE Latest(t, a) = n
    <3>1. k = Len(q)
      BY <1>1, <1>2, <1>10, <2>3
    <3>2. CASE k = 0
      BY <1>7, <1>9, <1>11, <3>1, <3>2 DEF Recent
    <3>3. CASE k # 0
      <4>1. k \in 1 .. Len(q)
        BY <1>2, <3>3
      <4>2. q[k] = n - Len(q) + k
        BY <1>11, <4>1 DEF Recent
      <4> QED
        BY <1>2, <1>7, <3>1, <3>3, <4>2
    <3> QED
      BY <3>2, <3>3
  <2> QED
    BY <2>1, <2>2, <2>3 DEF Recent
<1>12. ASSUME Recent(q, r, a, n), Complete(q, r, a, n) PROVE Complete(p, t, a, n)
  <2>1. a + Len(r) + Len(q) = n
    BY <1>12 DEF Complete
  <2>2. ASSUME NEW i \in 1 .. Len(t) PROVE t[i] = a + i
    <3>1. CASE i \in 1 .. Len(r)
      BY <1>1, <1>12, <3>1 DEF Complete
    <3>2. CASE ~(i \in 1 .. Len(r))
      <4>1. i - Len(r) \in 1 .. Len(q) /\ t[i] = q[i - Len(r)]
        BY <1>4, <3>2
      <4>2. q[i - Len(r)] = n - Len(q) + (i - Len(r))
        BY <1>12, <4>1 DEF Recent
      <4>3. PICK x \in Nat, y \in Nat : x = Len(q) /\ y = Len(r)
        BY <1>2
      <4>4. t[i] = n - x + (i - y)
        BY <4>1, <4>2, <4>3
      <4>5. a + y + x = n /\ i \in Nat
        BY <2>1, <4>3
      <4>6. n - x + (i - y) = a + i
        BY <4>5
      <4> QED
        BY <4>4, <4>6
    <3> QED
      BY <3>1, <3>2
  <2>3. a + Len(t) + Len(p) = n
    <3>1. PICK x \in Nat, y \in Nat : x = Len(q) /\ y = Len(r)
      BY <1>2
    <3>2. Len(p) = x - k /\ Len(t) = y + k /\ a + y + x = n
      BY <1>1, <2>1, <3>1
    <3>3. a + (y + k) + (x - k) = n
      BY <1>2, <3>2
    <3> QED
      BY <3>2, <3>3
  <2> QED
    BY <2>2, <2>3 DEF Complete
<1>13. ASSUME Ended(q)
       PROVE  k < Len(q) /\ Ended(p)
  <2>1. k < Len(q) /\ Len(q) \in 1 .. Len(q)
    <3>1. Len(q) \in 1 .. Len(q) /\ q[Len(q)] = None
      BY <1>2, <1>9, <1>13 DEF Ended
    <3> QED
      BY <1>2, <3>1
  <2>2. p # <<>> /\ p[Len(p)] = None
    <3>1. Len(p) \in 1 .. Len(p) /\ k + Len(p) = Len(q)
      BY <1>1, <1>2, <2>1
    <3>2. p[Len(p)] = q[Len(q)]
      BY <1>1, <3>1
    <3>3. p # <<>>
      BY <1>2, <1>10, <3>1
    <3> QED
      BY <1>13, <3>2, <3>3 DEF Ended
  <2> QED
    BY <2>1, <2>2 DEF Ended
<1>14. ASSUME Finishing(q, r, a, n) PROVE Finishing(p, t, a, n)
  <2>1. k < Len(q) /\ Ended(p)
    BY <1>13, <1>14 DEF Finishing
  <2>2. ASSUME Len(p) = 1 PROVE Latest(t, a) = n
    <3>1. k = Len(q) - 1
      <4> DEFINE x == Len(q)
                 y == Len(p)
      <4>1. x \in Nat /\ y \in Nat /\ k \in Nat /\ y = x - k /\ y = 1
        BY <1>2, <1>8, <2>2
      <4> HIDE DEF x, y
      <4>2. k = x - 1
        BY <4>1
      <4> QED
        BY <4>2 DEF x
    <3>2. CASE k = 0
      BY <1>7, <1>14, <3>1, <3>2 DEF Finishing, Ended
    <3>3. CASE k # 0
      <4>1. Len(q) # 1
        BY <1>2, <3>1, <3>3
      <4> QED
        BY <1>7, <1>14, <3>1, <3>3, <4>1 DEF Finishing, Ended
    <3> QED
      BY <3>2, <3>3
  <2>3. ASSUME Len(p) # 1 PROVE p[Len(p) - 1] = n
    <3>1. /\ Len(p) - 1 \in 1 .. Len(p) /\ k + (Len(p) - 1) = Len(q) - 1
          /\ Len(q) # 1
      <4> DEFINE x == Len(q)
                 y == Len(p)
      <4>1. x \in Nat /\ y \in Nat /\ k \in Nat /\ y = x - k /\ y # 1 /\ k < x
        BY <1>2, <1>8, <2>1, <2>3
      <4> HIDE DEF x, y
      <4>2. y - 1 \in 1 .. y /\ k + (y - 1) = x - 1 /\ x # 1
        BY <4>1
      <4> QED
        BY <4>2 DEF x, y
    <3> QED
      BY <1>5, <1>14, <3>1 DEF Finishing, Ended
  <2> QED
    BY <2>1, <2>2, <2>3 DEF Finishing
<1> QED
  BY <1>6, <1>11, <1>12, <1>13, <1>14 DEF p, t

\* An item is dropped from the front.
LEMMA LineDrops ==
    ASSUME NEW q \in Seq(Nat), NEW r \in Seq(Nat), NEW a \in Nat, NEW n \in Nat,
           q # <<>>, InOrder(q, r, a, n)
    PROVE  InOrder(Tail(q), r, a, n)
<1>1. /\ Tail(q) \in Seq(Nat) /\ Len(Tail(q)) = Len(q) - 1
      /\ \A i \in 1 .. Len(Tail(q)) : Tail(q)[i] = q[i + 1]
  BY HeadTailProperties
<1>2. Len(q) \in Nat /\ Len(r) \in Nat
  OBVIOUS
<1> QED
  BY <1>1, <1>2 DEF InOrder

\* What a reader has received and will find queued, taken together.
LEMMA CompleteStream ==
    ASSUME NEW q \in Seq(Nat), NEW r \in Seq(Nat), NEW a \in Nat, NEW n \in Nat,
           Recent(q, r, a, n), Complete(q, r, a, n)
    PROVE  r \o q = [i \in 1 .. (n - a) |-> a + i]
<1>1. PICK x \in Nat, y \in Nat : x = Len(r) /\ y = Len(q)
  OBVIOUS
<1>2. /\ r \o q \in Seq(Nat) /\ Len(r \o q) = x + y
      /\ \A i \in 1 .. x + y : (r \o q)[i] = IF i <= x THEN r[i] ELSE q[i - x]
  BY <1>1, ConcatProperties
<1>3. a + x + y = n /\ \A i \in 1 .. x : r[i] = a + i
  BY <1>1 DEF Complete
<1>4. x + y = n - a
  BY <1>3
<1>5. \A i \in 1 .. y : q[i] = n - y + i
  BY <1>1 DEF Recent
<1>6. ASSUME NEW i \in 1 .. x + y PROVE (r \o q)[i] = a + i
  <2>1. CASE i <= x
    BY <1>2, <1>3, <2>1
  <2>2. CASE ~(i <= x)
    <3>1. i - x \in 1 .. y /\ n - y + (i - x) = a + i
      BY <1>3, <2>2
    <3>2. q[i - x] = n - y + (i - x)
      BY <1>5, <3>1
    <3> QED
      BY <1>2, <2>2, <3>1, <3>2
  <2> QED
    BY <2>1, <2>2
<1>7. r \o q \in [1 .. x + y -> Nat]
  BY <1>2, LenProperties
<1> QED
  BY <1>4, <1>6, <1>7

(* A stream that ends by close() ends with the last publication and the sentinel. *)
LEMMA FinishedStream ==
    ASSUME NEW q \in Seq(Nat), NEW r \in Seq(Nat), NEW a \in Nat, NEW n \in Nat,
           Finishing(q, r, a, n)
    PROVE  LET stream == <<a>> \o r \o q
           IN Last(stream) = None /\ Last(Front(stream)) = n
<1>1. PICK x \in Nat, y \in Nat : x = Len(r) /\ y = Len(q)
  OBVIOUS
<1>2. (r = <<>> <=> x = 0) /\ (q = <<>> <=> y = 0)
  BY <1>1, EmptySeq
<1> DEFINE c == <<a>>
           b == c \o r
           stream == b \o q
<1>3. c \in Seq(Nat) /\ Len(c) = 1 /\ c[1] = a
  OBVIOUS
<1> HIDE DEF c
<1>4. /\ b \in Seq(Nat) /\ Len(b) = 1 + x
      /\ \A i \in 1 .. 1 + x : b[i] = IF i <= 1 THEN c[i] ELSE r[i - 1]
  <2>1. /\ b \in Seq(Nat) /\ Len(b) = Len(c) + Len(r)
        /\ \A i \in 1 .. Len(c) + Len(r) : b[i] =
             IF i <= Len(c) THEN c[i] ELSE r[i - Len(c)]
    BY <1>3, ConcatProperties
  <2> HIDE DEF b
  <2> QED
    BY <1>1, <1>3, <2>1
<1> HIDE DEF b
<1>5. b[1 + x] = Latest(r, a)
  <2>1. 1 + x \in 1 .. 1 + x /\ (1 + x) - 1 = x /\ (1 + x <= 1 <=> x = 0)
    OBVIOUS
  <2>2. b[1 + x] = IF x = 0 THEN c[1 + x] ELSE r[x]
    BY <1>4, <2>1
  <2> QED
    BY <1>1, <1>2, <1>3, <2>2 DEF Latest
<1>6. /\ stream \in Seq(Nat) /\ Len(stream) = (1 + x) + y
      /\ \A i \in 1 .. (1 + x) + y : stream[i] =
           IF i <= 1 + x THEN b[i] ELSE q[i - (1 + x)]
  <2>1. /\ stream \in Seq(Nat) /\ Len(stream) = Len(b) + Len(q)
        /\ \A i \in 1 .. Len(b) + Len(q) : stream[i] =
             IF i <= Len(b) THEN b[i] ELSE q[i - Len(b)]
    BY <1>4, ConcatProperties
  <2> HIDE DEF stream
  <2> QED
    BY <1>1, <1>4, <2>1
<1> HIDE DEF stream
<1>7. y # 0 /\ q[y] = None /\ IF y = 1 THEN Latest(r, a) = n ELSE q[y - 1] = n
  BY <1>1, <1>2 DEF Finishing, Ended
<1>8. stream[(1 + x) + y] = None
  <2>1. /\ (1 + x) + y \in 1 .. (1 + x) + y /\ ~((1 + x) + y <= 1 + x)
        /\ ((1 + x) + y) - (1 + x) = y
    BY <1>7
  <2> QED
    BY <1>6, <1>7, <2>1
<1>9. stream[x + y] = n
  <2>1. x + y \in 1 .. (1 + x) + y
    BY <1>7
  <2>2. CASE y = 1
    <3>1. x + y <= 1 + x /\ x + y = 1 + x
      BY <2>2
    <3> QED
      BY <1>5, <1>6, <1>7, <2>1, <2>2, <3>1
  <2>3. CASE y # 1
    <3>1. ~(x + y <= 1 + x) /\ (x + y) - (1 + x) = y - 1
      BY <1>7, <2>3
    <3> QED
      BY <1>6, <1>7, <2>1, <2>3, <3>1
  <2> QED
    BY <2>2, <2>3
<1>10. Last(Front(stream)) = stream[x + y]
  <2> DEFINE m == x + y
             f == SubSeq(stream, 1, m)
  <2>1. m \in Nat /\ 1 <= m /\ Len(stream) - 1 = m
    BY <1>6, <1>7
  <2>2. \A i \in 1 .. m : stream[i] \in Nat
    <3>1. \A i \in 1 .. m : i \in 1 .. Len(stream)
      BY <1>6
    <3> QED
      BY <1>6, <3>1, ElementOfSeq
  <2>3. Front(stream) = f
    BY <2>1 DEF Front
  <2> HIDE DEF m
  <2>4. /\ Len(f) = IF 1 <= m THEN m - 1 + 1 ELSE 0
        /\ \A i \in 1 .. m - 1 + 1 : f[i] = stream[1 + i - 1]
    BY <2>1, <2>2, SubSeqProperties
  <2> HIDE DEF f
  <2>5. m - 1 + 1 = m /\ 1 + m - 1 = m /\ m \in 1 .. m
    BY <2>1
  <2>6. Len(f) = m /\ f[m] = stream[m]
    BY <2>1, <2>4, <2>5
  <2> QED
    BY <2>3, <2>6 DEF m, Last
<1> QED
  BY <1>6, <1>8, <1>9, <1>10 DEF Last, stream, b, c

-------------------------------------------------------------------------------
(* What the steps do to the state *)

Items == 0 .. MaxPublications
Publications == 1 .. MaxPublications

\* Queues and what has been received stay sequences of publications.
LEMMA ItemSequences ==
    ASSUME NEW q \in Seq(Items), NEW r \in Seq(Publications)
    PROVE  /\ q \in Seq(Nat) /\ r \in Seq(Nat)
           /\ \A x \in Items : Append(q, x) \in Seq(Items)
           /\ q # <<>> => Tail(q) \in Seq(Items)
           /\ \A k \in 0 .. Len(q) :
                /\ SubSeq(q, k + 1, Len(q)) \in Seq(Items)
                /\ (\A i \in 1 .. k : q[i] # None) =>
                     r \o SubSeq(q, 1, k) \in Seq(Publications)
<1>1. q \in Seq(Nat)
  <2>1. Items \subseteq Nat
    BY QueueAssumption DEF Items
  <2> QED
    BY <2>1, SeqMonotonic
<1>2. r \in Seq(Nat)
  <2>1. Publications \subseteq Nat
    BY QueueAssumption DEF Publications
  <2> QED
    BY <2>1, SeqMonotonic
<1>3. \A x \in Items : Append(q, x) \in Seq(Items)
  BY AppendProperties
<1>4. q # <<>> => Tail(q) \in Seq(Items)
  BY HeadTailProperties
<1>5. ASSUME NEW k \in 0 .. Len(q)
      PROVE  /\ SubSeq(q, k + 1, Len(q)) \in Seq(Items)
             /\ (\A i \in 1 .. k : q[i] # None) =>
                  r \o SubSeq(q, 1, k) \in Seq(Publications)
  <2>1. Len(q) \in Nat /\ k \in Nat /\ k <= Len(q) /\ \A i \in 1 .. Len(q) : q[i] \in Items
    BY ElementOfSeq
  <2>2. SubSeq(q, k + 1, Len(q)) \in Seq(Items)
    <3>1. \A i \in k + 1 .. Len(q) : q[i] \in Items
      BY <2>1
    <3> QED
      BY <2>1, <3>1, SubSeqProperties
  <2>3. ASSUME \A i \in 1 .. k : q[i] # None
        PROVE  r \o SubSeq(q, 1, k) \in Seq(Publications)
    <3>1. \A i \in 1 .. k : q[i] \in Publications
      BY <2>1, <2>3 DEF Items, Publications, None
    <3>2. SubSeq(q, 1, k) \in Seq(Publications)
      BY <2>1, <3>1, SubSeqProperties
    <3> QED
      BY <3>2, ConcatProperties
  <2> QED
    BY <2>2, <2>3
<1> QED
  BY <1>1, <1>2, <1>3, <1>4, <1>5

\* The types that the lemmas on lines need.
LEMMA LineTypes ==
    ASSUME TypeOK, NEW s \in Subscribers
    PROVE  /\ queue[s] \in Seq(Items) /\ received[s] \in Seq(Publications)
           /\ queue[s] \in Seq(Nat) /\ received[s] \in Seq(Nat)
           /\ since[s] \in Nat /\ published \in Nat
           /\ config.queueSize \in Nat \ {0}
<1>1. queue[s] \in Seq(Items) /\ received[s] \in Seq(Publications)
  BY DEF TypeOK, Items, Publications
<1>2. since[s] \in Nat /\ published \in Nat
  BY QueueAssumption DEF TypeOK
<1>3. config.queueSize \in Nat \ {0}
  BY QueueAssumption DEF TypeOK, Configs
<1> QED
  BY <1>1, <1>2, <1>3, ItemSequences

\* A step leaves the lines of the subscribers it does not touch.
LEMMA LineStays ==
    ASSUME NEW s \in Subscribers, Line(s),
           queue'[s] = queue[s], received'[s] = received[s], since'[s] = since[s],
           reader'[s] = reader[s], s \in subscribers' <=> s \in subscribers,
           s \in overflowed' <=> s \in overflowed,
           UNCHANGED <<config, closed, published>>
    PROVE  Line(s)'
BY DEF Line, Reading

\* A reader waits, leaves its loop, or is finalized; only then is it unsubscribed.
LEMMA ReaderMoves ==
    ASSUME Lines, NEW s \in Subscribers,
           NEW st \in {"waiting", "abandoned", "left"}, NEW D \in SUBSET {s},
           reader[s] # "none", st = "waiting" => Reading(s),
           st = "left" <=> D = {s},
           reader' = [reader EXCEPT ![s] = st],
           subscribers' = subscribers \ D,
           UNCHANGED <<config, queue, detached, closed, published, since, received,
                       overflowed>>
    PROVE  Lines'
<1>1. TypeOK'
  BY DEF Lines, TypeOK, ReaderStates
<1>2. reader'[s] = st
  BY DEF Lines, TypeOK
<1>3. Line(s)'
  BY <1>2 DEF Lines, Line, Reading
<1>4. ASSUME NEW t \in Subscribers, t # s PROVE Line(t)'
  <2>1. reader'[t] = reader[t] /\ (t \in subscribers' <=> t \in subscribers)
    BY <1>4 DEF Lines, TypeOK
  <2> QED
    BY <2>1, LineStays DEF Lines
<1> QED
  BY <1>1, <1>3, <1>4 DEF Lines

\* A reader is given the first k items of its queue.
LEMMA ReaderTakes ==
    ASSUME Lines, NEW s \in Subscribers, Reading(s),
           NEW st \in {"ready", "waiting", "abandoned"},
           NEW k \in 0 .. Len(queue[s]), \A i \in 1 .. k : queue[s][i] # None,
           queue' = [queue EXCEPT ![s] = SubSeq(queue[s], k + 1, Len(queue[s]))],
           received' = [received EXCEPT ![s] = received[s] \o SubSeq(queue[s], 1, k)],
           reader' = [reader EXCEPT ![s] = st],
           UNCHANGED <<config, subscribers, detached, closed, published, since,
                       overflowed>>
    PROVE  Lines'
<1> DEFINE q == queue[s]
           r == received[s]
           p == SubSeq(q, k + 1, Len(q))
           t == r \o SubSeq(q, 1, k)
<1>1. /\ q \in Seq(Items) /\ r \in Seq(Publications)
      /\ q \in Seq(Nat) /\ r \in Seq(Nat)
      /\ since[s] \in Nat /\ published \in Nat
      /\ config.queueSize \in Nat
  BY LineTypes DEF Lines
<1>2. p \in Seq(Items) /\ t \in Seq(Publications)
  BY <1>1, ItemSequences
<1>3. /\ Len(p) = Len(q) - k /\ Len(q) \in Nat /\ k \in Nat
  BY <1>1, Delivered
<1>4. InOrder(q, r, since[s], published)
  BY DEF Lines, Line
<1>5. /\ InOrder(p, t, since[s], published)
      /\ Recent(q, r, since[s], published) => Recent(p, t, since[s], published)
      /\ Recent(q, r, since[s], published) /\ Complete(q, r, since[s], published)
           => Complete(p, t, since[s], published)
      /\ Finishing(q, r, since[s], published) => Finishing(p, t, since[s], published)
      /\ Ended(q) => Ended(p)
  BY <1>1, <1>4, LineDelivers
<1>6. queue' = [queue EXCEPT ![s] = p] /\ received' = [received EXCEPT ![s] = t]
  OBVIOUS
<1> HIDE DEF p, t
<1>7. TypeOK'
  <2>1. queue' \in [Subscribers -> Seq(Items)]
    BY <1>2, <1>6 DEF Lines, TypeOK, Items
  <2>2. received' \in [Subscribers -> Seq(Publications)]
    BY <1>2, <1>6 DEF Lines, TypeOK, Publications
  <2>3. reader' \in [Subscribers -> ReaderStates]
    BY DEF Lines, TypeOK, ReaderStates
  <2> QED
    BY <2>1, <2>2, <2>3 DEF Lines, TypeOK, Items, Publications
<1>8. queue'[s] = p /\ received'[s] = t /\ reader'[s] = st
  BY <1>6 DEF Lines, TypeOK
<1>9. Line(s)'
  <2>1. s \in subscribers => Len(p) <= config.queueSize
    <3>1. s \in subscribers => Len(q) <= config.queueSize
      BY DEF Lines, Line
    <3> QED
      BY <1>1, <1>3, <3>1
  <2>2. reader[s] # "none"
    BY DEF Reading
  <2> QED
    BY <1>5, <1>8, <2>1, <2>2 DEF Lines, Line, Reading
<1>10. ASSUME NEW u \in Subscribers, u # s PROVE Line(u)'
  <2>1. queue'[u] = queue[u] /\ received'[u] = received[u] /\ reader'[u] = reader[u]
    BY <1>6, <1>10 DEF Lines, TypeOK
  <2> QED
    BY <2>1, LineStays DEF Lines
<1> QED
  BY <1>7, <1>9, <1>10 DEF Lines

\* It is given the first k, and then ends at the sentinel.
LEMMA ReaderEnds ==
    ASSUME Lines, NEW s \in Subscribers, Reading(s),
           NEW k \in Nat, k < Len(queue[s]), \A i \in 1 .. k : queue[s][i] # None,
           queue' = [queue EXCEPT ![s] = SubSeq(queue[s], k + 2, Len(queue[s]))],
           received' = [received EXCEPT ![s] = received[s] \o SubSeq(queue[s], 1, k)],
           reader' = [reader EXCEPT ![s] = "done"],
           subscribers' = subscribers \ {s},
           UNCHANGED <<config, detached, closed, published, since, overflowed>>
    PROVE  Lines'
<1> DEFINE q == queue[s]
           r == received[s]
           p == SubSeq(q, k + 1, Len(q))
           d == SubSeq(q, k + 2, Len(q))
           t == r \o SubSeq(q, 1, k)
<1>1. /\ q \in Seq(Items) /\ r \in Seq(Publications)
      /\ q \in Seq(Nat) /\ r \in Seq(Nat)
      /\ since[s] \in Nat /\ published \in Nat
  BY LineTypes DEF Lines
<1>2. /\ Len(q) \in Nat /\ k \in 0 .. Len(q) /\ k + 1 \in 0 .. Len(q)
      /\ k + 1 \in 1 .. Len(q) /\ Len(q) \in k + 1 .. Len(q)
      /\ (k + 1) + 1 = k + 2
  BY <1>1
<1>3. p \in Seq(Nat) /\ t \in Seq(Publications) /\ t \in Seq(Nat) /\ Len(p) = Len(q) - k
  <2>1. p \in Seq(Nat) /\ t \in Seq(Nat) /\ Len(p) = Len(q) - k
    <3>1. q \in Seq(Nat) /\ r \in Seq(Nat) /\ k \in 0 .. Len(q)
      BY <1>1, <1>2
    <3> HIDE DEF q, r
    <3> QED
      BY <3>1, Delivered
  <2>2. t \in Seq(Publications)
    BY <1>1, <1>2, ItemSequences
  <2> QED
    BY <2>1, <2>2
<1>4. d \in Seq(Items)
  <2>1. SubSeq(q, (k + 1) + 1, Len(q)) \in Seq(Items)
    BY <1>1, <1>2, ItemSequences
  <2> QED
    BY <1>2, <2>1
<1>5. d = Tail(p)
  <2>1. Tail(SubSeq(q, k + 1, Len(q))) = SubSeq(q, (k + 1) + 1, Len(q))
    BY <1>1, <1>2, HeadTailOfSubSeq
  <2> QED
    BY <1>2, <2>1
<1>6. InOrder(p, t, since[s], published)
  <2>1. InOrder(q, r, since[s], published)
    BY DEF Lines, Line
  <2> QED
    BY <1>1, <1>2, <2>1, LineDelivers
<1>7. queue' = [queue EXCEPT ![s] = d] /\ received' = [received EXCEPT ![s] = t]
  OBVIOUS
<1> HIDE DEF p, d, t
<1>8. InOrder(d, t, since[s], published)
  <2>1. p # <<>>
    BY <1>2, <1>3, EmptySeq
  <2> QED
    BY <1>1, <1>3, <1>5, <1>6, <2>1, LineDrops
<1>9. TypeOK'
  <2>1. queue' \in [Subscribers -> Seq(Items)]
    BY <1>4, <1>7 DEF Lines, TypeOK, Items
  <2>2. received' \in [Subscribers -> Seq(Publications)]
    BY <1>3, <1>7 DEF Lines, TypeOK, Publications
  <2>3. reader' \in [Subscribers -> ReaderStates] /\ subscribers' \subseteq Subscribers
    BY DEF Lines, TypeOK, ReaderStates
  <2> QED
    BY <2>1, <2>2, <2>3 DEF Lines, TypeOK, Items, Publications
<1>10. queue'[s] = d /\ received'[s] = t /\ reader'[s] = "done"
  BY <1>7 DEF Lines, TypeOK
<1>11. Line(s)'
  BY <1>8, <1>10 DEF Lines, Line, Reading
<1>12. ASSUME NEW u \in Subscribers, u # s PROVE Line(u)'
  <2>1. queue'[u] = queue[u] /\ received'[u] = received[u] /\ reader'[u] = reader[u]
    BY <1>7, <1>12 DEF Lines, TypeOK
  <2> QED
    BY <1>12, <2>1, LineStays DEF Lines
<1> QED
  BY <1>9, <1>11, <1>12 DEF Lines

\* subscribe(): an empty line that is up to date, or on a closed broadcaster an empty
\* stream.
LEMMA Registered ==
    ASSUME Lines, NEW s \in Subscribers, NEW st \in {"ready", "waiting"},
           reader[s] = "none", Registers(s, st),
           UNCHANGED <<config, queue, detached, closed, published, received, overflowed>>
    PROVE  Lines'
<1>1. TypeOK'
  BY DEF Lines, TypeOK, ReaderStates, Registers
<1>2. /\ queue[s] = <<>> /\ received[s] = <<>>
      /\ s \notin overflowed /\ s \notin subscribers
  BY DEF Lines, Line
<1>3. since[s] \in Nat /\ published \in Nat /\ config.queueSize \in Nat
  BY LineTypes DEF Lines
<1>4. CASE closed
  <2>1. reader'[s] = "done" /\ UNCHANGED <<subscribers, since>>
    BY <1>4 DEF Lines, TypeOK, Registers
  <2>2. Line(s)'
    BY <1>2, <2>1 DEF Lines, Line, Reading
  <2>3. ASSUME NEW u \in Subscribers, u # s PROVE Line(u)'
    <3>1. reader'[u] = reader[u]
      BY <1>4, <2>3 DEF Lines, TypeOK, Registers
    <3> QED
      BY <2>1, <3>1, LineStays DEF Lines
  <2> QED
    BY <1>1, <2>2, <2>3 DEF Lines
<1>5. CASE ~closed
  <2>1. /\ reader'[s] = st /\ since'[s] = published
        /\ subscribers' = subscribers \cup {s}
    BY <1>5 DEF Lines, TypeOK, Registers
  <2>2. /\ Recent(<<>>, <<>>, published, published)
        /\ Complete(<<>>, <<>>, published, published)
        /\ InOrder(<<>>, <<>>, published, published)
    BY <1>3 DEF Recent, Complete, InOrder, Latest
  <2>3. Line(s)'
    BY <1>2, <1>3, <1>5, <2>1, <2>2 DEF Lines, Line, Reading
  <2>4. ASSUME NEW u \in Subscribers, u # s PROVE Line(u)'
    <3>1. reader'[u] = reader[u] /\ since'[u] = since[u]
      BY <1>5, <2>4 DEF Lines, TypeOK, Registers
    <3> QED
      BY <2>1, <2>4, <3>1, LineStays DEF Lines
  <2> QED
    BY <1>1, <2>3, <2>4 DEF Lines
<1> QED
  BY <1>4, <1>5

(* get() takes the head of a queue: the sentinel, or an item that is received. *)
LEMMA TakesFirst ==
    ASSUME Lines, NEW s \in Subscribers, Take(s)
    PROVE  LET q == queue[s]
               r == received[s]
           IN \/ /\ 0 < Len(q) /\ q[1] = None
                 /\ queue' = [queue EXCEPT ![s] = SubSeq(q, 0 + 2, Len(q))]
                 /\ received' = [received EXCEPT ![s] = r \o SubSeq(q, 1, 0)]
                 /\ reader' = [reader EXCEPT ![s] = "done"]
                 /\ subscribers' = subscribers \ {s}
              \/ /\ 1 \in 0 .. Len(q) /\ \A i \in 1 .. 1 : q[i] # None
                 /\ queue' = [queue EXCEPT ![s] = SubSeq(q, 1 + 1, Len(q))]
                 /\ received' = [received EXCEPT ![s] = r \o SubSeq(q, 1, 1)]
                 /\ reader' = [reader EXCEPT ![s] = "ready"]
                 /\ UNCHANGED subscribers
<1> DEFINE q == queue[s]
           r == received[s]
<1>1. q \in Seq(Nat) /\ r \in Seq(Nat)
  BY LineTypes DEF Lines
<1>2. q # <<>> /\ Len(q) \in Nat /\ Len(q) # 0 /\ Head(q) = q[1]
  BY <1>1, EmptySeq DEF Take
<1>3. Tail(q) = SubSeq(q, 2, Len(q)) /\ 0 + 2 = 2 /\ 1 + 1 = 2
  BY <1>1, <1>2, TailIsSubSeq
<1>4. CASE Head(q) = None
  <2>1. r \o SubSeq(q, 1, 0) = r
    BY <1>1, SubSeqEmpty, ConcatEmptySeq
  <2>2. received' = [received EXCEPT ![s] = r \o SubSeq(q, 1, 0)]
    <3>1. received' = received
      BY <1>4 DEF Take
    <3> QED
      BY <2>1, <3>1 DEF Lines, TypeOK
  <2>3. /\ queue' = [queue EXCEPT ![s] = SubSeq(q, 0 + 2, Len(q))]
        /\ reader' = [reader EXCEPT ![s] = "done"]
        /\ subscribers' = subscribers \ {s}
    BY <1>3, <1>4 DEF Take
  <2>4. 0 < Len(q) /\ q[1] = None
    BY <1>2, <1>4
  <2> QED
    BY <2>2, <2>3, <2>4
<1>5. CASE Head(q) # None
  <2>1. Append(r, Head(q)) = r \o SubSeq(q, 1, 1)
    <3>1. Head(q) \in Nat
      BY <1>1, <1>2, ElementOfSeq
    <3>2. SubSeq(q, 1, 1) = <<Head(q)>>
      <4>1. 1 \in 1 .. Len(q) /\ 1 \in 1 .. 1
        BY <1>2
      <4>2. SubSeq(q, 1, 1) = <<q[1]>> \o SubSeq(q, 1 + 1, 1)
        BY <1>1, <4>1, SubSeqRecursiveFirst
      <4>3. SubSeq(q, 1 + 1, 1) = <<>>
        BY SubSeqEmpty
      <4>4. <<q[1]>> \in Seq(Nat)
        BY <1>2, <3>1
      <4> QED
        BY <1>2, <4>2, <4>3, <4>4, ConcatEmptySeq
    <3> QED
      BY <1>1, <3>1, <3>2, AppendIsConcat
  <2>2. /\ queue' = [queue EXCEPT ![s] = SubSeq(q, 1 + 1, Len(q))]
        /\ received' = [received EXCEPT ![s] = r \o SubSeq(q, 1, 1)]
        /\ reader' = [reader EXCEPT ![s] = "ready"]
        /\ UNCHANGED subscribers
    BY <1>3, <1>5, <2>1 DEF Take
  <2>3. 1 \in 0 .. Len(q) /\ \A i \in 1 .. 1 : q[i] # None
    BY <1>2, <1>5
  <2> QED
    BY <2>2, <2>3
<1> QED
  BY <1>4, <1>5

(* ...and keeps every line as it should be. *)
LEMMA TakeKeepsLines ==
    ASSUME Lines, NEW s \in Subscribers, Reading(s), Take(s),
           UNCHANGED <<config, detached, closed, published, since, overflowed>>
    PROVE  Lines'
<1>1. 0 \in Nat /\ \A i \in 1 .. 0 : queue[s][i] # None
  OBVIOUS
<1> QED
  BY <1>1, TakesFirst, ReaderEnds, ReaderTakes

\* close().
LEMMA CloseKeepsLines ==
    ASSUME Lines, Close
    PROVE  Lines'
<1>1. TypeOK'
  <2>1. queue' \in [Subscribers -> Seq(Items)]
    <3>1. ASSUME NEW s \in Subscribers PROVE PutSentinel(queue[s]) \in Seq(Items)
      BY QueueAssumption, LineTypes, ItemSequences DEF Lines, PutSentinel, None, Items
    <3>2. \A s \in Subscribers : queue[s] \in Seq(Items)
      BY LineTypes DEF Lines
    <3> QED
      BY <3>1, <3>2 DEF Close
  <2>2. reader' \in [Subscribers -> ReaderStates]
    BY DEF Lines, TypeOK, Close, Wake, ReaderStates
  <2> QED
    BY <2>1, <2>2 DEF Lines, TypeOK, Close, Items
<1>2. ASSUME NEW s \in Subscribers, s \in subscribers PROVE Line(s)'
  <2> DEFINE q == queue[s]
             r == received[s]
             a == since[s]
  <2>1. /\ q \in Seq(Nat) /\ r \in Seq(Nat) /\ a \in Nat /\ published \in Nat
    BY LineTypes DEF Lines
  <2>2. /\ Recent(q, r, a, published) /\ InOrder(q, r, a, published) /\ a <= published
        /\ reader[s] \in {"ready", "waiting", "woken", "abandoned"}
        /\ s \notin overflowed
    BY <1>2 DEF Lines, Line
  <2>3. /\ queue'[s] = Append(q, None) /\ reader'[s] = Wake(reader[s])
        /\ subscribers' = {} /\ closed' = TRUE
        /\ UNCHANGED <<config, published, since, received, overflowed>>
    BY <1>2 DEF Close, PutSentinel
  <2>4. Finishing(Append(q, None), r, a, published)
    BY <2>1, <2>2, SentinelFinishes
  <2>5. InOrder(Append(q, None), r, a, published)
    BY <2>1, <2>2, RecentIsData, OrderAppends DEF None
  <2>6. reader'[s] # "none"
    BY <2>2, <2>3 DEF Wake
  <2> QED
    BY <2>2, <2>3, <2>4, <2>5, <2>6 DEF Line
<1>3. ASSUME NEW s \in Subscribers, s \notin subscribers PROVE Line(s)'
  <2>1. /\ queue'[s] = queue[s] /\ reader'[s] = reader[s] /\ subscribers' = {}
        /\ closed' = TRUE
        /\ UNCHANGED <<config, published, since, received, overflowed>>
    BY <1>3 DEF Close
  <2> QED
    BY <1>3, <2>1 DEF Lines, Line, Reading
<1> QED
  BY <1>1, <1>2, <1>3 DEF Lines

\* publish().
LEMMA PublishKeepsLines ==
    ASSUME Lines, Publish
    PROVE  Lines'
<1> DEFINE dead == IF config.policy = "fail_fast"
                   THEN {s \in subscribers : Full(queue[s])} ELSE {}
           n == published
<1>1. /\ \A s \in dead : queue'[s] = EndOverflowed(queue[s])
      /\ \A s \in subscribers \ dead : queue'[s] = PutDroppingOldest(queue[s], n + 1)
      /\ \A s \in Subscribers \ subscribers : queue'[s] = queue[s]
  BY DEF Publish, Served, Lines, TypeOK
<1>2. /\ \A s \in subscribers : reader'[s] = Wake(reader[s])
      /\ \A s \in Subscribers \ subscribers : reader'[s] = reader[s]
  BY DEF Publish, Lines, TypeOK
<1>3. /\ subscribers' = subscribers \ dead /\ overflowed' = overflowed \cup dead
      /\ published' = n + 1 /\ published < MaxPublications /\ ~closed
      /\ UNCHANGED <<config, detached, closed, since, received>>
  BY DEF Publish
<1>4. queue' \in [Subscribers -> Seq(Items)] /\ reader' \in [Subscribers -> ReaderStates]
  <2>1. ASSUME NEW s \in Subscribers, NEW x \in Items
        PROVE  /\ PutDroppingOldest(queue[s], x) \in Seq(Items)
               /\ Full(queue[s]) => EndOverflowed(queue[s]) \in Seq(Items)
               /\ queue[s] \in Seq(Items)
    <3>1. /\ queue[s] \in Seq(Items) /\ received[s] \in Seq(Publications)
          /\ config.queueSize \in Nat \ {0}
      BY LineTypes DEF Lines
    <3>2. Full(queue[s]) => queue[s] # <<>>
      BY <3>1, EmptySeq DEF Full
    <3>3. Full(queue[s]) => Tail(queue[s]) \in Seq(Items)
      BY <3>1, <3>2, ItemSequences
    <3>4. None \in Items
      BY QueueAssumption DEF None, Items
    <3> QED
      BY <3>1, <3>3, <3>4, ItemSequences DEF PutDroppingOldest, EndOverflowed
  <2>2. n + 1 \in Items
    BY <1>3, QueueAssumption DEF Lines, TypeOK, Items
  <2>3. dead \subseteq {s \in subscribers : Full(queue[s])}
    OBVIOUS
  <2>4. ASSUME NEW s \in Subscribers
        PROVE  (IF s \in dead THEN EndOverflowed(queue[s])
                ELSE IF s \in Served(dead) THEN PutDroppingOldest(queue[s], n + 1)
                ELSE queue[s]) \in Seq(Items)
    BY <2>1, <2>2, <2>3
  <2>5. reader' \in [Subscribers -> ReaderStates]
    BY DEF Publish, Lines, TypeOK, Wake, ReaderStates
  <2>6. queue' = [s \in Subscribers |->
                    IF s \in dead THEN EndOverflowed(queue[s])
                    ELSE IF s \in Served(dead) THEN PutDroppingOldest(queue[s], n + 1)
                    ELSE queue[s]]
    BY DEF Publish
  <2> HIDE DEF dead, n
  <2> QED
    BY <2>4, <2>5, <2>6
<1>5. TypeOK'
  <2>1. published' \in 0 .. MaxPublications
    BY <1>3, QueueAssumption DEF Lines, TypeOK
  <2>2. dead \subseteq Subscribers
    BY DEF Lines, TypeOK
  <2> HIDE DEF dead
  <2> QED
    BY <1>3, <1>4, <2>1, <2>2 DEF Lines, TypeOK, Items
<1>6. ASSUME NEW s \in Subscribers PROVE Line(s)'
  <2> DEFINE q == queue[s]
             r == received[s]
             a == since[s]
             size == config.queueSize
  <2>1. /\ q \in Seq(Nat) /\ r \in Seq(Nat) /\ a \in Nat /\ n \in Nat
        /\ size \in Nat \ {0} /\ Len(q) \in Nat
        /\ (q = <<>> <=> Len(q) = 0)
    BY LineTypes, EmptySeq DEF Lines
  <2>2. n + 1 \in Nat /\ n <= n + 1 /\ n + 1 <= n + 1 /\ None <= n + 1
    BY <2>1 DEF None
  <2>3. InOrder(q, r, a, n) /\ a <= n
    BY DEF Lines, Line
  <2>4. UNCHANGED <<config, closed>> /\ since'[s] = a /\ received'[s] = r /\ ~closed
    BY <1>3
  <2>5. since'[s] <= published'
    BY <1>3, <2>1, <2>3
  <2>6. s \in subscribers =>
          /\ s \notin overflowed
          /\ reader[s] \in {"ready", "waiting", "woken", "abandoned"}
          /\ reader'[s] \in {"ready", "waiting", "woken", "abandoned"}
          /\ Len(q) <= size /\ Recent(q, r, a, n)
          /\ config.policy = "fail_fast" => Complete(q, r, a, n)
    BY <1>2 DEF Lines, Line, Wake
  <2>7. CASE s \in dead
    <3>1. s \in subscribers /\ Full(q)
      BY <2>7
    <3>2. q # <<>>
      BY <2>1, <3>1 DEF Full
    <3>3. Tail(q) \in Seq(Nat) /\ InOrder(Tail(q), r, a, n)
      BY <2>1, <2>3, <3>2, LineDrops, HeadTailProperties
    <3>4. HasNoSentinel(Tail(q))
      <4>1. HasNoSentinel(q)
        BY <2>1, <2>6, <3>1, RecentIsData
      <4>2. /\ Len(Tail(q)) = Len(q) - 1
            /\ \A i \in 1 .. Len(Tail(q)) : Tail(q)[i] = q[i + 1]
        BY <2>1, <3>2, HeadTailProperties
      <4> QED
        BY <2>1, <4>1, <4>2 DEF HasNoSentinel
    <3>5. InOrder(Append(Tail(q), None), r, a, n + 1)
      BY <2>2, <2>1, <2>3, <3>3, <3>4, OrderAppends
    <3>6. InOrder(queue[s], received[s], since[s], published)'
      BY <1>1, <1>3, <2>4, <2>7, <3>5 DEF EndOverflowed
    <3>7. s \in overflowed' /\ s \notin subscribers'
      BY <1>3, <2>7
    <3>8. reader'[s] # "none"
      BY <2>6, <3>1
    <3>9. Ended(queue'[s])
      <4>1. Ended(Append(Tail(q), None))
        BY <3>3, SentinelEnds
      <4> QED
        BY <1>1, <2>7, <4>1 DEF EndOverflowed
    <3> QED
      BY <2>5, <3>6, <3>7, <3>8, <3>9 DEF Line
  <2>8. CASE s \in subscribers /\ s \notin dead
    <3> DEFINE p == Append(IF Full(q) THEN Tail(q) ELSE q, n + 1)
    <3>1. HasNoSentinel(q)
      BY <2>1, <2>6, <2>8, RecentIsData
    <3>2. /\ Recent(p, r, a, n + 1) /\ InOrder(p, r, a, n + 1)
          /\ Len(p) <= size
          /\ config.policy = "fail_fast" => Complete(p, r, a, n + 1)
      <4>1. CASE ~Full(q)
        <5>1. Recent(p, r, a, n + 1)
          <6>1. a + Len(q) <= n /\ \A i \in 1 .. Len(q) : q[i] = n - Len(q) + i
            BY <2>6, <2>8 DEF Recent
          <6>2. Recent(Append(q, n + 1), r, a, n + 1)
            BY <2>1, <6>1, RecentAppends
          <6> QED
            BY <4>1, <6>2
        <5>2. InOrder(p, r, a, n + 1)
          BY <2>2, <2>1, <2>3, <3>1, <4>1, OrderAppends
        <5>3. config.policy = "fail_fast" => Complete(p, r, a, n + 1)
          BY <2>1, <2>6, <2>8, <4>1, CompleteAppends
        <5>4. Len(p) = Len(q) + 1
          BY <2>1, <4>1, Appended
        <5>5. Len(q) < size
          BY <2>1, <4>1 DEF Full
        <5>6. Len(p) <= size
          BY <2>1, <5>4, <5>5
        <5> QED
          BY <5>1, <5>2, <5>3, <5>6
      <4>2. CASE Full(q)
        <5>1. config.policy # "fail_fast"
          BY <2>8, <4>2
        <5>2. q # <<>>
          BY <2>1, <4>2 DEF Full
        <5>3. Recent(p, r, a, n + 1)
          BY <2>1, <2>6, <2>8, <4>2, <5>2, RecentShifts
        <5>4. /\ Tail(q) \in Seq(Nat) /\ Len(Tail(q)) = Len(q) - 1
              /\ \A i \in 1 .. Len(Tail(q)) : Tail(q)[i] = q[i + 1]
          BY <2>1, <5>2, HeadTailProperties
        <5>5. HasNoSentinel(Tail(q))
          BY <2>1, <3>1, <5>4 DEF HasNoSentinel
        <5>6. InOrder(Tail(q), r, a, n)
          BY <2>1, <2>3, <5>2, LineDrops
        <5>7. InOrder(p, r, a, n + 1)
          <6>1. InOrder(Append(Tail(q), n + 1), r, a, n + 1)
            BY <2>2, <2>1, <2>3, <5>4, <5>5, <5>6, OrderAppends
          <6> QED
            BY <4>2, <6>1
        <5>8. Len(p) = Len(Tail(q)) + 1
          BY <2>1, <4>2, <5>4, Appended
        <5>9. Len(p) <= size
          BY <2>1, <2>6, <2>8, <5>4, <5>8
        <5> QED
          BY <5>1, <5>3, <5>7, <5>9
      <4> QED
        BY <4>1, <4>2
    <3>3. queue'[s] = p
      BY <1>1, <2>8 DEF PutDroppingOldest
    <3> HIDE DEF p
    <3>4. s \in subscribers' /\ s \notin overflowed'
      BY <1>3, <2>6, <2>8
    <3>5. reader'[s] \in {"ready", "waiting", "woken", "abandoned"}
      BY <2>6, <2>8
    <3>6. /\ Recent(queue[s], received[s], since[s], published)'
          /\ InOrder(queue[s], received[s], since[s], published)'
          /\ Len(queue'[s]) <= config'.queueSize
          /\ config'.policy = "fail_fast" =>
               Complete(queue[s], received[s], since[s], published)'
      BY <1>3, <2>4, <3>2, <3>3
    <3> QED
      BY <2>4, <2>5, <3>4, <3>5, <3>6 DEF Line
  <2>9. CASE s \notin subscribers
    <3>1. InOrder(q, r, a, n + 1)
      BY <2>1, <2>3, OrderLasts
    <3>2. queue'[s] = q /\ reader'[s] = reader[s]
      BY <1>1, <1>2, <2>9
    <3>3. s \notin subscribers' /\ (s \in overflowed' <=> s \in overflowed)
      BY <1>3, <2>9
    <3>4. InOrder(queue[s], received[s], since[s], published)'
      BY <1>3, <2>4, <3>1, <3>2
    <3> QED
      BY <2>4, <2>5, <2>9, <3>2, <3>3, <3>4 DEF Lines, Line, Reading
  <2> QED
    BY <2>7, <2>8, <2>9
<1> QED
  BY <1>5, <1>6 DEF Lines

-------------------------------------------------------------------------------
(* The invariant *)

(* Before anyone subscribes there is nothing in line. *)
LEMMA InitLines == Init => Lines
<1> SUFFICES ASSUME Init PROVE Lines
  OBVIOUS
<1>1. TypeOK
  <2>1. 0 \in 0 .. MaxPublications /\ FALSE \in BOOLEAN
    BY QueueAssumption
  <2>2. <<>> \in Seq(0 .. MaxPublications) /\ <<>> \in Seq(1 .. MaxPublications)
    BY EmptySeq
  <2>3. /\ queue \in [Subscribers -> Seq(0 .. MaxPublications)]
        /\ received \in [Subscribers -> Seq(1 .. MaxPublications)]
    BY <2>2 DEF Init
  <2>4. /\ reader \in [Subscribers -> ReaderStates]
        /\ since \in [Subscribers -> 0 .. MaxPublications]
    BY <2>1 DEF Init, ReaderStates
  <2> QED
    BY <2>1, <2>3, <2>4 DEF Init, TypeOK
<1>2. ASSUME NEW s \in Subscribers PROVE Line(s)
  <2>1. /\ queue[s] = <<>> /\ received[s] = <<>> /\ since[s] = 0 /\ published = 0
        /\ reader[s] = "none" /\ subscribers = {} /\ overflowed = {}
    BY DEF Init
  <2>2. InOrder(<<>>, <<>>, 0, 0)
    BY DEF InOrder
  <2> QED
    BY <2>1, <2>2 DEF Line, Reading
<1> QED
  BY <1>1, <1>2 DEF Lines

(* A reader asks for its next item or runs after it was woken. *)
LEMMA NextItemKeepsLines ==
    ASSUME Lines, NEW s \in Subscribers, NextItem(s) \/ Run(s)
    PROVE  Lines'
<1>1. /\ reader[s] \in {"ready", "woken"} /\ Reading(s)
      /\ Take(s) \/ Wait(s)
      /\ UNCHANGED <<config, detached, closed, published, since, overflowed>>
  BY DEF NextItem, Run, Reading
<1>2. CASE Take(s)
  BY <1>1, <1>2, TakeKeepsLines
<1>3. CASE Wait(s)
  <2>1. subscribers' = subscribers \ {} /\ reader[s] # "none" /\ {} \in SUBSET {s}
    BY <1>1, <1>3 DEF Wait
  <2> QED
    BY <1>1, <1>3, <2>1, ReaderMoves DEF Wait
<1> QED
  BY <1>1, <1>2, <1>3

(* A consumer leaves its loop, or its abandoned generator is finalized. *)
LEMMA LeavingKeepsLines ==
    ASSUME Lines, NEW s \in Subscribers, Abandon(s) \/ Finalize(s)
    PROVE  Lines'
<1>1. CASE Abandon(s)
  <2>1. subscribers' = subscribers \ {} /\ reader[s] # "none" /\ {} \in SUBSET {s}
    BY <1>1 DEF Abandon
  <2> QED
    BY <1>1, <2>1, ReaderMoves DEF Abandon
<1>2. CASE Finalize(s)
  <2>1. reader[s] # "none" /\ {s} \in SUBSET {s}
    BY <1>2 DEF Finalize
  <2> QED
    BY <1>2, <2>1, ReaderMoves DEF Finalize
<1> QED
  BY <1>1, <1>2

(* Lines is about the variables of the broadcaster only. *)
LEMMA StutterKeepsLines == Lines /\ UNCHANGED vars => Lines'
<1> SUFFICES ASSUME Lines, UNCHANGED vars PROVE Lines'
  OBVIOUS
<1>1. TypeOK'
  BY DEF Lines, TypeOK, vars
<1>2. ASSUME NEW s \in Subscribers PROVE Line(s)'
  BY LineStays DEF Lines, vars
<1> QED
  BY <1>1, <1>2 DEF Lines

(* Every step of the broadcaster and its readers keeps every line in order. *)
LEMMA NextKeepsLines == Lines /\ [Next]_vars => Lines'
<1> SUFFICES ASSUME Lines, [Next]_vars PROVE Lines'
  OBVIOUS
<1>1. CASE \E s \in Subscribers : Subscribe(s)
  BY <1>1, Registered DEF Subscribe
<1>2. CASE \E s \in Subscribers : NextItem(s) \/ Run(s)
  BY <1>2, NextItemKeepsLines
<1>3. CASE \E s \in Subscribers : Abandon(s) \/ Finalize(s)
  BY <1>3, LeavingKeepsLines
<1>4. CASE Publish
  BY <1>4, PublishKeepsLines
<1>5. CASE Close
  BY <1>5, CloseKeepsLines
<1>6. CASE UNCHANGED vars
  BY <1>6, StutterKeepsLines
<1> QED
  BY <1>1, <1>2, <1>3, <1>4, <1>5, <1>6 DEF Next

\* What holds of the lines whatever the steps are: subscribers that are behind have
\* lost only what came first.
LEMMA LinesQueueLatest == Lines => QueueIsLatest
<1> SUFFICES ASSUME Lines, NEW s \in subscribers
             PROVE  /\ Len(queue[s]) <= config.queueSize
                    /\ \A i \in DOMAIN queue[s] :
                         queue[s][i] = published - Len(queue[s]) + i
  BY DEF QueueIsLatest
<1>1. s \in Subscribers
  BY DEF Lines, TypeOK
<1>2. queue[s] \in Seq(Nat) /\ DOMAIN queue[s] = 1 .. Len(queue[s])
  BY <1>1, LineTypes, LenProperties DEF Lines
<1> QED
  BY <1>1, <1>2 DEF Lines, Line, Recent

(* A line of a subscriber that never overflowed has no hole. *)
LEMMA LinesLoseNothing == Lines => HealthySubscribersLoseNothing
<1> SUFFICES ASSUME Lines, config.policy = "fail_fast", NEW s \in subscribers
             PROVE  received[s] \o queue[s] =
                      [i \in 1 .. (published - since[s]) |-> since[s] + i]
  BY DEF HealthySubscribersLoseNothing
<1>1. s \in Subscribers
  BY DEF Lines, TypeOK
<1> DEFINE q == queue[s]
           r == received[s]
           a == since[s]
           n == published
<1>2. q \in Seq(Nat) /\ r \in Seq(Nat) /\ a \in Nat /\ n \in Nat
  BY <1>1, LineTypes DEF Lines
<1>3. Recent(q, r, a, n) /\ Complete(q, r, a, n)
  BY <1>1 DEF Lines, Line
<1> HIDE DEF q, r, a, n
<1>4. r \o q = [i \in 1 .. (n - a) |-> a + i]
  BY <1>2, <1>3, CompleteStream
<1> QED
  BY <1>4 DEF q, r, a, n

(* A line that close() ended has the last publication before its sentinel. *)
LEMMA LinesKeepLatest == Lines => CloseKeepsLatest
<1> SUFFICES ASSUME Lines, NEW s \in Subscribers \ overflowed, closed, Reading(s)
             PROVE  LET stream == <<since[s]>> \o received[s] \o queue[s]
                    IN Last(stream) = None /\ Last(Front(stream)) = published
  BY DEF CloseKeepsLatest
<1>1. /\ queue[s] \in Seq(Nat) /\ received[s] \in Seq(Nat)
      /\ since[s] \in Nat /\ published \in Nat
  BY LineTypes DEF Lines
<1>2. Finishing(queue[s], received[s], since[s], published)
  BY DEF Lines, Line
<1> QED
  BY <1>1, <1>2, FinishedStream

-------------------------------------------------------------------------------
(* Theorems *)

\* The lines are as described in every state.
THEOREM LinesInvariance == Spec => []Lines
BY InitLines, NextKeepsLines, PTL DEF Spec

\* The broadcaster's variables have their types: no item is queued that was not
\* published, whatever overflows.
THEOREM BroadcasterTypes == Spec => []TypeOK
<1>1. Lines => TypeOK
  BY DEF Lines
<1> QED
  BY <1>1, LinesInvariance, PTL

\* publish() drops only the oldest items of a full queue (_put_drop_oldest), so that
\* what a subscriber has queued is the most recent publications without a hole.
THEOREM QueuesAreLatest == Spec => []QueueIsLatest
BY LinesQueueLatest, LinesInvariance, PTL

\* Under fail_fast an overflow of others costs a subscriber nothing: publish() serves
\* everyone before it ends those that overflowed.
THEOREM HealthyLoseNothing == Spec => []HealthySubscribersLoseNothing
BY LinesLoseNothing, LinesInvariance, PTL

\* The sentinel close() puts never displaces the last publication, also when the
\* queue was full, and whether or not close() overtakes a woken reader.
THEOREM CloseLosesNothing == Spec => []CloseKeepsLatest
BY LinesKeepLatest, LinesInvariance, PTL
===============================================================================
