----------------------------- MODULE WaitQueue -----------------------------
(***************************************************************************)
(* The wait queues of kern-ucore (sync/wait.c, sync/wait.h): a queue is    *)
(* the sequence of the processes whose wait structure is linked in it, the *)
(* longest waiting first.  The lemmas say who is in a queue after each of  *)
(* the operations the semaphores, events and mailboxes are made of.        *)
(***************************************************************************)
EXTENDS Integers, Sequences, SequencesExt, SequenceTheorems, TLAPS

(* wait_in_queue                                                           *)
InQueue(q, p) == \E i \in DOMAIN q : q[i] = p

(* wait_current_del: wait_queue_del if the process is in the queue.        *)
WaitQueueDel(q, p) ==
    IF InQueue(q, p) THEN RemoveAt(q, CHOOSE i \in DOMAIN q : q[i] = p) ELSE q

(* What is left of a queue when the entry at position k is unlinked: the   *)
(* others, in their order.                                                 *)
LEMMA RemoveAtElements ==
    ASSUME NEW S, NEW q \in Seq(S), NEW k \in DOMAIN q
    PROVE  /\ RemoveAt(q, k) \in Seq(S)
           /\ DOMAIN RemoveAt(q, k) = 1 .. Len(q) - 1
           /\ \A i \in 1 .. Len(q) - 1 :
                RemoveAt(q, k)[i] = IF i < k THEN q[i] ELSE q[i + 1]
<1> DEFINE a == SubSeq(q, 1, k - 1)
           b == SubSeq(q, k + 1, Len(q))
<1>1. k \in 1 .. Len(q) /\ Len(q) \in Nat
  BY SMT
<1>2. /\ a \in Seq(S) /\ Len(a) = k - 1
      /\ \A i \in 1 .. k - 1 : a[i] = q[i]
  BY <1>1, SMT
<1>3. /\ b \in Seq(S) /\ Len(b) = Len(q) - k
      /\ \A i \in 1 .. Len(q) - k : b[i] = q[i + k]
  BY <1>1, SMT
<1> HIDE DEF a, b
<1>4. /\ a \o b \in Seq(S) /\ Len(a \o b) = Len(a) + Len(b)
      /\ \A i \in 1 .. Len(a) + Len(b) :
            (a \o b)[i] = IF i <= Len(a) THEN a[i] ELSE b[i - Len(a)]
  BY <1>2, <1>3, ConcatProperties
<1>5. ASSUME NEW i \in 1 .. Len(q) - 1
      PROVE  (a \o b)[i] = IF i < k THEN q[i] ELSE q[i + 1]
  <2>1. i \in Int /\ k \in Int /\ Len(a) + Len(b) = Len(q) - 1
    BY <1>1, <1>2, <1>3
  <2>2. CASE i < k
    BY <2>1, <2>2, <1>2, <1>4
  <2>3. CASE ~(i < k)
    <3>1. (a \o b)[i] = b[i - (k - 1)]
      BY <2>1, <2>3, <1>2, <1>4
    <3>2. i - (k - 1) \in 1 .. Len(q) - k /\ i - (k - 1) + k = i + 1
      BY <1>1, <2>1, <2>3
    <3> QED BY <3>1, <3>2, <1>3, <2>3
  <2> QED BY <2>2, <2>3
<1>6. DOMAIN (a \o b) = 1 .. Len(q) - 1
  BY <1>1, <1>2, <1>3, <1>4, LenProperties
<1> QED BY <1>4, <1>5, <1>6 DEF RemoveAt, a, b

(* wait_queue_del of a process that may or may not wait: it alone is gone, *)
(* and nobody is queued twice.                                             *)
LEMMA DelElements ==
    ASSUME NEW S, NEW q \in Seq(S), NEW p, IsInjective(q)
    PROVE  /\ WaitQueueDel(q, p) \in Seq(S)
           /\ IsInjective(WaitQueueDel(q, p))
           /\ ToSet(WaitQueueDel(q, p)) = ToSet(q) \ {p}
<1>1. CASE ~InQueue(q, p)
  BY <1>1 DEF WaitQueueDel, InQueue, ToSet
<1>2. CASE InQueue(q, p)
  <2> DEFINE k == CHOOSE i \in DOMAIN q : q[i] = p
             d == RemoveAt(q, k)
  <2>1. k \in DOMAIN q /\ q[k] = p
    BY <1>2 DEF InQueue
  <2>2. WaitQueueDel(q, p) = d
    BY <1>2 DEF WaitQueueDel
  <2>3. /\ d \in Seq(S) /\ DOMAIN d = 1 .. Len(q) - 1
        /\ \A i \in 1 .. Len(q) - 1 : d[i] = IF i < k THEN q[i] ELSE q[i + 1]
    BY <2>1, RemoveAtElements
  <2> HIDE DEF k, d
  <2>4. IsInjective(d)
    <3>1. SUFFICES ASSUME NEW i \in DOMAIN d, NEW j \in DOMAIN d, d[i] = d[j]
                   PROVE  i = j
      BY DEF IsInjective
    <3>2. /\ i \in Int /\ j \in Int /\ k \in Int
          /\ d[i] = IF i < k THEN q[i] ELSE q[i + 1]
          /\ d[j] = IF j < k THEN q[j] ELSE q[j + 1]
          /\ i \in DOMAIN q /\ i + 1 \in DOMAIN q
          /\ j \in DOMAIN q /\ j + 1 \in DOMAIN q
      BY <2>1, <2>3
    <3> DEFINE ii == IF i < k THEN i ELSE i + 1
               jj == IF j < k THEN j ELSE j + 1
    <3>3. q[ii] = q[jj] /\ ii \in DOMAIN q /\ jj \in DOMAIN q
      BY <3>1, <3>2
    <3>4. ii = jj
      BY <3>3 DEF IsInjective
    <3> QED BY <3>2, <3>4
  <2>5. ToSet(d) = ToSet(q) \ {p}
    <3>1. ASSUME NEW x \in ToSet(d) PROVE x \in ToSet(q) \ {p}
      BY <2>1, <2>3, <3>1 DEF ToSet, IsInjective
    <3>2. ASSUME NEW x \in ToSet(q) \ {p} PROVE x \in ToSet(d)
      <4>1. PICK i \in DOMAIN q : q[i] = x
        BY <3>2 DEF ToSet
      <4>2. IF i < k THEN d[i] = x /\ i \in DOMAIN d ELSE i > k /\ d[i - 1] = x /\ i - 1 \in DOMAIN d
        BY <2>1, <2>3, <3>2, <4>1
      <4> QED BY <4>2 DEF ToSet
    <3> QED BY <3>1, <3>2
  <2> QED BY <2>2, <2>3, <2>4, <2>5
<1> QED BY <1>1, <1>2

(* wait_queue_add at the tail, of a process that is not queued yet.        *)
LEMMA AppendElements ==
    ASSUME NEW S, NEW q \in Seq(S), NEW p \in S, IsInjective(q), p \notin ToSet(q)
    PROVE  /\ Append(q, p) \in Seq(S)
           /\ IsInjective(Append(q, p))
           /\ ToSet(Append(q, p)) = ToSet(q) \cup {p}
<1>1. /\ Append(q, p) \in Seq(S) /\ DOMAIN Append(q, p) = 1 .. Len(q) + 1
      /\ DOMAIN q = 1 .. Len(q) /\ Len(q) \in Nat
      /\ \A i \in 1 .. Len(q) : Append(q, p)[i] = q[i]
      /\ Append(q, p)[Len(q) + 1] = p
  BY SMT
<1> DEFINE d == Append(q, p)
<1> HIDE DEF d
<1>2. IsInjective(d)
  BY <1>1 DEF IsInjective, ToSet, d
<1>3. ToSet(d) = ToSet(q) \cup {p}
  <2>1. ASSUME NEW x \in ToSet(d) PROVE x \in ToSet(q) \cup {p}
    BY <1>1, <2>1 DEF ToSet, d
  <2>2. ASSUME NEW x \in ToSet(q) \cup {p} PROVE x \in ToSet(d)
    BY <1>1, <2>2 DEF ToSet, d
  <2> QED BY <2>1, <2>2
<1> QED BY <1>1, <1>2, <1>3 DEF d

(* Taking the first waiter out of a queue.                                 *)
LEMMA TailElements ==
    ASSUME NEW S, NEW q \in Seq(S), IsInjective(q), q # << >>
    PROVE  /\ Tail(q) \in Seq(S) /\ Head(q) \in ToSet(q) /\ ToSet(q) \subseteq S
           /\ IsInjective(Tail(q))
           /\ ToSet(Tail(q)) = ToSet(q) \ {Head(q)}
<1>1. /\ Tail(q) \in Seq(S) /\ DOMAIN Tail(q) = 1 .. Len(q) - 1
      /\ DOMAIN q = 1 .. Len(q) /\ Len(q) \in Nat \ {0} /\ Head(q) = q[1]
      /\ \A i \in 1 .. Len(q) - 1 : Tail(q)[i] = q[i + 1]
      /\ \A i \in 1 .. Len(q) : q[i] \in S
  BY SMT
<1> DEFINE d == Tail(q)
<1> HIDE DEF d
<1>2. IsInjective(d)
  BY <1>1 DEF IsInjective, d
<1>3. ToSet(d) = ToSet(q) \ {Head(q)}
  <2>1. ASSUME NEW x \in ToSet(d) PROVE x \in ToSet(q) \ {Head(q)}
    BY <1>1, <2>1 DEF ToSet, d, IsInjective
  <2>2. ASSUME NEW x \in ToSet(q) \ {Head(q)} PROVE x \in ToSet(d)
    <3>1. PICK i \in DOMAIN q : q[i] = x
      BY <2>2 DEF ToSet
    <3>2. i - 1 \in DOMAIN d /\ d[i - 1] = x
      BY <1>1, <2>2, <3>1 DEF d
    <3> QED BY <3>2 DEF ToSet
  <2> QED BY <2>1, <2>2
<1>4. Head(q) \in ToSet(q) /\ ToSet(q) \subseteq S
  BY <1>1 DEF ToSet
<1> QED BY <1>1, <1>2, <1>3, <1>4 DEF d

(* The empty queue of wait_queue_init holds nobody.                        *)
LEMMA EmptyElements ==
    /\ IsInjective(<< >>) /\ ToSet(<< >>) = {}
    /\ \A S : << >> \in Seq(S)
BY SMT DEF IsInjective, ToSet

(* a was queued before b.                                                  *)
Before(q, a, b) == \E i, j \in DOMAIN q : i < j /\ q[i] = a /\ q[j] = b

(* wait_queue_add goes to the end: who is queued keeps his turn.           *)
LEMMA AppendOrder ==
    ASSUME NEW S, NEW q \in Seq(S), NEW p \in S, NEW a, NEW b, Before(q, a, b)
    PROVE  Before(Append(q, p), a, b)
<1>1. PICK i \in DOMAIN q, j \in DOMAIN q : i < j /\ q[i] = a /\ q[j] = b
  BY DEF Before
<1>2. i \in DOMAIN Append(q, p) /\ j \in DOMAIN Append(q, p)
  BY <1>1
<1>3. Append(q, p)[i] = a /\ Append(q, p)[j] = b
  BY <1>1
<1> QED BY <1>1, <1>2, <1>3 DEF Before

(* Waking the first does not change the order of the others.               *)
LEMMA TailOrder ==
    ASSUME NEW S, NEW q \in Seq(S), q # << >>, NEW a, NEW b, Before(q, a, b), a # Head(q)
    PROVE  Before(Tail(q), a, b)
<1>1. PICK i \in DOMAIN q, j \in DOMAIN q : i < j /\ q[i] = a /\ q[j] = b
  BY DEF Before
<1>2. /\ DOMAIN Tail(q) = 1 .. Len(q) - 1 /\ DOMAIN q = 1 .. Len(q) /\ Len(q) \in Nat
      /\ \A k \in 1 .. Len(q) - 1 : Tail(q)[k] = q[k + 1]
      /\ Head(q) = q[1]
  BY SMT
<1>3. i \in 2 .. Len(q) /\ j \in 2 .. Len(q)
  BY <1>1, <1>2
<1>4. i - 1 \in DOMAIN Tail(q) /\ j - 1 \in DOMAIN Tail(q) /\ i - 1 < j - 1
  BY <1>1, <1>2, <1>3
<1>5. Tail(q)[i - 1] = a /\ Tail(q)[j - 1] = b
  BY <1>1, <1>2, <1>3
<1> QED BY <1>4, <1>5 DEF Before

(* Nor does a waiter that leaves from the middle.                          *)
LEMMA DelOrder ==
    ASSUME NEW S, NEW q \in Seq(S), NEW p, NEW a, NEW b, Before(q, a, b), a # p, b # p
    PROVE  Before(WaitQueueDel(q, p), a, b)
<1>1. CASE ~InQueue(q, p)
  BY <1>1 DEF WaitQueueDel
<1>2. CASE InQueue(q, p)
  <2>1. PICK k \in DOMAIN q : q[k] = p /\ WaitQueueDel(q, p) = RemoveAt(q, k)
    BY <1>2 DEF WaitQueueDel, InQueue
  <2>2. PICK i \in DOMAIN q, j \in DOMAIN q : i < j /\ q[i] = a /\ q[j] = b
    BY DEF Before
  <2> DEFINE r == RemoveAt(q, k)
  <2>3. /\ DOMAIN r = 1 .. Len(q) - 1 /\ DOMAIN q = 1 .. Len(q) /\ Len(q) \in Nat
        /\ \A x \in 1 .. Len(q) - 1 : r[x] = IF x < k THEN q[x] ELSE q[x + 1]
    BY RemoveAtElements
  <2> HIDE DEF r
  <2>4. i # k /\ j # k /\ i \in Nat /\ j \in Nat /\ k \in Nat
    BY <2>1, <2>2, <2>3
  <2>5. PICK x \in DOMAIN r : r[x] = a /\ (IF i < k THEN x = i ELSE x = i - 1)
    BY <2>1, <2>2, <2>3, <2>4
  <2>6. PICK y \in DOMAIN r : r[y] = b /\ (IF j < k THEN y = j ELSE y = j - 1)
    BY <2>1, <2>2, <2>3, <2>4
  <2>7. x < y
    BY <2>2, <2>3, <2>4, <2>5, <2>6
  <2> QED BY <2>1, <2>5, <2>6, <2>7 DEF Before, r
<1> QED BY <1>1, <1>2
=============================================================================
