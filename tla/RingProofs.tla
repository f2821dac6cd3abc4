------------------------------ MODULE RingProofs -----------------------------
(***************************************************************************)
(* Lemmas that the proofs about both chats over RingQueue share: the ring  *)
(* stays a ring, the sums over the two users, and what the operations do   *)
(* to the sequence of messages that the ring holds.                        *)
(***************************************************************************)
EXTENDS RingQueue, FiniteSetTheorems, SequenceTheorems, TLAPS

(* The values of the queue when its messages are numbered from a set N. *)
Rings(N) == [table : [0..BUFFER_SIZE - 1 -> [pri : {0, 1}, n : N]],
             head : 0..BUFFER_SIZE - 1, tail : 0..BUFFER_SIZE - 1, size : Int]

LEMMA NewRing ==
  ASSUME BUFFER_SIZE \in Nat \ {0}, NEW N, 0 \in N
  PROVE  NewQueue \in Rings(N) /\ NewQueue.size = 0
<1>1. Blank \in [pri : {0, 1}, n : N]
  BY DEF Blank
<1>2. 0 \in 0..BUFFER_SIZE - 1
  OBVIOUS
<1> QED BY <1>1, <1>2 DEF NewQueue, Rings

(* The operations on the ring keep it a ring; only Counted changes size. *)
LEMMA RingOperations ==
  ASSUME BUFFER_SIZE \in Nat \ {0}, NEW N, NEW queue \in Rings(N)
  PROVE  /\ queue_init(queue) \in Rings(N) /\ queue_init(queue).size = 0
         /\ ReadSlot(queue) \in Rings(N) /\ ReadSlot(queue).size = queue.size
         /\ \A d \in Int : Counted(queue, d) \in Rings(N) /\ Counted(queue, d).size = queue.size + d
         /\ \A m \in [pri : {0, 1}, n : N] :
              SendSlot(queue, m) \in Rings(N) /\ SendSlot(queue, m).size = queue.size
<1> USE DEF Rings
<1>1. \A k \in 0..BUFFER_SIZE - 1 : After(k) \in 0..BUFFER_SIZE - 1
  BY DEF After
<1>2. \A k \in 0..BUFFER_SIZE - 1 : Before(k) \in 0..BUFFER_SIZE - 1
  BY DEF Before
<1>3. queue_init(queue) \in Rings(N) /\ queue_init(queue).size = 0
  <2>1. 0 \in 0..BUFFER_SIZE - 1
    OBVIOUS
  <2> DEFINE q1 == [queue EXCEPT !.head = 0]
             q2 == [q1 EXCEPT !.tail = 0]
  <2>2. queue_init(queue) = [q2 EXCEPT !.size = 0]
    BY Zenon DEF queue_init
  <2>3. q1 \in Rings(N)
    BY <2>1
  <2> HIDE DEF q1
  <2>4. q2 \in Rings(N)
    BY <2>1, <2>3
  <2> HIDE DEF q2
  <2>5. [q2 EXCEPT !.size = 0] \in Rings(N)
    <3> DEFINE Tables == [0..BUFFER_SIZE - 1 -> [pri : {0, 1}, n : N]]
               Indices == 0..BUFFER_SIZE - 1
    <3>1. q2 \in [table : Tables, head : Indices, tail : Indices, size : Int] /\ 0 \in Int
      BY <2>4
    <3> HIDE DEF Tables, Indices
    <3>2. [q2 EXCEPT !.size = 0] \in [table : Tables, head : Indices, tail : Indices, size : Int]
      BY <3>1
    <3> QED BY <3>2 DEF Tables, Indices
  <2>6. [q2 EXCEPT !.size = 0].size = 0
    BY <2>4
  <2> QED BY <2>2, <2>5, <2>6, Zenon
<1>4. ReadSlot(queue) \in Rings(N) /\ ReadSlot(queue).size = queue.size
  BY <1>1 DEF ReadSlot
<1>5. \A d \in Int : Counted(queue, d) \in Rings(N) /\ Counted(queue, d).size = queue.size + d
  BY DEF Counted
<1>6. ASSUME NEW m \in [pri : {0, 1}, n : N]
      PROVE  SendSlot(queue, m) \in Rings(N) /\ SendSlot(queue, m).size = queue.size
  BY <1>1, <1>2 DEF SendSlot
<1> QED BY <1>3, <1>4, <1>5, <1>6
------------------------------------------------------------------------------
(* How many of the two senders are at one of some labels. *)
One(l, labels) == IF l \in labels THEN 1 ELSE 0

LEMMA OneIsNat == ASSUME NEW l, NEW labels PROVE One(l, labels) \in {0, 1}
  BY DEF One

LEMMA UsersAt ==
  ASSUME NEW f, NEW labels
  PROVE  Cardinality({p \in {"A", "B"} : f[p] \in labels})
           = One(f["A"], labels) + One(f["B"], labels)
<1> DEFINE S == {p \in {"A", "B"} : f[p] \in labels}
<1>1. CASE f["A"] \in labels /\ f["B"] \in labels
  <2>1. S = {"A"} \cup {"B"}
    BY <1>1
  <2>2. /\ IsFiniteSet({"A"}) /\ Cardinality({"A"}) = 1
    BY FS_Singleton
  <2>3. Cardinality(S) = Cardinality({"A"}) + 1
    BY <2>1, <2>2, FS_AddElement
  <2> QED BY <1>1, <2>2, <2>3 DEF One
<1>2. CASE f["A"] \in labels /\ f["B"] \notin labels
  <2>1. S = {"A"}
    BY <1>2
  <2> QED BY <1>2, <2>1, FS_Singleton DEF One
<1>3. CASE f["A"] \notin labels /\ f["B"] \in labels
  <2>1. S = {"B"}
    BY <1>3
  <2> QED BY <1>3, <2>1, FS_Singleton DEF One
<1>4. CASE f["A"] \notin labels /\ f["B"] \notin labels
  <2>1. S = {}
    BY <1>4
  <2> QED BY <1>4, <2>1, FS_EmptySet DEF One
<1> QED BY <1>1, <1>2, <1>3, <1>4
------------------------------------------------------------------------------
(* An index that has gone once around the ring. *)
Wrap(x) == IF x < BUFFER_SIZE THEN x ELSE x - BUFFER_SIZE

LEMMA Wrapped ==
  ASSUME BUFFER_SIZE \in Nat \ {0}
  PROVE  \A x \in 0..BUFFER_SIZE + BUFFER_SIZE - 1 :
           x % BUFFER_SIZE = Wrap(x) /\ Wrap(x) \in 0..BUFFER_SIZE - 1
  BY DEF Wrap

Sent(N) == [pri : {0, 1}, n : N]

LEMMA ContentIs ==
  ASSUME BUFFER_SIZE \in Nat \ {0}, NEW N, NEW queue \in Rings(N), NEW n \in 0..BUFFER_SIZE
  PROVE  /\ Content(queue, n) \in Seq(Sent(N)) /\ Len(Content(queue, n)) = n
         /\ \A k \in 1..n : Content(queue, n)[k] = queue.table[Wrap(queue.head + k - 1)]
<1>1. queue.head \in 0..BUFFER_SIZE - 1 /\ queue.table \in [0..BUFFER_SIZE - 1 -> Sent(N)]
  BY DEF Rings, Sent
<1>2. ASSUME NEW k \in 1..n
      PROVE  /\ (queue.head + k - 1) % BUFFER_SIZE \in 0..BUFFER_SIZE - 1
             /\ (queue.head + k - 1) % BUFFER_SIZE = Wrap(queue.head + k - 1)
  <2>1. queue.head + k - 1 \in 0..BUFFER_SIZE + BUFFER_SIZE - 1
    BY <1>1
  <2> QED BY <2>1, Wrapped, Zenon
<1>3. \A k \in 1..n : Content(queue, n)[k] = queue.table[(queue.head + k - 1) % BUFFER_SIZE]
  BY DEF Content
<1>4. Content(queue, n) \in [1..n -> Sent(N)]
  BY <1>1, <1>2 DEF Content
<1>5. Content(queue, n) \in Seq(Sent(N)) /\ Len(Content(queue, n)) = n
  BY <1>4
<1> QED BY <1>2, <1>3, <1>5, Zenon

(* The n messages end at the tail. *)
Spans(queue, n) ==
  n \in 0..BUFFER_SIZE /\ queue.tail = (queue.head + n) % BUFFER_SIZE

LEMMA SpansIs ==
  ASSUME BUFFER_SIZE \in Nat \ {0}, NEW N, NEW queue \in Rings(N), NEW n \in 0..BUFFER_SIZE
  PROVE  Spans(queue, n) <=> queue.tail = Wrap(queue.head + n)
<1>1. queue.head + n \in 0..BUFFER_SIZE + BUFFER_SIZE - 1
  BY DEF Rings
<1>2. (queue.head + n) % BUFFER_SIZE = Wrap(queue.head + n)
  BY <1>1, Wrapped, Zenon
<1> QED BY <1>2, Zenon DEF Spans

(* Turns of the ring: both neighbours of h, and the k-th slot seen from them. *)
NextTo(h) == IF h + 1 < BUFFER_SIZE THEN h + 1 ELSE 0
PrevTo(h) == IF h = 0 THEN BUFFER_SIZE - 1 ELSE h - 1

LEMMA Turns ==
  ASSUME BUFFER_SIZE \in Nat \ {0}, NEW h \in 0..BUFFER_SIZE - 1
  PROVE  /\ \A k \in 1..BUFFER_SIZE : Wrap(NextTo(h) + (k - 1)) = Wrap(h + k)
         /\ \A k \in 1..BUFFER_SIZE : Wrap(PrevTo(h) + k) = Wrap(h + (k - 1))
         /\ \A k \in 0..BUFFER_SIZE - 1 : NextTo(Wrap(h + k)) = Wrap(h + (k + 1))
<1>1. \A k \in 1..BUFFER_SIZE : Wrap(NextTo(h) + (k - 1)) = Wrap(h + k)
  BY DEF Wrap, NextTo
<1>2. \A k \in 1..BUFFER_SIZE : Wrap(PrevTo(h) + k) = Wrap(h + (k - 1))
  BY DEF Wrap, PrevTo
<1>3. \A k \in 0..BUFFER_SIZE - 1 : NextTo(Wrap(h + k)) = Wrap(h + (k + 1))
  BY DEF Wrap, NextTo
<1> QED BY <1>1, <1>2, <1>3

(* Slots less than a whole ring apart are different. *)
LEMMA Apart ==
  ASSUME BUFFER_SIZE \in Nat \ {0}, NEW h \in 0..BUFFER_SIZE - 1
  PROVE  /\ \A i, j \in 0..BUFFER_SIZE - 1 : i # j => Wrap(h + i) # Wrap(h + j)
         /\ \A i \in 0..BUFFER_SIZE - 1 : Wrap(h + i) \in 0..BUFFER_SIZE - 1
         /\ Wrap(h + 0) = h
<1>1. ASSUME NEW i \in 0..BUFFER_SIZE - 1, NEW j \in 0..BUFFER_SIZE - 1, i # j
      PROVE  Wrap(h + i) # Wrap(h + j)
  BY <1>1 DEF Wrap
<1>2. \A i \in 0..BUFFER_SIZE - 1 : Wrap(h + i) \in 0..BUFFER_SIZE - 1
  BY DEF Wrap
<1>3. Wrap(h + 0) = h
  BY DEF Wrap
<1> QED BY <1>1, <1>2, <1>3

LEMMA AfterBefore ==
  ASSUME BUFFER_SIZE \in Nat \ {0}, NEW k \in 0..BUFFER_SIZE - 1
  PROVE  /\ After(k) = NextTo(k) /\ Before(k) = PrevTo(k)
         /\ After(k) \in 0..BUFFER_SIZE - 1 /\ Before(k) \in 0..BUFFER_SIZE - 1
<1>1. k + 1 \in 0..BUFFER_SIZE + BUFFER_SIZE - 1
  OBVIOUS
<1>2. After(k) = Wrap(k + 1)
  BY <1>1, Wrapped, Zenon DEF After
<1> QED BY <1>2 DEF Before, Wrap, NextTo, PrevTo

(* Reading takes the first message away. *)
LEMMA ReadTakes ==
  ASSUME BUFFER_SIZE \in Nat \ {0}, NEW N, NEW queue \in Rings(N),
         NEW n \in 1..BUFFER_SIZE, Spans(queue, n)
  PROVE  /\ Spans(ReadSlot(queue), n - 1)
         /\ Content(queue, n) # <<>>
         /\ Content(ReadSlot(queue), n - 1) = Tail(Content(queue, n))
<1>1. PICK q2 : q2 = ReadSlot(queue)
  OBVIOUS
<1>2. /\ q2 \in Rings(N) /\ n - 1 \in 0..BUFFER_SIZE /\ n \in 0..BUFFER_SIZE /\ n - 1 \in Nat
  BY <1>1, RingOperations
<1>3. /\ q2.table = queue.table /\ q2.tail = queue.tail
      /\ q2.head = NextTo(queue.head)
      /\ queue.head \in 0..BUFFER_SIZE - 1
  BY <1>1, AfterBefore DEF ReadSlot, Rings
<1>4. PICK h \in 0..BUFFER_SIZE - 1 : h = queue.head
  BY <1>3
<1>5. Spans(q2, n - 1)
  <2>1. queue.tail = Wrap(queue.head + n)
    BY <1>2, SpansIs
  <2>2. Wrap(NextTo(h) + (n - 1)) = Wrap(h + n)
    BY Turns, Zenon
  <2>3. q2.tail = Wrap(q2.head + (n - 1))
    BY <1>3, <1>4, <2>1, <2>2, Zenon
  <2> QED BY <1>2, <2>3, SpansIs
<1>6. PICK c : c = Content(queue, n)
  OBVIOUS
<1>7. PICK d : d = Content(q2, n - 1)
  OBVIOUS
<1>8. /\ c \in Seq(Sent(N)) /\ Len(c) = n
      /\ \A k \in 1..n : c[k] = queue.table[Wrap(queue.head + k - 1)]
  BY <1>2, <1>6, ContentIs
<1>9. /\ d \in Seq(Sent(N)) /\ Len(d) = n - 1
      /\ \A k \in 1..n - 1 : d[k] = q2.table[Wrap(q2.head + k - 1)]
  BY <1>2, <1>7, ContentIs
<1>10. c # <<>>
  BY <1>8
<1>11. /\ Tail(c) \in Seq(Sent(N)) /\ Len(Tail(c)) = n - 1
       /\ \A k \in 1..n - 1 : Tail(c)[k] = c[k + 1]
  BY <1>8, <1>10, HeadTailProperties
<1>12. ASSUME NEW k \in 1..n - 1 PROVE d[k] = Tail(c)[k]
  <2>1. k + 1 \in 1..n
    OBVIOUS
  <2>2. Wrap(q2.head + k - 1) = Wrap(queue.head + (k + 1) - 1)
    <3>1. k \in 1..BUFFER_SIZE
      OBVIOUS
    <3>2. Wrap(NextTo(h) + (k - 1)) = Wrap(h + k)
      BY <3>1, Turns, Zenon
    <3>3. NextTo(h) + (k - 1) = NextTo(h) + k - 1 /\ h + k = h + (k + 1) - 1
      BY DEF NextTo
    <3> QED BY <1>3, <1>4, <3>2, <3>3, Zenon
  <2>3. Tail(c)[k] = c[k + 1] /\ c[k + 1] = queue.table[Wrap(queue.head + (k + 1) - 1)]
    BY <1>8, <1>11, <2>1, Zenon
  <2>4. d[k] = q2.table[Wrap(q2.head + k - 1)]
    BY <1>9, Zenon
  <2> QED BY <1>3, <2>2, <2>3, <2>4, Zenon
<1>13. d = Tail(c)
  <2>1. \A k \in 1..Len(d) : d[k] = Tail(c)[k]
    BY <1>9, <1>12
  <2> QED BY <1>9, <1>11, <2>1, SeqEqual
<1> QED BY <1>1, <1>5, <1>6, <1>7, <1>10, <1>13

(* A priority message comes first, another one last. *)
LEMMA SendPuts ==
  ASSUME BUFFER_SIZE \in Nat \ {0}, NEW N, NEW queue \in Rings(N),
         NEW n \in 0..BUFFER_SIZE - 1, Spans(queue, n), NEW m \in Sent(N)
  PROVE  /\ Spans(SendSlot(queue, m), n + 1)
         /\ Content(SendSlot(queue, m), n + 1)
              = IF m.pri = 1 THEN <<m>> \o Content(queue, n) ELSE Append(Content(queue, n), m)
<1>1. PICK q2 : q2 = SendSlot(queue, m)
  OBVIOUS
<1>2. /\ q2 \in Rings(N) /\ n \in 0..BUFFER_SIZE /\ n + 1 \in 0..BUFFER_SIZE /\ n \in Nat
  <2>1. SendSlot(queue, m) \in Rings(N)
    BY RingOperations, Zenon DEF Sent
  <2> QED BY <1>1, <2>1
<1>3. /\ queue.head \in 0..BUFFER_SIZE - 1 /\ queue.tail \in 0..BUFFER_SIZE - 1
      /\ queue.table \in [0..BUFFER_SIZE - 1 -> Sent(N)]
  BY DEF Rings, Sent
<1>4. queue.tail = Wrap(queue.head + n)
  BY <1>2, SpansIs
<1>5. PICK g \in 0..BUFFER_SIZE - 1 : g = queue.head
  BY <1>3
<1>6. n + 1 \in 1..BUFFER_SIZE
  OBVIOUS
<1>7. PICK c : c = Content(queue, n)
  OBVIOUS
<1>8. PICK d : d = Content(q2, n + 1)
  OBVIOUS
<1>9. /\ c \in Seq(Sent(N)) /\ Len(c) = n
      /\ \A k \in 1..n : c[k] = queue.table[Wrap(queue.head + k - 1)]
  BY <1>2, <1>7, ContentIs
<1>10. /\ d \in Seq(Sent(N)) /\ Len(d) = n + 1
      /\ \A k \in 1..n + 1 : d[k] = q2.table[Wrap(q2.head + k - 1)]
  BY <1>2, <1>8, ContentIs
<1>11. CASE m.pri = 1
  <2>1. PICK h : h = Before(queue.head)
    OBVIOUS
  <2>2. h \in 0..BUFFER_SIZE - 1 /\ h = PrevTo(g)
    BY <1>3, <1>5, <2>1, AfterBefore
  <2>3. q2 = [queue EXCEPT !.head = h, !.table[h] = m]
    BY <1>1, <1>11, <2>1, Zenon DEF SendSlot
  <2>4. /\ q2.head = h /\ q2.tail = queue.tail /\ q2.table[h] = m
        /\ \A k \in 0..BUFFER_SIZE - 1 : k # h => q2.table[k] = queue.table[k]
    BY <1>3, <2>2, <2>3 DEF Rings
  <2>5. Spans(q2, n + 1)
    <3>1. Wrap(PrevTo(g) + (n + 1)) = Wrap(g + ((n + 1) - 1))
      BY <1>6, Turns, Zenon
    <3>2. g + ((n + 1) - 1) = g + n
      OBVIOUS
    <3>3. q2.tail = Wrap(q2.head + (n + 1))
      BY <1>4, <1>5, <2>2, <2>4, <3>1, <3>2, Zenon
    <3> QED BY <1>2, <3>3, SpansIs
  <2>6. <<m>> \in Seq(Sent(N)) /\ Len(<<m>>) = 1 /\ <<m>>[1] = m
    OBVIOUS
  <2>7. PICK e : e = <<m>> \o c
    OBVIOUS
  <2>8. /\ e \in Seq(Sent(N)) /\ Len(e) = n + 1 /\ e[1] = m
        /\ \A k \in 2..n + 1 : e[k] = c[k - 1]
    BY <1>2, <1>9, <2>6, <2>7, ConcatProperties
  <2>9. ASSUME NEW k \in 1..n + 1 PROVE d[k] = e[k]
    <3>1. d[k] = q2.table[Wrap(h + k - 1)]
      BY <1>10, <2>4
    <3>2. CASE k = 1
      <4>1. Wrap(h + k - 1) = h
        <5>1. h + k - 1 = h + 0
          BY <2>2, <3>2
        <5> QED BY <2>2, <5>1, Apart, Zenon
      <4> QED BY <2>4, <2>8, <3>1, <3>2, <4>1
    <3>3. CASE k # 1
      <4>1. k \in 2..n + 1 /\ k - 1 \in 1..n
        BY <3>3
      <4>2. /\ Wrap(h + k - 1) = Wrap(queue.head + (k - 1) - 1)
            /\ Wrap(h + k - 1) \in 0..BUFFER_SIZE - 1 /\ Wrap(h + k - 1) # h
        <5>1. /\ k - 1 \in 1..BUFFER_SIZE /\ k - 1 \in 0..BUFFER_SIZE - 1
              /\ 0 \in 0..BUFFER_SIZE - 1 /\ k - 1 # 0
          BY <4>1
        <5>2. h + (k - 1) = h + k - 1 /\ g + ((k - 1) - 1) = g + (k - 1) - 1
          BY <2>2
        <5>3. Wrap(h + (k - 1)) = Wrap(g + ((k - 1) - 1))
          BY <2>2, <5>1, Turns, Zenon
        <5>4. Wrap(h + (k - 1)) # Wrap(h + 0)
          <6>1. PICK j : j = k - 1
            OBVIOUS
          <6>2. j \in 0..BUFFER_SIZE - 1 /\ 0 \in 0..BUFFER_SIZE - 1 /\ j # 0
            BY <5>1, <6>1, Zenon
          <6>3. \A i \in 0..BUFFER_SIZE - 1 : i # 0 => Wrap(h + i) # Wrap(h + 0)
            BY <2>2, <6>2, Apart, SMT
          <6> QED BY <6>1, <6>2, <6>3, Zenon
        <5>5. Wrap(h + (k - 1)) \in 0..BUFFER_SIZE - 1 /\ Wrap(h + 0) = h
          BY <2>2, <5>1, Apart, Zenon
        <5> QED BY <1>5, <5>2, <5>3, <5>4, <5>5, Zenon
      <4>3. e[k] = c[k - 1] /\ c[k - 1] = queue.table[Wrap(queue.head + (k - 1) - 1)]
        BY <1>9, <2>8, <4>1, Zenon
      <4>4. q2.table[Wrap(h + k - 1)] = queue.table[Wrap(h + k - 1)]
        BY <2>4, <4>2, Zenon
      <4> QED BY <3>1, <4>2, <4>3, <4>4, Zenon
    <3> QED BY <3>2, <3>3
  <2>10. d = e
    BY <1>10, <2>8, <2>9, SeqEqual
  <2> QED BY <1>1, <1>7, <1>8, <1>11, <2>5, <2>7, <2>10
<1>12. CASE m.pri # 1
  <2>1. PICK t : t = queue.tail
    OBVIOUS
  <2>2. t \in 0..BUFFER_SIZE - 1 /\ After(t) = NextTo(t)
    BY <1>3, <2>1, AfterBefore
  <2>3. q2 = [queue EXCEPT !.table[t] = m, !.tail = After(t)]
    BY <1>1, <1>12, <2>1, Zenon DEF SendSlot
  <2>4. /\ q2.head = queue.head /\ q2.tail = After(t) /\ q2.table[t] = m
        /\ \A k \in 0..BUFFER_SIZE - 1 : k # t => q2.table[k] = queue.table[k]
    BY <1>3, <2>2, <2>3 DEF Rings
  <2>5. Spans(q2, n + 1)
    <3>1. NextTo(Wrap(g + n)) = Wrap(g + (n + 1))
      BY Turns, Zenon
    <3>2. q2.tail = Wrap(q2.head + (n + 1))
      BY <1>4, <1>5, <2>1, <2>2, <2>4, <3>1, Zenon
    <3> QED BY <1>2, <3>2, SpansIs
  <2>6. PICK e : e = Append(c, m)
    OBVIOUS
  <2>7. /\ e \in Seq(Sent(N)) /\ Len(e) = n + 1 /\ e[n + 1] = m
        /\ \A k \in 1..n : e[k] = c[k]
    BY <1>2, <1>9, <2>6, AppendProperties
  <2>8. ASSUME NEW k \in 1..n + 1 PROVE d[k] = e[k]
    <3>1. d[k] = q2.table[Wrap(queue.head + k - 1)]
      BY <1>10, <2>4
    <3>2. CASE k = n + 1
      <4>1. Wrap(queue.head + k - 1) = t
        <5>1. g + k - 1 = g + n
          BY <3>2
        <5> QED BY <1>4, <1>5, <2>1, <5>1, Zenon
      <4> QED BY <2>4, <2>7, <3>1, <3>2, <4>1
    <3>3. CASE k # n + 1
      <4>1. k \in 1..n
        BY <3>3
      <4>2. Wrap(queue.head + k - 1) \in 0..BUFFER_SIZE - 1 /\ Wrap(queue.head + k - 1) # t
        <5>1. k - 1 \in 0..BUFFER_SIZE - 1 /\ k - 1 # n /\ g + (k - 1) = g + k - 1
          BY <4>1
        <5>2. Wrap(g + (k - 1)) \in 0..BUFFER_SIZE - 1 /\ Wrap(g + (k - 1)) # Wrap(g + n)
          BY <5>1, Apart, Zenon
        <5> QED BY <1>4, <1>5, <2>1, <5>1, <5>2, Zenon
      <4>3. e[k] = c[k] /\ c[k] = queue.table[Wrap(queue.head + k - 1)]
        BY <1>9, <2>7, <4>1, Zenon
      <4>4. q2.table[Wrap(queue.head + k - 1)] = queue.table[Wrap(queue.head + k - 1)]
        BY <2>4, <4>2, Zenon
      <4> QED BY <3>1, <4>3, <4>4, Zenon
    <3> QED BY <3>2, <3>3
  <2>9. d = e
    BY <1>10, <2>7, <2>8, SeqEqual
  <2> QED BY <1>1, <1>7, <1>8, <1>12, <2>5, <2>6, <2>9
<1> QED BY <1>11, <1>12

(* What is counted or not, the messages are the same; none after queue_init. *)
LEMMA CountedSame ==
  ASSUME NEW N, NEW queue \in Rings(N), NEW d, NEW n
  PROVE  /\ Content(Counted(queue, d), n) = Content(queue, n)
         /\ Spans(Counted(queue, d), n) <=> Spans(queue, n)
  BY DEF Counted, Rings, Content, Spans

LEMMA InitEmpty ==
  ASSUME BUFFER_SIZE \in Nat \ {0}, NEW N, NEW queue \in Rings(N)
  PROVE  Spans(queue_init(queue), 0) /\ Content(queue_init(queue), 0) = <<>>
<1>1. queue_init(queue).head = 0 /\ queue_init(queue).tail = 0 /\ 0 \in 0..BUFFER_SIZE
  BY DEF queue_init, Rings
<1>2. queue_init(queue) \in Rings(N)
  BY RingOperations
<1>3. Wrap(0 + 0) = 0
  BY DEF Wrap
<1>4. Spans(queue_init(queue), 0)
  BY <1>1, <1>2, <1>3, SpansIs
<1>5. Content(queue_init(queue), 0) \in Seq(Sent(N)) /\ Len(Content(queue_init(queue), 0)) = 0
  BY <1>1, <1>2, ContentIs
<1>6. Content(queue_init(queue), 0) = <<>>
  BY <1>5, EmptySeq
<1> QED BY <1>4, <1>6
==============================================================================
