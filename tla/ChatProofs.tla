------------------------------ MODULE ChatProofs ------------------------------
(***************************************************************************)
(* Theorems about Chat for any finite sets of clients and any capacity.    *)
(* The proof goes in two layers: who holds the monitor (LockInv) does not  *)
(* depend on the list and is inductive by itself; what the list holds      *)
(* (DataInv) is then preserved because only the holder touches it.         *)
(***************************************************************************)
EXTENDS Chat, TLAPS, FiniteSetTheorems, SequenceTheorems, WellFoundedInduction

(* The right to be inside is in one place at a time: the entry semaphore,  *)
(* the semaphore of one condition, or one thread.                          *)
LockType ==
  /\ s \in {0, 1}
  /\ w \in [Conditions -> {0, 1}]
  /\ waitingCount \in [Conditions -> Nat]
  /\ pc \in [Threads -> Locations]

OnePermit ==
  /\ s = 1 => \A c \in Conditions : w[c] = 0
  /\ \A c, d \in Conditions : w[c] = 1 /\ w[d] = 1 => c = d
  /\ \A t \in Threads : pc[t] \in Inside => s = 0 /\ \A c \in Conditions : w[c] = 0

LockInv == LockType /\ OnePermit /\ MutualExclusion

(* At the start the monitor is free and every thread is outside it. *)
LEMMA LockInit == Init => LockInv
<1> SUFFICES ASSUME Init PROVE LockInv
  OBVIOUS
<1>1. pc \in [Threads -> {"enter", "done"}]
  BY DEF Init, LoopHead
<1> QED
  BY <1>1 DEF Init, M!MonitorInit, LockInv, LockType, OnePermit, MutualExclusion,
              Conditions, Locations, Inside

(* Every step of a thread is one of five moves of the permit. *)
TakesEntry(t) ==   \* from the entry semaphore
  /\ pc[t] \in {"enter", "reenter"} /\ s > 0 /\ s' = s - 1
  /\ pc' = [pc EXCEPT ![t] = IF pc[t] = "enter" THEN "test" ELSE "leave"]
  /\ UNCHANGED <<w, waitingCount>>
TakesCondition(t) ==   \* from a condition
  /\ pc[t] = "block" /\ w[Awaits(t)] > 0 /\ w' = [w EXCEPT ![Awaits(t)] = @ - 1]
  /\ pc' = [pc EXCEPT ![t] = IF t = Reader THEN "pop" ELSE "find"]
  /\ UNCHANGED <<s, waitingCount>>
GivesEntry(t) ==   \* back to the entry semaphore
  /\ pc[t] \in {"unlock", "leave"} /\ s' = s + 1
  /\ \E l \in {"block", "enter", "count", "done"} : pc' = [pc EXCEPT ![t] = l]
  /\ UNCHANGED <<w, waitingCount>>
GivesCondition(t) ==   \* to the waiters of a condition
  /\ pc[t] = "signal" /\ waitingCount[Signals(t)] > 0
  /\ waitingCount' = [waitingCount EXCEPT ![Signals(t)] = @ - 1]
  /\ w' = [w EXCEPT ![Signals(t)] = @ + 1]
  /\ pc' = [pc EXCEPT ![t] = "reenter"]
  /\ UNCHANGED s
Keeps(t) ==   \* no move: the thread stays inside, or stays outside
  /\ \E l \in Locations : /\ pc' = [pc EXCEPT ![t] = l]
                          /\ pc[t] \in Inside <=> l \in Inside
  /\ \/ UNCHANGED waitingCount
     \/ waitingCount' = [waitingCount EXCEPT ![Awaits(t)] = @ + 1]
  /\ UNCHANGED <<s, w>>

Permit(t) == TakesEntry(t) \/ TakesCondition(t) \/ GivesEntry(t)
               \/ GivesCondition(t) \/ Keeps(t)

(* Every step of a thread takes the permit, passes it on, gives it back or *)
(* leaves it where it is.                                                  *)
LEMMA PermitMoves ==
  LockType => /\ \A u \in Users : User(u) => Permit(u)
              /\ ReaderThread => Permit(Reader)
<1> SUFFICES ASSUME LockType, NEW t \in Threads,
                    \/ t \in Users /\ User(t)
                    \/ t = Reader /\ ReaderThread
             PROVE  Permit(t)
  BY DEF Threads
<1> USE DEF LockType, Threads, Goto, Permit
<1>1. CASE Enter(t)
  BY <1>1 DEF Enter, M!Enter, TakesEntry
<1>2. CASE Unlock(t)
  BY <1>2 DEF Unlock, M!Leave, GivesEntry
<1>3. CASE Block(t)
  BY <1>3 DEF Block, M!BlockOn, TakesCondition
<1>4. CASE Reenter(t)
  BY <1>4 DEF Reenter, M!Enter, TakesEntry
<1>5. ASSUME NEW limit, NEW otherwise \in {"find", "pop"}, TestAndWait(t, limit, otherwise)
      PROVE  Permit(t)
  BY <1>5 DEF TestAndWait, M!Announce, Keeps, Locations, Inside
<1>6. ASSUME NEW level, TestAndSignal(t, level)
      PROVE  Permit(t)
  BY <1>6 DEF TestAndSignal, M!Wake, M!NobodyToWake, M!monitorVars,
              GivesCondition, Keeps, Locations, Inside
<1>7. CASE t \in Users /\ send_msg(t)
  <2>1. CASE SendFind(t) \/ SendInsert(t)
    BY <2>1 DEF SendFind, SendInsert, Keeps, Locations, Inside
  <2>2. CASE SendLeave(t)
    BY <2>2 DEF SendLeave, LoopHead, M!Leave, GivesEntry
  <2> QED
    BY <1>5, <1>6, <1>7, <2>1, <2>2 DEF send_msg, SendTest, SendSignal
<1>8. CASE t = Reader /\ read_msg
  <2>1. CASE ReadPop
    BY <1>8, <2>1 DEF ReadPop, Keeps, Locations, Inside
  <2>2. CASE ReadLeave
    BY <1>8, <2>2 DEF ReadLeave, M!Leave, GivesEntry
  <2>3. CASE ReadCount
    BY <1>8, <2>3 DEF ReadCount, LoopHead, Keeps, Locations, Inside
  <2> QED
    BY <1>5, <1>6, <1>8, <2>1, <2>2, <2>3 DEF read_msg, ReadTest, ReadSignal
<1> QED
  BY <1>1, <1>2, <1>3, <1>4, <1>7, <1>8 DEF User, ReaderThread, Synchronise

(* No step of any thread makes a second permit, or loses the one there is. *)
LEMMA LockStep == LockInv /\ [Next]_vars => LockInv'
<1> SUFFICES ASSUME LockInv, [Next]_vars PROVE LockInv'
  OBVIOUS
<1>1. ASSUME NEW t \in Threads, Permit(t) PROVE LockInv'
  <2> USE <1>1 DEF LockInv, LockType, OnePermit, MutualExclusion, Conditions,
                   Inside, Locations, Awaits, Signals
  <2>1. CASE TakesEntry(t)
    BY <2>1 DEF TakesEntry
  <2>2. CASE TakesCondition(t)
    BY <2>2 DEF TakesCondition
  <2>3. CASE GivesEntry(t)
    BY <2>3 DEF GivesEntry
  <2>4. CASE GivesCondition(t)
    BY <2>4 DEF GivesCondition
  <2>5. CASE Keeps(t)
    BY <2>5 DEF Keeps
  <2> QED
    BY <2>1, <2>2, <2>3, <2>4, <2>5 DEF Permit
<1>2. CASE Next
  <2>1. LockType /\ Users \subseteq Threads /\ Reader \in Threads
    BY DEF LockInv, Threads
  <2>2. ASSUME NEW u \in Users, User(u) PROVE Permit(u)
    BY <2>1, <2>2, PermitMoves
  <2>3. ReaderThread => Permit(Reader)
    BY <2>1, PermitMoves
  <2> QED
    BY <1>1, <1>2, <2>1, <2>2, <2>3 DEF Next
<1>3. CASE UNCHANGED vars
  BY <1>3 DEF vars, LockInv, LockType, OnePermit, MutualExclusion
<1> QED
  BY <1>2, <1>3

(* The monitor excludes: of the threads of any chat, at most one is        *)
(* between its enter() and its leave() at any time.                        *)
THEOREM MutualExclusionHolds == Spec => []MutualExclusion
<1>1. LockInv => MutualExclusion
  BY DEF LockInv
<1> QED
  BY LockInit, LockStep, <1>1, PTL DEF Spec
------------------------------------------------------------------------------
(* insert_after puts one element in, between the first k and the others. *)
Lengthened(S, b, k, m, c) ==
  /\ c \in Seq(S) /\ Len(c) = Len(b) + 1
  /\ \A j \in 1..Len(b) + 1 :
       c[j] = IF j <= k THEN b[j] ELSE IF j = k + 1 THEN m ELSE b[j - 1]

LEMMA InsertAtProperties ==
  ASSUME NEW S, NEW b \in Seq(S), NEW k \in 0..Len(b), NEW m \in S
  PROVE  Lengthened(S, b, k, m, InsertAt(b, k + 1, m))
<1> DEFINE front == SubSeq(b, 1, k)
           back  == SubSeq(b, k + 1, Len(b))
<1>1. Len(b) \in Nat /\ \A j \in 1..Len(b) : b[j] \in S
  BY LenProperties, ElementOfSeq
<1>2. front \in Seq(S) /\ Len(front) = k /\ \A j \in 1..k : front[j] = b[j]
  <2>1. \A j \in 1..k : b[j] \in S
    BY <1>1
  <2> QED
    BY <1>1, <2>1, SubSeqProperties
<1>3. /\ back \in Seq(S) /\ Len(back) = Len(b) - k
      /\ \A j \in 1..Len(b) - k : back[j] = b[k + j]
  <2>1. \A j \in k + 1..Len(b) : b[j] \in S
    BY <1>1
  <2>2. /\ back \in Seq(S)
        /\ Len(back) = IF k + 1 <= Len(b) THEN Len(b) - (k + 1) + 1 ELSE 0
        /\ \A j \in 1..Len(b) - (k + 1) + 1 : back[j] = b[k + 1 + j - 1]
    BY <1>1, <2>1, SubSeqProperties
  <2> QED
    BY <1>1, <2>2
<1>4. <<m>> \in Seq(S) /\ Len(<<m>>) = 1 /\ <<m>>[1] = m
  OBVIOUS
<1> HIDE DEF front, back
<1>5. /\ front \o <<m>> \in Seq(S) /\ Len(front \o <<m>>) = k + 1
      /\ \A j \in 1..k + 1 : (front \o <<m>>)[j] = IF j <= k THEN front[j] ELSE <<m>>[j - k]
  BY <1>2, <1>4, ConcatProperties
<1>6. /\ (front \o <<m>>) \o back \in Seq(S)
      /\ Len((front \o <<m>>) \o back) = Len(b) + 1
      /\ \A j \in 1..Len(b) + 1 :
           ((front \o <<m>>) \o back)[j] = IF j <= k + 1 THEN (front \o <<m>>)[j]
                                          ELSE back[j - (k + 1)]
  <2> DEFINE fm == front \o <<m>>
  <2>1. fm \in Seq(S) /\ Len(fm) = k + 1
    BY <1>5
  <2> HIDE DEF fm
  <2>2. /\ fm \o back \in Seq(S) /\ Len(fm \o back) = Len(fm) + Len(back)
        /\ \A j \in 1..Len(fm) + Len(back) :
             (fm \o back)[j] = IF j <= Len(fm) THEN fm[j] ELSE back[j - Len(fm)]
    BY <1>3, <2>1, ConcatProperties
  <2>3. Len(fm) = k + 1 /\ Len(fm) + Len(back) = Len(b) + 1
    BY <1>1, <1>3, <2>1
  <2> QED
    BY <2>2, <2>3 DEF fm
<1>7. InsertAt(b, k + 1, m) = (front \o <<m>>) \o back
  <2>1. (k + 1) - 1 = k
    OBVIOUS
  <2> QED
    BY <2>1 DEF InsertAt, front, back
<1>8. ASSUME NEW j \in 1..Len(b) + 1
      PROVE  InsertAt(b, k + 1, m)[j] = IF j <= k THEN b[j]
                                        ELSE IF j = k + 1 THEN m ELSE b[j - 1]
  <2>1. CASE j <= k
    BY <1>2, <1>5, <1>6, <1>7, <2>1
  <2>2. CASE j = k + 1
    BY <1>1, <1>4, <1>5, <1>6, <1>7, <2>2
  <2>3. CASE j > k + 1
    <3>1. j - (k + 1) \in 1..Len(b) - k /\ k + (j - (k + 1)) = j - 1
      BY <1>1, <2>3
    <3>2. back[j - (k + 1)] = b[j - 1]
      BY <1>3, <3>1
    <3>3. ~ (j <= k) /\ ~ (j <= k + 1) /\ j # k + 1
      BY <1>1, <2>3
    <3> QED
      BY <1>6, <1>7, <3>2, <3>3
  <2> QED
    BY <2>1, <2>2, <2>3
<1> QED
  BY <1>6, <1>7, <1>8 DEF Lengthened

(* In a list with its priority messages in front, find_next_pri's count of *)
(* them is the position of the last one.                                   *)
LEMMA PriorityPrefix ==
  ASSUME buffer \in Seq(Messages), PriorityFirst
  PROVE  /\ find_next_pri \in 0..Len(buffer)
         /\ \A k \in 1..Len(buffer) : buffer[k].pri = 1 <=> k <= find_next_pri
<1> DEFINE P == {k \in DOMAIN buffer : buffer[k].pri = 1}
           After == {n \in 1..Len(buffer) + 1 : n \notin P}
<1>1. Len(buffer) \in Nat /\ DOMAIN buffer = 1..Len(buffer)
  BY LenProperties
<1>2. PICK n \in After : \A k \in After : ~ (k < n)
  <2>1. After \subseteq Nat /\ Len(buffer) + 1 \in After
    BY <1>1
  <2>2. \E n \in After : \A k \in After : <<k, n>> \notin OpToRel(<, Nat)
    BY <2>1, NatLessThanWellFounded, WFMin
  <2> QED
    BY <2>1, <2>2 DEF OpToRel
<1>3. P = 1..n - 1
  <2>1. ASSUME NEW k \in 1..n - 1 PROVE k \in P
    BY <1>1, <1>2
  <2>2. ASSUME NEW k \in P PROVE k < n
    <3>1. CASE n \in DOMAIN buffer
      BY <1>1, <1>2, <3>1 DEF PriorityFirst
    <3>2. CASE n = Len(buffer) + 1
      BY <1>1, <3>2
    <3> QED
      BY <1>1, <3>1, <3>2
  <2> QED
    BY <1>1, <2>1, <2>2
<1>4. Cardinality(1..n - 1) = n - 1
  BY <1>1, FS_Interval
<1>5. find_next_pri = n - 1
  BY <1>3, <1>4 DEF find_next_pri
<1> QED
  BY <1>1, <1>3, <1>5
------------------------------------------------------------------------------
(* What the list and the counters hold. *)
DataType ==
  /\ buffer \in Seq(Messages)
  /\ next_pri \in Nat
  /\ last \in Nat
  /\ ret \in Messages \cup {NoMessage}
  /\ i \in [Threads -> Nat]
  /\ \A u \in Users : pc[u] \notin {"pop", "count"}
  /\ pc[Reader] \notin {"find", "insert"}
  /\ args \in [pri : 0..MaxSend, reg : 0..MaxSend, read : 0..MaxRead]

(* A client at work has messages left to send. *)
Passes == \A u \in Users : pc[u] # "done" => i[u] < Count(u)

(* A wake-up on its way keeps the condition it announces true. *)
Slots ==
  /\ BufferBounds
  /\ w["full"] = 1 => Len(buffer) < CAPACITY
  /\ w["empty"] = 1 => Len(buffer) > 0

(* The iterator a client is about to insert after is the right one. *)
Found ==
  \A u \in Users : pc[u] = "insert" =>
    IF u \in PriUsers
    THEN /\ next_pri <= Len(buffer)
         /\ \A k \in 1..Len(buffer) : buffer[k].pri = 1 <=> k <= next_pri
    ELSE last = Len(buffer)

(* While somebody waits, the list is at the limit, or one short of it and  *)
(* the wake-up is on its way: about to be sent, sent, or being acted on.   *)
WakeupOnItsWay ==
  /\ waitingCount["full"] > 0 =>
       \/ Len(buffer) = CAPACITY
       \/ /\ Len(buffer) = CAPACITY - 1
          /\ \/ w["full"] = 1
             \/ pc[Reader] = "signal"
             \/ \E u \in Users : pc[u] \in {"find", "insert"}
  /\ waitingCount["empty"] > 0 =>
       \/ Len(buffer) = 0
       \/ /\ Len(buffer) = 1
          /\ \/ w["empty"] = 1
             \/ pc[Reader] = "pop"
             \/ \E u \in Users : pc[u] = "signal"

DataInv == DataType /\ Passes /\ Slots /\ Found /\ PriorityFirst /\ WakeupOnItsWay

(* The length of the list is a number, and 0 only when the list is empty. *)
LEMMA LenOfBuffer == DataType => /\ Len(buffer) \in Nat
                                 /\ buffer = <<>> <=> Len(buffer) = 0
                                 /\ DOMAIN buffer = 1..Len(buffer)
  BY LenProperties, EmptySeq DEF DataType

(* The empty list, with all threads at the head of their loops. *)
LEMMA DataInit == Init => DataInv
<1> SUFFICES ASSUME Init PROVE DataInv
  OBVIOUS
<1>1. /\ pc \in [Threads -> {"enter", "done"}]
      /\ \A t \in Threads : pc[t] # "done" => i[t] < Count(t)
  BY DEF Init, LoopHead
<1>2. buffer \in Seq(Messages) /\ Len(buffer) = 0 /\ DOMAIN buffer = {}
  BY EmptySeq DEF Init
<1>3. Reader \in Threads /\ Users \subseteq Threads
  BY DEF Threads
<1> QED
  BY <1>1, <1>2, <1>3, NumbersAssumption
     DEF Init, M!MonitorInit, Conditions, DataInv, DataType, Passes, Slots, BufferBounds,
         Found, PriorityFirst, WakeupOnItsWay

(* Steps that leave the list and the iterators alone. *)
LEMMA SynchroniseKeepsData ==
  ASSUME LockInv, DataInv, NEW t \in Threads, Synchronise(t)
  PROVE  DataInv'
<1> USE DEF LockInv, LockType, OnePermit, MutualExclusion, DataInv, DataType, Passes,
            Slots, BufferBounds, Found, Conditions, Locations, Inside, Threads,
            Goto, bufferVars, Count, Awaits
<1>1. Len(buffer) \in Nat /\ (buffer = <<>> <=> Len(buffer) = 0)
  BY LenOfBuffer
<1>2. /\ UNCHANGED <<buffer, next_pri, last, ret, i, args, waitingCount>>
      /\ PriorityFirst'
  BY DEF Synchronise, Enter, Unlock, Block, Reenter, PriorityFirst, M!Enter, M!Leave, M!BlockOn
<1>3. CASE Enter(t)
  <2>1. WakeupOnItsWay'
    BY <1>2, <1>3 DEF Enter, M!Enter, WakeupOnItsWay
  <2> QED
    BY <1>2, <1>3, <2>1 DEF Enter, M!Enter
<1>4. CASE Unlock(t)
  <2>1. WakeupOnItsWay'
    BY <1>2, <1>4 DEF Unlock, M!Leave, WakeupOnItsWay
  <2> QED
    BY <1>2, <1>4, <2>1 DEF Unlock, M!Leave
<1>5. CASE Block(t)
  <2>1. WakeupOnItsWay'
    BY <1>1, <1>2, <1>5 DEF Block, M!BlockOn, WakeupOnItsWay
  <2> QED
    BY <1>1, <1>2, <1>5, <2>1, ThreadsAssumption DEF Block, M!BlockOn
<1>6. CASE Reenter(t)
  <2>1. WakeupOnItsWay'
    BY <1>2, <1>6 DEF Reenter, M!Enter, WakeupOnItsWay
  <2> QED
    BY <1>2, <1>6, <2>1 DEF Reenter, M!Enter
<1> QED
  BY <1>3, <1>4, <1>5, <1>6 DEF Synchronise

(* One step of send_msg. *)
LEMMA SendKeepsData ==
  ASSUME LockInv, DataInv, NEW u \in Users, send_msg(u)
  PROVE  DataInv'
<1>1. /\ Len(buffer) \in Nat /\ (buffer = <<>> <=> Len(buffer) = 0)
      /\ Len(buffer) = 1 => Len(buffer) > 0
  BY LenOfBuffer DEF DataInv
<1> USE DEF LockInv, LockType, OnePermit, MutualExclusion, DataInv, DataType, Passes,
            Slots, BufferBounds, Conditions, Locations, Inside, Threads, Goto,
            bufferVars, Count
<1>2. u # Reader /\ (u \in RegUsers <=> u \notin PriUsers)
  BY ThreadsAssumption DEF Users
<1>3. Message(u) \in Messages
  <2>1. pc[u] # "done"
    BY DEF send_msg, SendTest, TestAndWait, SendFind, SendInsert, SendSignal, TestAndSignal,
           SendLeave
  <2>2. args.pri \in 0..MaxSend /\ args.reg \in 0..MaxSend
    OBVIOUS
  <2>3. Count(u) \in 0..MaxSend
    BY <1>2, <2>2 DEF Users
  <2>4. i[u] \in 0..MaxSend
    BY <2>1, <2>3, NumbersAssumption
  <2> QED
    BY <2>4 DEF Message, Messages
<1>4. CASE SendTest(u)
  <2>1. UNCHANGED <<buffer, next_pri, last, ret, i, args, s, w>> /\ PriorityFirst'
    BY <1>4 DEF SendTest, TestAndWait, PriorityFirst, M!Announce
  <2>2. Found'
    BY <1>4, <2>1 DEF SendTest, TestAndWait, Found
  <2>3. WakeupOnItsWay'
    BY <1>1, <1>2, <1>4, <2>1 DEF SendTest, TestAndWait, M!Announce, Awaits, WakeupOnItsWay
  <2> QED
    BY <1>1, <1>2, <1>4, <2>1, <2>2, <2>3, NumbersAssumption DEF SendTest, TestAndWait
<1>5. CASE SendFind(u)
  <2>1. UNCHANGED <<buffer, ret, i, args, s, w, waitingCount>> /\ PriorityFirst'
    BY <1>5 DEF SendFind, PriorityFirst
  <2>2. find_next_pri \in 0..Len(buffer)
        /\ \A k \in 1..Len(buffer) : buffer[k].pri = 1 <=> k <= find_next_pri
    BY PriorityPrefix
  <2>3. Found'
    BY <1>1, <1>5, <2>1, <2>2 DEF SendFind, Found, Message, find_last
  <2>4. WakeupOnItsWay'
    BY <1>2, <1>5, <2>1 DEF SendFind, WakeupOnItsWay
  <2> QED
    BY <1>1, <1>2, <1>5, <2>1, <2>2, <2>3, <2>4 DEF SendFind, find_last
<1>6. CASE SendInsert(u)
  <2> DEFINE node == IF Message(u).pri = 1 THEN next_pri ELSE last
  <2>1. /\ UNCHANGED <<s, w, waitingCount, next_pri, last, ret, i, args>>
        /\ buffer' = InsertAt(buffer, node + 1, Message(u))
        /\ pc[u] = "insert" /\ pc' = [pc EXCEPT ![u] = "signal"]
    BY <1>6 DEF SendInsert
  <2>2. /\ node \in 0..Len(buffer)
        /\ \A k \in 1..Len(buffer) : IF u \in PriUsers THEN buffer[k].pri = 1 <=> k <= node
                                                       ELSE k <= node
    BY <1>1, <2>1 DEF Found, Message
  <2> HIDE DEF node
  <2>3. /\ buffer' \in Seq(Messages)
        /\ Len(buffer') = Len(buffer) + 1
        /\ \A j \in 1..Len(buffer) + 1 :
             buffer'[j] = IF j <= node THEN buffer[j]
                          ELSE IF j = node + 1 THEN Message(u) ELSE buffer[j - 1]
    <3>1. buffer \in Seq(Messages) /\ node \in 0..Len(buffer) /\ Message(u) \in Messages
      BY <1>3, <2>2
    <3>2. Lengthened(Messages, buffer, node, Message(u), InsertAt(buffer, node + 1, Message(u)))
      <4> HIDE DEF LockInv, DataInv
      <4> QED BY <3>1, InsertAtProperties, Zenon
    <3>3. buffer' = InsertAt(buffer, node + 1, Message(u))
      BY <2>1, Zenon
    <3>4. Lengthened(Messages, buffer, node, Message(u), buffer')
      BY <3>2, <3>3, Zenon
    <3> QED BY <3>4, Zenon DEF Lengthened
  <2>4. DOMAIN buffer' = 1..Len(buffer) + 1 /\ DOMAIN buffer = 1..Len(buffer)
    BY <2>3, LenProperties
  <2>5. Len(buffer) < CAPACITY
    BY <2>1
  <2>6. PriorityFirst'
    <3>5. PriorityFirst
      OBVIOUS
    <3> HIDE DEF LockInv, DataInv
    <3>1. SUFFICES ASSUME NEW j \in 1..Len(buffer) + 1, NEW k \in 1..Len(buffer) + 1,
                          j < k, buffer'[k].pri = 1
                   PROVE  buffer'[j].pri = 1
      BY <2>4 DEF PriorityFirst
    <3>2. CASE k <= node
      BY <1>1, <2>2, <2>3, <2>4, <3>1, <3>2, <3>5 DEF PriorityFirst
    <3>3. CASE k = node + 1
      BY <1>1, <2>2, <2>3, <3>1, <3>3 DEF Message
    <3>4. CASE k > node + 1
      <4>1. k - 1 \in 1..Len(buffer) /\ buffer[k - 1].pri = 1 /\ k - 1 > node
        <5>1. k - 1 \in 1..Len(buffer) /\ k - 1 > node /\ ~ (k <= node) /\ k # node + 1
          BY <1>1, <2>2, <3>1, <3>4
        <5>2. buffer'[k] = buffer[k - 1]
          BY <2>3, <5>1
        <5> QED
          BY <3>1, <5>1, <5>2
      <4>2. k - 1 <= node
        BY <2>2, <4>1, Zenon
      <4>3. node \in Int /\ k - 1 \in Int
        BY <1>1, <2>2
      <4> QED BY <4>1, <4>2, <4>3
    <3> QED
      BY <1>1, <2>2, <3>2, <3>3, <3>4
  <2>7. Found'
    BY <1>6, <2>1 DEF Found
  <2>8. WakeupOnItsWay'
    <3>5. WakeupOnItsWay
      OBVIOUS
    <3>1. waitingCount["full"] > 0 => Len(buffer') = CAPACITY
      <4> HIDE DEF LockInv, DataInv
      <4> QED BY <1>1, <2>3, <2>5, <3>5, NumbersAssumption DEF WakeupOnItsWay
    <3>2. /\ w["empty"] = 0 /\ pc[Reader] # "pop"
          /\ \A v \in Users : pc[v] # "signal"
      BY <1>2, <2>1
    <3>3. waitingCount["empty"] > 0 => Len(buffer') = 1
      <4> HIDE DEF LockInv, DataInv
      <4> QED BY <1>1, <2>3, <3>2, <3>5 DEF WakeupOnItsWay
    <3>4. pc'[u] = "signal"
      BY <2>1
    <3> QED
      BY <2>1, <3>1, <3>3, <3>4 DEF WakeupOnItsWay
  <2>9. BufferBounds'
    BY <1>1, <1>2, <2>1, <2>3, <2>5, NumbersAssumption, EmptySeq
  <2>10. DataType'
    BY <1>2, <2>1, <2>3
  <2>11. Passes'
    BY <1>2, <2>1
  <2>12. /\ w'["full"] = 1 => Len(buffer') < CAPACITY
         /\ w'["empty"] = 1 => Len(buffer') > 0
    BY <1>1, <1>2, <2>1, <2>3, <2>5
  <2> HIDE DEF DataType, Passes, BufferBounds
  <2> QED BY <2>6, <2>7, <2>8, <2>9, <2>10, <2>11, <2>12, Zenon
<1>7. CASE SendSignal(u)
  <2>1. UNCHANGED <<buffer, next_pri, last, ret, i, args, s>> /\ PriorityFirst'
    BY <1>7 DEF SendSignal, TestAndSignal, PriorityFirst, M!Wake, M!NobodyToWake, M!monitorVars
  <2>2. Found'
    BY <1>7, <2>1 DEF SendSignal, TestAndSignal, Found
  <2>3. WakeupOnItsWay'
    <3>1. /\ pc[u] = "signal" /\ w["empty"] = 0 /\ pc[Reader] \notin {"pop", "signal"}
          /\ \A v \in Users : pc[v] \notin {"find", "insert"} /\ (pc[v] = "signal" => v = u)
          /\ pc' = [pc EXCEPT ![u] = pc'[u]]
      BY <1>2, <1>7 DEF SendSignal, TestAndSignal
    <3>2. /\ waitingCount'["full"] = waitingCount["full"] /\ w'["full"] = w["full"]
          /\ \/ Len(buffer) = 1 /\ (waitingCount'["empty"] = 0 \/ w'["empty"] = 1)
             \/ Len(buffer) # 1 /\ waitingCount'["empty"] = waitingCount["empty"]
      BY <1>2, <1>7, <3>1 DEF SendSignal, TestAndSignal, M!Wake, M!NobodyToWake, M!monitorVars, Signals
    <3>3. Len(buffer') = Len(buffer) /\ WakeupOnItsWay
      BY <2>1
    <3> HIDE DEF LockInv, DataInv
    <3>4. waitingCount'["full"] > 0 =>
            \/ Len(buffer') = CAPACITY
            \/ Len(buffer') = CAPACITY - 1 /\ w'["full"] = 1
      BY <3>1, <3>2, <3>3 DEF WakeupOnItsWay
    <3>5. waitingCount'["empty"] > 0 =>
            \/ Len(buffer') = 0
            \/ Len(buffer') = 1 /\ w'["empty"] = 1
      BY <3>1, <3>2, <3>3 DEF WakeupOnItsWay
    <3> QED BY <3>4, <3>5, Zenon DEF WakeupOnItsWay
  <2>4. Slots'
    <3>1. /\ w'["full"] = w["full"]
          /\ w'["empty"] = w["empty"] \/ Len(buffer) = 1
      BY <1>2, <1>7 DEF SendSignal, TestAndSignal, M!Wake, M!NobodyToWake, M!monitorVars, Signals
    <3>2. BufferBounds'
      BY <1>2, <1>7, <2>1 DEF SendSignal, TestAndSignal
    <3>3. /\ w["full"] = 1 => Len(buffer) < CAPACITY
          /\ w["empty"] = 1 => Len(buffer) > 0
      OBVIOUS
    <3> HIDE DEF LockInv, LockType, OnePermit, MutualExclusion, DataInv, DataType, Passes
    <3>4. w'["full"] = 1 => Len(buffer) < CAPACITY
      BY <3>1, <3>3
    <3>5. w'["empty"] = 1 => Len(buffer) > 0
      BY <1>1, <3>1, <3>3, Zenon
    <3>6. Len(buffer') = Len(buffer)
      BY <2>1
    <3> QED
      BY <3>2, <3>4, <3>5, <3>6
  <2>5. DataType' /\ Passes'
    BY <1>2, <1>7, <2>1 DEF SendSignal, TestAndSignal
  <2> QED
    BY <2>1, <2>2, <2>3, <2>4, <2>5
<1>8. CASE SendLeave(u)
  <2>1. UNCHANGED <<buffer, next_pri, last, ret, args, w, waitingCount>> /\ PriorityFirst'
    BY <1>8 DEF SendLeave, PriorityFirst, M!Leave
  <2>2. Found'
    BY <1>8, <2>1 DEF SendLeave, LoopHead, Found
  <2>3. WakeupOnItsWay'
    BY <1>2, <1>8, <2>1 DEF SendLeave, LoopHead, WakeupOnItsWay
  <2> QED
    BY <1>1, <1>2, <1>8, <2>1, <2>2, <2>3 DEF SendLeave, LoopHead
<1> QED
  BY <1>4, <1>5, <1>6, <1>7, <1>8 DEF send_msg

(* One step of read_msg, or of the reader after it. *)
LEMMA ReadKeepsData ==
  ASSUME LockInv, DataInv, read_msg
  PROVE  DataInv'
<1> USE DEF LockInv, LockType, OnePermit, MutualExclusion, DataInv, DataType, Passes,
            Slots, BufferBounds, Conditions, Locations, Inside, Threads, Goto,
            bufferVars, Count
<1>1. Len(buffer) \in Nat /\ (buffer = <<>> <=> Len(buffer) = 0)
  BY LenOfBuffer
<1>2. Reader \notin Users
  BY ThreadsAssumption
<1>3. CASE ReadTest
  <2>1. UNCHANGED <<buffer, next_pri, last, ret, i, args, s, w>> /\ PriorityFirst'
    BY <1>3 DEF ReadTest, TestAndWait, PriorityFirst, M!Announce
  <2>2. Found'
    BY <1>2, <1>3, <2>1 DEF ReadTest, TestAndWait, Found
  <2>3. WakeupOnItsWay'
    BY <1>1, <1>2, <1>3, <2>1 DEF ReadTest, TestAndWait, M!Announce, Awaits, WakeupOnItsWay
  <2> QED
    BY <1>1, <1>2, <1>3, <2>1, <2>2, <2>3 DEF ReadTest, TestAndWait
<1>4. CASE ReadPop
  <2>1. /\ UNCHANGED <<s, w, waitingCount, next_pri, last, i, args>>
        /\ ret' = Head(buffer) /\ buffer' = Tail(buffer)
        /\ pc[Reader] = "pop" /\ pc' = [pc EXCEPT ![Reader] = "signal"]
    BY <1>4 DEF ReadPop
  <2>2. buffer # <<>> /\ Len(buffer) > 0
    BY <1>1, <2>1
  <2>3. /\ ret' \in Messages /\ buffer' \in Seq(Messages)
        /\ Len(buffer') = Len(buffer) - 1
        /\ \A j \in 1..Len(buffer) - 1 : buffer'[j] = buffer[j + 1]
    BY <2>1, <2>2, HeadTailProperties
  <2>4. PriorityFirst'
    <3>5. PriorityFirst
      OBVIOUS
    <3> HIDE DEF LockInv, DataInv
    <3>1. DOMAIN buffer' = 1..Len(buffer) - 1 /\ DOMAIN buffer = 1..Len(buffer)
      BY <2>3, LenProperties
    <3>2. SUFFICES ASSUME NEW j \in 1..Len(buffer) - 1, NEW k \in 1..Len(buffer) - 1,
                          j < k, buffer'[k].pri = 1
                   PROVE  buffer'[j].pri = 1
      BY <3>1 DEF PriorityFirst
    <3>3. buffer'[j] = buffer[j + 1] /\ buffer'[k] = buffer[k + 1]
      BY <2>3
    <3>4. j + 1 \in DOMAIN buffer /\ k + 1 \in DOMAIN buffer /\ j + 1 < k + 1
      BY <1>1, <3>1, <3>2
    <3> QED
      BY <3>2, <3>3, <3>4, <3>5 DEF PriorityFirst
  <2>5. Found'
    BY <1>2, <2>1 DEF Found
  <2>6. WakeupOnItsWay'
    BY <1>1, <1>2, <2>1, <2>2, <2>3, NumbersAssumption DEF WakeupOnItsWay
  <2> QED
    BY <1>1, <1>2, <2>1, <2>2, <2>3, <2>4, <2>5, <2>6, NumbersAssumption
<1>5. CASE ReadSignal
  <2>1. UNCHANGED <<buffer, next_pri, last, ret, i, args, s>> /\ PriorityFirst'
    BY <1>5 DEF ReadSignal, TestAndSignal, PriorityFirst, M!Wake, M!NobodyToWake, M!monitorVars
  <2>2. Found'
    BY <1>2, <1>5, <2>1 DEF ReadSignal, TestAndSignal, Found
  <2>3. WakeupOnItsWay'
    BY <1>1, <1>2, <1>5, <2>1, NumbersAssumption DEF ReadSignal, TestAndSignal, M!Wake, M!NobodyToWake,
       M!monitorVars, Signals, WakeupOnItsWay
  <2>4. Slots'
    BY <1>1, <1>2, <1>5, <2>1, NumbersAssumption DEF ReadSignal, TestAndSignal, M!Wake,
       M!NobodyToWake, M!monitorVars, Signals
  <2>5. DataType' /\ Passes'
    BY <1>2, <1>5, <2>1 DEF ReadSignal, TestAndSignal
  <2> QED
    BY <2>1, <2>2, <2>3, <2>4, <2>5
<1>6. CASE ReadLeave
  <2>1. UNCHANGED <<buffer, next_pri, last, ret, i, args, w, waitingCount>> /\ PriorityFirst'
    BY <1>6 DEF ReadLeave, PriorityFirst, M!Leave
  <2>2. WakeupOnItsWay'
    BY <1>2, <1>6, <2>1 DEF ReadLeave, WakeupOnItsWay
  <2> QED
    BY <1>1, <1>2, <1>6, <2>1, <2>2 DEF ReadLeave, Found
<1>7. CASE ReadCount
  <2>1. UNCHANGED <<buffer, next_pri, last, ret, args, s, w, waitingCount>> /\ PriorityFirst'
    BY <1>7 DEF ReadCount, PriorityFirst
  <2>2. WakeupOnItsWay'
    BY <1>2, <1>7, <2>1 DEF ReadCount, LoopHead, WakeupOnItsWay
  <2> QED
    BY <1>1, <1>2, <1>7, <2>1, <2>2 DEF ReadCount, LoopHead, Found
<1> QED
  BY <1>3, <1>4, <1>5, <1>6, <1>7 DEF read_msg

(* Every step of every thread keeps the invariant of the list. *)
LEMMA DataStep == LockInv /\ DataInv /\ [Next]_vars => DataInv'
<1> SUFFICES ASSUME LockInv, DataInv, [Next]_vars PROVE DataInv'
  OBVIOUS
<1>1. ASSUME NEW u \in Users, User(u) PROVE DataInv'
  BY <1>1, SynchroniseKeepsData, SendKeepsData DEF User, Threads
<1>2. CASE ReaderThread
  BY <1>2, SynchroniseKeepsData, ReadKeepsData DEF ReaderThread, Threads
<1>3. CASE UNCHANGED vars
  BY <1>3 DEF vars, DataInv, DataType, Passes, Slots, BufferBounds, Found, PriorityFirst,
              WakeupOnItsWay, Count, Awaits
<1> QED
  BY <1>1, <1>2, <1>3 DEF Next

(* The two inductive invariants hold in all states. *)
LEMMA Invariants == Spec => [](LockInv /\ DataInv)
  BY LockInit, LockStep, DataInit, DataStep, PTL DEF Spec

(* Every variable keeps its type, for any clients and any capacity. *)
THEOREM TypeCorrect == Spec => []TypeOK
<1>1. LockInv /\ DataInv => TypeOK
  BY DEF LockInv, LockType, DataInv, DataType, TypeOK
<1> QED
  BY <1>1, Invariants, PTL

(* No client inserts into a full list and the reader never pops an empty   *)
(* one: the if around wait() is enough, because the monitor is handed over *)
(* to the woken thread directly.                                           *)
THEOREM BufferBoundsHold == Spec => []BufferBounds
<1>1. DataInv => BufferBounds
  BY DEF DataInv, Slots
<1> QED
  BY <1>1, Invariants, PTL

(* The priority messages are always in front of the regular ones. *)
THEOREM PriorityFirstHolds == Spec => []PriorityFirst
<1>1. DataInv => PriorityFirst
  BY DEF DataInv
<1> QED
  BY <1>1, Invariants, PTL

(* Nobody is left waiting at a free monitor for what is already there. *)
THEOREM NoLostWakeupHolds == Spec => []NoLostWakeup
<1>1. LockInv /\ DataInv => NoLostWakeup
  <2> SUFFICES ASSUME LockInv, DataInv, s = 1
               PROVE  /\ waitingCount["full"] > 0 => Len(buffer) = CAPACITY
                      /\ waitingCount["empty"] > 0 => buffer = <<>>
    BY DEF NoLostWakeup
  <2>1. w["full"] = 0 /\ w["empty"] = 0 /\ \A t \in Threads : pc[t] \notin Inside
    BY DEF LockInv, LockType, OnePermit, Conditions
  <2> QED
    BY <2>1, LenOfBuffer DEF DataInv, WakeupOnItsWay, Inside, Threads
<1> QED
  BY <1>1, Invariants, PTL
------------------------------------------------------------------------------
(* A list whose first n messages have priority, and no others, is a queue  *)
(* of n priority messages and one of regular messages.                     *)
Parted(b, n) ==
  n \in 0..Len(b) /\ \A k \in 1..Len(b) : b[k].pri = 1 <=> k <= n
PriorityPart(b, n) == SubSeq(b, 1, n)
RegularPart(b, n) == SubSeq(b, n + 1, Len(b))

Halves(S, b, n) ==
  /\ PriorityPart(b, n) \in Seq(S) /\ Len(PriorityPart(b, n)) = n
  /\ \A j \in 1..n : PriorityPart(b, n)[j] = b[j]
  /\ RegularPart(b, n) \in Seq(S) /\ Len(RegularPart(b, n)) = Len(b) - n
  /\ \A j \in 1..Len(b) - n : RegularPart(b, n)[j] = b[n + j]

LEMMA QueuesOf ==
  ASSUME NEW S, NEW b \in Seq(S), NEW n \in 0..Len(b)
  PROVE  Halves(S, b, n)
<1>1. Len(b) \in Nat /\ \A j \in 1..Len(b) : b[j] \in S
  BY LenProperties, ElementOfSeq
<1>2. /\ PriorityPart(b, n) \in Seq(S) /\ Len(PriorityPart(b, n)) = n
      /\ \A j \in 1..n : PriorityPart(b, n)[j] = b[j]
  <2>1. \A j \in 1..n : b[j] \in S
    BY <1>1
  <2> QED BY <1>1, <2>1, SubSeqProperties DEF PriorityPart
<1>3. /\ RegularPart(b, n) \in Seq(S) /\ Len(RegularPart(b, n)) = Len(b) - n
      /\ \A j \in 1..Len(b) - n : RegularPart(b, n)[j] = b[n + j]
  <2>1. \A j \in n + 1..Len(b) : b[j] \in S
    BY <1>1
  <2>2. /\ RegularPart(b, n) \in Seq(S)
        /\ Len(RegularPart(b, n)) = IF n + 1 <= Len(b) THEN Len(b) - (n + 1) + 1 ELSE 0
        /\ \A j \in 1..Len(b) - (n + 1) + 1 : RegularPart(b, n)[j] = b[n + 1 + j - 1]
    BY <1>1, <2>1, SubSeqProperties DEF RegularPart
  <2> QED BY <1>1, <2>2
<1> QED BY <1>2, <1>3, Zenon DEF Halves

(* insert_after behind the priority messages or the whole list puts the    *)
(* message at the end of its queue.                                        *)
Puts(m, b, n, c, n2) ==
  IF m.pri = 1
  THEN /\ PriorityPart(c, n2) = Append(PriorityPart(b, n), m)
       /\ RegularPart(c, n2) = RegularPart(b, n)
  ELSE /\ PriorityPart(c, n2) = PriorityPart(b, n)
       /\ RegularPart(c, n2) = Append(RegularPart(b, n), m)

LEMMA InsertPuts ==
  ASSUME NEW S, NEW b \in Seq(S), NEW n, Parted(b, n), NEW m \in S, NEW c, NEW n2, Parted(c, n2),
         c = InsertAt(b, (IF m.pri = 1 THEN n ELSE Len(b)) + 1, m)
  PROVE  Puts(m, b, n, c, n2)
<1>1. Len(b) \in Nat /\ n \in 0..Len(b) /\ n \in Nat
  BY LenProperties DEF Parted
<1>2. PICK node \in 0..Len(b) : node = IF m.pri = 1 THEN n ELSE Len(b)
  BY <1>1
<1>3. /\ c \in Seq(S) /\ Len(c) = Len(b) + 1
      /\ \A j \in 1..Len(b) + 1 :
           c[j] = IF j <= node THEN b[j] ELSE IF j = node + 1 THEN m ELSE b[j - 1]
  <2>1. c = InsertAt(b, node + 1, m)
    BY <1>2
  <2>2. Lengthened(S, b, node, m, InsertAt(b, node + 1, m))
    BY InsertAtProperties, Zenon
  <2> QED BY <2>1, <2>2, Zenon DEF Lengthened
<1>4. n2 \in 0..Len(b) + 1 /\ \A k \in 1..Len(b) + 1 : c[k].pri = 1 <=> k <= n2
  BY <1>3 DEF Parted
<1>5. \A k \in 1..Len(b) : b[k].pri = 1 <=> k <= n
  BY DEF Parted
<1>6. PICK f : f = PriorityPart(b, n)
  OBVIOUS
<1>7. PICK r : r = RegularPart(b, n)
  OBVIOUS
<1>8. PICK ff : ff = PriorityPart(c, n2)
  OBVIOUS
<1>9. PICK rr : rr = RegularPart(c, n2)
  OBVIOUS
<1>10. /\ f \in Seq(S) /\ Len(f) = n /\ \A j \in 1..n : f[j] = b[j]
       /\ r \in Seq(S) /\ Len(r) = Len(b) - n /\ \A j \in 1..Len(b) - n : r[j] = b[n + j]
  <2>1. Halves(S, b, n)
    BY <1>1, QueuesOf, Zenon
  <2> QED BY <1>6, <1>7, <2>1, Zenon DEF Halves
<1>11. /\ ff \in Seq(S) /\ Len(ff) = n2 /\ \A j \in 1..n2 : ff[j] = c[j]
       /\ rr \in Seq(S) /\ Len(rr) = Len(b) + 1 - n2
       /\ \A j \in 1..Len(b) + 1 - n2 : rr[j] = c[n2 + j]
  <2>1. n2 \in 0..Len(c)
    BY <1>3, <1>4
  <2>2. /\ ff \in Seq(S) /\ Len(ff) = n2 /\ \A j \in 1..n2 : ff[j] = c[j]
        /\ rr \in Seq(S) /\ Len(rr) = Len(c) - n2 /\ \A j \in 1..Len(c) - n2 : rr[j] = c[n2 + j]
    <3>1. c \in Seq(S)
      BY <1>3
    <3>2. Halves(S, c, n2)
      BY <2>1, <3>1, QueuesOf, Zenon
    <3> QED BY <1>8, <1>9, <3>2, Zenon DEF Halves
  <2>3. Len(c) = Len(b) + 1
    BY <1>3
  <2> QED BY <2>2, <2>3
<1>12. CASE m.pri = 1
  <2>1. node = n
    BY <1>2, <1>12
  <2>2. n2 = n + 1
    <3>1. c[n + 1] = m /\ n + 1 \in 1..Len(b) + 1
      BY <1>1, <1>3, <2>1
    <3>2. n + 1 <= n2
      BY <1>4, <1>12, <3>1
    <3>3. ASSUME n + 2 <= n2 PROVE FALSE
      <4>1. n + 2 \in 1..Len(b) + 1 /\ n + 1 \in 1..Len(b)
        BY <1>1, <1>4, <3>3
      <4>2. c[n + 2] = b[n + 1]
        <5>1. ~ (n + 2 <= node) /\ n + 2 # node + 1 /\ (n + 2) - 1 = n + 1
          BY <1>1, <2>1
        <5> QED BY <1>3, <4>1, <5>1
      <4>3. b[n + 1].pri = 1
        BY <1>4, <3>3, <4>1, <4>2
      <4> QED BY <1>1, <1>5, <4>1, <4>3
    <3> QED BY <1>1, <1>4, <3>2, <3>3
  <2>3. ff = Append(f, m)
    <3>1. PICK e : e = Append(f, m)
      OBVIOUS
    <3>2. /\ e \in Seq(S) /\ Len(e) = n + 1 /\ e[n + 1] = m
          /\ \A j \in 1..n : e[j] = f[j]
      BY <1>10, <3>1, AppendProperties
    <3>3. \A j \in 1..Len(ff) : ff[j] = e[j]
      <4> SUFFICES ASSUME NEW j \in 1..n + 1 PROVE ff[j] = e[j]
        BY <1>11, <2>2
      <4>1. j \in 1..Len(b) + 1 /\ ff[j] = c[j]
        BY <1>1, <1>11, <2>2
      <4>2. CASE j = n + 1
        BY <1>1, <1>3, <2>1, <3>2, <4>1, <4>2
      <4>3. CASE j # n + 1
        <5>1. j \in 1..n
          BY <1>1, <4>3
        <5>2. c[j] = b[j]
          BY <1>3, <2>1, <4>1, <5>1
        <5> QED BY <1>10, <3>2, <4>1, <5>1, <5>2
      <4> QED BY <4>2, <4>3
    <3> QED BY <1>11, <2>2, <3>1, <3>2, <3>3, SeqEqual
  <2>4. rr = r
    <3>1. Len(rr) = Len(b) - n /\ Len(r) = Len(b) - n
      <4>1. Len(rr) = Len(b) + 1 - n2 /\ Len(r) = Len(b) - n
        BY <1>10, <1>11, Zenon
      <4> QED BY <1>1, <2>2, <4>1
    <3>2. \A j \in 1..Len(rr) : rr[j] = r[j]
      <4> SUFFICES ASSUME NEW j \in 1..Len(b) - n PROVE rr[j] = r[j]
        BY <3>1
      <4>1. /\ n + 1 + j \in 1..Len(b) + 1 /\ ~ (n + 1 + j <= node) /\ n + 1 + j # node + 1
            /\ (n + 1 + j) - 1 = n + j /\ j \in 1..Len(b) + 1 - n2
        BY <1>1, <2>1, <2>2
      <4>2. c[n + 1 + j] = b[n + j]
        BY <1>3, <4>1
      <4> QED BY <1>10, <1>11, <2>2, <4>1, <4>2
    <3>3. Len(rr) = Len(r)
      BY <3>1
    <3> QED BY <1>10, <1>11, <3>2, <3>3, SeqEqual
  <2> QED BY <1>6, <1>7, <1>8, <1>9, <1>12, <2>3, <2>4 DEF Puts
<1>13. CASE m.pri # 1
  <2>1. node = Len(b)
    BY <1>2, <1>13
  <2>2. /\ c[Len(b) + 1] = m
        /\ \A j \in 1..Len(b) : c[j] = b[j]
    BY <1>1, <1>3, <2>1
  <2>3. n2 = n
    <3>1. ~ (Len(b) + 1 <= n2)
      <4>1. Len(b) + 1 \in 1..Len(b) + 1
        BY <1>1
      <4> QED BY <1>4, <1>13, <2>2, <4>1
    <3>2. ASSUME n < n2 PROVE FALSE
      <4>1. n2 \in 1..Len(b) /\ n2 \in 1..Len(b) + 1
        BY <1>1, <1>4, <3>1, <3>2
      <4>2. b[n2].pri = 1
        BY <1>4, <2>2, <4>1
      <4> QED BY <1>1, <1>5, <3>2, <4>1, <4>2
    <3>3. ASSUME n2 < n PROVE FALSE
      <4>1. n \in 1..Len(b) /\ n \in 1..Len(b) + 1
        BY <1>1, <1>4, <3>3
      <4>2. c[n].pri = 1
        BY <1>1, <1>5, <2>2, <4>1
      <4> QED BY <1>1, <1>4, <3>3, <4>1, <4>2
    <3> QED BY <1>1, <1>4, <3>2, <3>3
  <2>4. ff = f
    <3>1. \A j \in 1..Len(ff) : ff[j] = f[j]
      <4> SUFFICES ASSUME NEW j \in 1..n PROVE ff[j] = f[j]
        BY <1>11, <2>3
      <4>1. j \in 1..Len(b) /\ j \in 1..n2
        BY <1>1, <2>3
      <4> QED BY <1>10, <1>11, <2>2, <4>1
    <3> QED BY <1>10, <1>11, <2>3, <3>1, SeqEqual
  <2>5. rr = Append(r, m)
    <3>1. PICK e : e = Append(r, m)
      OBVIOUS
    <3>2. /\ e \in Seq(S) /\ Len(e) = Len(b) - n + 1 /\ e[Len(b) - n + 1] = m
          /\ \A j \in 1..Len(b) - n : e[j] = r[j]
      BY <1>10, <3>1, AppendProperties
    <3>3. \A j \in 1..Len(rr) : rr[j] = e[j]
      <4> SUFFICES ASSUME NEW j \in 1..Len(b) + 1 - n PROVE rr[j] = e[j]
        BY <1>11, <2>3
      <4>1. rr[j] = c[n + j]
        BY <1>11, <2>3
      <4>2. CASE j = Len(b) + 1 - n
        <5>1. n + j = Len(b) + 1 /\ j = Len(b) - n + 1
          BY <1>1, <4>2
        <5> QED BY <2>2, <3>2, <4>1, <5>1
      <4>3. CASE j # Len(b) + 1 - n
        <5>1. j \in 1..Len(b) - n /\ n + j \in 1..Len(b)
          BY <1>1, <4>3
        <5> QED BY <1>10, <2>2, <3>2, <4>1, <5>1
      <4> QED BY <4>2, <4>3
    <3>4. Len(rr) = Len(e)
      BY <1>1, <1>11, <2>3, <3>2
    <3> QED BY <1>11, <3>1, <3>2, <3>3, <3>4, SeqEqual
  <2> QED BY <1>6, <1>7, <1>8, <1>9, <1>13, <2>4, <2>5 DEF Puts
<1> QED BY <1>12, <1>13

(* pop_front takes the oldest priority message, or the oldest regular one  *)
(* if there is none.                                                       *)
LEMMA PopTakes ==
  ASSUME NEW S, NEW b \in Seq(S), b # <<>>, NEW n, Parted(b, n), NEW n2, Parted(Tail(b), n2)
  PROVE  IF n = 0
         THEN /\ PriorityPart(b, n) = <<>> /\ RegularPart(b, n) # <<>>
              /\ Head(b) = Head(RegularPart(b, n)) /\ PriorityPart(Tail(b), n2) = <<>>
              /\ RegularPart(Tail(b), n2) = Tail(RegularPart(b, n))
         ELSE /\ PriorityPart(b, n) # <<>> /\ Head(b) = Head(PriorityPart(b, n))
              /\ PriorityPart(Tail(b), n2) = Tail(PriorityPart(b, n))
              /\ RegularPart(Tail(b), n2) = RegularPart(b, n)
<1>1. Len(b) \in Nat /\ Len(b) # 0 /\ n \in 0..Len(b) /\ n \in Nat
  BY LenProperties, EmptySeq DEF Parted
<1>2. PICK c : c = Tail(b)
  OBVIOUS
<1>3. /\ c \in Seq(S) /\ Len(c) = Len(b) - 1 /\ \A j \in 1..Len(b) - 1 : c[j] = b[j + 1]
      /\ Head(b) = b[1]
  BY <1>2, HeadTailProperties
<1>4. n2 \in 0..Len(b) - 1 /\ \A k \in 1..Len(b) - 1 : c[k].pri = 1 <=> k <= n2
  BY <1>2, <1>3 DEF Parted
<1>5. \A k \in 1..Len(b) : b[k].pri = 1 <=> k <= n
  BY DEF Parted
<1>6. PICK f : f = PriorityPart(b, n)
  OBVIOUS
<1>7. PICK r : r = RegularPart(b, n)
  OBVIOUS
<1>8. PICK ff : ff = PriorityPart(c, n2)
  OBVIOUS
<1>9. PICK rr : rr = RegularPart(c, n2)
  OBVIOUS
<1>10. /\ f \in Seq(S) /\ Len(f) = n /\ \A j \in 1..n : f[j] = b[j]
       /\ r \in Seq(S) /\ Len(r) = Len(b) - n /\ \A j \in 1..Len(b) - n : r[j] = b[n + j]
  <2>1. Halves(S, b, n)
    BY <1>1, QueuesOf, Zenon
  <2> QED BY <1>6, <1>7, <2>1, Zenon DEF Halves
<1>11. /\ ff \in Seq(S) /\ Len(ff) = n2 /\ \A j \in 1..n2 : ff[j] = c[j]
       /\ rr \in Seq(S) /\ Len(rr) = Len(b) - 1 - n2
       /\ \A j \in 1..Len(b) - 1 - n2 : rr[j] = c[n2 + j]
  <2>1. n2 \in 0..Len(c)
    BY <1>3, <1>4
  <2>2. /\ ff \in Seq(S) /\ Len(ff) = n2 /\ \A j \in 1..n2 : ff[j] = c[j]
        /\ rr \in Seq(S) /\ Len(rr) = Len(c) - n2 /\ \A j \in 1..Len(c) - n2 : rr[j] = c[n2 + j]
    <3>1. c \in Seq(S)
      BY <1>3
    <3>2. Halves(S, c, n2)
      BY <2>1, <3>1, QueuesOf, Zenon
    <3> QED BY <1>8, <1>9, <3>2, Zenon DEF Halves
  <2>3. Len(c) = Len(b) - 1
    BY <1>3
  <2> QED BY <2>2, <2>3
<1>12. \A k \in 1..Len(b) - 1 : k <= n2 <=> k + 1 <= n
  <2> TAKE k \in 1..Len(b) - 1
  <2>1. k + 1 \in 1..Len(b) /\ c[k] = b[k + 1]
    BY <1>1, <1>3
  <2> QED BY <1>4, <1>5, <2>1
<1>13. n2 = IF n = 0 THEN 0 ELSE n - 1
  <2>1. CASE n = 0
    <3>1. ASSUME n2 # 0 PROVE FALSE
      <4>1. n2 \in 1..Len(b) - 1
        BY <1>1, <1>4, <3>1
      <4> QED BY <1>12, <2>1, <4>1
    <3> QED BY <2>1, <3>1
  <2>2. CASE n # 0
    <3>1. ASSUME n2 < n - 1 PROVE FALSE
      <4>1. n - 1 \in 1..Len(b) - 1 /\ (n - 1) + 1 <= n
        BY <1>1, <1>4, <3>1
      <4>2. n - 1 <= n2
        BY <1>12, <4>1
      <4> QED BY <1>1, <1>4, <3>1, <4>2
    <3>2. ASSUME n2 > n - 1 PROVE FALSE
      <4>1. n2 \in 1..Len(b) - 1
        BY <1>1, <1>4, <2>2, <3>2
      <4>2. n2 + 1 <= n
        BY <1>12, <4>1
      <4> QED BY <1>1, <1>4, <3>2, <4>2
    <3> QED BY <1>1, <1>4, <2>2, <3>1, <3>2
  <2> QED BY <2>1, <2>2
<1>14. CASE n = 0
  <2>1. f = <<>> /\ ff = <<>> /\ r # <<>>
    BY <1>1, <1>10, <1>11, <1>13, <1>14, EmptySeq
  <2>2. PICK e : e = Tail(r)
    OBVIOUS
  <2>3. /\ e \in Seq(S) /\ Len(e) = Len(b) - 1 /\ \A j \in 1..Len(b) - 1 : e[j] = r[j + 1]
        /\ Head(r) = r[1]
    BY <1>1, <1>10, <1>14, <2>1, <2>2, HeadTailProperties
  <2>4. Head(b) = Head(r)
    <3>1. 1 \in 1..Len(b) - n /\ n + 1 = 1
      BY <1>1, <1>14
    <3> QED BY <1>3, <1>10, <2>3, <3>1
  <2>5. rr = e
    <3>1. \A j \in 1..Len(rr) : rr[j] = e[j]
      <4> SUFFICES ASSUME NEW j \in 1..Len(b) - 1 PROVE rr[j] = e[j]
        BY <1>1, <1>11, <1>13, <1>14
      <4>1. rr[j] = c[j] /\ c[j] = b[j + 1]
        BY <1>3, <1>11, <1>13, <1>14
      <4>2. j + 1 \in 1..Len(b) - n /\ n + (j + 1) = j + 1
        BY <1>1, <1>14
      <4>3. e[j] = r[j + 1] /\ r[j + 1] = b[j + 1]
        BY <1>10, <2>3, <4>2
      <4> QED BY <4>1, <4>3
    <3>2. Len(rr) = Len(e)
      BY <1>1, <1>11, <1>13, <1>14, <2>3
    <3> QED BY <1>11, <2>3, <3>1, <3>2, SeqEqual
  <2> QED BY <1>2, <1>6, <1>7, <1>8, <1>9, <1>14, <2>1, <2>2, <2>4, <2>5
<1>15. CASE n # 0
  <2>1. f # <<>>
    BY <1>10, <1>15, EmptySeq
  <2>2. PICK e : e = Tail(f)
    OBVIOUS
  <2>3. /\ e \in Seq(S) /\ Len(e) = n - 1 /\ \A j \in 1..n - 1 : e[j] = f[j + 1]
        /\ Head(f) = f[1]
    BY <1>10, <2>1, <2>2, HeadTailProperties
  <2>4. Head(b) = Head(f)
    <3>1. 1 \in 1..n
      BY <1>1, <1>15
    <3> QED BY <1>3, <1>10, <2>3, <3>1
  <2>5. ff = e
    <3>1. \A j \in 1..Len(ff) : ff[j] = e[j]
      <4> SUFFICES ASSUME NEW j \in 1..n - 1 PROVE ff[j] = e[j]
        BY <1>11, <1>13, <1>15
      <4>1. j \in 1..Len(b) - 1 /\ j + 1 \in 1..n
        BY <1>1
      <4>2. ff[j] = c[j] /\ c[j] = b[j + 1]
        BY <1>3, <1>11, <1>13, <1>15, <4>1
      <4>3. e[j] = f[j + 1] /\ f[j + 1] = b[j + 1]
        BY <1>10, <2>3, <4>1
      <4> QED BY <4>2, <4>3
    <3> QED BY <1>11, <1>13, <1>15, <2>3, <3>1, SeqEqual
  <2>6. rr = r
    <3>1. \A j \in 1..Len(rr) : rr[j] = r[j]
      <4> SUFFICES ASSUME NEW j \in 1..Len(b) - n PROVE rr[j] = r[j]
        BY <1>1, <1>11, <1>13, <1>15
      <4>1. n2 + j \in 1..Len(b) - 1 /\ (n2 + j) + 1 = n + j /\ j \in 1..Len(b) - 1 - n2
        BY <1>1, <1>13, <1>15
      <4>2. rr[j] = c[n2 + j] /\ c[n2 + j] = b[n + j]
        BY <1>3, <1>11, <4>1
      <4> QED BY <1>10, <4>2
    <3>2. Len(rr) = Len(r)
      BY <1>1, <1>10, <1>11, <1>13, <1>15
    <3> QED BY <1>10, <1>11, <3>1, <3>2, SeqEqual
  <2> QED BY <1>2, <1>6, <1>7, <1>8, <1>9, <1>15, <2>1, <2>2, <2>4, <2>5, <2>6
<1> QED BY <1>14, <1>15
------------------------------------------------------------------------------
LEMMA PartedNow == DataInv => Parted(buffer, Parting)
<1> SUFFICES ASSUME DataInv PROVE Parted(buffer, Parting)
  OBVIOUS
<1>1. Parting = find_next_pri
  BY DEF Parting, find_next_pri
<1> QED BY <1>1, PriorityPrefix DEF DataInv, DataType, Parted

LEMMA PartedNext == DataInv' => Parted(buffer', Parting')
<1>1. DataInv' => Parted(buffer, Parting)'
  BY PartedNow, PTL
<1> QED BY <1>1 DEF Parted

(* The steps of the pool, or a stutter. *)
QueueStep == [Q!Next]_<<SubSeq(buffer, 1, Parting),
                        SubSeq(buffer, Parting + 1, Len(buffer)), ret>>

LEMMA QueueKept == buffer' = buffer /\ ret' = ret => QueueStep
  BY DEF QueueStep, Parting

LEMMA QueueStepIs ==
  ASSUME LockInv, DataInv, DataInv', [Next]_vars
  PROVE  QueueStep
<1>1. /\ buffer \in Seq(Messages) /\ Parted(buffer, Parting)
      /\ buffer' \in Seq(Messages) /\ Parted(buffer', Parting')
  BY PartedNow, PartedNext DEF DataInv, DataType
<1>2. ASSUME NEW u \in Users, SendInsert(u) PROVE QueueStep
  <2>1. /\ pc[u] = "insert" /\ ret' = ret
        /\ buffer' = InsertAt(buffer, (IF Message(u).pri = 1 THEN next_pri ELSE last) + 1,
                              Message(u))
    BY <1>2 DEF SendInsert, Goto
  <2>2. Len(buffer) < CAPACITY /\ Len(buffer) \in Nat /\ CAPACITY \in Nat
    BY <2>1, LenOfBuffer, NumbersAssumption DEF DataInv, Slots, BufferBounds
  <2>3. PICK m \in Messages : m = Message(u)
    <3>1. u \in Threads /\ u # Reader /\ (u \in RegUsers <=> u \notin PriUsers)
      BY ThreadsAssumption DEF Threads, Users
    <3>2. args.pri \in 0..MaxSend /\ args.reg \in 0..MaxSend
      BY DEF DataInv, DataType
    <3>3. Count(u) \in 0..MaxSend
      BY <3>1, <3>2 DEF Count, Users
    <3>4. i[u] < Count(u) /\ i[u] \in Nat
      BY <2>1, <3>1 DEF DataInv, DataType, Passes
    <3>5. i[u] \in 0..MaxSend
      BY <3>3, <3>4, NumbersAssumption
    <3>6. Message(u) \in Messages
      BY <3>5 DEF Message, Messages
    <3> QED BY <3>6
  <2>4. (IF m.pri = 1 THEN next_pri ELSE last) = IF m.pri = 1 THEN Parting ELSE Len(buffer)
    <3>1. m.pri = 1 <=> u \in PriUsers
      BY <2>3 DEF Message
    <3>2. CASE u \in PriUsers
      <4>1. /\ next_pri <= Len(buffer) /\ next_pri \in Nat
            /\ \A k \in 1..Len(buffer) : buffer[k].pri = 1 <=> k <= next_pri
        BY <2>1, <3>2 DEF DataInv, DataType, Found
      <4>2. PICK n : n = Parting
        OBVIOUS
      <4>3. n \in 0..Len(buffer) /\ \A k \in 1..Len(buffer) : buffer[k].pri = 1 <=> k <= n
        BY <1>1, <4>2 DEF Parted
      <4>4. ASSUME n < next_pri PROVE FALSE
        <5>1. next_pri \in 1..Len(buffer)
          BY <2>2, <4>1, <4>3, <4>4
        <5> QED BY <2>2, <4>1, <4>3, <4>4, <5>1
      <4>5. ASSUME next_pri < n PROVE FALSE
        <5>1. n \in 1..Len(buffer)
          BY <2>2, <4>1, <4>3, <4>5
        <5> QED BY <2>2, <4>1, <4>3, <4>5, <5>1
      <4> QED BY <2>2, <3>1, <3>2, <4>1, <4>2, <4>3, <4>4, <4>5
    <3>3. CASE u \notin PriUsers
      BY <2>1, <3>1, <3>3 DEF DataInv, Found
    <3> QED BY <3>2, <3>3
  <2>5. buffer' = InsertAt(buffer, (IF m.pri = 1 THEN Parting ELSE Len(buffer)) + 1, m)
    BY <2>1, <2>3, <2>4
  <2>6. Puts(m, buffer, Parting, buffer', Parting')
    <3>1. PICK b, n, c, n2 : b = buffer /\ n = Parting /\ c = buffer' /\ n2 = Parting'
      OBVIOUS
    <3>2. /\ b \in Seq(Messages) /\ Parted(b, n) /\ Parted(c, n2)
          /\ c = InsertAt(b, (IF m.pri = 1 THEN n ELSE Len(b)) + 1, m)
      BY <1>1, <2>5, <3>1
    <3>3. Puts(m, b, n, c, n2)
      BY <3>2, InsertPuts
    <3> QED BY <3>1, <3>3
  <2>7. Len(PriorityPart(buffer, Parting)) + Len(RegularPart(buffer, Parting)) < CAPACITY
    <3>1. Parting \in 0..Len(buffer)
      BY <1>1 DEF Parted
    <3>2. /\ Len(PriorityPart(buffer, Parting)) = Parting
          /\ Len(RegularPart(buffer, Parting)) = Len(buffer) - Parting
      BY <1>1, <3>1, QueuesOf, Zenon DEF Halves
    <3> QED BY <2>2, <3>1, <3>2
  <2>8. Q!Put(m)
    BY <2>1, <2>6, <2>7 DEF Puts, Q!Put, PriorityPart, RegularPart
  <2> QED BY <2>8 DEF QueueStep, Q!Next
<1>3. ASSUME ReadPop PROVE QueueStep
  <2>1. ret' = Head(buffer) /\ buffer' = Tail(buffer) /\ buffer # <<>>
    BY <1>3 DEF ReadPop, Goto, DataInv, Slots, BufferBounds
  <2>2. IF Parting = 0
        THEN /\ PriorityPart(buffer, Parting) = <<>> /\ RegularPart(buffer, Parting) # <<>>
             /\ ret' = Head(RegularPart(buffer, Parting))
             /\ PriorityPart(buffer', Parting') = <<>>
             /\ RegularPart(buffer', Parting') = Tail(RegularPart(buffer, Parting))
        ELSE /\ PriorityPart(buffer, Parting) # <<>> /\ ret' = Head(PriorityPart(buffer, Parting))
             /\ PriorityPart(buffer', Parting') = Tail(PriorityPart(buffer, Parting))
             /\ RegularPart(buffer', Parting') = RegularPart(buffer, Parting)
    BY <1>1, <2>1, PopTakes
  <2>3. Q!TakePriority \/ Q!TakeRegular
    BY <2>2 DEF Q!TakePriority, Q!TakeRegular, PriorityPart, RegularPart
  <2> QED BY <2>3 DEF QueueStep, Q!Next
<1>4. ASSUME NEW t, Synchronise(t) PROVE buffer' = buffer /\ ret' = ret
  BY <1>4 DEF Synchronise, Enter, Unlock, Block, Reenter, bufferVars
<1>5. ASSUME NEW u \in Users, send_msg(u), ~ SendInsert(u) PROVE buffer' = buffer /\ ret' = ret
  BY <1>5 DEF send_msg, SendTest, TestAndWait, SendFind, SendSignal, TestAndSignal, SendLeave,
              bufferVars
<1>6. ASSUME read_msg, ~ ReadPop PROVE buffer' = buffer /\ ret' = ret
  BY <1>6 DEF read_msg, ReadTest, TestAndWait, ReadSignal, TestAndSignal, ReadLeave, ReadCount,
              bufferVars
<1>7. ASSUME UNCHANGED vars PROVE buffer' = buffer /\ ret' = ret
  BY <1>7 DEF vars
<1>8. ASSUME NEW u \in Users, User(u) PROVE QueueStep
  BY <1>2, <1>4, <1>5, <1>8, QueueKept DEF User
<1>9. ASSUME ReaderThread PROVE QueueStep
  BY <1>3, <1>4, <1>6, <1>9, QueueKept DEF ReaderThread
<1> QED BY <1>7, <1>8, <1>9, QueueKept DEF Next

LEMMA QueueInit == Init => Q!Init
<1> SUFFICES ASSUME Init PROVE Q!Init
  OBVIOUS
<1>1. buffer = <<>> /\ Len(buffer) = 0 /\ ret = NoMessage
  BY EmptySeq DEF Init
<1>2. Parted(buffer, Parting)
  BY DataInit, PartedNow
<1>3. Parting = 0
  BY <1>1, <1>2 DEF Parted
<1>4. SubSeq(buffer, 1, 0) = <<>> /\ SubSeq(buffer, 1, Len(buffer)) = <<>>
  BY <1>1, SubSeqEmpty
<1> QED BY <1>1, <1>3, <1>4 DEF Q!Init

(* The monitor and its one list are a bounded pool of two FIFO queues, for *)
(* any clients and any capacity: priority messages first, each kind in the *)
(* order of sending, none lost or doubled (chat.cpp:34-101).               *)
THEOREM ChatImplements == Spec => ImplementsPriorityQueue
<1>1. (LockInv /\ DataInv) /\ (LockInv /\ DataInv)' /\ [Next]_vars =>
        [Q!Next]_<<SubSeq(buffer, 1, Parting), SubSeq(buffer, Parting + 1, Len(buffer)), ret>>
  BY QueueStepIs DEF QueueStep
<1> QED BY <1>1, QueueInit, Invariants, PTL DEF Spec, ImplementsPriorityQueue, Q!Spec, Q!vars
==============================================================================
