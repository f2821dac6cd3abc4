---------------------------- MODULE ChattingProofs -----------------------------
(***************************************************************************)
(* Theorems about Chatting for a ring of any size, any numbers of messages *)
(* and any number of runs, killed or not.                                  *)
(***************************************************************************)
EXTENDS Chatting, RingProofs

Queues == Rings(Nat)

Typed ==
  /\ queue \in Queues
  /\ mutex \in {0, 1} /\ empty \in Nat /\ full \in Nat
  /\ i \in [Processes -> Nat]
  /\ pc \in [Processes -> SendLocations \cup ReadLocations]
  /\ \A p \in Senders : pc[p] \in SendLocations
  /\ pc["reader"] \in ReadLocations
  /\ run \in 0..MaxRuns /\ killed \in BOOLEAN

(* The mutex is not given back twice because only who is inside gives it.  *)
LockInv == Typed /\ MutualExclusion

LEMMA LockInit == Init => LockInv
<1> SUFFICES ASSUME Init PROVE LockInv
  OBVIOUS
<1>1. NewQueue \in Queues
  BY NewRing, ChattingAssumption DEF Queues
<1>2. \A p \in Processes : pc[p] = "off"
  BY DEF Init
<1>3. /\ i \in [Processes -> Nat]
      /\ pc \in [Processes -> SendLocations \cup ReadLocations]
  BY DEF Init, SendLocations
<1>4. Typed
  <2>1. \A p \in Senders : pc[p] \in SendLocations
    BY <1>2 DEF Processes, SendLocations
  <2>2. pc["reader"] \in ReadLocations
    BY <1>2 DEF Processes, SendLocations, ReadLocations
  <2>3. run \in 0..MaxRuns
    BY ChattingAssumption DEF Init
  <2> QED BY <1>1, <1>3, <2>1, <2>2, <2>3 DEF Init, Typed
<1> QED BY <1>2, <1>4 DEF LockInv, MutualExclusion, Inside

(* The operations on the ring keep it a queue; only Counted changes size. *)
LEMMA RingTyped ==
  ASSUME queue \in Queues
  PROVE  /\ queue_init(queue) \in Queues /\ queue_init(queue).size = 0
         /\ ReadSlot(queue) \in Queues /\ ReadSlot(queue).size = queue.size
         /\ \A d \in Int : Counted(queue, d) \in Queues /\ Counted(queue, d).size = queue.size + d
         /\ \A m \in [pri : {0, 1}, n : Nat] :
              SendSlot(queue, m) \in Queues /\ SendSlot(queue, m).size = queue.size
  BY RingOperations, ChattingAssumption DEF Queues

(* A process goes from one of its labels to another one. *)
LEMMA MovesTyped ==
  ASSUME Typed, NEW p \in Processes, NEW from, NEW to, Goto(p, from, to),
         p \in Senders => to \in SendLocations,
         p = "reader" => to \in ReadLocations
  PROVE  /\ pc' \in [Processes -> SendLocations \cup ReadLocations]
         /\ \A q \in Senders : pc'[q] \in SendLocations
         /\ pc'["reader"] \in ReadLocations
         /\ pc'[p] = to /\ \A q \in Processes : q # p => pc'[q] = pc[q]
<1>1. pc' = [pc EXCEPT ![p] = to] /\ to \in SendLocations \cup ReadLocations
  BY DEF Goto, Processes
<1>2. pc'[p] = to /\ \A q \in Processes : q # p => pc'[q] = pc[q]
  BY <1>1 DEF Typed
<1>3. "reader" \in Processes /\ Senders \subseteq Processes
  BY DEF Processes
<1> QED BY <1>1, <1>2, <1>3 DEF Typed

LEMMA TypeStep ==
  ASSUME Typed, mutex = 1 => \A p \in Processes : pc[p] # "post_mutex", [Next]_vars
  PROVE  Typed'
<1>1. CASE Start
  <2>1. \A p \in Processes : pc'[p] = First(p)
    BY <1>1 DEF Start
  <2>2. pc' \in [Processes -> SendLocations \cup ReadLocations]
    BY <1>1 DEF Start, First, SendLocations, ReadLocations
  <2>3. \A p \in Senders : pc'[p] \in SendLocations
    BY <2>1 DEF First, Processes, Senders, SendLocations
  <2>4. pc'["reader"] \in ReadLocations
    BY <2>1 DEF First, Processes, ReadLocations
  <2>5. queue' \in Queues
    BY <1>1, RingTyped DEF Start, Typed
  <2>6. mutex' \in {0, 1} /\ empty' \in Nat /\ full' \in Nat
    BY <1>1, ChattingAssumption DEF Start, semaphores, Typed
  <2>7. i' \in [Processes -> Nat] /\ run' \in 0..MaxRuns /\ killed' \in BOOLEAN
    BY <1>1, ChattingAssumption DEF Start, Typed
  <2> QED BY <2>2, <2>3, <2>4, <2>5, <2>6, <2>7 DEF Typed
<1>2. CASE Kill
  BY <1>2 DEF Kill, Typed, semaphores, Processes, Senders, SendLocations, ReadLocations
<1>3. ASSUME NEW p \in Processes, WaitMutex(p) PROVE Typed'
  <2>1. /\ pc' \in [Processes -> SendLocations \cup ReadLocations]
        /\ \A q \in Senders : pc'[q] \in SendLocations
        /\ pc'["reader"] \in ReadLocations
    BY <1>3, MovesTyped DEF WaitMutex, Senders, SendLocations, ReadLocations
  <2> QED BY <1>3, <2>1 DEF WaitMutex, Goto, sem_wait, Typed
<1>4. ASSUME NEW p \in Senders, WaitEmpty(p) PROVE Typed'
  <2>1. /\ pc' \in [Processes -> SendLocations \cup ReadLocations]
        /\ \A q \in Senders : pc'[q] \in SendLocations
        /\ pc'["reader"] \in ReadLocations
    BY <1>4, MovesTyped DEF WaitEmpty, Senders, Processes, SendLocations, ReadLocations
  <2> QED BY <1>4, <2>1 DEF WaitEmpty, Goto, sem_wait, Typed
<1>5. CASE WaitFull
  <2>1. /\ pc' \in [Processes -> SendLocations \cup ReadLocations]
        /\ \A q \in Senders : pc'[q] \in SendLocations
        /\ pc'["reader"] \in ReadLocations
    BY <1>5, MovesTyped DEF WaitFull, Senders, Processes, SendLocations, ReadLocations
  <2> QED BY <1>5, <2>1 DEF WaitFull, Goto, sem_wait, Typed
<1>6. ASSUME NEW p \in Processes, Slot(p) PROVE Typed'
  <2>1. /\ pc' \in [Processes -> SendLocations \cup ReadLocations]
        /\ \A q \in Senders : pc'[q] \in SendLocations
        /\ pc'["reader"] \in ReadLocations
    BY <1>6, MovesTyped DEF Slot, Senders, SendLocations, ReadLocations
  <2>2. Message(p) \in [pri : {0, 1}, n : Nat]
    BY DEF Message, Typed
  <2>3. queue' \in Queues
    BY <1>6, <2>2, RingTyped DEF Slot, Typed
  <2> QED BY <1>6, <2>1, <2>3 DEF Slot, Goto, semaphores, Typed
<1>7. ASSUME NEW p \in Processes, Count(p) PROVE Typed'
  <2>1. /\ pc' \in [Processes -> SendLocations \cup ReadLocations]
        /\ \A q \in Senders : pc'[q] \in SendLocations
        /\ pc'["reader"] \in ReadLocations
    BY <1>7, MovesTyped DEF Count, Senders, SendLocations, ReadLocations
  <2>2. queue' \in Queues
    BY <1>7, RingTyped DEF Count, Typed
  <2> QED BY <1>7, <2>1, <2>2 DEF Count, Goto, semaphores, Typed
<1>8. ASSUME NEW p \in Processes, Post(p) PROVE Typed'
  <2>1. /\ pc' \in [Processes -> SendLocations \cup ReadLocations]
        /\ \A q \in Senders : pc'[q] \in SendLocations
        /\ pc'["reader"] \in ReadLocations
    BY <1>8, MovesTyped DEF Post, Senders, SendLocations, ReadLocations
  <2> QED BY <1>8, <2>1 DEF Post, Goto, sem_post, Typed
<1>9. ASSUME NEW p \in Processes, PostMutex(p) PROVE Typed'
  <2>1. /\ pc' \in [Processes -> SendLocations \cup ReadLocations]
        /\ \A q \in Senders : pc'[q] \in SendLocations
        /\ pc'["reader"] \in ReadLocations
    BY <1>9, MovesTyped DEF PostMutex, Again, First, Senders, SendLocations, ReadLocations
  <2>2. mutex' \in {0, 1}
    BY <1>9 DEF PostMutex, Goto, sem_post, Typed
  <2>3. i' \in [Processes -> Nat]
    BY <1>9 DEF PostMutex, Typed
  <2> QED BY <1>9, <2>1, <2>2, <2>3 DEF PostMutex, Goto, Typed
<1>10. CASE UNCHANGED vars
  BY <1>10 DEF vars, semaphores, Typed
<1>11. Senders \subseteq Processes /\ "reader" \in Processes
  BY DEF Processes
<1> QED
  BY <1>1, <1>2, <1>3, <1>4, <1>5, <1>6, <1>7, <1>8, <1>9, <1>10, <1>11
     DEF Next, Work, Sender, ReaderStep, Step

(* A step that takes the mutex, gives it back, or moves within the same    *)
(* side of it.                                                             *)
LEMMA LockMoves ==
  ASSUME LockInv, NEW p \in Processes, NEW to,
         pc' = [pc EXCEPT ![p] = to],
         \/ pc[p] \notin Inside /\ to \in Inside /\ mutex = 1 /\ mutex' = 0
         \/ pc[p] \in Inside /\ to \notin Inside
         \/ (pc[p] \in Inside <=> to \in Inside) /\ mutex' = mutex
  PROVE  MutualExclusion'
<1>1. pc'[p] = to /\ \A q \in Processes : q # p => pc'[q] = pc[q]
  BY DEF LockInv, Typed
<1> QED BY <1>1 DEF LockInv, MutualExclusion

LEMMA LockStep == LockInv /\ [Next]_vars => LockInv'
<1> SUFFICES ASSUME LockInv, [Next]_vars PROVE LockInv'
  OBVIOUS
<1>1. Typed'
  BY TypeStep DEF LockInv, MutualExclusion, Inside
<1>2. ASSUME Start PROVE MutualExclusion'
  <2>1. \A p \in Processes : pc'[p] = First(p)
    BY <1>2 DEF Start
  <2> QED BY <2>1 DEF First, MutualExclusion, Inside
<1>3. ASSUME Kill PROVE MutualExclusion'
  <2>1. \A p \in Processes : pc'[p] = "off"
    BY <1>3 DEF Kill
  <2> QED BY <2>1 DEF MutualExclusion, Inside
<1>4. ASSUME NEW p \in Processes, WaitMutex(p) PROVE MutualExclusion'
  <2> DEFINE to == IF p = "reader" THEN "slot" ELSE "wait_empty"
  <2>1. /\ pc' = [pc EXCEPT ![p] = to]
        /\ pc[p] \notin Inside /\ to \in Inside
    BY <1>4 DEF WaitMutex, Goto, Inside
  <2>2. mutex = 1 /\ mutex' = 0
    BY <1>4 DEF WaitMutex, sem_wait, LockInv, Typed
  <2> QED BY <2>1, <2>2, LockMoves
<1>5. ASSUME NEW p \in Processes, WaitEmpty(p) \/ Slot(p) \/ Count(p) \/ Post(p)
      PROVE  MutualExclusion'
  <2>1. PICK to \in Inside : pc' = [pc EXCEPT ![p] = to]
    BY <1>5 DEF WaitEmpty, Slot, Count, Post, Goto, Inside
  <2>2. pc[p] \in Inside /\ mutex' = mutex
    BY <1>5 DEF WaitEmpty, Slot, Count, Post, Goto, semaphores, Inside
  <2> QED BY <2>1, <2>2, LockMoves
<1>6. ASSUME WaitFull PROVE MutualExclusion'
  <2>1. /\ pc["reader"] \notin Inside /\ "wait_mutex" \notin Inside /\ mutex' = mutex
        /\ pc' = [pc EXCEPT !["reader"] = "wait_mutex"] /\ "reader" \in Processes
    BY <1>6 DEF WaitFull, Goto, Inside, Processes
  <2> QED BY <2>1, LockMoves
<1>7. ASSUME NEW p \in Processes, PostMutex(p) PROVE MutualExclusion'
  <2> DEFINE to == Again(p, IF p = "reader" THEN READS ELSE PASSES)
  <2>1. /\ pc' = [pc EXCEPT ![p] = to]
        /\ pc[p] \in Inside /\ to \notin Inside
    BY <1>7 DEF PostMutex, Goto, Again, First, Inside
  <2> QED BY <2>1, LockMoves
<1>8. ASSUME UNCHANGED vars PROVE MutualExclusion'
  BY <1>8 DEF vars, semaphores, LockInv, MutualExclusion
<1>9. Senders \subseteq Processes /\ "reader" \in Processes
  BY DEF Processes
<1>10. MutualExclusion'
  BY <1>2, <1>3, <1>4, <1>5, <1>6, <1>7, <1>8, <1>9
     DEF Next, Work, Sender, ReaderStep, Step
<1> QED BY <1>1, <1>10 DEF LockInv

(* At most one process has the mutex, in every run (chatting.c:96-186).    *)
THEOREM MutualExclusionHolds == Spec => []MutualExclusion
<1>1. LockInv => MutualExclusion
  BY DEF LockInv
<1> QED BY <1>1, LockInit, LockStep, PTL DEF Spec
------------------------------------------------------------------------------
(* What each process has still to do, and the places taken from empty in   *)
(* the first run.                                                          *)
Busy == {"slot", "count", "post", "post_mutex"}
Passes ==
  \A p \in Senders : i[p] <= PASSES /\ (pc[p] # "off" => i[p] < PASSES)
Room ==
  run = 1 /\ ~ Over => i["A"] + i["B"] + At(Busy) + empty >= BUFFER_SIZE

PlacesInv == SemaphoresMatchQueue /\ Passes /\ Room

LEMMA Sums ==
  /\ \A labels : At(labels) = One(pc["A"], labels) + One(pc["B"], labels)
  /\ \A labels : ReaderAt(labels) = One(pc["reader"], labels)
  /\ \A labels : At(labels)' = One(pc'["A"], labels) + One(pc'["B"], labels)
  /\ \A labels : ReaderAt(labels)' = One(pc'["reader"], labels)
<1>1. \A labels : At(labels) = One(pc["A"], labels) + One(pc["B"], labels)
  BY UsersAt DEF At, Senders
<1>2. \A labels : At(labels)' = One(pc'["A"], labels) + One(pc'["B"], labels)
  <2> TAKE labels
  <2>1. Cardinality({p \in Senders : pc'[p] \in labels})
          = One(pc'["A"], labels) + One(pc'["B"], labels)
    BY UsersAt DEF Senders
  <2> QED BY <2>1 DEF At
<1> QED BY <1>1, <1>2 DEF ReaderAt, One

(* Where a process answers for a place that is taken, or free.             *)
TakenAt(p) == IF p = "reader" THEN {"wait_mutex", "slot", "count"} ELSE {"post"}
FreeAt(p) == IF p = "reader" THEN {"post"} ELSE {"slot", "count"}

(* The sums move with the process that makes a step, and nothing else. *)
LEMMA Shift ==
  ASSUME Typed, NEW p \in Processes, NEW to, pc' = [pc EXCEPT ![p] = to],
         full' \in Nat, empty' \in Nat
  PROVE  /\ Taken \in Nat /\ Free \in Nat /\ At(Busy) \in Nat
         /\ Taken' = Taken + (full' - full) + One(to, TakenAt(p)) - One(pc[p], TakenAt(p))
         /\ Free' = Free + (empty' - empty) + One(to, FreeAt(p)) - One(pc[p], FreeAt(p))
         /\ At(Busy)' = IF p = "reader" THEN At(Busy)
                        ELSE At(Busy) + One(to, Busy) - One(pc[p], Busy)
<1>1. /\ "A" \in Processes /\ "B" \in Processes /\ "reader" \in Processes
      /\ p \in {"A", "B", "reader"}
  BY DEF Processes, Senders
<1>2. pc'[p] = to /\ \A q \in Processes : q # p => pc'[q] = pc[q]
  BY DEF Typed
<1>3. full \in Nat /\ empty \in Nat
  BY DEF Typed
<1>4. /\ Taken = full + (One(pc["A"], {"post"}) + One(pc["B"], {"post"}))
                  + One(pc["reader"], {"wait_mutex", "slot", "count"})
      /\ Taken' = full' + (One(pc'["A"], {"post"}) + One(pc'["B"], {"post"}))
                  + One(pc'["reader"], {"wait_mutex", "slot", "count"})
      /\ Free = empty + (One(pc["A"], {"slot", "count"}) + One(pc["B"], {"slot", "count"}))
                 + One(pc["reader"], {"post"})
      /\ Free' = empty' + (One(pc'["A"], {"slot", "count"}) + One(pc'["B"], {"slot", "count"}))
                 + One(pc'["reader"], {"post"})
  BY Sums DEF Taken, Free
<1>5. /\ At(Busy) = One(pc["A"], Busy) + One(pc["B"], Busy)
      /\ At(Busy)' = One(pc'["A"], Busy) + One(pc'["B"], Busy)
  BY Sums
<1>6. \A q \in {"A", "B", "reader"} :
        /\ One(pc[q], {"post"}) \in {0, 1} /\ One(pc[q], {"slot", "count"}) \in {0, 1}
        /\ One(pc[q], Busy) \in {0, 1}
        /\ One(pc[q], {"wait_mutex", "slot", "count"}) \in {0, 1}
  BY OneIsNat
<1>7. Taken \in Nat /\ Free \in Nat /\ At(Busy) \in Nat
  BY <1>3, <1>4, <1>5, <1>6
<1>8. CASE p = "A"
  <2>1. pc'["A"] = to /\ pc'["B"] = pc["B"] /\ pc'["reader"] = pc["reader"]
    BY <1>1, <1>2, <1>8
  <2>2. p # "reader" /\ TakenAt(p) = {"post"} /\ FreeAt(p) = {"slot", "count"}
    BY <1>8 DEF TakenAt, FreeAt
  <2>3. /\ One(to, {"post"}) \in {0, 1} /\ One(to, {"slot", "count"}) \in {0, 1}
        /\ One(to, Busy) \in {0, 1}
    BY OneIsNat
  <2>4. Taken' = Taken + (full' - full) + One(to, {"post"}) - One(pc[p], {"post"})
    BY <1>3, <1>4, <1>6, <1>8, <2>1, <2>3
  <2>5. Free' = Free + (empty' - empty) + One(to, {"slot", "count"})
                 - One(pc[p], {"slot", "count"})
    BY <1>3, <1>4, <1>6, <1>8, <2>1, <2>3
  <2>6. At(Busy)' = At(Busy) + One(to, Busy) - One(pc[p], Busy)
    BY <1>5, <1>6, <1>8, <2>1, <2>3
  <2> QED BY <1>7, <2>2, <2>4, <2>5, <2>6
<1>9. CASE p = "B"
  <2>1. pc'["B"] = to /\ pc'["A"] = pc["A"] /\ pc'["reader"] = pc["reader"]
    BY <1>1, <1>2, <1>9
  <2>2. p # "reader" /\ TakenAt(p) = {"post"} /\ FreeAt(p) = {"slot", "count"}
    BY <1>9 DEF TakenAt, FreeAt
  <2>3. /\ One(to, {"post"}) \in {0, 1} /\ One(to, {"slot", "count"}) \in {0, 1}
        /\ One(to, Busy) \in {0, 1}
    BY OneIsNat
  <2>4. Taken' = Taken + (full' - full) + One(to, {"post"}) - One(pc[p], {"post"})
    BY <1>3, <1>4, <1>6, <1>9, <2>1, <2>3
  <2>5. Free' = Free + (empty' - empty) + One(to, {"slot", "count"})
                 - One(pc[p], {"slot", "count"})
    BY <1>3, <1>4, <1>6, <1>9, <2>1, <2>3
  <2>6. At(Busy)' = At(Busy) + One(to, Busy) - One(pc[p], Busy)
    BY <1>5, <1>6, <1>9, <2>1, <2>3
  <2> QED BY <1>7, <2>2, <2>4, <2>5, <2>6
<1>10. CASE p = "reader"
  <2>1. pc'["reader"] = to /\ pc'["A"] = pc["A"] /\ pc'["B"] = pc["B"]
    BY <1>1, <1>2, <1>10
  <2> QED BY <1>3, <1>4, <1>5, <1>10, <2>1, OneIsNat DEF TakenAt, FreeAt
<1> QED BY <1>1, <1>8, <1>9, <1>10

(* Where First and Kill put the processes, only the semaphores count. *)
LEMMA OffSums ==
  /\ Over => Taken = full + 0 + 0 /\ Free = empty + 0 + 0
  /\ (\A p \in Processes : pc'[p] \in {"off", First(p)}) =>
       Taken' = full' + 0 + 0 /\ Free' = empty' + 0 + 0 /\ At(Busy)' = 0
<1>1. Senders \subseteq Processes /\ "reader" \in Processes /\ Senders = {"A", "B"}
  BY DEF Processes, Senders
<1>2. ASSUME Over PROVE Taken = full + 0 + 0 /\ Free = empty + 0 + 0
  BY <1>1, <1>2, Sums DEF Over, Taken, Free, One
<1>3. ASSUME \A p \in Processes : pc'[p] \in {"off", First(p)}
      PROVE  Taken' = full' + 0 + 0 /\ Free' = empty' + 0 + 0 /\ At(Busy)' = 0
  <2>1. pc'["A"] \in {"off", "wait_mutex"} /\ pc'["B"] \in {"off", "wait_mutex"}
    BY <1>1, <1>3 DEF First
  <2>2. pc'["reader"] \in {"off", "wait_full"}
    BY <1>1, <1>3 DEF First
  <2>3. /\ One(pc'["A"], {"post"}) = 0 /\ One(pc'["B"], {"post"}) = 0
        /\ One(pc'["A"], {"slot", "count"}) = 0 /\ One(pc'["B"], {"slot", "count"}) = 0
        /\ One(pc'["A"], Busy) = 0 /\ One(pc'["B"], Busy) = 0
    BY <2>1 DEF One, Busy
  <2>4. /\ One(pc'["reader"], {"post"}) = 0
        /\ One(pc'["reader"], {"wait_mutex", "slot", "count"}) = 0
    BY <2>2 DEF One
  <2> QED BY <2>3, <2>4, Sums DEF Taken, Free
<1> QED BY <1>2, <1>3

LEMMA PlacesInit == Init => PlacesInv
<1> SUFFICES ASSUME Init PROVE PlacesInv
  OBVIOUS
<1>1. Over /\ run # 1 /\ full = 0 /\ empty = 0
  BY DEF Init, Over
<1>2. Taken + Free <= BUFFER_SIZE
  BY <1>1, OffSums, ChattingAssumption
<1>3. Passes
  BY ChattingAssumption DEF Init, Passes, Processes
<1> QED BY <1>1, <1>2, <1>3 DEF PlacesInv, SemaphoresMatchQueue, Room

(* What a step of a process changes in the sums. *)
TakenMove(p, to) == (full' - full) + One(to, TakenAt(p)) - One(pc[p], TakenAt(p))
FreeMove(p, to) == (empty' - empty) + One(to, FreeAt(p)) - One(pc[p], FreeAt(p))
BusyMove(p, to) == IF p = "reader" THEN 0 ELSE One(to, Busy) - One(pc[p], Busy)

LEMMA Moved ==
  ASSUME Typed, NEW p \in Processes, NEW to, pc' = [pc EXCEPT ![p] = to],
         full' \in Nat, empty' \in Nat
  PROVE  /\ Taken \in Nat /\ TakenMove(p, to) \in Int /\ Taken' = Taken + TakenMove(p, to)
         /\ Free \in Nat /\ FreeMove(p, to) \in Int /\ Free' = Free + FreeMove(p, to)
<1>1. /\ One(to, TakenAt(p)) \in {0, 1} /\ One(pc[p], TakenAt(p)) \in {0, 1}
      /\ One(to, FreeAt(p)) \in {0, 1} /\ One(pc[p], FreeAt(p)) \in {0, 1}
  BY OneIsNat
<1>2. full \in Nat /\ empty \in Nat
  BY DEF Typed
<1>3. /\ Taken \in Nat /\ Free \in Nat
      /\ Taken' = Taken + (full' - full) + One(to, TakenAt(p)) - One(pc[p], TakenAt(p))
      /\ Free' = Free + (empty' - empty) + One(to, FreeAt(p)) - One(pc[p], FreeAt(p))
  BY Shift
<1>4. TakenMove(p, to) \in Int /\ Taken' = Taken + TakenMove(p, to)
  BY <1>1, <1>2, <1>3 DEF TakenMove
<1>5. FreeMove(p, to) \in Int /\ Free' = Free + FreeMove(p, to)
  BY <1>1, <1>2, <1>3 DEF FreeMove
<1> QED BY <1>3, <1>4, <1>5

(* A place goes from one account to the other together with the message. *)
LEMMA PlacesMove ==
  ASSUME Typed, PlacesInv, NEW p \in Processes, NEW to,
         pc[p] # "off", pc' = [pc EXCEPT ![p] = to], run' = run,
         full' \in Nat, empty' \in Nat,
         TakenMove(p, to) + FreeMove(p, to) = 0,
         queue'.size = queue.size + TakenMove(p, to)
  PROVE  SemaphoresMatchQueue'
<1> DEFINE taken == TakenMove(p, to)
           free == FreeMove(p, to)
<1>1. /\ Taken \in Nat /\ Free \in Nat /\ taken \in Int /\ free \in Int
      /\ Taken' = Taken + taken /\ Free' = Free + free
  BY Moved
<1> HIDE DEF taken, free
<1>2. ~ Over
  BY DEF Over
<1>3. queue.size \in Int
  BY DEF Typed, Queues, Rings
<1>4. /\ Taken + Free <= BUFFER_SIZE
      /\ run = 1 => Taken = queue.size /\ Free = BUFFER_SIZE - queue.size
  BY <1>2 DEF PlacesInv, SemaphoresMatchQueue
<1>5. taken + free = 0 /\ queue'.size = queue.size + taken
  BY DEF taken, free
<1> QED BY <1>1, <1>3, <1>4, <1>5, ChattingAssumption DEF SemaphoresMatchQueue

(* The passes of a process, and the room of the first run, when a process  *)
(* makes a step before the end of a pass.                                  *)
LEMMA WithinPass ==
  ASSUME Typed, PlacesInv, NEW p \in Processes, NEW to,
         pc[p] # "off", pc' = [pc EXCEPT ![p] = to], run' = run, i' = i,
         full' \in Nat, empty' \in Nat,
         BusyMove(p, to) + (empty' - empty) >= 0
  PROVE  Passes' /\ Room'
<1>1. Passes'
  <2>1. \A q \in Processes : q # p => pc'[q] = pc[q]
    BY DEF Typed
  <2>2. Senders \subseteq Processes
    BY DEF Processes
  <2> QED BY <2>1, <2>2 DEF PlacesInv, Passes
<1>2. /\ At(Busy) \in Nat /\ BusyMove(p, to) \in Int
      /\ At(Busy)' = At(Busy) + BusyMove(p, to)
  <2>1. One(to, Busy) \in {0, 1} /\ One(pc[p], Busy) \in {0, 1}
    BY OneIsNat
  <2>2. /\ At(Busy) \in Nat
        /\ At(Busy)' = IF p = "reader" THEN At(Busy)
                       ELSE At(Busy) + One(to, Busy) - One(pc[p], Busy)
    BY Shift
  <2> QED BY <2>1, <2>2 DEF BusyMove
<1>3. run = 1 => i["A"] + i["B"] + At(Busy) + empty >= BUFFER_SIZE
  BY DEF PlacesInv, Room, Over
<1>4. i["A"] \in Nat /\ i["B"] \in Nat /\ empty \in Nat
  BY DEF Typed, Processes, Senders
<1>5. ASSUME run' = 1
      PROVE  i'["A"] + i'["B"] + At(Busy)' + empty' >= BUFFER_SIZE
  <2>1. i["A"] + i["B"] + At(Busy) + empty >= BUFFER_SIZE
    BY <1>3, <1>5
  <2>2. i' = i /\ empty' \in Nat /\ BusyMove(p, to) + (empty' - empty) >= 0
    OBVIOUS
  <2>3. BUFFER_SIZE \in Nat
    BY ChattingAssumption
  <2> QED BY <1>2, <1>4, <2>1, <2>2, <2>3
<1>6. Room'
  BY <1>5 DEF Room
<1> QED BY <1>1, <1>6

LEMMA StartPlaces == ASSUME Typed, PlacesInv, Start PROVE PlacesInv'
<1>1. /\ \A p \in Processes : pc'[p] \in {"off", First(p)}
      /\ \A p \in Processes : i'[p] = 0
      /\ Over /\ run' = run + 1 /\ queue'.size = 0
  BY RingTyped DEF Start, Typed
<1>2. /\ Taken = full + 0 + 0 /\ Free = empty + 0 + 0
      /\ Taken' = full' + 0 + 0 /\ Free' = empty' + 0 + 0 /\ At(Busy)' = 0
  BY <1>1, OffSums
<1>3. /\ run \in Nat /\ full \in Nat /\ empty \in Nat
      /\ BUFFER_SIZE \in Nat /\ PASSES \in Nat \ {0}
  BY ChattingAssumption DEF Typed
<1>4. CASE run = 0
  <2>1. full' = 0 /\ empty' = BUFFER_SIZE
    BY <1>4 DEF Start
  <2>2. SemaphoresMatchQueue'
    BY <1>1, <1>2, <1>3, <2>1 DEF SemaphoresMatchQueue
  <2>3. i'["A"] = 0 /\ i'["B"] = 0
    BY <1>1 DEF Processes, Senders
  <2>4. i'["A"] + i'["B"] + At(Busy)' + empty' >= BUFFER_SIZE
    BY <1>2, <1>3, <2>1, <2>3
  <2>5. Room'
    BY <2>4 DEF Room
  <2>6. Passes'
    BY <1>1, <1>3 DEF Passes, Processes
  <2> QED BY <2>2, <2>5, <2>6 DEF PlacesInv
<1>5. CASE run # 0
  <2>1. full' = full /\ empty' = empty /\ run' # 1
    BY <1>1, <1>3, <1>5 DEF Start, semaphores
  <2>2. Taken + Free <= BUFFER_SIZE
    BY DEF PlacesInv, SemaphoresMatchQueue
  <2>3. SemaphoresMatchQueue'
    BY <1>2, <2>1, <2>2 DEF SemaphoresMatchQueue
  <2>4. Room'
    BY <2>1 DEF Room
  <2>5. Passes'
    BY <1>1, <1>3 DEF Passes, Processes
  <2> QED BY <2>3, <2>4, <2>5 DEF PlacesInv
<1> QED BY <1>4, <1>5

LEMMA KillPlaces == ASSUME Typed, PlacesInv, Kill PROVE PlacesInv'
<1>1. /\ \A p \in Processes : pc'[p] = "off"
      /\ i' = i /\ full' = full /\ empty' = empty
  BY DEF Kill, semaphores
<1>2. Over'
  BY <1>1 DEF Over
<1>3. Taken' = full + 0 + 0 /\ Free' = empty + 0 + 0
  BY <1>1, OffSums
<1>4. full \in Nat /\ empty \in Nat /\ BUFFER_SIZE \in Nat
  BY ChattingAssumption DEF Typed
<1>5. full <= Taken /\ empty <= Free /\ Taken \in Nat /\ Free \in Nat
  <2>1. \A labels : At(labels) \in Nat /\ ReaderAt(labels) \in Nat
    <3> TAKE labels
    <3>1. /\ One(pc["A"], labels) \in {0, 1} /\ One(pc["B"], labels) \in {0, 1}
          /\ One(pc["reader"], labels) \in {0, 1}
      BY OneIsNat
    <3>2. /\ At(labels) = One(pc["A"], labels) + One(pc["B"], labels)
          /\ ReaderAt(labels) = One(pc["reader"], labels)
      BY Sums
    <3> QED BY <3>1, <3>2
  <2> QED BY <1>4, <2>1 DEF Taken, Free
<1>6. Taken + Free <= BUFFER_SIZE
  BY DEF PlacesInv, SemaphoresMatchQueue
<1>7. SemaphoresMatchQueue'
  BY <1>2, <1>3, <1>4, <1>5, <1>6 DEF SemaphoresMatchQueue
<1>8. Passes' /\ Room'
  BY <1>1, <1>2 DEF PlacesInv, Passes, Room, Processes
<1> QED BY <1>7, <1>8 DEF PlacesInv

(* A step within a pass, as the three moves describe it. *)
LEMMA WithinPassPlaces ==
  ASSUME Typed, PlacesInv, NEW p \in Processes, NEW to,
         pc[p] # "off", pc' = [pc EXCEPT ![p] = to], run' = run, i' = i,
         full' \in Nat, empty' \in Nat,
         TakenMove(p, to) + FreeMove(p, to) = 0,
         queue'.size = queue.size + TakenMove(p, to),
         BusyMove(p, to) + (empty' - empty) >= 0
  PROVE  PlacesInv'
<1>1. SemaphoresMatchQueue'
  BY PlacesMove
<1>2. Passes' /\ Room'
  BY WithinPass
<1> QED BY <1>1, <1>2 DEF PlacesInv

(* The end of a pass: the place stays taken, one message more is counted. *)
LEMMA PostMutexPlaces ==
  ASSUME Typed, PlacesInv, NEW p \in Processes, PostMutex(p)
  PROVE  PlacesInv'
<1> DEFINE to == Again(p, IF p = "reader" THEN READS ELSE PASSES)
<1>1. /\ pc[p] = "post_mutex" /\ pc' = [pc EXCEPT ![p] = to] /\ run' = run
      /\ queue' = queue /\ full' = full /\ empty' = empty
      /\ i' = [i EXCEPT ![p] = i[p] + 1]
  BY DEF PostMutex, Goto
<1>2. /\ to \in {"off", First(p)}
      /\ p \in Senders /\ to # "off" => i[p] + 1 < PASSES
  BY DEF Again, First, Processes, Senders
<1>3. /\ full \in Nat /\ empty \in Nat /\ BUFFER_SIZE \in Nat /\ PASSES \in Nat
      /\ \A q \in Processes : i[q] \in Nat
      /\ i'[p] = i[p] + 1 /\ \A q \in Processes : q # p => i'[q] = i[q]
      /\ pc'[p] = to /\ \A q \in Processes : q # p => pc'[q] = pc[q]
  BY <1>1, ChattingAssumption DEF Typed
<1> HIDE DEF to
<1>4. TakenMove(p, to) = 0 /\ FreeMove(p, to) = 0 /\ queue.size \in Int
  <2>1. /\ One(pc[p], TakenAt(p)) = 0 /\ One(pc[p], FreeAt(p)) = 0
        /\ One(to, TakenAt(p)) = 0 /\ One(to, FreeAt(p)) = 0
    BY <1>1, <1>2 DEF One, TakenAt, FreeAt, First
  <2> QED BY <1>1, <1>3, <2>1 DEF TakenMove, FreeMove, Typed, Queues, Rings
<1>5. SemaphoresMatchQueue'
  <2>1. /\ pc[p] # "off" /\ full' \in Nat /\ empty' \in Nat
        /\ TakenMove(p, to) + FreeMove(p, to) = 0
        /\ queue'.size = queue.size + TakenMove(p, to)
    BY <1>1, <1>3, <1>4
  <2> QED BY <1>1, <2>1, PlacesMove
<1>6. Passes'
  <2>1. Senders \subseteq Processes
    BY DEF Processes
  <2>2. ASSUME NEW q \in Senders
        PROVE  i'[q] <= PASSES /\ (pc'[q] # "off" => i'[q] < PASSES)
    <3>1. i[q] <= PASSES /\ (pc[q] # "off" => i[q] < PASSES) /\ i[q] \in Nat
      BY <1>3, <2>1 DEF PlacesInv, Passes
    <3>2. CASE q = p
      BY <1>1, <1>2, <1>3, <3>1, <3>2
    <3>3. CASE q # p
      BY <1>3, <2>1, <3>1, <3>3
    <3> QED BY <3>2, <3>3
  <2> QED BY <2>2 DEF Passes
<1>7. ASSUME run' = 1
      PROVE  i'["A"] + i'["B"] + At(Busy)' + empty' >= BUFFER_SIZE
  <2>1. i["A"] + i["B"] + At(Busy) + empty >= BUFFER_SIZE
    BY <1>1, <1>7 DEF PlacesInv, Room, Over
  <2>2. One(pc[p], Busy) = 1 /\ One(to, Busy) = 0
    BY <1>1, <1>2 DEF One, Busy, First
  <2>3. /\ At(Busy) \in Nat
        /\ At(Busy)' = IF p = "reader" THEN At(Busy)
                       ELSE At(Busy) + One(to, Busy) - One(pc[p], Busy)
    BY <1>1, <1>3, Shift
  <2>4. /\ "A" \in Processes /\ "B" \in Processes /\ p \in {"A", "B", "reader"}
    BY DEF Processes, Senders
  <2>5. CASE p = "A"
    BY <1>1, <1>3, <2>1, <2>2, <2>3, <2>4, <2>5
  <2>6. CASE p = "B"
    BY <1>1, <1>3, <2>1, <2>2, <2>3, <2>4, <2>6
  <2>7. CASE p = "reader"
    BY <1>1, <1>3, <2>1, <2>3, <2>4, <2>7
  <2> QED BY <2>4, <2>5, <2>6, <2>7
<1>8. Room'
  BY <1>7 DEF Room
<1> QED BY <1>5, <1>6, <1>8 DEF PlacesInv

LEMMA PlacesStep == Typed /\ PlacesInv /\ [Next]_vars => PlacesInv'
<1> SUFFICES ASSUME Typed, PlacesInv, [Next]_vars PROVE PlacesInv'
  OBVIOUS
<1>1. /\ full \in Nat /\ empty \in Nat /\ queue.size \in Int /\ queue \in Queues
      /\ Senders \subseteq Processes /\ "reader" \in Processes /\ "reader" \notin Senders
  BY DEF Typed, Queues, Rings, Processes, Senders
<1> USE DEF Goto, sem_wait, sem_post, semaphores
<1>2. ASSUME NEW p \in Processes, WaitMutex(p) PROVE PlacesInv'
  <2> DEFINE to == IF p = "reader" THEN "slot" ELSE "wait_empty"
  <2>1. /\ pc[p] = "wait_mutex" /\ pc' = [pc EXCEPT ![p] = to] /\ run' = run /\ i' = i
        /\ queue' = queue /\ full' = full /\ empty' = empty
    BY <1>2 DEF WaitMutex
  <2>2. /\ One(to, TakenAt(p)) = One(pc[p], TakenAt(p))
        /\ One(to, FreeAt(p)) = 0 /\ One(pc[p], FreeAt(p)) = 0
        /\ p # "reader" => One(to, Busy) = 0 /\ One(pc[p], Busy) = 0
    BY <2>1 DEF One, TakenAt, FreeAt, Busy
  <2> HIDE DEF to
  <2>3. /\ TakenMove(p, to) = 0 /\ FreeMove(p, to) = 0 /\ BusyMove(p, to) = 0
    BY <1>1, <2>1, <2>2, OneIsNat DEF TakenMove, FreeMove, BusyMove
  <2>4. /\ TakenMove(p, to) + FreeMove(p, to) = 0
        /\ queue'.size = queue.size + TakenMove(p, to)
        /\ BusyMove(p, to) + (empty' - empty) >= 0
        /\ pc[p] # "off" /\ empty' \in Nat /\ full' \in Nat
    BY <1>1, <2>1, <2>3
  <2> QED BY <1>1, <2>1, <2>4, WithinPassPlaces
<1>3. ASSUME NEW p \in Senders, WaitEmpty(p) PROVE PlacesInv'
  <2>1. /\ pc[p] = "wait_empty" /\ pc' = [pc EXCEPT ![p] = "slot"] /\ run' = run /\ i' = i
        /\ queue' = queue /\ full' = full /\ empty' = empty - 1 /\ empty' \in Nat
    BY <1>1, <1>3 DEF WaitEmpty
  <2>2. /\ p # "reader" /\ p \in Processes
        /\ One("slot", TakenAt(p)) = 0 /\ One(pc[p], TakenAt(p)) = 0
        /\ One("slot", FreeAt(p)) = 1 /\ One(pc[p], FreeAt(p)) = 0
        /\ One("slot", Busy) = 1 /\ One(pc[p], Busy) = 0
    BY <1>1, <2>1 DEF One, TakenAt, FreeAt, Busy
  <2>3. /\ TakenMove(p, "slot") = 0 /\ FreeMove(p, "slot") = 0 /\ BusyMove(p, "slot") = 1
    BY <1>1, <2>1, <2>2 DEF TakenMove, FreeMove, BusyMove
  <2>4. /\ TakenMove(p, "slot") + FreeMove(p, "slot") = 0
        /\ queue'.size = queue.size + TakenMove(p, "slot")
        /\ BusyMove(p, "slot") + (empty' - empty) >= 0
        /\ pc[p] # "off" /\ empty' \in Nat /\ full' \in Nat
    BY <1>1, <2>1, <2>2, <2>3
  <2> QED BY <1>1, <2>1, <2>2, <2>4, WithinPassPlaces
<1>4. ASSUME WaitFull PROVE PlacesInv'
  <2>1. /\ pc["reader"] = "wait_full" /\ pc' = [pc EXCEPT !["reader"] = "wait_mutex"]
        /\ run' = run /\ i' = i
        /\ queue' = queue /\ full' = full - 1 /\ full' \in Nat /\ empty' = empty
    BY <1>1, <1>4 DEF WaitFull
  <2>2. /\ One("wait_mutex", TakenAt("reader")) = 1
        /\ One(pc["reader"], TakenAt("reader")) = 0
        /\ One("wait_mutex", FreeAt("reader")) = 0 /\ One(pc["reader"], FreeAt("reader")) = 0
    BY <2>1 DEF One, TakenAt, FreeAt
  <2>3. /\ TakenMove("reader", "wait_mutex") = 0 /\ FreeMove("reader", "wait_mutex") = 0
        /\ BusyMove("reader", "wait_mutex") = 0
    BY <1>1, <2>1, <2>2 DEF TakenMove, FreeMove, BusyMove
  <2>4. /\ TakenMove("reader", "wait_mutex") + FreeMove("reader", "wait_mutex") = 0
        /\ queue'.size = queue.size + TakenMove("reader", "wait_mutex")
        /\ BusyMove("reader", "wait_mutex") + (empty' - empty) >= 0
        /\ pc["reader"] # "off" /\ empty' \in Nat /\ full' \in Nat
    BY <1>1, <2>1, <2>3
  <2> QED BY <1>1, <2>1, <2>4, WithinPassPlaces
<1>5. ASSUME NEW p \in Processes, Slot(p) PROVE PlacesInv'
  <2>1. /\ pc[p] = "slot" /\ pc' = [pc EXCEPT ![p] = "count"] /\ run' = run /\ i' = i
        /\ full' = full /\ empty' = empty
    BY <1>5 DEF Slot
  <2>2. Message(p) \in [pri : {0, 1}, n : Nat]
    BY DEF Message, Typed
  <2>3. queue'.size = queue.size
    BY <1>1, <1>5, <2>2, RingTyped DEF Slot
  <2>4. /\ One("count", TakenAt(p)) = One(pc[p], TakenAt(p))
        /\ One("count", FreeAt(p)) = One(pc[p], FreeAt(p))
        /\ One("count", Busy) = One(pc[p], Busy)
    BY <2>1 DEF One, TakenAt, FreeAt, Busy
  <2>5. /\ TakenMove(p, "count") = 0 /\ FreeMove(p, "count") = 0 /\ BusyMove(p, "count") = 0
    BY <1>1, <2>1, <2>4, OneIsNat DEF TakenMove, FreeMove, BusyMove
  <2>6. /\ TakenMove(p, "count") + FreeMove(p, "count") = 0
        /\ queue'.size = queue.size + TakenMove(p, "count")
        /\ BusyMove(p, "count") + (empty' - empty) >= 0
        /\ pc[p] # "off" /\ empty' \in Nat /\ full' \in Nat
    BY <1>1, <2>1, <2>3, <2>5
  <2> QED BY <1>1, <2>1, <2>6, WithinPassPlaces
<1>6. ASSUME NEW p \in Processes, Count(p) PROVE PlacesInv'
  <2> DEFINE d == IF p = "reader" THEN -1 ELSE 1
  <2>1. /\ pc[p] = "count" /\ pc' = [pc EXCEPT ![p] = "post"] /\ run' = run /\ i' = i
        /\ full' = full /\ empty' = empty
    BY <1>6 DEF Count
  <2>2. queue'.size = queue.size + d /\ d \in Int
    BY <1>1, <1>6, RingTyped DEF Count
  <2>3. /\ One("post", TakenAt(p)) - One(pc[p], TakenAt(p)) = d
        /\ One("post", FreeAt(p)) - One(pc[p], FreeAt(p)) = -d
        /\ One("post", Busy) = One(pc[p], Busy)
    BY <2>1 DEF One, TakenAt, FreeAt, Busy
  <2> HIDE DEF d
  <2>4. TakenMove(p, "post") = d /\ FreeMove(p, "post") = -d /\ BusyMove(p, "post") = 0
    BY <1>1, <2>1, <2>2, <2>3, OneIsNat DEF TakenMove, FreeMove, BusyMove
  <2>5. /\ TakenMove(p, "post") + FreeMove(p, "post") = 0
        /\ queue'.size = queue.size + TakenMove(p, "post")
        /\ BusyMove(p, "post") + (empty' - empty) >= 0
        /\ pc[p] # "off" /\ empty' \in Nat /\ full' \in Nat
    BY <1>1, <2>1, <2>2, <2>4
  <2> QED BY <2>1, <2>5, WithinPassPlaces
<1>7. ASSUME NEW p \in Processes, Post(p) PROVE PlacesInv'
  <2>1. /\ pc[p] = "post" /\ pc' = [pc EXCEPT ![p] = "post_mutex"] /\ run' = run /\ i' = i
        /\ queue' = queue
        /\ full' = IF p = "reader" THEN full ELSE full + 1
        /\ empty' = IF p = "reader" THEN empty + 1 ELSE empty
    BY <1>7 DEF Post
  <2>2. /\ One("post_mutex", TakenAt(p)) = 0 /\ One("post_mutex", FreeAt(p)) = 0
        /\ One(pc[p], TakenAt(p)) = IF p = "reader" THEN 0 ELSE 1
        /\ One(pc[p], FreeAt(p)) = IF p = "reader" THEN 1 ELSE 0
        /\ One("post_mutex", Busy) = 1 /\ One(pc[p], Busy) = 1
    BY <2>1 DEF One, TakenAt, FreeAt, Busy
  <2>3. /\ TakenMove(p, "post_mutex") = 0 /\ FreeMove(p, "post_mutex") = 0
        /\ BusyMove(p, "post_mutex") = 0 /\ empty' - empty >= 0
        /\ empty' \in Nat /\ full' \in Nat
    BY <1>1, <2>1, <2>2 DEF TakenMove, FreeMove, BusyMove
  <2>4. /\ TakenMove(p, "post_mutex") + FreeMove(p, "post_mutex") = 0
        /\ queue'.size = queue.size + TakenMove(p, "post_mutex")
        /\ BusyMove(p, "post_mutex") + (empty' - empty) >= 0 /\ pc[p] # "off"
    BY <1>1, <2>1, <2>3
  <2> QED BY <2>1, <2>3, <2>4, WithinPassPlaces
<1>8. ASSUME NEW p \in Processes, PostMutex(p) PROVE PlacesInv'
  BY <1>8, PostMutexPlaces
<1>9. ASSUME UNCHANGED vars PROVE PlacesInv'
  <2>1. /\ pc' = pc /\ full' = full /\ empty' = empty /\ queue' = queue
        /\ i' = i /\ run' = run
    BY <1>9 DEF vars
  <2>2. \A labels : At(labels)' = At(labels) /\ ReaderAt(labels)' = ReaderAt(labels)
    BY <2>1 DEF At, ReaderAt
  <2> QED BY <2>1, <2>2 DEF PlacesInv, SemaphoresMatchQueue, Taken, Free, Over, Passes, Room
<1> QED
  BY <1>1, <1>2, <1>3, <1>4, <1>5, <1>6, <1>7, <1>8, <1>9, StartPlaces, KillPlaces
     DEF Next, Work, Sender, ReaderStep, Step
------------------------------------------------------------------------------
ChattingInv == LockInv /\ PlacesInv

LEMMA ChattingInvariant == Spec => []ChattingInv
<1>1. Init => ChattingInv
  BY LockInit, PlacesInit DEF ChattingInv
<1>2. ChattingInv /\ [Next]_vars => ChattingInv'
  BY LockStep, PlacesStep DEF ChattingInv, LockInv
<1> QED BY <1>1, <1>2, PTL DEF Spec

(* The semaphores never promise more places than the ring has, and count   *)
(* its messages in the first run (chatting.c:69-186).                      *)
THEOREM SemaphoresHold == Spec => []SemaphoresMatchQueue
<1>1. ChattingInv => SemaphoresMatchQueue
  BY DEF ChattingInv, PlacesInv
<1> QED BY <1>1, ChattingInvariant, PTL

(* Types, with the semaphores and the indices of the ring within bounds.   *)
THEOREM TypeCorrect == Spec => []TypeOK
<1>1. ASSUME ChattingInv PROVE TypeOK
  <2>1. Typed /\ Taken + Free <= BUFFER_SIZE
    BY <1>1 DEF ChattingInv, LockInv, PlacesInv, SemaphoresMatchQueue
  <2>2. \A labels : At(labels) \in Nat /\ ReaderAt(labels) \in Nat
    <3> TAKE labels
    <3>1. /\ One(pc["A"], labels) \in {0, 1} /\ One(pc["B"], labels) \in {0, 1}
          /\ One(pc["reader"], labels) \in {0, 1}
      BY OneIsNat
    <3>2. /\ At(labels) = One(pc["A"], labels) + One(pc["B"], labels)
          /\ ReaderAt(labels) = One(pc["reader"], labels)
      BY Sums
    <3> QED BY <3>1, <3>2
  <2>3. full \in Nat /\ empty \in Nat /\ BUFFER_SIZE \in Nat
    BY <2>1, ChattingAssumption DEF Typed
  <2>4. full <= BUFFER_SIZE /\ empty <= BUFFER_SIZE
    BY <2>1, <2>2, <2>3 DEF Taken, Free
  <2> QED BY <2>1, <2>3, <2>4 DEF TypeOK, Typed, Queues, Rings
<1> QED BY <1>1, ChattingInvariant, PTL

(* A ring with room for all the messages of both users is what the order   *)
(* of the two waits needs: no sender waits for a place while it keeps the  *)
(* reader out (chatting.c:107-152).                                        *)
THEOREM NobodyStuck ==
  ASSUME 2 * PASSES <= BUFFER_SIZE PROVE Spec => []NobodyStuckInside
<1>1. ASSUME ChattingInv, run = 1, NEW p \in Senders, pc[p] = "wait_empty"
      PROVE  empty > 0
  <2>1. /\ "A" \in Processes /\ "B" \in Processes
        /\ p \in {"A", "B"} /\ Senders = {"A", "B"}
    BY DEF Processes, Senders
  <2>2. /\ i["A"] \in Nat /\ i["B"] \in Nat /\ empty \in Nat
        /\ BUFFER_SIZE \in Nat /\ PASSES \in Nat
    BY <1>1, <2>1, ChattingAssumption DEF ChattingInv, LockInv, Typed
  <2>3. i["A"] + i["B"] + At(Busy) + empty >= BUFFER_SIZE
    BY <1>1, <2>1 DEF ChattingInv, PlacesInv, Room, Over
  <2>4. /\ i["A"] <= PASSES /\ i["B"] <= PASSES /\ i[p] < PASSES
    BY <1>1, <2>1 DEF ChattingInv, PlacesInv, Passes
  <2>5. pc["A"] \notin Busy /\ pc["B"] \notin Busy
    <3>1. \A q \in Processes : pc[q] \in Inside => q = p
      BY <1>1, <2>1 DEF ChattingInv, LockInv, MutualExclusion, Inside
    <3> QED BY <1>1, <2>1, <3>1 DEF Busy, Inside
  <2>6. At(Busy) = 0
    BY <2>5, Sums DEF One
  <2> QED BY <2>1, <2>2, <2>3, <2>4, <2>6
<1>2. ChattingInv => NobodyStuckInside
  BY <1>1 DEF NobodyStuckInside
<1> QED BY <1>2, ChattingInvariant, PTL
------------------------------------------------------------------------------
(* In the first run the messages counted or about to be stand from the     *)
(* head to the tail.                                                       *)
Early == run = 1 /\ ~ Over
RingInv ==
  /\ run = 0 => Over
  /\ Early => Spans(queue, Length)

LEMMA LengthIs ==
  /\ Length = queue.size + (One(pc["A"], {"count"}) + One(pc["B"], {"count"}))
              - One(pc["reader"], {"count"})
  /\ Length' = queue'.size + (One(pc'["A"], {"count"}) + One(pc'["B"], {"count"}))
               - One(pc'["reader"], {"count"})
  BY Sums DEF Length

(* A sender at its slot has a place to write to, the reader a message. *)
LEMMA LengthBounds ==
  ASSUME Typed, SemaphoresMatchQueue, Early
  PROVE  /\ Length \in 0..BUFFER_SIZE
         /\ \A p \in Senders : pc[p] = "slot" => Length \in 0..BUFFER_SIZE - 1
         /\ pc["reader"] = "slot" => Length \in 1..BUFFER_SIZE
<1>1. Taken = queue.size /\ Free = BUFFER_SIZE - queue.size
  BY DEF SemaphoresMatchQueue, Early
<1>2. BUFFER_SIZE \in Nat /\ full \in Nat /\ empty \in Nat /\ queue.size \in Int
  BY ChattingAssumption DEF Typed, Queues, Rings
<1> DEFINE a == One(pc["A"], {"count"})
           b == One(pc["B"], {"count"})
           r == One(pc["reader"], {"count"})
           fa == One(pc["A"], {"slot", "count"})
           fb == One(pc["B"], {"slot", "count"})
           tr == One(pc["reader"], {"wait_mutex", "slot", "count"})
           ta == One(pc["A"], {"post"})
           tb == One(pc["B"], {"post"})
           fr == One(pc["reader"], {"post"})
<1>3. a \in {0, 1} /\ b \in {0, 1} /\ r \in {0, 1} /\ fa \in {0, 1} /\ fb \in {0, 1} /\ tr \in {0, 1}
  BY OneIsNat
<1>4. /\ a <= fa /\ b <= fb /\ r <= tr
      /\ pc["A"] = "slot" => a = 0 /\ fa = 1
      /\ pc["B"] = "slot" => b = 0 /\ fb = 1
      /\ pc["reader"] = "slot" => r = 0 /\ tr = 1
  BY DEF One
<1>5. ta \in {0, 1} /\ tb \in {0, 1} /\ fr \in {0, 1}
  BY OneIsNat
<1>6. /\ full + (ta + tb) + tr = queue.size
      /\ empty + (fa + fb) + fr = BUFFER_SIZE - queue.size
      /\ Length = queue.size + (a + b) - r
  BY <1>1, Sums, LengthIs DEF Taken, Free
<1> HIDE DEF a, b, r, fa, fb, tr, ta, tb, fr
<1>7. tr <= queue.size /\ fa + fb <= BUFFER_SIZE - queue.size
  BY <1>2, <1>3, <1>5, <1>6
<1>8. Length \in 0..BUFFER_SIZE
  BY <1>2, <1>3, <1>4, <1>6, <1>7
<1>9. /\ pc["A"] = "slot" => Length \in 0..BUFFER_SIZE - 1
      /\ pc["B"] = "slot" => Length \in 0..BUFFER_SIZE - 1
      /\ pc["reader"] = "slot" => Length \in 1..BUFFER_SIZE
  BY <1>2, <1>3, <1>4, <1>6, <1>7, <1>8
<1> QED BY <1>8, <1>9 DEF Senders

Contents == IF Over \/ run > 1 THEN <<>> ELSE Content(queue, Length)

(* The steps of Deque, or a stutter. *)
DequeStep ==
  \/ \E m \in [pri : {0, 1}, n : 0..PASSES] :
       /\ Len(Contents) < BUFFER_SIZE
       /\ Contents' = IF m.pri = 1 THEN <<m>> \o Contents ELSE Append(Contents, m)
  \/ Contents # <<>> /\ Contents' = Tail(Contents)
  \/ Contents' = <<>>
  \/ Contents' = Contents

(* How the length moves with one process. *)
LEMMA LengthShift ==
  ASSUME Typed, NEW p \in Processes, NEW to, pc' = [pc EXCEPT ![p] = to],
         queue' \in Rings(Nat)
  PROVE  Length' = Length + (queue'.size - queue.size)
                   + IF p = "reader"
                     THEN One(pc[p], {"count"}) - One(to, {"count"})
                     ELSE One(to, {"count"}) - One(pc[p], {"count"})
<1>1. pc'[p] = to /\ \A q \in {"A", "B", "reader"} : q # p => pc'[q] = pc[q]
  BY DEF Typed, Processes, Senders
<1>2. p \in {"A", "B", "reader"} /\ queue.size \in Int /\ queue'.size \in Int
  BY DEF Processes, Senders, Typed, Queues, Rings
<1> DEFINE o(q) == One(pc[q], {"count"})
           oo(q) == One(pc'[q], {"count"})
<1>3. \A q \in {"A", "B", "reader"} : o(q) \in {0, 1} /\ oo(q) \in {0, 1}
  BY OneIsNat
<1>4. \A q \in {"A", "B", "reader"} : q # p => oo(q) = o(q)
  BY <1>1
<1>5. /\ Length = queue.size + (o("A") + o("B")) - o("reader")
      /\ Length' = queue'.size + (oo("A") + oo("B")) - oo("reader")
  BY LengthIs
<1>6. One(to, {"count"}) = oo(p) /\ One(pc[p], {"count"}) = o(p)
  BY <1>1
<1> HIDE DEF o, oo
<1>7. CASE p = "A"
  BY <1>2, <1>3, <1>4, <1>5, <1>6, <1>7
<1>8. CASE p = "B"
  BY <1>2, <1>3, <1>4, <1>5, <1>6, <1>8
<1>9. CASE p = "reader"
  BY <1>2, <1>3, <1>4, <1>5, <1>6, <1>9
<1> QED BY <1>2, <1>7, <1>8, <1>9

(* A step after which the messages are the same, or nobody is left. *)
LEMMA SameMessages ==
  ASSUME RingInv, Early, Length' = Length, run' = run,
         \A n : Content(queue', n) = Content(queue, n) /\ (Spans(queue', n) <=> Spans(queue, n))
  PROVE  RingInv' /\ DequeStep
<1>1. Spans(queue, Length) /\ ~ Over /\ run = 1
  BY DEF RingInv, Early
<1>2. Spans(queue', Length')
  BY <1>1
<1>3. RingInv'
  BY <1>1, <1>2 DEF RingInv
<1>4. Contents' = IF Over' \/ run' > 1 THEN <<>> ELSE Content(queue', Length')
  BY DEF Contents
<1>5. Contents = Content(queue, Length)
  BY <1>1 DEF Contents
<1>6. Contents' = <<>> \/ Contents' = Contents
  BY <1>4, <1>5
<1> QED BY <1>3, <1>6 DEF DequeStep

(* The later runs, and a run that has ended, hold nothing that counts. *)
LEMMA NothingLeft ==
  ASSUME Typed', run' # 0, Over' \/ run' # 1
  PROVE  RingInv' /\ DequeStep
<1>1. run' \in Nat
  BY DEF Typed
<1>2. Over' \/ run' > 1
  BY <1>1
<1>3. Contents' = <<>>
  BY <1>2 DEF Contents
<1> QED BY <1>3 DEF RingInv, Early, DequeStep

LEMMA RingStep ==
  ASSUME Typed, PlacesInv, RingInv, Typed', [Next]_vars
  PROVE  RingInv' /\ DequeStep
<1>1. /\ Senders \subseteq Processes /\ "reader" \in Processes /\ "reader" \notin Senders
      /\ BUFFER_SIZE \in Nat \ {0} /\ queue \in Rings(Nat) /\ queue' \in Rings(Nat)
      /\ queue \in Queues /\ SemaphoresMatchQueue /\ run \in Nat
  BY ChattingAssumption DEF Processes, Senders, Typed, Queues, PlacesInv
<1> USE DEF Goto, semaphores
<1>2. ASSUME Start PROVE RingInv' /\ DequeStep
  <2>1. queue' = queue_init(queue) /\ run' = run + 1 /\ Over
    BY <1>2 DEF Start
  <2>2. Spans(queue', 0) /\ Content(queue', 0) = <<>> /\ queue'.size = 0
    BY <1>1, <2>1, InitEmpty, RingOperations
  <2>3. pc'["A"] # "count" /\ pc'["B"] # "count" /\ pc'["reader"] # "count"
    BY <1>2 DEF Start, First, Processes, Senders
  <2>4. /\ One(pc'["A"], {"count"}) = 0 /\ One(pc'["B"], {"count"}) = 0
        /\ One(pc'["reader"], {"count"}) = 0
    BY <2>3 DEF One
  <2>5. Length' = 0 + (0 + 0) - 0
    BY <2>2, <2>4, LengthIs
  <2>6. Length' = 0
    BY <2>5
  <2>7. Spans(queue', Length') /\ Content(queue', Length') = <<>>
    BY <2>2, <2>6
  <2>8. Contents' = IF Over' \/ run' > 1 THEN <<>> ELSE Content(queue', Length')
    BY DEF Contents
  <2>9. run' # 0
    BY <1>1, <2>1
  <2> QED BY <2>7, <2>8, <2>9 DEF RingInv, DequeStep
<1>3. ASSUME Kill PROVE RingInv' /\ DequeStep
  <2>1. Over' /\ run' = run /\ ~ Over
    BY <1>3 DEF Kill, Over
  <2>2. run' # 0
    BY <2>1 DEF RingInv
  <2> QED BY <2>1, <2>2, NothingLeft
<1>4. ASSUME NEW p \in Processes, NEW to, pc' = [pc EXCEPT ![p] = to], Early, run' = run,
             queue' = queue, pc[p] # "count", to # "count"
      PROVE  RingInv' /\ DequeStep
  <2>1. One(pc[p], {"count"}) = 0 /\ One(to, {"count"}) = 0
    BY <1>4 DEF One
  <2>2. Length' = Length + (queue.size - queue.size) + IF p = "reader" THEN 0 - 0 ELSE 0 - 0
    BY <1>1, <1>4, <2>1, LengthShift
  <2>3. Length \in Int /\ queue.size \in Int
    BY <1>1, <1>4, LengthBounds DEF Rings
  <2>4. Length' = Length
    BY <2>2, <2>3
  <2> QED BY <1>4, <2>4, SameMessages
<1>5. ASSUME NEW p \in Processes, Count(p), Early
      PROVE  RingInv' /\ DequeStep
  <2>1. /\ pc[p] = "count" /\ pc' = [pc EXCEPT ![p] = "post"] /\ run' = run
        /\ queue' = Counted(queue, IF p = "reader" THEN -1 ELSE 1)
    BY <1>5 DEF Count
  <2>2. One(pc[p], {"count"}) = 1 /\ One("post", {"count"}) = 0
    BY <2>1 DEF One
  <2>3. PICK d \in {-1, 1} : d = IF p = "reader" THEN -1 ELSE 1
    OBVIOUS
  <2>4. queue' = Counted(queue, d) /\ queue'.size = queue.size + d
    <3>1. d \in Int
      OBVIOUS
    <3> QED BY <1>1, <2>1, <2>3, <3>1, RingTyped
  <2>5. Length' = Length + (queue'.size - queue.size) + IF p = "reader" THEN 1 - 0 ELSE 0 - 1
    BY <1>1, <2>1, <2>2, LengthShift
  <2>6. Length \in Int /\ queue.size \in Int
    BY <1>1, <1>5, LengthBounds DEF Rings
  <2>7. Length' = Length
    BY <2>3, <2>4, <2>5, <2>6
  <2>8. \A n : Content(queue', n) = Content(queue, n) /\ (Spans(queue', n) <=> Spans(queue, n))
    BY <1>1, <2>4, CountedSame
  <2> QED BY <1>5, <2>1, <2>7, <2>8, SameMessages
<1>6. ASSUME NEW p \in Senders, Slot(p), Early PROVE RingInv' /\ DequeStep
  <2>1. /\ pc[p] = "slot" /\ pc' = [pc EXCEPT ![p] = "count"] /\ run' = run /\ p # "reader"
        /\ queue' = SendSlot(queue, Message(p))
    BY <1>1, <1>6 DEF Slot
  <2>2. PICK m \in Sent(0..PASSES) : m = Message(p)
    <3>1. i[p] <= PASSES /\ i[p] \in Nat
      BY <1>1 DEF Typed, PlacesInv, Passes
    <3>2. i[p] \in 0..PASSES
      BY <3>1, ChattingAssumption
    <3>3. Message(p) \in Sent(0..PASSES)
      BY <3>2 DEF Message, Sent
    <3> QED BY <3>3
  <2>3. m \in Sent(Nat)
    BY DEF Sent
  <2>4. PICK n \in 0..BUFFER_SIZE - 1 : n = Length
    BY <1>1, <1>6, <2>1, LengthBounds
  <2>5. Spans(queue, n)
    BY <1>6, <2>4 DEF RingInv
  <2>6. /\ Spans(queue', n + 1)
        /\ Content(queue', n + 1)
             = IF m.pri = 1 THEN <<m>> \o Content(queue, n) ELSE Append(Content(queue, n), m)
    BY <1>1, <2>1, <2>2, <2>3, <2>5, SendPuts
  <2>7. queue'.size = queue.size /\ queue.size \in Int
    <3>1. SendSlot(queue, m).size = queue.size
      BY <1>1, <2>3, RingTyped, Zenon DEF Sent
    <3> QED BY <1>1, <2>1, <2>2, <3>1 DEF Rings
  <2>8. One(pc[p], {"count"}) = 0 /\ One("count", {"count"}) = 1
    BY <2>1 DEF One
  <2>9. Length' = n + (queue'.size - queue.size) + (1 - 0)
    BY <1>1, <2>1, <2>4, <2>8, LengthShift
  <2>10. Length' = n + 1
    BY <2>7, <2>9
  <2>11. ~ Over' /\ ~ Over /\ run = 1
    BY <1>1, <1>6, <2>1 DEF Over, Typed, Early
  <2>12. Contents = Content(queue, n) /\ Contents' = Content(queue', n + 1)
    <3>1. Contents' = IF Over' \/ run' > 1 THEN <<>> ELSE Content(queue', Length')
      BY DEF Contents
    <3> QED BY <2>1, <2>4, <2>10, <2>11, <3>1 DEF Contents
  <2>13. Len(Contents) < BUFFER_SIZE
    <3>1. Len(Content(queue, n)) = n
      <4>1. n \in 0..BUFFER_SIZE
        BY <1>1
      <4> QED BY <1>1, <4>1, ContentIs
    <3> QED BY <1>1, <2>12, <3>1
  <2>14. RingInv'
    BY <2>1, <2>6, <2>10, <2>11 DEF RingInv
  <2> QED BY <2>6, <2>12, <2>13, <2>14 DEF DequeStep, Sent
<1>7. ASSUME Slot("reader"), Early PROVE RingInv' /\ DequeStep
  <2>1. /\ pc["reader"] = "slot" /\ pc' = [pc EXCEPT !["reader"] = "count"] /\ run' = run
        /\ queue' = ReadSlot(queue)
    BY <1>7 DEF Slot
  <2>2. PICK n \in 1..BUFFER_SIZE : n = Length
    BY <1>1, <1>7, <2>1, LengthBounds
  <2>3. Spans(queue, n)
    BY <1>7, <2>2 DEF RingInv
  <2>4. /\ Spans(queue', n - 1) /\ Content(queue, n) # <<>>
        /\ Content(queue', n - 1) = Tail(Content(queue, n))
    BY <1>1, <2>1, <2>3, ReadTakes
  <2>5. queue'.size = queue.size /\ queue.size \in Int
    BY <1>1, <2>1, RingOperations DEF Rings
  <2>6. One(pc["reader"], {"count"}) = 0 /\ One("count", {"count"}) = 1
    BY <2>1 DEF One
  <2>7. Length' = n + (queue'.size - queue.size) + (0 - 1)
    BY <1>1, <2>1, <2>2, <2>6, LengthShift
  <2>8. Length' = n - 1
    BY <2>5, <2>7
  <2>9. ~ Over' /\ ~ Over /\ run = 1
    BY <1>1, <1>7, <2>1 DEF Over, Typed, Early
  <2>10. Contents = Content(queue, n) /\ Contents' = Content(queue', n - 1)
    <3>1. Contents' = IF Over' \/ run' > 1 THEN <<>> ELSE Content(queue', Length')
      BY DEF Contents
    <3> QED BY <2>1, <2>2, <2>8, <2>9, <3>1 DEF Contents
  <2>11. RingInv'
    BY <2>1, <2>4, <2>8, <2>9 DEF RingInv
  <2> QED BY <2>4, <2>10, <2>11 DEF DequeStep
<1>8. ASSUME UNCHANGED vars PROVE RingInv' /\ DequeStep
  <2>1. queue' = queue /\ pc' = pc /\ run' = run
    BY <1>8 DEF vars
  <2>2. Over' = Over /\ Length' = Length
    BY <2>1 DEF Over, Length, At, ReaderAt
  <2>3. Contents' = Contents
    <3>1. Contents' = IF Over' \/ run' > 1 THEN <<>> ELSE Content(queue', Length')
      BY DEF Contents
    <3> QED BY <2>1, <2>2, <3>1 DEF Contents
  <2>4. RingInv'
    <3>1. RingInv' <=> (run' = 0 => Over') /\ (run' = 1 /\ ~ Over' => Spans(queue', Length'))
      BY DEF RingInv, Early
    <3> QED BY <2>1, <2>2, <3>1 DEF RingInv, Early
  <2> QED BY <2>3, <2>4 DEF DequeStep
<1>9. ASSUME Work PROVE RingInv' /\ DequeStep
  <2>1. \/ \E p \in Processes : Step(p)
        \/ WaitFull
        \/ \E p \in Senders : WaitEmpty(p)
    BY <1>1, <1>9 DEF Work, Sender, ReaderStep
  <2>2. (\E p \in Processes : pc[p] # "off") /\ run' = run
    BY <1>1, <2>1 DEF Step, WaitMutex, Slot, Count, Post, PostMutex, WaitFull, WaitEmpty
  <2>3. ~ Over /\ run' = run /\ run # 0
    BY <2>2 DEF Over, RingInv
  <2>4. CASE run # 1
    BY <2>3, <2>4, NothingLeft
  <2>5. CASE run = 1
    <3>1. Early
      BY <2>3, <2>5 DEF Early
    <3>2. ASSUME NEW p \in Processes, Step(p) PROVE RingInv' /\ DequeStep
      <4>1. CASE WaitMutex(p)
        BY <1>4, <3>1, <4>1 DEF WaitMutex
      <4>2. CASE Post(p)
        BY <1>4, <3>1, <4>2 DEF Post
      <4>3. CASE PostMutex(p)
        BY <1>4, <3>1, <4>3 DEF PostMutex, Again, First
      <4>4. CASE Slot(p)
        BY <1>6, <1>7, <3>1, <4>4 DEF Processes
      <4> QED BY <1>5, <3>1, <3>2, <4>1, <4>2, <4>3, <4>4 DEF Step
    <3>3. CASE WaitFull
      BY <1>1, <1>4, <3>1, <3>3 DEF WaitFull
    <3>4. ASSUME NEW p \in Senders, WaitEmpty(p) PROVE RingInv' /\ DequeStep
      BY <1>1, <1>4, <3>1, <3>4 DEF WaitEmpty
    <3> QED BY <2>1, <3>2, <3>3, <3>4
  <2> QED BY <2>4, <2>5
<1> QED BY <1>2, <1>3, <1>8, <1>9 DEF Next

(* In the first run the ring is a double-ended queue, for a ring of any    *)
(* size: no message is lost, overwritten or read twice when an index wraps *)
(* (chatting.c:41-186).                                                    *)
THEOREM ChattingImplements == Spec => ImplementsDeque
<1>1. Init => RingInv /\ Contents = <<>>
  BY DEF Init, Over, Early, RingInv, Contents
<1>2. ChattingInv /\ ChattingInv' /\ RingInv /\ [Next]_vars => RingInv' /\ DequeStep
  BY RingStep DEF ChattingInv, LockInv
<1>3. Contents = <<>> => D!Init
  BY DEF Contents, D!Init
<1>4. DequeStep => [D!Next]_(IF Over \/ run > 1 THEN <<>> ELSE Content(queue, Length))
  BY DEF DequeStep, Contents, D!Next, D!Push, D!Pop, D!Reset
<1> QED BY <1>1, <1>2, <1>3, <1>4, ChattingInvariant, PTL DEF Spec, ImplementsDeque, D!Spec
==============================================================================
