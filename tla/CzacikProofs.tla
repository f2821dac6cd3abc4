----------------------------- MODULE CzacikProofs ----------------------------
(***************************************************************************)
(* Theorems about Czacik for a ring of any size, any numbers on the        *)
(* command line and any number of runs.  Mutual exclusion holds whatever   *)
(* the runs before left behind; the rest needs a tidy start.               *)
(***************************************************************************)
EXTENDS Czacik, RingProofs

Typed ==
  /\ queue \in Rings(0..MaxSend)
  /\ exist \in BOOLEAN /\ full \in Nat /\ empty \in Nat /\ mutex \in {0, 1}
  /\ \A p \in Senders : args[p] <= MaxSend
  /\ \A p \in Processes : args[p] \in Nat
  /\ i \in [Processes -> Nat]
  /\ pc \in [Processes -> SendLocations \cup ReadLocations]
  /\ \A p \in Senders :
       pc[p] \in SendLocations /\ (pc[p] # "off" => i[p] < args[p])
  /\ pc["reader"] \in ReadLocations
  /\ run \in 0..MaxRuns /\ killed \in BOOLEAN

(* The mutex is not given back twice because only who is inside gives it.  *)
LockInv == Typed /\ MutualExclusion

LEMMA LockInit == Init => LockInv
<1> SUFFICES ASSUME Init PROVE LockInv
  OBVIOUS
<1>1. queue \in Rings(0..MaxSend)
  BY NewRing, CzacikAssumption DEF Init
<1>2. \A p \in Processes : pc[p] = "off" /\ args[p] = 0
  BY DEF Init
<1>3. /\ i \in [Processes -> Nat]
      /\ pc \in [Processes -> SendLocations \cup ReadLocations]
  BY DEF Init, SendLocations
<1>4. Senders \subseteq Processes /\ "reader" \in Processes
  BY DEF Processes
<1>5. \A p \in Senders :
        args[p] <= MaxSend /\ pc[p] \in SendLocations /\ (pc[p] # "off" => i[p] < args[p])
  BY <1>2, <1>4, CzacikAssumption DEF SendLocations
<1>6. pc["reader"] \in ReadLocations /\ run \in 0..MaxRuns
  BY <1>2, <1>4, CzacikAssumption DEF Init, ReadLocations
<1>7. Typed
  BY <1>1, <1>2, <1>3, <1>5, <1>6 DEF Init, Typed
<1> QED BY <1>2, <1>7 DEF LockInv, MutualExclusion, Inside

LEMMA RingTyped ==
  ASSUME Typed
  PROVE  /\ queue_init(queue) \in Rings(0..MaxSend) /\ queue_init(queue).size = 0
         /\ ReadSlot(queue) \in Rings(0..MaxSend) /\ ReadSlot(queue).size = queue.size
         /\ \A d \in Int : /\ Counted(queue, d) \in Rings(0..MaxSend)
                          /\ Counted(queue, d).size = queue.size + d
         /\ \A m \in [pri : {0, 1}, n : 0..MaxSend] :
              SendSlot(queue, m) \in Rings(0..MaxSend) /\ SendSlot(queue, m).size = queue.size
<1>1. queue \in Rings(0..MaxSend)
  BY DEF Typed
<1> QED BY <1>1, RingOperations, CzacikAssumption

(* A process goes from one of its labels to another one. *)
LEMMA MovesTyped ==
  ASSUME Typed, NEW p \in Processes, NEW from, NEW to, Goto(p, from, to),
         p \in Senders => to \in SendLocations,
         p = "reader" => to \in ReadLocations
  PROVE  /\ pc' \in [Processes -> SendLocations \cup ReadLocations]
         /\ \A q \in Senders : pc'[q] \in SendLocations
         /\ pc'["reader"] \in ReadLocations
         /\ pc'[p] = to /\ \A q \in Processes : q # p => pc'[q] = pc[q]
         /\ exist' = exist /\ args' = args /\ run' = run /\ killed' = killed
<1>1. /\ pc' = [pc EXCEPT ![p] = to] /\ to \in SendLocations \cup ReadLocations
      /\ exist' = exist /\ args' = args /\ run' = run /\ killed' = killed
  BY DEF Goto, Processes
<1>2. pc'[p] = to /\ \A q \in Processes : q # p => pc'[q] = pc[q]
  BY <1>1 DEF Typed
<1>3. "reader" \in Processes /\ Senders \subseteq Processes
  BY DEF Processes
<1> QED BY <1>1, <1>2, <1>3 DEF Typed

(* A step within a pass does not touch what a process has still to do. *)
LEMMA PassTyped ==
  ASSUME Typed, NEW p \in Processes, NEW from, NEW to, Goto(p, from, to), i' = i,
         from # "off",
         p \in Senders => to \in SendLocations,
         p = "reader" => to \in ReadLocations,
         queue' \in Rings(0..MaxSend), full' \in Nat, empty' \in Nat, mutex' \in {0, 1}
  PROVE  Typed'
<1>1. /\ pc' \in [Processes -> SendLocations \cup ReadLocations]
      /\ \A q \in Senders : pc'[q] \in SendLocations
      /\ pc'["reader"] \in ReadLocations
      /\ pc'[p] = to /\ \A q \in Processes : q # p => pc'[q] = pc[q]
      /\ exist' = exist /\ args' = args /\ run' = run /\ killed' = killed
  BY MovesTyped
<1>2. \A q \in Senders : pc'[q] # "off" => i'[q] < args'[q]
  <2>1. pc[p] # "off" /\ Senders \subseteq Processes
    BY DEF Goto, Processes
  <2> QED BY <1>1, <2>1 DEF Typed
<1> QED BY <1>1, <1>2 DEF Typed

LEMMA TypeStep ==
  ASSUME Typed, mutex = 1 => \A p \in Processes : pc[p] # "up_mutex", [Next]_vars
  PROVE  Typed'
<1>1. Senders \subseteq Processes /\ "reader" \in Processes /\ Processes = {"A", "B", "reader"}
      /\ Senders = {"A", "B"} /\ "reader" \notin Senders
  BY DEF Processes, Senders
<1>2. ASSUME Start PROVE Typed'
  <2>1. \A p \in Processes : pc'[p] = First(p, 0, args'[p]) /\ i'[p] = 0
    BY <1>2 DEF Start
  <2>2. /\ \A p \in Processes : args'[p] \in Nat
        /\ \A p \in Senders : args'[p] <= MaxSend
    <3>1. args' \in [A : 0..MaxSend, B : 0..MaxSend, reader : 0..MaxRead]
      BY <1>2 DEF Start
    <3>2. /\ args'["A"] \in 0..MaxSend /\ args'["B"] \in 0..MaxSend
          /\ args'["reader"] \in 0..MaxRead
      BY <3>1
    <3> QED BY <1>1, <3>2, CzacikAssumption
  <2>3. /\ pc' \in [Processes -> SendLocations \cup ReadLocations]
        /\ i' \in [Processes -> Nat]
    BY <1>2 DEF Start, First, SendLocations, ReadLocations
  <2>4. \A p \in Senders : pc'[p] \in SendLocations /\ (pc'[p] # "off" => i'[p] < args'[p])
    BY <1>1, <2>1 DEF First, SendLocations
  <2>5. pc'["reader"] \in ReadLocations
    BY <1>1, <2>1 DEF First, ReadLocations
  <2>6. queue' \in Rings(0..MaxSend)
    BY <1>2, RingTyped DEF Start
  <2>7. full' \in Nat /\ empty' \in Nat /\ mutex' \in {0, 1} /\ exist' \in BOOLEAN
    BY <1>2, CzacikAssumption DEF Start, semaphores, Typed
  <2>8. run' \in 0..MaxRuns /\ killed' \in BOOLEAN
    <3>1. run' = run + 1 /\ run < MaxRuns /\ killed' = FALSE
      BY <1>2 DEF Start
    <3>2. run \in 0..MaxRuns
      BY DEF Typed
    <3>3. MaxRuns \in Nat
      BY CzacikAssumption
    <3>4. run' \in 0..MaxRuns
      BY <3>1, <3>2, <3>3
    <3> QED BY <3>1, <3>4
  <2> QED BY <2>2, <2>3, <2>4, <2>5, <2>6, <2>7, <2>8 DEF Typed
<1>3. ASSUME CleanUp PROVE Typed'
  <2>1. queue' \in Rings(0..MaxSend)
    BY <1>3, NewRing, CzacikAssumption DEF CleanUp
  <2> QED BY <1>3, <2>1 DEF CleanUp, Typed
<1>4. ASSUME Kill PROVE Typed'
  <2>1. \A p \in Processes : pc'[p] = "off"
    BY <1>4 DEF Kill
  <2>2. pc' \in [Processes -> SendLocations \cup ReadLocations]
    BY <1>4 DEF Kill, SendLocations
  <2>3. \A p \in Senders : pc'[p] \in SendLocations /\ pc'[p] = "off"
    BY <1>1, <2>1 DEF SendLocations
  <2>4. pc'["reader"] \in ReadLocations
    BY <1>1, <2>1 DEF ReadLocations
  <2> QED BY <1>4, <2>2, <2>3, <2>4 DEF Kill, semaphores, Typed
<1>5. ASSUME NEW p \in Processes, DownMutex(p) PROVE Typed'
  <2>1. Goto(p, "down_mutex", "slot") /\ i' = i
    BY <1>5 DEF DownMutex
  <2>2. /\ queue' \in Rings(0..MaxSend)
        /\ full' \in Nat /\ empty' \in Nat /\ mutex' \in {0, 1}
    BY <1>5 DEF DownMutex, down, Typed
  <2> QED BY <1>1, <2>1, <2>2, PassTyped DEF SendLocations, ReadLocations
<1>6. ASSUME NEW p \in Processes, UpMutex(p) PROVE Typed'
  <2>1. /\ Goto(p, "up_mutex", IF p = "reader" THEN "up_empty" ELSE "up_full") /\ i' = i
        /\ pc[p] = "up_mutex"
    BY <1>6 DEF UpMutex, Goto
  <2>2. mutex' \in {0, 1}
    BY <1>6, <2>1 DEF UpMutex, up, Typed
  <2>3. queue' \in Rings(0..MaxSend) /\ full' \in Nat /\ empty' \in Nat
    BY <1>6 DEF UpMutex, Typed
  <2>4. /\ p \in Senders => (IF p = "reader" THEN "up_empty" ELSE "up_full") \in SendLocations
        /\ p = "reader" => (IF p = "reader" THEN "up_empty" ELSE "up_full") \in ReadLocations
    BY <1>1 DEF SendLocations, ReadLocations
  <2> QED BY <2>1, <2>2, <2>3, <2>4, PassTyped
<1>7. ASSUME NEW p \in Senders, DownEmpty(p) PROVE Typed'
  <2>1. Goto(p, "down_empty", "down_mutex") /\ i' = i
    BY <1>7 DEF DownEmpty
  <2>2. /\ queue' \in Rings(0..MaxSend)
        /\ full' \in Nat /\ empty' \in Nat /\ mutex' \in {0, 1}
    BY <1>7 DEF DownEmpty, down, Typed
  <2> QED BY <1>1, <2>1, <2>2, PassTyped DEF SendLocations
<1>8. ASSUME NEW p \in Senders, SendSlotStep(p) PROVE Typed'
  <2>1. Goto(p, "slot", "count") /\ i' = i /\ pc[p] # "off" /\ p \in Processes
    BY <1>1, <1>8 DEF SendSlotStep, Goto
  <2>2. Message(p) \in [pri : {0, 1}, n : 0..MaxSend]
    <3>1. i[p] \in 0..MaxSend
      BY <2>1, CzacikAssumption DEF Typed
    <3> QED BY <3>1 DEF Message
  <2>3. queue' \in Rings(0..MaxSend)
    BY <1>8, <2>2, RingTyped DEF SendSlotStep
  <2>4. full' \in Nat /\ empty' \in Nat /\ mutex' \in {0, 1}
    BY <1>8 DEF SendSlotStep, semaphores, Typed
  <2> QED BY <1>1, <2>1, <2>3, <2>4, PassTyped DEF SendLocations
<1>9. ASSUME NEW p \in Senders, SendCount(p) PROVE Typed'
  <2>1. Goto(p, "count", "up_mutex") /\ i' = i
    BY <1>9 DEF SendCount
  <2>2. queue' \in Rings(0..MaxSend)
    BY <1>9, RingTyped DEF SendCount
  <2>3. full' \in Nat /\ empty' \in Nat /\ mutex' \in {0, 1}
    BY <1>9 DEF SendCount, semaphores, Typed
  <2> QED BY <1>1, <2>1, <2>2, <2>3, PassTyped DEF SendLocations
<1>10. ASSUME DownFull PROVE Typed'
  <2>1. Goto("reader", "down_full", "down_mutex") /\ i' = i
    BY <1>10 DEF DownFull
  <2>2. /\ queue' \in Rings(0..MaxSend)
        /\ full' \in Nat /\ empty' \in Nat /\ mutex' \in {0, 1}
    BY <1>10 DEF DownFull, down, Typed
  <2> QED BY <1>1, <2>1, <2>2, PassTyped DEF ReadLocations
<1>11. ASSUME ReadSlotStep PROVE Typed'
  <2>1. Goto("reader", "slot", "count") /\ i' = i
    BY <1>11 DEF ReadSlotStep
  <2>2. queue' \in Rings(0..MaxSend)
    BY <1>11, RingTyped DEF ReadSlotStep
  <2>3. full' \in Nat /\ empty' \in Nat /\ mutex' \in {0, 1}
    BY <1>11 DEF ReadSlotStep, semaphores, Typed
  <2> QED BY <1>1, <2>1, <2>2, <2>3, PassTyped DEF ReadLocations
<1>12. ASSUME ReadCount PROVE Typed'
  <2>1. Goto("reader", "count", "up_mutex") /\ i' = i
    BY <1>12 DEF ReadCount
  <2>2. queue' \in Rings(0..MaxSend)
    BY <1>12, RingTyped DEF ReadCount
  <2>3. full' \in Nat /\ empty' \in Nat /\ mutex' \in {0, 1}
    BY <1>12 DEF ReadCount, semaphores, Typed
  <2> QED BY <1>1, <2>1, <2>2, <2>3, PassTyped DEF ReadLocations
<1>13. ASSUME NEW p \in Senders, UpFull(p) PROVE Typed'
  <2> DEFINE to == First(p, i[p] + 1, args[p])
  <2>1. Goto(p, "up_full", to) /\ i' = [i EXCEPT ![p] = i[p] + 1] /\ p \in Processes
    BY <1>1, <1>13 DEF UpFull
  <2>2. to \in SendLocations /\ (to # "off" => i[p] + 1 < args[p])
    BY <1>1 DEF First, SendLocations
  <2> HIDE DEF to
  <2>3. /\ pc' \in [Processes -> SendLocations \cup ReadLocations]
        /\ \A q \in Senders : pc'[q] \in SendLocations
        /\ pc'["reader"] \in ReadLocations
        /\ pc'[p] = to /\ \A q \in Processes : q # p => pc'[q] = pc[q]
        /\ exist' = exist /\ args' = args /\ run' = run /\ killed' = killed
    BY <1>1, <2>1, <2>2, MovesTyped
  <2>4. i' \in [Processes -> Nat] /\ i'[p] = i[p] + 1 /\ \A q \in Processes : q # p => i'[q] = i[q]
    BY <2>1 DEF Typed
  <2>5. \A q \in Senders : pc'[q] # "off" => i'[q] < args'[q]
    BY <1>1, <2>2, <2>3, <2>4 DEF Typed
  <2>6. /\ queue' \in Rings(0..MaxSend)
        /\ full' \in Nat /\ empty' \in Nat /\ mutex' \in {0, 1}
    BY <1>13 DEF UpFull, up, Typed
  <2> QED BY <2>3, <2>4, <2>5, <2>6 DEF Typed
<1>14. ASSUME UpEmpty PROVE Typed'
  <2> DEFINE to == First("reader", i["reader"] + 1, args["reader"])
  <2>1. Goto("reader", "up_empty", to) /\ i' = [i EXCEPT !["reader"] = i["reader"] + 1]
    BY <1>14 DEF UpEmpty
  <2>2. to \in ReadLocations
    BY DEF First, ReadLocations
  <2> HIDE DEF to
  <2>3. /\ pc' \in [Processes -> SendLocations \cup ReadLocations]
        /\ \A q \in Senders : pc'[q] \in SendLocations
        /\ pc'["reader"] \in ReadLocations
        /\ \A q \in Processes : q # "reader" => pc'[q] = pc[q]
        /\ exist' = exist /\ args' = args /\ run' = run /\ killed' = killed
    BY <1>1, <2>1, <2>2, MovesTyped
  <2>4. i' \in [Processes -> Nat] /\ \A q \in Processes : q # "reader" => i'[q] = i[q]
    BY <1>1, <2>1 DEF Typed
  <2>5. \A q \in Senders : pc'[q] # "off" => i'[q] < args'[q]
    BY <1>1, <2>3, <2>4 DEF Typed
  <2>6. /\ queue' \in Rings(0..MaxSend)
        /\ full' \in Nat /\ empty' \in Nat /\ mutex' \in {0, 1}
    BY <1>14 DEF UpEmpty, up, Typed
  <2> QED BY <2>3, <2>4, <2>5, <2>6 DEF Typed
<1>15. ASSUME UNCHANGED vars PROVE Typed'
  BY <1>15 DEF vars, semaphores, Typed
<1> QED
  BY <1>1, <1>2, <1>3, <1>4, <1>5, <1>6, <1>7, <1>8, <1>9, <1>10, <1>11, <1>12, <1>13,
     <1>14, <1>15 DEF Next, Work, Sender, ReaderStep

(* A step that takes the mutex, gives it back, or moves within the same    *)
(* side of it.                                                             *)
LEMMA LockMoves ==
  ASSUME LockInv, NEW p \in Processes, NEW to,
         pc' = [pc EXCEPT ![p] = to],
         \/ pc[p] \notin Inside /\ to \in Inside /\ mutex = 1 /\ mutex' = 0
         \/ pc[p] \in Inside /\ to \notin Inside
         \/ (pc[p] \in Inside <=> to \in Inside) /\ mutex' = mutex
  PROVE  MutualExclusion'
<1>1. pc'[p] = to /\ \A q \in Processes : q # p => pc'[q] = pc[q]
  BY DEF LockInv, Typed
<1> QED BY <1>1 DEF LockInv, MutualExclusion

LEMMA LockStep == LockInv /\ [Next]_vars => LockInv'
<1> SUFFICES ASSUME LockInv, [Next]_vars PROVE LockInv'
  OBVIOUS
<1>1. Typed'
  BY TypeStep DEF LockInv, MutualExclusion, Inside
<1>2. Senders \subseteq Processes /\ "reader" \in Processes
  BY DEF Processes
<1>3. ASSUME Start PROVE MutualExclusion'
  <2>1. \A p \in Processes : pc'[p] = First(p, 0, args'[p])
    BY <1>3 DEF Start
  <2> QED BY <2>1 DEF First, MutualExclusion, Inside
<1>4. ASSUME CleanUp PROVE MutualExclusion'
  BY <1>4 DEF CleanUp, LockInv, MutualExclusion
<1>5. ASSUME Kill PROVE MutualExclusion'
  <2>1. \A p \in Processes : pc'[p] = "off"
    BY <1>5 DEF Kill
  <2> QED BY <2>1 DEF MutualExclusion, Inside
<1>6. ASSUME NEW p \in Processes, DownMutex(p) PROVE MutualExclusion'
  <2>1. /\ pc' = [pc EXCEPT ![p] = "slot"]
        /\ pc[p] \notin Inside /\ "slot" \in Inside
    BY <1>6 DEF DownMutex, Goto, Inside
  <2>2. mutex = 1 /\ mutex' = 0
    BY <1>6 DEF DownMutex, down, LockInv, Typed
  <2> QED BY <2>1, <2>2, LockMoves
<1>7. ASSUME NEW p \in Processes, UpMutex(p) PROVE MutualExclusion'
  <2> DEFINE to == IF p = "reader" THEN "up_empty" ELSE "up_full"
  <2>1. /\ pc' = [pc EXCEPT ![p] = to]
        /\ pc[p] \in Inside /\ to \notin Inside
    BY <1>7 DEF UpMutex, Goto, Inside
  <2> QED BY <2>1, LockMoves
<1>8. ASSUME NEW p \in Processes, NEW to, pc' = [pc EXCEPT ![p] = to], mutex' = mutex,
             pc[p] \in Inside <=> to \in Inside
      PROVE  MutualExclusion'
  BY <1>8, LockMoves
<1>9. ASSUME NEW p \in Senders, Sender(p) PROVE MutualExclusion'
  <2>1. CASE SendSlotStep(p)
    BY <1>2, <1>8, <2>1 DEF SendSlotStep, Goto, semaphores, Inside
  <2>2. CASE SendCount(p)
    BY <1>2, <1>8, <2>2 DEF SendCount, Goto, semaphores, Inside
  <2>3. CASE DownEmpty(p)
    BY <1>2, <1>8, <2>3 DEF DownEmpty, Goto, Inside
  <2>4. CASE UpFull(p)
    BY <1>2, <1>8, <2>4 DEF UpFull, Goto, First, Inside
  <2> QED BY <1>2, <1>6, <1>7, <1>9, <2>1, <2>2, <2>3, <2>4 DEF Sender
<1>11. ASSUME ReaderStep PROVE MutualExclusion'
  <2>1. CASE ReadSlotStep
    BY <1>2, <1>8, <2>1 DEF ReadSlotStep, Goto, semaphores, Inside
  <2>2. CASE ReadCount
    BY <1>2, <1>8, <2>2 DEF ReadCount, Goto, semaphores, Inside
  <2>3. CASE DownFull
    BY <1>2, <1>8, <2>3 DEF DownFull, Goto, Inside
  <2>4. CASE UpEmpty
    BY <1>2, <1>8, <2>4 DEF UpEmpty, Goto, First, Inside
  <2> QED BY <1>2, <1>6, <1>7, <1>11, <2>1, <2>2, <2>3, <2>4 DEF ReaderStep
<1>10. ASSUME UNCHANGED vars PROVE MutualExclusion'
  BY <1>10 DEF vars, semaphores, LockInv, MutualExclusion
<1>12. MutualExclusion'
  BY <1>3, <1>4, <1>5, <1>9, <1>10, <1>11 DEF Next, Work
<1> QED BY <1>1, <1>12 DEF LockInv

LEMMA LockInvariant == Spec => []LockInv
  BY LockInit, LockStep, PTL DEF Spec

(* At most one process is between down(mutex) and up(mutex), whatever the  *)
(* runs before left in the semaphores (czacik.c:122-220).                  *)
THEOREM MutualExclusionHolds == Spec => []MutualExclusion
<1>1. LockInv => MutualExclusion
  BY DEF LockInv
<1> QED BY <1>1, LockInvariant, PTL
------------------------------------------------------------------------------
(* The counts outlive the last step of a run only in the size.             *)
CountInv == SemaphoresMatchQueue /\ queue.size \in 0..BUFFER_SIZE

Taken == full + At({"up_mutex", "up_full"}) + ReaderAt({"down_mutex", "slot", "count"})
Free == empty + At({"down_mutex", "slot", "count"}) + ReaderAt({"up_mutex", "up_empty"})

(* Where a process answers for a place that is taken, or free.             *)
TakenAt(p) == IF p = "reader" THEN {"down_mutex", "slot", "count"} ELSE {"up_mutex", "up_full"}
FreeAt(p) == IF p = "reader" THEN {"up_mutex", "up_empty"} ELSE {"down_mutex", "slot", "count"}

(* What a step of a process changes in the sums. *)
TakenMove(p, to) == (full' - full) + One(to, TakenAt(p)) - One(pc[p], TakenAt(p))
FreeMove(p, to) == (empty' - empty) + One(to, FreeAt(p)) - One(pc[p], FreeAt(p))

LEMMA Sums ==
  /\ Taken = full + (One(pc["A"], TakenAt("A")) + One(pc["B"], TakenAt("B")))
             + One(pc["reader"], TakenAt("reader"))
  /\ Free = empty + (One(pc["A"], FreeAt("A")) + One(pc["B"], FreeAt("B")))
            + One(pc["reader"], FreeAt("reader"))
  /\ Taken' = full' + (One(pc'["A"], TakenAt("A")) + One(pc'["B"], TakenAt("B")))
              + One(pc'["reader"], TakenAt("reader"))
  /\ Free' = empty' + (One(pc'["A"], FreeAt("A")) + One(pc'["B"], FreeAt("B")))
             + One(pc'["reader"], FreeAt("reader"))
<1>1. \A labels : At(labels) = One(pc["A"], labels) + One(pc["B"], labels)
  BY UsersAt DEF At, Senders
<1>2. \A labels : At(labels)' = One(pc'["A"], labels) + One(pc'["B"], labels)
  <2> TAKE labels
  <2>1. Cardinality({p \in Senders : pc'[p] \in labels})
          = One(pc'["A"], labels) + One(pc'["B"], labels)
    BY UsersAt DEF Senders
  <2> QED BY <2>1 DEF At
<1>3. /\ \A labels : ReaderAt(labels) = One(pc["reader"], labels)
      /\ \A labels : ReaderAt(labels)' = One(pc'["reader"], labels)
  BY DEF ReaderAt, One
<1>4. /\ TakenAt("A") = {"up_mutex", "up_full"} /\ TakenAt("B") = {"up_mutex", "up_full"}
      /\ TakenAt("reader") = {"down_mutex", "slot", "count"}
      /\ FreeAt("A") = {"down_mutex", "slot", "count"}
      /\ FreeAt("B") = {"down_mutex", "slot", "count"}
      /\ FreeAt("reader") = {"up_mutex", "up_empty"}
  BY DEF TakenAt, FreeAt
<1> QED BY <1>1, <1>2, <1>3, <1>4 DEF Taken, Free

(* The sums move with the process that makes a step, and nothing else. *)
LEMMA Shift ==
  ASSUME Typed, NEW p \in Processes, NEW to, pc' = [pc EXCEPT ![p] = to],
         full' \in Nat, empty' \in Nat
  PROVE  /\ TakenMove(p, to) \in Int /\ Taken \in Nat /\ Taken' \in Nat
         /\ FreeMove(p, to) \in Int /\ Free \in Nat /\ Free' \in Nat
         /\ Taken' = Taken + TakenMove(p, to)
         /\ Free' = Free + FreeMove(p, to)
<1>1. p \in {"A", "B", "reader"}
  BY DEF Processes, Senders
<1>2. pc'[p] = to /\ \A q \in {"A", "B", "reader"} : q # p => pc'[q] = pc[q]
  BY DEF Typed, Processes, Senders
<1>3. full \in Nat /\ empty \in Nat
  BY DEF Typed
<1> DEFINE t(q) == One(pc[q], TakenAt(q))
           f(q) == One(pc[q], FreeAt(q))
           tt(q) == One(pc'[q], TakenAt(q))
           ff(q) == One(pc'[q], FreeAt(q))
<1>4. \A q \in {"A", "B", "reader"} :
        t(q) \in {0, 1} /\ f(q) \in {0, 1} /\ tt(q) \in {0, 1} /\ ff(q) \in {0, 1}
  BY OneIsNat
<1>5. \A q \in {"A", "B", "reader"} : q # p => tt(q) = t(q) /\ ff(q) = f(q)
  BY <1>2
<1>6. /\ TakenMove(p, to) = (full' - full) + tt(p) - t(p)
      /\ FreeMove(p, to) = (empty' - empty) + ff(p) - f(p)
  BY <1>2 DEF TakenMove, FreeMove
<1>7. /\ Taken = full + (t("A") + t("B")) + t("reader")
      /\ Free = empty + (f("A") + f("B")) + f("reader")
      /\ Taken' = full' + (tt("A") + tt("B")) + tt("reader")
      /\ Free' = empty' + (ff("A") + ff("B")) + ff("reader")
  BY Sums
<1> HIDE DEF t, f, tt, ff
<1>8. CASE p = "A"
  BY <1>3, <1>4, <1>5, <1>6, <1>7, <1>8
<1>9. CASE p = "B"
  BY <1>3, <1>4, <1>5, <1>6, <1>7, <1>9
<1>10. CASE p = "reader"
  BY <1>3, <1>4, <1>5, <1>6, <1>7, <1>10
<1> QED BY <1>1, <1>8, <1>9, <1>10

(* A step of a process moves a place from one account to the other when    *)
(* it moves a message, and nothing otherwise.                              *)
LEMMA CountMoves ==
  ASSUME Typed, CountInv, NEW p \in Processes, NEW to,
         pc[p] # "off", pc' = [pc EXCEPT ![p] = to],
         full' \in Nat, empty' \in Nat,
         TakenMove(p, to) + FreeMove(p, to) = 0,
         queue'.size = queue.size + TakenMove(p, to)
  PROVE  CountInv'
<1>1. BUFFER_SIZE \in Nat
  BY CzacikAssumption
<1>2. Taken = queue.size /\ Free = BUFFER_SIZE - queue.size
  BY DEF CountInv, SemaphoresMatchQueue, Over, Taken, Free
<1> DEFINE taken == TakenMove(p, to)
           free == FreeMove(p, to)
<1>3. /\ Taken' = Taken + taken /\ Free' = Free + free
      /\ Taken' \in Nat /\ Free' \in Nat /\ taken \in Int /\ free \in Int
  BY Shift
<1>4. taken + free = 0 /\ queue'.size = queue.size + taken
  OBVIOUS
<1>5. queue.size \in 0..BUFFER_SIZE
  BY DEF CountInv
<1> HIDE DEF taken, free
<1>6. Taken' = queue'.size
  BY <1>2, <1>3, <1>4
<1>7. Free' = BUFFER_SIZE - queue'.size
  BY <1>1, <1>2, <1>3, <1>4, <1>5
<1>8. queue'.size \in 0..BUFFER_SIZE
  BY <1>1, <1>3, <1>6, <1>7
<1> QED BY <1>6, <1>7, <1>8 DEF CountInv, SemaphoresMatchQueue, Taken, Free

LEMMA CountInit == Init => CountInv
<1> SUFFICES ASSUME Init PROVE CountInv
  OBVIOUS
<1>1. queue.size = 0
  BY NewRing, CzacikAssumption DEF Init
<1>2. Over
  BY DEF Init, Over
<1> QED BY <1>1, <1>2, CzacikAssumption DEF CountInv, SemaphoresMatchQueue

(* nic.sh before a run makes it start with the semaphores that fit an      *)
(* empty queue.                                                            *)
LEMMA StartCounts == ASSUME Typed, Tidy, Start PROVE CountInv'
<1>1. queue'.size = 0
  BY RingTyped DEF Start
<1>2. full' = 0 /\ empty' = BUFFER_SIZE
  BY CzacikAssumption DEF Start
<1>3. /\ pc'["A"] \in {"off", "down_empty"} /\ pc'["B"] \in {"off", "down_empty"}
      /\ pc'["reader"] \in {"off", "down_full"}
  BY DEF Start, First, Processes, Senders
<1>4. /\ One(pc'["A"], TakenAt("A")) = 0 /\ One(pc'["B"], TakenAt("B")) = 0
      /\ One(pc'["A"], FreeAt("A")) = 0 /\ One(pc'["B"], FreeAt("B")) = 0
  BY <1>3 DEF One, TakenAt, FreeAt
<1>5. One(pc'["reader"], TakenAt("reader")) = 0 /\ One(pc'["reader"], FreeAt("reader")) = 0
  BY <1>3 DEF One, TakenAt, FreeAt
<1>6. Taken' = full' + (0 + 0) + 0 /\ Free' = empty' + (0 + 0) + 0
  BY <1>4, <1>5, Sums
<1>7. BUFFER_SIZE \in Nat
  BY CzacikAssumption
<1>8. Taken' = queue'.size /\ Free' = BUFFER_SIZE - queue'.size
  BY <1>1, <1>2, <1>6, <1>7
<1> QED BY <1>1, <1>7, <1>8 DEF CountInv, SemaphoresMatchQueue, Taken, Free

LEMMA CountStep == ASSUME Tidy PROVE Typed /\ CountInv /\ [Next]_vars => CountInv'
<1> SUFFICES ASSUME Typed, CountInv, [Next]_vars PROVE CountInv'
  OBVIOUS
<1>1. /\ full \in Nat /\ empty \in Nat /\ queue.size \in 0..BUFFER_SIZE /\ BUFFER_SIZE \in Nat
      /\ Senders \subseteq Processes /\ "reader" \in Processes /\ "reader" \notin Senders
  BY CzacikAssumption DEF Typed, CountInv, Processes, Senders
<1> USE DEF Goto, down, up, semaphores
<1>2. ASSUME CleanUp PROVE CountInv'
  <2>1. queue'.size = 0
    BY <1>2, NewRing, CzacikAssumption DEF CleanUp
  <2>2. Over'
    BY <1>2 DEF CleanUp, Over
  <2> QED BY <1>1, <2>1, <2>2 DEF CountInv, SemaphoresMatchQueue
<1>3. ASSUME Kill PROVE CountInv'
  <2>1. Over'
    BY <1>3 DEF Kill, Over
  <2> QED BY <1>3, <2>1 DEF Kill, CountInv, SemaphoresMatchQueue
<1>4. ASSUME NEW p \in Processes, DownMutex(p) PROVE CountInv'
  <2>1. /\ pc[p] = "down_mutex" /\ pc' = [pc EXCEPT ![p] = "slot"]
        /\ queue' = queue /\ full' = full /\ empty' = empty
    BY <1>4 DEF DownMutex
  <2>2. /\ One("slot", TakenAt(p)) = One(pc[p], TakenAt(p))
        /\ One("slot", FreeAt(p)) = One(pc[p], FreeAt(p))
    BY <2>1 DEF One, TakenAt, FreeAt
  <2>3. TakenMove(p, "slot") = 0 /\ FreeMove(p, "slot") = 0
    BY <1>1, <2>1, <2>2, OneIsNat DEF TakenMove, FreeMove
  <2>4. /\ TakenMove(p, "slot") + FreeMove(p, "slot") = 0
        /\ queue'.size = queue.size + TakenMove(p, "slot")
        /\ pc[p] # "off" /\ full' \in Nat /\ empty' \in Nat /\ p \in Processes
    BY <1>1, <2>1, <2>3
  <2> QED BY <2>1, <2>4, CountMoves
<1>5. ASSUME NEW p \in Processes, UpMutex(p) PROVE CountInv'
  <2> DEFINE to == IF p = "reader" THEN "up_empty" ELSE "up_full"
  <2>1. /\ pc[p] = "up_mutex" /\ pc' = [pc EXCEPT ![p] = to]
        /\ queue' = queue /\ full' = full /\ empty' = empty
    BY <1>5 DEF UpMutex
  <2>2. /\ One(to, TakenAt(p)) = One(pc[p], TakenAt(p))
        /\ One(to, FreeAt(p)) = One(pc[p], FreeAt(p))
    BY <2>1 DEF One, TakenAt, FreeAt
  <2> HIDE DEF to
  <2>3. TakenMove(p, to) = 0 /\ FreeMove(p, to) = 0
    BY <1>1, <2>1, <2>2, OneIsNat DEF TakenMove, FreeMove
  <2>4. /\ TakenMove(p, to) + FreeMove(p, to) = 0
        /\ queue'.size = queue.size + TakenMove(p, to)
        /\ pc[p] # "off" /\ full' \in Nat /\ empty' \in Nat /\ p \in Processes
    BY <1>1, <2>1, <2>3
  <2> QED BY <2>1, <2>4, CountMoves
<1>6. ASSUME NEW p \in Senders, DownEmpty(p) PROVE CountInv'
  <2>1. /\ pc[p] = "down_empty" /\ pc' = [pc EXCEPT ![p] = "down_mutex"]
        /\ queue' = queue /\ full' = full /\ empty' = empty - 1 /\ empty' \in Nat
    BY <1>1, <1>6 DEF DownEmpty
  <2>2. /\ One("down_mutex", TakenAt(p)) = 0 /\ One(pc[p], TakenAt(p)) = 0
        /\ One("down_mutex", FreeAt(p)) = 1 /\ One(pc[p], FreeAt(p)) = 0
    BY <1>1, <2>1 DEF One, TakenAt, FreeAt
  <2>3. /\ TakenMove(p, "down_mutex") = 0 /\ FreeMove(p, "down_mutex") = 0
       
    BY <1>1, <2>1, <2>2 DEF TakenMove, FreeMove
  <2>4. /\ TakenMove(p, "down_mutex") + FreeMove(p, "down_mutex") = 0
        /\ queue'.size = queue.size + TakenMove(p, "down_mutex")
        /\ pc[p] # "off" /\ full' \in Nat /\ empty' \in Nat /\ p \in Processes
    BY <1>1, <2>1, <2>3
  <2> QED BY <2>1, <2>4, CountMoves
<1>7. ASSUME DownFull PROVE CountInv'
  <2>1. /\ pc["reader"] = "down_full" /\ pc' = [pc EXCEPT !["reader"] = "down_mutex"]
        /\ queue' = queue /\ empty' = empty /\ full' = full - 1 /\ full' \in Nat
    BY <1>1, <1>7 DEF DownFull
  <2>2. /\ One("down_mutex", TakenAt("reader")) = 1 /\ One(pc["reader"], TakenAt("reader")) = 0
        /\ One("down_mutex", FreeAt("reader")) = 0 /\ One(pc["reader"], FreeAt("reader")) = 0
    BY <2>1 DEF One, TakenAt, FreeAt
  <2>3. /\ TakenMove("reader", "down_mutex") = 0 /\ FreeMove("reader", "down_mutex") = 0
       
    BY <1>1, <2>1, <2>2 DEF TakenMove, FreeMove
  <2>4. /\ TakenMove("reader", "down_mutex") + FreeMove("reader", "down_mutex") = 0
        /\ queue'.size = queue.size + TakenMove("reader", "down_mutex")
        /\ pc["reader"] # "off" /\ full' \in Nat /\ empty' \in Nat /\ "reader" \in Processes
    BY <1>1, <2>1, <2>3
  <2> QED BY <2>1, <2>4, CountMoves
<1>8. ASSUME NEW p \in Processes, pc[p] = "slot", pc' = [pc EXCEPT ![p] = "count"],
             full' = full, empty' = empty, queue'.size = queue.size
      PROVE  CountInv'
  <2>1. /\ One("count", TakenAt(p)) = One(pc[p], TakenAt(p))
        /\ One("count", FreeAt(p)) = One(pc[p], FreeAt(p))
    BY <1>8 DEF One, TakenAt, FreeAt
  <2>2. TakenMove(p, "count") = 0 /\ FreeMove(p, "count") = 0
    BY <1>1, <1>8, <2>1, OneIsNat DEF TakenMove, FreeMove
  <2>3. /\ TakenMove(p, "count") + FreeMove(p, "count") = 0
        /\ queue'.size = queue.size + TakenMove(p, "count")
        /\ pc[p] # "off" /\ full' \in Nat /\ empty' \in Nat /\ p \in Processes
    BY <1>1, <1>8, <2>2
  <2> QED BY <1>8, <2>3, CountMoves
<1>9. ASSUME NEW p \in Senders, SendCount(p) PROVE CountInv'
  <2>1. /\ pc[p] = "count" /\ pc' = [pc EXCEPT ![p] = "up_mutex"]
        /\ full' = full /\ empty' = empty
    BY <1>9 DEF SendCount
  <2>2. queue'.size = queue.size + 1
    BY <1>9, RingTyped DEF SendCount
  <2>3. /\ One("up_mutex", TakenAt(p)) = 1 /\ One(pc[p], TakenAt(p)) = 0
        /\ One("up_mutex", FreeAt(p)) = 0 /\ One(pc[p], FreeAt(p)) = 1
    BY <1>1, <2>1 DEF One, TakenAt, FreeAt
  <2>4. TakenMove(p, "up_mutex") = 1 /\ FreeMove(p, "up_mutex") = -1
    BY <1>1, <2>1, <2>3 DEF TakenMove, FreeMove
  <2>5. /\ TakenMove(p, "up_mutex") + FreeMove(p, "up_mutex") = 0
        /\ queue'.size = queue.size + TakenMove(p, "up_mutex")
        /\ pc[p] # "off" /\ full' \in Nat /\ empty' \in Nat /\ p \in Processes
    BY <1>1, <2>1, <2>2, <2>4
  <2> QED BY <2>1, <2>5, CountMoves
<1>10. ASSUME ReadCount PROVE CountInv'
  <2>1. /\ pc["reader"] = "count" /\ pc' = [pc EXCEPT !["reader"] = "up_mutex"]
        /\ full' = full /\ empty' = empty
    BY <1>10 DEF ReadCount
  <2>2. queue'.size = queue.size + (-1) /\ -1 \in Int
    BY <1>10, RingTyped DEF ReadCount
  <2>3. /\ One("up_mutex", TakenAt("reader")) = 0 /\ One(pc["reader"], TakenAt("reader")) = 1
        /\ One("up_mutex", FreeAt("reader")) = 1 /\ One(pc["reader"], FreeAt("reader")) = 0
    BY <2>1 DEF One, TakenAt, FreeAt
  <2>4. TakenMove("reader", "up_mutex") = -1 /\ FreeMove("reader", "up_mutex") = 1
    BY <1>1, <2>1, <2>3 DEF TakenMove, FreeMove
  <2>5. /\ TakenMove("reader", "up_mutex") + FreeMove("reader", "up_mutex") = 0
        /\ queue'.size = queue.size + TakenMove("reader", "up_mutex")
        /\ pc["reader"] # "off" /\ full' \in Nat /\ empty' \in Nat /\ "reader" \in Processes
    BY <1>1, <2>1, <2>2, <2>4
  <2> QED BY <2>1, <2>5, CountMoves
<1>11. ASSUME NEW p \in Senders, UpFull(p) PROVE CountInv'
  <2> DEFINE to == First(p, i[p] + 1, args[p])
  <2>1. /\ pc[p] = "up_full" /\ pc' = [pc EXCEPT ![p] = to] /\ to \in {"off", "down_empty"}
        /\ queue' = queue /\ full' = full + 1 /\ empty' = empty
    BY <1>1, <1>11 DEF UpFull, First
  <2> HIDE DEF to
  <2>2. /\ One(to, TakenAt(p)) = 0 /\ One(pc[p], TakenAt(p)) = 1
        /\ One(to, FreeAt(p)) = 0 /\ One(pc[p], FreeAt(p)) = 0
    BY <1>1, <2>1 DEF One, TakenAt, FreeAt
  <2>3. TakenMove(p, to) = 0 /\ FreeMove(p, to) = 0
    BY <1>1, <2>1, <2>2 DEF TakenMove, FreeMove
  <2>4. /\ TakenMove(p, to) + FreeMove(p, to) = 0
        /\ queue'.size = queue.size + TakenMove(p, to)
        /\ pc[p] # "off" /\ full' \in Nat /\ empty' \in Nat /\ p \in Processes
    BY <1>1, <2>1, <2>3
  <2> QED BY <2>1, <2>4, CountMoves
<1>12. ASSUME UpEmpty PROVE CountInv'
  <2> DEFINE to == First("reader", i["reader"] + 1, args["reader"])
  <2>1. /\ pc["reader"] = "up_empty" /\ pc' = [pc EXCEPT !["reader"] = to]
        /\ to \in {"off", "down_full"}
        /\ queue' = queue /\ full' = full /\ empty' = empty + 1
    BY <1>12 DEF UpEmpty, First
  <2> HIDE DEF to
  <2>2. /\ One(to, TakenAt("reader")) = 0 /\ One(pc["reader"], TakenAt("reader")) = 0
        /\ One(to, FreeAt("reader")) = 0 /\ One(pc["reader"], FreeAt("reader")) = 1
    BY <2>1 DEF One, TakenAt, FreeAt
  <2>3. /\ TakenMove("reader", to) = 0 /\ FreeMove("reader", to) = 0
       
    BY <1>1, <2>1, <2>2 DEF TakenMove, FreeMove
  <2>4. /\ TakenMove("reader", to) + FreeMove("reader", to) = 0
        /\ queue'.size = queue.size + TakenMove("reader", to)
        /\ pc["reader"] # "off" /\ full' \in Nat /\ empty' \in Nat /\ "reader" \in Processes
    BY <1>1, <2>1, <2>3
  <2> QED BY <2>1, <2>4, CountMoves
<1>13. ASSUME UNCHANGED vars PROVE CountInv'
  <2>1. pc' = pc /\ full' = full /\ empty' = empty /\ queue' = queue
    BY <1>13 DEF vars
  <2>2. \A labels : At(labels)' = At(labels) /\ ReaderAt(labels)' = ReaderAt(labels)
    BY <2>1 DEF At, ReaderAt
  <2> QED BY <2>1, <2>2 DEF CountInv, SemaphoresMatchQueue, Over
<1>14. ASSUME NEW p \in Senders, SendSlotStep(p) PROVE CountInv'
  <2>1. /\ pc[p] = "slot" /\ pc' = [pc EXCEPT ![p] = "count"]
        /\ full' = full /\ empty' = empty
    BY <1>14 DEF SendSlotStep
  <2>2. Message(p) \in [pri : {0, 1}, n : 0..MaxSend]
    <3>1. i[p] \in 0..MaxSend
      BY <1>1, <2>1, CzacikAssumption DEF Typed
    <3> QED BY <3>1 DEF Message
  <2>3. queue'.size = queue.size
    BY <1>14, <2>2, RingTyped DEF SendSlotStep
  <2> QED BY <1>1, <1>8, <2>1, <2>3
<1>15. ASSUME ReadSlotStep PROVE CountInv'
  <2>1. /\ pc["reader"] = "slot" /\ pc' = [pc EXCEPT !["reader"] = "count"]
        /\ full' = full /\ empty' = empty
    BY <1>15 DEF ReadSlotStep
  <2>2. queue'.size = queue.size
    BY <1>15, RingTyped DEF ReadSlotStep
  <2> QED BY <1>1, <1>8, <2>1, <2>2
<1>16. ASSUME NEW p \in Senders, Sender(p) PROVE CountInv'
  BY <1>1, <1>4, <1>5, <1>6, <1>9, <1>11, <1>14, <1>16 DEF Sender
<1>17. ASSUME ReaderStep PROVE CountInv'
  BY <1>1, <1>4, <1>5, <1>7, <1>10, <1>12, <1>15, <1>17 DEF ReaderStep
<1> QED BY <1>2, <1>3, <1>13, <1>16, <1>17, StartCounts DEF Next, Work
------------------------------------------------------------------------------
LEMMA CountInvariant == ASSUME Tidy PROVE Spec => [](Typed /\ CountInv)
<1>1. Init => CountInv
  BY CountInit
<1>2. Typed /\ CountInv /\ [Next]_vars => CountInv'
  BY CountStep
<1>3. LockInv => Typed
  BY DEF LockInv
<1> QED BY <1>1, <1>2, <1>3, LockInvariant, PTL DEF Spec

(* When nic.sh precedes every run, full counts the messages and empty the  *)
(* free places in every interleaving (czacik.c:122-220).                   *)
THEOREM SemaphoresHold == ASSUME Tidy PROVE Spec => []SemaphoresMatchQueue
<1>1. CountInv => SemaphoresMatchQueue
  BY DEF CountInv
<1> QED BY <1>1, CountInvariant, PTL

(* Types; the size stays within the ring although nothing tests it, and    *)
(* a message's number within what was asked for (czacik.c:71-96).          *)
THEOREM TypeCorrect == ASSUME Tidy PROVE Spec => []TypeOK
<1>1. Typed /\ CountInv => TypeOK
  BY DEF Typed, CountInv, TypeOK, Rings
<1> QED BY <1>1, CountInvariant, PTL

(* So nic.sh is all that the promise of tests 1 and 2 lacks: after it the  *)
(* reader never reads from an empty queue (czacik.c:87-96, 201-211).       *)
THEOREM TidyReads == ASSUME Tidy PROVE Spec => []NoReadFromEmpty
<1>1. ASSUME Typed, CountInv, pc["reader"] = "slot" PROVE queue.size > 0
  <2>1. Taken = queue.size
    BY <1>1 DEF CountInv, SemaphoresMatchQueue, Over, Taken, Processes
  <2>2. One(pc["reader"], TakenAt("reader")) = 1
    BY <1>1 DEF One, TakenAt
  <2>3. One(pc["A"], TakenAt("A")) \in {0, 1} /\ One(pc["B"], TakenAt("B")) \in {0, 1}
    BY OneIsNat
  <2>4. full \in Nat
    BY <1>1 DEF Typed
  <2> QED BY <2>1, <2>2, <2>3, <2>4, Sums
<1>2. Typed /\ CountInv => NoReadFromEmpty
  BY <1>1 DEF NoReadFromEmpty
<1> QED BY <1>2, CountInvariant, PTL
------------------------------------------------------------------------------
(* The messages counted or about to be stand from the head to the tail. *)
RingInv == ~ Over => Spans(queue, Length)

LEMMA LengthIs ==
  /\ Length = queue.size + (One(pc["A"], {"count"}) + One(pc["B"], {"count"}))
              - One(pc["reader"], {"count"})
  /\ Length' = queue'.size + (One(pc'["A"], {"count"}) + One(pc'["B"], {"count"}))
               - One(pc'["reader"], {"count"})
<1>1. At({"count"}) = One(pc["A"], {"count"}) + One(pc["B"], {"count"})
  BY UsersAt DEF At, Senders
<1>2. At({"count"})' = One(pc'["A"], {"count"}) + One(pc'["B"], {"count"})
  <2>1. Cardinality({p \in Senders : pc'[p] \in {"count"}})
          = One(pc'["A"], {"count"}) + One(pc'["B"], {"count"})
    BY UsersAt DEF Senders
  <2> QED BY <2>1 DEF At
<1>3. /\ ReaderAt({"count"}) = One(pc["reader"], {"count"})
      /\ ReaderAt({"count"})' = One(pc'["reader"], {"count"})
  BY DEF ReaderAt, One
<1> QED BY <1>1, <1>2, <1>3 DEF Length

(* A sender at its slot has a place to write to, the reader a message. *)
LEMMA LengthBounds ==
  ASSUME Typed, CountInv, ~ Over
  PROVE  /\ Length \in 0..BUFFER_SIZE
         /\ \A p \in Senders : pc[p] = "slot" => Length \in 0..BUFFER_SIZE - 1
         /\ pc["reader"] = "slot" => Length \in 1..BUFFER_SIZE
<1>1. Taken = queue.size /\ Free = BUFFER_SIZE - queue.size
  BY DEF CountInv, SemaphoresMatchQueue, Taken, Free
<1>2. BUFFER_SIZE \in Nat /\ full \in Nat /\ empty \in Nat /\ queue.size \in 0..BUFFER_SIZE
  BY CzacikAssumption DEF Typed, CountInv
<1> DEFINE a == One(pc["A"], {"count"})
           b == One(pc["B"], {"count"})
           r == One(pc["reader"], {"count"})
           fa == One(pc["A"], FreeAt("A"))
           fb == One(pc["B"], FreeAt("B"))
           tr == One(pc["reader"], TakenAt("reader"))
<1>3. a \in {0, 1} /\ b \in {0, 1} /\ r \in {0, 1} /\ fa \in {0, 1} /\ fb \in {0, 1} /\ tr \in {0, 1}
  BY OneIsNat
<1>4. /\ a <= fa /\ b <= fb /\ r <= tr
      /\ pc["A"] = "slot" => a = 0 /\ fa = 1
      /\ pc["B"] = "slot" => b = 0 /\ fb = 1
      /\ pc["reader"] = "slot" => r = 0 /\ tr = 1
  BY DEF One, FreeAt, TakenAt
<1>5. One(pc["A"], TakenAt("A")) \in {0, 1} /\ One(pc["B"], TakenAt("B")) \in {0, 1}
      /\ One(pc["reader"], FreeAt("reader")) \in {0, 1}
  BY OneIsNat
<1>6. /\ full + (One(pc["A"], TakenAt("A")) + One(pc["B"], TakenAt("B"))) + tr = queue.size
      /\ empty + (fa + fb) + One(pc["reader"], FreeAt("reader")) = BUFFER_SIZE - queue.size
      /\ Length = queue.size + (a + b) - r
  BY <1>1, Sums, LengthIs
<1> HIDE DEF a, b, r, fa, fb, tr
<1>7. tr <= queue.size /\ fa + fb <= BUFFER_SIZE - queue.size
  BY <1>2, <1>3, <1>5, <1>6
<1>8. Length \in 0..BUFFER_SIZE
  BY <1>2, <1>3, <1>4, <1>6, <1>7
<1>9. /\ pc["A"] = "slot" => Length \in 0..BUFFER_SIZE - 1
      /\ pc["B"] = "slot" => Length \in 0..BUFFER_SIZE - 1
      /\ pc["reader"] = "slot" => Length \in 1..BUFFER_SIZE
  BY <1>2, <1>3, <1>4, <1>6, <1>7, <1>8
<1> QED BY <1>8, <1>9 DEF Senders

Contents == IF Over THEN <<>> ELSE Content(queue, Length)

(* The steps of Deque, or a stutter. *)
DequeStep ==
  \/ \E m \in [pri : {0, 1}, n : 0..MaxSend] :
       /\ Len(Contents) < BUFFER_SIZE
       /\ Contents' = IF m.pri = 1 THEN <<m>> \o Contents ELSE Append(Contents, m)
  \/ Contents # <<>> /\ Contents' = Tail(Contents)
  \/ Contents' = <<>>
  \/ Contents' = Contents

(* How the length moves with one process. *)
LEMMA LengthShift ==
  ASSUME Typed, NEW p \in Processes, NEW to, pc' = [pc EXCEPT ![p] = to],
         queue' \in Rings(0..MaxSend)
  PROVE  Length' = Length + (queue'.size - queue.size)
                   + IF p = "reader"
                     THEN One(pc[p], {"count"}) - One(to, {"count"})
                     ELSE One(to, {"count"}) - One(pc[p], {"count"})
<1>1. pc'[p] = to /\ \A q \in {"A", "B", "reader"} : q # p => pc'[q] = pc[q]
  BY DEF Typed, Processes, Senders
<1>2. p \in {"A", "B", "reader"} /\ queue.size \in Int /\ queue'.size \in Int
  BY DEF Processes, Senders, Typed, Rings
<1> DEFINE o(q) == One(pc[q], {"count"})
           oo(q) == One(pc'[q], {"count"})
<1>3. \A q \in {"A", "B", "reader"} : o(q) \in {0, 1} /\ oo(q) \in {0, 1}
  BY OneIsNat
<1>4. \A q \in {"A", "B", "reader"} : q # p => oo(q) = o(q)
  BY <1>1
<1>5. /\ Length = queue.size + (o("A") + o("B")) - o("reader")
      /\ Length' = queue'.size + (oo("A") + oo("B")) - oo("reader")
  BY LengthIs
<1>6. One(to, {"count"}) = oo(p) /\ One(pc[p], {"count"}) = o(p)
  BY <1>1
<1> HIDE DEF o, oo
<1>7. CASE p = "A"
  BY <1>2, <1>3, <1>4, <1>5, <1>6, <1>7
<1>8. CASE p = "B"
  BY <1>2, <1>3, <1>4, <1>5, <1>6, <1>8
<1>9. CASE p = "reader"
  BY <1>2, <1>3, <1>4, <1>5, <1>6, <1>9
<1> QED BY <1>2, <1>7, <1>8, <1>9

(* A step after which the messages are the same, or nobody is left. *)
LEMMA SameMessages ==
  ASSUME RingInv, ~ Over, Length' = Length,
         \A n : Content(queue', n) = Content(queue, n) /\ (Spans(queue', n) <=> Spans(queue, n))
  PROVE  RingInv' /\ DequeStep
<1>1. Spans(queue, Length)
  BY DEF RingInv
<1>2. Spans(queue', Length')
  BY <1>1
<1>3. RingInv'
  BY <1>2 DEF RingInv
<1>4. Contents' = IF Over' THEN <<>> ELSE Content(queue', Length')
  BY DEF Contents
<1>5. Contents' = <<>> \/ Contents' = Contents
  BY <1>4 DEF Contents
<1> QED BY <1>3, <1>5 DEF DequeStep

LEMMA RingStep ==
  ASSUME Tidy, Typed, CountInv, RingInv, Typed', CountInv', [Next]_vars
  PROVE  RingInv' /\ DequeStep
<1>1. /\ Senders \subseteq Processes /\ "reader" \in Processes /\ "reader" \notin Senders
      /\ BUFFER_SIZE \in Nat \ {0} /\ queue \in Rings(0..MaxSend) /\ queue' \in Rings(0..MaxSend)
  BY CzacikAssumption DEF Processes, Senders, Typed
<1> USE DEF Goto, semaphores
<1>2. ASSUME Over' PROVE RingInv' /\ DequeStep
  BY <1>2 DEF RingInv, Contents, DequeStep
<1>3. ASSUME Start PROVE RingInv' /\ DequeStep
  <2>1. queue' = queue_init(queue)
    BY <1>3 DEF Start
  <2>2. Spans(queue', 0) /\ Content(queue', 0) = <<>> /\ queue'.size = 0
    BY <1>1, <2>1, InitEmpty, RingOperations
  <2>3. pc'["A"] # "count" /\ pc'["B"] # "count" /\ pc'["reader"] # "count"
    BY <1>3 DEF Start, First, Processes, Senders
  <2>4. /\ One(pc'["A"], {"count"}) = 0 /\ One(pc'["B"], {"count"}) = 0
        /\ One(pc'["reader"], {"count"}) = 0
    BY <2>3 DEF One
  <2>5. Length' = 0 + (0 + 0) - 0
    BY <2>2, <2>4, LengthIs
  <2>6. Length' = 0
    BY <2>5
  <2>7. Spans(queue', Length') /\ Content(queue', Length') = <<>>
    BY <2>2, <2>6
  <2>8. Contents' = IF Over' THEN <<>> ELSE Content(queue', Length')
    BY DEF Contents
  <2> QED BY <2>7, <2>8 DEF RingInv, DequeStep
<1>4. ASSUME NEW p \in Processes, NEW to, pc' = [pc EXCEPT ![p] = to], ~ Over,
             queue' = queue, pc[p] # "count", to # "count"
      PROVE  RingInv' /\ DequeStep
  <2>1. One(pc[p], {"count"}) = 0 /\ One(to, {"count"}) = 0
    BY <1>4 DEF One
  <2>2. Length' = Length + (queue.size - queue.size) + IF p = "reader" THEN 0 - 0 ELSE 0 - 0
    BY <1>1, <1>4, <2>1, LengthShift
  <2>3. Length \in Int /\ queue.size \in Int
    BY <1>1, <1>4, LengthBounds DEF Rings
  <2>4. Length' = Length
    BY <2>2, <2>3
  <2> QED BY <1>4, <2>4, SameMessages
<1>5. ASSUME NEW p \in Processes, pc' = [pc EXCEPT ![p] = "up_mutex"], ~ Over, pc[p] = "count",
             queue' = Counted(queue, IF p = "reader" THEN -1 ELSE 1)
      PROVE  RingInv' /\ DequeStep
  <2>1. One(pc[p], {"count"}) = 1 /\ One("up_mutex", {"count"}) = 0
    BY <1>5 DEF One
  <2>2. PICK d \in {-1, 1} : d = IF p = "reader" THEN -1 ELSE 1
    OBVIOUS
  <2>3. queue' = Counted(queue, d) /\ queue'.size = queue.size + d
    <3>1. d \in Int
      OBVIOUS
    <3> QED BY <1>5, <2>2, <3>1, RingTyped
  <2>4. Length' = Length + (queue'.size - queue.size) + IF p = "reader" THEN 1 - 0 ELSE 0 - 1
    BY <1>1, <1>5, <2>1, LengthShift
  <2>5. Length \in Int /\ queue.size \in Int
    BY <1>1, <1>5, LengthBounds DEF Rings
  <2>6. Length' = Length
    BY <2>2, <2>3, <2>4, <2>5
  <2>7. \A n : Content(queue', n) = Content(queue, n) /\ (Spans(queue', n) <=> Spans(queue, n))
    BY <1>1, <2>3, CountedSame
  <2> QED BY <1>5, <2>6, <2>7, SameMessages
<1>6. ASSUME NEW p \in Senders, SendSlotStep(p), ~ Over PROVE RingInv' /\ DequeStep
  <2>1. /\ pc[p] = "slot" /\ pc' = [pc EXCEPT ![p] = "count"]
        /\ queue' = SendSlot(queue, Message(p))
    BY <1>6 DEF SendSlotStep
  <2>2. PICK m \in Sent(0..MaxSend) : m = Message(p)
    <3>1. i[p] < args[p] /\ args[p] <= MaxSend /\ args[p] \in Nat /\ i[p] \in Nat
      BY <1>1, <2>1 DEF Typed
    <3>2. i[p] \in 0..MaxSend
      BY <3>1, CzacikAssumption
    <3>3. Message(p) \in Sent(0..MaxSend)
      BY <3>2 DEF Message, Sent
    <3> QED BY <3>3
  <2>3. PICK n \in 0..BUFFER_SIZE - 1 : n = Length
    BY <1>6, <2>1, LengthBounds
  <2>4. Spans(queue, n)
    BY <1>6, <2>3 DEF RingInv
  <2>5. /\ Spans(queue', n + 1)
        /\ Content(queue', n + 1)
             = IF m.pri = 1 THEN <<m>> \o Content(queue, n) ELSE Append(Content(queue, n), m)
    BY <1>1, <2>1, <2>2, <2>4, SendPuts
  <2>6. queue'.size = queue.size /\ queue.size \in Int
    <3>1. SendSlot(queue, m).size = queue.size
      BY <1>1, RingTyped, Zenon DEF Sent
    <3> QED BY <1>1, <2>1, <2>2, <3>1 DEF Rings
  <2>7. One(pc[p], {"count"}) = 0 /\ One("count", {"count"}) = 1 /\ p # "reader"
    BY <1>1, <2>1 DEF One
  <2>8. Length' = n + (queue'.size - queue.size) + (1 - 0)
    BY <1>1, <2>1, <2>3, <2>7, LengthShift
  <2>9. Length' = n + 1
    BY <2>6, <2>8
  <2>10. ~ Over'
    BY <1>1, <2>1 DEF Over, Typed
  <2>11. Contents = Content(queue, n) /\ Contents' = Content(queue', n + 1)
    <3>1. Contents' = IF Over' THEN <<>> ELSE Content(queue', Length')
      BY DEF Contents
    <3> QED BY <1>6, <2>3, <2>9, <2>10, <3>1 DEF Contents
  <2>12. Len(Contents) < BUFFER_SIZE
    <3>1. Len(Content(queue, n)) = n
      <4>1. n \in 0..BUFFER_SIZE
        BY <1>1
      <4> QED BY <1>1, <4>1, ContentIs
    <3> QED BY <1>1, <2>11, <3>1
  <2>13. RingInv'
    BY <2>5, <2>9 DEF RingInv
  <2> QED BY <2>5, <2>11, <2>12, <2>13 DEF DequeStep, Sent
<1>7. ASSUME ReadSlotStep, ~ Over PROVE RingInv' /\ DequeStep
  <2>1. /\ pc["reader"] = "slot" /\ pc' = [pc EXCEPT !["reader"] = "count"]
        /\ queue' = ReadSlot(queue)
    BY <1>7 DEF ReadSlotStep
  <2>2. PICK n \in 1..BUFFER_SIZE : n = Length
    BY <1>7, <2>1, LengthBounds
  <2>3. Spans(queue, n)
    BY <1>7, <2>2 DEF RingInv
  <2>4. /\ Spans(queue', n - 1) /\ Content(queue, n) # <<>>
        /\ Content(queue', n - 1) = Tail(Content(queue, n))
    BY <1>1, <2>1, <2>3, ReadTakes
  <2>5. queue'.size = queue.size /\ queue.size \in Int
    BY <1>1, <2>1, RingOperations DEF Rings
  <2>6. One(pc["reader"], {"count"}) = 0 /\ One("count", {"count"}) = 1
    BY <2>1 DEF One
  <2>7. Length' = n + (queue'.size - queue.size) + (0 - 1)
    BY <1>1, <2>1, <2>2, <2>6, LengthShift
  <2>8. Length' = n - 1
    BY <2>5, <2>7
  <2>9. ~ Over'
    BY <1>1, <2>1 DEF Over, Typed
  <2>10. Contents = Content(queue, n) /\ Contents' = Content(queue', n - 1)
    <3>1. Contents' = IF Over' THEN <<>> ELSE Content(queue', Length')
      BY DEF Contents
    <3> QED BY <1>7, <2>2, <2>8, <2>9, <3>1 DEF Contents
  <2>11. RingInv'
    BY <2>4, <2>8 DEF RingInv
  <2> QED BY <2>4, <2>10, <2>11 DEF DequeStep
<1>8. ASSUME UNCHANGED vars PROVE RingInv' /\ DequeStep
  <2>1. queue' = queue /\ pc' = pc
    BY <1>8 DEF vars
  <2>2. Over' = Over /\ Length' = Length
    BY <2>1 DEF Over, Length, At, ReaderAt
  <2>3. Contents' = Contents
    <3>1. Contents' = IF Over' THEN <<>> ELSE Content(queue', Length')
      BY DEF Contents
    <3> QED BY <2>1, <2>2, <3>1 DEF Contents
  <2>4. RingInv'
    <3>1. RingInv' <=> (~ Over' => Spans(queue', Length'))
      BY DEF RingInv
    <3> QED BY <2>1, <2>2, <3>1 DEF RingInv
  <2> QED BY <2>3, <2>4 DEF DequeStep
<1>9. ASSUME NEW p \in Senders, Sender(p) PROVE RingInv' /\ DequeStep
  <2>1. ~ Over
    <3>1. pc[p] # "off"
      BY <1>9 DEF Sender, DownEmpty, DownMutex, SendSlotStep, SendCount, UpMutex, UpFull
    <3> QED BY <1>1, <3>1 DEF Over
  <2>2. CASE DownEmpty(p)
    BY <1>1, <1>4, <2>1, <2>2 DEF DownEmpty
  <2>3. CASE DownMutex(p)
    BY <1>1, <1>4, <2>1, <2>3 DEF DownMutex
  <2>4. CASE UpMutex(p)
    BY <1>1, <1>4, <2>1, <2>4 DEF UpMutex
  <2>5. CASE UpFull(p)
    BY <1>1, <1>4, <2>1, <2>5 DEF UpFull, First
  <2>6. CASE SendCount(p)
    BY <1>1, <1>5, <2>1, <2>6 DEF SendCount
  <2> QED BY <1>6, <1>9, <2>1, <2>2, <2>3, <2>4, <2>5, <2>6 DEF Sender
<1>10. ASSUME ReaderStep PROVE RingInv' /\ DequeStep
  <2>1. ~ Over
    <3>1. pc["reader"] # "off"
      BY <1>10 DEF ReaderStep, DownFull, DownMutex, ReadSlotStep, ReadCount, UpMutex, UpEmpty
    <3> QED BY <1>1, <3>1 DEF Over
  <2>2. CASE DownFull
    BY <1>1, <1>4, <2>1, <2>2 DEF DownFull
  <2>3. CASE DownMutex("reader")
    BY <1>1, <1>4, <2>1, <2>3 DEF DownMutex
  <2>4. CASE UpMutex("reader")
    BY <1>1, <1>4, <2>1, <2>4 DEF UpMutex
  <2>5. CASE UpEmpty
    BY <1>1, <1>4, <2>1, <2>5 DEF UpEmpty, First
  <2>6. CASE ReadCount
    BY <1>1, <1>5, <2>1, <2>6 DEF ReadCount
  <2> QED BY <1>7, <1>10, <2>1, <2>2, <2>3, <2>4, <2>5, <2>6 DEF ReaderStep
<1>11. ASSUME CleanUp \/ Kill PROVE Over'
  BY <1>11 DEF CleanUp, Kill, Over
<1> QED BY <1>2, <1>3, <1>8, <1>9, <1>10, <1>11 DEF Next, Work

(* The promise of tests 1 to 3 of the report, for a ring of any size: after *)
(* nic.sh the ring is a double-ended queue (czacik.c:65-96, 122-220).      *)
THEOREM CzacikImplements == ASSUME Tidy PROVE Spec => ImplementsDeque
<1>1. Init => RingInv /\ Contents = <<>>
  BY DEF Init, Over, RingInv, Contents
<1>2. (Typed /\ CountInv) /\ (Typed /\ CountInv)' /\ RingInv /\ [Next]_vars => RingInv' /\ DequeStep
  BY RingStep
<1>3. Contents = <<>> => D!Init
  BY DEF Contents, D!Init
<1>4. DequeStep => [D!Next]_(IF Over THEN <<>> ELSE Content(queue, Length))
  BY DEF DequeStep, Contents, D!Next, D!Push, D!Pop, D!Reset
<1> QED BY <1>1, <1>2, <1>3, <1>4, CountInvariant, PTL DEF Spec, ImplementsDeque, D!Spec
==============================================================================
