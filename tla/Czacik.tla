------------------------------- MODULE Czacik --------------------------------
(***************************************************************************)
(* The chat of semafory/czacik.c: processes user_A (priority messages) and *)
(* user_B (regular ones) and a reader share a queue in System V shared     *)
(* memory, with the semaphores empty, full and mutex.                      *)
(*                                                                         *)
(* Shared memory and semaphores outlive the program: they are made by the  *)
(* first run and stay until nic.sh removes them, while main resets the     *)
(* queue on every run.  A run may be killed at any point (test 2 of the    *)
(* report ends that way); a semaphore is not undone then.                  *)
(***************************************************************************)
EXTENDS RingQueue, FiniteSets

CONSTANTS
  MaxSend,      \* bound: messages per user on the command line
  MaxRead,      \* bound: messages to read on the command line
  MaxRuns,      \* bound: runs of the program
  Tidy          \* nic.sh is run before every run but the first

Senders == {"A", "B"}
Processes == Senders \cup {"reader"}

ASSUME CzacikAssumption ==
  /\ BUFFER_SIZE \in Nat \ {0}
  /\ MaxSend \in Nat /\ MaxRead \in Nat /\ MaxRuns \in Nat
  /\ Tidy \in BOOLEAN

VARIABLES
  queue,        \* the queue in shared memory
  exist,        \* the semaphores have been created
  full, empty, mutex,   \* their values
  args,         \* the numbers on the command line
  i,            \* loop counter of each process
  pc,           \* where each process is; "off" before and after its life
  run,          \* number of runs so far
  killed        \* history: the last run was killed, or its queue removed

semaphores == <<full, empty, mutex>>
vars == <<queue, exist, full, empty, mutex, args, i, pc, run, killed>>

Init ==
  /\ queue = NewQueue
  /\ exist = FALSE
  /\ full = 0 /\ empty = 0 /\ mutex = 0
  /\ args = [p \in Processes |-> 0]
  /\ i = [p \in Processes |-> 0]
  /\ pc = [p \in Processes |-> "off"]
  /\ run = 0
  /\ killed = TRUE

Over == \A p \in Processes : pc[p] = "off"
------------------------------------------------------------------------------
(* main: the queue is reset.  The semaphores get their values only when    *)
(* they are created; otherwise IPC_EXCL makes semget fail, semctl fails on *)
(* the -1 it returned, and neither is noticed.                             *)
First(p, passes, todo) ==
  IF passes < todo THEN IF p = "reader" THEN "down_full" ELSE "down_empty" ELSE "off"

Start ==
  /\ Over /\ run < MaxRuns
  /\ Tidy => ~ exist
  /\ run' = run + 1
  /\ queue' = queue_init(queue)
  /\ exist' = TRUE
  /\ IF exist THEN UNCHANGED semaphores
              ELSE full' = 0 /\ empty' = BUFFER_SIZE /\ mutex' = 1
  /\ args' \in [A : 0..MaxSend, B : 0..MaxSend, reader : 0..MaxRead]
  /\ i' = [p \in Processes |-> 0]
  /\ pc' = [p \in Processes |-> First(p, 0, args'[p])]
  /\ killed' = FALSE

(* nic.sh: the semaphores and the shared memory are removed. *)
CleanUp ==
  /\ Over /\ exist
  /\ exist' = FALSE
  /\ queue' = NewQueue
  /\ full' = 0 /\ empty' = 0 /\ mutex' = 0
  /\ killed' = TRUE
  /\ UNCHANGED <<args, i, pc, run>>

(* The terminal kills all processes of a run. *)
Kill ==
  /\ ~ Over
  /\ pc' = [p \in Processes |-> "off"]
  /\ killed' = TRUE
  /\ UNCHANGED <<queue, exist, semaphores, args, i, run>>
------------------------------------------------------------------------------
Goto(p, from, to) ==
  /\ pc[p] = from /\ pc' = [pc EXCEPT ![p] = to]
  /\ UNCHANGED <<exist, args, run, killed>>

down(sem) == sem > 0 /\ sem' = sem - 1
up(sem) == sem' = sem + 1

(* user_A and user_B: down(empty), down(mutex), send_msg, up(mutex), up(full). *)
Message(p) == [pri |-> IF p = "A" THEN 1 ELSE 0, n |-> i[p]]

(* Faulty variant: a sender does not take a free place. *)
DownEmptyUnchecked(p) ==
  /\ Goto(p, "down_empty", "down_mutex")
  /\ UNCHANGED <<queue, full, empty, mutex, i>>

DownEmpty(p) ==
  /\ Goto(p, "down_empty", "down_mutex")
  /\ down(empty)
  /\ UNCHANGED <<queue, full, mutex, i>>

(* Faulty variant: the critical section is not guarded. *)
DownMutexUnchecked(p) ==
  /\ Goto(p, "down_mutex", "slot")
  /\ UNCHANGED <<queue, full, empty, mutex, i>>

DownMutex(p) ==
  /\ Goto(p, "down_mutex", "slot")
  /\ down(mutex)
  /\ UNCHANGED <<queue, full, empty, i>>

SendSlotStep(p) ==
  /\ Goto(p, "slot", "count")
  /\ queue' = SendSlot(queue, Message(p))
  /\ UNCHANGED <<semaphores, i>>

SendCount(p) ==
  /\ Goto(p, "count", "up_mutex")
  /\ queue' = Counted(queue, 1)
  /\ UNCHANGED <<semaphores, i>>

UpMutex(p) ==
  /\ Goto(p, "up_mutex", IF p = "reader" THEN "up_empty" ELSE "up_full")
  /\ up(mutex)
  /\ UNCHANGED <<queue, full, empty, i>>

(* Faulty variant: the message is not announced. *)
UpFullForgotten(p) ==
  /\ Goto(p, "up_full", First(p, i[p] + 1, args[p]))
  /\ i' = [i EXCEPT ![p] = @ + 1]
  /\ UNCHANGED <<queue, full, empty, mutex>>

UpFull(p) ==
  /\ Goto(p, "up_full", First(p, i[p] + 1, args[p]))
  /\ up(full)
  /\ i' = [i EXCEPT ![p] = @ + 1]
  /\ UNCHANGED <<queue, empty, mutex>>
------------------------------------------------------------------------------
(* reader: down(full), down(mutex), read_msg, up(mutex), up(empty).  What  *)
(* get_queue_size returns after that, outside the mutex, is only printed.  *)
DownFull ==
  /\ Goto("reader", "down_full", "down_mutex")
  /\ down(full)
  /\ UNCHANGED <<queue, empty, mutex, i>>

ReadSlotStep ==
  /\ Goto("reader", "slot", "count")
  /\ queue' = ReadSlot(queue)
  /\ UNCHANGED <<semaphores, i>>

ReadCount ==
  /\ Goto("reader", "count", "up_mutex")
  /\ queue' = Counted(queue, -1)
  /\ UNCHANGED <<semaphores, i>>

UpEmpty ==
  /\ Goto("reader", "up_empty", First("reader", i["reader"] + 1, args["reader"]))
  /\ up(empty)
  /\ i' = [i EXCEPT !["reader"] = @ + 1]
  /\ UNCHANGED <<queue, full, mutex>>
------------------------------------------------------------------------------
Sender(p) ==
  \/ DownEmpty(p) \/ DownMutex(p) \/ SendSlotStep(p) \/ SendCount(p)
  \/ UpMutex(p) \/ UpFull(p)
ReaderStep ==
  \/ DownFull \/ DownMutex("reader") \/ ReadSlotStep \/ ReadCount
  \/ UpMutex("reader") \/ UpEmpty

Work == (\E p \in Senders : Sender(p)) \/ ReaderStep
Next == Start \/ CleanUp \/ Kill \/ Work

Spec == Init /\ [][Next]_vars

(* The kernel schedules every process. *)
FairSpec ==
  /\ Spec
  /\ WF_vars(Sender("A")) /\ WF_vars(Sender("B")) /\ WF_vars(ReaderStep)
------------------------------------------------------------------------------
SendLocations == {"off", "down_empty", "down_mutex", "slot", "count", "up_mutex", "up_full"}
ReadLocations == {"off", "down_full", "down_mutex", "slot", "count", "up_mutex", "up_empty"}

TypeOK ==
  /\ queue.table \in [0..BUFFER_SIZE - 1 -> [pri : {0, 1}, n : 0..MaxSend]]
  /\ queue.head \in 0..BUFFER_SIZE - 1 /\ queue.tail \in 0..BUFFER_SIZE - 1
  /\ queue.size \in 0..BUFFER_SIZE
  /\ exist \in BOOLEAN /\ full \in Nat /\ empty \in Nat /\ mutex \in {0, 1}
  /\ \A p \in Senders : pc[p] \in SendLocations
  /\ pc["reader"] \in ReadLocations
  /\ run \in 0..MaxRuns /\ killed \in BOOLEAN

(* mutex (1) realises mutual exclusion: one process at most is between     *)
(* down(mutex) and up(mutex), and only then may the semaphore be 0.        *)
Inside == {"slot", "count", "up_mutex"}
MutualExclusion ==
  /\ \A p, q \in Processes : pc[p] \in Inside /\ pc[q] \in Inside => p = q
  /\ mutex = 1 => \A p \in Processes : pc[p] \notin Inside

At(labels) == Cardinality({p \in Senders : pc[p] \in labels})
ReaderAt(labels) == IF pc["reader"] \in labels THEN 1 ELSE 0

(* full counts the messages and empty the free places, but for those a     *)
(* process in between two semaphores answers for; so no process writes     *)
(* into a full queue or reads from an empty one, however the steps of the  *)
(* three interleave.                                                       *)
SemaphoresMatchQueue ==
  ~ Over =>
    /\ full + At({"up_mutex", "up_full"}) + ReaderAt({"down_mutex", "slot", "count"})
         = queue.size
    /\ empty + At({"down_mutex", "slot", "count"}) + ReaderAt({"up_mutex", "up_empty"})
         = BUFFER_SIZE - queue.size

(* Nothing is read from an empty queue nor written into a full one (tests  *)
(* 1 and 2 of the report).                                                 *)
NoReadFromEmpty == pc["reader"] = "slot" => queue.size > 0

(* The messages in the ring, counting the one whose size is not adjusted   *)
(* yet, are a double-ended queue: latest priority message first, regular   *)
(* ones in order, none lost or overwritten when an index wraps (test 3).   *)
(* What is left when the last process goes is dropped by the next run.     *)
Length == queue.size + At({"count"}) - ReaderAt({"count"})
D == INSTANCE Deque WITH
       Messages <- [pri : {0, 1}, n : 0..MaxSend],
       Capacity <- BUFFER_SIZE,
       content <- IF Over THEN <<>> ELSE Content(queue, Length)
ImplementsDeque == D!Spec

(* A run that is not killed comes to rest, with what can be sent sent and what can be read    *)
(* read, and hangs only if the numbers on the command line do not match.   *)
Least(a, b) == IF a < b THEN a ELSE b
Total == args["A"] + args["B"]
Settled ==
  /\ \A p \in Senders : pc[p] \in {"off", "down_empty"}
  /\ pc["reader"] \in {"off", "down_full"}
  /\ queue.size = Least(Total, args["reader"] + BUFFER_SIZE) - Least(Total, args["reader"])
Settles == <>[](killed \/ Settled)
==============================================================================
