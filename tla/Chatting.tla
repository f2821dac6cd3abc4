------------------------------- MODULE Chatting ------------------------------
(***************************************************************************)
(* The chat of semafory/chatting.c, an earlier form of czacik.c: the same  *)
(* ring, POSIX semaphores, and the mutex is taken before a free place is   *)
(* waited for.  The numbers of messages are fixed in the code.             *)
(*                                                                         *)
(* The semaphores have names and nobody unlinks them, so a later run finds *)
(* them as the run before left them, while main resets the queue.          *)
(***************************************************************************)
EXTENDS RingQueue, FiniteSets

CONSTANTS
  PASSES,       \* messages that user_A and user_B send each: 2 in the code
  READS,        \* messages that reader waits for: 10 in the code
  MaxRuns       \* bound: runs of the program

Senders == {"A", "B"}
Processes == Senders \cup {"reader"}

ASSUME ChattingAssumption ==
  /\ BUFFER_SIZE \in Nat \ {0}
  /\ PASSES \in Nat \ {0} /\ READS \in Nat \ {0} /\ MaxRuns \in Nat

VARIABLES
  queue,                \* the queue in shared memory
  mutex, empty, full,   \* values of the named semaphores
  i,                    \* loop counter of each process
  pc,                   \* where each process is; "off" before and after its life
  run,                  \* number of runs so far
  killed                \* history: some run was killed

semaphores == <<mutex, empty, full>>
vars == <<queue, mutex, empty, full, i, pc, run, killed>>

Init ==
  /\ queue = NewQueue
  /\ mutex = 0 /\ empty = 0 /\ full = 0
  /\ i = [p \in Processes |-> 0]
  /\ pc = [p \in Processes |-> "off"]
  /\ run = 0
  /\ killed = FALSE

Over == \A p \in Processes : pc[p] = "off"
First(p) == IF p = "reader" THEN "wait_full" ELSE "wait_mutex"

(* Faulty variant: one pass too many. *)
AgainLate(p, todo) == IF i[p] < todo THEN First(p) ELSE "off"

Again(p, todo) == IF i[p] + 1 < todo THEN First(p) ELSE "off"

(* main: sem_open gives a value only to a semaphore that is not there. *)
Start ==
  /\ Over /\ run < MaxRuns
  /\ run' = run + 1
  /\ queue' = queue_init(queue)
  /\ IF run = 0 THEN mutex' = 1 /\ empty' = BUFFER_SIZE /\ full' = 0
                ELSE UNCHANGED semaphores
  /\ i' = [p \in Processes |-> 0]
  /\ pc' = [p \in Processes |-> First(p)]
  /\ UNCHANGED killed

(* The terminal kills all processes of a run. *)
Kill ==
  /\ ~ Over
  /\ pc' = [p \in Processes |-> "off"]
  /\ killed' = TRUE
  /\ UNCHANGED <<queue, semaphores, i, run>>
------------------------------------------------------------------------------
Goto(p, from, to) == pc[p] = from /\ pc' = [pc EXCEPT ![p] = to] /\ UNCHANGED <<run, killed>>

sem_wait(sem) == sem > 0 /\ sem' = sem - 1
sem_post(sem) == sem' = sem + 1

(* sem_wait(mutex): the first wait of a sender, the second of the reader. *)
WaitMutex(p) ==
  /\ Goto(p, "wait_mutex", IF p = "reader" THEN "slot" ELSE "wait_empty")
  /\ sem_wait(mutex)
  /\ UNCHANGED <<queue, empty, full, i>>

(* Faulty variant: a sender leaves the mutex to others while it waits. *)
WaitEmptyUnlocked(p) ==
  /\ Goto(p, "wait_empty", "slot")
  /\ sem_wait(empty) /\ sem_post(mutex)
  /\ UNCHANGED <<queue, full, i>>

WaitEmpty(p) ==
  /\ Goto(p, "wait_empty", "slot")
  /\ sem_wait(empty)
  /\ UNCHANGED <<queue, mutex, full, i>>

WaitFull ==
  /\ Goto("reader", "wait_full", "wait_mutex")
  /\ sem_wait(full)
  /\ UNCHANGED <<queue, mutex, empty, i>>

(* send_msg and read_msg, in two parts each. *)
Message(p) == [pri |-> IF p = "A" THEN 1 ELSE 0, n |-> i[p]]

Slot(p) ==
  /\ Goto(p, "slot", "count")
  /\ queue' = IF p = "reader" THEN ReadSlot(queue) ELSE SendSlot(queue, Message(p))
  /\ UNCHANGED <<semaphores, i>>

Count(p) ==
  /\ Goto(p, "count", "post")
  /\ queue' = Counted(queue, IF p = "reader" THEN -1 ELSE 1)
  /\ UNCHANGED <<semaphores, i>>

(* Faulty variant: the reader announces a message, not a free place. *)
PostFullOnly(p) ==
  /\ Goto(p, "post", "post_mutex")
  /\ sem_post(full)
  /\ UNCHANGED <<queue, mutex, empty, i>>

(* sem_post(full) by a sender, sem_post(empty) by the reader. *)
Post(p) ==
  /\ Goto(p, "post", "post_mutex")
  /\ IF p = "reader" THEN sem_post(empty) /\ UNCHANGED full
                     ELSE sem_post(full) /\ UNCHANGED empty
  /\ UNCHANGED <<queue, mutex, i>>

(* Faulty variant: the mutex is kept from one pass to the next. *)
PostMutexForgotten(p) ==
  /\ Goto(p, "post_mutex", Again(p, IF p = "reader" THEN READS ELSE PASSES))
  /\ i' = [i EXCEPT ![p] = @ + 1]
  /\ UNCHANGED <<queue, mutex, empty, full>>

PostMutex(p) ==
  /\ Goto(p, "post_mutex", Again(p, IF p = "reader" THEN READS ELSE PASSES))
  /\ sem_post(mutex)
  /\ i' = [i EXCEPT ![p] = @ + 1]
  /\ UNCHANGED <<queue, empty, full>>
------------------------------------------------------------------------------
Step(p) == WaitMutex(p) \/ Slot(p) \/ Count(p) \/ Post(p) \/ PostMutex(p)
Sender(p) == Step(p) \/ WaitEmpty(p)
ReaderStep == Step("reader") \/ WaitFull

Work == (\E p \in Senders : Sender(p)) \/ ReaderStep
Next == Start \/ Kill \/ Work

Spec == Init /\ [][Next]_vars

(* The program is run, and the kernel schedules every process. *)
FairSpec ==
  /\ Spec
  /\ WF_vars(Start)
  /\ WF_vars(Sender("A")) /\ WF_vars(Sender("B")) /\ WF_vars(ReaderStep)
------------------------------------------------------------------------------
SendLocations == {"off", "wait_mutex", "wait_empty", "slot", "count", "post", "post_mutex"}
ReadLocations == (SendLocations \ {"wait_empty"}) \cup {"wait_full"}

TypeOK ==
  /\ queue.head \in 0..BUFFER_SIZE - 1 /\ queue.tail \in 0..BUFFER_SIZE - 1
  /\ queue.size \in Int
  /\ mutex \in {0, 1} /\ empty \in 0..BUFFER_SIZE /\ full \in 0..BUFFER_SIZE
  /\ i \in [Processes -> Nat]
  /\ \A p \in Senders : pc[p] \in SendLocations
  /\ pc["reader"] \in ReadLocations
  /\ run \in 0..MaxRuns /\ killed \in BOOLEAN

(* One process at most has the mutex, in every run, although a killed run  *)
(* may leave the semaphores in any of their values; a mutex left at 0      *)
(* makes the next runs hang, it never lets two processes in.               *)
Inside == {"wait_empty", "slot", "count", "post", "post_mutex"}
MutualExclusion ==
  /\ \A p, q \in Processes : pc[p] \in Inside /\ pc[q] \in Inside => p = q
  /\ mutex = 1 => \A p \in Processes : pc[p] \notin Inside

At(labels) == Cardinality({p \in Senders : pc[p] \in labels})
ReaderAt(labels) == IF pc["reader"] \in labels THEN 1 ELSE 0

(* empty and full together never promise more places than the ring has,    *)
(* whatever was killed when; in the first run they count free and taken    *)
(* places exactly, but for those a process in between answers for.         *)
Taken == full + At({"post"}) + ReaderAt({"wait_mutex", "slot", "count"})
Free == empty + At({"slot", "count"}) + ReaderAt({"post"})
SemaphoresMatchQueue ==
  /\ Taken + Free <= BUFFER_SIZE
  /\ run = 1 /\ ~ Over => Taken = queue.size /\ Free = BUFFER_SIZE - queue.size

(* In the first run no sender waits for a place while it keeps the mutex   *)
(* from the reader, who alone could make one: the four messages of both    *)
(* users fit into the ring.  The order of the two waits depends on that.   *)
NobodyStuckInside ==
  run = 1 => \A p \in Senders : pc[p] = "wait_empty" => empty > 0

(* The ring is a double-ended queue in the first run, as Czacik's is. *)
Length == queue.size + At({"count"}) - ReaderAt({"count"})
D == INSTANCE Deque WITH
       Messages <- [pri : {0, 1}, n : 0..PASSES],
       Capacity <- BUFFER_SIZE,
       content <- IF Over \/ run > 1 THEN <<>> ELSE Content(queue, Length)
ImplementsDeque == D!Spec

(* The first run, left alone: both users get all their messages through,   *)
(* the reader reads them all and then waits for the rest of its ten.       *)
Settled ==
  /\ \A p \in Senders : pc[p] = "off"
  /\ i["reader"] = 2 * PASSES
  /\ pc["reader"] = IF READS > 2 * PASSES THEN "wait_full" ELSE "off"
Settles == <>[](run > 0 /\ (killed \/ Settled))
==============================================================================
