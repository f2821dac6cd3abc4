--------------------------------- MODULE Chat ---------------------------------
(***************************************************************************)
(* The chat of monitory/chat.cpp: client threads put messages into one     *)
(* bounded list, a reader thread takes them out, and class Buffer is a     *)
(* Monitor with the conditions full and empty.                             *)
(*                                                                         *)
(* Each action is one thread running from a semaphore operation, or from   *)
(* an access to the shared list, to the next one.  A message carries the   *)
(* number n of the loop pass that sent it, so that two messages of one     *)
(* client can be told apart; its text is left out.                         *)
(***************************************************************************)
EXTENDS Integers, Sequences, FiniteSets, SequencesExt

CONSTANTS
  PriUsers,      \* threads running priority_user
  RegUsers,      \* threads running regular_user
  Reader,        \* the thread running reader
  CAPACITY,      \* capacity of the buffer (BUFFER_SIZE in main)
  MaxSend,       \* bound: messages per client given on the command line
  MaxRead        \* bound: messages to read given on the command line

Users == PriUsers \cup RegUsers
Threads == Users \cup {Reader}

ASSUME ThreadsAssumption ==
  /\ PriUsers \cap RegUsers = {}
  /\ Reader \notin Users
  /\ IsFiniteSet(Users)

ASSUME NumbersAssumption ==
  /\ CAPACITY \in Nat \ {0}
  /\ MaxSend \in Nat
  /\ MaxRead \in Nat

VARIABLES
  s, w, waitingCount, \* the monitor
  buffer,        \* the list of messages, first to be read first
  next_pri,      \* member iterator: the node to insert a priority message after
  last,          \* member iterator: the node to insert a regular message after
  ret,           \* the message read_msg returned last
  i,             \* loop counter of each thread
  pc,            \* where each thread is
  args           \* the numbers given on the command line

Conditions == {"full", "empty"}

M == INSTANCE Monitor

bufferVars == <<buffer, next_pri, last, ret>>
vars == <<s, w, waitingCount, buffer, next_pri, last, ret, i, pc, args>>

NoMessage == [pri |-> 0, source |-> Reader, n |-> -1]
Messages == [pri : {0, 1}, source : Users, n : 0..MaxSend]

Count(t) == CASE t \in PriUsers -> args.pri
              [] t \in RegUsers -> args.reg
              [] OTHER          -> args.read

(* set_msg: the message a client sends, fixed before its loop. *)
Message(t) == [pri |-> IF t \in PriUsers THEN 1 ELSE 0, source |-> t, n |-> i[t]]

(* The condition a thread waits for, and the one it signals. *)
Awaits(t)  == IF t = Reader THEN "empty" ELSE "full"
Signals(t) == IF t = Reader THEN "full" ELSE "empty"

Goto(t, from, to) == pc[t] = from /\ pc' = [pc EXCEPT ![t] = to]

(* The head of a thread's loop: while(i < how_many). *)
LoopHead(t, passes) == IF passes < Count(t) THEN "enter" ELSE "done"

Init ==
  /\ M!MonitorInit
  /\ args \in [pri : 0..MaxSend, reg : 0..MaxSend, read : 0..MaxRead]
  /\ buffer = <<>>
  /\ next_pri = 0
  /\ last = 0
  /\ ret = NoMessage
  /\ i = [t \in Threads |-> 0]
  /\ pc = [t \in Threads |-> LoopHead(t, 0)]
------------------------------------------------------------------------------
(* enter() at the top of send_msg and read_msg. *)
Enter(t) ==
  /\ Goto(t, "enter", "test")
  /\ M!Enter
  /\ UNCHANGED <<bufferVars, i, args>>

(* Monitor::wait after ++waitingCount: leave(), and then block. *)
Unlock(t) ==
  /\ Goto(t, "unlock", "block")
  /\ M!Leave
  /\ UNCHANGED <<bufferVars, i, args>>

(* cond.wait() returns: the thread goes on after the if, without testing   *)
(* the size again.                                                         *)
Block(t) ==
  /\ Goto(t, "block", IF t = Reader THEN "pop" ELSE "find")
  /\ M!BlockOn(Awaits(t))
  /\ UNCHANGED <<bufferVars, i, args>>

(* The enter() inside Monitor::signal. *)
Reenter(t) ==
  /\ Goto(t, "reenter", "leave")
  /\ M!Enter
  /\ UNCHANGED <<bufferVars, i, args>>

(* if(get_size() == limit) wait(...), the test on entry. *)
TestAndWait(t, limit, otherwise) ==
  /\ \/ /\ Len(buffer) = limit
        /\ Goto(t, "test", "unlock")
        /\ M!Announce(Awaits(t))
     \/ /\ Len(buffer) # limit
        /\ Goto(t, "test", otherwise)
        /\ UNCHANGED <<s, w, waitingCount>>
  /\ UNCHANGED <<bufferVars, i, args>>

(* Faulty variant: the signaller goes on beside the thread it has woken. *)
TestAndSignalNoReenter(t, level) ==
  /\ \/ /\ Len(buffer) = level
        /\ Goto(t, "signal", "leave")
        /\ M!Wake(Signals(t)) \/ M!NobodyToWake(Signals(t))
     \/ /\ Len(buffer) # level
        /\ Goto(t, "signal", "leave")
        /\ UNCHANGED <<s, w, waitingCount>>
  /\ UNCHANGED <<bufferVars, i, args>>

(* if(get_size() == level) signal(...), the test before leave(). *)
TestAndSignal(t, level) ==
  /\ \/ /\ Len(buffer) = level
        /\ \/ Goto(t, "signal", "reenter") /\ M!Wake(Signals(t))
           \/ Goto(t, "signal", "leave") /\ M!NobodyToWake(Signals(t))
     \/ /\ Len(buffer) # level
        /\ Goto(t, "signal", "leave")
        /\ UNCHANGED <<s, w, waitingCount>>
  /\ UNCHANGED <<bufferVars, i, args>>
------------------------------------------------------------------------------
(* Faulty variants: find_next_pri stops one node too early, find_last at   *)
(* the head; the sizes tested are off by one.                              *)
find_next_pri_early == 
  LET n == Cardinality({k \in DOMAIN buffer : buffer[k].pri = 1})
  IN  IF n = 0 THEN 0 ELSE n - 1
find_last_head == 0
SendTestLate(u) == TestAndWait(u, CAPACITY + 1, "find")

(* The positions after which send_msg inserts; 0 is before_begin(). *)
find_next_pri == Cardinality({k \in DOMAIN buffer : buffer[k].pri = 1})
find_last == Len(buffer)

SendTest(u) == TestAndWait(u, CAPACITY, "find")

(* next_pri = find_next_pri() or last = find_last(). *)
SendFind(u) ==
  /\ Goto(u, "find", "insert")
  /\ \/ /\ Message(u).pri = 1
        /\ next_pri' = find_next_pri
        /\ UNCHANGED last
     \/ /\ Message(u).pri # 1
        /\ last' = find_last
        /\ UNCHANGED next_pri
  /\ UNCHANGED <<s, w, waitingCount, buffer, ret, i, args>>

(* buffer.insert_after, with the iterator found before. *)
SendInsert(u) ==
  /\ Goto(u, "insert", "signal")
  /\ LET node == IF Message(u).pri = 1 THEN next_pri ELSE last
     IN  buffer' = InsertAt(buffer, node + 1, Message(u))
  /\ UNCHANGED <<s, w, waitingCount, next_pri, last, ret, i, args>>

SendSignal(u) == TestAndSignal(u, 1)

(* leave(), and the end of the pass of the client's loop. *)
SendLeave(u) ==
  /\ i' = [i EXCEPT ![u] = @ + 1]
  /\ Goto(u, "leave", LoopHead(u, i[u] + 1))
  /\ M!Leave
  /\ UNCHANGED <<bufferVars, args>>
------------------------------------------------------------------------------
ReadTest == TestAndWait(Reader, 0, "pop")

(* ret = *buffer.begin(); buffer.pop_front() *)
ReadPop ==
  /\ Goto(Reader, "pop", "signal")
  /\ ret' = Head(buffer)
  /\ buffer' = Tail(buffer)
  /\ UNCHANGED <<s, w, waitingCount, next_pri, last, i, args>>

(* Faulty variant: the reader signals only when the list was overfull. *)
ReadSignalLate == TestAndSignal(Reader, CAPACITY)

ReadSignal == TestAndSignal(Reader, CAPACITY - 1)

ReadLeave ==
  /\ Goto(Reader, "leave", "count")
  /\ M!Leave
  /\ UNCHANGED <<bufferVars, i, args>>

(* reader() calls buffer->get_size() after read_msg has left the monitor:  *)
(* while the thread is at "count" it walks the list with no lock.  The     *)
(* number is only printed.                                                 *)
ReadCount ==
  /\ i' = [i EXCEPT ![Reader] = @ + 1]
  /\ Goto(Reader, "count", LoopHead(Reader, i[Reader] + 1))
  /\ UNCHANGED <<s, w, waitingCount, bufferVars, args>>
------------------------------------------------------------------------------
Synchronise(t) == Enter(t) \/ Unlock(t) \/ Block(t) \/ Reenter(t)

send_msg(u) ==
  SendTest(u) \/ SendFind(u) \/ SendInsert(u) \/ SendSignal(u) \/ SendLeave(u)

read_msg == ReadTest \/ ReadPop \/ ReadSignal \/ ReadLeave \/ ReadCount

User(u) == Synchronise(u) \/ send_msg(u)
ReaderThread == Synchronise(Reader) \/ read_msg

Next == (\E u \in Users : User(u)) \/ ReaderThread

(* Every thread that can run is eventually scheduled by the kernel.        *)
(* Nothing is assumed of the order in which semaphores wake their waiters. *)
Fairness == (\A u \in Users : WF_vars(User(u))) /\ WF_vars(ReaderThread)

Spec == Init /\ [][Next]_vars
FairSpec == Spec /\ Fairness
------------------------------------------------------------------------------
Locations == {"enter", "test", "unlock", "block", "find", "insert", "pop",
              "signal", "reenter", "leave", "count", "done"}

(* The places where a thread has the monitor to itself. *)
Inside == {"test", "unlock", "find", "insert", "pop", "signal", "leave"}

(* The semaphores of the monitor are binary, a thread is at a location of  *)
(* its own code, and the list holds only whole messages.                   *)
TypeOK ==
  /\ s \in {0, 1}
  /\ w \in [Conditions -> {0, 1}]
  /\ waitingCount \in [Conditions -> Nat]
  /\ buffer \in Seq(Messages)
  /\ next_pri \in Nat
  /\ last \in Nat
  /\ ret \in Messages \cup {NoMessage}
  /\ i \in [Threads -> Nat]
  /\ pc \in [Threads -> Locations]
  /\ \A u \in Users : pc[u] \notin {"pop", "count"}
  /\ pc[Reader] \notin {"find", "insert"}
  /\ args \in [pri : 0..MaxSend, reg : 0..MaxSend, read : 0..MaxRead]

(* The monitor promises mutual exclusion (monitor.h, and the report on     *)
(* it): no two threads are inside it at once, although a signal passes it  *)
(* from one thread to another without touching the entry semaphore.        *)
MutualExclusion ==
  \A t, u \in Threads : pc[t] \in Inside /\ pc[u] \in Inside => t = u

(* The list never exceeds the capacity and is never popped when empty,     *)
(* although both sizes are tested by an if before a wait and are not       *)
(* tested again after it.                                                  *)
BufferBounds ==
  /\ Len(buffer) <= CAPACITY
  /\ \A u \in Users : pc[u] \in {"find", "insert"} => Len(buffer) < CAPACITY
  /\ pc[Reader] = "pop" => buffer # <<>>

(* A priority message stands before every regular one: the iterator found  *)
(* by find_next_pri or find_last is still right when insert_after uses it. *)
PriorityFirst ==
  \A j, k \in DOMAIN buffer : j < k /\ buffer[k].pri = 1 => buffer[j].pri = 1

(* No wake-up is lost: signals are sent only at the sizes 1 and            *)
(* CAPACITY - 1, yet when the monitor is free nobody waits for room while  *)
(* there is some, or for a message while there is one.                     *)
NoLostWakeup ==
  s = 1 => /\ waitingCount["full"] > 0 => Len(buffer) = CAPACITY
           /\ waitingCount["empty"] > 0 => buffer = <<>>

(* The list serves as two FIFO queues, the priority one first; they part   *)
(* after as many messages as have priority.                                *)
Parting == Cardinality({k \in DOMAIN buffer : buffer[k].pri = 1})
Q == INSTANCE PriorityQueue WITH
       Capacity <- CAPACITY,
       priority <- SubSeq(buffer, 1, Parting),
       regular <- SubSeq(buffer, Parting + 1, Len(buffer)),
       last <- ret

(* The monitor and the single list implement the bounded pool of two       *)
(* queues: every step of every thread is one of its operations, or none.   *)
ImplementsPriorityQueue == Q!Spec

(* How many messages the clients send in all, and where the run ends.      *)
Total == Cardinality(PriUsers) * args.pri + Cardinality(RegUsers) * args.reg
Least(a, b) == IF a < b THEN a ELSE b
Settled ==
  /\ \A t \in Threads : pc[t] \in {"block", "done"}
  /\ Len(buffer) = Least(Total, args.read + CAPACITY) - Least(Total, args.read)

(* The program comes to rest, and only because the numbers on its command  *)
(* line do not match: the reader has got all it asked for or all there is, *)
(* and the clients have filled the list or sent all they had (tests 1 to 4 *)
(* of monitory/raport.pdf).                                                *)
Settles == <>[]Settled

(* The report's claim that shared data is synchronised by the monitor      *)
(* (monitory/raport.pdf, page 1): nobody walks the list while another      *)
(* thread is about to change it.                                           *)
ListOnlyInsideMonitor ==
  \A t, u \in Threads : pc[t] = "count" => pc[u] \notin {"insert", "pop"} \/ t = u
==============================================================================
