------------------------------- MODULE Monitor -------------------------------
(***************************************************************************)
(* The monitor of monitory/monitor.h: an entry semaphore s and, for each   *)
(* condition variable, a semaphore w and a count of announced waiters.     *)
(* A signal that finds a waiter hands the monitor over to it: s is not     *)
(* raised, and the signalling thread queues up at s again.                 *)
(***************************************************************************)
EXTENDS Naturals

CONSTANT Conditions      \* the condition variables of the monitor

VARIABLES
  s,                     \* value of the entry semaphore
  w,                     \* value of the semaphore of each condition
  waitingCount           \* announced waiters of each condition

monitorVars == <<s, w, waitingCount>>

MonitorInit ==
  /\ s = 1
  /\ w = [c \in Conditions |-> 0]
  /\ waitingCount = [c \in Conditions |-> 0]

(* Monitor::enter is s.p(): blocks while s is 0. *)
Enter ==
  /\ s > 0
  /\ s' = s - 1
  /\ UNCHANGED <<w, waitingCount>>

(* Monitor::leave is s.v(). *)
Leave ==
  /\ s' = s + 1
  /\ UNCHANGED <<w, waitingCount>>

(* The three steps of Monitor::wait(c): count oneself, leave, block on c.  *)
(* Another thread may run between any two of them.                         *)
Announce(c) ==
  /\ waitingCount' = [waitingCount EXCEPT ![c] = @ + 1]
  /\ UNCHANGED <<s, w>>

BlockOn(c) ==
  /\ w[c] > 0
  /\ w' = [w EXCEPT ![c] = @ - 1]
  /\ UNCHANGED <<s, waitingCount>>

(* Faulty variant: the waiter is not counted off when it is woken. *)
WakeUncounted(c) ==
  /\ waitingCount[c] > 0
  /\ w' = [w EXCEPT ![c] = @ + 1]
  /\ UNCHANGED <<s, waitingCount>>

(* Condition::signal, when a waiter is announced: TRUE is returned and     *)
(* Monitor::signal goes on to enter() again.                               *)
Wake(c) ==
  /\ waitingCount[c] > 0
  /\ waitingCount' = [waitingCount EXCEPT ![c] = @ - 1]
  /\ w' = [w EXCEPT ![c] = @ + 1]
  /\ UNCHANGED s

(* Condition::signal, when nobody waits: no effect. *)
NobodyToWake(c) ==
  /\ waitingCount[c] = 0
  /\ UNCHANGED monitorVars
==============================================================================
