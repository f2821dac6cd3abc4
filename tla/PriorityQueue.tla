---------------------------- MODULE PriorityQueue ----------------------------
(***************************************************************************)
(* What the chat promises, without monitors or lists: a bounded pool of    *)
(* two FIFO queues.  A message is put at the end of the queue of its       *)
(* priority; the reader takes a priority message whenever there is one,    *)
(* and otherwise the oldest regular message.                               *)
(***************************************************************************)
EXTENDS Naturals, Sequences

CONSTANTS
  Messages,     \* the messages the clients may send, records with a field pri
  Capacity,     \* how many messages the pool holds at most
  NoMessage     \* what the reader holds before it has read anything

VARIABLES
  priority,     \* the priority messages not read yet, oldest first
  regular,      \* the regular messages not read yet, oldest first
  last          \* the message the reader got last

vars == <<priority, regular, last>>

Init ==
  /\ priority = <<>>
  /\ regular = <<>>
  /\ last = NoMessage

Put(m) ==
  /\ Len(priority) + Len(regular) < Capacity
  /\ \/ /\ m.pri = 1
        /\ priority' = Append(priority, m)
        /\ UNCHANGED regular
     \/ /\ m.pri # 1
        /\ regular' = Append(regular, m)
        /\ UNCHANGED priority
  /\ UNCHANGED last

TakePriority ==
  /\ priority # <<>>
  /\ last' = Head(priority)
  /\ priority' = Tail(priority)
  /\ UNCHANGED regular

TakeRegular ==
  /\ priority = <<>>
  /\ regular # <<>>
  /\ last' = Head(regular)
  /\ regular' = Tail(regular)
  /\ UNCHANGED priority

Next ==
  \/ \E m \in Messages : Put(m)
  \/ TakePriority
  \/ TakeRegular

Spec == Init /\ [][Next]_vars
==============================================================================
