------------------------------ MODULE RingQueue ------------------------------
(***************************************************************************)
(* struct Queue of semafory/czacik.c and semafory/chatting.c: a table used *)
(* as a ring, read at head, written before head or at tail.  send_msg and  *)
(* read_msg come in two parts, since the fields are separate words of      *)
(* shared memory: first the slot and its index, then size.                 *)
(***************************************************************************)
EXTENDS Integers, Sequences

CONSTANT BUFFER_SIZE

Blank == [pri |-> 0, n |-> 0]       \* shared memory is zeroed when created

NewQueue == [table |-> [k \in 0..BUFFER_SIZE - 1 |-> Blank],
             head |-> 0, tail |-> 0, size |-> 0]

queue_init(q) == [q EXCEPT !.head = 0, !.tail = 0, !.size = 0]

After(k) == (k + 1) % BUFFER_SIZE

(* Faulty variant: an index that has come to 0 stays there. *)
BeforeStops(k) == IF k - 1 < 0 THEN 0 ELSE k - 1

Before(k) == IF k - 1 < 0 THEN BUFFER_SIZE - 1 ELSE k - 1

(* A priority message goes before the head, another one to the tail. *)
SendSlot(q, m) ==
  IF m.pri = 1
  THEN [q EXCEPT !.head = Before(q.head), !.table[Before(q.head)] = m]
  ELSE [q EXCEPT !.table[q.tail] = m, !.tail = After(q.tail)]

ReadSlot(q) == [q EXCEPT !.head = After(q.head)]

Counted(q, d) == [q EXCEPT !.size = @ + d]

(* The n messages from the head on. *)
Content(q, n) == [k \in 1..n |-> q.table[(q.head + k - 1) % BUFFER_SIZE]]
==============================================================================
