-------------------------------- MODULE Deque --------------------------------
(***************************************************************************)
(* What the queue of the semaphore chats promises: priority messages jump  *)
(* to the front (so the latest of them is read first), regular messages    *)
(* line up at the end, and there are never more than Capacity of them.     *)
(***************************************************************************)
EXTENDS Naturals, Sequences

CONSTANTS Messages, Capacity

VARIABLE content      \* the messages not read yet, first to be read first

Init == content = <<>>

Push(m) ==
  /\ Len(content) < Capacity
  /\ content' = IF m.pri = 1 THEN <<m>> \o content ELSE Append(content, m)

Pop == content # <<>> /\ content' = Tail(content)

(* A new run of the program begins with an empty queue. *)
Reset == content' = <<>>

Next == (\E m \in Messages : Push(m)) \/ Pop \/ Reset

Spec == Init /\ [][Next]_content
==============================================================================
