------------------------------- MODULE PhysMem -------------------------------
(***************************************************************************)
(* What a memory manager promises, whatever its tables look like: every    *)
(* click is free or belongs to one process, a process has one contiguous   *)
(* block, and memory is never lost.                                        *)
(***************************************************************************)
EXTENDS Integers

CONSTANTS
  Procs,        \* the processes
  Memory        \* the clicks of memory there are at the start

VARIABLES
  free,         \* the clicks nobody has
  block         \* the clicks each process has

vars == <<free, block>>

Init ==
  /\ free = Memory
  /\ block = [p \in Procs |-> {}]

(* A process gets a block and gives back the one it had, if any. *)
Give(p, first, last) ==
  /\ first..last \subseteq free
  /\ block' = [block EXCEPT ![p] = first..last]
  /\ free' = (free \ (first..last)) \cup block[p]

TakeBack(p) ==
  /\ block' = [block EXCEPT ![p] = {}]
  /\ free' = free \cup block[p]

(* Swap space comes, as clicks that nobody has, and goes when it is free. *)
Extend ==
  /\ free \subseteq free'
  /\ \A p \in Procs : free' \cap block[p] = {}
  /\ UNCHANGED block

Shrink ==
  /\ free' \subseteq free
  /\ free \cap Memory \subseteq free'
  /\ UNCHANGED block

Next ==
  \/ \E p \in Procs : \E first, last \in free : Give(p, first, last)
  \/ \E p \in Procs : TakeBack(p)
  \/ Extend
  \/ Shrink

Spec == Init /\ [][Next]_vars

(* No click is in two hands, and no click of memory in none. *)
Accounted ==
  /\ \A p \in Procs : free \cap block[p] = {}
  /\ \A p, q \in Procs : p # q => block[p] \cap block[q] = {}
  /\ Memory \subseteq free \cup UNION {block[p] : p \in Procs}
==============================================================================
