------------------------------ MODULE ReadyQueue ------------------------------
(***************************************************************************)
(* What the user queue of the scheduler promises: those that are ready     *)
(* stand in a line; the first may be sent to the end of it, and nobody     *)
(* else changes places.                                                    *)
(***************************************************************************)
EXTENDS Sequences, SequencesExt

CONSTANT Procs

VARIABLE line

Init == line = <<>>

Join(p) == p \notin Range(line) /\ (line' = <<p>> \o line \/ line' = Append(line, p))
Quit(p) == \E k \in DOMAIN line : line[k] = p /\ line' = RemoveAt(line, k)
Rotate == line # <<>> /\ line' = Append(Tail(line), Head(line))

Next == (\E p \in Procs : Join(p) \/ Quit(p)) \/ Rotate

Spec == Init /\ [][Next]_line
==============================================================================
