------------------------------ MODULE MCHoleList ------------------------------
(***************************************************************************)
(* HoleList with four entries, for the clicks 0 to 4 of memory and 6 and 7 *)
(* of the swap area: four holes fit, none of which touches another.        *)
(***************************************************************************)
EXTENDS HoleList

(* The entries from one on. *)
From(e) ==
  LET reach[n \in 0..NR_HOLES] ==
        IF n = 0 THEN {e} \ {NIL_HOLE}
        ELSE reach[n - 1] \cup ({store.h_next[d] : d \in reach[n - 1]} \ {NIL_HOLE})
  IN  reach[NR_HOLES]

(* The numbers left in an unused entry are written before they are read,   *)
(* so states that differ in nothing else are the same.                     *)
ReadNumbers ==
  LET unused == From(store.free_slots) \ From(store.hole_head)
      Blank(numbers) == [e \in Entries |-> IF e \in unused THEN 0 ELSE numbers[e]]
  IN  <<[store EXCEPT !.h_base = Blank(@), !.h_len = Blank(@)], loop, outside, promised>>
==============================================================================
