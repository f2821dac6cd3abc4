------------------------------ MODULE HoleTable ------------------------------
(***************************************************************************)
(* The hole table of pamiec/usr/src/mm/alloc.c: the list of holes, sorted  *)
(* by address, and the number of table slots not in use.  The operators    *)
(* are the functions of that file that only change the table.              *)
(***************************************************************************)
EXTENDS Integers, Sequences, FiniteSets, SequencesExt

CONSTANT NR_PROCS        \* number of process slots for users

NR_HOLES == 2 * NR_PROCS

Holes == [base : Nat, len : Nat]

(* A table: the holes in list order, the unused slots, and whether MM has  *)
(* panicked with "Hole table full".                                        *)
Tables == [list : Seq(Holes), free : 0..NR_HOLES, panic : BOOLEAN]
EmptyTable == [list |-> <<>>, free |-> NR_HOLES, panic |-> FALSE]

Hole(base, len) == [base |-> base, len |-> len]
HoleEnd(h) == h.base + h.len

(* del_slot: the k-th hole leaves the list and its slot is free again. *)
del_slot(t, k) == [t EXCEPT !.list = RemoveAt(@, k), !.free = @ + 1]

(* One half of merge: a hole absorbs its successor if they touch. *)
Touches(t, k) == k < Len(t.list) /\ HoleEnd(t.list[k]) = t.list[k + 1].base

(* Faulty variant: the memory of the successor is not added. *)
AbsorbNoLen(t, k) == IF Touches(t, k) THEN del_slot(t, k + 1) ELSE t

Absorb(t, k) ==
  IF Touches(t, k)
  THEN del_slot([t EXCEPT !.list[k].len = @ + t.list[k + 1].len], k + 1)
  ELSE t

merge(t, k) ==
  IF Touches(t, k) THEN Absorb(Absorb(t, k), k) ELSE Absorb(t, k + 1)

(* The first hole, from the head, that satisfies a test; 0 is NIL_HOLE. *)
FirstHole(t, Test(_)) ==
  LET found == {k \in DOMAIN t.list : Test(t.list[k])}
  IN  IF found = {} THEN 0 ELSE Min(found)

(* Where a block goes: before the first hole at a higher address. *)
Place(t, base) ==
  LET Beyond(h) == base <= h.base
      k == FirstHole(t, Beyond)
  IN  IF k = 0 THEN Len(t.list) + 1 ELSE k

(* Faulty variant: only the new hole absorbs, never the one before it. *)
MergeFromNew(p) == p

(* The first of the three holes that may touch. *)
MergeFrom(p) == IF p = 1 THEN 1 ELSE p - 1

(* free_mem: a new hole in its place, merged with its neighbours.  It      *)
(* needs a slot even when the hole will be absorbed at once.               *)
free_mem(t, base, clicks) ==
  IF clicks = 0 THEN t
  ELSE IF t.free = 0 THEN [t EXCEPT !.panic = TRUE]
  ELSE LET p == Place(t, base)
       IN  merge([t EXCEPT !.list = InsertAt(@, p, Hole(base, clicks)),
                           !.free = @ - 1],
                 MergeFrom(p))

(* Take clicks from the start of the k-th hole; delete it when used up. *)
Bite(t, k, clicks) ==
  LET bitten == [t EXCEPT !.list[k] = Hole(@.base + clicks, @.len - clicks)]
  IN  IF bitten.list[k].len = 0 THEN del_slot(bitten, k) ELSE bitten
------------------------------------------------------------------------------
(* Faulty variant: a scan that goes on into the swap area. *)
MemoryHolesAll(t, swap_base) == DOMAIN t.list

(* The holes a scan passes that stops at the first one of the swap area. *)
MemoryHoles(t, swap_base) ==
  {k \in DOMAIN t.list : \A j \in 1..k : t.list[j].base < swap_base}

(* Faulty variants: a hole of exactly the size asked for is passed over;   *)
(* the size is not looked at.                                              *)
FirstFitStrict(t, swap_base, clicks) ==
  LET fits == {k \in MemoryHoles(t, swap_base) : t.list[k].len > clicks}
  IN  IF fits = {} THEN 0 ELSE Min(fits)
FirstFitAnySize(t, swap_base, clicks) ==
  IF MemoryHoles(t, swap_base) = {} THEN 0 ELSE 1

(* alloc_mem, !worst_fit: the first hole that is big enough. *)
FirstFit(t, swap_base, clicks) ==
  LET fits == {k \in MemoryHoles(t, swap_base) : t.list[k].len >= clicks}
  IN  IF fits = {} THEN 0 ELSE Min(fits)

(* alloc_mem, worst_fit: max_hole starts at hole_head, whatever area the   *)
(* head is in, and moves to each larger memory hole.                       *)
WorstFit(t, swap_base, clicks) ==
  LET seen == MemoryHoles(t, swap_base) \cup (DOMAIN t.list \cap {1})
      largest == {k \in seen : \A j \in seen : t.list[j].len <= t.list[k].len}
  IN  IF seen = {} \/ t.list[Min(largest)].len < clicks THEN 0 ELSE Min(largest)

(* swap_out: the first swap hole that is big enough. *)
SwapHole(t, swap_base, clicks) ==
  LET Fits(h) == h.base >= swap_base /\ h.len >= clicks
  IN  FirstHole(t, Fits)

(* The members of a finite set of numbers from the least to the greatest.  *)
Ascending(S) ==
  CHOOSE s \in [1..Cardinality(S) -> S] : \A j, k \in DOMAIN s : j < k => s[j] < s[k]

(* swap_off: the loop that removes the swap holes.  After each removal it  *)
(* starts again at hole_head and steps over it at once.                    *)
DropSwapHoles(t, swap_base) ==
  LET Swap(h) == h.base >= swap_base
      k == FirstHole(t, Swap)
      rest == del_slot(t, k).list
      kept == Ascending({j \in DOMAIN rest : j = 1 \/ ~ Swap(rest[j])})
  IN  IF k = 0 THEN t
      ELSE [t EXCEPT !.list = [j \in DOMAIN kept |-> rest[kept[j]]],
                     !.free = @ + Len(t.list) - Len(kept)]

(* swap_off steps over a head that is not there: h_next of NIL_HOLE.       *)
StepsOverNil(t, swap_base) == Len(t.list) = 1 /\ t.list[1].base >= swap_base
------------------------------------------------------------------------------
(* mem_init: one hole for each chunk the kernel has, and the swap area one *)
(* click above the highest of them.                                        *)
mem_init(chunks) ==
  LET loaded[k \in 0..Len(chunks)] ==
        IF k = 0 THEN EmptyTable
        ELSE free_mem(loaded[k - 1], chunks[k].base, chunks[k].len)
  IN  loaded[Len(chunks)]

swap_base_of(chunks) == Max({HoleEnd(c) : c \in Range(chunks)}) + 1
==============================================================================
