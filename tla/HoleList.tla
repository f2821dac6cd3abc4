------------------------------- MODULE HoleList -------------------------------
(***************************************************************************)
(* The hole list as pamiec/usr/src/mm/alloc.c keeps it: entries of an      *)
(* array, linked by h_next into the list of holes and the list of unused   *)
(* entries.  The functions of the file that walk the list do so step by    *)
(* step, with the pointers they keep; some of these have no value yet when *)
(* a loop begins.  HoleTable has the same functions on a sequence: the     *)
(* history variable promised is the table they make of it.                 *)
(***************************************************************************)
EXTENDS HoleTable

CONSTANTS
  SwapStart,        \* swap_base: the first click of the swap area
  Highest,         \* the clicks of memory and of the swap area are below it
  Requests         \* sizes in clicks asked for

ASSUME ListAssumption ==
  /\ NR_PROCS \in Nat \ {0}
  /\ SwapStart \in Nat \ {0} /\ Highest \in Nat
  /\ Requests \subseteq Nat \ {0}

VARIABLES
  store,           \* the array, hole_head and free_slots
  loop,            \* the loop under way and its pointers
  outside,         \* clicks that are not MM's: of processes, or not in use yet
  promised         \* history: the table of HoleTable

listVars == <<store, loop, outside, promised>>

NIL_HOLE == 0
Entries == 1..NR_HOLES       \* &hole[0], &hole[1], ...
Pointers == Entries \cup {NIL_HOLE}

Stores == [h_next : [Entries -> Pointers], h_base : [Entries -> Nat],
           h_len : [Entries -> Nat], hole_head : Pointers, free_slots : Pointers]

NoLoop == [at |-> "idle", base |-> 0, clicks |-> 0, new_ptr |-> NIL_HOLE, hp |-> NIL_HOLE,
           prev_ptr |-> NIL_HOLE, max_hole |-> NIL_HOLE, prev_to_max |-> NIL_HOLE]

(* mem_init, before the first chunk: every entry is on the list of unused. *)
ListInit ==
  /\ store = [h_next |-> [e \in Entries |-> IF e = NR_HOLES THEN NIL_HOLE ELSE e + 1],
              h_base |-> [e \in Entries |-> 0], h_len |-> [e \in Entries |-> 0],
              hole_head |-> NIL_HOLE, free_slots |-> 1]
  /\ loop = NoLoop
  /\ outside = 0..Highest - 1 \ {SwapStart - 1}
  /\ promised = EmptyTable
------------------------------------------------------------------------------
(* Faulty variant: the entry is not put on the list of unused ones. *)
DropEntry(s, prev_ptr, hp) ==
  IF hp = s.hole_head THEN [s EXCEPT !.hole_head = s.h_next[hp]]
                      ELSE [s EXCEPT !.h_next[prev_ptr] = s.h_next[hp]]

(* del_slot: out of the list of holes, and to the front of the unused. *)
DeleteEntry(s, prev_ptr, hp) ==
  LET out == IF hp = s.hole_head THEN [s EXCEPT !.hole_head = s.h_next[hp]]
                                 ELSE [s EXCEPT !.h_next[prev_ptr] = s.h_next[hp]]
  IN  [out EXCEPT !.h_next[hp] = s.free_slots, !.free_slots = hp]

(* merge: hp absorbs its successor if they touch, and then hp, or else the *)
(* successor, does the same.                                               *)
Abuts(s, hp) ==
  /\ s.h_next[hp] # NIL_HOLE
  /\ s.h_base[hp] + s.h_len[hp] = s.h_base[s.h_next[hp]]

AbsorbNext(s, hp) ==
  IF Abuts(s, hp)
  THEN DeleteEntry([s EXCEPT !.h_len[hp] = @ + s.h_len[s.h_next[hp]]], hp, s.h_next[hp])
  ELSE s

MergeHoles(s, hp) ==
  IF Abuts(s, hp) THEN AbsorbNext(AbsorbNext(s, hp), hp)
  ELSE IF s.h_next[hp] = NIL_HOLE THEN s ELSE AbsorbNext(s, s.h_next[hp])

(* free_mem, before the search: the first unused entry is filled in. *)
FillEntry(s, base, clicks) ==
  [s EXCEPT !.h_base[s.free_slots] = base, !.h_len[s.free_slots] = clicks,
            !.free_slots = s.h_next[s.free_slots]]

(* The two places it can go to. *)
LinkInFront(s, new_ptr) ==
  [s EXCEPT !.h_next[new_ptr] = s.hole_head, !.hole_head = new_ptr]
LinkBehind(s, prev_ptr, new_ptr) ==
  [s EXCEPT !.h_next[new_ptr] = s.h_next[prev_ptr], !.h_next[prev_ptr] = new_ptr]

(* alloc_mem and swap_out: a piece bitten off a hole. *)
TakePiece(s, prev_ptr, hp, clicks) ==
  LET rest == [s EXCEPT !.h_base[hp] = @ + clicks, !.h_len[hp] = @ - clicks]
  IN  IF rest.h_len[hp] = 0 THEN DeleteEntry(rest, prev_ptr, hp) ELSE rest
------------------------------------------------------------------------------
(* A caller gives back a block that it has: a process its memory or swap   *)
(* space, the kernel a chunk, swap_on the swap area.  Any block of outside *)
(* can be given back, so more of them than the callers of MM ever have.    *)
Block(base, clicks) == base..base + clicks - 1
MayFree(base, clicks) == loop.at = "idle" /\ clicks > 0 /\ Block(base, clicks) \subseteq outside

HoleTableFull(base, clicks) ==
  /\ MayFree(base, clicks) /\ store.free_slots = NIL_HOLE
  /\ loop' = [NoLoop EXCEPT !.at = "panic"]
  /\ promised' = free_mem(promised, base, clicks)
  /\ UNCHANGED <<store, outside>>

GoesInFront(base) ==
  store.hole_head # NIL_HOLE => base <= store.h_base[store.hole_head]

FreeInFront(base, clicks) ==
  /\ MayFree(base, clicks) /\ store.free_slots # NIL_HOLE /\ GoesInFront(base)
  /\ store' = MergeHoles(LinkInFront(FillEntry(store, base, clicks), store.free_slots),
                         store.free_slots)
  /\ outside' = outside \ Block(base, clicks)
  /\ promised' = free_mem(promised, base, clicks)
  /\ UNCHANGED loop

(* Otherwise its place is looked for.  prev_ptr has no value yet. *)
FreeBehind(base, clicks, garbage) ==
  /\ MayFree(base, clicks) /\ store.free_slots # NIL_HOLE /\ ~ GoesInFront(base)
  /\ store' = FillEntry(store, base, clicks)
  /\ loop' = [NoLoop EXCEPT !.at = "free_mem", !.base = base, !.clicks = clicks,
                            !.new_ptr = store.free_slots, !.hp = store.hole_head,
                            !.prev_ptr = garbage]
  /\ UNCHANGED <<outside, promised>>

(* The loops of alloc_mem for first fit and worst fit, and of swap_out.    *)
(* prev_ptr of first fit has no value yet, or one of the search before     *)
(* swap_out was called.                                                    *)
Search(which, clicks, garbage) ==
  /\ loop.at = "idle"
  /\ loop' = [NoLoop EXCEPT !.at = which, !.clicks = clicks, !.hp = store.hole_head,
                            !.prev_ptr = IF which = "first_fit" THEN garbage ELSE NIL_HOLE,
                            !.max_hole = IF which = "worst_fit" THEN store.hole_head
                                                                ELSE NIL_HOLE]
  /\ UNCHANGED <<store, outside, promised>>
------------------------------------------------------------------------------
(* The conditions under which a loop goes on to the next hole. *)
InMemory(hp) == store.h_base[hp] < SwapStart
Enough(hp) == store.h_len[hp] >= loop.clicks

(* Faulty variant: first fit does not look at the size. *)
GoesOnAnySize ==
  /\ loop.hp # NIL_HOLE
  /\ \/ loop.at = "free_mem" /\ loop.base > store.h_base[loop.hp]
     \/ loop.at = "worst_fit" /\ InMemory(loop.hp)
     \/ loop.at = "swap_out" /\ ~ (~ InMemory(loop.hp) /\ Enough(loop.hp))

GoesOn ==
  /\ loop.hp # NIL_HOLE
  /\ \/ loop.at = "free_mem" /\ loop.base > store.h_base[loop.hp]
     \/ loop.at = "first_fit" /\ InMemory(loop.hp) /\ ~ Enough(loop.hp)
     \/ loop.at = "worst_fit" /\ InMemory(loop.hp)
     \/ loop.at = "swap_out" /\ ~ (~ InMemory(loop.hp) /\ Enough(loop.hp))

(* Faulty variant: prev_to_max is taken after prev_ptr has moved on. *)
NextHoleFirst ==
  LET larger == loop.at = "worst_fit" /\ store.h_len[loop.hp] > store.h_len[loop.max_hole]
  IN  [loop EXCEPT !.prev_ptr = loop.hp, !.hp = store.h_next[loop.hp],
                   !.max_hole = IF larger THEN loop.hp ELSE @,
                   !.prev_to_max = IF larger THEN loop.hp ELSE @]

NextHole ==
  LET larger == loop.at = "worst_fit" /\ store.h_len[loop.hp] > store.h_len[loop.max_hole]
  IN  [loop EXCEPT !.prev_ptr = loop.hp, !.hp = store.h_next[loop.hp],
                   !.max_hole = IF larger THEN loop.hp ELSE @,
                   !.prev_to_max = IF larger THEN loop.prev_ptr ELSE @]

Turn == GoesOn /\ loop' = NextHole /\ UNCHANGED <<store, outside, promised>>

FreeFound ==
  /\ loop.at = "free_mem" /\ ~ GoesOn
  /\ store' = MergeHoles(LinkBehind(store, loop.prev_ptr, loop.new_ptr), loop.prev_ptr)
  /\ outside' = outside \ Block(loop.base, loop.clicks)
  /\ promised' = free_mem(promised, loop.base, loop.clicks)
  /\ loop' = NoLoop

(* What a search has ended with: a hole and the one ahead of it, or none.  *)
(* First fit also ends, with nothing, at the first hole of the swap area.  *)
Found ==
  CASE loop.at = "first_fit" -> IF loop.hp # NIL_HOLE /\ InMemory(loop.hp)
                                THEN <<loop.prev_ptr, loop.hp>> ELSE <<>>
    [] loop.at = "worst_fit" -> IF loop.max_hole # NIL_HOLE /\ Enough(loop.max_hole)
                                THEN <<loop.prev_to_max, loop.max_hole>> ELSE <<>>
    [] loop.at = "swap_out"  -> IF loop.hp # NIL_HOLE
                                THEN <<loop.prev_ptr, loop.hp>> ELSE <<>>

(* The hole that HoleTable takes. *)
PromisedHole ==
  CASE loop.at = "first_fit" -> FirstFit(promised, SwapStart, loop.clicks)
    [] loop.at = "worst_fit" -> WorstFit(promised, SwapStart, loop.clicks)
    [] loop.at = "swap_out"  -> SwapHole(promised, SwapStart, loop.clicks)

SearchEnds ==
  /\ loop.at \in {"first_fit", "worst_fit", "swap_out"} /\ ~ GoesOn
  /\ IF Found = <<>> THEN UNCHANGED <<store, outside>>
     ELSE /\ store' = TakePiece(store, Found[1], Found[2], loop.clicks)
          /\ outside' = outside \cup Block(store.h_base[Found[2]], loop.clicks)
  /\ promised' = IF PromisedHole = 0 THEN promised
                 ELSE Bite(promised, PromisedHole, loop.clicks)
  /\ loop' = NoLoop
------------------------------------------------------------------------------
(* swap_off, when nobody is on swap: what is in use of the swap area, from *)
(* its start, is free.  prev_ptr has no value yet.                         *)
SwapClicks == SwapStart..Highest - 1

SwapOffBegins(garbage) ==
  /\ loop.at = "idle"
  /\ \E n \in SwapStart..Highest : outside \cap SwapClicks = n..Highest - 1
  /\ loop' = [NoLoop EXCEPT !.at = "swap_off", !.hp = store.hole_head, !.prev_ptr = garbage]
  /\ UNCHANGED <<store, outside, promised>>

CloseSwap ==
  /\ outside' = outside \cup SwapClicks
  /\ promised' = DropSwapHoles(promised, SwapStart)
  /\ loop' = NoLoop

(* One turn.  After a removal the loop starts again at hole_head and steps *)
(* over it at once: if there is no hole, the word at h_next of NIL_HOLE    *)
(* ends the loop if it happens to be 0, and else nothing is defined.       *)
SwapOffTurn ==
  /\ loop.at = "swap_off" /\ loop.hp # NIL_HOLE
  /\ LET s == IF InMemory(loop.hp) THEN store
              ELSE DeleteEntry(store, loop.prev_ptr, loop.hp)
         hp == IF InMemory(loop.hp) THEN loop.hp ELSE s.hole_head
     IN  /\ store' = s
         /\ \/ /\ hp # NIL_HOLE
               /\ loop' = [loop EXCEPT !.prev_ptr = hp, !.hp = s.h_next[hp]]
               /\ UNCHANGED <<outside, promised>>
            \/ /\ hp = NIL_HOLE
               /\ CloseSwap
            \/ /\ hp = NIL_HOLE
               /\ loop' = [NoLoop EXCEPT !.at = "undefined"]
               /\ UNCHANGED <<outside, promised>>

SwapOffEnds ==
  /\ loop.at = "swap_off" /\ loop.hp = NIL_HOLE
  /\ CloseSwap
  /\ UNCHANGED store
------------------------------------------------------------------------------
ListNext ==
  \/ \E base \in 0..Highest, clicks \in 1..Highest :
       HoleTableFull(base, clicks) \/ FreeInFront(base, clicks)
  \/ \E base \in 0..Highest, clicks \in 1..Highest, garbage \in Pointers :
       FreeBehind(base, clicks, garbage)
  \/ \E which \in {"first_fit", "worst_fit", "swap_out"}, clicks \in Requests :
       \E garbage \in Pointers : Search(which, clicks, garbage)
  \/ Turn \/ FreeFound \/ SearchEnds
  \/ \E garbage \in Pointers : SwapOffBegins(garbage)
  \/ SwapOffTurn \/ SwapOffEnds

ListSpec == ListInit /\ [][ListNext]_listVars
------------------------------------------------------------------------------
ListTypeOK ==
  /\ store \in Stores /\ promised \in Tables
  /\ outside \subseteq Nat
  /\ loop \in [at : {"idle", "free_mem", "first_fit", "worst_fit", "swap_out", "swap_off",
                     "panic", "undefined"},
               base : Nat, clicks : Nat, new_ptr : Pointers, hp : Pointers,
               prev_ptr : Pointers, max_hole : Pointers, prev_to_max : Pointers]

(* The entries from a head on, as a sequence. *)
Nth(l, k) == IF k \in DOMAIN l THEN l[k] ELSE NIL_HOLE
Follows(s, head, l) ==
  head = Nth(l, 1) /\ \A k \in DOMAIN l : s.h_next[l[k]] = Nth(l, k + 1)

(* Every entry is in one place: on one of the two lists, or in hand. *)
EachOnce(l, f, hand) ==
  /\ \A j, k \in DOMAIN l : l[j] = l[k] => j = k
  /\ \A j, k \in DOMAIN f : f[j] = f[k] => j = k
  /\ \A j \in DOMAIN l, k \in DOMAIN f : l[j] # f[k]
  /\ \A e \in Entries : e \in hand <=> e \notin Range(l) \cup Range(f)

Spells(s, l, list) ==
  Len(l) = Len(list) /\ \A k \in DOMAIN l : Hole(s.h_base[l[k]], s.h_len[l[k]]) = list[k]

InHand == IF loop.at = "free_mem" THEN {loop.new_ptr} ELSE {}

(* Between two calls, and while a search is under way, the links spell the *)
(* holes of the table in their order, and the list of unused entries has   *)
(* as many as the table says (alloc.c:106-223): no entry is lost, none on  *)
(* both lists, and neither list runs in a circle.  free_mem panics exactly *)
(* when the table has no slot.                                             *)
LinksAreTable ==
  /\ loop.at \notin {"swap_off", "undefined"} =>
       \E l \in [1..Len(promised.list) -> Entries] :
         /\ Follows(store, store.hole_head, l) /\ Spells(store, l, promised.list)
         /\ \E f \in [1..promised.free - Cardinality(InHand) -> Entries] :
              Follows(store, store.free_slots, f) /\ EachOnce(l, f, InHand)
  /\ loop.at = "panic" <=> promised.panic

(* prev_ptr and prev_to_max point to the hole ahead of the one that will   *)
(* be deleted whenever that one is not the head: the pointers that had no  *)
(* value (alloc.c:67, 135, 303) or a stale one after swap_out are not      *)
(* followed.                                                               *)
IsAhead(prev_ptr, hp) ==
  hp # store.hole_head => prev_ptr # NIL_HOLE /\ store.h_next[prev_ptr] = hp

NoStrayPointer ==
  /\ loop.at \notin {"idle", "panic", "undefined"} => IsAhead(loop.prev_ptr, loop.hp)
  /\ loop.at = "worst_fit" => IsAhead(loop.prev_to_max, loop.max_hole)
  /\ loop.at = "free_mem" /\ ~ GoesOn => loop.hp # store.hole_head
==============================================================================
