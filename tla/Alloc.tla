-------------------------------- MODULE Alloc --------------------------------
(***************************************************************************)
(* Allocation of physical memory and swapping in the memory manager (MM)   *)
(* of pamiec/usr/src/mm/alloc.c, with the worst-fit policy and the hole    *)
(* map added to it.                                                        *)
(*                                                                         *)
(* MM serves one request at a time.  alloc_mem may swap processes out, one *)
(* after the other, and is called by swap_in for each process of a queue;  *)
(* pc says how far it has got, and every step is one turn of these loops.  *)
(* The callers (fork, exec, exit, signals) are other files of MM that are  *)
(* not in this repository: only what they do to the state of alloc.c is    *)
(* modelled.                                                               *)
(***************************************************************************)
EXTENDS HoleTable

CONSTANTS
  Chunks,          \* the chunks of memory the kernel reports, <<[base, len], ...>>
  AddressSpace,    \* number of clicks a phys_clicks can address
  Sizes,           \* sizes in clicks of the processes
  SwapSizes,       \* sizes in clicks given to swap_on
  Policies,        \* numbers given to do_worst_fit
  UINTS,           \* number of values of an unsigned int
  BufferSizes      \* sizes in bytes given to do_hole_map, of type int

Procs == 0..NR_PROCS - 1     \* LOW_USER is 0

ASSUME AllocAssumption ==
  /\ NR_PROCS \in Nat \ {0}
  /\ Chunks \in Seq([base : Nat, len : Nat \ {0}]) /\ Chunks # <<>>
  /\ \A j, k \in DOMAIN Chunks :
       j < k => HoleEnd(Chunks[j]) <= Chunks[k].base \/ HoleEnd(Chunks[k]) <= Chunks[j].base
  /\ AddressSpace \in Nat /\ swap_base_of(Chunks) <= AddressSpace
  /\ Sizes \subseteq Nat \ {0}
  /\ SwapSizes \subseteq Nat
  /\ UINTS \in Nat /\ UINTS % 2 = 0 /\ UINTS >= 16 * (NR_HOLES + 2)
  /\ BufferSizes \subseteq -(UINTS \div 2)..(UINTS \div 2) - 1

VARIABLES
  table,           \* the hole table
  swapping,        \* swap_fd # -1
  worst_fit,       \* the policy of alloc_mem
  in_queue,        \* processes that want to be swapped in
  outswap,         \* where swap_out begins its search
  mp_flags,        \* flags of each process
  mp_seg,          \* base and length of the block of each process
  pc,              \* what MM is doing
  request,         \* for whom alloc_mem is running, and for how much
  pmp,             \* where swap_in is in the queue
  closing          \* swap_in was called by swap_off

procVars == <<mp_flags, mp_seg>>
vars == <<table, swapping, worst_fit, in_queue, outswap, mp_flags, mp_seg, pc,
          request, pmp, closing>>

swap_base == swap_base_of(Chunks)
swap_maxsize == AddressSpace - swap_base

NoRequest == [kind |-> "none", proc |-> 0, size |-> 0]

Init ==
  /\ table = mem_init(Chunks)
  /\ swapping = FALSE
  /\ worst_fit = 0
  /\ in_queue = <<>>
  /\ outswap = 0
  /\ mp_flags = [p \in Procs |-> {}]
  /\ mp_seg = [p \in Procs |-> Hole(0, 0)]
  /\ pc = "idle"
  /\ request = NoRequest
  /\ pmp = 1
  /\ closing = FALSE
------------------------------------------------------------------------------
(* The callers.  PAUSED stands for the three ways to be blocked on a call  *)
(* that MM handles, and REPLY for those that forbid swapping.              *)
InUse(p) == "IN_USE" \in mp_flags[p]
Running(p) == mp_flags[p] = {"IN_USE"}

CallAlloc(kind, p, n) ==
  /\ pc = "idle" /\ pc' = "alloc"
  /\ request' = [kind |-> kind, proc |-> p, size |-> n]
  /\ UNCHANGED <<table, swapping, worst_fit, in_queue, outswap, procVars, pmp, closing>>

(* Others are told of something when MM is idle, or in check_pending: the  *)
(* process that swap_in has just brought back hears of a signal it was     *)
(* sent meanwhile, and when that kills it, so may its parent and its group.*)
MayHear(p) ==
  \/ pc = "idle"
  \/ pc = "signal" /\ (p = request.proc \/ ~ InUse(request.proc))

(* fork takes an unused process slot.  Between two requests MM has emptied *)
(* the queue of the killed, so the slot is not in the queue.               *)
Fork(p, n) == ~ InUse(p) /\ p \notin Range(in_queue) /\ CallAlloc("fork", p, n)
Exec(p, n) == Running(p) /\ CallAlloc("exec", p, n)

(* exit, or being killed, in whatever state: the block is freed where it   *)
(* is.  A killed process is left in in_queue.                              *)
Exit(p) ==
  /\ MayHear(p) /\ InUse(p)
  /\ table' = free_mem(table, mp_seg[p].base, mp_seg[p].len)
  /\ mp_flags' = [mp_flags EXCEPT ![p] = {}]
  /\ UNCHANGED <<swapping, worst_fit, in_queue, outswap, mp_seg, pc, request, pmp, closing>>

Pause(p) ==
  /\ pc = "idle" /\ Running(p)
  /\ mp_flags' = [mp_flags EXCEPT ![p] = @ \cup {"PAUSED"}]
  /\ UNCHANGED <<table, swapping, worst_fit, in_queue, outswap, mp_seg, pc, request, pmp, closing>>

(* Faulty variant: a process is queued although it is queued already. *)
EnqueuedTwice(q, flags, p) ==
  [queue |-> Append(q, p), flags |-> [flags EXCEPT ![p] = @ \cup {"SWAPIN"}]]

(* swap_inqueue: at the end of the queue, unless queued already. *)
swap_inqueue(q, flags, p) ==
  IF "SWAPIN" \in flags[p]
  THEN [queue |-> q, flags |-> flags]
  ELSE [queue |-> Append(q, p), flags |-> [flags EXCEPT ![p] = @ \cup {"SWAPIN"}]]

(* A reply or a signal for a blocked process; if it is on swap it must     *)
(* come back first.                                                        *)
Wake(p) ==
  /\ MayHear(p) /\ "PAUSED" \in mp_flags[p]
  /\ LET woken == [mp_flags EXCEPT ![p] = (@ \ {"PAUSED"}) \cup {"REPLY"}]
         queued == swap_inqueue(in_queue, woken, p)
     IN  IF "ONSWAP" \in mp_flags[p]
         THEN in_queue' = queued.queue /\ mp_flags' = queued.flags
         ELSE mp_flags' = woken /\ UNCHANGED in_queue
  /\ UNCHANGED <<table, swapping, worst_fit, outswap, mp_seg, pc, request, pmp, closing>>

(* A signal for a process on swap is kept until it is back. *)
Recall(p) ==
  /\ MayHear(p) /\ "ONSWAP" \in mp_flags[p]
  /\ LET queued == swap_inqueue(in_queue, mp_flags, p)
     IN  in_queue' = queued.queue /\ mp_flags' = queued.flags
  /\ UNCHANGED <<table, swapping, worst_fit, outswap, mp_seg, pc, request, pmp, closing>>

Reply(p) ==
  /\ pc = "idle" /\ mp_flags[p] = {"IN_USE", "REPLY"}
  /\ mp_flags' = [mp_flags EXCEPT ![p] = @ \ {"REPLY"}]
  /\ UNCHANGED <<table, swapping, worst_fit, in_queue, outswap, mp_seg, pc, request, pmp, closing>>
------------------------------------------------------------------------------
(* alloc_mem: the hole that the policy in force picks, 0 if there is none. *)
Picked == IF worst_fit = 0 THEN FirstFit(table, swap_base, request.size)
                           ELSE WorstFit(table, swap_base, request.size)

(* The block of request.proc becomes the first clicks of hole k, and its   *)
(* old block, if it has one, is freed.                                     *)
MoveTo(k) ==
  LET p == request.proc
      old == mp_seg[p]
      bitten == Bite(table, k, request.size)
  IN  /\ table' = IF request.kind = "fork" THEN bitten
                  ELSE free_mem(bitten, old.base, old.len)
      /\ mp_seg' = [mp_seg EXCEPT ![p] = Hole(table.list[k].base, request.size)]

(* alloc_mem returns a block to fork or exec. *)
Grant ==
  /\ pc = "alloc" /\ request.kind \in {"fork", "exec"}
  /\ Picked # 0
  /\ MoveTo(Picked)
  /\ mp_flags' = [mp_flags EXCEPT ![request.proc] = {"IN_USE"}]
  /\ pc' = "idle"
  /\ request' = NoRequest
  /\ UNCHANGED <<swapping, worst_fit, in_queue, outswap, pmp, closing>>

(* alloc_mem returns a block to swap_in, which moves the process there,    *)
(* frees its swap space, takes it off the queue, and looks for a signal    *)
(* that is pending for it.                                                 *)
SwapInOne ==
  /\ pc = "alloc" /\ request.kind = "swap_in"
  /\ Picked # 0
  /\ MoveTo(Picked)
  /\ mp_flags' = [mp_flags EXCEPT ![request.proc] = @ \ {"ONSWAP", "SWAPIN"}]
  /\ in_queue' = RemoveAt(in_queue, pmp)
  /\ pc' = "signal"
  /\ UNCHANGED <<swapping, worst_fit, outswap, request, pmp, closing>>

(* check_pending returns; there may have been no signal at all. *)
SignalsEnd ==
  /\ pc = "signal" /\ pc' = "swap_in"
  /\ request' = NoRequest
  /\ UNCHANGED <<table, swapping, worst_fit, in_queue, outswap, procVars, pmp, closing>>

TrySwapOut ==
  /\ pc = "alloc" /\ Picked = 0
  /\ pc' = "swap_out"
  /\ UNCHANGED <<table, swapping, worst_fit, in_queue, outswap, procVars, request, pmp, closing>>
------------------------------------------------------------------------------
(* Faulty variant: a process on swap is swapped out again. *)
CandidateOnSwap(p) == "PAUSED" \in mp_flags[p] /\ "REPLY" \notin mp_flags[p]

(* swap_out: the processes that may go, in the order of the search from    *)
(* the one after outswap.                                                  *)
Candidate(p) == "PAUSED" \in mp_flags[p] /\ mp_flags[p] \cap {"REPLY", "ONSWAP"} = {}
CanGo == {p \in Procs : Candidate(p) /\ SwapHole(table, swap_base, mp_seg[p].len) # 0}
Distance(p) == (p - outswap - 1) % NR_PROCS
Outgoing == CHOOSE p \in CanGo : \A q \in CanGo : Distance(p) <= Distance(q)

SwapOut ==
  /\ pc = "swap_out" /\ CanGo # {}
  /\ LET p == Outgoing
         old == mp_seg[p]
         k == SwapHole(table, swap_base, old.len)
     IN  /\ table' = free_mem(Bite(table, k, old.len), old.base, old.len)
         /\ mp_seg' = [mp_seg EXCEPT ![p] = Hole(table.list[k].base, old.len)]
         /\ mp_flags' = [mp_flags EXCEPT ![p] = @ \cup {"ONSWAP"}]
         /\ outswap' = p
  /\ pc' = "alloc"
  /\ UNCHANGED <<swapping, worst_fit, in_queue, request, pmp, closing>>

(* Nobody can go: alloc_mem returns NO_MEM.  fork and exec fail, swap_in   *)
(* goes on to the next in the queue.                                       *)
NoMem ==
  /\ pc = "swap_out" /\ CanGo = {}
  /\ \/ request.kind \in {"fork", "exec"} /\ pc' = "idle" /\ UNCHANGED pmp
     \/ request.kind = "swap_in" /\ pc' = "swap_in" /\ pmp' = pmp + 1
  /\ request' = NoRequest
  /\ UNCHANGED <<table, swapping, worst_fit, in_queue, outswap, procVars, closing>>
------------------------------------------------------------------------------
(* swap_in, called by MM's main loop when there is somebody in the queue.  *)
SwapIn ==
  /\ pc = "idle" /\ in_queue # <<>>
  /\ pc' = "swap_in" /\ pmp' = 1
  /\ UNCHANGED <<table, swapping, worst_fit, in_queue, outswap, procVars, request, closing>>

AtProcess == pc = "swap_in" /\ pmp <= Len(in_queue)

(* One that was killed is taken off the queue. *)
Clean ==
  /\ AtProcess /\ "SWAPIN" \notin mp_flags[in_queue[pmp]]
  /\ in_queue' = RemoveAt(in_queue, pmp)
  /\ UNCHANGED <<table, swapping, worst_fit, outswap, procVars, pc, request, pmp, closing>>

(* For the others, alloc_mem is called. *)
FindRoom ==
  /\ AtProcess /\ "SWAPIN" \in mp_flags[in_queue[pmp]]
  /\ request' = LET p == in_queue[pmp]
                IN  [kind |-> "swap_in", proc |-> p, size |-> mp_seg[p].len]
  /\ pc' = "alloc"
  /\ UNCHANGED <<table, swapping, worst_fit, in_queue, outswap, procVars, pmp, closing>>

SwapInEnd ==
  /\ pc = "swap_in" /\ pmp > Len(in_queue)
  /\ pc' = IF closing THEN "swap_off" ELSE "idle"
  /\ UNCHANGED <<table, swapping, worst_fit, in_queue, outswap, procVars, request, pmp, closing>>
------------------------------------------------------------------------------
(* swap_on(file, offset, size): the swap area becomes a hole. *)
SwapOn(size) ==
  /\ pc = "idle" /\ ~ swapping
  /\ swapping' = TRUE
  /\ table' = free_mem(table, swap_base, Min({size, swap_maxsize}))
  /\ UNCHANGED <<worst_fit, in_queue, outswap, procVars, pc, request, pmp, closing>>

(* swap_off, first part: everybody on swap is queued who is not yet, in    *)
(* the order of the process table, and swap_in called.                     *)
SwapOff ==
  /\ pc = "idle" /\ swapping
  /\ LET onSwap == {p \in Procs : "ONSWAP" \in mp_flags[p]}
         newly == {p \in onSwap : "SWAPIN" \notin mp_flags[p]}
     IN  /\ in_queue' = in_queue \o Ascending(newly)
         /\ mp_flags' = [p \in Procs |-> mp_flags[p] \cup
                                         IF p \in onSwap THEN {"SWAPIN"} ELSE {}]
  /\ pc' = "swap_in" /\ pmp' = 1 /\ closing' = TRUE
  /\ UNCHANGED <<table, swapping, worst_fit, outswap, mp_seg, request>>

AllInMemory == \A p \in Procs : "ONSWAP" \notin mp_flags[p]

(* Somebody is still on swap: ENOMEM. *)
SwapOffFails ==
  /\ pc = "swap_off" /\ ~ AllInMemory
  /\ pc' = "idle" /\ closing' = FALSE
  /\ UNCHANGED <<table, swapping, worst_fit, in_queue, outswap, procVars, request, pmp>>

(* Everybody is in memory: the swap holes are removed.  When the only hole *)
(* there is goes, the loop reads h_next of NIL_HOLE: it ends if the word   *)
(* there happens to be 0, and otherwise nothing is defined.                *)
SwapOffEnd ==
  /\ pc = "swap_off" /\ AllInMemory
  /\ \/ /\ table' = DropSwapHoles(table, swap_base)
        /\ swapping' = FALSE
        /\ pc' = "idle"
     \/ /\ StepsOverNil(table, swap_base)
        /\ pc' = "undefined"
        /\ UNCHANGED <<table, swapping>>
  /\ closing' = FALSE
  /\ UNCHANGED <<worst_fit, in_queue, outswap, procVars, request, pmp>>

(* do_worst_fit accepts 0 and 1 only. *)
SetPolicy(n) ==
  /\ pc = "idle"
  /\ worst_fit' = IF n \in {0, 1} THEN n ELSE worst_fit
  /\ UNCHANGED <<table, swapping, in_queue, outswap, procVars, pc, request, pmp, closing>>
------------------------------------------------------------------------------
(* do_hole_map: the words written to a buffer of nbytes, sizes and bases   *)
(* of the holes of memory and a final 0; <<>> is the return of -1.  sizeof *)
(* is unsigned, so nbytes is taken for a number that is not negative.      *)
WORD == 4       \* sizeof(phys_clicks)

unsigned(n) == n % UINTS
nr_pairs(nbytes) == unsigned(unsigned(nbytes) \div WORD - 1) \div 2

hole_map(t, base, nbytes) ==
  LET n == Min({nr_pairs(nbytes), Cardinality(MemoryHoles(t, base))})
      hole(j) == t.list[(j + 1) \div 2]
      word(j) == IF j > 2 * n THEN 0
                 ELSE IF j % 2 = 1 THEN hole(j).len ELSE hole(j).base
  IN  IF unsigned(nbytes) < WORD THEN <<>> ELSE [j \in 1..2 * n + 1 |-> word(j)]
------------------------------------------------------------------------------
Call ==
  \/ \E p \in Procs, n \in Sizes : Fork(p, n) \/ Exec(p, n)
  \/ \E p \in Procs : Exit(p) \/ Pause(p) \/ Wake(p) \/ Recall(p) \/ Reply(p)
  \/ SwapIn \/ SwapOff
  \/ \E n \in SwapSizes : SwapOn(n)
  \/ \E n \in Policies : SetPolicy(n)

Continue ==
  \/ Grant \/ SwapInOne \/ SignalsEnd \/ TrySwapOut \/ SwapOut \/ NoMem
  \/ Clean \/ FindRoom \/ SwapInEnd \/ SwapOffFails \/ SwapOffEnd

(* A panic stops MM for good. *)
Next == ~ table.panic /\ (Call \/ Continue)

Spec == Init /\ [][Next]_vars
------------------------------------------------------------------------------
Flags == {"IN_USE", "PAUSED", "REPLY", "ONSWAP", "SWAPIN"}

TypeOK ==
  /\ table \in Tables
  /\ swapping \in BOOLEAN /\ worst_fit \in {0, 1}
  /\ in_queue \in Seq(Procs) /\ outswap \in Procs
  /\ mp_flags \in [Procs -> SUBSET Flags] /\ mp_seg \in [Procs -> Holes]
  /\ pc \in {"idle", "alloc", "swap_out", "swap_in", "signal", "swap_off", "undefined"}
  /\ request \in [kind : {"none", "fork", "exec", "swap_in"}, proc : Procs, size : Nat]
  /\ pmp \in Nat \ {0} /\ closing \in BOOLEAN
  /\ pc \in {"alloc", "swap_out", "signal"} <=> request # NoRequest

(* The hole list is sorted by address, as the head of alloc.c says, and    *)
(* holes that touch have been merged: between two holes somebody has at    *)
(* least one click.  No hole is empty.                                     *)
HolesApart ==
  \A k \in DOMAIN table.list :
    /\ table.list[k].len > 0
    /\ k < Len(table.list) => HoleEnd(table.list[k]) < table.list[k + 1].base

(* free_mem always finds a slot: 2 * NR_PROCS of them are enough whatever  *)
(* the order of forks, exits and swaps, and none is ever lost.             *)
SlotsSuffice ==
  /\ ~ table.panic
  /\ table.free + Len(table.list) = NR_HOLES

Clicks(h) == h.base..HoleEnd(h) - 1

(* The table and the segments are an account of all memory: no click is    *)
(* lost and none given out twice (the report's section on memory leaks     *)
(* checks the first on one run), by fork, exec, exit, or by moving         *)
(* processes to and from the swap area.                                    *)
Phys == INSTANCE PhysMem WITH
          Memory <- UNION {Clicks(c) : c \in Range(Chunks)},
          free <- UNION {Clicks(h) : h \in Range(table.list)},
          block <- [p \in Procs |-> IF InUse(p) THEN Clicks(mp_seg[p]) ELSE {}]
ImplementsPhysMem == Phys!Spec

(* A process is on swap exactly when it is flagged so, and the swap area   *)
(* is a hole above and separate of regular memory (alloc.c:270).           *)
SwapSeparate ==
  \A p \in Procs : InUse(p) =>
    ("ONSWAP" \in mp_flags[p] <=> mp_seg[p].base >= swap_base)

(* The inswap queue holds no process twice; those that are flagged SWAPIN  *)
(* are on it; and a swapped out process that got its reply is flagged, so  *)
(* it is not forgotten on swap.                                            *)
QueueSound ==
  /\ \A j, k \in DOMAIN in_queue : in_queue[j] = in_queue[k] => j = k
  /\ \A p \in Procs : "SWAPIN" \in mp_flags[p] => p \in Range(in_queue)
  /\ \A p \in Procs : {"ONSWAP", "REPLY"} \subseteq mp_flags[p] => "SWAPIN" \in mp_flags[p]

(* alloc_mem obeys the policy in force: worst fit takes the block from a   *)
(* largest hole of memory, first fit from the lowest one that is big       *)
(* enough, and others are swapped out only when memory has no such hole.   *)
PolicyObeyed ==
  [][pc = "alloc" =>
       LET memory == {h \in Range(table.list) : h.base < swap_base}
           enough == {h \in memory : h.len >= request.size}
           start  == mp_seg'[request.proc].base
       IN  IF pc' = "swap_out" THEN enough = {}
           ELSE \E h \in enough :
                  /\ h.base = start
                  /\ IF worst_fit = 1 THEN \A g \in memory : g.len <= h.len
                                      ELSE \A g \in enough : start <= g.base]_vars

(* do_hole_map never writes past the buffer whose size it was given,       *)
(* always ends the list with the only 0, and shows every hole that fits    *)
(* (t.c reads sizes and bases up to the first 0).  A negative size, which  *)
(* is taken for a huge one, gets the whole list.                           *)
HoleMapFits ==
  \A nbytes \in BufferSizes :
    LET map == hole_map(table, swap_base, nbytes)
        sizes == {j \in DOMAIN map : j % 2 = 1}
    IN  /\ nbytes >= 0 => Len(map) * WORD <= nbytes
        /\ nbytes \notin 0..WORD - 1 => \A j \in sizes : map[j] = 0 <=> j = Len(map)
        /\ nbytes < 0 \/ nbytes - Len(map) * WORD >= 2 * WORD =>
             Len(map) = 2 * Cardinality(MemoryHoles(table, swap_base)) + 1

(* What the table of holes promises to the rest of MM, whatever order of   *)
(* requests shaped it (alloc.c:30, 125-223, 456-482): the three above.     *)
TableSound == HolesApart /\ SlotsSuffice /\ HoleMapFits

(* How far MM is from the end of a request.  A process in use may still be *)
(* killed, and then those in none of the queues be put there; each process *)
(* that swap_in has not come to has a weight; then come the candidates     *)
(* that swap_out has not taken, and the place in the loop of alloc_mem.    *)
Candidates == {p \in Procs : Candidate(p)}
Alive == {p \in Procs : InUse(p)}
Unqueued == {p \in Procs : "SWAPIN" \notin mp_flags[p]}
Asleep == {p \in Procs : "PAUSED" \in mp_flags[p]}
Weight == 4 * NR_PROCS + 4
Ahead == IF request.kind = "swap_in" \/ pc = "swap_in" THEN Len(in_queue) - pmp + 1 ELSE 0
Others == IF InUse(request.proc) THEN 0 ELSE Cardinality(Unqueued) * (Weight + 1)
Turns ==
  CASE pc = "swap_off" -> 1
    [] pc = "swap_out" -> 2 + Ahead * Weight + 3 * Cardinality(Candidates)
    [] pc = "alloc"    -> 3 + Ahead * Weight + 3 * Cardinality(Candidates)
    [] pc = "swap_in"  -> 4 + Ahead * Weight + 3 * NR_PROCS
    [] pc = "signal"   -> 5 + Ahead * Weight + 3 * NR_PROCS + Cardinality(Asleep)
                            + Others
ToEnd ==
  IF pc \in {"idle", "undefined"} THEN 0
  ELSE Turns + Cardinality(Alive) * ((NR_PROCS + 1) * (Weight + 1))

(* Every request is answered: every turn of the loops of alloc_mem,        *)
(* swap_out and swap_in brings it nearer its end, although alloc_mem swaps *)
(* others out while swap_in is busy bringing them back, and the signals    *)
(* that wait for those who are back put others on the queue.               *)
EveryTurnCounts ==
  [][pc # "idle" => ToEnd' >= 0 /\ ToEnd' < ToEnd]_vars

(* What alloc.c:318 says of the end of swap_off: when all processes are in *)
(* memory the swap hole is removed and the swap file is closed.            *)
SwapOffCloses ==
  [][pc = "swap_off" /\ AllInMemory => ~ swapping' /\ pc' = "idle"]_vars
==============================================================================
