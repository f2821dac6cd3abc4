----------------------------- MODULE AllocProofs -----------------------------
(***************************************************************************)
(* Proofs about Alloc for any number of processes, any memory, swap area   *)
(* and policy.                                                             *)
(*                                                                         *)
(* The inswap queue and the end of every request do not depend on the      *)
(* table of holes: whatever hole is picked, the flags and the queue change *)
(* in the same way.  The types come next.  The last and longest part       *)
(* follows each click of memory, between the table and the processes, and  *)
(* shows that Alloc implements PhysMem.                                    *)
(***************************************************************************)
EXTENDS Alloc, HoleProofs

(* What is on the queue without its k-th process, if no process is twice   *)
(* on it.                                                                  *)
LEMMA OneLess ==
  ASSUME NEW s \in Seq(Procs), NEW k \in 1..Len(s),
         \A j, l \in DOMAIN s : s[j] = s[l] => j = l
  PROVE  /\ \A j, l \in DOMAIN RemoveAt(s, k) :
              RemoveAt(s, k)[j] = RemoveAt(s, k)[l] => j = l
         /\ \A p \in Range(s) : p # s[k] => p \in Range(RemoveAt(s, k))
<1> DEFINE r == RemoveAt(s, k)
<1>1. /\ r \in Seq(Procs) /\ Len(r) = Len(s) - 1 /\ Len(s) \in Nat
      /\ \A j \in 1..Len(s) - 1 : r[j] = IF j < k THEN s[j] ELSE s[j + 1]
  <2>1. Len(s) \in Nat
    OBVIOUS
  <2> QED BY <2>1, Removed, Zenon
<1> HIDE DEF r
<1>2. DOMAIN r = 1..Len(s) - 1 /\ DOMAIN s = 1..Len(s)
  BY <1>1
<1>3. \A j, l \in DOMAIN r : r[j] = r[l] => j = l
  <2> DEFINE old(j) == IF j < k THEN j ELSE j + 1
  <2>1. ASSUME NEW j \in DOMAIN r
        PROVE  old(j) \in DOMAIN s /\ r[j] = s[old(j)]
    BY <1>1, <1>2
  <2>2. \A j, l \in DOMAIN r : old(j) = old(l) => j = l
    BY <1>1, <1>2
  <2> HIDE DEF old
  <2> QED BY <2>1, <2>2, Zenon
<1>4. ASSUME NEW p \in Range(s), p # s[k] PROVE p \in Range(r)
  <2>1. PICK j \in 1..Len(s) : s[j] = p /\ j # k
    BY <1>2, <1>4 DEF Range
  <2>2. CASE j < k
    BY <1>1, <1>2, <2>1, <2>2 DEF Range
  <2>3. CASE j > k
    <3>1. j - 1 \in DOMAIN r /\ r[j - 1] = p
      BY <1>1, <1>2, <2>1, <2>3
    <3> QED BY <3>1 DEF Range
  <2> QED BY <1>1, <2>1, <2>2, <2>3
<1> QED BY <1>3, <1>4 DEF r

(* The processes of a set can be put in the order of the process table.    *)
LEMMA TableOrder ==
  ASSUME NEW ps \in SUBSET Procs
  PROVE  /\ Ascending(ps) \in Seq(ps)
         /\ \A j, k \in DOMAIN Ascending(ps) :
              Ascending(ps)[j] = Ascending(ps)[k] => j = k
         /\ Range(Ascending(ps)) = ps
<1>1. NR_PROCS \in Nat \ {0} /\ ps \subseteq Nat
  BY AllocAssumption DEF Procs
<1>2. IsFiniteSet(ps)
  <2>1. IsFiniteSet(Procs)
    BY <1>1, FS_Interval DEF Procs
  <2> QED BY <2>1, FS_Subset
<1> QED BY <1>1, <1>2, InOrder, Zenon
------------------------------------------------------------------------------
(* What the queue is made of. *)
QueueTypes ==
  /\ in_queue \in Seq(Procs) /\ outswap \in Procs
  /\ mp_flags \in [Procs -> SUBSET Flags]
  /\ pmp \in Nat \ {0}
  /\ pc \in {"idle", "alloc", "swap_out", "swap_in", "signal", "swap_off", "undefined"}
  /\ request.proc \in Procs

(* For whom alloc_mem works: a process that is not on the queue, or the    *)
(* one at pmp, which swap_in does not pass before.  Who hears of a signal  *)
(* in swap_in is not on swap any more.                                     *)
InTurn ==
  /\ pc \in {"alloc", "swap_out"} =>
       \/ request.kind \in {"fork", "exec"} /\ request.proc \notin Range(in_queue)
       \/ /\ request.kind = "swap_in"
          /\ pmp <= Len(in_queue) /\ request.proc = in_queue[pmp]
  /\ pc \in {"swap_in", "signal"} => pmp <= Len(in_queue) + 1
  /\ pc = "signal" => request.kind = "swap_in" /\ "ONSWAP" \notin mp_flags[request.proc]

(* QueueSound in two parts, one about the queue and one about each         *)
(* process.  Who is on the queue without being flagged was killed: only    *)
(* then is it right that swap_inqueue looks at the flag alone.             *)
Distinct == \A j, k \in DOMAIN in_queue : in_queue[j] = in_queue[k] => j = k
Queued(p) ==
  /\ "SWAPIN" \in mp_flags[p] => p \in Range(in_queue)
  /\ {"ONSWAP", "REPLY"} \subseteq mp_flags[p] => "SWAPIN" \in mp_flags[p]
  /\ p \in Range(in_queue) => "SWAPIN" \in mp_flags[p] \/ mp_flags[p] = {}
Listed == Distinct /\ \A p \in Procs : Queued(p)

QueueInv == QueueTypes /\ InTurn /\ Listed

LEMMA ListedIsSound == Listed => QueueSound
  BY Zenon DEF QueueSound, Listed, Distinct, Queued

LEMMA InitQueue == Init => QueueInv
<1> SUFFICES ASSUME Init PROVE QueueInv
  OBVIOUS
<1>1. 0 \in Procs
  BY AllocAssumption DEF Procs
<1>2. QueueTypes
  BY <1>1 DEF Init, QueueTypes, NoRequest
<1>3. InTurn
  BY DEF Init, InTurn
<1>4. Listed
  <2>1. in_queue = <<>> /\ \A p \in Procs : mp_flags[p] = {}
    BY DEF Init
  <2>2. DOMAIN in_queue = {} /\ Range(in_queue) = {}
    BY <2>1 DEF Range
  <2> QED BY <2>1, <2>2 DEF Listed, Distinct, Queued
<1> QED BY <1>2, <1>3, <1>4 DEF QueueInv

(* A step that leaves the queue alone and changes the flags of one process *)
(* only keeps it sound if it does so for this process.                     *)
LEMMA FlagsOfOne ==
  ASSUME QueueTypes, Listed, UNCHANGED in_queue,
         NEW q \in Procs, NEW f \in SUBSET Flags,
         mp_flags' = [mp_flags EXCEPT ![q] = f],
         "SWAPIN" \in f => "SWAPIN" \in mp_flags[q],
         {"ONSWAP", "REPLY"} \subseteq f => "SWAPIN" \in f,
         q \in Range(in_queue) => "SWAPIN" \in f \/ f = {}
  PROVE  mp_flags' \in [Procs -> SUBSET Flags] /\ Listed'
<1>1. mp_flags \in [Procs -> SUBSET Flags]
  BY DEF QueueTypes
<1>2. \A p \in Procs : mp_flags'[p] = IF p = q THEN f ELSE mp_flags[p]
  BY <1>1
<1>3. ASSUME NEW p \in Procs PROVE Queued(p)'
  <2>1. Queued(p)
    BY DEF Listed
  <2>2. CASE p = q
    BY <1>2, <2>1, <2>2 DEF Queued
  <2>3. CASE p # q
    BY <1>2, <2>1, <2>3 DEF Queued
  <2> QED BY <2>2, <2>3
<1>4. Distinct'
  BY DEF Listed, Distinct
<1>5. mp_flags' \in [Procs -> SUBSET Flags]
  BY <1>1
<1> QED BY <1>3, <1>4, <1>5 DEF Listed
------------------------------------------------------------------------------
LEMMA QueueUntouched ==
  ASSUME Listed, UNCHANGED <<in_queue, mp_flags>>
  PROVE  Listed'
BY DEF Listed, Distinct, Queued

(* The calls from outside, one by one. *)
LEMMA CallAllocKeeps ==
  ASSUME QueueInv, NEW kind \in {"fork", "exec"}, NEW p \in Procs, NEW n,
         p \notin Range(in_queue), CallAlloc(kind, p, n)
  PROVE  QueueInv'
<1>1. Listed'
  BY QueueUntouched DEF QueueInv, CallAlloc, procVars
<1>2. QueueTypes'
  BY DEF QueueInv, QueueTypes, CallAlloc, procVars
<1>3. InTurn'
  BY DEF CallAlloc, InTurn
<1> QED BY <1>1, <1>2, <1>3 DEF QueueInv

(* Hearing of something lets swap_in stand where it is.                    *)
LEMMA HearingKeepsTurn ==
  ASSUME QueueInv, NEW p \in Procs, MayHear(p), UNCHANGED <<pc, request, pmp>>,
         Len(in_queue') \in Nat, Len(in_queue') >= Len(in_queue),
         "ONSWAP" \in mp_flags'[request.proc] => "ONSWAP" \in mp_flags[request.proc]
  PROVE  InTurn'
<1>1. /\ pc \in {"idle", "signal"} /\ Len(in_queue) \in Nat /\ pmp \in Nat
      /\ pc = "signal" => /\ pmp <= Len(in_queue) + 1 /\ request.kind = "swap_in"
                          /\ "ONSWAP" \notin mp_flags[request.proc]
  BY DEF MayHear, QueueInv, QueueTypes, InTurn
<1> QED BY <1>1 DEF InTurn

LEMMA ExitKeeps ==
  ASSUME QueueInv, NEW p \in Procs, Exit(p) PROVE QueueInv'
<1>1. mp_flags' \in [Procs -> SUBSET Flags] /\ Listed'
  <2>1. UNCHANGED in_queue /\ mp_flags' = [mp_flags EXCEPT ![p] = {}] /\ {} \in SUBSET Flags
    BY DEF Exit
  <2> QED BY <2>1, FlagsOfOne DEF QueueInv
<1>2. QueueTypes'
  BY <1>1 DEF QueueInv, QueueTypes, Exit
<1>3. InTurn'
  <2>1. /\ MayHear(p) /\ UNCHANGED <<pc, request, pmp, in_queue>> /\ Len(in_queue) \in Nat
        /\ \A q \in Procs : "ONSWAP" \in mp_flags'[q] => "ONSWAP" \in mp_flags[q]
    BY DEF Exit, QueueInv, QueueTypes
  <2>2. request.proc \in Procs
    BY DEF QueueInv, QueueTypes
  <2> QED BY <2>1, <2>2, HearingKeepsTurn
<1> QED BY <1>1, <1>2, <1>3 DEF QueueInv

LEMMA PauseKeeps ==
  ASSUME QueueInv, NEW p \in Procs, Pause(p) PROVE QueueInv'
<1>1. mp_flags[p] \in SUBSET Flags /\ Queued(p)
  BY DEF QueueInv, QueueTypes, Listed
<1> DEFINE f == mp_flags[p] \cup {"PAUSED"}
<1>2. f \in SUBSET Flags /\ mp_flags' = [mp_flags EXCEPT ![p] = f] /\ UNCHANGED in_queue
  BY <1>1 DEF Pause, Flags
<1>3. /\ "SWAPIN" \in f => "SWAPIN" \in mp_flags[p]
      /\ {"ONSWAP", "REPLY"} \subseteq f => "SWAPIN" \in f
      /\ p \in Range(in_queue) => "SWAPIN" \in f \/ f = {}
  BY <1>1 DEF Pause, Running, Queued
<1> HIDE DEF f
<1>4. mp_flags' \in [Procs -> SUBSET Flags] /\ Listed'
  BY <1>2, <1>3, FlagsOfOne DEF QueueInv
<1>5. QueueTypes'
  BY <1>4 DEF QueueInv, QueueTypes, Pause
<1>6. InTurn'
  BY DEF Pause, InTurn
<1> QED BY <1>4, <1>5, <1>6 DEF QueueInv

LEMMA ReplyKeeps ==
  ASSUME QueueInv, NEW p \in Procs, Reply(p) PROVE QueueInv'
<1> DEFINE f == mp_flags[p] \ {"REPLY"}
<1>1. mp_flags[p] \in SUBSET Flags /\ Queued(p)
  BY DEF QueueInv, QueueTypes, Listed
<1>2. f \in SUBSET Flags /\ mp_flags' = [mp_flags EXCEPT ![p] = f] /\ UNCHANGED in_queue
  BY <1>1 DEF Reply
<1>3. "SWAPIN" \notin f /\ "REPLY" \notin f /\ p \notin Range(in_queue)
  BY <1>1 DEF Reply, Queued
<1> HIDE DEF f
<1>4. mp_flags' \in [Procs -> SUBSET Flags] /\ Listed'
  BY <1>2, <1>3, FlagsOfOne DEF QueueInv
<1>5. QueueTypes'
  BY <1>4 DEF QueueInv, QueueTypes, Reply
<1>6. InTurn'
  BY DEF Reply, InTurn
<1> QED BY <1>4, <1>5, <1>6 DEF QueueInv

(* Joining the queue at its end, with the flag that says so. *)
LEMMA Joining ==
  ASSUME QueueTypes, Listed, NEW p \in Procs, p \notin Range(in_queue),
         NEW f \in SUBSET Flags, "SWAPIN" \in f,
         in_queue' = Append(in_queue, p), mp_flags' = [mp_flags EXCEPT ![p] = f]
  PROVE  in_queue' \in Seq(Procs) /\ mp_flags' \in [Procs -> SUBSET Flags] /\ Listed'
<1>1. in_queue \in Seq(Procs) /\ mp_flags \in [Procs -> SUBSET Flags]
  BY DEF QueueTypes
<1>2. /\ in_queue' \in Seq(Procs) /\ Len(in_queue) \in Nat
      /\ DOMAIN in_queue = 1..Len(in_queue) /\ DOMAIN in_queue' = 1..Len(in_queue) + 1
      /\ \A k \in 1..Len(in_queue) : in_queue'[k] = in_queue[k]
      /\ in_queue'[Len(in_queue) + 1] = p
  BY <1>1
<1>3. \A k \in 1..Len(in_queue) : in_queue[k] # p
  BY <1>2 DEF Range
<1>4. Distinct /\ \A q \in Procs : Queued(q)
  BY DEF Listed
<1>5. Distinct'
  <2> SUFFICES ASSUME NEW j \in 1..Len(in_queue) + 1, NEW k \in 1..Len(in_queue) + 1,
                      in_queue'[j] = in_queue'[k]
               PROVE  j = k
    BY <1>2 DEF Distinct
  <2>1. \A l \in 1..Len(in_queue) + 1 : l \in 1..Len(in_queue) \/ l = Len(in_queue) + 1
    BY <1>2
  <2> QED BY <1>2, <1>3, <1>4, <2>1, Zenon DEF Distinct
<1>6. Range(in_queue') = Range(in_queue) \cup {p}
  BY <1>2 DEF Range
<1>7. \A q \in Procs : mp_flags'[q] = IF q = p THEN f ELSE mp_flags[q]
  BY <1>1
<1>8. ASSUME NEW q \in Procs PROVE Queued(q)'
  <2>1. CASE q = p
    BY <1>6, <1>7, <2>1 DEF Queued
  <2>2. CASE q # p
    BY <1>4, <1>6, <1>7, <2>2 DEF Queued
  <2> QED BY <2>1, <2>2
<1>9. mp_flags' \in [Procs -> SUBSET Flags]
  BY <1>1
<1> QED BY <1>2, <1>5, <1>8, <1>9 DEF Listed

LEMMA WakeKeeps ==
  ASSUME QueueInv, NEW p \in Procs, Wake(p) PROVE QueueInv'
<1> DEFINE f == (mp_flags[p] \ {"PAUSED"}) \cup {"REPLY"}
           woken == [mp_flags EXCEPT ![p] = f]
<1>1. mp_flags[p] \in SUBSET Flags /\ Queued(p) /\ mp_flags \in [Procs -> SUBSET Flags]
  BY DEF QueueInv, QueueTypes, Listed
<1>2. f \in SUBSET Flags /\ "PAUSED" \in mp_flags[p]
  BY <1>1 DEF Wake, Flags
<1>3. woken[p] = f
  BY <1>1
<1>4. in_queue' \in Seq(Procs) /\ mp_flags' \in [Procs -> SUBSET Flags] /\ Listed'
  <2>1. CASE "ONSWAP" \notin mp_flags[p]
    <3>1. UNCHANGED in_queue /\ mp_flags' = woken
      BY <2>1 DEF Wake
    <3>2. /\ "SWAPIN" \in f => "SWAPIN" \in mp_flags[p]
          /\ "ONSWAP" \notin f
          /\ p \in Range(in_queue) => "SWAPIN" \in f
      BY <1>1, <1>2, <2>1 DEF Queued
    <3> HIDE DEF f
    <3> QED BY <1>2, <3>1, <3>2, FlagsOfOne DEF QueueInv, QueueTypes
  <2>2. CASE "ONSWAP" \in mp_flags[p] /\ "SWAPIN" \in mp_flags[p]
    <3>1. "SWAPIN" \in f
      BY <2>2
    <3>2. UNCHANGED in_queue /\ mp_flags' = woken
      BY <1>3, <2>2, <3>1 DEF Wake, swap_inqueue
    <3> HIDE DEF f
    <3> QED BY <1>2, <2>2, <3>1, <3>2, FlagsOfOne DEF QueueInv, QueueTypes
  <2>3. CASE "ONSWAP" \in mp_flags[p] /\ "SWAPIN" \notin mp_flags[p]
    <3> DEFINE g == f \cup {"SWAPIN"}
    <3>1. "SWAPIN" \notin f
      BY <2>3
    <3>2. in_queue' = Append(in_queue, p) /\ mp_flags' = [woken EXCEPT ![p] = @ \cup {"SWAPIN"}]
      BY <1>3, <2>3, <3>1 DEF Wake, swap_inqueue
    <3>3. mp_flags' = [mp_flags EXCEPT ![p] = g]
      BY <1>1, <3>2
    <3>4. g \in SUBSET Flags /\ "SWAPIN" \in g
      BY <1>2 DEF Flags
    <3>5. p \notin Range(in_queue)
      BY <1>1, <1>2, <2>3 DEF Queued
    <3> HIDE DEF g
    <3> QED BY <3>2, <3>3, <3>4, <3>5, Joining DEF QueueInv
  <2> QED BY <2>1, <2>2, <2>3
<1>5. QueueTypes'
  BY <1>4 DEF QueueInv, QueueTypes, Wake
<1>6. InTurn'
  <2>1. /\ MayHear(p) /\ UNCHANGED <<pc, request, pmp>>
        /\ in_queue' = in_queue \/ in_queue' = Append(in_queue, p)
    BY DEF Wake, swap_inqueue
  <2>2. Len(in_queue') \in Nat /\ Len(in_queue') >= Len(in_queue)
    BY <2>1 DEF QueueInv, QueueTypes
  <2>3. ASSUME NEW q \in Procs, "ONSWAP" \in mp_flags'[q] PROVE "ONSWAP" \in mp_flags[q]
    <3>1. mp_flags' = woken \/ mp_flags' = [woken EXCEPT ![p] = @ \cup {"SWAPIN"}]
      BY DEF Wake, swap_inqueue
    <3>2. \A r \in Procs : "ONSWAP" \in woken[r] => "ONSWAP" \in mp_flags[r]
      BY <1>1
    <3>3. \A r \in Procs : "ONSWAP" \in [woken EXCEPT ![p] = @ \cup {"SWAPIN"}][r]
                          => "ONSWAP" \in mp_flags[r]
      BY <1>1
    <3> HIDE DEF woken
    <3> QED BY <2>3, <3>1, <3>2, <3>3
  <2>4. request.proc \in Procs
    BY DEF QueueInv, QueueTypes
  <2> QED BY <2>1, <2>2, <2>3, <2>4, HearingKeepsTurn
<1> QED BY <1>4, <1>5, <1>6 DEF QueueInv

(* A process on swap is queued, if it is not yet. *)
LEMMA RecallIs ==
  ASSUME QueueInv, NEW p \in Procs, Recall(p)
  PROVE  \/ "SWAPIN" \in mp_flags[p] /\ UNCHANGED vars
         \/ /\ "SWAPIN" \notin mp_flags[p] /\ in_queue' = Append(in_queue, p)
            /\ mp_flags' = [mp_flags EXCEPT ![p] = @ \cup {"SWAPIN"}]
BY DEF Recall, swap_inqueue, vars, procVars

LEMMA RecallKeeps ==
  ASSUME QueueInv, NEW p \in Procs, Recall(p) PROVE QueueInv'
<1> DEFINE f == mp_flags[p] \cup {"SWAPIN"}
<1>1. CASE UNCHANGED vars
  BY <1>1 DEF vars, QueueInv, QueueTypes, InTurn, Listed, Distinct, Queued
<1>2. CASE "SWAPIN" \notin mp_flags[p]
  <2>1. in_queue' = Append(in_queue, p) /\ mp_flags' = [mp_flags EXCEPT ![p] = f]
    BY <1>2, RecallIs DEF vars
  <2>2. /\ mp_flags[p] \in SUBSET Flags /\ Queued(p) /\ "ONSWAP" \in mp_flags[p]
        /\ in_queue \in Seq(Procs) /\ mp_flags \in [Procs -> SUBSET Flags]
    BY DEF QueueInv, QueueTypes, Listed, Recall
  <2>3. f \in SUBSET Flags /\ "SWAPIN" \in f /\ p \notin Range(in_queue)
    BY <1>2, <2>2 DEF Flags, Queued
  <2>4. \A q \in Procs : "ONSWAP" \in mp_flags'[q] => "ONSWAP" \in mp_flags[q]
    BY <2>1, <2>2
  <2> HIDE DEF f
  <2>5. in_queue' \in Seq(Procs) /\ mp_flags' \in [Procs -> SUBSET Flags] /\ Listed'
    BY <2>1, <2>3, Joining DEF QueueInv
  <2>6. Len(in_queue') \in Nat /\ Len(in_queue') >= Len(in_queue)
    BY <2>1, <2>2
  <2>7. /\ MayHear(p) /\ request.proc \in Procs
        /\ UNCHANGED <<table, swapping, worst_fit, outswap, mp_seg, pc, request, pmp, closing>>
    BY DEF Recall, QueueInv, QueueTypes
  <2>8. QueueTypes'
    BY <2>5, <2>7 DEF QueueInv, QueueTypes
  <2>9. InTurn'
    BY <2>4, <2>6, <2>7, HearingKeepsTurn
  <2> QED BY <2>5, <2>8, <2>9 DEF QueueInv
<1> QED BY <1>1, <1>2, RecallIs

(* swap_off queues everybody on swap at once: the queue grows by processes *)
(* that were not on it.                                                    *)
LEMMA SwapOffKeeps ==
  ASSUME QueueInv, SwapOff PROVE QueueInv'
<1> DEFINE onSwap == {p \in Procs : "ONSWAP" \in mp_flags[p]}
           newly == {p \in onSwap : "SWAPIN" \notin mp_flags[p]}
           s == Ascending(newly)
<1>1. /\ in_queue \in Seq(Procs) /\ mp_flags \in [Procs -> SUBSET Flags]
      /\ Distinct /\ \A p \in Procs : Queued(p)
  BY DEF QueueInv, QueueTypes, Listed
<1>2. newly \in SUBSET Procs
  OBVIOUS
<1>3. in_queue' = in_queue \o s
  BY DEF SwapOff
<1>4. mp_flags' = [p \in Procs |-> mp_flags[p] \cup IF p \in onSwap THEN {"SWAPIN"} ELSE {}]
  BY DEF SwapOff
<1>5. \A p \in newly : p \in Procs /\ p \notin Range(in_queue)
  BY <1>1 DEF Queued
<1>6. \A p \in Procs : p \in newly <=> "ONSWAP" \in mp_flags[p] /\ "SWAPIN" \notin mp_flags[p]
  OBVIOUS
<1>7. \A p \in Procs :
        mp_flags'[p] = IF "ONSWAP" \in mp_flags[p] THEN mp_flags[p] \cup {"SWAPIN"}
                                                   ELSE mp_flags[p]
  BY <1>4
<1>8. mp_flags' \in [Procs -> SUBSET Flags]
  BY <1>1, <1>4 DEF Flags
<1> HIDE DEF newly
<1>9. /\ s \in Seq(newly) /\ Range(s) = newly
      /\ \A j, k \in DOMAIN s : s[j] = s[k] => j = k
  BY <1>2, TableOrder
<1> HIDE DEF s
<1>10. /\ s \in Seq(Procs) /\ Len(s) \in Nat /\ Len(in_queue) \in Nat
       /\ DOMAIN s = 1..Len(s) /\ DOMAIN in_queue = 1..Len(in_queue)
  BY <1>1, <1>2, <1>9
<1> DEFINE n == Len(in_queue)
<1>11. /\ in_queue' \in Seq(Procs) /\ Len(in_queue') = n + Len(s)
       /\ \A j \in 1..n + Len(s) : in_queue'[j] = IF j <= n THEN in_queue[j] ELSE s[j - n]
  BY <1>1, <1>3, <1>10, ConcatProperties, Zenon
<1>12. DOMAIN in_queue' = 1..n + Len(s)
  BY <1>11
<1>13. Range(in_queue') = Range(in_queue) \cup newly
  <2>1. ASSUME NEW p \in Range(in_queue') PROVE p \in Range(in_queue) \cup newly
    <3>1. PICK j \in 1..n + Len(s) : in_queue'[j] = p
      BY <1>12, <2>1 DEF Range
    <3>2. CASE j <= n
      BY <1>10, <1>11, <3>1, <3>2 DEF Range
    <3>3. CASE ~ (j <= n)
      <4>1. j - n \in DOMAIN s /\ s[j - n] = p
        BY <1>10, <1>11, <3>1, <3>3
      <4> QED BY <1>9, <4>1 DEF Range
    <3> QED BY <3>2, <3>3
  <2>2. ASSUME NEW p \in Range(in_queue) PROVE p \in Range(in_queue')
    <3>1. PICK j \in 1..n : in_queue[j] = p
      BY <1>10, <2>2 DEF Range
    <3>2. j \in 1..n + Len(s) /\ in_queue'[j] = p
      BY <1>10, <1>11, <3>1
    <3> QED BY <1>12, <3>2 DEF Range
  <2>3. ASSUME NEW p \in newly PROVE p \in Range(in_queue')
    <3>1. PICK j \in 1..Len(s) : s[j] = p
      BY <1>9, <1>10, <2>3 DEF Range
    <3>2. n + j \in 1..n + Len(s) /\ ~ (n + j <= n) /\ (n + j) - n = j
      BY <1>10
    <3>3. in_queue'[n + j] = p
      BY <1>11, <3>1, <3>2
    <3> QED BY <1>12, <3>2, <3>3 DEF Range
  <2> QED BY <2>1, <2>2, <2>3
<1>14. Distinct'
  <2> SUFFICES ASSUME NEW j \in 1..n + Len(s), NEW k \in 1..n + Len(s),
                      in_queue'[j] = in_queue'[k]
               PROVE  j = k
    BY <1>12 DEF Distinct
  <2>1. \A i \in 1..n + Len(s) : i <= n => i \in 1..n /\ in_queue'[i] \notin newly
    <3>1. ASSUME NEW i \in 1..n + Len(s), i <= n
          PROVE  i \in 1..n /\ in_queue[i] \in Range(in_queue)
      BY <1>10, <3>1 DEF Range
    <3> QED BY <1>5, <1>11, <3>1, Zenon
  <2>2. \A i \in 1..n + Len(s) : ~ (i <= n) => i - n \in 1..Len(s) /\ in_queue'[i] \in newly
    <3>1. ASSUME NEW i \in 1..n + Len(s), ~ (i <= n)
          PROVE  i - n \in 1..Len(s) /\ s[i - n] \in newly
      <4>1. i - n \in 1..Len(s)
        BY <1>10, <3>1
      <4> QED BY <1>9, <1>10, <4>1 DEF Range
    <3> QED BY <1>11, <3>1, Zenon
  <2>3. CASE j <= n /\ k <= n
    BY <1>1, <1>10, <1>11, <2>1, <2>3, Zenon DEF Distinct
  <2>4. CASE ~ (j <= n) /\ ~ (k <= n)
    <3>1. j - n = k - n
      BY <1>9, <1>10, <1>11, <2>2, <2>4, Zenon
    <3> QED BY <1>10, <3>1
  <2> QED BY <2>1, <2>2, <2>3, <2>4, Zenon
<1>15. ASSUME NEW p \in Procs PROVE Queued(p)'
  <2>1. CASE "ONSWAP" \in mp_flags[p]
    BY <1>1, <1>6, <1>7, <1>13, <2>1 DEF Queued
  <2>2. CASE "ONSWAP" \notin mp_flags[p]
    BY <1>1, <1>6, <1>7, <1>13, <2>2 DEF Queued
  <2> QED BY <2>1, <2>2
<1>16. Listed'
  BY <1>14, <1>15 DEF Listed
<1>17. QueueTypes'
  BY <1>8, <1>11 DEF QueueInv, QueueTypes, SwapOff
<1>18. InTurn'
  BY <1>10, <1>11 DEF SwapOff, InTurn
<1> QED BY <1>16, <1>17, <1>18 DEF QueueInv

(* The other calls do not touch queue and flags. *)
LEMMA CallKeeps == ASSUME QueueInv, Call PROVE QueueInv'
<1>1. CASE \E p \in Procs, n \in Sizes : Fork(p, n) \/ Exec(p, n)
  <2>1. PICK p \in Procs, n \in Sizes : Fork(p, n) \/ Exec(p, n)
    BY <1>1
  <2>2. CASE Fork(p, n)
    BY <2>2, CallAllocKeeps DEF Fork
  <2>3. CASE Exec(p, n)
    <3>1. p \notin Range(in_queue)
      BY <2>3 DEF Exec, Running, QueueInv, Listed, Queued
    <3> QED BY <2>3, <3>1, CallAllocKeeps DEF Exec
  <2> QED BY <2>1, <2>2, <2>3
<1>2. CASE \E p \in Procs : Exit(p) \/ Pause(p) \/ Wake(p) \/ Recall(p) \/ Reply(p)
  BY <1>2, ExitKeeps, PauseKeeps, WakeKeeps, RecallKeeps, ReplyKeeps
<1>3. CASE SwapIn
  <2>1. Listed' /\ QueueTypes'
    BY <1>3, QueueUntouched DEF QueueInv, SwapIn, procVars, QueueTypes
  <2>2. Len(in_queue) \in Nat
    BY DEF QueueInv, QueueTypes
  <2>3. InTurn'
    BY <1>3, <2>2 DEF SwapIn, InTurn
  <2> QED BY <2>1, <2>3 DEF QueueInv
<1>4. CASE SwapOff
  BY <1>4, SwapOffKeeps
<1>5. CASE \E n \in SwapSizes : SwapOn(n)
  <2>1. Listed' /\ QueueTypes' /\ InTurn'
    BY <1>5, QueueUntouched DEF QueueInv, SwapOn, procVars, QueueTypes, InTurn
  <2> QED BY <2>1 DEF QueueInv
<1>6. CASE \E n \in Policies : SetPolicy(n)
  <2>1. Listed' /\ QueueTypes' /\ InTurn'
    BY <1>6, QueueUntouched DEF QueueInv, SetPolicy, procVars, QueueTypes, InTurn
  <2> QED BY <2>1 DEF QueueInv
<1> QED BY <1>1, <1>2, <1>3, <1>4, <1>5, <1>6 DEF Call
------------------------------------------------------------------------------
(* The search of swap_out ends at a candidate if there is one. *)
LEMMA OutgoingCanGo ==
  ASSUME outswap \in Procs, CanGo # {}
  PROVE  Outgoing \in CanGo /\ Outgoing \in Procs /\ Candidate(Outgoing)
<1>1. \A p \in CanGo : Distance(p) \in Nat
  <2>1. NR_PROCS \in Nat \ {0}
    BY AllocAssumption
  <2>2. \A x \in Int : x % NR_PROCS \in Nat
    BY <2>1
  <2> QED BY <2>1, <2>2 DEF CanGo, Distance, Procs
<1> DEFINE T == {Distance(p) : p \in CanGo}
<1>2. T \in SUBSET Nat /\ T # {}
  BY <1>1
<1>3. PICK n \in T : \A k \in T : n <= k
  BY <1>2, Least
<1>4. \E p \in CanGo : \A q \in CanGo : Distance(p) <= Distance(q)
  BY <1>3
<1>5. Outgoing \in CanGo
  BY <1>4, Zenon DEF Outgoing
<1> QED BY <1>5 DEF CanGo

(* The turns of alloc_mem. *)
LEMMA GrantKeeps ==
  ASSUME QueueInv, Grant PROVE QueueInv'
<1> DEFINE p == request.proc
           f == {"IN_USE"}
<1>1. p \in Procs /\ p \notin Range(in_queue)
  BY DEF QueueInv, QueueTypes, InTurn, Grant
<1>2. f \in SUBSET Flags /\ "SWAPIN" \notin f /\ "REPLY" \notin f
  BY DEF Flags
<1>3. UNCHANGED in_queue /\ mp_flags' = [mp_flags EXCEPT ![p] = f]
  BY DEF Grant
<1> HIDE DEF f, p
<1>4. mp_flags' \in [Procs -> SUBSET Flags] /\ Listed'
  BY <1>1, <1>2, <1>3, FlagsOfOne DEF QueueInv
<1>5. 0 \in Procs
  BY AllocAssumption DEF Procs
<1>6. QueueTypes'
  BY <1>4, <1>5 DEF QueueInv, QueueTypes, Grant, NoRequest
<1>7. InTurn'
  BY DEF Grant, InTurn
<1> QED BY <1>4, <1>6, <1>7 DEF QueueInv

(* Who comes in leaves the queue, and loses the flag that says it is on it. *)
LEMMA SwapInOneKeeps ==
  ASSUME QueueInv, SwapInOne PROVE QueueInv'
<1> DEFINE p == request.proc
           f == mp_flags[p] \ {"ONSWAP", "SWAPIN"}
<1>1. /\ in_queue \in Seq(Procs) /\ mp_flags \in [Procs -> SUBSET Flags]
      /\ Distinct /\ \A q \in Procs : Queued(q)
      /\ pmp \in 1..Len(in_queue) /\ Len(in_queue) \in Nat
      /\ p = in_queue[pmp] /\ p \in Procs
  BY DEF QueueInv, QueueTypes, InTurn, Listed, SwapInOne
<1>2. in_queue' = RemoveAt(in_queue, pmp) /\ mp_flags' = [mp_flags EXCEPT ![p] = f]
  BY DEF SwapInOne
<1>3. in_queue' \in Seq(Procs) /\ Len(in_queue') = Len(in_queue) - 1
  BY <1>1, <1>2, Removed, Zenon
<1>4. /\ Distinct'
      /\ \A q \in Range(in_queue) : q # p => q \in Range(in_queue')
  BY <1>1, <1>2, OneLess, Zenon DEF Distinct
<1>5. \A q \in Range(in_queue') : q \in Range(in_queue) /\ q # p
  <2> SUFFICES ASSUME NEW j \in 1..Len(in_queue) - 1
               PROVE  in_queue'[j] \in Range(in_queue) /\ in_queue'[j] # p
    BY <1>3 DEF Range
  <2> DEFINE old == IF j < pmp THEN j ELSE j + 1
  <2>1. in_queue'[j] = IF j < pmp THEN in_queue[j] ELSE in_queue[j + 1]
    BY <1>1, <1>2, Removed, Zenon
  <2>2. old \in 1..Len(in_queue) /\ old # pmp /\ in_queue'[j] = in_queue[old]
    BY <1>1, <2>1
  <2>3. DOMAIN in_queue = 1..Len(in_queue)
    BY <1>1
  <2> HIDE DEF old
  <2> QED BY <1>1, <2>2, <2>3 DEF Distinct, Range
<1>6. \A q \in Procs : mp_flags'[q] = IF q = p THEN f ELSE mp_flags[q]
  BY <1>1, <1>2
<1>7. mp_flags' \in [Procs -> SUBSET Flags]
  <2>1. f \in SUBSET Flags
    BY <1>1
  <2> QED BY <1>1, <1>2, <2>1
<1>8. ASSUME NEW q \in Procs PROVE Queued(q)'
  <2>1. CASE q = p
    BY <1>5, <1>6, <2>1 DEF Queued
  <2>2. CASE q # p
    BY <1>1, <1>4, <1>5, <1>6, <2>2 DEF Queued
  <2> QED BY <2>1, <2>2
<1>9. Listed'
  BY <1>4, <1>8 DEF Listed
<1>10. 0 \in Procs
  BY AllocAssumption DEF Procs
<1>11. QueueTypes'
  BY <1>3, <1>7, <1>10 DEF QueueInv, QueueTypes, SwapInOne
<1>12. InTurn'
  <2>1. "ONSWAP" \notin mp_flags'[p]
    BY <1>1, <1>6
  <2> QED BY <1>1, <1>3, <2>1 DEF SwapInOne, InTurn
<1> QED BY <1>9, <1>11, <1>12 DEF QueueInv

LEMMA SwapOutKeeps ==
  ASSUME QueueInv, SwapOut PROVE QueueInv'
<1> DEFINE p == Outgoing
           f == mp_flags[p] \cup {"ONSWAP"}
<1>1. p \in Procs /\ Candidate(p)
  BY OutgoingCanGo DEF QueueInv, QueueTypes, SwapOut
<1>2. UNCHANGED in_queue /\ mp_flags' = [mp_flags EXCEPT ![p] = f] /\ outswap' = p
  BY DEF SwapOut
<1> HIDE DEF p
<1>3. mp_flags[p] \in SUBSET Flags /\ Queued(p)
  BY <1>1 DEF QueueInv, QueueTypes, Listed
<1>4. /\ f \in SUBSET Flags
      /\ "SWAPIN" \in f => "SWAPIN" \in mp_flags[p]
      /\ "REPLY" \notin f
      /\ p \in Range(in_queue) => "SWAPIN" \in f
  BY <1>1, <1>3 DEF Candidate, Queued, Flags
<1> HIDE DEF f
<1>5. mp_flags' \in [Procs -> SUBSET Flags] /\ Listed'
  BY <1>1, <1>2, <1>4, FlagsOfOne DEF QueueInv
<1>6. QueueTypes'
  BY <1>1, <1>2, <1>5 DEF QueueInv, QueueTypes, SwapOut
<1>7. InTurn'
  BY DEF QueueInv, SwapOut, InTurn
<1> QED BY <1>5, <1>6, <1>7 DEF QueueInv

LEMMA NoMemKeeps ==
  ASSUME QueueInv, NoMem PROVE QueueInv'
<1>1. Listed'
  BY QueueUntouched DEF QueueInv, NoMem, procVars
<1>2. 0 \in Procs
  BY AllocAssumption DEF Procs
<1>3. QueueTypes'
  BY <1>2 DEF QueueInv, QueueTypes, NoMem, procVars, NoRequest
<1>4. InTurn'
  BY DEF QueueInv, QueueTypes, NoMem, InTurn
<1> QED BY <1>1, <1>3, <1>4 DEF QueueInv

(* The turns of swap_in. *)
LEMMA CleanKeeps ==
  ASSUME QueueInv, Clean PROVE QueueInv'
<1> DEFINE p == in_queue[pmp]
<1>1. /\ in_queue \in Seq(Procs) /\ Distinct /\ \A q \in Procs : Queued(q)
      /\ pmp \in 1..Len(in_queue) /\ Len(in_queue) \in Nat
  BY DEF QueueInv, QueueTypes, Listed, Clean, AtProcess
<1>2. /\ in_queue' = RemoveAt(in_queue, pmp) /\ UNCHANGED mp_flags
      /\ "SWAPIN" \notin mp_flags[p]
  BY DEF Clean, procVars
<1>3. in_queue' \in Seq(Procs) /\ Len(in_queue') = Len(in_queue) - 1
  BY <1>1, <1>2, Removed, Zenon
<1>4. /\ Distinct'
      /\ \A q \in Range(in_queue) : q # p => q \in Range(in_queue')
  BY <1>1, <1>2, OneLess, Zenon DEF Distinct
<1>5. \A q \in Range(in_queue') : q \in Range(in_queue)
  <2> SUFFICES ASSUME NEW j \in 1..Len(in_queue) - 1
               PROVE  in_queue'[j] \in Range(in_queue)
    BY <1>3 DEF Range
  <2>1. in_queue'[j] = IF j < pmp THEN in_queue[j] ELSE in_queue[j + 1]
    BY <1>1, <1>2, Removed, Zenon
  <2>2. DOMAIN in_queue = 1..Len(in_queue)
    BY <1>1
  <2> QED BY <1>1, <2>1, <2>2 DEF Range
<1> HIDE DEF p
<1>6. ASSUME NEW q \in Procs PROVE Queued(q)'
  <2>1. CASE q = p
    BY <1>1, <1>2, <1>5, <2>1 DEF Queued
  <2>2. CASE q # p
    BY <1>1, <1>2, <1>4, <1>5, <2>2 DEF Queued
  <2> QED BY <2>1, <2>2
<1>7. Listed'
  BY <1>4, <1>6 DEF Listed
<1>8. QueueTypes'
  BY <1>2, <1>3 DEF QueueInv, QueueTypes, Clean
<1>9. InTurn'
  BY <1>1, <1>3 DEF Clean, AtProcess, InTurn
<1> QED BY <1>7, <1>8, <1>9 DEF QueueInv

LEMMA FindRoomKeeps ==
  ASSUME QueueInv, FindRoom PROVE QueueInv'
<1>1. Listed'
  BY QueueUntouched DEF QueueInv, FindRoom, procVars
<1>2. /\ in_queue[pmp] \in Procs
      /\ request'.kind = "swap_in" /\ request'.proc = in_queue[pmp]
  BY DEF QueueInv, QueueTypes, FindRoom, AtProcess
<1>3. QueueTypes'
  BY <1>2 DEF QueueInv, QueueTypes, FindRoom, procVars
<1>4. InTurn'
  BY <1>2 DEF FindRoom, AtProcess, InTurn
<1> QED BY <1>1, <1>3, <1>4 DEF QueueInv

LEMMA ContinueKeeps == ASSUME QueueInv, Continue PROVE QueueInv'
<1>1. CASE TrySwapOut
  <2>1. Listed' /\ QueueTypes' /\ InTurn'
    BY <1>1, QueueUntouched DEF QueueInv, TrySwapOut, procVars, QueueTypes, InTurn
  <2> QED BY <2>1 DEF QueueInv
<1>2. CASE SwapInEnd \/ SwapOffFails
  <2>1. Listed' /\ QueueTypes'
    BY <1>2, QueueUntouched DEF QueueInv, SwapInEnd, SwapOffFails, procVars, QueueTypes
  <2>2. InTurn'
    BY <1>2 DEF SwapInEnd, SwapOffFails, InTurn
  <2> QED BY <2>1, <2>2 DEF QueueInv
<1>3. CASE SwapOffEnd
  <2>1. Listed' /\ QueueTypes'
    BY <1>3, QueueUntouched DEF QueueInv, SwapOffEnd, procVars, QueueTypes
  <2>2. InTurn'
    BY <1>3 DEF SwapOffEnd, InTurn
  <2> QED BY <2>1, <2>2 DEF QueueInv
<1>4. CASE SignalsEnd
  <2>1. 0 \in Procs
    BY AllocAssumption DEF Procs
  <2>2. Listed' /\ QueueTypes'
    BY <1>4, <2>1, QueueUntouched DEF QueueInv, SignalsEnd, procVars, QueueTypes, NoRequest
  <2>3. InTurn'
    BY <1>4 DEF QueueInv, SignalsEnd, InTurn
  <2> QED BY <2>2, <2>3 DEF QueueInv
<1> QED
  BY <1>1, <1>2, <1>3, <1>4, GrantKeeps, SwapInOneKeeps, SwapOutKeeps, NoMemKeeps, CleanKeeps,
     FindRoomKeeps DEF Continue

LEMMA QueueStep == QueueInv /\ [Next]_vars => QueueInv'
<1> SUFFICES ASSUME QueueInv, [Next]_vars PROVE QueueInv'
  OBVIOUS
<1>1. CASE Next
  BY <1>1, CallKeeps, ContinueKeeps DEF Next
<1>2. CASE UNCHANGED vars
  BY <1>2 DEF vars, QueueInv, QueueTypes, InTurn, Listed, Distinct, Queued
<1> QED BY <1>1, <1>2

LEMMA QueueAlways == Spec => []QueueInv
  BY InitQueue, QueueStep, PTL DEF Spec

(* The inswap queue is sound for any number of processes, any memory and   *)
(* any order of forks, exits, swaps and replies: nobody is queued twice,   *)
(* nobody flagged is missing, and nobody who got a reply is forgotten on   *)
(* swap.                                                                   *)
THEOREM QueueIsSound == Spec => []QueueSound
<1>1. QueueInv => QueueSound
  BY ListedIsSound DEF QueueInv
<1> QED BY <1>1, QueueAlways, PTL
------------------------------------------------------------------------------
(* The rest of the state, and what makes each request one that alloc.c can *)
(* serve: who has no flags has no memory, nobody has an empty block, and   *)
(* alloc_mem is asked for at least a click.                                *)
Slots == \A p \in Procs : /\ mp_flags[p] = {} \/ InUse(p)
                          /\ InUse(p) => mp_seg[p].len > 0

Served ==
  /\ request \in [kind : {"none", "fork", "exec", "swap_in"}, proc : Procs, size : Nat]
  /\ pc \in {"alloc", "swap_out", "signal"} <=> request # NoRequest
  /\ pc \in {"alloc", "swap_out"} =>
       /\ request.kind # "none" /\ request.size > 0
       /\ request.kind = "fork" <=> ~ InUse(request.proc)

MemoryTypes ==
  /\ Counted(table)
  /\ swapping \in BOOLEAN /\ worst_fit \in {0, 1} /\ closing \in BOOLEAN
  /\ mp_seg \in [Procs -> Holes]

TypeInv == QueueInv /\ MemoryTypes /\ Slots /\ Served

LEMMA TypeInvIsTypeOK == TypeInv => TypeOK
  BY Zenon DEF TypeInv, QueueInv, QueueTypes, MemoryTypes, Served, Counted, TypeOK

LEMMA ChunksAre ==
  /\ Len(Chunks) \in Nat \ {0} /\ DOMAIN Chunks = 1..Len(Chunks)
  /\ \A k \in 1..Len(Chunks) : Chunks[k].base \in Nat /\ Chunks[k].len \in Nat \ {0}
<1> DEFINE R == [base : Nat, len : Nat \ {0}]
<1>1. Chunks \in Seq(R) /\ Chunks # <<>>
  BY AllocAssumption
<1> HIDE DEF R
<1>2. Len(Chunks) \in Nat \ {0} /\ DOMAIN Chunks = 1..Len(Chunks)
  BY <1>1
<1>3. \A k \in 1..Len(Chunks) : Chunks[k] \in R
  BY <1>1
<1> QED BY <1>2, <1>3 DEF R

(* Above all chunks there is a first address. *)
LEMMA SwapBase ==
  /\ swap_base \in Nat
  /\ \A k \in DOMAIN Chunks : HoleEnd(Chunks[k]) < swap_base
  /\ swap_maxsize \in Nat
<1> DEFINE n == Len(Chunks)
           ends == {HoleEnd(c) : c \in Range(Chunks)}
           f == [k \in 1..n |-> HoleEnd(Chunks[k])]
<1>1. AddressSpace \in Nat /\ swap_base <= AddressSpace
  BY AllocAssumption DEF swap_base
<1>2. n \in Nat \ {0} /\ DOMAIN Chunks = 1..n
  BY ChunksAre
<1>3. f \in [1..n -> Nat]
  <2>1. \A k \in 1..n : HoleEnd(Chunks[k]) \in Nat
    BY ChunksAre DEF HoleEnd
  <2> QED BY <2>1
<1>4. PICK m \in 1..n : \A k \in 1..n : f[k] <= f[m]
  <2> HIDE DEF f, n
  <2> QED BY <1>2, <1>3, Greatest, Zenon
<1>5. \A x \in ends : \E k \in 1..n : x = f[k]
  BY <1>2 DEF Range
<1>6. f[m] \in ends
  BY <1>2 DEF Range
<1> HIDE DEF ends, f, n
<1>7. Max(ends) \in ends /\ \A x \in ends : Max(ends) >= x
  <2>1. \A x \in ends : f[m] >= x
    BY <1>3, <1>4, <1>5
  <2> QED BY <1>6, <2>1, Zenon DEF Max
<1>8. swap_base = Max(ends) + 1 /\ Max(ends) \in Nat
  <2>1. \A x \in ends : x \in Nat
    BY <1>3, <1>5
  <2> QED BY <1>7, <2>1 DEF swap_base, swap_base_of, ends
<1>9. ASSUME NEW k \in DOMAIN Chunks PROVE HoleEnd(Chunks[k]) < swap_base
  <2>1. HoleEnd(Chunks[k]) \in ends
    BY DEF ends, Range
  <2>2. HoleEnd(Chunks[k]) \in Nat
    BY ChunksAre DEF HoleEnd
  <2> QED BY <1>7, <1>8, <2>1, <2>2
<1> QED BY <1>1, <1>8, <1>9 DEF swap_maxsize

(* The table of mem_init after each chunk: the recursion has a solution,   *)
(* as it has for any number of chunks if it has for one less.              *)
Loading(n, f) ==
  f = [k \in 0..n |-> IF k = 0 THEN EmptyTable
                      ELSE free_mem(f[k - 1], Chunks[k].base, Chunks[k].len)]

LEMMA LoadingGoesOn ==
  ASSUME NEW n \in Nat, NEW f, Loading(n, f)
  PROVE  \E g : Loading(n + 1, g)
<1> DEFINE next == free_mem(f[n], Chunks[n + 1].base, Chunks[n + 1].len)
           g == [k \in 0..n + 1 |-> IF k = n + 1 THEN next ELSE f[k]]
           h == [k \in 0..n + 1 |-> IF k = 0 THEN EmptyTable
                      ELSE free_mem(g[k - 1], Chunks[k].base, Chunks[k].len)]
<1>1. \A k \in 0..n : f[k] = IF k = 0 THEN EmptyTable
                      ELSE free_mem(f[k - 1], Chunks[k].base, Chunks[k].len)
  BY DEF Loading
<1>2. g[n + 1] = next /\ \A k \in 0..n : g[k] = f[k]
  OBVIOUS
<1>3. ASSUME NEW k \in 0..n + 1
      PROVE  g[k] = IF k = 0 THEN EmptyTable
                    ELSE free_mem(g[k - 1], Chunks[k].base, Chunks[k].len)
  <2>1. CASE k = n + 1
    <3>1. k # 0 /\ k - 1 = n /\ n \in 0..n
      BY <2>1
    <3> HIDE DEF g
    <3> QED BY <1>2, <2>1, <3>1
  <2>2. CASE k = 0
    <3>1. 0 \in 0..n
      OBVIOUS
    <3> HIDE DEF g
    <3> QED BY <1>1, <1>2, <2>2, <3>1
  <2>3. CASE k # 0 /\ k # n + 1
    <3>1. k \in 0..n /\ k - 1 \in 0..n
      BY <2>3
    <3> HIDE DEF g
    <3> QED BY <1>1, <1>2, <2>3, <3>1
  <2> QED BY <2>1, <2>2, <2>3
<1>4. g = h
  <2>1. \A k \in 0..n + 1 : g[k] = h[k]
    BY <1>3
  <2>2. g = [k \in 0..n + 1 |-> g[k]]
    OBVIOUS
  <2>3. h = [k \in 0..n + 1 |-> h[k]]
    OBVIOUS
  <2> HIDE DEF g, h
  <2> QED BY <2>1, <2>2, <2>3
<1>5. Loading(n + 1, g)
  <2> HIDE DEF g
  <2> QED BY <1>4 DEF Loading
<1> QED BY <1>5

LEMMA LoadingExists == \E f : Loading(Len(Chunks), f)
<1> DEFINE Bad == {n \in Nat : ~ \E f : Loading(n, f)}
<1> SUFFICES ASSUME Bad # {} PROVE FALSE
  <2>1. Len(Chunks) \in Nat
    BY AllocAssumption
  <2> QED BY <2>1
<1>1. PICK n \in Bad : \A k \in Bad : n <= k
  <2>1. Bad \in SUBSET Nat
    OBVIOUS
  <2> HIDE DEF Bad
  <2> QED BY <2>1, Least, Zenon
<1>2. n \in Nat /\ ~ \E f : Loading(n, f)
  OBVIOUS
<1>3. CASE n = 0
  <2> DEFINE f == [k \in 0..0 |-> EmptyTable]
             h == [k \in 0..0 |-> IF k = 0 THEN EmptyTable
                      ELSE free_mem(f[k - 1], Chunks[k].base, Chunks[k].len)]
  <2>1. \A k \in 0..0 : k = 0
    OBVIOUS
  <2>2. f = h
    <3>1. \A k \in 0..0 : f[k] = h[k]
      BY <2>1
    <3>2. f = [k \in 0..0 |-> f[k]] /\ h = [k \in 0..0 |-> h[k]]
      OBVIOUS
    <3> HIDE DEF f, h
    <3> QED BY <3>1, <3>2
  <2>3. Loading(0, f)
    <3> HIDE DEF f
    <3> QED BY <2>2 DEF Loading
  <2> HIDE DEF f
  <2> QED BY <1>2, <1>3, <2>3
<1>4. CASE n # 0
  <2>1. n - 1 \in Nat /\ n - 1 + 1 = n /\ ~ (n <= n - 1)
    BY <1>2, <1>4
  <2>2. \E f : Loading(n - 1, f)
    BY <1>1, <2>1
  <2> HIDE DEF Bad
  <2>3. \E g : Loading(n - 1 + 1, g)
    BY <2>1, <2>2, LoadingGoesOn, Zenon
  <2> QED BY <1>2, <2>1, <2>3
<1> QED BY <1>3, <1>4

LEMMA InitLoads == Init => \E f : Loading(Len(Chunks), f) /\ table = f[Len(Chunks)]
<1> SUFFICES ASSUME Init PROVE \E f : Loading(Len(Chunks), f) /\ table = f[Len(Chunks)]
  OBVIOUS
<1> DEFINE f == CHOOSE g : Loading(Len(Chunks), g)
<1>1. Loading(Len(Chunks), f)
  BY LoadingExists
<1>2. table = f[Len(Chunks)]
  BY DEF Init, mem_init, Loading
<1> HIDE DEF f
<1> QED BY <1>1, <1>2


LEMMA EmptyIs == Sound(EmptyTable) /\ ~ EmptyTable.panic /\ Len(EmptyTable.list) = 0
<1>1. NR_HOLES \in Nat
  BY AllocAssumption DEF NR_HOLES
<1>2. EmptyTable \in Tables /\ EmptyTable.list = <<>> /\ EmptyTable.free = NR_HOLES
      /\ EmptyTable.panic = FALSE
  BY <1>1 DEF EmptyTable, Tables
<1>3. Counted(EmptyTable)
  BY <1>1, <1>2 DEF Counted
<1>4. Near(EmptyTable.list, {})
  BY <1>2 DEF Near
<1> QED BY <1>2, <1>3, <1>4 DEF Sound

LEMMA LoadedCounted ==
  ASSUME NEW f, Loading(Len(Chunks), f), NEW m \in 0..Len(Chunks)
  PROVE  Counted(f[m]) /\ Len(f[m].list) <= m
<1> DEFINE n == Len(Chunks)
           Fine(k) == Counted(f[k]) /\ Len(f[k].list) <= k
           Bad == {k \in 0..n : ~ Fine(k)}
<1>1. n \in Nat /\ \A k \in 1..n : Chunks[k].base \in Nat /\ Chunks[k].len \in Nat
  BY ChunksAre
<1>2. \A k \in 0..n : f[k] = IF k = 0 THEN EmptyTable
                      ELSE free_mem(f[k - 1], Chunks[k].base, Chunks[k].len)
  BY DEF Loading
<1>3. /\ Bad \in SUBSET Nat /\ \A k \in Bad : k \in 0..n /\ ~ Fine(k)
      /\ \A k \in 0..n : k \notin Bad => Fine(k)
  BY <1>1
<1> HIDE DEF Bad
<1>4. Bad = {}
  <2> SUFFICES ASSUME Bad # {} PROVE FALSE
    OBVIOUS
  <2>1. PICK k \in Bad : \A j \in Bad : k <= j
    BY <1>3, Least, Zenon
  <2>2. k \in 0..n /\ ~ Fine(k)
    BY <1>3, <2>1
  <2> HIDE DEF n
  <2>3. CASE k = 0
    <3>1. f[k] = EmptyTable
      BY <1>2, <2>2, <2>3
    <3>2. Fine(k)
      BY <2>3, <3>1, EmptyIs DEF Sound
    <3> QED BY <2>2, <3>2
  <2>4. CASE k # 0
    <3>1. k - 1 \in 0..n /\ k \in 1..n /\ ~ (k <= k - 1)
      BY <1>1, <2>2, <2>4
    <3>2. Fine(k - 1)
      BY <1>3, <2>1, <3>1
    <3>3. f[k] = free_mem(f[k - 1], Chunks[k].base, Chunks[k].len)
      BY <1>2, <2>2, <2>4
    <3>4. Counted(f[k]) /\ Len(f[k].list) <= Len(f[k - 1].list) + 1
      <4>1. Chunks[k].base \in Nat /\ Chunks[k].len \in Nat
        BY <1>1, <3>1
      <4> QED BY <3>2, <3>3, <4>1, FreeCounted, Zenon
    <3>5. Len(f[k].list) \in Nat /\ Len(f[k - 1].list) \in Nat
      BY <3>2, <3>4 DEF Counted, Tables
    <3>6. Fine(k)
      BY <3>1, <3>2, <3>4, <3>5
    <3> QED BY <2>2, <3>6
  <2> QED BY <2>3, <2>4
<1>5. Fine(m)
  <2> HIDE DEF Fine
  <2> QED BY <1>3, <1>4
<1> QED BY <1>5

LEMMA InitTypes == Init => TypeInv
<1> SUFFICES ASSUME Init PROVE TypeInv
  OBVIOUS
<1>1. Counted(table)
  <2>1. PICK f : Loading(Len(Chunks), f) /\ table = f[Len(Chunks)]
    BY InitLoads
  <2>2. Len(Chunks) \in 0..Len(Chunks)
    BY ChunksAre
  <2> QED BY <2>1, <2>2, LoadedCounted
<1>2. 0 \in Procs
  BY AllocAssumption DEF Procs
<1>3. Hole(0, 0) \in Holes
  BY DEF Hole, Holes
<1>4. MemoryTypes
  BY <1>1, <1>3 DEF Init, MemoryTypes
<1>5. Slots
  BY DEF Init, Slots, InUse
<1>6. Served
  BY <1>2 DEF Init, Served, NoRequest
<1> QED BY <1>4, <1>5, <1>6, InitQueue DEF TypeInv
------------------------------------------------------------------------------
(* A hole that alloc_mem picks is big enough, whatever the policy. *)
LEMMA PickedIs ==
  ASSUME TypeInv, Picked # 0
  PROVE  Picked \in 1..Len(table.list) /\ request.size <= table.list[Picked].len
<1>1. Counted(table) /\ swap_base \in Nat /\ request.size \in Nat
  BY SwapBase DEF TypeInv, MemoryTypes, Served
<1>2. CASE worst_fit = 0
  <2>1. Picked = FirstFit(table, swap_base, request.size)
    BY <1>2 DEF Picked
  <2> QED BY <1>1, <2>1, FirstFitIs
<1>3. CASE worst_fit # 0
  <2>1. Picked = WorstFit(table, swap_base, request.size)
    BY <1>3 DEF Picked
  <2> QED BY <1>1, <2>1, WorstFitIs
<1> QED BY <1>2, <1>3

(* A block moves to the start of a hole, and the old one becomes free.     *)
LEMMA MovedTypes ==
  ASSUME Counted(table), mp_seg \in [Procs -> Holes],
         NEW p \in Procs, NEW k \in 1..Len(table.list), NEW n \in Nat \ {0},
         n <= table.list[k].len,
         NEW b, b = Bite(table, k, n),
         table' \in {b, free_mem(b, mp_seg[p].base, mp_seg[p].len)},
         mp_seg' = [mp_seg EXCEPT ![p] = Hole(table.list[k].base, n)]
  PROVE  /\ Counted(table') /\ mp_seg' \in [Procs -> Holes]
         /\ mp_seg'[p].base = table.list[k].base /\ mp_seg'[p].len = n
         /\ \A q \in Procs : q # p => mp_seg'[q] = mp_seg[q]
<1> DEFINE h == Hole(table.list[k].base, n)
<1>1. Counted(b)
  BY BiteCounted, Zenon
<1>2. mp_seg[p].base \in Nat /\ mp_seg[p].len \in Nat
  BY DEF Holes
<1>3. table' \in {b, free_mem(b, mp_seg[p].base, mp_seg[p].len)}
  OBVIOUS
<1>4. Counted(free_mem(b, mp_seg[p].base, mp_seg[p].len))
  BY <1>1, <1>2, FreeCounted, Zenon
<1>5. Counted(table')
  BY <1>1, <1>3, <1>4, Zenon
<1>6. table.list[k] \in Holes
  BY DEF Counted, Tables
<1>7. h \in Holes /\ h.base = table.list[k].base /\ h.len = n
  BY <1>6 DEF Hole, Holes
<1>8. mp_seg' = [mp_seg EXCEPT ![p] = h]
  OBVIOUS
<1> HIDE DEF h
<1> QED BY <1>5, <1>7, <1>8


(* Flags and blocks as the request wants them, when it is no step of an    *)
(* allocation: then nobody is served.                                      *)
LEMMA Idle == ASSUME Served, pc \notin {"alloc", "swap_out", "signal"}
              PROVE  request = NoRequest /\ request.kind = "none"
  BY DEF Served, NoRequest

LEMMA NothingServed ==
  ASSUME request' = NoRequest, pc' \notin {"alloc", "swap_out", "signal"} PROVE Served'
<1>1. 0 \in Procs
  BY AllocAssumption DEF Procs
<1> QED BY <1>1 DEF Served, NoRequest

(* Steps that change nobody's block. *)
LEMMA SlotsStay ==
  ASSUME Slots, UNCHANGED mp_seg,
         \A p \in Procs : mp_flags'[p] = mp_flags[p]
                          \/ (InUse(p) /\ "IN_USE" \in mp_flags'[p])
  PROVE  Slots' /\ \A p \in Procs : InUse(p)' <=> InUse(p)
BY DEF Slots, InUse

(* One process changes its flags but goes on being in use. *)
LEMMA FlagsStay ==
  ASSUME TypeInv, NEW p \in Procs, InUse(p), NEW f, "IN_USE" \in f,
         mp_flags' = [mp_flags EXCEPT ![p] = f]
  PROVE  \A q \in Procs : mp_flags'[q] = mp_flags[q]
                          \/ (InUse(q) /\ "IN_USE" \in mp_flags'[q])
<1>1. mp_flags \in [Procs -> SUBSET Flags]
  BY DEF TypeInv, QueueInv, QueueTypes
<1> QED BY <1>1

LEMMA CallAllocTypes ==
  ASSUME TypeInv, NEW kind \in {"fork", "exec"}, NEW p \in Procs, NEW n \in Sizes,
         CallAlloc(kind, p, n), kind = "fork" <=> ~ InUse(p)
  PROVE  MemoryTypes' /\ Slots' /\ Served'
<1>1. n \in Nat /\ n > 0
  BY AllocAssumption
<1>2. request' = [kind |-> kind, proc |-> p, size |-> n] /\ pc' = "alloc"
      /\ UNCHANGED <<table, swapping, worst_fit, closing, mp_flags, mp_seg>>
  BY DEF CallAlloc, procVars
<1>3. /\ request'.kind = kind /\ request'.proc = p /\ request'.size = n
      /\ request' \in [kind : {"none", "fork", "exec", "swap_in"}, proc : Procs, size : Nat]
      /\ request' # NoRequest
  BY <1>1, <1>2 DEF NoRequest
<1>4. Served'
  BY <1>1, <1>2, <1>3 DEF Served, InUse, NoRequest
<1>5. MemoryTypes' /\ Slots'
  BY <1>2 DEF TypeInv, MemoryTypes, Counted, Slots, InUse
<1> QED BY <1>4, <1>5

LEMMA ExitTypes ==
  ASSUME TypeInv, NEW p \in Procs, Exit(p) PROVE MemoryTypes' /\ Slots' /\ Served'
<1>1. /\ Counted(table) /\ mp_seg[p].base \in Nat /\ mp_seg[p].len \in Nat
      /\ mp_flags \in [Procs -> SUBSET Flags]
  BY DEF TypeInv, MemoryTypes, Holes, QueueInv, QueueTypes
<1>2. table' = free_mem(table, mp_seg[p].base, mp_seg[p].len)
      /\ mp_flags' = [mp_flags EXCEPT ![p] = {}]
      /\ UNCHANGED <<swapping, worst_fit, closing, mp_seg, pc, request>> /\ pc \in {"idle", "signal"}
  BY DEF Exit, MayHear
<1>3. Counted(table')
  BY <1>1, <1>2, FreeCounted, Zenon
<1>4. MemoryTypes'
  BY <1>2, <1>3 DEF TypeInv, MemoryTypes
<1>5. \A q \in Procs : mp_flags'[q] = IF q = p THEN {} ELSE mp_flags[q]
  BY <1>1, <1>2
<1>6. Slots'
  BY <1>2, <1>5 DEF TypeInv, Slots, InUse
<1>7. Served'
  BY <1>2 DEF TypeInv, Served
<1> QED BY <1>4, <1>6, <1>7

(* What the other calls have in common. *)
LEMMA QuietTypes ==
  ASSUME TypeInv, UNCHANGED <<table, worst_fit, mp_seg, request>>,
         swapping' \in BOOLEAN, closing' \in BOOLEAN,
         pc \notin {"alloc", "swap_out"}, pc' \notin {"alloc", "swap_out"},
         pc' = "signal" <=> pc = "signal",
         \A p \in Procs : mp_flags'[p] = mp_flags[p]
                          \/ (InUse(p) /\ "IN_USE" \in mp_flags'[p])
  PROVE  MemoryTypes' /\ Slots' /\ Served'
<1>1. MemoryTypes'
  BY DEF TypeInv, MemoryTypes, Counted
<1>2. Slots'
  BY SlotsStay DEF TypeInv
<1>3. Served'
  BY DEF TypeInv, Served
<1> QED BY <1>1, <1>2, <1>3

LEMMA WhoHasFlags == ASSUME Slots, NEW p \in Procs, mp_flags[p] # {} PROVE InUse(p)
  BY DEF Slots

LEMMA CallTypes ==
  ASSUME TypeInv, Call PROVE MemoryTypes' /\ Slots' /\ Served'
<1>0. swapping \in BOOLEAN /\ closing \in BOOLEAN /\ mp_flags \in [Procs -> SUBSET Flags]
      /\ worst_fit \in {0, 1} /\ Counted(table) /\ Slots
  BY DEF TypeInv, MemoryTypes, QueueInv, QueueTypes
<1>1. ASSUME NEW p \in Procs, NEW n \in Sizes, Fork(p, n) PROVE MemoryTypes' /\ Slots' /\ Served'
  BY <1>1, CallAllocTypes DEF Fork
<1>2. ASSUME NEW p \in Procs, NEW n \in Sizes, Exec(p, n) PROVE MemoryTypes' /\ Slots' /\ Served'
  BY <1>2, CallAllocTypes DEF Exec, Running, InUse
<1>3. ASSUME NEW p \in Procs, Exit(p) PROVE MemoryTypes' /\ Slots' /\ Served'
  BY <1>3, ExitTypes
<1>4. ASSUME NEW p \in Procs, Pause(p) PROVE MemoryTypes' /\ Slots' /\ Served'
  <2> DEFINE f == mp_flags[p] \cup {"PAUSED"}
  <2>1. InUse(p) /\ "IN_USE" \in f /\ mp_flags' = [mp_flags EXCEPT ![p] = f]
    BY <1>4 DEF Pause, Running, InUse
  <2> HIDE DEF f
  <2>2. \A q \in Procs : mp_flags'[q] = mp_flags[q] \/ (InUse(q) /\ "IN_USE" \in mp_flags'[q])
    BY <2>1, FlagsStay
  <2> QED BY <1>0, <1>4, <2>2, QuietTypes DEF Pause
<1>5. ASSUME NEW p \in Procs, Wake(p) PROVE MemoryTypes' /\ Slots' /\ Served'
  <2>1. InUse(p)
    BY <1>0, <1>5, WhoHasFlags DEF Wake
  <2>2. PICK f : mp_flags' = [mp_flags EXCEPT ![p] = f] /\ "IN_USE" \in f
    <3> DEFINE w == (mp_flags[p] \ {"PAUSED"}) \cup {"REPLY"}
               woken == [mp_flags EXCEPT ![p] = w]
               s == woken[p] \cup {"SWAPIN"}
    <3>1. mp_flags' = woken \/ mp_flags' = [woken EXCEPT ![p] = s]
      BY <1>5 DEF Wake, swap_inqueue
    <3>2. woken[p] = w /\ "IN_USE" \in w
      BY <1>0, <2>1 DEF InUse
    <3>3. "IN_USE" \in s
      BY <3>2
    <3> HIDE DEF w, s
    <3>4. [woken EXCEPT ![p] = s] = [mp_flags EXCEPT ![p] = s]
      BY <1>0
    <3> QED BY <3>1, <3>2, <3>3, <3>4
  <2>3. \A q \in Procs : mp_flags'[q] = mp_flags[q] \/ (InUse(q) /\ "IN_USE" \in mp_flags'[q])
    BY <2>1, <2>2, FlagsStay
  <2>4. UNCHANGED <<table, swapping, worst_fit, mp_seg, pc, request, closing>>
        /\ pc \in {"idle", "signal"}
    BY <1>5 DEF Wake, MayHear
  <2> QED BY <1>0, <2>3, <2>4, QuietTypes
<1>6. ASSUME NEW p \in Procs, Reply(p) PROVE MemoryTypes' /\ Slots' /\ Served'
  <2> DEFINE f == mp_flags[p] \ {"REPLY"}
  <2>1. InUse(p) /\ "IN_USE" \in f /\ mp_flags' = [mp_flags EXCEPT ![p] = f]
    BY <1>6 DEF Reply, InUse
  <2> HIDE DEF f
  <2>2. \A q \in Procs : mp_flags'[q] = mp_flags[q] \/ (InUse(q) /\ "IN_USE" \in mp_flags'[q])
    BY <2>1, FlagsStay
  <2> QED BY <1>0, <1>6, <2>2, QuietTypes DEF Reply
<1>7. CASE SwapIn
  BY <1>0, <1>7, QuietTypes DEF SwapIn, procVars
<1>8. CASE SwapOff
  <2>1. /\ pc = "idle" /\ pc' = "swap_in" /\ closing' = TRUE
        /\ UNCHANGED <<table, swapping, worst_fit, mp_seg, request>>
    BY <1>8 DEF SwapOff
  <2>2. \A p \in Procs : mp_flags'[p] = mp_flags[p] \cup
                           IF "ONSWAP" \in mp_flags[p] THEN {"SWAPIN"} ELSE {}
    BY <1>8 DEF SwapOff
  <2>3. \A p \in Procs : mp_flags'[p] = mp_flags[p] \/ (InUse(p) /\ "IN_USE" \in mp_flags'[p])
    <3> SUFFICES ASSUME NEW p \in Procs
                 PROVE  mp_flags'[p] = mp_flags[p] \/ (InUse(p) /\ "IN_USE" \in mp_flags'[p])
      OBVIOUS
    <3>1. CASE "ONSWAP" \in mp_flags[p]
      BY <1>0, <2>2, <3>1, WhoHasFlags DEF InUse
    <3>2. CASE "ONSWAP" \notin mp_flags[p]
      BY <2>2, <3>2
    <3> QED BY <3>1, <3>2
  <2> QED BY <1>0, <2>1, <2>3, QuietTypes
<1>9. ASSUME NEW n \in SwapSizes, SwapOn(n) PROVE MemoryTypes' /\ Slots' /\ Served'
  <2>1. /\ table' = free_mem(table, swap_base, Min({n, swap_maxsize})) /\ swapping' = TRUE
        /\ pc = "idle" /\ UNCHANGED <<worst_fit, mp_flags, mp_seg, pc, request, closing>>
    BY <1>9 DEF SwapOn, procVars
  <2>2. swap_base \in Nat /\ Min({n, swap_maxsize}) \in Nat
    <3>1. {n, swap_maxsize} \in SUBSET Nat /\ {n, swap_maxsize} # {}
      BY SwapBase, AllocAssumption
    <3>2. Min({n, swap_maxsize}) \in {n, swap_maxsize}
      BY <3>1, MinIs, Zenon
    <3> QED BY <3>1, <3>2, SwapBase
  <2>3. Counted(table')
    BY <1>0, <2>1, <2>2, FreeCounted, Zenon
  <2>4. MemoryTypes'
    BY <2>1, <2>3 DEF TypeInv, MemoryTypes
  <2>5. Slots'
    BY <2>1 DEF TypeInv, Slots, InUse
  <2>6. Served'
    BY <2>1, Idle, NothingServed DEF TypeInv
  <2> QED BY <2>4, <2>5, <2>6
<1>10. ASSUME NEW n \in Policies, SetPolicy(n) PROVE MemoryTypes' /\ Slots' /\ Served'
  <2>1. /\ worst_fit' \in {0, 1} /\ pc = "idle"
        /\ UNCHANGED <<table, swapping, mp_flags, mp_seg, pc, request, closing>>
    BY <1>0, <1>10 DEF SetPolicy, procVars
  <2>2. MemoryTypes'
    BY <2>1 DEF TypeInv, MemoryTypes, Counted
  <2>3. Slots'
    BY <2>1 DEF TypeInv, Slots, InUse
  <2>4. Served'
    BY <2>1, Idle, NothingServed DEF TypeInv
  <2> QED BY <2>2, <2>3, <2>4
<1>11. ASSUME NEW p \in Procs, Recall(p) PROVE MemoryTypes' /\ Slots' /\ Served'
  <2> DEFINE f == mp_flags[p] \cup {"SWAPIN"}
  <2>1. InUse(p) /\ "IN_USE" \in f
    BY <1>0, <1>11, WhoHasFlags DEF Recall, InUse
  <2>2. mp_flags' = mp_flags \/ mp_flags' = [mp_flags EXCEPT ![p] = f]
    BY <1>11 DEF Recall, swap_inqueue
  <2> HIDE DEF f
  <2>3. \A q \in Procs : mp_flags'[q] = mp_flags[q] \/ (InUse(q) /\ "IN_USE" \in mp_flags'[q])
    <3>1. CASE mp_flags' = mp_flags
      BY <3>1
    <3>2. CASE mp_flags' = [mp_flags EXCEPT ![p] = f]
      BY <2>1, <3>2, FlagsStay
    <3> QED BY <2>2, <3>1, <3>2
  <2>4. UNCHANGED <<table, swapping, worst_fit, mp_seg, pc, request, closing>>
        /\ pc \in {"idle", "signal"}
    BY <1>11 DEF Recall, MayHear
  <2> QED BY <1>0, <2>3, <2>4, QuietTypes
<1> QED BY <1>1, <1>2, <1>3, <1>4, <1>5, <1>6, <1>7, <1>8, <1>9, <1>10, <1>11 DEF Call

------------------------------------------------------------------------------
(* What alloc_mem does when it has picked a hole, for any kind of request. *)
LEMMA MoveToTypes ==
  ASSUME TypeInv, pc = "alloc", Picked # 0, MoveTo(Picked),
         NEW f \in SUBSET Flags, "IN_USE" \in f,
         mp_flags' = [mp_flags EXCEPT ![request.proc] = f],
         UNCHANGED <<swapping, worst_fit, closing>>
  PROVE  MemoryTypes' /\ Slots'
<1> DEFINE p == request.proc
           n == request.size
           k == Picked
           b == Bite(table, k, n)
<1>1. /\ Counted(table) /\ mp_seg \in [Procs -> Holes] /\ p \in Procs /\ n \in Nat \ {0}
      /\ mp_flags \in [Procs -> SUBSET Flags] /\ Slots
      /\ swapping \in BOOLEAN /\ worst_fit \in {0, 1} /\ closing \in BOOLEAN
  BY DEF TypeInv, MemoryTypes, Served, QueueInv, QueueTypes
<1>2. k \in 1..Len(table.list) /\ n <= table.list[k].len
  BY PickedIs
<1>3. /\ table' \in {b, free_mem(b, mp_seg[p].base, mp_seg[p].len)}
      /\ mp_seg' = [mp_seg EXCEPT ![p] = Hole(table.list[k].base, n)]
  BY DEF MoveTo
<1>4. mp_flags' = [mp_flags EXCEPT ![p] = f]
  OBVIOUS
<1> HIDE DEF k, p, n
<1>5. /\ Counted(table') /\ mp_seg' \in [Procs -> Holes] /\ mp_seg'[p].len = n
      /\ \A q \in Procs : q # p => mp_seg'[q] = mp_seg[q]
  BY <1>1, <1>2, <1>3, MovedTypes, Zenon
<1>6. \A q \in Procs : mp_flags'[q] = IF q = p THEN f ELSE mp_flags[q]
  BY <1>1, <1>4
<1>7. MemoryTypes'
  BY <1>1, <1>5 DEF MemoryTypes
<1>8. Slots'
  BY <1>1, <1>5, <1>6 DEF Slots, InUse
<1> QED BY <1>7, <1>8

LEMMA SwapOutTypes ==
  ASSUME TypeInv, SwapOut PROVE MemoryTypes' /\ Slots' /\ Served'
<1> DEFINE p == Outgoing
           n == mp_seg[p].len
           k == SwapHole(table, swap_base, n)
           b == Bite(table, k, n)
           f == mp_flags[p] \cup {"ONSWAP"}
<1>1. /\ Counted(table) /\ mp_seg \in [Procs -> Holes] /\ swap_base \in Nat
      /\ mp_flags \in [Procs -> SUBSET Flags] /\ Slots /\ Served
      /\ swapping \in BOOLEAN /\ worst_fit \in {0, 1} /\ closing \in BOOLEAN
      /\ outswap \in Procs
  BY SwapBase DEF TypeInv, MemoryTypes, QueueInv, QueueTypes
<1>2. p \in Procs /\ Candidate(p) /\ k # 0
  <2>1. p \in CanGo /\ p \in Procs /\ Candidate(p)
    BY <1>1, OutgoingCanGo DEF SwapOut
  <2> HIDE DEF p
  <2> QED BY <2>1 DEF CanGo
<1>3. /\ table' = free_mem(b, mp_seg[p].base, n)
      /\ mp_seg' = [mp_seg EXCEPT ![p] = Hole(table.list[k].base, n)]
      /\ mp_flags' = [mp_flags EXCEPT ![p] = f]
      /\ pc = "swap_out" /\ pc' = "alloc"
      /\ UNCHANGED <<swapping, worst_fit, closing, request>>
  BY DEF SwapOut
<1> HIDE DEF p
<1>4. InUse(p)
  BY <1>1, <1>2 DEF Slots, Candidate
<1>5. n \in Nat \ {0}
  <2>1. mp_seg[p] \in Holes
    BY <1>1, <1>2
  <2>2. mp_seg[p].len > 0
    BY <1>1, <1>2, <1>4 DEF Slots
  <2> QED BY <2>1, <2>2 DEF Holes
<1>6. k \in 1..Len(table.list) /\ n <= table.list[k].len
  BY <1>1, <1>2, <1>5, SwapHoleIs
<1>7. table' \in {b, free_mem(b, mp_seg[p].base, n)}
  BY <1>3
<1> HIDE DEF k
<1>8. /\ Counted(table') /\ mp_seg' \in [Procs -> Holes] /\ mp_seg'[p].len = n
      /\ \A q \in Procs : q # p => mp_seg'[q] = mp_seg[q]
  BY <1>1, <1>2, <1>3, <1>5, <1>6, <1>7, MovedTypes, Zenon
<1>9. \A q \in Procs : mp_flags'[q] = IF q = p THEN f ELSE mp_flags[q]
  BY <1>1, <1>3
<1>10. \A q \in Procs : InUse(q)' <=> InUse(q)
  BY <1>4, <1>9 DEF InUse
<1>11. MemoryTypes'
  BY <1>1, <1>3, <1>8 DEF MemoryTypes
<1>12. Slots'
  <2> SUFFICES ASSUME NEW q \in Procs
               PROVE  /\ mp_flags'[q] = {} \/ InUse(q)'
                      /\ InUse(q)' => mp_seg'[q].len > 0
    BY DEF Slots, InUse
  <2> HIDE DEF f, n
  <2>1. CASE q = p
    BY <1>4, <1>5, <1>8, <1>10, <2>1
  <2>2. CASE q # p
    BY <1>1, <1>8, <1>9, <1>10, <2>2 DEF Slots
  <2> QED BY <2>1, <2>2
<1>13. Served'
  BY <1>1, <1>3, <1>10 DEF Served, NoRequest, InUse
<1> QED BY <1>11, <1>12, <1>13

LEMMA ContinueTypes ==
  ASSUME TypeInv, Continue PROVE MemoryTypes' /\ Slots' /\ Served'
<1>0. /\ swapping \in BOOLEAN /\ closing \in BOOLEAN /\ mp_flags \in [Procs -> SUBSET Flags]
      /\ worst_fit \in {0, 1} /\ Counted(table) /\ mp_seg \in [Procs -> Holes]
      /\ Slots /\ Served /\ request.proc \in Procs
  BY DEF TypeInv, MemoryTypes, QueueInv, QueueTypes
<1>1. CASE Grant
  <2>1. {"IN_USE"} \in SUBSET Flags /\ "IN_USE" \in {"IN_USE"}
    BY DEF Flags
  <2> QED BY <1>1, <2>1, MoveToTypes, NothingServed DEF Grant
<1>2. CASE SwapInOne
  <2> DEFINE f == mp_flags[request.proc] \ {"ONSWAP", "SWAPIN"}
  <2>1. f \in SUBSET Flags /\ "IN_USE" \in f
    BY <1>0, <1>2 DEF SwapInOne, Served, InUse
  <2>2. mp_flags' = [mp_flags EXCEPT ![request.proc] = f]
    BY <1>2 DEF SwapInOne
  <2> HIDE DEF f
  <2>3. MemoryTypes' /\ Slots'
    BY <1>2, <2>1, <2>2, MoveToTypes DEF SwapInOne
  <2>4. Served'
    BY <1>0, <1>2 DEF SwapInOne, Served, NoRequest
  <2> QED BY <2>3, <2>4
<1>3. CASE TrySwapOut
  BY <1>0, <1>3 DEF TrySwapOut, procVars, MemoryTypes, Counted, Slots, Served, InUse, NoRequest
<1>4. CASE SwapOut
  BY <1>4, SwapOutTypes
<1>5. CASE NoMem
  <2>1. /\ request' = NoRequest /\ pc' \notin {"alloc", "swap_out", "signal"}
        /\ UNCHANGED <<table, swapping, worst_fit, closing, mp_flags, mp_seg>>
    BY <1>5 DEF NoMem, procVars
  <2>2. MemoryTypes' /\ Slots'
    BY <1>0, <2>1 DEF MemoryTypes, Counted, Slots, InUse
  <2> QED BY <2>1, <2>2, NothingServed
<1>6. CASE Clean
  BY <1>0, <1>6, QuietTypes DEF Clean, AtProcess, procVars
<1>7. CASE FindRoom
  <2> DEFINE p == in_queue[pmp]
             n == mp_seg[p].len
  <2>1. p \in Procs
    BY <1>7 DEF FindRoom, AtProcess, TypeInv, QueueInv, QueueTypes
  <2>2. /\ request' = [kind |-> "swap_in", proc |-> p, size |-> n] /\ pc' = "alloc"
        /\ UNCHANGED <<table, swapping, worst_fit, closing, mp_flags, mp_seg>>
        /\ "SWAPIN" \in mp_flags[p]
    BY <1>7 DEF FindRoom, procVars
  <2> HIDE DEF p
  <2>3. InUse(p) /\ mp_seg[p] \in Holes
    BY <1>0, <2>1, <2>2 DEF Slots
  <2>4. n \in Nat /\ n > 0
    BY <1>0, <2>1, <2>3 DEF Slots, Holes
  <2> HIDE DEF n
  <2>5. /\ request'.kind = "swap_in" /\ request'.proc = p /\ request'.size = n
        /\ request' \in [kind : {"none", "fork", "exec", "swap_in"}, proc : Procs, size : Nat]
        /\ request' # NoRequest
    BY <2>1, <2>2, <2>4 DEF NoRequest
  <2>6. Served'
    BY <2>2, <2>3, <2>4, <2>5 DEF Served, InUse, NoRequest
  <2>7. MemoryTypes' /\ Slots'
    BY <1>0, <2>2 DEF MemoryTypes, Counted, Slots, InUse
  <2> QED BY <2>6, <2>7
<1>8. CASE SwapInEnd
  BY <1>0, <1>8, QuietTypes DEF SwapInEnd, procVars
<1>9. CASE SwapOffFails
  BY <1>0, <1>9, QuietTypes DEF SwapOffFails, procVars
<1>10. CASE SwapOffEnd
  <2>1. /\ table' = table \/ table' = DropSwapHoles(table, swap_base)
        /\ swapping' \in BOOLEAN /\ closing' \in BOOLEAN
        /\ pc = "swap_off" /\ pc' \in {"idle", "undefined"}
        /\ UNCHANGED <<worst_fit, mp_flags, mp_seg, request>>
    BY <1>0, <1>10 DEF SwapOffEnd, procVars
  <2>2. Counted(table')
    <3>1. Counted(DropSwapHoles(table, swap_base))
      BY <1>0, SwapBase, DroppedFrom, Zenon
    <3> QED BY <1>0, <2>1, <3>1
  <2>3. MemoryTypes'
    BY <1>0, <2>1, <2>2 DEF MemoryTypes
  <2>4. Slots'
    BY <1>0, <2>1 DEF Slots, InUse
  <2>5. Served'
    BY <1>0, <2>1, Idle, NothingServed
  <2> QED BY <2>3, <2>4, <2>5
<1>11. CASE SignalsEnd
  <2>1. /\ request' = NoRequest /\ pc' = "swap_in"
        /\ UNCHANGED <<table, swapping, worst_fit, closing, mp_flags, mp_seg>>
    BY <1>11 DEF SignalsEnd, procVars
  <2>2. MemoryTypes' /\ Slots'
    BY <1>0, <2>1 DEF MemoryTypes, Counted, Slots, InUse
  <2> QED BY <2>1, <2>2, NothingServed
<1> QED BY <1>1, <1>2, <1>3, <1>4, <1>5, <1>6, <1>7, <1>8, <1>9, <1>10, <1>11 DEF Continue

LEMMA TypeStep == TypeInv /\ [Next]_vars => TypeInv'
<1> SUFFICES ASSUME TypeInv, [Next]_vars PROVE TypeInv'
  OBVIOUS
<1>1. QueueInv'
  BY QueueStep DEF TypeInv
<1>2. CASE Next
  <2>1. MemoryTypes' /\ Slots' /\ Served'
    BY <1>2, CallTypes, ContinueTypes DEF Next
  <2> QED BY <1>1, <2>1 DEF TypeInv
<1>3. CASE UNCHANGED vars
  <2>1. MemoryTypes' /\ Slots' /\ Served'
    BY <1>3 DEF vars, procVars, TypeInv, MemoryTypes, Counted, Slots, Served, InUse, NoRequest
  <2> QED BY <1>1, <2>1 DEF TypeInv
<1> QED BY <1>2, <1>3

LEMMA TypesAlways == Spec => []TypeInv
  BY InitTypes, TypeStep, PTL DEF Spec

(* Every variable of MM keeps its type whatever memory there is and        *)
(* whatever is asked of it: in particular the slots used and the slots     *)
(* free add up, and nobody is given, moved to or asked for an empty block. *)
THEOREM TypeIsSound == Spec => []TypeOK
  BY TypesAlways, TypeInvIsTypeOK, PTL

------------------------------------------------------------------------------
(* Counting towards the end of a request.                                  *)
Count == Cardinality(Candidates)
Deaths == Cardinality(Alive) * ((NR_PROCS + 1) * (Weight + 1))

LEMMA CountProcs ==
  ASSUME NEW T \in SUBSET Procs
  PROVE  IsFiniteSet(T) /\ Cardinality(T) \in Nat /\ Cardinality(T) <= NR_PROCS
<1>1. NR_PROCS \in Nat \ {0}
  BY AllocAssumption
<1>2. IsFiniteSet(Procs) /\ Cardinality(Procs) = NR_PROCS
  <2>1. IsFiniteSet(Procs) /\ Cardinality(Procs) = (NR_PROCS - 1) - 0 + 1
    BY <1>1, FS_Interval DEF Procs
  <2> QED BY <1>1, <2>1
<1>3. IsFiniteSet(T) /\ Cardinality(T) <= Cardinality(Procs)
  BY <1>2, FS_Subset
<1> QED BY <1>2, <1>3, FS_CardinalityType

LEMMA Shares ==
  ASSUME NEW n \in Nat, NEW w \in Nat
  PROVE  n * w \in Nat /\ (n + 1) * w = n * w + w
OBVIOUS

(* The one that is swapped out is no candidate any more. *)
LEMMA OneCandidateLess ==
  ASSUME QueueInv, SwapOut PROVE Count' = Count - 1
<1> DEFINE p == Outgoing
<1>1. p \in Procs /\ Candidate(p) /\ mp_flags \in [Procs -> SUBSET Flags]
  BY OutgoingCanGo DEF QueueInv, QueueTypes, SwapOut
<1>2. mp_flags' = [mp_flags EXCEPT ![p] = @ \cup {"ONSWAP"}]
  BY DEF SwapOut
<1> HIDE DEF p
<1>3. \A q \in Procs : mp_flags'[q] = IF q = p THEN mp_flags[p] \cup {"ONSWAP"} ELSE mp_flags[q]
  BY <1>1, <1>2
<1>4. \A q \in Procs : Candidate(q)' <=> Candidate(q) /\ q # p
  BY <1>3 DEF Candidate
<1>5. Candidates' = Candidates \ {p}
  BY <1>4 DEF Candidates
<1>6. p \in Candidates /\ IsFiniteSet(Candidates)
  BY <1>1, CountProcs DEF Candidates
<1>7. Cardinality(Candidates \ {p}) = Cardinality(Candidates) - 1
  BY <1>6, FS_RemoveElement
<1> QED BY <1>5, <1>7 DEF Count

(* Where a request stands, as a number of processes still to come. *)
LEMMA AheadIs ==
  ASSUME QueueInv
  PROVE  /\ Len(in_queue) \in Nat /\ pmp \in Nat \ {0}
         /\ pc \in {"alloc", "swap_out"} /\ request.kind = "swap_in" =>
              pmp <= Len(in_queue) /\ Ahead = Len(in_queue) - pmp + 1
         /\ pc \in {"alloc", "swap_out"} /\ request.kind # "swap_in" => Ahead = 0
         /\ pc \in {"swap_in", "signal"} =>
              pmp <= Len(in_queue) + 1 /\ Ahead = Len(in_queue) - pmp + 1
BY DEF QueueInv, QueueTypes, InTurn, Ahead

Nearer == ToEnd' >= 0 /\ ToEnd' < ToEnd

(* What a turn does to the place in the loops: it ends them, or the number *)
(* of turns to come falls.                                                 *)
LoopsEnd == pc' \in {"idle", "undefined"} /\ Turns \in Nat \ {0}
Falls == pc' \notin {"idle", "undefined"} /\ Turns' \in Nat /\ Turns' < Turns

LEMMA TurnsFall ==
  ASSUME TypeInv, TypeInv', Continue PROVE LoopsEnd \/ Falls
<1> DEFINE n == Ahead
           m == Ahead'
           c == Count
           d == Count'
           a == Cardinality(Asleep)
           b == Cardinality(Asleep')
           o == Others
           L == Len(in_queue)
           M == Len(in_queue')
           w == Weight
<1>0. QueueInv /\ QueueInv'
  BY DEF TypeInv
<1>1. NR_PROCS \in Nat \ {0} /\ w \in Nat /\ w = 4 * NR_PROCS + 4
  BY AllocAssumption DEF Weight
<1>2. c \in Nat /\ c <= NR_PROCS /\ d \in Nat /\ d <= NR_PROCS
  BY CountProcs DEF Count, Candidates
<1>3. a \in Nat /\ b \in Nat /\ b <= NR_PROCS
  BY CountProcs DEF Asleep
<1>4. o \in Nat
  <2>1. Cardinality(Unqueued) \in Nat
    BY CountProcs DEF Unqueued
  <2> QED BY <1>1, <2>1 DEF Others
<1>5. /\ L \in Nat /\ pmp \in Nat \ {0} /\ M \in Nat /\ pmp' \in Nat \ {0}
  BY <1>0 DEF QueueInv, QueueTypes
<1>6. /\ pc' = "swap_off" => Turns' = 1
      /\ pc' = "swap_out" => Turns' = 2 + m * w + 3 * d
      /\ pc' = "alloc" => Turns' = 3 + m * w + 3 * d
      /\ pc' = "swap_in" => Turns' = 4 + m * w + 3 * NR_PROCS
      /\ pc' = "signal" => Turns' = 5 + m * w + 3 * NR_PROCS + b + Others'
  BY DEF Turns, Count, Weight
<1>7. /\ pc = "swap_off" => Turns = 1
      /\ pc = "swap_out" => Turns = 2 + n * w + 3 * c
      /\ pc = "alloc" => Turns = 3 + n * w + 3 * c
      /\ pc = "swap_in" => Turns = 4 + n * w + 3 * NR_PROCS
      /\ pc = "signal" => Turns = 5 + n * w + 3 * NR_PROCS + a + o
  BY DEF Turns, Count
<1>8. pc \in {"alloc", "swap_out", "swap_in", "signal"} => n \in Nat
  BY <1>0, AheadIs
<1>9. /\ pc' \in {"alloc", "swap_out"} /\ request'.kind = "swap_in" => m = M - pmp' + 1
      /\ pc' \in {"alloc", "swap_out"} /\ request'.kind # "swap_in" => m = 0
      /\ pc' = "swap_in" => m = M - pmp' + 1
      /\ pc' = "signal" /\ request'.kind = "swap_in" => m = M - pmp' + 1
  BY DEF Ahead
<1>10. UNCHANGED mp_flags => d = c
  <2>1. Candidates' = Candidates => d = c
    BY DEF Count
  <2> QED BY <2>1 DEF Candidates, Candidate
<1> HIDE DEF n, m, c, d, a, b, o, L, M, w
<1>11. CASE Grant
  <2>1. pc = "alloc" /\ pc' = "idle"
    BY <1>11 DEF Grant
  <2>2. n \in Nat /\ Turns = 3 + n * w + 3 * c
    BY <1>7, <1>8, <2>1
  <2>3. n * w \in Nat
    BY <1>1, <2>2, Shares
  <2> QED BY <1>2, <2>1, <2>2, <2>3 DEF LoopsEnd
<1>12. CASE SwapInOne
  <2>1. /\ pc = "alloc" /\ request.kind = "swap_in" /\ pc' = "signal" /\ UNCHANGED <<pmp, request>>
        /\ in_queue' = RemoveAt(in_queue, pmp)
        /\ mp_flags' = [mp_flags EXCEPT ![request.proc] = @ \ {"ONSWAP", "SWAPIN"}]
    BY <1>12 DEF SwapInOne
  <2>2. pmp <= L /\ n = L - pmp + 1
    BY <1>0, <2>1, AheadIs DEF n, L
  <2>3. M = L - 1
    <3>1. in_queue \in Seq(Procs) /\ pmp \in 1..Len(in_queue)
      BY <1>0, <1>5, <2>2 DEF QueueInv, QueueTypes, L
    <3> QED BY <2>1, <3>1, Removed, Zenon DEF L, M
  <2>4. m \in Nat /\ n = m + 1
    BY <1>5, <1>9, <2>1, <2>2, <2>3
  <2>5. m * w \in Nat /\ n * w = m * w + w
    BY <1>1, <2>4, Shares
  <2>6. InUse(request.proc)'
    <3>1. InUse(request.proc) /\ request.proc \in Procs /\ mp_flags \in [Procs -> SUBSET Flags]
      BY <1>0, <2>1 DEF TypeInv, Served, QueueInv, QueueTypes
    <3> QED BY <2>1, <3>1 DEF InUse
  <2>7. Turns' = 5 + m * w + 3 * NR_PROCS + b + 0 /\ Turns = 3 + n * w + 3 * c
    <3>1. Others' = 0
      BY <2>6 DEF Others
    <3> QED BY <1>6, <1>7, <2>1, <3>1
  <2> QED BY <1>1, <1>2, <1>3, <2>1, <2>5, <2>7 DEF Falls
<1>13. CASE SignalsEnd
  <2>1. pc = "signal" /\ pc' = "swap_in" /\ UNCHANGED <<pmp, in_queue>>
    BY <1>13 DEF SignalsEnd
  <2>2. n = L - pmp + 1 /\ n \in Nat /\ M = L
    BY <1>0, <1>8, <2>1, AheadIs DEF n, L, M
  <2>3. m = n /\ n * w \in Nat
    BY <1>1, <1>9, <2>1, <2>2, Shares
  <2>4. Turns' = 4 + n * w + 3 * NR_PROCS /\ Turns = 5 + n * w + 3 * NR_PROCS + a + o
    BY <1>6, <1>7, <2>1, <2>3
  <2> QED BY <1>1, <1>3, <1>4, <2>1, <2>3, <2>4 DEF Falls
<1>14. CASE TrySwapOut
  <2>1. /\ pc = "alloc" /\ pc' = "swap_out"
        /\ UNCHANGED <<request, pmp, in_queue, mp_flags>>
    BY <1>14 DEF TrySwapOut, procVars
  <2>2. d = c /\ n \in Nat
    BY <1>8, <1>10, <2>1
  <2>3. m = n
    BY <2>1 DEF m, n, Ahead
  <2>4. Turns' = 2 + n * w + 3 * c /\ Turns = 3 + n * w + 3 * c
    BY <1>6, <1>7, <2>1, <2>2, <2>3
  <2>5. n * w \in Nat
    BY <1>1, <2>2, Shares
  <2> QED BY <1>2, <2>1, <2>4, <2>5 DEF Falls
<1>15. CASE SwapOut
  <2>1. pc = "swap_out" /\ pc' = "alloc" /\ UNCHANGED <<request, pmp, in_queue>>
    BY <1>15 DEF SwapOut
  <2>2. n \in Nat /\ d = c - 1
    BY <1>0, <1>8, <1>15, <2>1, OneCandidateLess DEF c, d
  <2>3. m = n
    BY <2>1 DEF m, n, Ahead
  <2>4. Turns' = 3 + n * w + 3 * (c - 1) /\ Turns = 2 + n * w + 3 * c
    BY <1>6, <1>7, <2>1, <2>2, <2>3
  <2>5. n * w \in Nat
    BY <1>1, <2>2, Shares
  <2> QED BY <1>2, <2>1, <2>2, <2>4, <2>5 DEF Falls
<1>16. CASE NoMem
  <2>1. /\ pc = "swap_out" /\ UNCHANGED in_queue
        /\ \/ pc' = "idle"
           \/ request.kind = "swap_in" /\ pc' = "swap_in" /\ pmp' = pmp + 1
    BY <1>16 DEF NoMem
  <2>2. n \in Nat /\ n * w \in Nat /\ Turns = 2 + n * w + 3 * c
    BY <1>1, <1>7, <1>8, <2>1, Shares
  <2>3. CASE pc' = "idle"
    BY <1>2, <2>2, <2>3 DEF LoopsEnd
  <2>4. CASE request.kind = "swap_in" /\ pc' = "swap_in" /\ pmp' = pmp + 1
    <3>1. pmp <= L /\ n = L - pmp + 1 /\ M = L
      BY <1>0, <2>1, <2>4, AheadIs DEF n, L, M
    <3>2. m \in Nat /\ n = m + 1
      BY <1>5, <1>9, <2>4, <3>1
    <3>3. m * w \in Nat /\ n * w = m * w + w
      BY <1>1, <3>2, Shares
    <3>4. Turns' = 4 + m * w + 3 * NR_PROCS
      BY <1>6, <2>4
    <3> QED BY <1>1, <1>2, <2>2, <2>4, <3>3, <3>4 DEF Falls
  <2> QED BY <2>1, <2>3, <2>4
<1>17. CASE Clean
  <2>1. /\ pc = "swap_in" /\ pc' = "swap_in" /\ UNCHANGED pmp
        /\ in_queue' = RemoveAt(in_queue, pmp) /\ pmp <= L
    BY <1>17 DEF Clean, AtProcess, L
  <2>2. n = L - pmp + 1
    BY <1>0, <2>1, AheadIs DEF n, L
  <2>3. M = L - 1
    <3>1. in_queue \in Seq(Procs) /\ pmp \in 1..Len(in_queue)
      BY <1>0, <1>5, <2>1 DEF QueueInv, QueueTypes, L
    <3> QED BY <2>1, <3>1, Removed, Zenon DEF L, M
  <2>4. m \in Nat /\ n = m + 1
    BY <1>5, <1>9, <2>1, <2>2, <2>3
  <2>5. m * w \in Nat /\ n * w = m * w + w
    BY <1>1, <2>4, Shares
  <2>6. Turns' = 4 + m * w + 3 * NR_PROCS /\ Turns = 4 + n * w + 3 * NR_PROCS
    BY <1>6, <1>7, <2>1
  <2> QED BY <1>1, <2>1, <2>5, <2>6 DEF Falls
<1>18. CASE FindRoom
  <2>1. /\ pc = "swap_in" /\ pc' = "alloc" /\ request'.kind = "swap_in"
        /\ UNCHANGED <<pmp, in_queue, mp_flags>>
    BY <1>18 DEF FindRoom, AtProcess, procVars
  <2>2. d = c /\ n \in Nat /\ n * w \in Nat
    BY <1>1, <1>8, <1>10, <2>1, Shares
  <2>3. m = n
    BY <2>1 DEF m, n, Ahead
  <2>4. Turns' = 3 + n * w + 3 * c /\ Turns = 4 + n * w + 3 * NR_PROCS
    BY <1>6, <1>7, <2>1, <2>2, <2>3
  <2> QED BY <1>1, <1>2, <2>1, <2>2, <2>4 DEF Falls
<1>19. CASE SwapInEnd
  <2>1. pc = "swap_in" /\ pc' \in {"swap_off", "idle"}
    BY <1>19 DEF SwapInEnd
  <2>2. n \in Nat /\ n * w \in Nat /\ Turns = 4 + n * w + 3 * NR_PROCS
    BY <1>1, <1>7, <1>8, <2>1, Shares
  <2>3. pc' = "swap_off" => Turns' = 1
    BY <1>6
  <2> QED BY <1>1, <2>1, <2>2, <2>3 DEF LoopsEnd, Falls
<1>20. CASE SwapOffFails \/ SwapOffEnd
  <2>1. pc = "swap_off" /\ pc' \in {"idle", "undefined"}
    BY <1>20 DEF SwapOffFails, SwapOffEnd
  <2> QED BY <1>7, <2>1 DEF LoopsEnd
<1> QED
  BY <1>11, <1>12, <1>13, <1>14, <1>15, <1>16, <1>17, <1>18, <1>19, <1>20 DEF Continue

(* No turn but the last of an allocation makes or ends a process. *)
LEMMA SameAlive ==
  ASSUME QueueInv, Continue, ~ Grant PROVE \A p \in Procs : InUse(p)' <=> InUse(p)
<1>1. mp_flags \in [Procs -> SUBSET Flags] /\ outswap \in Procs
  BY DEF QueueInv, QueueTypes
<1>2. CASE SwapInOne
  <2>1. mp_flags' = [mp_flags EXCEPT ![request.proc] = @ \ {"ONSWAP", "SWAPIN"}]
    BY <1>2 DEF SwapInOne
  <2> QED BY <1>1, <2>1 DEF InUse
<1>3. CASE SwapOut
  <2>1. mp_flags' = [mp_flags EXCEPT ![Outgoing] = @ \cup {"ONSWAP"}]
    BY <1>3 DEF SwapOut
  <2> QED BY <1>1, <2>1 DEF InUse
<1>4. CASE UNCHANGED mp_flags
  BY <1>4 DEF InUse
<1>5. SwapInOne \/ SwapOut \/ UNCHANGED mp_flags
  BY DEF Continue, SignalsEnd, TrySwapOut, NoMem, Clean, FindRoom, SwapInEnd, SwapOffFails,
         SwapOffEnd, procVars
<1> QED BY <1>2, <1>3, <1>4, <1>5

LEMMA DeathsAre ==
  /\ Cardinality(Alive) \in Nat /\ Deaths \in Nat
  /\ (NR_PROCS + 1) * (Weight + 1) = NR_PROCS * (Weight + 1) + (Weight + 1)
  /\ NR_PROCS * (Weight + 1) \in Nat /\ Weight \in Nat
<1>1. NR_PROCS \in Nat /\ Weight \in Nat
  BY AllocAssumption DEF Weight
<1>2. Cardinality(Alive) \in Nat
  BY CountProcs DEF Alive
<1>3. /\ (NR_PROCS + 1) * (Weight + 1) = NR_PROCS * (Weight + 1) + (Weight + 1)
      /\ NR_PROCS * (Weight + 1) \in Nat
  <2>1. Weight + 1 \in Nat
    BY <1>1
  <2> HIDE DEF Weight
  <2> QED BY <1>1, <2>1, Shares
<1>4. (NR_PROCS + 1) * (Weight + 1) \in Nat
  BY <1>1, <1>3
<1> DEFINE x == (NR_PROCS + 1) * (Weight + 1)
           k == Cardinality(Alive)
<1>5. Deaths = k * x
  BY DEF Deaths
<1> HIDE DEF x, k
<1>6. k * x \in Nat
  BY <1>2, <1>4, Shares DEF x, k
<1> QED BY <1>1, <1>2, <1>3, <1>5, <1>6

LEMMA TurnIsNearer ==
  ASSUME TypeInv, TypeInv', Continue PROVE Nearer
<1>1. LoopsEnd \/ Falls
  BY TurnsFall
<1>2. Deaths \in Nat /\ ToEnd = IF pc \in {"idle", "undefined"} THEN 0 ELSE Turns + Deaths
  BY DeathsAre DEF ToEnd, Deaths
<1>3. pc \notin {"idle", "undefined"}
  BY DEF Continue, Grant, SwapInOne, SignalsEnd, TrySwapOut, SwapOut, NoMem, Clean, FindRoom,
         SwapInEnd, SwapOffFails, SwapOffEnd, AtProcess
<1>4. CASE LoopsEnd
  <2>1. ToEnd' = 0
    BY <1>4 DEF LoopsEnd, ToEnd
  <2> QED BY <1>2, <1>3, <1>4, <2>1 DEF LoopsEnd, Nearer
<1>5. CASE Falls
  <2>1. ~ Grant
    BY <1>5 DEF Falls, Grant
  <2>2. Alive' = Alive
    BY <2>1, SameAlive DEF Alive, TypeInv
  <2>3. ToEnd' = Turns' + Deaths
    BY <1>5, <2>2 DEF Falls, ToEnd, Deaths
  <2>4. Turns \in Int
    <3>1. Ahead \in Int /\ Weight \in Int /\ NR_PROCS \in Int
      BY AllocAssumption DEF Weight, Ahead, TypeInv, QueueInv, QueueTypes
    <3>2. Cardinality(Candidates) \in Nat /\ Cardinality(Asleep) \in Nat /\ Cardinality(Unqueued) \in Nat
      BY CountProcs DEF Candidates, Asleep, Unqueued
    <3>3. Ahead * Weight \in Int /\ Cardinality(Unqueued) * (Weight + 1) \in Int
      BY <3>1, <3>2
    <3>4. pc \in {"alloc", "swap_out", "swap_in", "signal", "swap_off"}
      BY <1>3 DEF TypeInv, QueueInv, QueueTypes
    <3> DEFINE nw == Ahead * Weight
    <3>5. nw \in Int /\ Others \in Int
      BY <3>3 DEF Others
    <3> HIDE DEF nw
    <3>6. \/ Turns = 1 \/ Turns = 2 + nw + 3 * Cardinality(Candidates)
          \/ Turns = 3 + nw + 3 * Cardinality(Candidates) \/ Turns = 4 + nw + 3 * NR_PROCS
          \/ Turns = 5 + nw + 3 * NR_PROCS + Cardinality(Asleep) + Others
      BY <3>4, Zenon DEF Turns, nw
    <3> QED BY <3>1, <3>2, <3>5, <3>6
  <2>5. ToEnd = Turns + Deaths /\ Deaths \in Nat
    BY <1>2, <1>3
  <2>6. Turns' \in Nat /\ Turns' < Turns
    BY <1>5 DEF Falls
  <2> DEFINE t == Turns
             u == Turns'
             d == Deaths
  <2>7. t \in Int /\ u \in Nat /\ u < t /\ d \in Nat
    BY <2>4, <2>5, <2>6
  <2>8. ToEnd = t + d /\ ToEnd' = u + d
    BY <2>3, <2>5
  <2> HIDE DEF t, u, d
  <2>9. u + d >= 0 /\ u + d < t + d
    BY <2>7
  <2> QED BY <2>8, <2>9 DEF Nearer
<1> QED BY <1>1, <1>4, <1>5

(* A reply or signal for a sleeping process, on swap or not. *)
LEMMA WokenIs ==
  ASSUME QueueInv, NEW p \in Procs, Wake(p)
  PROVE  \/ /\ UNCHANGED in_queue
            /\ mp_flags' = [mp_flags EXCEPT ![p] = (mp_flags[p] \ {"PAUSED"}) \cup {"REPLY"}]
         \/ /\ "ONSWAP" \in mp_flags[p] /\ "SWAPIN" \notin mp_flags[p]
            /\ in_queue' = Append(in_queue, p)
            /\ mp_flags' = [mp_flags EXCEPT
                              ![p] = (mp_flags[p] \ {"PAUSED"}) \cup {"REPLY", "SWAPIN"}]
<1> DEFINE f == (mp_flags[p] \ {"PAUSED"}) \cup {"REPLY"}
           woken == [mp_flags EXCEPT ![p] = f]
<1>1. mp_flags \in [Procs -> SUBSET Flags]
  BY DEF QueueInv, QueueTypes
<1>2. woken[p] = f
  BY <1>1
<1>3. "SWAPIN" \in f <=> "SWAPIN" \in mp_flags[p]
  OBVIOUS
<1>4. [woken EXCEPT ![p] = @ \cup {"SWAPIN"}] =
        [mp_flags EXCEPT ![p] = (mp_flags[p] \ {"PAUSED"}) \cup {"REPLY", "SWAPIN"}]
  <2>1. f \cup {"SWAPIN"} = (mp_flags[p] \ {"PAUSED"}) \cup {"REPLY", "SWAPIN"}
    OBVIOUS
  <2>2. [woken EXCEPT ![p] = @ \cup {"SWAPIN"}] = [mp_flags EXCEPT ![p] = f \cup {"SWAPIN"}]
    <3> HIDE DEF f
    <3> QED BY <1>1, <1>2
  <2> QED BY <2>1, <2>2
<1>5. CASE "ONSWAP" \notin mp_flags[p]
  BY <1>5 DEF Wake
<1>6. CASE "ONSWAP" \in mp_flags[p] /\ "SWAPIN" \in mp_flags[p]
  <2>1. UNCHANGED in_queue /\ mp_flags' = woken
    BY <1>2, <1>3, <1>6 DEF Wake, swap_inqueue
  <2> QED BY <2>1
<1>7. CASE "ONSWAP" \in mp_flags[p] /\ "SWAPIN" \notin mp_flags[p]
  <2>1. in_queue' = Append(in_queue, p) /\ mp_flags' = [woken EXCEPT ![p] = @ \cup {"SWAPIN"}]
    BY <1>2, <1>3, <1>7 DEF Wake, swap_inqueue
  <2> QED BY <1>4, <1>7, <2>1
<1> QED BY <1>5, <1>6, <1>7

(* Where swap_in stands while others hear of a signal. *)
InSignal == 5 + Ahead * Weight + 3 * NR_PROCS + Cardinality(Asleep) + Others

LEMMA SignalIs ==
  ASSUME QueueInv, pc = "signal"
  PROVE  /\ ToEnd = InSignal + Deaths /\ Ahead = Len(in_queue) - pmp + 1 /\ Ahead \in Nat
         /\ Ahead * Weight \in Nat /\ Cardinality(Asleep) \in Nat /\ Cardinality(Unqueued) \in Nat
         /\ Others \in Nat /\ InSignal \in Nat
<1>1. Ahead = Len(in_queue) - pmp + 1 /\ Ahead \in Nat /\ Weight \in Nat /\ NR_PROCS \in Nat
  BY AheadIs, AllocAssumption DEF Weight
<1>2. Cardinality(Asleep) \in Nat /\ Cardinality(Unqueued) \in Nat
  BY CountProcs DEF Asleep, Unqueued
<1>3. Ahead * Weight \in Nat /\ Cardinality(Unqueued) * (Weight + 1) \in Nat
  <2> DEFINE n == Ahead
             u == Cardinality(Unqueued)
             w == Weight
  <2>1. n \in Nat /\ u \in Nat /\ w \in Nat /\ w + 1 \in Nat
    BY <1>1, <1>2
  <2> HIDE DEF n, u, w
  <2>2. n * w \in Nat /\ u * (w + 1) \in Nat
    BY <2>1, Shares
  <2> QED BY <2>2 DEF n, u, w
<1>4. Others \in Nat
  BY <1>3 DEF Others
<1>5. Turns = InSignal
  BY DEF Turns, InSignal
<1>6. ToEnd = InSignal + Deaths
  BY <1>5 DEF ToEnd, Deaths
<1>7. InSignal \in Nat
  <2> DEFINE nw == Ahead * Weight
             a == Cardinality(Asleep)
  <2>1. nw \in Nat /\ a \in Nat
    BY <1>2, <1>3
  <2>2. InSignal = 5 + nw + 3 * NR_PROCS + a + Others
    BY DEF InSignal
  <2> HIDE DEF nw, a
  <2> QED BY <1>1, <1>4, <2>1, <2>2
<1> QED BY <1>1, <1>2, <1>3, <1>4, <1>6, <1>7

LEMMA DeathIsNearer ==
  ASSUME QueueInv, QueueInv', pc = "signal", NEW p \in Procs, Exit(p) PROVE Nearer
<1> DEFINE nw == Ahead * Weight
           z == NR_PROCS * (Weight + 1)
           w == Weight
           x == (NR_PROCS + 1) * (Weight + 1)
           k == Cardinality(Alive)
           a == Cardinality(Asleep)
           b == Cardinality(Asleep')
           u == Cardinality(Unqueued')
<1>1. /\ mp_flags \in [Procs -> SUBSET Flags] /\ InUse(p) /\ mp_flags' = [mp_flags EXCEPT ![p] = {}]
      /\ UNCHANGED <<in_queue, pmp, pc, request>>
  BY DEF Exit, QueueInv, QueueTypes
<1>2. \A q \in Procs : mp_flags'[q] = IF q = p THEN {} ELSE mp_flags[q]
  BY <1>1
<1>3. Alive' = Alive \ {p} /\ p \in Alive
  BY <1>1, <1>2 DEF Alive, InUse
<1>4. Cardinality(Alive') = k - 1 /\ k \in Nat \ {0}
  <2>1. IsFiniteSet(Alive) /\ k \in Nat
    BY CountProcs DEF Alive
  <2>2. Cardinality(Alive \ {p}) = k - 1 /\ k # 0
    BY <1>3, <2>1, FS_RemoveElement, FS_EmptySet
  <2> QED BY <1>3, <2>1, <2>2
<1>5. b <= a /\ a \in Nat /\ b \in Nat
  <2>1. Asleep' \subseteq Asleep
    BY <1>2 DEF Asleep
  <2>2. IsFiniteSet(Asleep) /\ a \in Nat
    BY CountProcs DEF Asleep
  <2> QED BY <2>1, <2>2, FS_Subset, FS_CardinalityType
<1>6. u \in Nat /\ u <= NR_PROCS
  BY CountProcs DEF Unqueued
<1>7. x = z + (w + 1) /\ z \in Nat /\ w \in Nat /\ NR_PROCS \in Nat
  BY DeathsAre, AllocAssumption
<1>8. Others' \in Nat /\ Others' <= z
  <2>1. Others' = 0 \/ Others' = u * (w + 1)
    BY DEF Others, Weight
  <2> HIDE DEF u
  <2>2. u * (w + 1) \in Nat /\ u * (w + 1) <= NR_PROCS * (w + 1)
    <3>1. w + 1 \in Nat
      BY <1>7
    <3> DEFINE v == w + 1
    <3> HIDE DEF v
    <3>2. v \in Nat
      BY <3>1 DEF v
    <3>3. u * v \in Nat /\ u * v <= NR_PROCS * v
      BY <1>6, <1>7, <3>2
    <3> QED BY <3>3 DEF v
  <2> QED BY <1>7, <2>1, <2>2
<1>9. Deaths = (k - 1) * x + x /\ Deaths' = (k - 1) * x /\ (k - 1) * x \in Nat
  <2>1. Deaths = k * x /\ Deaths' = (k - 1) * x
    BY <1>4 DEF Deaths, Weight
  <2>2. x \in Nat /\ k - 1 \in Nat
    BY <1>4, <1>7
  <2> HIDE DEF x, k
  <2>3. (k - 1) * x \in Nat /\ (k - 1 + 1) * x = (k - 1) * x + x
    BY <2>2, Shares
  <2>4. k - 1 + 1 = k
    BY <2>2, <1>4
  <2> QED BY <2>1, <2>3, <2>4
<1>10. Ahead' = Ahead
  BY <1>1 DEF Ahead
<1>11. InSignal = 5 + nw + 3 * NR_PROCS + a + Others
       /\ InSignal' = 5 + nw + 3 * NR_PROCS + b + Others'
  BY <1>10 DEF InSignal, Weight
<1>12. ToEnd = InSignal + Deaths /\ nw \in Nat /\ Others \in Nat
  BY SignalIs
<1>13. ToEnd' = InSignal' + Deaths'
  BY <1>1 DEF ToEnd, Turns, InSignal, Deaths, Weight
<1> DEFINE y == (k - 1) * x
<1>14. Deaths = y + x /\ Deaths' = y /\ y \in Nat
  BY <1>9
<1> HIDE DEF nw, z, w, x, k, a, b, u, y
<1>15. ToEnd = 5 + nw + 3 * NR_PROCS + a + Others + (y + x)
  BY <1>11, <1>12, <1>14
<1>16. ToEnd' = 5 + nw + 3 * NR_PROCS + b + Others' + y
  BY <1>11, <1>13, <1>14
<1>17. x = z + (w + 1) /\ z \in Nat /\ w \in Nat /\ 3 * NR_PROCS \in Nat
  BY <1>7
<1>18. ToEnd' >= 0 /\ ToEnd' < ToEnd
  BY <1>5, <1>8, <1>12, <1>14, <1>15, <1>16, <1>17
<1> QED BY <1>18 DEF Nearer

(* Who hears of a signal, in swap_in and not by its death, is woken where  *)
(* it is, or joins the queue and is one less of those who can.             *)
LEMMA HeardIs ==
  ASSUME QueueInv, pc = "signal", NEW p \in Procs, Wake(p) \/ Recall(p), vars' # vars
  PROVE  /\ UNCHANGED <<pc, request, pmp>> /\ (\A q \in Procs : InUse(q)' <=> InUse(q))
         /\ \/ /\ UNCHANGED in_queue /\ Unqueued' = Unqueued
               /\ p \in Asleep /\ Asleep' = Asleep \ {p}
            \/ /\ in_queue' = Append(in_queue, p) /\ ~ InUse(request.proc)
               /\ p \in Unqueued /\ Unqueued' = Unqueued \ {p} /\ Asleep' \subseteq Asleep
<1>1. /\ mp_flags \in [Procs -> SUBSET Flags] /\ request.proc \in Procs
      /\ "ONSWAP" \notin mp_flags[request.proc]
  BY DEF QueueInv, QueueTypes, InTurn
<1>2. UNCHANGED <<pc, request, pmp>> /\ (p = request.proc \/ ~ InUse(request.proc))
  BY DEF Wake, Recall, MayHear
<1>3. CASE Wake(p) /\ UNCHANGED in_queue /\
           mp_flags' = [mp_flags EXCEPT ![p] = (mp_flags[p] \ {"PAUSED"}) \cup {"REPLY"}]
  <2>1. \A q \in Procs : mp_flags'[q] =
          IF q = p THEN (mp_flags[p] \ {"PAUSED"}) \cup {"REPLY"} ELSE mp_flags[q]
    BY <1>1, <1>3
  <2>2. p \in Asleep
    BY <1>3 DEF Wake, Asleep
  <2>3. Unqueued' = Unqueued /\ Asleep' = Asleep \ {p} /\ \A q \in Procs : InUse(q)' <=> InUse(q)
    BY <2>1 DEF Unqueued, Asleep, InUse
  <2> QED BY <1>2, <1>3, <2>2, <2>3
<1>4. ASSUME NEW f, "ONSWAP" \in mp_flags[p], "SWAPIN" \notin mp_flags[p], "SWAPIN" \in f,
             "PAUSED" \in f => "PAUSED" \in mp_flags[p],
             "IN_USE" \in f <=> "IN_USE" \in mp_flags[p],
             in_queue' = Append(in_queue, p), mp_flags' = [mp_flags EXCEPT ![p] = f]
      PROVE  /\ in_queue' = Append(in_queue, p) /\ ~ InUse(request.proc)
             /\ p \in Unqueued /\ Unqueued' = Unqueued \ {p} /\ Asleep' \subseteq Asleep
             /\ \A q \in Procs : InUse(q)' <=> InUse(q)
  <2>1. \A q \in Procs : mp_flags'[q] = IF q = p THEN f ELSE mp_flags[q]
    BY <1>1, <1>4
  <2>2. ~ InUse(request.proc)
    BY <1>1, <1>2, <1>4
  <2>3. p \in Unqueued /\ Unqueued' = Unqueued \ {p} /\ Asleep' \subseteq Asleep
    BY <1>4, <2>1 DEF Unqueued, Asleep
  <2>4. \A q \in Procs : InUse(q)' <=> InUse(q)
    BY <1>4, <2>1 DEF InUse
  <2> QED BY <1>4, <2>2, <2>3, <2>4
<1>5. CASE /\ "ONSWAP" \in mp_flags[p] /\ "SWAPIN" \notin mp_flags[p]
           /\ in_queue' = Append(in_queue, p)
           /\ mp_flags' = [mp_flags EXCEPT
                             ![p] = (mp_flags[p] \ {"PAUSED"}) \cup {"REPLY", "SWAPIN"}]
  <2> DEFINE f == (mp_flags[p] \ {"PAUSED"}) \cup {"REPLY", "SWAPIN"}
  <2>1. /\ "SWAPIN" \in f /\ "PAUSED" \in f => "PAUSED" \in mp_flags[p]
        /\ "IN_USE" \in f <=> "IN_USE" \in mp_flags[p]
    OBVIOUS
  <2>2. mp_flags' = [mp_flags EXCEPT ![p] = f]
    BY <1>5
  <2>3. "SWAPIN" \in f
    OBVIOUS
  <2> HIDE DEF f
  <2> QED BY <1>2, <1>4, <1>5, <2>1, <2>2, <2>3
<1>6. CASE Recall(p)
  <2> DEFINE f == mp_flags[p] \cup {"SWAPIN"}
  <2>1. /\ "SWAPIN" \notin mp_flags[p] /\ in_queue' = Append(in_queue, p)
        /\ mp_flags' = [mp_flags EXCEPT ![p] = f]
    BY <1>6, RecallIs DEF vars
  <2>2. /\ "SWAPIN" \in f
        /\ "PAUSED" \in f => "PAUSED" \in mp_flags[p]
        /\ "IN_USE" \in f <=> "IN_USE" \in mp_flags[p]
    OBVIOUS
  <2>3. "ONSWAP" \in mp_flags[p]
    BY <1>6 DEF Recall
  <2> HIDE DEF f
  <2> QED BY <1>2, <1>4, <2>1, <2>2, <2>3
<1> QED BY <1>3, <1>5, <1>6, WokenIs

LEMMA HearingIsNearer ==
  ASSUME QueueInv, QueueInv', NEW p \in Procs, Exit(p) \/ Wake(p) \/ Recall(p),
         pc # "idle", vars' # vars
  PROVE  Nearer
<1>1. pc = "signal"
  BY DEF Exit, Wake, Recall, MayHear
<1>2. CASE Exit(p)
  BY <1>1, <1>2, DeathIsNearer
<1>3. CASE Wake(p) \/ Recall(p)
  <2> DEFINE nw == Ahead * Weight
             mw == Ahead' * Weight
             uw == Cardinality(Unqueued) * (Weight + 1)
             vw == Cardinality(Unqueued') * (Weight + 1)
             a == Cardinality(Asleep)
             b == Cardinality(Asleep')
             w == Weight
  <2>1. /\ UNCHANGED <<pc, request, pmp>> /\ (\A q \in Procs : InUse(q)' <=> InUse(q))
        /\ \/ /\ UNCHANGED in_queue /\ Unqueued' = Unqueued
              /\ p \in Asleep /\ Asleep' = Asleep \ {p}
           \/ /\ in_queue' = Append(in_queue, p) /\ ~ InUse(request.proc)
              /\ p \in Unqueued /\ Unqueued' = Unqueued \ {p} /\ Asleep' \subseteq Asleep
    BY <1>1, <1>3, HeardIs
  <2>2. request.proc \in Procs /\ in_queue \in Seq(Procs) /\ pmp \in Nat
    BY DEF QueueInv, QueueTypes
  <2>3. /\ ToEnd = InSignal + Deaths /\ Ahead = Len(in_queue) - pmp + 1 /\ Ahead \in Nat
        /\ nw \in Nat /\ a \in Nat /\ Cardinality(Unqueued) \in Nat /\ Others \in Nat
    BY <1>1, SignalIs
  <2>4. ToEnd' = InSignal' + Deaths' /\ Deaths' = Deaths
    <3>1. Alive' = Alive
      BY <2>1 DEF Alive
    <3>2. pc' = "signal"
      BY <1>1, <2>1
    <3> QED BY <3>1, <3>2 DEF ToEnd, Turns, InSignal, Deaths, Weight
  <2>5. /\ InSignal = 5 + nw + 3 * NR_PROCS + a + Others
        /\ InSignal' = 5 + mw + 3 * NR_PROCS + b + Others'
    BY DEF InSignal, Weight
  <2>6. Deaths \in Nat /\ w \in Nat /\ NR_PROCS \in Nat
    BY DeathsAre, AllocAssumption
  <2>7. IsFiniteSet(Asleep) /\ IsFiniteSet(Unqueued)
    BY CountProcs DEF Asleep, Unqueued
  <2>8. CASE UNCHANGED in_queue /\ Unqueued' = Unqueued /\ p \in Asleep /\ Asleep' = Asleep \ {p}
    <3>1. b = a - 1 /\ b \in Nat
      <4>1. Cardinality(Asleep \ {p}) = a - 1
        BY <2>7, <2>8, FS_RemoveElement
      <4>2. b \in Nat
        BY CountProcs DEF Asleep
      <4> QED BY <2>8, <4>1, <4>2
    <3>2. mw = nw
      BY <2>1, <2>8 DEF Ahead
    <3>3. Others' = Others
      BY <2>1, <2>2, <2>8 DEF Others, Weight
    <3> HIDE DEF nw, mw, a, b, w
    <3> QED BY <2>3, <2>4, <2>5, <2>6, <3>1, <3>2, <3>3 DEF Nearer
  <2>9. CASE /\ in_queue' = Append(in_queue, p) /\ ~ InUse(request.proc)
             /\ p \in Unqueued /\ Unqueued' = Unqueued \ {p} /\ Asleep' \subseteq Asleep
    <3>1. b <= a /\ b \in Nat
      BY <2>7, <2>9, FS_Subset, FS_CardinalityType
    <3>2. Ahead' = Ahead + 1
      <4>1. Len(in_queue') = Len(in_queue) + 1 /\ Len(in_queue) \in Nat
        BY <2>2, <2>9
      <4>2. Ahead' = Len(in_queue') - pmp' + 1
        BY <1>1, <2>1 DEF Ahead, QueueInv, InTurn
      <4> QED BY <2>1, <2>2, <2>3, <4>1, <4>2
    <3>3. mw = nw + w
      <4> DEFINE n == Ahead
      <4> HIDE DEF n, w
      <4>1. n \in Nat /\ w \in Nat
        BY <2>3, <2>6 DEF n
      <4>2. (n + 1) * w = n * w + w
        BY <4>1, Shares
      <4> QED BY <3>2, <4>2 DEF n, w
    <3>4. Others = uw /\ Others' = vw
      BY <2>1, <2>2, <2>9 DEF Others, Weight
    <3>5. uw = vw + w + 1 /\ vw \in Nat
      <4> DEFINE u == Cardinality(Unqueued)
                 v == Cardinality(Unqueued')
                 y == Weight + 1
      <4>1. v = u - 1
        <5>1. Cardinality(Unqueued \ {p}) = u - 1
          BY <2>7, <2>9, FS_RemoveElement
        <5> QED BY <2>9, <5>1
      <4>2. v \in Nat /\ u \in Nat
        BY CountProcs DEF Unqueued
      <4>3. y \in Nat /\ y = w + 1
        BY <2>6
      <4>4. uw = u * y /\ vw = v * y
        OBVIOUS
      <4> HIDE DEF u, v, y, uw, vw, w
      <4>5. v * y \in Nat /\ (v + 1) * y = v * y + y
        BY <4>2, <4>3, Shares
      <4>6. v + 1 = u
        BY <4>1, <4>2
      <4> QED BY <2>6, <4>3, <4>4, <4>5, <4>6
    <3> HIDE DEF nw, mw, uw, vw, a, b, w
    <3> QED BY <2>3, <2>4, <2>5, <2>6, <3>1, <3>3, <3>4, <3>5 DEF Nearer
  <2> QED BY <2>1, <2>8, <2>9
<1> QED BY <1>2, <1>3

(* Every turn of the loops of alloc_mem, swap_out and swap_in brings the   *)
(* request nearer its end, for any number of processes: swap_in may swap   *)
(* others out while it brings some back, and signals that wait for those   *)
(* may kill them and put others on the queue; still every request ends.    *)
THEOREM EveryRequestEnds == Spec => EveryTurnCounts
<1>1. TypeInv /\ TypeInv' /\ [Next]_vars =>
        [pc # "idle" => ToEnd' >= 0 /\ ToEnd' < ToEnd]_vars
  <2> SUFFICES ASSUME TypeInv, TypeInv', Next, pc # "idle", vars' # vars
               PROVE  ToEnd' >= 0 /\ ToEnd' < ToEnd
    OBVIOUS
  <2>1. CASE Call
    <3>1. \E p \in Procs : Exit(p) \/ Wake(p) \/ Recall(p)
      BY <2>1 DEF Call, Fork, Exec, CallAlloc, Pause, Reply, SwapIn, SwapOff, SwapOn, SetPolicy
    <3> QED BY <3>1, HearingIsNearer DEF Nearer, TypeInv
  <2>2. CASE Continue
    BY <2>2, TurnIsNearer DEF Nearer
  <2> QED BY <2>1, <2>2 DEF Next
<1> QED BY <1>1, TypesAlways, PTL DEF Spec, EveryTurnCounts

------------------------------------------------------------------------------
(* Memory, click by click.  A process has the clicks of its block while it *)
(* is in use; the clicks there are to be had are those of the chunks and   *)
(* the z clicks of the swap area.                                          *)
Has(p, c) == InUse(p) /\ mp_seg[p].base <= c /\ c < HoleEnd(mp_seg[p])
Loaded(c) == \E k \in DOMAIN Chunks : Chunks[k].base <= c /\ c < HoleEnd(Chunks[k])
Area(z, c) == swap_base <= c /\ c < swap_base + z

Accounts(z) ==
  /\ \A c \in Int : In(table.list, c) \/ (\E p \in Procs : Has(p, c)) <=> Loaded(c) \/ Area(z, c)
  /\ \A c \in Int : \A p \in Procs : Has(p, c) => ~ In(table.list, c)
  /\ \A c \in Int : \A p, q \in Procs : Has(p, c) /\ Has(q, c) => p = q

(* How much swap there is: none before swap_on, and none ever if swap_on   *)
(* is never given a click.                                                 *)
SwapArea(z) == z \in Nat /\ (swapping \/ z = 0) /\ (SwapSizes \subseteq {0} => z = 0)

MemSound ==
  /\ Sound(table) /\ ~ table.panic /\ SwapSeparate
  /\ 1 \notin Policies => worst_fit = 0
  /\ \E z : SwapArea(z) /\ Accounts(z)

MemInv == TypeInv /\ MemSound

(* The two conditions under which alloc.c keeps its tables in order.       *)
(* Worst fit and a swap area are not used together: the run of             *)
(* MCAllocWorst shows what happens otherwise.  And there are more process  *)
(* slots than chunks of memory, one more if there is swap.                 *)
NotBoth == 1 \notin Policies \/ SwapSizes \subseteq {0}
Roomy == Len(Chunks) + (IF SwapSizes \subseteq {0} THEN 0 ELSE 1) < NR_PROCS

(* Nothing the kernel loads is in the swap area, nor right below it. *)
LEMMA Below == \A c \in Int : Loaded(c) => c < swap_base - 1
<1> SUFFICES ASSUME NEW c \in Int, Loaded(c) PROVE c < swap_base - 1
  OBVIOUS
<1>1. PICK k \in DOMAIN Chunks : Chunks[k].base <= c /\ c < HoleEnd(Chunks[k])
  BY DEF Loaded
<1>2. HoleEnd(Chunks[k]) < swap_base /\ swap_base \in Nat
  BY SwapBase
<1>3. HoleEnd(Chunks[k]) \in Nat
  BY ChunksAre DEF HoleEnd
<1> QED BY <1>1, <1>2, <1>3

(* The holes of a table, and the blocks, are numbers. *)
LEMMA HolesAre ==
  ASSUME NEW t, Counted(t)
  PROVE  /\ Len(t.list) \in Nat /\ DOMAIN t.list = 1..Len(t.list)
         /\ \A k \in 1..Len(t.list) : t.list[k].base \in Nat /\ t.list[k].len \in Nat
         /\ t.free \in Nat /\ t.free + Len(t.list) = NR_HOLES
<1>1. t.list \in Seq(Holes) /\ t.free \in Nat /\ t.free + Len(t.list) = NR_HOLES
  <2>1. t.free \in 0..NR_HOLES /\ NR_HOLES \in Nat
    BY AllocAssumption DEF Counted, Tables, NR_HOLES
  <2>2. t.free \in Nat
    <3> HIDE DEF NR_HOLES
    <3> QED BY <2>1
  <2> QED BY <2>2 DEF Counted, Tables
<1>2. Len(t.list) \in Nat /\ DOMAIN t.list = 1..Len(t.list)
  BY <1>1
<1>3. \A k \in 1..Len(t.list) : t.list[k] \in Holes
  BY <1>1
<1> QED BY <1>1, <1>2, <1>3 DEF Holes

LEMMA BlocksAre ==
  ASSUME TypeInv, NEW p \in Procs
  PROVE  mp_seg[p].base \in Nat /\ mp_seg[p].len \in Nat
<1>1. mp_seg[p] \in Holes
  BY DEF TypeInv, MemoryTypes
<1> QED BY <1>1 DEF Holes

(* Clicks change hands between the table and one process: what it is given *)
(* leaves the table, and what it had goes there.                           *)
LEMMA Shift ==
  ASSUME NEW z, Accounts(z), NEW p \in Procs, NEW given,
         \A c \in given : c \in Int /\ In(table.list, c),
         \A c \in Int : In(table'.list, c) <=> (In(table.list, c) /\ c \notin given) \/ Has(p, c),
         \A c \in Int : Has(p, c)' <=> c \in given,
         \A c \in Int : \A q \in Procs : q # p => (Has(q, c)' <=> Has(q, c))
  PROVE  Accounts(z)'
<1> DEFINE In0(c) == In(table.list, c)
           In1(c) == In(table'.list, c)
           Has0(q, c) == Has(q, c)
           Has1(q, c) == Has(q, c)'
           Real(c) == Loaded(c) \/ Area(z, c)
<1>1. /\ \A c \in Int : In0(c) \/ (\E q \in Procs : Has0(q, c)) <=> Real(c)
      /\ \A c \in Int : \A q \in Procs : Has0(q, c) => ~ In0(c)
      /\ \A c \in Int : \A q, r \in Procs : Has0(q, c) /\ Has0(r, c) => q = r
  BY DEF Accounts
<1>2. /\ \A c \in given : c \in Int /\ In0(c)
      /\ \A c \in Int : In1(c) <=> (In0(c) /\ c \notin given) \/ Has0(p, c)
      /\ \A c \in Int : Has1(p, c) <=> c \in given
      /\ \A c \in Int : \A q \in Procs : q # p => (Has1(q, c) <=> Has0(q, c))
  OBVIOUS
<1>3. /\ \A c \in Int : In1(c) \/ (\E q \in Procs : Has1(q, c)) <=> Real(c)
      /\ \A c \in Int : \A q \in Procs : Has1(q, c) => ~ In1(c)
      /\ \A c \in Int : \A q, r \in Procs : Has1(q, c) /\ Has1(r, c) => q = r
  <2> HIDE DEF In0, In1, Has0, Has1, Real
  <2>1. ASSUME NEW c \in Int PROVE In1(c) \/ (\E q \in Procs : Has1(q, c)) <=> Real(c)
    <3>1. CASE c \in given
      BY <1>1, <1>2, <3>1
    <3>2. CASE c \notin given
      BY <1>1, <1>2, <3>2
    <3> QED BY <3>1, <3>2
  <2>2. ASSUME NEW c \in Int, NEW q \in Procs, Has1(q, c) PROVE ~ In1(c)
    BY <1>1, <1>2, <2>2
  <2>3. ASSUME NEW c \in Int, NEW q \in Procs, NEW r \in Procs, Has1(q, c), Has1(r, c)
        PROVE  q = r
    BY <1>1, <1>2, <2>3
  <2> QED BY <2>1, <2>2, <2>3
<1> QED BY <1>3 DEF Accounts, Loaded, Area

------------------------------------------------------------------------------
(* Where a hole may end: where a block begins, or where memory ends. *)
Bases == {mp_seg[p].base : p \in Procs}
ChunkEnds == {HoleEnd(Chunks[k]) : k \in DOMAIN Chunks}
SwapEnd(z) == IF z = 0 THEN {} ELSE {swap_base + z}
Ends(z) == (Bases \cup ChunkEnds) \cup SwapEnd(z)

LEMMA HoleEnds ==
  ASSUME TypeInv, Sound(table), NEW z \in Nat, Accounts(z), NEW k \in 1..Len(table.list)
  PROVE  HoleEnd(table.list[k]) \in Ends(z)
<1> DEFINE l == table.list
           c == HoleEnd(l[k])
           Real(x) == Loaded(x) \/ Area(z, x)
<1>1. /\ Len(l) \in Nat /\ DOMAIN l = 1..Len(l)
      /\ \A j \in 1..Len(l) : l[j].base \in Nat /\ l[j].len \in Nat
  BY HolesAre DEF Sound
<1>2. /\ l[k].len > 0
      /\ \A j \in 1..Len(l) : /\ j < k => HoleEnd(l[j]) < l[k].base
                              /\ k < j => HoleEnd(l[k]) < l[j].base
  BY <1>1 DEF Sound, Near
<1>3. c \in Int /\ c - 1 \in Int /\ c > l[k].base
  BY <1>1, <1>2 DEF HoleEnd
<1>4. In(l, c - 1)
  <2>1. l[k].base <= c - 1 /\ c - 1 < HoleEnd(l[k])
    BY <1>1, <1>3
  <2> QED BY <1>1, <2>1 DEF In
<1>5. ~ In(l, c)
  <2> SUFFICES ASSUME NEW j \in 1..Len(l), l[j].base <= c, c < HoleEnd(l[j])
               PROVE  FALSE
    BY <1>1 DEF In
  <2>1. HoleEnd(l[j]) \in Int /\ l[j].base \in Int
    BY <1>1 DEF HoleEnd
  <2>2. CASE j = k
    BY <1>3, <2>1, <2>2
  <2>3. CASE j < k
    <3>1. HoleEnd(l[j]) < l[k].base /\ l[k].base \in Int
      BY <1>1, <1>2, <2>3
    <3> HIDE DEF c
    <3> QED BY <1>3, <2>1, <3>1
  <2>4. CASE k < j
    <3>1. c < l[j].base
      BY <1>2, <2>4
    <3> HIDE DEF c
    <3> QED BY <1>3, <2>1, <3>1
  <2> QED BY <1>1, <2>2, <2>3, <2>4
<1> HIDE DEF c, l
<1>6. Real(c - 1) /\ \A p \in Procs : ~ Has(p, c - 1)
  BY <1>3, <1>4 DEF Accounts, l
<1>7. CASE Real(c)
  <2>1. PICK p \in Procs : Has(p, c)
    BY <1>3, <1>5, <1>7 DEF Accounts, l
  <2>2. ~ Has(p, c - 1)
    BY <1>6
  <2>3. mp_seg[p].base = c
    BY <1>3, <2>1, <2>2, BlocksAre DEF Has, HoleEnd
  <2> QED BY <2>3 DEF Ends, Bases, c, l
<1>8. CASE ~ Real(c)
  <2>1. CASE Loaded(c - 1)
    <3>1. PICK j \in DOMAIN Chunks : Chunks[j].base <= c - 1 /\ c - 1 < HoleEnd(Chunks[j])
      BY <2>1 DEF Loaded
    <3>2. ~ (Chunks[j].base <= c /\ c < HoleEnd(Chunks[j]))
      BY <1>8 DEF Loaded
    <3>3. Chunks[j].base \in Int /\ HoleEnd(Chunks[j]) \in Int
      BY ChunksAre DEF HoleEnd
    <3>4. c = HoleEnd(Chunks[j])
      BY <1>3, <3>1, <3>2, <3>3
    <3> QED BY <3>4 DEF Ends, ChunkEnds, c, l
  <2>2. CASE Area(z, c - 1)
    <3>1. c = swap_base + z /\ z # 0
      BY <1>3, <1>8, <2>2, SwapBase DEF Area
    <3> QED BY <3>1 DEF Ends, SwapEnd, c, l
  <2> QED BY <1>6, <2>1, <2>2
<1> QED BY <1>7, <1>8

LEMMA Image ==
  ASSUME NEW S, IsFiniteSet(S), NEW f, NEW T, T = {f[x] : x \in S}, DOMAIN f = S,
         f = [x \in S |-> f[x]]
  PROVE  IsFiniteSet(T) /\ Cardinality(T) <= Cardinality(S)
<1>1. f \in [S -> T]
  OBVIOUS
<1>2. \A t \in T : \E x \in S : f[x] = t
  OBVIOUS
<1>3. f \in Surjection(S, T)
  BY <1>1, <1>2, Zenon DEF Surjection
<1> QED BY <1>3, FS_Surjection

LEMMA HowManyEnds ==
  ASSUME NEW z
  PROVE  /\ IsFiniteSet(Ends(z))
         /\ Cardinality(Ends(z)) <= NR_PROCS + Len(Chunks) + (IF z = 0 THEN 0 ELSE 1)
<1>1. NR_PROCS \in Nat /\ Len(Chunks) \in Nat /\ DOMAIN Chunks = 1..Len(Chunks)
  BY ChunksAre, AllocAssumption
<1>2. IsFiniteSet(Bases) /\ Cardinality(Bases) <= NR_PROCS /\ Cardinality(Bases) \in Nat
  <2> DEFINE base == [p \in Procs |-> mp_seg[p].base]
             T == {base[p] : p \in Procs}
  <2>1. IsFiniteSet(Procs) /\ Cardinality(Procs) <= NR_PROCS /\ Cardinality(Procs) \in Nat
    BY CountProcs
  <2>2. IsFiniteSet(T) /\ Cardinality(T) <= Cardinality(Procs)
    <3>1. DOMAIN base = Procs /\ base = [p \in Procs |-> base[p]]
      OBVIOUS
    <3> HIDE DEF base
    <3> QED BY <2>1, <3>1, Image
  <2>3. T = Bases
    BY DEF Bases
  <2> HIDE DEF T
  <2>4. Cardinality(Bases) \in Nat
    BY <2>2, <2>3, FS_CardinalityType
  <2> QED BY <1>1, <2>1, <2>2, <2>3, <2>4
<1>3. IsFiniteSet(ChunkEnds) /\ Cardinality(ChunkEnds) <= Len(Chunks)
      /\ Cardinality(ChunkEnds) \in Nat
  <2> DEFINE n == Len(Chunks)
             end == [k \in 1..n |-> HoleEnd(Chunks[k])]
             T == {end[k] : k \in 1..n}
  <2>1. IsFiniteSet(1..n) /\ Cardinality(1..n) = n
    <3>1. 1 \in Int /\ n \in Int /\ (IF 1 > n THEN 0 ELSE n - 1 + 1) = n
      BY <1>1
    <3> HIDE DEF n
    <3> QED BY <3>1, FS_Interval
  <2> HIDE DEF n
  <2>2. IsFiniteSet(T) /\ Cardinality(T) <= Cardinality(1..n)
    <3>1. DOMAIN end = 1..n /\ end = [k \in 1..n |-> end[k]]
      OBVIOUS
    <3> HIDE DEF end
    <3> QED BY <2>1, <3>1, Image
  <2>3. T = ChunkEnds
    BY <1>1 DEF ChunkEnds, n
  <2> HIDE DEF T
  <2>4. Cardinality(ChunkEnds) \in Nat
    BY <2>2, <2>3, FS_CardinalityType
  <2> QED BY <2>1, <2>2, <2>3, <2>4 DEF n
<1>4. IsFiniteSet(SwapEnd(z)) /\ Cardinality(SwapEnd(z)) = IF z = 0 THEN 0 ELSE 1
  BY FS_EmptySet, FS_Singleton DEF SwapEnd
<1>5. ASSUME NEW S, NEW T, IsFiniteSet(S), IsFiniteSet(T)
      PROVE  /\ IsFiniteSet(S \cup T)
             /\ Cardinality(S \cup T) <= Cardinality(S) + Cardinality(T)
             /\ Cardinality(S \cup T) \in Nat
  <2>1. /\ IsFiniteSet(S \cup T)
        /\ Cardinality(S \cup T) = Cardinality(S) + Cardinality(T) - Cardinality(S \cap T)
    BY <1>5, FS_Union
  <2>2. IsFiniteSet(S \cap T)
    BY <1>5, FS_Intersection
  <2>3. /\ Cardinality(S) \in Nat /\ Cardinality(T) \in Nat
        /\ Cardinality(S \cap T) \in Nat /\ Cardinality(S \cup T) \in Nat
    BY <1>5, <2>1, <2>2, FS_CardinalityType
  <2> QED BY <2>1, <2>3
<1> DEFINE U == Bases \cup ChunkEnds
<1>6. IsFiniteSet(U) /\ Cardinality(U) <= NR_PROCS + Len(Chunks) /\ Cardinality(U) \in Nat
  <2>1. IsFiniteSet(U) /\ Cardinality(U) <= Cardinality(Bases) + Cardinality(ChunkEnds)
        /\ Cardinality(U) \in Nat
    BY <1>2, <1>3, <1>5
  <2> HIDE DEF U
  <2> QED BY <1>1, <1>2, <1>3, <2>1
<1>7. Ends(z) = U \cup SwapEnd(z)
  BY DEF Ends
<1> HIDE DEF U
<1>8. IsFiniteSet(Ends(z)) /\ Cardinality(Ends(z)) <= Cardinality(U) + Cardinality(SwapEnd(z))
      /\ Cardinality(Ends(z)) \in Nat
  BY <1>4, <1>5, <1>6, <1>7
<1>9. CASE z = 0
  BY <1>1, <1>4, <1>6, <1>8, <1>9
<1>10. CASE z # 0
  BY <1>1, <1>4, <1>6, <1>8, <1>10
<1> QED BY <1>9, <1>10

(* free_mem finds a slot, for every number of processes. *)
LEMMA Room ==
  ASSUME Roomy, TypeInv, Sound(table), NEW z, SwapArea(z), Accounts(z)
  PROVE  table.free # 0 /\ Len(table.list) < NR_HOLES
<1>1. z \in Nat /\ (SwapSizes \subseteq {0} => z = 0)
  BY DEF SwapArea
<1>2. /\ Len(table.list) \in Nat /\ table.free \in Nat
      /\ table.free + Len(table.list) = NR_HOLES
  BY HolesAre DEF Sound
<1>3. IsFiniteSet(Ends(z)) /\ \A k \in 1..Len(table.list) : HoleEnd(table.list[k]) \in Ends(z)
  BY <1>1, HoleEnds, HowManyEnds
<1>4. Len(table.list) <= Cardinality(Ends(z)) /\ Cardinality(Ends(z)) \in Nat
  BY <1>3, EndsBound, FS_CardinalityType
<1>5. Cardinality(Ends(z)) <= NR_PROCS + Len(Chunks) + (IF z = 0 THEN 0 ELSE 1)
  BY HowManyEnds
<1>6. Len(Chunks) + (IF z = 0 THEN 0 ELSE 1) < NR_PROCS
  <2>1. Len(Chunks) \in Nat /\ NR_PROCS \in Nat
    BY ChunksAre, AllocAssumption
  <2> QED BY <1>1, <2>1 DEF Roomy
<1>7. NR_HOLES = 2 * NR_PROCS /\ NR_PROCS \in Nat /\ Len(Chunks) \in Nat
  BY ChunksAre, AllocAssumption DEF NR_HOLES
<1> DEFINE e == Cardinality(Ends(z))
           n == Len(table.list)
           m == Len(Chunks)
           s == IF z = 0 THEN 0 ELSE 1
<1>8. n <= e /\ e <= NR_PROCS + m + s /\ m + s < NR_PROCS /\ s \in Nat
      /\ n \in Nat /\ e \in Nat /\ m \in Nat /\ table.free + n = NR_HOLES
  BY <1>2, <1>4, <1>5, <1>6, <1>7
<1> HIDE DEF e, n, m, s, NR_HOLES
<1>9. n < NR_HOLES /\ table.free # 0
  BY <1>2, <1>7, <1>8
<1> QED BY <1>9 DEF n

------------------------------------------------------------------------------
(* A request of alloc_mem that is granted, or a process swapped out: the   *)
(* block moves to the start of a hole, and the old one is free.            *)
MovedTo(p, k, n) ==
  LET b == Bite(table, k, n)
  IN  /\ table' = IF InUse(p) THEN free_mem(b, mp_seg[p].base, mp_seg[p].len) ELSE b
      /\ mp_seg' = [mp_seg EXCEPT ![p] = Hole(table.list[k].base, n)]
      /\ "IN_USE" \in mp_flags'[p]
      /\ \A q \in Procs : q # p => mp_flags'[q] = mp_flags[q]

LEMMA MovedTable ==
  ASSUME Roomy, TypeInv, Sound(table), NEW z, SwapArea(z), Accounts(z),
         NEW p \in Procs, NEW k \in 1..Len(table.list), NEW n \in Nat \ {0},
         n <= table.list[k].len, MovedTo(p, k, n)
  PROVE  LET first == table.list[k].base
         IN  /\ Sound(table') /\ table'.panic = table.panic
             /\ \A c \in first..first + n - 1 : In(table.list, c)
             /\ \A c \in Int : In(table'.list, c) <=>
                  (In(table.list, c) /\ c \notin first..first + n - 1) \/ Has(p, c)
<1> DEFINE b == Bite(table, k, n)
           first == table.list[k].base
           given == first..first + n - 1
           base == mp_seg[p].base
           len == mp_seg[p].len
<1>1. /\ Sound(b) /\ b.panic = table.panic /\ Len(b.list) <= Len(table.list)
      /\ \A c \in given : In(table.list, c)
      /\ \A c \in Int : In(b.list, c) <=> In(table.list, c) /\ c \notin given
  BY Bitten, Zenon
<1>2. base \in Nat /\ len \in Nat
  BY BlocksAre
<1>3. CASE ~ InUse(p)
  <2>1. table' = b
    BY <1>3 DEF MovedTo
  <2>2. \A c \in Int : ~ Has(p, c)
    BY <1>3 DEF Has
  <2> HIDE DEF b, given
  <2> QED BY <1>1, <2>1, <2>2 DEF given
<1>4. CASE InUse(p)
  <2>1. table' = free_mem(b, base, len)
    BY <1>4 DEF MovedTo
  <2>2. \A c \in Int : Has(p, c) <=> c \in base..base + len - 1
    BY <1>2, <1>4 DEF Has, HoleEnd
  <2>3. \A c \in base..base + len - 1 : c \in Int
    BY <1>2
  <2> HIDE DEF b, given, base, len
  <2>4. b.free # 0
    <3>1. /\ Len(b.list) \in Nat /\ b.free \in Nat /\ b.free + Len(b.list) = NR_HOLES
      BY <1>1, HolesAre DEF Sound
    <3>2. Len(table.list) \in Nat /\ Len(table.list) < NR_HOLES
      BY Room, HolesAre DEF Sound
    <3>3. NR_HOLES \in Nat
      BY AllocAssumption DEF NR_HOLES
    <3> HIDE DEF NR_HOLES
    <3> QED BY <1>1, <3>1, <3>2, <3>3
  <2>5. \A c \in base..base + len - 1 : ~ In(b.list, c)
    <3> SUFFICES ASSUME NEW c \in base..base + len - 1 PROVE ~ In(b.list, c)
      OBVIOUS
    <3>1. c \in Int /\ Has(p, c)
      BY <2>2, <2>3
    <3>2. ~ In(table.list, c)
      BY <3>1 DEF Accounts
    <3> QED BY <1>1, <3>1, <3>2
  <2>6. /\ Sound(table') /\ table'.panic = b.panic
        /\ \A c \in Int : In(table'.list, c) <=> In(b.list, c) \/ c \in base..base + len - 1
    BY <1>1, <1>2, <2>1, <2>4, <2>5, Freed, Zenon
  <2>7. \A c \in Int : In(table'.list, c) <=> (In(table.list, c) /\ c \notin given) \/ Has(p, c)
    <3> SUFFICES ASSUME NEW c \in Int
                 PROVE  In(table'.list, c) <=>
                          (In(table.list, c) /\ c \notin given) \/ Has(p, c)
      OBVIOUS
    <3>1. In(table'.list, c) <=> In(b.list, c) \/ c \in base..base + len - 1
      BY <2>6
    <3>2. In(b.list, c) <=> In(table.list, c) /\ c \notin given
      BY <1>1
    <3>3. Has(p, c) <=> c \in base..base + len - 1
      BY <2>2
    <3> QED BY <3>1, <3>2, <3>3
  <2> QED BY <1>1, <2>6, <2>7 DEF given
<1> QED BY <1>3, <1>4

LEMMA MovedBlocks ==
  ASSUME TypeInv, NEW p \in Procs, NEW k \in 1..Len(table.list), NEW n \in Nat \ {0},
         MovedTo(p, k, n)
  PROVE  LET first == table.list[k].base
         IN  /\ first \in Nat /\ mp_seg'[p].base = first
             /\ \A c \in Int : Has(p, c)' <=> c \in first..first + n - 1
             /\ \A q \in Procs : q # p => mp_seg'[q] = mp_seg[q] /\ (InUse(q)' <=> InUse(q))
             /\ \A c \in Int : \A q \in Procs : q # p => (Has(q, c)' <=> Has(q, c))
<1> DEFINE first == table.list[k].base
<1>1. first \in Nat
  BY HolesAre DEF TypeInv, MemoryTypes
<1>2. mp_seg \in [Procs -> Holes]
  BY DEF TypeInv, MemoryTypes
<1>3. /\ mp_seg' = [mp_seg EXCEPT ![p] = Hole(first, n)] /\ InUse(p)'
      /\ \A q \in Procs : q # p => mp_flags'[q] = mp_flags[q]
  BY DEF MovedTo, InUse
<1>4. Hole(first, n).base = first /\ HoleEnd(Hole(first, n)) = first + n
  BY DEF Hole, HoleEnd
<1> HIDE DEF first
<1>5. mp_seg'[p] = Hole(first, n) /\ \A q \in Procs : q # p => mp_seg'[q] = mp_seg[q]
  BY <1>2, <1>3
<1>6. \A q \in Procs : q # p => mp_seg'[q] = mp_seg[q] /\ (InUse(q)' <=> InUse(q))
  BY <1>3, <1>5 DEF InUse
<1>7. mp_seg'[p].base = first /\ HoleEnd(mp_seg'[p]) = first + n
  BY <1>4, <1>5
<1>8. \A c \in Int : Has(p, c)' <=> c \in first..first + n - 1
  <2> SUFFICES ASSUME NEW c \in Int PROVE Has(p, c)' <=> c \in first..first + n - 1
    OBVIOUS
  <2>1. Has(p, c)' <=> first <= c /\ c < first + n
    BY <1>3, <1>7 DEF Has, InUse
  <2> QED BY <1>1, <2>1
<1>9. \A c \in Int : \A q \in Procs : q # p => (Has(q, c)' <=> Has(q, c))
  BY <1>6 DEF Has
<1> QED BY <1>1, <1>6, <1>7, <1>8, <1>9 DEF first

LEMMA MovedAccounts ==
  ASSUME Roomy, TypeInv, Sound(table), NEW z, SwapArea(z), Accounts(z),
         NEW p \in Procs, NEW k \in 1..Len(table.list), NEW n \in Nat \ {0},
         n <= table.list[k].len, MovedTo(p, k, n)
  PROVE  Sound(table') /\ table'.panic = table.panic /\ Accounts(z)'
<1> DEFINE first == table.list[k].base
           given == first..first + n - 1
<1>1. /\ Sound(table') /\ table'.panic = table.panic
      /\ \A c \in given : In(table.list, c)
      /\ \A c \in Int : In(table'.list, c) <=> (In(table.list, c) /\ c \notin given) \/ Has(p, c)
  BY MovedTable, Zenon
<1>2. /\ first \in Nat /\ \A c \in Int : Has(p, c)' <=> c \in given
      /\ \A c \in Int : \A q \in Procs : q # p => (Has(q, c)' <=> Has(q, c))
  BY MovedBlocks, Zenon
<1>3. \A c \in given : c \in Int
  BY <1>2
<1> HIDE DEF given
<1>4. \A c \in given : c \in Int /\ In(table.list, c)
  BY <1>1, <1>3
<1> QED BY <1>1, <1>2, <1>4, Shift, Zenon

------------------------------------------------------------------------------
(* mem_init: after each chunk the table holds the clicks of the chunks up  *)
(* to it.                                                                  *)
InChunk(k, c) == Chunks[k].base <= c /\ c < HoleEnd(Chunks[k])

LEMMA ChunksApart ==
  ASSUME NEW j \in 1..Len(Chunks), NEW k \in 1..Len(Chunks), j # k,
         NEW c \in Int, InChunk(j, c)
  PROVE  ~ InChunk(k, c)
<1>1. \A i \in 1..Len(Chunks) : /\ Chunks[i].base \in Nat /\ HoleEnd(Chunks[i]) \in Nat
  BY ChunksAre DEF HoleEnd
<1>2. j < k \/ k < j
  BY ChunksAre
<1>3. HoleEnd(Chunks[j]) <= Chunks[k].base \/ HoleEnd(Chunks[k]) <= Chunks[j].base
  BY <1>2, AllocAssumption, ChunksAre
<1> QED BY <1>1, <1>3 DEF InChunk

LEMMA LoadedSound ==
  ASSUME Roomy, NEW f, Loading(Len(Chunks), f), NEW m \in 0..Len(Chunks)
  PROVE  /\ Sound(f[m]) /\ f[m].panic = FALSE
         /\ \A c \in Int : In(f[m].list, c) <=> \E k \in 1..m : InChunk(k, c)
<1> DEFINE n == Len(Chunks)
           Here(k, c) == In(f[k].list, c) <=> \E j \in 1..k : InChunk(j, c)
           Fine(k) == Sound(f[k]) /\ f[k].panic = FALSE /\ \A c \in Int : Here(k, c)
           Bad == {k \in 0..n : ~ Fine(k)}
<1>1. /\ n \in Nat /\ \A k \in 1..n : Chunks[k].base \in Nat /\ Chunks[k].len \in Nat
      /\ n < NR_PROCS /\ NR_PROCS \in Nat /\ NR_HOLES = 2 * NR_PROCS
  <2>1. n \in Nat /\ NR_PROCS \in Nat
    BY ChunksAre, AllocAssumption
  <2> QED BY <2>1, ChunksAre DEF Roomy, NR_HOLES
<1>2. \A k \in 0..n : f[k] = IF k = 0 THEN EmptyTable
                      ELSE free_mem(f[k - 1], Chunks[k].base, Chunks[k].len)
  BY DEF Loading
<1>3. /\ Bad \in SUBSET Nat /\ \A k \in Bad : k \in 0..n /\ ~ Fine(k)
      /\ \A k \in 0..n : k \notin Bad => Fine(k)
  BY <1>1
<1> HIDE DEF Bad
<1>4. Bad = {}
  <2> SUFFICES ASSUME Bad # {} PROVE FALSE
    OBVIOUS
  <2>1. PICK k \in Bad : \A j \in Bad : k <= j
    BY <1>3, Least, Zenon
  <2>2. k \in 0..n /\ ~ Fine(k)
    BY <1>3, <2>1
  <2> HIDE DEF n
  <2>3. CASE k = 0
    <3>1. f[k] = EmptyTable
      BY <1>2, <2>2, <2>3
    <3>2. EmptyTable.list = <<>> /\ EmptyTable.panic = FALSE
      BY DEF EmptyTable
    <3>3. \A c \in Int : ~ In(<<>>, c)
      BY DEF In
    <3>4. \A j \in 1..k : FALSE
      BY <2>3
    <3>5. Fine(k)
      BY <3>1, <3>2, <3>3, <3>4, EmptyIs
    <3> QED BY <2>2, <3>5
  <2>4. CASE k # 0
    <3> DEFINE base == Chunks[k].base
               len == Chunks[k].len
               t == f[k - 1]
    <3>1. k - 1 \in 0..n /\ k \in 1..n /\ ~ (k <= k - 1)
      BY <1>1, <2>2, <2>4
    <3>2. Fine(k - 1)
      BY <1>3, <2>1, <3>1
    <3>3. f[k] = free_mem(t, base, len) /\ base \in Nat /\ len \in Nat
      BY <1>1, <1>2, <2>2, <2>4, <3>1
    <3>4. t.free # 0
      <4>1. Len(t.list) <= k - 1
        BY <3>1, LoadedCounted DEF n
      <4>2. Len(t.list) \in Nat /\ t.free \in Nat /\ t.free + Len(t.list) = NR_HOLES
        BY <3>2, HolesAre DEF Sound
      <4>3. k - 1 < NR_HOLES /\ NR_HOLES \in Nat
        BY <1>1, <3>1
      <4> HIDE DEF t, NR_HOLES
      <4> QED BY <4>1, <4>2, <4>3, <3>1
    <3>5. \A c \in Int : c \in base..base + len - 1 <=> InChunk(k, c)
      BY <3>3 DEF InChunk, HoleEnd
    <3>6. \A c \in base..base + len - 1 : c \in Int
      BY <3>3
    <3>7. \A c \in base..base + len - 1 : ~ In(t.list, c)
      <4> SUFFICES ASSUME NEW c \in base..base + len - 1, In(t.list, c) PROVE FALSE
        OBVIOUS
      <4>1. c \in Int /\ InChunk(k, c)
        BY <3>5, <3>6
      <4>2. PICK j \in 1..k - 1 : InChunk(j, c)
        BY <3>2, <4>1
      <4>3. j \in 1..n /\ j # k
        BY <1>1, <3>1
      <4> QED BY <3>1, <4>1, <4>2, <4>3, ChunksApart DEF n
    <3> HIDE DEF base, len, t
    <3>8. /\ Sound(f[k]) /\ f[k].panic = t.panic
          /\ \A c \in Int : In(f[k].list, c) <=> In(t.list, c) \/ c \in base..base + len - 1
      <4>1. /\ Sound(free_mem(t, base, len)) /\ free_mem(t, base, len).panic = t.panic
            /\ \A c \in Int : In(free_mem(t, base, len).list, c)
                              <=> In(t.list, c) \/ c \in base..base + len - 1
        <5>1. Sound(t)
          BY <3>2 DEF t
        <5> QED BY <3>3, <3>4, <3>7, <5>1, Freed, Zenon
      <4> QED BY <3>3, <4>1, Zenon
    <3>9. \A c \in Int : Here(k, c)
      <4> SUFFICES ASSUME NEW c \in Int PROVE Here(k, c)
        OBVIOUS
      <4>1. In(f[k].list, c) <=> (\E j \in 1..k - 1 : InChunk(j, c)) \/ InChunk(k, c)
        BY <3>2, <3>5, <3>8 DEF t
      <4>2. \A j : j \in 1..k <=> j \in 1..k - 1 \/ j = k
        BY <1>1, <3>1
      <4> QED BY <4>1, <4>2
    <3>10. Fine(k)
      BY <3>2, <3>8, <3>9 DEF t
    <3> QED BY <2>2, <3>10
  <2> QED BY <2>3, <2>4
<1>5. Fine(m)
  <2> HIDE DEF Fine
  <2> QED BY <1>3, <1>4
<1> QED BY <1>5

LEMMA InitMemory == ASSUME Roomy, Init PROVE MemInv
<1>1. PICK f : Loading(Len(Chunks), f) /\ table = f[Len(Chunks)]
  BY InitLoads
<1>2. Len(Chunks) \in 0..Len(Chunks) /\ DOMAIN Chunks = 1..Len(Chunks)
  BY ChunksAre
<1>3. /\ Sound(table) /\ table.panic = FALSE
      /\ \A c \in Int : In(table.list, c) <=> \E k \in 1..Len(Chunks) : InChunk(k, c)
  BY <1>1, <1>2, LoadedSound
<1>4. \A p \in Procs : ~ InUse(p)
  BY DEF Init, InUse
<1>5. Accounts(0)
  <2>1. \A c \in Int : In(table.list, c) <=> Loaded(c)
    BY <1>2, <1>3 DEF Loaded, InChunk
  <2>2. \A c \in Int : ~ Area(0, c)
    BY SwapBase DEF Area
  <2>3. \A p \in Procs : \A c \in Int : ~ Has(p, c)
    BY <1>4 DEF Has
  <2> QED BY <2>1, <2>2, <2>3 DEF Accounts
<1>6. SwapArea(0)
  BY DEF SwapArea
<1>7. SwapSeparate /\ worst_fit = 0
  BY <1>4 DEF SwapSeparate, Init
<1> QED BY <1>3, <1>5, <1>6, <1>7, InitTypes DEF MemInv, MemSound

------------------------------------------------------------------------------
(* Steps that move no click. *)
LEMMA QuietMemory ==
  ASSUME MemInv, UNCHANGED <<table, mp_seg, swapping>>,
         1 \notin Policies => worst_fit' = 0,
         \A p \in Procs : /\ InUse(p)' <=> InUse(p)
                          /\ "ONSWAP" \in mp_flags'[p] <=> "ONSWAP" \in mp_flags[p]
  PROVE  MemSound'
<1>1. Sound(table)' /\ ~ table'.panic
  BY DEF MemInv, MemSound
<1>2. SwapSeparate'
  BY DEF MemInv, MemSound, SwapSeparate
<1>3. \A p \in Procs : \A c \in Int : Has(p, c)' <=> Has(p, c)
  BY DEF Has
<1>4. PICK z : SwapArea(z) /\ Accounts(z)
  BY DEF MemInv, MemSound
<1>5. SwapArea(z)'
  BY <1>4 DEF SwapArea
<1>6. Accounts(z)'
  BY <1>3, <1>4 DEF Accounts, Loaded, Area
<1> QED BY <1>1, <1>2, <1>5, <1>6 DEF MemSound

(* Steps that move a block. *)
LEMMA MovedMemory ==
  ASSUME Roomy, MemInv, NEW p \in Procs, NEW k \in 1..Len(table.list), NEW n \in Nat \ {0},
         n <= table.list[k].len, MovedTo(p, k, n), UNCHANGED <<swapping, worst_fit>>,
         "ONSWAP" \in mp_flags'[p] <=> table.list[k].base >= swap_base
  PROVE  MemSound'
<1>1. PICK z : SwapArea(z) /\ Accounts(z)
  BY DEF MemInv, MemSound
<1>2. Sound(table') /\ table'.panic = table.panic /\ Accounts(z)'
  BY <1>1, MovedAccounts, Zenon DEF MemInv, MemSound
<1>3. SwapArea(z)'
  BY <1>1 DEF SwapArea
<1>4. /\ mp_seg'[p].base = table.list[k].base
      /\ \A q \in Procs : q # p => mp_seg'[q] = mp_seg[q] /\ (InUse(q)' <=> InUse(q))
  BY MovedBlocks DEF MemInv
<1>5. \A q \in Procs : q # p => mp_flags'[q] = mp_flags[q]
  BY DEF MovedTo
<1>6. SwapSeparate'
  <2> SUFFICES ASSUME NEW q \in Procs, InUse(q)'
               PROVE  "ONSWAP" \in mp_flags'[q] <=> mp_seg'[q].base >= swap_base
    BY DEF SwapSeparate, swap_base
  <2>1. CASE q = p
    BY <1>4, <2>1
  <2>2. CASE q # p
    BY <1>4, <1>5, <2>2 DEF MemInv, MemSound, SwapSeparate
  <2> QED BY <2>1, <2>2
<1>7. (1 \notin Policies => worst_fit = 0)' /\ ~ table'.panic
  BY <1>2 DEF MemInv, MemSound
<1>8. Sound(table)'
  BY <1>2
<1> QED BY <1>1, <1>2, <1>3, <1>6, <1>7, <1>8 DEF MemSound

(* alloc_mem picks a hole of regular memory, whatever the policy, as long  *)
(* as worst fit and swapping are not used together.                        *)
LEMMA AllInMemoryHoles ==
  ASSUME NotBoth, MemInv, worst_fit # 0
  PROVE  \A k \in 1..Len(table.list) : table.list[k].base < swap_base
<1>1. PICK z : SwapArea(z) /\ Accounts(z)
  BY DEF MemInv, MemSound
<1>2. z = 0
  BY <1>1 DEF MemInv, MemSound, NotBoth, SwapArea
<1> SUFFICES ASSUME NEW k \in 1..Len(table.list) PROVE table.list[k].base < swap_base
  OBVIOUS
<1> DEFINE c == table.list[k].base
<1>3. c \in Nat /\ table.list[k].len \in Nat /\ table.list[k].len > 0
      /\ DOMAIN table.list = 1..Len(table.list)
  BY HolesAre DEF MemInv, MemSound, Sound, Near
<1>4. In(table.list, c)
  BY <1>3 DEF In, HoleEnd
<1> HIDE DEF c
<1>5. Loaded(c) \/ Area(0, c)
  BY <1>1, <1>2, <1>3, <1>4 DEF Accounts
<1>6. ~ Area(0, c)
  BY <1>3, SwapBase DEF Area
<1>7. c < swap_base
  BY <1>3, <1>5, <1>6, Below, SwapBase
<1> QED BY <1>7 DEF c

LEMMA PickedInMemory ==
  ASSUME NotBoth, MemInv, Picked # 0
  PROVE  table.list[Picked].base < swap_base
<1>1. Counted(table) /\ swap_base \in Nat /\ request.size \in Nat
  BY SwapBase DEF MemInv, TypeInv, MemoryTypes, Served
<1>2. CASE worst_fit = 0
  <2>1. Picked = FirstFit(table, swap_base, request.size)
    BY <1>2 DEF Picked
  <2> QED BY <1>1, <2>1, FirstFitIs
<1>3. CASE worst_fit # 0
  BY <1>3, AllInMemoryHoles, PickedIs DEF MemInv
<1> QED BY <1>2, <1>3

(* alloc_mem returns a block. *)
LEMMA MoveToMemory ==
  ASSUME Roomy, NotBoth, MemInv, pc = "alloc", Picked # 0, MoveTo(Picked),
         NEW f, "IN_USE" \in f, "ONSWAP" \notin f,
         mp_flags' = [mp_flags EXCEPT ![request.proc] = f],
         UNCHANGED <<swapping, worst_fit>>
  PROVE  MemSound' /\ MovedTo(request.proc, Picked, request.size)
<1> DEFINE p == request.proc
           n == request.size
           k == Picked
<1>1. /\ p \in Procs /\ n \in Nat \ {0} /\ mp_flags \in [Procs -> SUBSET Flags]
      /\ request.kind = "fork" <=> ~ InUse(p)
  BY DEF MemInv, TypeInv, Served, QueueInv, QueueTypes
<1>2. k \in 1..Len(table.list) /\ n <= table.list[k].len /\ table.list[k].base < swap_base
  BY PickedIs, PickedInMemory DEF MemInv
<1>3. \A q \in Procs : mp_flags'[q] = IF q = p THEN f ELSE mp_flags[q]
  BY <1>1
<1>4. MovedTo(p, k, n)
  <2>1. "IN_USE" \in mp_flags'[p] /\ \A q \in Procs : q # p => mp_flags'[q] = mp_flags[q]
    BY <1>1, <1>3
  <2>2. /\ table' = IF request.kind = "fork" THEN Bite(table, k, n)
                    ELSE free_mem(Bite(table, k, n), mp_seg[p].base, mp_seg[p].len)
        /\ mp_seg' = [mp_seg EXCEPT ![p] = Hole(table.list[k].base, n)]
    BY DEF MoveTo
  <2>3. table' = IF InUse(p) THEN free_mem(Bite(table, k, n), mp_seg[p].base, mp_seg[p].len)
                 ELSE Bite(table, k, n)
    BY <1>1, <2>2
  <2> HIDE DEF k, n, p
  <2> QED BY <2>1, <2>2, <2>3 DEF MovedTo
<1>5. ~ (table.list[k].base >= swap_base)
  <2>1. table.list[k].base \in Nat
    BY <1>2, HolesAre DEF MemInv, TypeInv, MemoryTypes
  <2> QED BY <1>2, <2>1, SwapBase
<1>6. "ONSWAP" \notin mp_flags'[p]
  BY <1>1, <1>3
<1> HIDE DEF p, n, k
<1>7. MemSound'
  BY <1>1, <1>2, <1>4, <1>5, <1>6, MovedMemory
<1> QED BY <1>4, <1>7 DEF p, n, k

LEMMA SwapOutMemory ==
  ASSUME Roomy, MemInv, SwapOut
  PROVE  /\ MemSound'
         /\ Outgoing \in Procs /\ SwapHole(table, swap_base, mp_seg[Outgoing].len) # 0
         /\ mp_seg[Outgoing].len \in Nat \ {0}
         /\ MovedTo(Outgoing, SwapHole(table, swap_base, mp_seg[Outgoing].len),
                    mp_seg[Outgoing].len)
<1> DEFINE p == Outgoing
           n == mp_seg[p].len
           k == SwapHole(table, swap_base, n)
           f == mp_flags[p] \cup {"ONSWAP"}
<1>1. /\ Counted(table) /\ mp_seg \in [Procs -> Holes] /\ swap_base \in Nat
      /\ mp_flags \in [Procs -> SUBSET Flags] /\ Slots /\ outswap \in Procs
  BY SwapBase DEF MemInv, TypeInv, MemoryTypes, QueueInv, QueueTypes
<1>2. p \in Procs /\ Candidate(p) /\ k # 0
  <2>1. p \in CanGo /\ p \in Procs /\ Candidate(p)
    BY <1>1, OutgoingCanGo DEF SwapOut
  <2> HIDE DEF p
  <2> QED BY <2>1 DEF CanGo
<1>3. /\ table' = free_mem(Bite(table, k, n), mp_seg[p].base, n)
      /\ mp_seg' = [mp_seg EXCEPT ![p] = Hole(table.list[k].base, n)]
      /\ mp_flags' = [mp_flags EXCEPT ![p] = f]
      /\ UNCHANGED <<swapping, worst_fit>>
  BY DEF SwapOut
<1> HIDE DEF p
<1>4. InUse(p)
  BY <1>1, <1>2 DEF Slots, Candidate
<1>5. n \in Nat \ {0}
  <2>1. mp_seg[p] \in Holes
    BY <1>1, <1>2
  <2>2. mp_seg[p].len > 0
    BY <1>1, <1>2, <1>4 DEF Slots
  <2> QED BY <2>1, <2>2 DEF Holes
<1>6. k \in 1..Len(table.list) /\ table.list[k].base >= swap_base /\ n <= table.list[k].len
  BY <1>1, <1>2, <1>5, SwapHoleIs
<1> HIDE DEF k, n
<1>7. \A q \in Procs : mp_flags'[q] = IF q = p THEN f ELSE mp_flags[q]
  BY <1>1, <1>3
<1>8. "ONSWAP" \in mp_flags'[p] /\ "IN_USE" \in mp_flags'[p]
  BY <1>2, <1>4, <1>7 DEF InUse
<1>9. MovedTo(p, k, n)
  BY <1>3, <1>4, <1>7, <1>8 DEF MovedTo, n
<1>10. MemSound'
  BY <1>2, <1>3, <1>5, <1>6, <1>8, <1>9, MovedMemory
<1> QED BY <1>2, <1>5, <1>9, <1>10 DEF p, k, n

------------------------------------------------------------------------------
(* The block of a process that ends goes to the table. *)
LEMMA ExitMemory ==
  ASSUME Roomy, MemInv, NEW p \in Procs, Exit(p)
  PROVE  /\ MemSound'
         /\ \A c \in Int : In(table'.list, c) <=> In(table.list, c) \/ Has(p, c)
         /\ \A q \in Procs : InUse(q)' <=> InUse(q) /\ q # p
<1> DEFINE base == mp_seg[p].base
           len == mp_seg[p].len
<1>1. PICK z : SwapArea(z) /\ Accounts(z)
  BY DEF MemInv, MemSound
<1>2. base \in Nat /\ len \in Nat /\ mp_flags \in [Procs -> SUBSET Flags]
  BY BlocksAre DEF MemInv, TypeInv, QueueInv, QueueTypes
<1>3. /\ InUse(p) /\ table' = free_mem(table, base, len) /\ mp_flags' = [mp_flags EXCEPT ![p] = {}]
      /\ UNCHANGED <<mp_seg, swapping, worst_fit>>
  BY DEF Exit
<1>4. \A c \in Int : c \in base..base + len - 1 <=> Has(p, c)
  BY <1>2, <1>3 DEF Has, HoleEnd
<1>5. \A c \in base..base + len - 1 : c \in Int
  BY <1>2
<1> HIDE DEF base, len
<1>6. \A c \in base..base + len - 1 : ~ In(table.list, c)
  BY <1>1, <1>4, <1>5 DEF Accounts
<1>7. Sound(table) /\ ~ table.panic /\ table.free # 0
  BY <1>1, Room DEF MemInv, MemSound
<1>8. /\ Sound(table') /\ table'.panic = table.panic
      /\ \A c \in Int : In(table'.list, c) <=> In(table.list, c) \/ c \in base..base + len - 1
  BY <1>2, <1>3, <1>6, <1>7, Freed, Zenon
<1>9. \A c \in Int : In(table'.list, c) <=> In(table.list, c) \/ Has(p, c)
  BY <1>4, <1>8
<1>10. \A q \in Procs : mp_flags'[q] = IF q = p THEN {} ELSE mp_flags[q]
  BY <1>2, <1>3
<1>11. \A q \in Procs : InUse(q)' <=> InUse(q) /\ q # p
  BY <1>10 DEF InUse
<1>12. Accounts(z)'
  <2> DEFINE none == {}
  <2>1. \A c \in Int : Has(p, c)' <=> c \in none
    BY <1>11 DEF Has
  <2>2. \A c \in Int : \A q \in Procs : q # p => (Has(q, c)' <=> Has(q, c))
    BY <1>3, <1>11 DEF Has
  <2>3. \A c \in none : c \in Int /\ In(table.list, c)
    OBVIOUS
  <2>4. \A c \in Int : In(table'.list, c) <=> (In(table.list, c) /\ c \notin none) \/ Has(p, c)
    BY <1>9
  <2> HIDE DEF none
  <2> QED BY <1>1, <2>1, <2>2, <2>3, <2>4, Shift, Zenon
<1>13. SwapArea(z)'
  BY <1>1, <1>3 DEF SwapArea
<1>14. SwapSeparate'
  <2> SUFFICES ASSUME NEW q \in Procs, InUse(q)'
               PROVE  "ONSWAP" \in mp_flags'[q] <=> mp_seg'[q].base >= swap_base
    BY DEF SwapSeparate, swap_base
  <2>1. InUse(q) /\ q # p
    BY <1>11
  <2> QED BY <1>3, <1>10, <2>1 DEF MemInv, MemSound, SwapSeparate
<1>15. (1 \notin Policies => worst_fit = 0)'
  BY <1>3 DEF MemInv, MemSound
<1> QED BY <1>7, <1>8, <1>9, <1>11, <1>12, <1>13, <1>14, <1>15 DEF MemSound

(* The swap area is above all that anybody has. *)
LEMMA SwapOnMemory ==
  ASSUME Roomy, MemInv, NEW size \in SwapSizes, SwapOn(size)
  PROVE  /\ MemSound'
         /\ \A c \in Int : In(table.list, c) => In(table'.list, c)
         /\ \A c \in Int : In(table'.list, c) => \A p \in Procs : ~ Has(p, c)
<1> DEFINE z == Min({size, swap_maxsize})
<1>1. z \in Nat /\ (SwapSizes \subseteq {0} => z = 0)
  <2>1. size \in Nat /\ swap_maxsize \in Nat
    BY SwapBase, AllocAssumption
  <2>2. {size, swap_maxsize} \in SUBSET Nat /\ {size, swap_maxsize} # {}
    BY <2>1
  <2>3. z \in {size, swap_maxsize} /\ \A k \in {size, swap_maxsize} : z <= k
    BY <2>2, MinIs, Zenon
  <2> QED BY <2>1, <2>3
<1>2. /\ ~ swapping /\ swapping' = TRUE /\ table' = free_mem(table, swap_base, z)
      /\ UNCHANGED <<mp_seg, mp_flags, worst_fit>>
  BY DEF SwapOn, procVars
<1> HIDE DEF z
<1>3. SwapArea(0) /\ Accounts(0)
  BY <1>2 DEF MemInv, MemSound, SwapArea
<1>4. swap_base \in Nat
  BY SwapBase
<1>5. /\ \A c \in Int : c \in swap_base..swap_base + z - 1 <=> Area(z, c)
      /\ \A c \in swap_base..swap_base + z - 1 : c \in Int
      /\ \A c \in Int : ~ Area(0, c)
      /\ \A c \in Int : Area(z, c) => ~ Loaded(c)
  BY <1>1, <1>4, Below DEF Area
<1>6. \A c \in Int : Area(z, c) => ~ In(table.list, c) /\ \A p \in Procs : ~ Has(p, c)
  BY <1>3, <1>5 DEF Accounts
<1>7. \A c \in swap_base..swap_base + z - 1 : ~ In(table.list, c)
  BY <1>5, <1>6
<1>8. Sound(table) /\ ~ table.panic /\ table.free # 0
  BY <1>3, Room DEF MemInv, MemSound
<1>9. /\ Sound(table') /\ table'.panic = table.panic
      /\ \A c \in Int : In(table'.list, c) <=>
                          In(table.list, c) \/ c \in swap_base..swap_base + z - 1
  BY <1>1, <1>2, <1>4, <1>7, <1>8, Freed, Zenon
<1>10. \A c \in Int : In(table'.list, c) <=> In(table.list, c) \/ Area(z, c)
  BY <1>5, <1>9
<1>11. \A p \in Procs : \A c \in Int : Has(p, c)' <=> Has(p, c)
  BY <1>2 DEF Has, InUse
<1>12. Accounts(z)'
  <2> DEFINE In0(c) == In(table.list, c)
             In1(c) == In(table'.list, c)
             Has0(q, c) == Has(q, c)
             Has1(q, c) == Has(q, c)'
  <2>1. /\ \A c \in Int : In0(c) \/ (\E q \in Procs : Has0(q, c)) <=> Loaded(c)
        /\ \A c \in Int : \A q \in Procs : Has0(q, c) => ~ In0(c)
        /\ \A c \in Int : \A q, r \in Procs : Has0(q, c) /\ Has0(r, c) => q = r
    BY <1>3, <1>5 DEF Accounts
  <2>2. /\ \A c \in Int : In1(c) <=> In0(c) \/ Area(z, c)
        /\ \A q \in Procs : \A c \in Int : Has1(q, c) <=> Has0(q, c)
        /\ \A c \in Int : Area(z, c) => ~ In0(c) /\ \A q \in Procs : ~ Has0(q, c)
    BY <1>6, <1>10, <1>11
  <2>3. /\ \A c \in Int : In1(c) \/ (\E q \in Procs : Has1(q, c)) <=> Loaded(c) \/ Area(z, c)
        /\ \A c \in Int : \A q \in Procs : Has1(q, c) => ~ In1(c)
        /\ \A c \in Int : \A q, r \in Procs : Has1(q, c) /\ Has1(r, c) => q = r
    <3> HIDE DEF In0, In1, Has0, Has1
    <3> QED BY <2>1, <2>2
  <2> QED BY <2>3 DEF Accounts, Loaded, Area
<1>13. SwapArea(z)'
  BY <1>1, <1>2 DEF SwapArea
<1>14. SwapSeparate' /\ (1 \notin Policies => worst_fit = 0)'
  BY <1>2 DEF MemInv, MemSound, SwapSeparate, InUse
<1>15. \A c \in Int : In(table'.list, c) => \A p \in Procs : ~ Has(p, c)
  BY <1>3, <1>6, <1>10 DEF Accounts
<1> QED BY <1>8, <1>9, <1>10, <1>12, <1>13, <1>14, <1>15 DEF MemSound

(* When nobody is on swap, the swap area is free from end to end. *)
LEMMA SwapOffMemory ==
  ASSUME MemInv, AllInMemory, table' = DropSwapHoles(table, swap_base),
         UNCHANGED <<mp_seg, mp_flags, worst_fit>>
  PROVE  /\ MemSound'
         /\ \A c \in Int : In(table'.list, c) => In(table.list, c)
         /\ \A c \in Int : In(table.list, c) /\ Loaded(c) => In(table'.list, c)
<1>1. PICK z : SwapArea(z) /\ Accounts(z)
  BY DEF MemInv, MemSound
<1>2. z \in Nat /\ swap_base \in Nat /\ Sound(table) /\ ~ table.panic
  BY <1>1, SwapBase DEF SwapArea, MemInv, MemSound
<1>3. /\ \A c \in Int : c >= swap_base => (Area(z, c) <=> c < swap_base + z) /\ ~ Area(0, c)
      /\ \A c \in Int : c < swap_base => ~ Area(z, c) /\ ~ Area(0, c)
      /\ \A c \in Int : Loaded(c) => c < swap_base - 1
      /\ swap_base - 1 \in Int /\ ~ Area(z, swap_base - 1)
  BY <1>2, Below DEF Area
<1>4. ~ In(table.list, swap_base - 1) /\ \A p \in Procs : ~ Has(p, swap_base - 1)
  <2>1. ~ Loaded(swap_base - 1)
    BY <1>2, <1>3
  <2> QED BY <1>1, <1>3, <2>1 DEF Accounts
<1>5. \A p \in Procs : \A c \in Int : Has(p, c) => c < swap_base
  <2> SUFFICES ASSUME NEW p \in Procs, NEW c \in Int, Has(p, c), c >= swap_base PROVE FALSE
    BY <1>2
  <2>1. InUse(p) /\ mp_seg[p].base <= c /\ c < HoleEnd(mp_seg[p])
    BY DEF Has
  <2>2. ~ (mp_seg[p].base >= swap_base)
    BY <2>1 DEF AllInMemory, MemInv, MemSound, SwapSeparate
  <2>3. mp_seg[p].base \in Nat /\ HoleEnd(mp_seg[p]) \in Nat
    BY BlocksAre DEF MemInv, HoleEnd
  <2>4. Has(p, swap_base - 1)
    BY <1>2, <2>1, <2>2, <2>3 DEF Has
  <2> QED BY <1>4, <2>4
<1>6. \A c \in Int : c >= swap_base => (In(table.list, c) <=> c < swap_base + z)
  <2> SUFFICES ASSUME NEW c \in Int, c >= swap_base
               PROVE  In(table.list, c) <=> c < swap_base + z
    OBVIOUS
  <2>1. ~ Loaded(c) /\ \A p \in Procs : ~ Has(p, c)
    BY <1>2, <1>3, <1>5
  <2> QED BY <1>1, <1>3, <2>1 DEF Accounts
<1>7. /\ Sound(table') /\ table'.panic = table.panic
      /\ \A c \in Int : In(table'.list, c) <=> In(table.list, c) /\ c < swap_base
  BY <1>2, <1>4, <1>6, Dropped, Zenon
<1>8. \A p \in Procs : \A c \in Int : Has(p, c)' <=> Has(p, c)
  BY DEF Has, InUse
<1>9. Accounts(0)'
  <2> DEFINE In0(c) == In(table.list, c)
             In1(c) == In(table'.list, c)
             Has0(q, c) == Has(q, c)
             Has1(q, c) == Has(q, c)'
             Low(c) == c < swap_base
  <2>1. /\ \A c \in Int : In0(c) \/ (\E q \in Procs : Has0(q, c)) <=> Loaded(c) \/ Area(z, c)
        /\ \A c \in Int : \A q \in Procs : Has0(q, c) => ~ In0(c)
        /\ \A c \in Int : \A q, r \in Procs : Has0(q, c) /\ Has0(r, c) => q = r
    BY <1>1 DEF Accounts
  <2>2. /\ \A c \in Int : In1(c) <=> In0(c) /\ Low(c)
        /\ \A q \in Procs : \A c \in Int : Has1(q, c) <=> Has0(q, c)
        /\ \A q \in Procs : \A c \in Int : Has0(q, c) => Low(c)
    BY <1>5, <1>7, <1>8
  <2>3. \A c \in Int : ~ Area(0, c) /\ (Loaded(c) => Low(c)) /\ (Low(c) => ~ Area(z, c))
    BY <1>2, <1>3
  <2>4. /\ \A c \in Int : In1(c) \/ (\E q \in Procs : Has1(q, c)) <=> Loaded(c) \/ Area(0, c)
        /\ \A c \in Int : \A q \in Procs : Has1(q, c) => ~ In1(c)
        /\ \A c \in Int : \A q, r \in Procs : Has1(q, c) /\ Has1(r, c) => q = r
    <3> HIDE DEF In0, In1, Has0, Has1, Low
    <3> QED BY <2>1, <2>2, <2>3
  <2> QED BY <2>4 DEF Accounts, Loaded, Area
<1>10. SwapArea(0)'
  BY DEF SwapArea
<1>11. SwapSeparate' /\ (1 \notin Policies => worst_fit = 0)'
  BY DEF MemInv, MemSound, SwapSeparate, InUse
<1>12. \A c \in Int : In(table.list, c) /\ Loaded(c) => In(table'.list, c)
  BY <1>2, <1>3, <1>7
<1> QED BY <1>2, <1>7, <1>9, <1>10, <1>11, <1>12 DEF MemSound

------------------------------------------------------------------------------
(* The calls and the turns that only change flags, the queue or the        *)
(* request.                                                                *)
LEMMA FlagsMemory ==
  ASSUME MemInv, NEW p \in Procs, Pause(p) \/ Wake(p) \/ Recall(p) \/ Reply(p)
  PROVE  MemSound' /\ UNCHANGED <<table, mp_seg>> /\ \A q \in Procs : InUse(q)' <=> InUse(q)
<1>1. mp_flags \in [Procs -> SUBSET Flags] /\ InUse(p)
  <2>1. Slots /\ mp_flags \in [Procs -> SUBSET Flags]
    BY DEF MemInv, TypeInv, QueueInv, QueueTypes
  <2>2. mp_flags[p] # {}
    BY DEF Pause, Running, Wake, Recall, Reply
  <2> QED BY <2>1, <2>2, WhoHasFlags
<1>2. UNCHANGED <<table, mp_seg, swapping, worst_fit>>
  BY DEF Pause, Wake, Recall, Reply
<1>3. PICK f : /\ mp_flags' = [mp_flags EXCEPT ![p] = f]
               /\ "IN_USE" \in f /\ ("ONSWAP" \in f <=> "ONSWAP" \in mp_flags[p])
  <2>1. CASE Pause(p)
    <3> DEFINE g == mp_flags[p] \cup {"PAUSED"}
    <3>1. mp_flags' = [mp_flags EXCEPT ![p] = g]
      BY <2>1 DEF Pause
    <3>2. "IN_USE" \in g /\ ("ONSWAP" \in g <=> "ONSWAP" \in mp_flags[p])
      BY <1>1 DEF InUse
    <3> HIDE DEF g
    <3> QED BY <3>1, <3>2
  <2>2. CASE Reply(p)
    <3> DEFINE g == mp_flags[p] \ {"REPLY"}
    <3>1. mp_flags' = [mp_flags EXCEPT ![p] = g]
      BY <2>2 DEF Reply
    <3>2. "IN_USE" \in g /\ ("ONSWAP" \in g <=> "ONSWAP" \in mp_flags[p])
      BY <1>1 DEF InUse
    <3> HIDE DEF g
    <3> QED BY <3>1, <3>2
  <2>3. CASE Wake(p)
    <3> DEFINE w == (mp_flags[p] \ {"PAUSED"}) \cup {"REPLY"}
               woken == [mp_flags EXCEPT ![p] = w]
               s == woken[p] \cup {"SWAPIN"}
    <3>1. mp_flags' = woken \/ mp_flags' = [woken EXCEPT ![p] = s]
      BY <2>3 DEF Wake, swap_inqueue
    <3>2. /\ woken[p] = w /\ "IN_USE" \in w
          /\ "ONSWAP" \in w <=> "ONSWAP" \in mp_flags[p]
      BY <1>1 DEF InUse
    <3>3. "IN_USE" \in s /\ ("ONSWAP" \in s <=> "ONSWAP" \in mp_flags[p])
      BY <3>2
    <3> HIDE DEF w, s
    <3>4. [woken EXCEPT ![p] = s] = [mp_flags EXCEPT ![p] = s]
      BY <1>1
    <3> QED BY <3>1, <3>2, <3>3, <3>4
  <2>4. CASE Recall(p)
    <3> DEFINE g == mp_flags[p] \cup {"SWAPIN"}
    <3>1. mp_flags' = [mp_flags EXCEPT ![p] = g] \/ mp_flags' = mp_flags
      BY <2>4 DEF Recall, swap_inqueue
    <3>2. "IN_USE" \in g /\ ("ONSWAP" \in g <=> "ONSWAP" \in mp_flags[p])
      BY <1>1 DEF InUse
    <3>3. mp_flags = [mp_flags EXCEPT ![p] = mp_flags[p]]
      BY <1>1
    <3>4. "IN_USE" \in mp_flags[p]
      BY <1>1 DEF InUse
    <3> HIDE DEF g
    <3> QED BY <3>1, <3>2, <3>3, <3>4
  <2> QED BY <2>1, <2>2, <2>3, <2>4
<1>4. \A q \in Procs : /\ InUse(q)' <=> InUse(q)
                       /\ "ONSWAP" \in mp_flags'[q] <=> "ONSWAP" \in mp_flags[q]
  BY <1>1, <1>3 DEF InUse
<1>5. 1 \notin Policies => worst_fit' = 0
  BY <1>2 DEF MemInv, MemSound
<1> QED BY <1>2, <1>4, <1>5, QuietMemory

(* Which steps move clicks, and which leave table and blocks alone. *)
LEMMA CallMemory ==
  ASSUME Roomy, MemInv, Call
  PROVE  /\ MemSound'
         /\ \/ \E p \in Procs : Exit(p)
            \/ \E size \in SwapSizes : SwapOn(size)
            \/ UNCHANGED <<table, mp_seg>> /\ \A p \in Procs : InUse(p)' <=> InUse(p)
<1>0. 1 \notin Policies => worst_fit = 0
  BY DEF MemInv, MemSound
<1>1. CASE \E p \in Procs, n \in Sizes : Fork(p, n) \/ Exec(p, n)
  <2>1. UNCHANGED <<table, mp_seg, mp_flags, swapping, worst_fit>>
    BY <1>1 DEF Fork, Exec, CallAlloc, procVars
  <2> QED BY <1>0, <2>1, QuietMemory DEF InUse
<1>2. CASE \E p \in Procs : Exit(p)
  BY <1>2, ExitMemory
<1>3. CASE \E p \in Procs : Pause(p) \/ Wake(p) \/ Recall(p) \/ Reply(p)
  BY <1>3, FlagsMemory
<1>4. CASE SwapIn
  <2>1. UNCHANGED <<table, mp_seg, mp_flags, swapping, worst_fit>>
    BY <1>4 DEF SwapIn, procVars
  <2> QED BY <1>0, <2>1, QuietMemory DEF InUse
<1>5. CASE SwapOff
  <2>1. UNCHANGED <<table, mp_seg, swapping, worst_fit>>
    BY <1>5 DEF SwapOff
  <2>2. \A p \in Procs : mp_flags'[p] = mp_flags[p] \cup
                           IF "ONSWAP" \in mp_flags[p] THEN {"SWAPIN"} ELSE {}
    BY <1>5 DEF SwapOff
  <2>3. \A p \in Procs : /\ InUse(p)' <=> InUse(p)
                         /\ "ONSWAP" \in mp_flags'[p] <=> "ONSWAP" \in mp_flags[p]
    BY <2>2 DEF InUse
  <2> QED BY <1>0, <2>1, <2>3, QuietMemory
<1>6. CASE \E n \in SwapSizes : SwapOn(n)
  BY <1>6, SwapOnMemory
<1>7. CASE \E n \in Policies : SetPolicy(n)
  <2>1. UNCHANGED <<table, mp_seg, mp_flags, swapping>> /\ (1 \notin Policies => worst_fit' = 0)
    BY <1>0, <1>7 DEF SetPolicy, procVars
  <2> QED BY <2>1, QuietMemory DEF InUse
<1> QED BY <1>1, <1>2, <1>3, <1>4, <1>5, <1>6, <1>7 DEF Call

LEMMA ContinueMemory ==
  ASSUME Roomy, NotBoth, MemInv, Continue
  PROVE  /\ MemSound'
         /\ \/ Grant \/ SwapInOne \/ SwapOut
            \/ AllInMemory /\ table' = DropSwapHoles(table, swap_base)
               /\ UNCHANGED <<mp_seg, mp_flags, worst_fit>>
            \/ UNCHANGED <<table, mp_seg>> /\ \A p \in Procs : InUse(p)' <=> InUse(p)
<1>0. 1 \notin Policies => worst_fit = 0
  BY DEF MemInv, MemSound
<1>1. CASE Grant
  <2>1. "IN_USE" \in {"IN_USE"} /\ "ONSWAP" \notin {"IN_USE"}
    OBVIOUS
  <2> QED BY <1>1, <2>1, MoveToMemory DEF Grant
<1>2. CASE SwapInOne
  <2> DEFINE f == mp_flags[request.proc] \ {"ONSWAP", "SWAPIN"}
  <2>1. "IN_USE" \in f /\ "ONSWAP" \notin f
    BY <1>2 DEF SwapInOne, MemInv, TypeInv, Served, InUse
  <2>2. mp_flags' = [mp_flags EXCEPT ![request.proc] = f]
    BY <1>2 DEF SwapInOne
  <2> HIDE DEF f
  <2> QED BY <1>2, <2>1, <2>2, MoveToMemory DEF SwapInOne
<1>3. CASE SwapOut
  BY <1>3, SwapOutMemory
<1>4. CASE SignalsEnd \/ TrySwapOut \/ NoMem \/ Clean \/ FindRoom \/ SwapInEnd \/ SwapOffFails
  <2>1. UNCHANGED <<table, mp_seg, mp_flags, swapping, worst_fit>>
    BY <1>4 DEF SignalsEnd, TrySwapOut, NoMem, Clean, FindRoom, SwapInEnd, SwapOffFails, procVars
  <2> QED BY <1>0, <2>1, QuietMemory DEF InUse
<1>5. CASE SwapOffEnd
  <2>1. AllInMemory /\ UNCHANGED <<mp_seg, mp_flags, worst_fit>>
    BY <1>5 DEF SwapOffEnd, procVars
  <2>2. CASE table' = DropSwapHoles(table, swap_base)
    BY <2>1, <2>2, SwapOffMemory
  <2>3. CASE UNCHANGED <<table, swapping>>
    BY <1>0, <2>1, <2>3, QuietMemory DEF InUse
  <2> QED BY <1>5, <2>2, <2>3 DEF SwapOffEnd
<1> QED BY <1>1, <1>2, <1>3, <1>4, <1>5 DEF Continue

LEMMA MemStep == ASSUME Roomy, NotBoth, MemInv, [Next]_vars PROVE MemInv'
<1>1. TypeInv'
  BY TypeStep DEF MemInv
<1>2. CASE Next
  BY <1>1, <1>2, CallMemory, ContinueMemory DEF Next, MemInv
<1>3. CASE UNCHANGED vars
  <2>1. UNCHANGED <<table, mp_seg, mp_flags, swapping, worst_fit>>
    BY <1>3 DEF vars, procVars
  <2> QED BY <1>1, <2>1, QuietMemory DEF MemInv, MemSound, InUse
<1> QED BY <1>2, <1>3

LEMMA MemAlways == ASSUME Roomy, NotBoth PROVE Spec => []MemInv
<1>1. Init => MemInv
  BY InitMemory
<1>2. MemInv /\ [Next]_vars => MemInv'
  BY MemStep
<1> QED BY <1>1, <1>2, PTL DEF Spec

(* Who is flagged ONSWAP is on swap and nobody else is, in every state of  *)
(* every memory with a swap area of any size, if worst fit is not chosen.  *)
THEOREM SwapIsSeparate ==
  ASSUME Roomy, NotBoth PROVE Spec => []SwapSeparate
<1>1. MemInv => SwapSeparate
  BY DEF MemInv, MemSound
<1> QED BY <1>1, MemAlways, PTL

(* A size given to do_hole_map, as it is compared there. *)
LEMMA UnsignedIs ==
  ASSUME NEW nbytes \in BufferSizes
  PROVE  /\ nbytes \in Int /\ unsigned(nbytes) \in 0..UINTS - 1
         /\ nbytes >= 0 => unsigned(nbytes) = nbytes
         /\ nbytes < 0 => unsigned(nbytes) >= 8 * (NR_HOLES + 2)
<1>1. /\ UINTS \in Nat /\ UINTS % 2 = 0 /\ UINTS >= 16 * (NR_HOLES + 2) /\ NR_HOLES \in Nat
      /\ nbytes \in -(UINTS \div 2)..(UINTS \div 2) - 1
  BY AllocAssumption DEF NR_HOLES
<1> DEFINE half == UINTS \div 2
<1>2. half \in Nat /\ UINTS = 2 * half
  BY <1>1
<1>3. half >= 8 * (NR_HOLES + 2)
  BY <1>1, <1>2
<1>4. nbytes \in -half..half - 1
  BY <1>1
<1> HIDE DEF half
<1>5. CASE nbytes >= 0
  <2>1. nbytes \in 0..UINTS - 1
    BY <1>2, <1>4, <1>5
  <2>2. nbytes % UINTS = nbytes
    BY <1>1, <2>1
  <2> QED BY <1>5, <2>1, <2>2 DEF unsigned
<1>6. CASE nbytes < 0
  <2>1. nbytes + UINTS \in half..UINTS - 1
    BY <1>2, <1>4, <1>6
  <2>2. nbytes % UINTS = nbytes + UINTS
    BY <1>1, <1>2, <1>4, <1>6
  <2> QED BY <1>1, <1>2, <1>3, <1>4, <1>6, <2>1, <2>2 DEF unsigned
<1> QED BY <1>4, <1>5, <1>6

(* The hole map of a sorted table fits in a buffer whose size is not       *)
(* negative, has its only 0 size at its end, and is complete if the buffer *)
(* has room for another pair.                                              *)
FitsBuffer(map, all, nbytes) ==
  LET sizes == {j \in DOMAIN map : j % 2 = 1}
  IN  /\ nbytes >= 0 => Len(map) * WORD <= nbytes
      /\ nbytes \notin 0..WORD - 1 => \A j \in sizes : map[j] = 0 <=> j = Len(map)
      /\ nbytes < 0 \/ nbytes - Len(map) * WORD >= 2 * WORD => Len(map) = 2 * all + 1

LEMMA MapFits ==
  ASSUME NEW t, Sound(t), NEW sb \in Nat, NEW nbytes \in BufferSizes
  PROVE  FitsBuffer(hole_map(t, sb, nbytes), Cardinality(MemoryHoles(t, sb)), nbytes)
<1> DEFINE l == t.list
           all == Cardinality(MemoryHoles(t, sb))
           pairs == nr_pairs(nbytes)
           n == Min({pairs, all})
           hole(j) == l[(j + 1) \div 2]
           word(j) == IF j > 2 * n THEN 0
                      ELSE IF j % 2 = 1 THEN hole(j).len ELSE hole(j).base
           words == [j \in 1..2 * n + 1 |-> word(j)]
           map == hole_map(t, sb, nbytes)
           u == unsigned(nbytes)
<1>1. l \in Seq(Holes) /\ Len(l) \in Nat /\ DOMAIN l = 1..Len(l)
  BY DEF Sound, Counted, Tables
<1>2. \A j \in 1..Len(l) : l[j].len \in Nat /\ l[j].len > 0
  <2>1. \A j \in 1..Len(l) : l[j] \in Holes /\ l[j].len > 0
    BY <1>1 DEF Sound, Near
  <2> HIDE DEF l
  <2> QED BY <2>1 DEF Holes
<1>3. all \in 0..Len(l)
  <2>1. MemoryHoles(t, sb) \subseteq 1..Len(l)
    BY <1>1 DEF MemoryHoles
  <2>2. IsFiniteSet(1..Len(l)) /\ Cardinality(1..Len(l)) = Len(l)
    <3>1. 1 \in Int /\ Len(l) \in Int /\ (IF 1 > Len(l) THEN 0 ELSE Len(l) - 1 + 1) = Len(l)
      BY <1>1
    <3> HIDE DEF l
    <3> QED BY <3>1, FS_Interval
  <2>3. all \in Nat /\ all <= Len(l)
    BY <2>1, <2>2, FS_Subset, FS_CardinalityType
  <2> QED BY <1>1, <2>3
<1>4. map = IF u < WORD THEN <<>> ELSE words
  BY DEF hole_map
<1>9. /\ nbytes \in Int /\ u \in 0..UINTS - 1 /\ UINTS \in Nat /\ NR_HOLES \in Nat
      /\ nbytes >= 0 => u = nbytes
      /\ nbytes < 0 => u >= 8 * (NR_HOLES + 2)
      /\ Len(l) <= NR_HOLES
  <2>1. Len(t.list) <= NR_HOLES /\ UINTS \in Nat /\ NR_HOLES \in Nat
    <3>1. Counted(t) /\ NR_HOLES \in Nat
      BY AllocAssumption DEF Sound, NR_HOLES
    <3> QED BY <1>1, <3>1, AllocAssumption DEF Counted, Tables
  <2> QED BY <2>1, UnsignedIs
<1> HIDE DEF l, map, all, u
<1>5. ASSUME u < WORD PROVE FitsBuffer(map, all, nbytes)
  <2>1. map = <<>> /\ Len(map) = 0 /\ DOMAIN map = {}
    BY <1>4, <1>5
  <2>2. nbytes \in 0..WORD - 1
    BY <1>5, <1>9 DEF WORD
  <2>3. Len(map) * WORD = 0 /\ \A j \in DOMAIN map : FALSE
    BY <2>1 DEF WORD
  <2>4. ~ (nbytes < 0) /\ nbytes >= 0 /\ ~ (nbytes - 0 >= 2 * WORD)
    BY <2>2 DEF WORD
  <2> QED BY <2>2, <2>3, <2>4 DEF FitsBuffer
<1>6. ASSUME ~ (u < WORD) PROVE FitsBuffer(map, all, nbytes)
  <2>1. pairs \in Nat /\ WORD * (2 * pairs + 1) <= u /\ u < WORD * (2 * pairs + 3)
    <3> DEFINE q == u \div WORD
    <3>1. q \in Nat \ {0} /\ 4 * q <= u /\ u < 4 * q + 4
      BY <1>6, <1>9 DEF WORD
    <3>2. pairs = unsigned(q - 1) \div 2
      BY DEF nr_pairs, u
    <3> HIDE DEF q, pairs
    <3>3. q - 1 \in 0..UINTS - 1
      BY <1>9, <3>1
    <3>4. unsigned(q - 1) = q - 1
      <4>1. (q - 1) % UINTS = q - 1
        BY <1>9, <3>3
      <4> QED BY <4>1 DEF unsigned
    <3>5. pairs \in Nat /\ 2 * pairs <= q - 1 /\ q - 1 < 2 * pairs + 2
      BY <3>1, <3>2, <3>4
    <3>6. u \in Int
      BY <1>9
    <3> QED BY <3>1, <3>5, <3>6 DEF WORD
  <2>2. n \in {pairs, all} /\ n <= pairs /\ n <= all
    <3>1. {pairs, all} \in SUBSET Nat /\ {pairs, all} # {}
      BY <1>1, <1>3, <2>1
    <3> HIDE DEF pairs
    <3> QED BY <3>1, MinIs, Zenon
  <2> HIDE DEF pairs, n
  <2>3. n \in Nat /\ all \in Nat /\ n <= Len(l)
    BY <1>1, <1>3, <2>1, <2>2
  <2>4. /\ Len(map) = 2 * n + 1 /\ DOMAIN map = 1..2 * n + 1
        /\ \A j \in 1..2 * n + 1 : map[j] = word(j)
    BY <1>4, <1>6, <2>3
  <2>5. nbytes >= 0 => Len(map) * WORD <= nbytes
    BY <1>9, <2>1, <2>2, <2>3, <2>4 DEF WORD
  <2>6. nbytes < 0 \/ nbytes - Len(map) * WORD >= 2 * WORD => Len(map) = 2 * all + 1
    <3>1. CASE nbytes < 0
      <4>1. pairs > all
        BY <1>1, <1>3, <1>9, <2>1, <3>1 DEF WORD
      <4> QED BY <2>1, <2>2, <2>3, <2>4, <4>1
    <3>2. CASE nbytes >= 0
      BY <1>9, <2>1, <2>2, <2>3, <2>4, <3>2 DEF WORD
    <3> QED BY <1>9, <3>1, <3>2
  <2>7. ASSUME NEW j \in 1..2 * n + 1, j % 2 = 1
        PROVE  map[j] = 0 <=> j = Len(map)
    <3>1. CASE j = 2 * n + 1
      BY <2>3, <2>4, <3>1
    <3>2. CASE j # 2 * n + 1
      <4> DEFINE i == (j + 1) \div 2
      <4>1. ~ (j > 2 * n) /\ i \in 1..n
        BY <2>3, <3>2
      <4>2. map[j] = l[i].len
        BY <2>4, <2>7, <4>1
      <4> HIDE DEF i
      <4>3. l[i].len # 0
        BY <1>2, <2>3, <4>1
      <4> QED BY <2>4, <3>2, <4>2, <4>3
    <3> QED BY <3>1, <3>2
  <2>8. \A j \in DOMAIN map : j % 2 = 1 => (map[j] = 0 <=> j = Len(map))
    BY <2>4, <2>7
  <2> QED BY <2>5, <2>6, <2>8 DEF FitsBuffer
<1>8. FitsBuffer(map, all, nbytes)
  BY <1>5, <1>6, Zenon
<1> QED BY <1>8 DEF map, all

(* The hole table is sorted and merged, free_mem always finds a slot, and  *)
(* do_hole_map never writes past a buffer whose size is not negative, for  *)
(* any number of processes, any chunks and any order of requests.          *)
THEOREM TableIsSound ==
  ASSUME Roomy, NotBoth PROVE Spec => []TableSound
<1>1. MemInv => TableSound
  <2> SUFFICES ASSUME MemInv PROVE HolesApart /\ SlotsSuffice /\ HoleMapFits
    BY DEF TableSound
  <2>1. Sound(table) /\ ~ table.panic
    BY DEF MemInv, MemSound
  <2>2. Len(table.list) \in Nat /\ DOMAIN table.list = 1..Len(table.list)
    BY <2>1, HolesAre DEF Sound
  <2>3. HolesApart
    <3> SUFFICES ASSUME NEW k \in 1..Len(table.list)
                 PROVE  /\ table.list[k].len > 0
                        /\ k < Len(table.list) => HoleEnd(table.list[k]) < table.list[k + 1].base
      BY <2>2 DEF HolesApart
    <3>1. table.list[k].len > 0
      BY <2>1, <2>2 DEF Sound, Near
    <3>2. ASSUME k < Len(table.list) PROVE HoleEnd(table.list[k]) < table.list[k + 1].base
      <4>1. k + 1 \in 1..Len(table.list) /\ k < k + 1
        BY <2>2, <3>2
      <4> QED BY <2>1, <2>2, <4>1 DEF Sound, Near
    <3> QED BY <3>1, <3>2
  <2>4. SlotsSuffice
    BY <2>1 DEF SlotsSuffice, Sound, Counted
  <2>5. HoleMapFits
    <3>1. swap_base \in Nat
      BY SwapBase
    <3>2. \A nbytes \in BufferSizes :
            FitsBuffer(hole_map(table, swap_base, nbytes),
                       Cardinality(MemoryHoles(table, swap_base)), nbytes)
      BY <2>1, <3>1, MapFits, Zenon
    <3> QED BY <3>2, Zenon DEF HoleMapFits, FitsBuffer
  <2> QED BY <2>3, <2>4, <2>5
<1> QED BY <1>1, MemAlways, PTL

------------------------------------------------------------------------------
(* What alloc_mem picks from the holes of memory, when it picks one and    *)
(* when it does not.                                                       *)
LEMMA PickedObeys ==
  ASSUME NotBoth, MemInv
  PROVE  LET l == table.list
             memory == {h \in Range(l) : h.base < swap_base}
             enough == {h \in memory : h.len >= request.size}
         IN  /\ Picked = 0 => enough = {}
             /\ Picked # 0 =>
                  /\ l[Picked] \in enough
                  /\ IF worst_fit = 1 THEN \A g \in memory : g.len <= l[Picked].len
                     ELSE \A g \in enough : l[Picked].base <= g.base
<1> DEFINE l == table.list
           memory == {h \in Range(l) : h.base < swap_base}
           enough == {h \in memory : h.len >= request.size}
           k == Picked
           n == request.size
<1>1. /\ Sound(table) /\ Counted(table) /\ swap_base \in Nat /\ n \in Nat
      /\ worst_fit \in {0, 1}
  BY SwapBase DEF MemInv, MemSound, Sound, TypeInv, MemoryTypes, Served
<1>2. /\ Len(l) \in Nat /\ DOMAIN l = 1..Len(l)
      /\ \A j \in 1..Len(l) : l[j].base \in Nat /\ l[j].len \in Nat
  BY <1>1, HolesAre
<1>3. \A h \in Range(l) : \E j \in 1..Len(l) : h = l[j]
  BY <1>2 DEF Range
<1>4. k # 0 => k \in 1..Len(l) /\ n <= l[k].len /\ l[k].base < swap_base /\ l[k] \in Range(l)
  BY <1>2, PickedIs, PickedInMemory DEF MemInv, Range
<1>5. CASE worst_fit = 0
  <2>1. k = FirstFit(table, swap_base, n)
    BY <1>5 DEF Picked
  <2> HIDE DEF k, n
  <2>2. /\ k = 0 => \A j \in 1..Len(l) : l[j].base < swap_base => l[j].len < n
        /\ k # 0 => \A j \in 1..Len(l) :
                      l[j].base < swap_base /\ l[j].len >= n => l[k].base <= l[j].base
    BY <1>1, <2>1, FirstFitIs, Zenon
  <2> HIDE DEF l
  <2>3. k = 0 => enough = {}
    BY <1>1, <1>2, <1>3, <2>2 DEF n
  <2>4. k # 0 => l[k] \in enough /\ \A g \in enough : l[k].base <= g.base
    BY <1>1, <1>2, <1>3, <1>4, <2>2 DEF n
  <2> QED BY <1>5, <2>3, <2>4 DEF l, k
<1>6. CASE worst_fit # 0
  <2>1. k = WorstFit(table, swap_base, n) /\ worst_fit = 1
    BY <1>1, <1>6 DEF Picked
  <2>2. \A j \in 1..Len(l) : l[j].base < swap_base
    BY <1>6, AllInMemoryHoles
  <2> HIDE DEF k, n
  <2>3. /\ k = 0 => \A j \in 1..Len(l) : l[j].len < n
        /\ k # 0 => \A j \in 1..Len(l) : l[j].len <= l[k].len
    BY <1>1, <2>1, <2>2, WorstFitIs, Zenon
  <2> HIDE DEF l
  <2>4. k = 0 => enough = {}
    BY <1>1, <1>2, <1>3, <2>3 DEF n
  <2>5. k # 0 => l[k] \in enough /\ \A g \in memory : g.len <= l[k].len
    BY <1>1, <1>2, <1>3, <1>4, <2>3 DEF n
  <2> QED BY <2>1, <2>4, <2>5 DEF l, k
<1> QED BY <1>5, <1>6

(* alloc_mem obeys the policy in force for any memory: first fit takes the *)
(* lowest hole of memory that is big enough, worst fit a largest one, and  *)
(* others are swapped out only when no hole of memory is big enough.       *)
THEOREM PolicyIsObeyed ==
  ASSUME Roomy, NotBoth PROVE Spec => PolicyObeyed
<1> DEFINE memory == {h \in Range(table.list) : h.base < swap_base}
           enough == {h \in memory : h.len >= request.size}
           start  == mp_seg'[request.proc].base
           Obeyed == IF pc' = "swap_out" THEN enough = {}
                     ELSE \E h \in enough :
                            /\ h.base = start
                            /\ IF worst_fit = 1 THEN \A g \in memory : g.len <= h.len
                                                ELSE \A g \in enough : start <= g.base
<1>1. MemInv /\ [Next]_vars => [pc = "alloc" => Obeyed]_vars
  <2> SUFFICES ASSUME MemInv, Next, pc = "alloc" PROVE Obeyed
    OBVIOUS
  <2>1. /\ Picked = 0 => enough = {}
        /\ Picked # 0 =>
             /\ table.list[Picked] \in enough
             /\ IF worst_fit = 1 THEN \A g \in memory : g.len <= table.list[Picked].len
                ELSE \A g \in enough : table.list[Picked].base <= g.base
    BY PickedObeys, Zenon
  <2>2. CASE TrySwapOut
    BY <2>1, <2>2 DEF TrySwapOut
  <2>3. CASE Grant \/ SwapInOne
    <3>1. Picked # 0 /\ pc' # "swap_out" /\ MoveTo(Picked)
      BY <2>3 DEF Grant, SwapInOne
    <3>2. start = table.list[Picked].base
      <4>1. mp_seg' = [mp_seg EXCEPT ![request.proc] = Hole(table.list[Picked].base, request.size)]
        BY <3>1 DEF MoveTo
      <4>2. mp_seg \in [Procs -> Holes] /\ request.proc \in Procs
        BY DEF MemInv, TypeInv, MemoryTypes, QueueInv, QueueTypes
      <4> QED BY <4>1, <4>2 DEF Hole
    <3> HIDE DEF memory, enough, start
    <3> QED BY <2>1, <3>1, <3>2
  <2>4. TrySwapOut \/ Grant \/ SwapInOne
    <3>1. ~ Call
      BY DEF Call, Fork, Exec, CallAlloc, Exit, Pause, Wake, Recall, MayHear, Reply, SwapIn,
             SwapOff, SwapOn, SetPolicy
    <3> QED BY <3>1 DEF Next, Continue, SwapOut, NoMem, Clean, FindRoom, AtProcess, SwapInEnd,
                        SignalsEnd, SwapOffFails, SwapOffEnd
  <2> QED BY <2>2, <2>3, <2>4
<1> QED BY <1>1, MemAlways, PTL DEF Spec, PolicyObeyed
------------------------------------------------------------------------------
(* Alloc implements PhysMem.  What is free and what a process has, as sets *)
(* of clicks.                                                              *)
FreeClicks == UNION {Clicks(h) : h \in Range(table.list)}
BlockClicks == [p \in Procs |-> IF InUse(p) THEN Clicks(mp_seg[p]) ELSE {}]
ChunkClicks == UNION {Clicks(c) : c \in Range(Chunks)}

LEMMA FreeIs ==
  ASSUME NEW t, Counted(t)
  PROVE  \A c : c \in UNION {Clicks(h) : h \in Range(t.list)} <=> c \in Int /\ In(t.list, c)
<1>1. /\ Len(t.list) \in Nat /\ DOMAIN t.list = 1..Len(t.list)
      /\ \A k \in 1..Len(t.list) : t.list[k].base \in Nat /\ t.list[k].len \in Nat
  BY HolesAre
<1>2. \A k \in 1..Len(t.list) : \A c : c \in Clicks(t.list[k]) <=>
        c \in Int /\ t.list[k].base <= c /\ c < HoleEnd(t.list[k])
  BY <1>1 DEF Clicks, HoleEnd
<1>3. \A c : c \in UNION {Clicks(h) : h \in Range(t.list)} <=>
               \E k \in 1..Len(t.list) : c \in Clicks(t.list[k])
  BY <1>1 DEF Range
<1> QED BY <1>1, <1>2, <1>3 DEF In

LEMMA BlockIs ==
  ASSUME TypeInv
  PROVE  /\ DOMAIN BlockClicks = Procs
         /\ \A p \in Procs : \A c : c \in BlockClicks[p] <=> c \in Int /\ Has(p, c)
<1>1. \A p \in Procs : mp_seg[p].base \in Nat /\ mp_seg[p].len \in Nat
  BY BlocksAre
<1> QED BY <1>1 DEF BlockClicks, Clicks, HoleEnd, Has

LEMMA NextBlockIs ==
  ASSUME TypeInv'
  PROVE  /\ DOMAIN BlockClicks' = Procs
         /\ \A p \in Procs : \A c : c \in BlockClicks'[p] <=> c \in Int /\ Has(p, c)'
<1>1. \A p \in Procs : mp_seg'[p] \in Holes
  BY DEF TypeInv, MemoryTypes
<1>2. \A p \in Procs : mp_seg'[p].base \in Nat /\ mp_seg'[p].len \in Nat
  BY <1>1 DEF Holes
<1> QED BY <1>2 DEF BlockClicks, Clicks, HoleEnd, Has

LEMMA ChunksHold == \A c : c \in ChunkClicks <=> c \in Int /\ Loaded(c)
<1>1. /\ DOMAIN Chunks = 1..Len(Chunks)
      /\ \A k \in 1..Len(Chunks) : Chunks[k].base \in Nat /\ Chunks[k].len \in Nat
  BY ChunksAre
<1>2. \A k \in 1..Len(Chunks) : \A c : c \in Clicks(Chunks[k]) <=>
        c \in Int /\ Chunks[k].base <= c /\ c < HoleEnd(Chunks[k])
  BY <1>1 DEF Clicks, HoleEnd
<1>3. \A c : c \in ChunkClicks <=> \E k \in 1..Len(Chunks) : c \in Clicks(Chunks[k])
  BY <1>1 DEF Range, ChunkClicks
<1> QED BY <1>1, <1>2, <1>3 DEF Loaded


LEMMA InitRefines ==
  ASSUME Roomy, Init PROVE Phys!Init
<1>1. Accounts(0) /\ Counted(table) /\ TypeInv /\ \A p \in Procs : ~ InUse(p)
  <2>1. MemInv
    BY InitMemory
  <2>2. \A p \in Procs : ~ InUse(p)
    BY DEF Init, InUse
  <2>3. SwapArea(0) /\ Accounts(0)
    BY <2>1 DEF Init, MemInv, MemSound, SwapArea
  <2> QED BY <2>1, <2>2, <2>3 DEF MemInv, TypeInv, MemoryTypes
<1>2. FreeClicks = ChunkClicks
  <2>1. \A c : c \in FreeClicks <=> c \in Int /\ In(table.list, c)
    BY <1>1, FreeIs DEF FreeClicks
  <2>2. \A c \in Int : In(table.list, c) <=> Loaded(c)
    <3>1. \A c \in Int : ~ Area(0, c)
      BY SwapBase DEF Area
    <3>2. \A c \in Int : \A p \in Procs : ~ Has(p, c)
      BY <1>1 DEF Has
    <3> QED BY <1>1, <3>1, <3>2 DEF Accounts
  <2>3. \A c : c \in FreeClicks <=> c \in ChunkClicks
    BY <2>1, <2>2, ChunksHold
  <2> QED BY <2>3
<1>3. BlockClicks = [p \in Procs |-> {}]
  BY <1>1 DEF BlockClicks
<1> QED BY <1>2, <1>3 DEF Phys!Init, FreeClicks, ChunkClicks, BlockClicks

Gives == \E p \in Procs : \E first, last \in FreeClicks : Phys!Give(p, first, last)

(* A block that moves is given, and the old one comes back. *)
LEMMA MoveRefines ==
  ASSUME Roomy, MemInv, TypeInv', NEW p \in Procs, NEW k \in 1..Len(table.list),
         NEW n \in Nat \ {0}, n <= table.list[k].len, MovedTo(p, k, n)
  PROVE  Gives
<1> DEFINE first == table.list[k].base
           last == first + n - 1
           given == first..last
<1>1. PICK z : SwapArea(z) /\ Accounts(z)
  BY DEF MemInv, MemSound
<1>2. /\ Sound(table') /\ \A c \in given : In(table.list, c)
      /\ \A c \in Int : In(table'.list, c) <=> (In(table.list, c) /\ c \notin given) \/ Has(p, c)
  BY <1>1, MovedTable, Zenon DEF MemInv, MemSound
<1>3. /\ first \in Nat /\ \A c \in Int : Has(p, c)' <=> c \in given
      /\ \A c \in Int : \A q \in Procs : q # p => (Has(q, c)' <=> Has(q, c))
  BY MovedBlocks, Zenon DEF MemInv
<1>4. first \in given /\ last \in given /\ \A c \in given : c \in Int
  BY <1>3
<1> HIDE DEF first, last, given
<1>5. /\ \A c : c \in FreeClicks <=> c \in Int /\ In(table.list, c)
      /\ \A c : c \in FreeClicks' <=> c \in Int /\ In(table'.list, c)
  BY <1>2, FreeIs DEF FreeClicks, MemInv, MemSound, Sound
<1>6. /\ DOMAIN BlockClicks = Procs
      /\ \A q \in Procs : \A c : c \in BlockClicks[q] <=> c \in Int /\ Has(q, c)
  BY BlockIs DEF MemInv
<1>7. /\ DOMAIN BlockClicks' = Procs
      /\ \A q \in Procs : \A c : c \in BlockClicks'[q] <=> c \in Int /\ Has(q, c)'
  BY NextBlockIs
<1>8. given \subseteq FreeClicks /\ first \in FreeClicks /\ last \in FreeClicks
  BY <1>2, <1>4, <1>5
<1>9. BlockClicks' = [BlockClicks EXCEPT ![p] = given]
  <2>1. BlockClicks'[p] = given
    <3>1. \A c : c \in BlockClicks'[p] <=> c \in given
      BY <1>3, <1>4, <1>7
    <3> QED BY <3>1
  <2>2. \A q \in Procs : q # p => BlockClicks'[q] = BlockClicks[q]
    <3> SUFFICES ASSUME NEW q \in Procs, q # p PROVE BlockClicks'[q] = BlockClicks[q]
      OBVIOUS
    <3>1. \A c : c \in BlockClicks'[q] <=> c \in BlockClicks[q]
      BY <1>3, <1>6, <1>7
    <3> QED BY <3>1
  <2>3. BlockClicks' = [q \in Procs |-> BlockClicks'[q]]
    BY <1>7 DEF BlockClicks
  <2>4. BlockClicks = [q \in Procs |-> BlockClicks[q]]
    BY DEF BlockClicks
  <2> QED BY <2>1, <2>2, <2>3, <2>4
<1>10. FreeClicks' = (FreeClicks \ given) \cup BlockClicks[p]
  <2>1. \A c : c \in FreeClicks' <=> c \in (FreeClicks \ given) \cup BlockClicks[p]
    BY <1>2, <1>5, <1>6
  <2> QED BY <2>1
<1>11. Phys!Give(p, first, last)
  BY <1>8, <1>9, <1>10 DEF Phys!Give, FreeClicks, BlockClicks, given
<1> QED BY <1>8, <1>11 DEF Gives


(* The end of a process takes its block back. *)
LEMMA ExitRefines ==
  ASSUME Roomy, MemInv, MemInv', NEW p \in Procs, Exit(p) PROVE Phys!TakeBack(p)
<1>1. /\ \A c \in Int : In(table'.list, c) <=> In(table.list, c) \/ Has(p, c)
      /\ \A q \in Procs : InUse(q)' <=> InUse(q) /\ q # p
      /\ UNCHANGED mp_seg
  BY ExitMemory DEF Exit
<1>2. /\ \A c : c \in FreeClicks <=> c \in Int /\ In(table.list, c)
      /\ \A c : c \in FreeClicks' <=> c \in Int /\ In(table'.list, c)
  BY FreeIs DEF FreeClicks, MemInv, MemSound, Sound
<1>3. DOMAIN BlockClicks = Procs /\ \A c : c \in BlockClicks[p] <=> c \in Int /\ Has(p, c)
  BY BlockIs DEF MemInv
<1>4. FreeClicks' = FreeClicks \cup BlockClicks[p]
  <2>1. \A c : c \in FreeClicks' <=> c \in FreeClicks \cup BlockClicks[p]
    BY <1>1, <1>2, <1>3
  <2> QED BY <2>1
<1>5. BlockClicks' = [BlockClicks EXCEPT ![p] = {}]
  BY <1>1 DEF BlockClicks, Clicks, HoleEnd
<1> QED BY <1>4, <1>5 DEF Phys!TakeBack, FreeClicks, BlockClicks

LEMMA BlocksStay ==
  ASSUME UNCHANGED mp_seg, \A p \in Procs : InUse(p)' <=> InUse(p)
  PROVE  BlockClicks' = BlockClicks
BY DEF BlockClicks, Clicks, HoleEnd

LEMMA SwapOnRefines ==
  ASSUME Roomy, MemInv, MemInv', NEW size \in SwapSizes, SwapOn(size) PROVE Phys!Extend
<1>1. /\ \A c \in Int : In(table.list, c) => In(table'.list, c)
      /\ \A c \in Int : In(table'.list, c) => \A p \in Procs : ~ Has(p, c)
      /\ UNCHANGED <<mp_seg, mp_flags>>
  BY SwapOnMemory DEF SwapOn, procVars
<1>2. /\ \A c : c \in FreeClicks <=> c \in Int /\ In(table.list, c)
      /\ \A c : c \in FreeClicks' <=> c \in Int /\ In(table'.list, c)
  BY FreeIs DEF FreeClicks, MemInv, MemSound, Sound
<1>3. \A p \in Procs : \A c : c \in BlockClicks[p] <=> c \in Int /\ Has(p, c)
  BY BlockIs DEF MemInv
<1>4. BlockClicks' = BlockClicks
  BY <1>1, BlocksStay DEF InUse
<1>5. FreeClicks \subseteq FreeClicks'
  BY <1>1, <1>2
<1>6. \A p \in Procs : FreeClicks' \cap BlockClicks[p] = {}
  BY <1>1, <1>2, <1>3
<1> QED BY <1>4, <1>5, <1>6 DEF Phys!Extend, FreeClicks, BlockClicks

LEMMA SwapOffRefines ==
  ASSUME MemInv, MemInv', AllInMemory, table' = DropSwapHoles(table, swap_base),
         UNCHANGED <<mp_seg, mp_flags, worst_fit>>
  PROVE  Phys!Shrink
<1>1. /\ \A c \in Int : In(table'.list, c) => In(table.list, c)
      /\ \A c \in Int : In(table.list, c) /\ Loaded(c) => In(table'.list, c)
  BY SwapOffMemory
<1>2. /\ \A c : c \in FreeClicks <=> c \in Int /\ In(table.list, c)
      /\ \A c : c \in FreeClicks' <=> c \in Int /\ In(table'.list, c)
  BY FreeIs DEF FreeClicks, MemInv, MemSound, Sound
<1>3. BlockClicks' = BlockClicks
  BY BlocksStay DEF InUse
<1>4. FreeClicks' \subseteq FreeClicks
  BY <1>1, <1>2
<1>5. FreeClicks \cap ChunkClicks \subseteq FreeClicks'
  BY <1>1, <1>2, ChunksHold
<1> QED BY <1>3, <1>4, <1>5 DEF Phys!Shrink, FreeClicks, BlockClicks, ChunkClicks

LEMMA StepRefines ==
  ASSUME Roomy, NotBoth, MemInv, MemInv', [Next]_vars PROVE [Phys!Next]_(Phys!vars)
<1>1. ASSUME Gives PROVE Phys!Next
  BY <1>1, Zenon DEF Gives, Phys!Next, FreeClicks
<1>2. ASSUME UNCHANGED <<table, mp_seg>>, \A p \in Procs : InUse(p)' <=> InUse(p)
      PROVE  UNCHANGED Phys!vars
  <2>1. BlockClicks' = BlockClicks /\ FreeClicks' = FreeClicks
    BY <1>2, BlocksStay DEF FreeClicks
  <2> QED BY <2>1 DEF Phys!vars, FreeClicks, BlockClicks
<1>3. CASE Call /\ ~ table.panic
  <2>1. CASE \E p \in Procs : Exit(p)
    BY <2>1, ExitRefines DEF Phys!Next
  <2>2. CASE \E size \in SwapSizes : SwapOn(size)
    BY <2>2, SwapOnRefines DEF Phys!Next
  <2> QED BY <1>2, <1>3, <2>1, <2>2, CallMemory
<1>4. CASE Continue /\ ~ table.panic
  <2>1. CASE Grant \/ SwapInOne
    <3> DEFINE p == request.proc
               n == request.size
               k == Picked
    <3>1. pc = "alloc" /\ k # 0
      BY <2>1 DEF Grant, SwapInOne
    <3>2. MovedTo(p, k, n)
      <4>1. CASE Grant
        <5>1. "IN_USE" \in {"IN_USE"} /\ "ONSWAP" \notin {"IN_USE"}
          OBVIOUS
        <5> QED BY <4>1, <5>1, MoveToMemory DEF Grant
      <4>2. CASE SwapInOne
        <5> DEFINE f == mp_flags[request.proc] \ {"ONSWAP", "SWAPIN"}
        <5>1. "IN_USE" \in f /\ "ONSWAP" \notin f
          BY <4>2 DEF SwapInOne, MemInv, TypeInv, Served, InUse
        <5>2. mp_flags' = [mp_flags EXCEPT ![request.proc] = f]
          BY <4>2 DEF SwapInOne
        <5> HIDE DEF f
        <5> QED BY <4>2, <5>1, <5>2, MoveToMemory DEF SwapInOne
      <4> QED BY <2>1, <4>1, <4>2
    <3>3. /\ k \in 1..Len(table.list) /\ n <= table.list[k].len
          /\ p \in Procs /\ n \in Nat \ {0}
      BY <3>1, PickedIs DEF MemInv, TypeInv, Served, QueueInv, QueueTypes
    <3>4. TypeInv'
      BY DEF MemInv
    <3> HIDE DEF p, n, k
    <3>5. Gives
      BY <3>2, <3>3, <3>4, MoveRefines
    <3> QED BY <1>1, <3>5
  <2>2. CASE SwapOut
    <3> DEFINE p == Outgoing
               n == mp_seg[p].len
               k == SwapHole(table, swap_base, n)
    <3>1. p \in Procs /\ n \in Nat \ {0} /\ k # 0 /\ MovedTo(p, k, n)
      BY <2>2, SwapOutMemory
    <3>2. Counted(table) /\ swap_base \in Nat /\ TypeInv'
      BY SwapBase DEF MemInv, TypeInv, MemoryTypes
    <3> HIDE DEF n, p
    <3>3. k \in 1..Len(table.list) /\ n <= table.list[k].len
      BY <3>1, <3>2, SwapHoleIs
    <3> HIDE DEF k
    <3>4. Gives
      BY <3>1, <3>2, <3>3, MoveRefines
    <3> QED BY <1>1, <3>4
  <2>3. CASE AllInMemory /\ table' = DropSwapHoles(table, swap_base)
             /\ UNCHANGED <<mp_seg, mp_flags, worst_fit>>
    BY <2>3, SwapOffRefines DEF Phys!Next
  <2> QED BY <1>2, <1>4, <2>1, <2>2, <2>3, ContinueMemory
<1>5. CASE UNCHANGED vars
  BY <1>2, <1>5 DEF vars, procVars, InUse
<1> QED BY <1>3, <1>4, <1>5 DEF Next

(* alloc.c implements PhysMem: each of its steps gives a block that was    *)
(* free, takes one back, adds or removes swap space that nobody has, or    *)
(* leaves the clicks where they are.                                       *)
THEOREM AllocImplements ==
  ASSUME Roomy, NotBoth PROVE Spec => ImplementsPhysMem
<1>1. Init => Phys!Init
  BY InitRefines
<1>2. MemInv /\ MemInv' /\ [Next]_vars => [Phys!Next]_(Phys!vars)
  BY StepRefines
<1> QED BY <1>1, <1>2, MemAlways, PTL DEF Spec, ImplementsPhysMem, Phys!Spec


(* Memory is never lost nor given out twice: whatever was asked of MM, no  *)
(* click is in the table and in a block, or in two blocks, and every click *)
(* the kernel loaded is in one of them.                                    *)
THEOREM MemoryAccounted ==
  ASSUME Roomy, NotBoth PROVE Spec => []Phys!Accounted
<1>1. MemInv => Phys!Accounted
  <2> SUFFICES ASSUME MemInv PROVE Phys!Accounted
    OBVIOUS
  <2>1. PICK z : Accounts(z)
    BY DEF MemInv, MemSound
  <2>2. \A c : c \in FreeClicks <=> c \in Int /\ In(table.list, c)
    BY FreeIs DEF FreeClicks, MemInv, MemSound, Sound
  <2>3. \A p \in Procs : \A c : c \in BlockClicks[p] <=> c \in Int /\ Has(p, c)
    BY BlockIs DEF MemInv
  <2>4. \A p \in Procs : FreeClicks \cap BlockClicks[p] = {}
    BY <2>1, <2>2, <2>3 DEF Accounts
  <2>5. \A p, q \in Procs : p # q => BlockClicks[p] \cap BlockClicks[q] = {}
    BY <2>1, <2>3 DEF Accounts
  <2>6. \A c \in ChunkClicks : c \in FreeClicks \/ \E p \in Procs : c \in BlockClicks[p]
    BY <2>1, <2>2, <2>3, ChunksHold DEF Accounts
  <2>7. ChunkClicks \subseteq FreeClicks \cup UNION {BlockClicks[p] : p \in Procs}
    BY <2>6
  <2> QED BY <2>4, <2>5, <2>7 DEF Phys!Accounted, FreeClicks, BlockClicks, ChunkClicks
<1> QED BY <1>1, MemAlways, PTL
==============================================================================
