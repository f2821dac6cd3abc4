----------------------------- MODULE SchedProofs -----------------------------
(***************************************************************************)
(* Theorems about Sched, on its own and under the test programs, for any   *)
(* processes, any period and any number of calls.                          *)
(***************************************************************************)
EXTENDS SchedUsers, TLAPS, SequenceTheorems, FiniteSetTheorems

(* A step as the scheduler sees it, whoever makes it. *)
Stays == UNCHANGED <<rdy_head, rdy_tail, p_nextready, p_first, p_ticks, p_group,
                     PROC_TIME, state, held>>
SchedStep ==
  \/ sched
  \/ \E parent, p \in Procs, PID \in 0..1 : Fork(parent, p, PID)
  \/ \E p \in Procs, x \in Proportions : set_scheduler(p, x)
  \/ \E p \in Procs : change_group(p) \/ ready(p) \/ unready(p)
  \/ Stays

Typed ==
  /\ rdy_head \in Procs \cup {NIL_PROC} /\ rdy_tail \in Procs \cup {NIL_PROC}
  /\ p_nextready \in [Procs -> Procs \cup {NIL_PROC}]
  /\ p_first \in [Procs -> {0, 1}] /\ p_ticks \in [Procs -> Int]
  /\ p_group \in [Procs -> {GROUP_A, GROUP_B}]
  /\ PROC_TIME \in [{GROUP_A, GROUP_B} -> Int]
  /\ state \in [Procs -> {"unused", "blocked", "ready"}]
  /\ held \in Nat

(* The links of the ready processes: they lead to ready processes, never   *)
(* to the head, and no two of them to the same one.  A process that is not *)
(* ready may keep any link, and fork copies it.                            *)
LinksReady ==
  \A q \in Ready : p_nextready[q] = NIL_PROC \/ p_nextready[q] \in Ready
LinksApart ==
  \A q, r \in Ready : p_nextready[q] = p_nextready[r] /\ p_nextready[q] # NIL_PROC => q = r
HeadUnlinked ==
  rdy_head # NIL_PROC => \A q \in Ready : p_nextready[q] # rdy_head
EndsReady ==
  rdy_head # NIL_PROC =>
    rdy_head \in Ready /\ rdy_tail \in Ready /\ p_nextready[rdy_tail] = NIL_PROC

Lists == Typed /\ LinksReady /\ LinksApart /\ HeadUnlinked /\ EndsReady

LEMMA ListInit == Init => Lists
<1> SUFFICES ASSUME Init PROVE Lists
  OBVIOUS
<1>1. PROC_TIME \in [{GROUP_A, GROUP_B} -> Int]
  BY SchedAssumption DEF Init, Quanta
<1>2. Typed
  BY <1>1 DEF Init, Typed, GROUP_A, GROUP_B
<1>3. Ready = {} /\ rdy_head = NIL_PROC
  BY DEF Init, Ready
<1> QED BY <1>2, <1>3 DEF Lists, LinksReady, LinksApart, HeadUnlinked, EndsReady

(* A rotation of a list of any length, one included. *)
LEMMA RotateLists ==
  ASSUME Lists, rdy_head # NIL_PROC, Rotate, Ready' = Ready
  PROVE  /\ rdy_head' \in Procs \cup {NIL_PROC} /\ rdy_tail' \in Procs
         /\ p_nextready' \in [Procs -> Procs \cup {NIL_PROC}]
         /\ LinksReady' /\ LinksApart' /\ HeadUnlinked' /\ EndsReady'
<1> DEFINE h == rdy_head
           t == rdy_tail
           nx == p_nextready
<1>1. /\ h \in Ready /\ t \in Ready /\ h \in Procs /\ t \in Procs /\ nx[t] = NIL_PROC
      /\ nx \in [Procs -> Procs \cup {NIL_PROC}] /\ Ready \subseteq Procs
      /\ NIL_PROC \notin Procs
  BY SchedAssumption DEF Lists, Typed, EndsReady, Ready
<1>2. /\ \A q \in Ready : nx[q] = NIL_PROC \/ nx[q] \in Ready
      /\ \A q, r \in Ready : nx[q] = nx[r] /\ nx[q] # NIL_PROC => q = r
      /\ \A q \in Ready : nx[q] # h
  BY DEF Lists, LinksReady, LinksApart, HeadUnlinked
<1>3. /\ rdy_tail' = h
      /\ p_nextready' \in [Procs -> Procs \cup {NIL_PROC}]
      /\ rdy_head' = IF t = h THEN h ELSE nx[h]
      /\ p_nextready'[h] = NIL_PROC
      /\ t # h => p_nextready'[t] = h
      /\ \A q \in Procs : q # h /\ q # t => p_nextready'[q] = nx[q]
  BY <1>1 DEF Rotate
<1> HIDE DEF h, t, nx
<1>4. LinksReady'
  BY <1>1, <1>2, <1>3 DEF LinksReady
<1>5. LinksApart'
  BY <1>1, <1>2, <1>3 DEF LinksApart
<1>6. HeadUnlinked'
  BY <1>1, <1>2, <1>3 DEF HeadUnlinked
<1>7. EndsReady'
  BY <1>1, <1>2, <1>3 DEF EndsReady
<1> QED BY <1>1, <1>3, <1>4, <1>5, <1>6, <1>7

LEMMA SchedLists == ASSUME Lists, sched PROVE Lists'
<1>1. rdy_head # NIL_PROC /\ rdy_head \in Procs /\ state' = state /\ Ready' = Ready
  BY DEF sched, Lists, Typed, Ready
<1>2. /\ p_first' \in [Procs -> {0, 1}] /\ p_ticks' \in [Procs -> Int] /\ held' \in Nat
      /\ p_group' = p_group /\ PROC_TIME' = PROC_TIME
  <2>1. p_group' = p_group /\ PROC_TIME' = PROC_TIME
    BY DEF sched
  <2>2. PROC_TIME[p_group[rdy_head]] \in Int
    BY <1>1 DEF Lists, Typed
  <2>3. CASE SchedFirst
    BY <1>1, <2>1, <2>3 DEF SchedFirst, Lists, Typed
  <2>4. CASE SchedSpent
    BY <1>1, <2>1, <2>2, <2>4 DEF SchedSpent, Lists, Typed
  <2>5. CASE SchedTick
    BY <1>1, <2>1, <2>5 DEF SchedTick, Lists, Typed
  <2> QED BY <2>3, <2>4, <2>5 DEF sched
<1>3. CASE Rotate
  BY <1>1, <1>2, <1>3, RotateLists DEF Lists, Typed
<1>4. CASE UNCHANGED listVars
  BY <1>1, <1>2, <1>4
     DEF listVars, Lists, Typed, LinksReady, LinksApart, HeadUnlinked, EndsReady
<1> QED BY <1>3, <1>4 DEF sched, SchedFirst, SchedSpent, SchedTick

(* What the proofs below use of the invariant, in the terms of the code.   *)
LEMMA ListFacts ==
  ASSUME Lists
  PROVE  /\ NIL_PROC \notin Procs /\ Ready \subseteq Procs
         /\ p_nextready \in [Procs -> Procs \cup {NIL_PROC}]
         /\ rdy_head \in Procs \cup {NIL_PROC} /\ rdy_tail \in Procs \cup {NIL_PROC}
         /\ \A q \in Ready : p_nextready[q] = NIL_PROC \/ p_nextready[q] \in Ready
         /\ \A q, r \in Ready :
              p_nextready[q] = p_nextready[r] /\ p_nextready[q] # NIL_PROC => q = r
         /\ rdy_head # NIL_PROC =>
              /\ \A q \in Ready : p_nextready[q] # rdy_head
              /\ rdy_head \in Ready /\ rdy_tail \in Ready /\ p_nextready[rdy_tail] = NIL_PROC
  BY SchedAssumption DEF Lists, Typed, LinksReady, LinksApart, HeadUnlinked, EndsReady, Ready

LEMMA ForkLists ==
  ASSUME Lists, NEW parent \in Procs, NEW p \in Procs, NEW PID \in 0..1, Fork(parent, p, PID)
  PROVE  Lists'
<1>1. p \notin Ready /\ Ready' = Ready
  BY DEF Fork, Lists, Typed, Ready
<1>2. /\ \A q \in Ready : p_nextready'[q] = p_nextready[q]
      /\ rdy_head' = rdy_head /\ rdy_tail' = rdy_tail
  BY <1>1, ListFacts DEF Fork
<1>3. Typed'
  <2> DEFINE group == IF PID % 2 = 0 THEN GROUP_A ELSE GROUP_B
  <2>1. group \in {GROUP_A, GROUP_B}
    OBVIOUS
  <2>2. /\ p_group' = [p_group EXCEPT ![p] = group]
        /\ p_ticks' = [p_ticks EXCEPT ![p] = PROC_TIME[group]]
    BY DEF Fork
  <2> HIDE DEF group
  <2>3. p_group' \in [Procs -> {GROUP_A, GROUP_B}] /\ p_ticks' \in [Procs -> Int]
    BY <2>1, <2>2 DEF Lists, Typed
  <2>4. /\ p_first' \in [Procs -> {0, 1}]
        /\ state' \in [Procs -> {"unused", "blocked", "ready"}]
        /\ p_nextready' \in [Procs -> Procs \cup {NIL_PROC}]
    BY DEF Fork, Lists, Typed
  <2> QED BY <2>3, <2>4 DEF Fork, Lists, Typed
<1>4. LinksReady' /\ LinksApart' /\ HeadUnlinked' /\ EndsReady'
  BY <1>1, <1>2, ListFacts DEF LinksReady, LinksApart, HeadUnlinked, EndsReady
<1> QED BY <1>3, <1>4 DEF Lists

LEMMA ReadyLists == ASSUME Lists, NEW p \in Procs, ready(p) PROVE Lists'
<1>1. p \notin Ready /\ Ready' = Ready \cup {p}
  BY DEF ready, Lists, Typed, Ready
<1>2. Typed'
  <2>1. /\ state' \in [Procs -> {"unused", "blocked", "ready"}] /\ held' \in Nat
        /\ rdy_head' \in Procs \cup {NIL_PROC} /\ rdy_tail' \in Procs \cup {NIL_PROC}
        /\ p_nextready' \in [Procs -> Procs \cup {NIL_PROC}]
    BY DEF ready, Lists, Typed
  <2> QED BY <2>1 DEF ready, procVars, Lists, Typed
<1>3. CASE rdy_head = NIL_PROC
  <2>1. /\ rdy_head' = p /\ rdy_tail' = p /\ p_nextready'[p] = NIL_PROC
        /\ \A q \in Ready : p_nextready'[q] = p_nextready[q]
    BY <1>1, <1>3, ListFacts DEF ready
  <2>2. \A q \in Ready : p_nextready[q] # p
    BY <1>1, ListFacts
  <2> QED BY <1>1, <1>2, <2>1, <2>2, ListFacts
          DEF Lists, LinksReady, LinksApart, HeadUnlinked, EndsReady
<1>4. CASE rdy_head # NIL_PROC /\ rdy_head' = p
  <2>1. /\ rdy_tail' = rdy_tail /\ p_nextready'[p] = rdy_head
        /\ \A q \in Ready : p_nextready'[q] = p_nextready[q]
    BY <1>1, <1>4, ListFacts DEF ready
  <2>2. \A q \in Ready : p_nextready[q] # p
    BY <1>1, ListFacts
  <2> QED BY <1>1, <1>2, <1>4, <2>1, <2>2, ListFacts
          DEF Lists, LinksReady, LinksApart, HeadUnlinked, EndsReady
<1>5. CASE rdy_head # NIL_PROC /\ rdy_head' = rdy_head
  <2>1. /\ rdy_tail' = p /\ p_nextready'[rdy_tail] = p /\ p_nextready'[p] = NIL_PROC
        /\ \A q \in Ready : q # rdy_tail => p_nextready'[q] = p_nextready[q]
    BY <1>1, <1>5, ListFacts DEF ready
  <2>2. \A q \in Ready : p_nextready[q] # p
    BY <1>1, ListFacts
  <2> QED BY <1>1, <1>2, <1>5, <2>1, <2>2, ListFacts
          DEF Lists, LinksReady, LinksApart, HeadUnlinked, EndsReady
<1> QED BY <1>3, <1>4, <1>5 DEF ready

LEMMA UnreadyLists == ASSUME Lists, NEW p \in Procs, unready(p) PROVE Lists'
<1>1. p \in Ready /\ Ready' = Ready \ {p}
  BY DEF unready, Lists, Typed, Ready
<1>2. Typed'
  <2>1. /\ state' \in [Procs -> {"unused", "blocked", "ready"}] /\ held' \in Nat
        /\ rdy_head' \in Procs \cup {NIL_PROC} /\ rdy_tail' \in Procs \cup {NIL_PROC}
        /\ p_nextready' \in [Procs -> Procs \cup {NIL_PROC}]
    BY DEF unready, Lists, Typed
  <2> QED BY <2>1 DEF unready, procVars, Lists, Typed
<1>3. CASE rdy_head = p
  <2>1. rdy_head' = p_nextready[p] /\ rdy_tail' = rdy_tail /\ p_nextready' = p_nextready
    BY <1>3 DEF unready
  <2> QED BY <1>1, <1>2, <1>3, <2>1, ListFacts
          DEF Lists, LinksReady, LinksApart, HeadUnlinked, EndsReady
<1>4. CASE rdy_head # p
  <2>1. PICK q \in Ready :
          /\ p_nextready[q] = p
          /\ p_nextready' = [p_nextready EXCEPT ![q] = p_nextready[p]]
          /\ rdy_tail' = IF rdy_tail = p THEN q ELSE rdy_tail
    BY <1>4 DEF unready, Ready
  <2>2. /\ rdy_head' = rdy_head /\ p_nextready'[q] = p_nextready[p]
        /\ \A r \in Ready : r # q => p_nextready'[r] = p_nextready[r]
    BY <1>4, <2>1, ListFacts DEF unready
  <2>3. LinksReady' /\ LinksApart'
    BY <1>1, <2>1, <2>2, ListFacts DEF LinksReady, LinksApart
  <2>4. HeadUnlinked' /\ EndsReady'
    BY <1>1, <1>4, <2>1, <2>2, ListFacts DEF HeadUnlinked, EndsReady
  <2> QED BY <1>2, <2>3, <2>4 DEF Lists
<1> QED BY <1>3, <1>4

LEMMA ListStep == Lists /\ SchedStep => Lists'
<1> SUFFICES ASSUME Lists, SchedStep PROVE Lists'
  OBVIOUS
<1>1. ASSUME NEW p \in Procs, NEW x \in Proportions, set_scheduler(p, x) PROVE Lists'
  <2>1. PROC_TIME' \in [{GROUP_A, GROUP_B} -> Int]
    BY <1>1, SchedAssumption DEF set_scheduler, Quanta
  <2> QED BY <1>1, <2>1 DEF set_scheduler, listVars, procVars, Lists, Typed, LinksReady,
                           LinksApart, HeadUnlinked, EndsReady, Ready
<1>2. ASSUME NEW p \in Procs, change_group(p) PROVE Lists'
  <2>1. p_group' \in [Procs -> {GROUP_A, GROUP_B}]
    BY <1>2 DEF change_group, Lists, Typed
  <2> QED BY <1>2, <2>1 DEF change_group, listVars, Lists, Typed, LinksReady,
                           LinksApart, HeadUnlinked, EndsReady, Ready
<1>3. ASSUME Stays PROVE Lists'
  BY <1>3 DEF Stays, Lists, Typed, LinksReady, LinksApart, HeadUnlinked, EndsReady, Ready
<1> QED BY <1>1, <1>2, <1>3, SchedLists, ForkLists, ReadyLists, UnreadyLists DEF SchedStep
------------------------------------------------------------------------------
(* Proportions that leave both groups something. *)
Proper == FULL >= 2 /\ Proportions \subseteq 1..FULL - 1

(* Every quantum is shorter than the period, also what is left of one      *)
(* after its process has changed groups; and the head has held the         *)
(* processor for no longer than what is left of its quantum allows.        *)
ShortQuanta == \A g \in {GROUP_A, GROUP_B} : PROC_TIME[g] \in 1..FULL - 1
ShortTicks == \A p \in Procs : state[p] # "unused" => p_ticks[p] \in 1..FULL - 1
HeldShort ==
  held < FULL /\ (rdy_head # NIL_PROC => held + p_ticks[rdy_head] < FULL)

QuantaInv == ShortQuanta /\ ShortTicks /\ HeldShort

LEMMA QuantaInit == ASSUME Proper PROVE Init => QuantaInv
<1> SUFFICES ASSUME Init PROVE QuantaInv
  OBVIOUS
<1>1. FULL \in Nat /\ FULL >= 2
  BY SchedAssumption DEF Proper
<1>2. FULL \div 2 \in 1..FULL - 1 /\ FULL - (FULL \div 2) \in 1..FULL - 1
  BY <1>1
<1>3. ShortQuanta
  BY <1>2 DEF Init, Quanta, ShortQuanta, GROUP_A, GROUP_B
<1>4. ShortTicks /\ HeldShort
  BY <1>1 DEF Init, ShortTicks, HeldShort
<1> QED BY <1>3, <1>4 DEF QuantaInv

LEMMA QuantaStep == ASSUME Proper PROVE Lists /\ QuantaInv /\ SchedStep => QuantaInv'
<1> SUFFICES ASSUME Lists, QuantaInv, SchedStep PROVE QuantaInv'
  OBVIOUS
<1>1. FULL \in Nat /\ FULL >= 2 /\ Proportions \subseteq 1..FULL - 1
  BY SchedAssumption DEF Proper
<1>2. /\ NIL_PROC \notin Procs /\ rdy_head \in Procs \cup {NIL_PROC} /\ held \in Nat
      /\ p_ticks \in [Procs -> Int] /\ p_group \in [Procs -> {GROUP_A, GROUP_B}]
      /\ state \in [Procs -> {"unused", "blocked", "ready"}]
      /\ rdy_head # NIL_PROC => state[rdy_head] = "ready"
      /\ rdy_head' \in Procs \cup {NIL_PROC}
      /\ rdy_head' # NIL_PROC => state'[rdy_head'] = "ready"
  <2>1. Lists'
    BY ListStep
  <2> QED BY <2>1, SchedAssumption DEF Lists, Typed, EndsReady, Ready
<1>3. /\ \A g \in {GROUP_A, GROUP_B} : PROC_TIME[g] \in 1..FULL - 1
      /\ \A p \in Procs : state[p] # "unused" => p_ticks[p] \in 1..FULL - 1
      /\ held < FULL /\ (rdy_head # NIL_PROC => held + p_ticks[rdy_head] < FULL)
  BY DEF QuantaInv, ShortQuanta, ShortTicks, HeldShort
<1>4. ASSUME sched PROVE QuantaInv'
  <2>1. /\ rdy_head \in Procs /\ rdy_head # NIL_PROC /\ state[rdy_head] = "ready"
        /\ p_ticks[rdy_head] \in 1..FULL - 1
        /\ PROC_TIME' = PROC_TIME /\ state' = state
    BY <1>2, <1>3, <1>4 DEF sched
  <2>2. CASE SchedFirst
    <3>1. p_ticks' = p_ticks /\ held' = 0
      BY <2>2 DEF SchedFirst
    <3> QED BY <1>1, <1>2, <1>3, <2>1, <3>1 DEF QuantaInv, ShortQuanta, ShortTicks, HeldShort
  <2>3. CASE SchedSpent
    <3>1. held' = 0 /\ \A p \in Procs : state[p] # "unused" => p_ticks'[p] \in 1..FULL - 1
      BY <1>2, <1>3, <2>1, <2>3 DEF SchedSpent
    <3> QED BY <1>1, <1>2, <1>3, <2>1, <3>1 DEF QuantaInv, ShortQuanta, ShortTicks, HeldShort
  <2>4. CASE SchedTick
    <3>1. /\ held' = held + 1 /\ rdy_head' = rdy_head
          /\ p_ticks'[rdy_head] = p_ticks[rdy_head] - 1
          /\ p_ticks[rdy_head] - 1 # 0
          /\ \A p \in Procs : p # rdy_head => p_ticks'[p] = p_ticks[p]
      BY <1>2, <2>1, <2>4 DEF SchedTick, listVars
    <3>2. ShortTicks'
      BY <1>1, <1>2, <1>3, <2>1, <3>1 DEF ShortTicks
    <3>3. HeldShort'
      BY <1>1, <1>2, <1>3, <2>1, <3>1 DEF HeldShort
    <3> QED BY <1>3, <2>1, <3>2, <3>3 DEF QuantaInv, ShortQuanta
  <2> QED BY <1>4, <2>2, <2>3, <2>4 DEF sched
<1>5. ASSUME NEW parent \in Procs, NEW p \in Procs, NEW PID \in 0..1, Fork(parent, p, PID)
      PROVE  QuantaInv'
  <2> DEFINE group == IF PID % 2 = 0 THEN GROUP_A ELSE GROUP_B
  <2>1. /\ state[p] = "unused" /\ rdy_head' = rdy_head /\ held' = held /\ PROC_TIME' = PROC_TIME
        /\ p_ticks' = [p_ticks EXCEPT ![p] = PROC_TIME[group]]
        /\ state' = [state EXCEPT ![p] = "blocked"]
        /\ group \in {GROUP_A, GROUP_B}
    BY <1>5 DEF Fork
  <2> HIDE DEF group
  <2>2. /\ p_ticks'[p] \in 1..FULL - 1 /\ p # rdy_head
        /\ \A q \in Procs : q # p => p_ticks'[q] = p_ticks[q] /\ state'[q] = state[q]
    BY <1>2, <1>3, <2>1
  <2> QED BY <1>2, <1>3, <2>1, <2>2 DEF QuantaInv, ShortQuanta, ShortTicks, HeldShort
<1>6. ASSUME NEW p \in Procs, NEW x \in Proportions, set_scheduler(p, x) PROVE QuantaInv'
  <2>1. /\ PROC_TIME' = Quanta(x) /\ rdy_head' = rdy_head /\ held' = held
        /\ p_ticks' = p_ticks /\ state' = state
    BY <1>6 DEF set_scheduler, listVars, procVars
  <2>2. x \in 1..FULL - 1 /\ FULL - x \in 1..FULL - 1
    BY <1>1
  <2>3. ShortQuanta'
    BY <2>1, <2>2 DEF ShortQuanta, Quanta, GROUP_A, GROUP_B
  <2> QED BY <1>3, <2>1, <2>3 DEF QuantaInv, ShortTicks, HeldShort
<1>7. ASSUME NEW p \in Procs, change_group(p) PROVE QuantaInv'
  BY <1>3, <1>7 DEF change_group, listVars, QuantaInv, ShortQuanta, ShortTicks, HeldShort
<1>8. ASSUME NEW p \in Procs, ready(p) PROVE QuantaInv'
  <2>1. /\ PROC_TIME' = PROC_TIME /\ p_ticks' = p_ticks
        /\ \A q \in Procs : state'[q] # "unused" => state[q] # "unused"
        /\ held' = 0 \/ (held' = held /\ rdy_head' = rdy_head)
    BY <1>2, <1>8 DEF ready, procVars
  <2> QED BY <1>1, <1>2, <1>3, <2>1 DEF QuantaInv, ShortQuanta, ShortTicks, HeldShort
<1>9. ASSUME NEW p \in Procs, unready(p) PROVE QuantaInv'
  <2>1. /\ PROC_TIME' = PROC_TIME /\ p_ticks' = p_ticks
        /\ \A q \in Procs : state'[q] # "unused" => state[q] # "unused"
        /\ held' = 0 \/ (held' = held /\ rdy_head' = rdy_head)
    BY <1>2, <1>9 DEF unready, procVars
  <2> QED BY <1>1, <1>2, <1>3, <2>1 DEF QuantaInv, ShortQuanta, ShortTicks, HeldShort
<1>10. ASSUME Stays PROVE QuantaInv'
  BY <1>3, <1>10 DEF Stays, QuantaInv, ShortQuanta, ShortTicks, HeldShort
<1> QED BY <1>4, <1>5, <1>6, <1>7, <1>8, <1>9, <1>10 DEF SchedStep
------------------------------------------------------------------------------
LEMMA CallsAreSteps == [Next]_vars => SchedStep
  BY DEF Next, Call, SchedStep, Stays, vars

(* No process keeps the processor for a whole period, whatever forks,      *)
(* changes of group and of the proportion come in between, as long as each *)
(* proportion leaves both groups something (zmiany_proc.c:7-36).           *)
THEOREM HoldIsBounded == ASSUME Proper PROVE Spec => []HoldBounded
<1>1. Init => Lists /\ QuantaInv
  BY ListInit, QuantaInit
<1>2. (Lists /\ QuantaInv) /\ [Next]_vars => (Lists /\ QuantaInv)'
  BY CallsAreSteps, ListStep, QuantaStep
<1>3. QuantaInv => HoldBounded
  BY DEF QuantaInv, HeldShort, HoldBounded
<1> QED BY <1>1, <1>2, <1>3, PTL DEF Spec
------------------------------------------------------------------------------
(* test_grupa: from its first attempt to its last it is a live process     *)
(* with the proportion it was given, in group B when it was refused and in *)
(* group A after its change, because nobody else changes its group.        *)
Asking == {"set", "change", "again", "BLAD"}
Asks(p) ==
  /\ at[p] \in Asking =>
       prog[p] = "test_grupa" /\ state[p] # "unused" /\ left[p] \in Proportions
  /\ at[p] = "change" => p_group[p] = GROUP_B
  /\ at[p] = "again" => p_group[p] = GROUP_A
  /\ at[p] # "BLAD"
UsersTyped ==
  /\ prog \in [Procs -> {"other", "test_grupa", "procesy", "child"}]
  /\ at \in [Procs -> {"any", "set", "change", "again", "BLAD", "fork", "wait", "new",
                       "compute", "zombie", "killed", "end"}]
  /\ left \in [Procs -> Int]
UsersInv == UsersTyped /\ \A p \in Procs : Asks(p)

LEMMA UsersInitInv == UsersInit => Lists /\ UsersInv
<1> SUFFICES ASSUME UsersInit PROVE Lists /\ UsersInv
  OBVIOUS
<1>1. UsersTyped /\ \A p \in Procs : at[p] = "any"
  BY DEF UsersInit, UsersTyped
<1> QED BY <1>1, ListInit DEF UsersInit, UsersInv, Asks, Asking

LEMMA UsersAreSteps == UsersInv /\ [UsersNext]_allVars => SchedStep
<1> SUFFICES ASSUME UsersInv, [UsersNext]_allVars PROVE SchedStep
  OBVIOUS
<1>1. ASSUME Tick PROVE SchedStep
  BY <1>1 DEF Tick, SchedStep
<1>2. ASSUME NEW p \in Procs, Start(p) PROVE SchedStep
  BY <1>2 DEF Start, Exec, SchedStep, Stays, listVars, procVars
<1>3. ASSUME NEW p \in Procs, SetProportion(p) PROVE SchedStep
  <2>1. left[p] \in Proportions
    BY <1>3 DEF SetProportion, UsersInv, Asks, Asking
  <2> QED BY <1>3, <2>1 DEF SetProportion, SchedStep, Stays, listVars, procVars
<1>4. ASSUME NEW p \in Procs, ChangeAndRetry(p) \/ ExitChild(p) \/ KillChild(p) \/ Wait(p) \/ End(p)
      PROVE  SchedStep
  BY <1>4 DEF ChangeAndRetry, ExitChild, KillChild, Wait, End, SchedStep
<1>5. ASSUME NEW p \in Procs, NEW c \in Procs, ForkChild(p, c) PROVE SchedStep
  BY <1>5 DEF ForkChild, SchedStep
<1>6. ASSUME NEW p \in Procs, ForkFails(p) \/ Collect(p) PROVE SchedStep
  BY <1>6 DEF ForkFails, Collect, vars, SchedStep, Stays
<1>7. ASSUME NEW p \in Procs, MM(p) PROVE SchedStep
  BY <1>7 DEF MM, ReadyChild, WakeParent, SchedStep
<1>8. ASSUME NEW p \in Procs, Others(p) PROVE SchedStep
  BY <1>8 DEF Others, Call, SchedStep
<1>9. ASSUME UNCHANGED allVars PROVE SchedStep
  BY <1>9 DEF allVars, vars, SchedStep, Stays
<1> QED BY <1>1, <1>2, <1>3, <1>4, <1>5, <1>6, <1>7, <1>8, <1>9 DEF UsersNext, Program

(* A step of p, perhaps together with a process c that asks for nothing,   *)
(* keeps what is known of the others.                                      *)
LEMMA OthersKept ==
  ASSUME UsersInv, NEW p \in Procs, NEW c \in Procs,
         at[c] \notin Asking, at'[c] \notin Asking,
         \A q \in Procs : q # p /\ q # c =>
           /\ prog'[q] = prog[q] /\ at'[q] = at[q] /\ left'[q] = left[q]
           /\ (state[q] # "unused" => state'[q] # "unused") /\ p_group'[q] = p_group[q],
         UsersTyped',
         p # c => Asks(p)'
  PROVE  UsersInv'
<1>1. ASSUME NEW q \in Procs PROVE Asks(q)'
  <2>1. CASE q = c
    BY <2>1 DEF Asks, Asking
  <2>2. CASE q = p /\ p # c
    BY <2>2
  <2>3. CASE q # p /\ q # c
    BY <2>3 DEF UsersInv, Asks, Asking
  <2> QED BY <2>1, <2>2, <2>3
<1> QED BY <1>1 DEF UsersInv

(* So does a step after which each process asks for nothing or is as it    *)
(* was.                                                                    *)
LEMMA AskersKept ==
  ASSUME UsersInv, UsersTyped',
         \A q \in Procs :
           \/ at'[q] \notin Asking
           \/ /\ prog'[q] = prog[q] /\ at'[q] = at[q] /\ left'[q] = left[q]
              /\ state'[q] = state[q] /\ p_group'[q] = p_group[q]
  PROVE  UsersInv'
<1>1. ASSUME NEW q \in Procs PROVE Asks(q)'
  BY <1>1 DEF UsersInv, Asks, Asking
<1> QED BY <1>1 DEF UsersInv

(* Collecting a child moves it and the process that collects, nobody else. *)
LEMMA CollectedMoves ==
  ASSUME UsersInv, NEW p \in Procs, prog[p] = "procesy", \E c \in Zombies : Collected(p, c)
  PROVE  /\ UsersTyped'
         /\ at'[p] \in {"fork", "end"}
         /\ \A q \in Procs : q # p =>
              \/ at'[q] = "any"
              \/ prog'[q] = prog[q] /\ at'[q] = at[q] /\ left'[q] = left[q]
<1>1. PICK c \in Procs : prog[c] = "child" /\ Collected(p, c)
  BY DEF Zombies, Children
<1>2. PICK place \in {"fork", "end"} :
        /\ prog' = [prog EXCEPT ![c] = "other"]
        /\ at' = [at EXCEPT ![c] = "any", ![p] = place]
        /\ left' = [left EXCEPT ![c] = 0]
  BY <1>1 DEF Collected
<1> QED BY <1>1, <1>2 DEF UsersInv, UsersTyped

(* The end of procesy moves it and the children it leaves to init.         *)
LEMMA EndMoves ==
  ASSUME UsersInv, NEW p \in Procs, End(p)
  PROVE  /\ UsersTyped' /\ at'[p] = "any"
         /\ \A q \in Procs :
              \/ at'[q] = "any"
              \/ prog'[q] = prog[q] /\ at'[q] = at[q] /\ left'[q] = left[q]
<1> DEFINE gone == {p} \cup Zombies
<1>1. /\ prog' = [q \in Procs |-> IF q \in gone THEN "other" ELSE prog[q]]
      /\ at' = [q \in Procs |-> IF q \in gone THEN "any" ELSE at[q]]
      /\ left' = [q \in Procs |-> IF q \in gone THEN 0 ELSE left[q]]
  BY DEF End
<1> QED BY <1>1 DEF UsersInv, UsersTyped

(* Calls of a process that asks for nothing touch nobody else. *)
LEMMA CallsAreOwn ==
  ASSUME Lists, NEW p \in Procs,
         \/ \E parent \in Procs, PID \in 0..1 : Fork(parent, p, PID)
         \/ \E x \in Proportions : set_scheduler(p, x)
         \/ change_group(p) \/ ready(p) \/ unready(p)
  PROVE  \A q \in Procs : q # p => state'[q] = state[q] /\ p_group'[q] = p_group[q]
<1>1. /\ p_group \in [Procs -> {GROUP_A, GROUP_B}]
      /\ state \in [Procs -> {"unused", "blocked", "ready"}]
  BY DEF Lists, Typed
<1> QED BY <1>1 DEF Fork, set_scheduler, change_group, ready, unready, procVars

LEMMA AskingStep ==
  ASSUME Lists, UsersInv, NEW p \in Procs, SetProportion(p) \/ ChangeAndRetry(p)
  PROVE  UsersInv'
<1>1. /\ p_group \in [Procs -> {GROUP_A, GROUP_B}]
      /\ state \in [Procs -> {"unused", "blocked", "ready"}]
  BY DEF Lists, Typed
<1>2. UsersTyped /\ Asks(p) /\ \A q \in Procs : Asks(q)
  BY DEF UsersInv
<1>3. CASE SetProportion(p)
  <2>1. /\ p_group' = p_group /\ state' = state
        /\ \A q \in Procs : q # p =>
             prog'[q] = prog[q] /\ at'[q] = at[q] /\ left'[q] = left[q]
    BY <1>2, <1>3 DEF SetProportion, set_scheduler, procVars, Leave, Goto, UsersTyped
  <2>2. \/ at'[p] = "any"
        \/ /\ at'[p] = "change" /\ prog'[p] = prog[p] /\ left'[p] = left[p]
           /\ p_group[p] # GROUP_A /\ at[p] = "set"
    BY <1>2, <1>3 DEF SetProportion, Leave, Goto, UsersTyped, Asks
  <2>3. UsersTyped'
    BY <1>2, <1>3, <2>1 DEF SetProportion, Leave, Goto, UsersTyped
  <2>4. Asks(p)'
    BY <1>1, <1>2, <2>1, <2>2 DEF Asks, Asking
  <2>5. ASSUME NEW q \in Procs, q # p PROVE Asks(q)'
    BY <1>2, <2>1, <2>5 DEF Asks
  <2> QED BY <2>3, <2>4, <2>5 DEF UsersInv
<1>4. CASE ChangeAndRetry(p)
  <2>1. /\ left' = left /\ state' = state /\ prog' = prog
        /\ at[p] = "change" /\ at'[p] = "again"
        /\ \A q \in Procs : q # p => at'[q] = at[q] /\ p_group'[q] = p_group[q]
    BY <1>1, <1>2, <1>4 DEF ChangeAndRetry, Runs, change_group, Goto, UsersTyped
  <2>2. p_group'[p] = GROUP_A
    BY <1>1, <1>2, <1>4, <2>1 DEF ChangeAndRetry, change_group, Asks, GROUP_A, GROUP_B
  <2>3. UsersTyped'
    BY <1>2, <1>4 DEF ChangeAndRetry, Goto, UsersTyped
  <2>4. Asks(p)'
    BY <1>2, <2>1, <2>2 DEF Asks, Asking
  <2>5. ASSUME NEW q \in Procs, q # p PROVE Asks(q)'
    BY <1>2, <2>1, <2>5 DEF Asks
  <2> QED BY <2>3, <2>4, <2>5 DEF UsersInv
<1> QED BY <1>3, <1>4

LEMMA ExecStep == ASSUME Lists, UsersInv, NEW p \in Procs, Start(p) PROVE UsersInv'
<1>1. state[p] # "unused"
  BY SchedAssumption DEF Start, Exec, Lists, EndsReady, Ready
<1>2. UsersTyped /\ \A q \in Procs : Asks(q)
  BY DEF UsersInv
<1>3. PICK program \in {"test_grupa", "procesy"}, n \in Int, cost \in Int :
        /\ Exec(p, program, IF program = "procesy" THEN "fork" ELSE "set", n, cost)
        /\ program = "test_grupa" => n \in Proportions
  <2>1. CASE \E x \in Proportions : Exec(p, "test_grupa", "set", x, ProgramCalls)
    BY <2>1, SchedAssumption, UsersAssumption
  <2>2. CASE \E n \in 0..MaxChildren : Exec(p, "procesy", "fork", n, ProgramCalls * n)
    BY <2>2, UsersAssumption
  <2> QED BY <2>1, <2>2 DEF Start
<1>4. /\ state' = state /\ p_group' = p_group
      /\ \A q \in Procs : q # p => prog'[q] = prog[q] /\ at'[q] = at[q] /\ left'[q] = left[q]
      /\ prog'[p] = program /\ left'[p] = n
      /\ at'[p] = IF program = "procesy" THEN "fork" ELSE "set"
  BY <1>2, <1>3 DEF Exec, procVars, UsersTyped
<1>5. UsersTyped'
  BY <1>2, <1>3 DEF Exec, UsersTyped
<1>6. Asks(p)'
  BY <1>1, <1>3, <1>4 DEF Asks, Asking
<1>7. ASSUME NEW q \in Procs, q # p PROVE Asks(q)'
  BY <1>2, <1>4, <1>7 DEF Asks
<1> QED BY <1>5, <1>6, <1>7 DEF UsersInv

LEMMA UsersStep == Lists /\ UsersInv /\ [UsersNext]_allVars => UsersInv'
<1> SUFFICES ASSUME Lists, UsersInv, [UsersNext]_allVars PROVE UsersInv'
  OBVIOUS
<1>1. UsersTyped /\ \A q \in Procs : Asks(q)
  BY DEF UsersInv
<1>2. /\ p_group \in [Procs -> {GROUP_A, GROUP_B}]
      /\ state \in [Procs -> {"unused", "blocked", "ready"}]
      /\ rdy_head \in Procs \cup {NIL_PROC}
  BY DEF Lists, Typed
<1>3. \A q \in Procs : prog[q] # "test_grupa" => at[q] \notin Asking
  BY <1>1 DEF Asks
<1>4. ASSUME Tick PROVE UsersInv'
  <2>1. /\ prog' = prog /\ at' = at /\ state' = state /\ p_group' = p_group
        /\ rdy_head \in Procs
    BY <1>2, <1>4 DEF Tick, sched
  <2>2. /\ left' \in [Procs -> Int]
        /\ \A q \in Procs : prog[q] = "test_grupa" => left'[q] = left[q]
    BY <1>1, <1>4, <2>1 DEF Tick, UsersTyped
  <2> QED BY <1>1, <2>1, <2>2 DEF UsersInv, UsersTyped, Asks
<1>5. ASSUME NEW p \in Procs, NEW c \in Procs, ForkChild(p, c) PROVE UsersInv'
  <2>1. /\ prog[p] = "procesy" /\ prog[c] = "other" /\ p # c
        /\ prog' = [prog EXCEPT ![c] = "child"] /\ at' = [at EXCEPT ![c] = "new"]
        /\ left' = [left EXCEPT ![p] = left[p] - 1, ![c] = Work]
    BY <1>1, <1>5 DEF ForkChild, Runs
  <2>2. UsersTyped'
    <3>1. Work \in Int
      BY UsersAssumption
    <3>2. left' \in [Procs -> Int]
      BY <1>1, <2>1, <3>1 DEF UsersTyped
    <3> QED BY <1>1, <2>1, <3>2 DEF UsersTyped
  <2>3. /\ at[c] \notin Asking /\ at'[c] \notin Asking
        /\ prog'[p] = prog[p] /\ at'[p] = at[p] /\ at[p] \notin Asking
    BY <1>1, <1>3, <2>1 DEF UsersTyped, Asking
  <2>4. \A q \in Procs : q # p /\ q # c =>
           /\ prog'[q] = prog[q] /\ at'[q] = at[q] /\ left'[q] = left[q]
    BY <1>1, <2>1 DEF UsersTyped
  <2>5. \A q \in Procs : q # c => state'[q] = state[q] /\ p_group'[q] = p_group[q]
    BY <1>5, CallsAreOwn DEF ForkChild
  <2>6. Asks(p)'
    BY <1>1, <2>3 DEF Asks, Asking
  <2> QED BY <2>2, <2>3, <2>4, <2>5, <2>6, OthersKept
<1>6. ASSUME NEW p \in Procs, ForkFails(p) PROVE UsersInv'
  <2>1. /\ at[p] = "fork" /\ at' = at /\ prog' = prog /\ state' = state /\ p_group' = p_group
        /\ left' = [left EXCEPT ![p] = left[p] - 1]
    BY <1>6 DEF ForkFails, Runs, vars
  <2>2. UsersTyped'
    BY <1>1, <2>1 DEF UsersTyped
  <2>3. \A q \in Procs : q # p => left'[q] = left[q]
    BY <1>1, <2>1 DEF UsersTyped
  <2> QED BY <2>1, <2>2, <2>3, OthersKept DEF Asking
<1>7. ASSUME NEW p \in Procs, Collect(p) PROVE UsersInv'
  <2>1. prog[p] = "procesy" /\ state' = state /\ p_group' = p_group
    BY <1>7 DEF Collect, Runs, vars
  <2>2. \E c \in Zombies : Collected(p, c)
    BY <1>7 DEF Collect
  <2> QED BY <2>1, <2>2, CollectedMoves, AskersKept DEF Asking
<1>8. ASSUME NEW p \in Procs, ExitChild(p) \/ KillChild(p) \/ Wait(p) PROVE UsersInv'
  <2>1. /\ unready(p) /\ prog[p] # "test_grupa"
        /\ (Goto(p, "zombie") \/ Goto(p, "killed") \/ Goto(p, "wait") \/ Leave(p))
    BY <1>8 DEF ExitChild, KillChild, Ended, Wait, Runs
  <2>2. /\ UsersTyped' /\ at'[p] \in {"zombie", "killed", "wait", "any"}
        /\ \A q \in Procs : q # p =>
             prog'[q] = prog[q] /\ at'[q] = at[q] /\ left'[q] = left[q]
    BY <1>1, <2>1 DEF Leave, Goto, UsersTyped
  <2>3. \A q \in Procs : q # p => state'[q] = state[q] /\ p_group'[q] = p_group[q]
    BY <2>1, CallsAreOwn
  <2> QED BY <2>2, <2>3, AskersKept DEF Asking
<1>end. ASSUME NEW p \in Procs, End(p) PROVE UsersInv'
  <2>1. \A q \in Procs : q # p => state'[q] = state[q] /\ p_group'[q] = p_group[q]
    BY <1>end, CallsAreOwn DEF End
  <2> QED BY <1>end, <2>1, EndMoves, AskersKept DEF Asking
<1>9. ASSUME NEW p \in Procs, ReadyChild(p) PROVE UsersInv'
  <2>1. /\ ready(p) /\ left' = left /\ at[p] = "new" /\ Goto(p, "compute")
    BY <1>9 DEF ReadyChild, Goto
  <2>2. /\ UsersTyped' /\ at'[p] = "compute"
        /\ \A q \in Procs : q # p => prog'[q] = prog[q] /\ at'[q] = at[q]
    BY <1>1, <2>1 DEF Goto, UsersTyped
  <2>3. \A q \in Procs : q # p => state'[q] = state[q] /\ p_group'[q] = p_group[q]
    BY <2>1, CallsAreOwn
  <2> QED BY <2>1, <2>2, <2>3, OthersKept DEF Asking
<1>10. ASSUME NEW p \in Procs, WakeParent(p) PROVE UsersInv'
  <2>1. prog[p] = "procesy" /\ \E c \in Zombies : Collected(p, c)
    BY <1>10 DEF WakeParent
  <2>2. \A q \in Procs : q # p => state'[q] = state[q] /\ p_group'[q] = p_group[q]
    BY <1>10, CallsAreOwn DEF WakeParent
  <2> QED BY <2>1, <2>2, CollectedMoves, AskersKept DEF Asking
<1>11. ASSUME NEW p \in Procs, Others(p) PROVE UsersInv'
  <2>1. prog' = prog /\ at' = at /\ left' = left /\ prog[p] = "other"
    BY <1>11 DEF Others, userVars
  <2>2. \A q \in Procs : q # p => state'[q] = state[q] /\ p_group'[q] = p_group[q]
    BY <1>11, CallsAreOwn DEF Others, Call
  <2> QED BY <1>1, <1>3, <2>1, <2>2, OthersKept DEF UsersTyped
<1>12. ASSUME UNCHANGED allVars PROVE UsersInv'
  BY <1>1, <1>12 DEF allVars, vars, userVars, UsersInv, UsersTyped, Asks
<1>13. ASSUME NEW p \in Procs, Program(p) PROVE UsersInv'
  BY <1>5, <1>6, <1>7, <1>8, <1>13, <1>end, AskingStep DEF Program
<1>14. ASSUME NEW p \in Procs, MM(p) PROVE UsersInv'
  BY <1>9, <1>10, <1>14 DEF MM
<1> QED BY <1>4, <1>8, <1>11, <1>12, <1>13, <1>14, ExecStep DEF UsersNext

LEMMA UsersInvariant == UsersSpec => [](Lists /\ UsersInv)
<1>1. (Lists /\ UsersInv) /\ [UsersNext]_allVars => (Lists /\ UsersInv)'
  BY UsersAreSteps, ListStep, UsersStep
<1> QED BY <1>1, UsersInitInv, PTL DEF UsersSpec

(* The second attempt of test_grupa never fails, whoever sets proportions  *)
(* or changes groups meanwhile (test_grupa.c:53-62).                       *)
THEOREM NeverBLAD == UsersSpec => []NoBLAD
<1>1. UsersInv => NoBLAD
  BY DEF UsersInv, Asks, NoBLAD
<1> QED BY <1>1, UsersInvariant, PTL

(* The bound on holds, with the test programs at work (zmiany_proc.c:7-36).*)
THEOREM UsersHoldIsBounded == ASSUME Proper PROVE UsersSpec => []HoldBounded
<1>1. UsersInit => QuantaInv
  BY QuantaInit DEF UsersInit
<1>2. (Lists /\ UsersInv) /\ QuantaInv /\ [UsersNext]_allVars => QuantaInv'
  BY UsersAreSteps, QuantaStep
<1>3. QuantaInv => HoldBounded
  BY DEF QuantaInv, HeldShort, HoldBounded
<1> QED BY <1>1, <1>2, <1>3, UsersInvariant, PTL DEF UsersSpec
------------------------------------------------------------------------------
(* The list spells l: its processes are the ready ones, each once, and     *)
(* the links lead from each to the next.                                   *)
Lined(l) ==
  /\ l \in Seq(Procs)
  /\ \A q \in Procs : q \in Ready <=> \E k \in 1..Len(l) : l[k] = q
  /\ \A j, k \in 1..Len(l) : l[j] = l[k] => j = k
  /\ Len(l) = 0 => rdy_head = NIL_PROC
  /\ Len(l) # 0 =>
       rdy_head = l[1] /\ rdy_tail = l[Len(l)] /\ p_nextready[l[Len(l)]] = NIL_PROC
  /\ \A k \in 1..Len(l) - 1 : p_nextready[l[k]] = l[k + 1]

(* What a step of the abstract line does. *)
Joined(l, m) ==
  \E p \in Procs : (\A k \in 1..Len(l) : l[k] # p) /\ (m = <<p>> \o l \/ m = Append(l, p))
LeftBy(l, m) == \E k \in 1..Len(l) : m = SubSeq(l, 1, k - 1) \o SubSeq(l, k + 1, Len(l))
Rotated(l, m) == l # <<>> /\ m = Append(Tail(l), Head(l))
LineMoves(l, m) == m = l \/ Joined(l, m) \/ LeftBy(l, m) \/ Rotated(l, m)

LEMMA LinedFacts ==
  ASSUME NEW l, Lined(l)
  PROVE  /\ l \in Seq(Procs) /\ Len(l) \in Nat
         /\ \A k \in 1..Len(l) : l[k] \in Procs /\ l[k] \in Ready
<1>1. l \in Seq(Procs)
  BY DEF Lined
<1>2. Len(l) \in Nat /\ \A k \in 1..Len(l) : l[k] \in Procs
  BY <1>1, LenProperties, ElementOfSeq
<1> QED BY <1>1, <1>2 DEF Lined

LEMMA RotateLine ==
  ASSUME Lists, NEW l, Lined(l), rdy_head # NIL_PROC, Rotate, Ready' = Ready
  PROVE  \E m : Lined(m)' /\ LineMoves(l, m)
<1> DEFINE n == Len(l)
<1>1. /\ l \in Seq(Procs) /\ n \in Nat /\ n # 0 /\ l # <<>>
      /\ \A k \in 1..n : l[k] \in Procs
      /\ rdy_head = l[1] /\ rdy_tail = l[n]
  BY LinedFacts DEF Lined
<1>2. PICK m : m = Append(Tail(l), Head(l))
  OBVIOUS
<1>3. m \in Seq(Procs) /\ Len(m) = n
  BY <1>1, <1>2, HeadTailProperties, AppendProperties
<1>4. Head(l) = l[1]
  BY <1>1
<1>5. \A k \in 1..n : m[k] = IF k = n THEN l[1] ELSE l[k + 1]
  <2>1. /\ Tail(l) \in Seq(Procs) /\ Len(Tail(l)) = n - 1 /\ Head(l) \in Procs
        /\ \A i \in 1..n - 1 : Tail(l)[i] = l[i + 1]
    BY <1>1, HeadTailProperties
  <2>2. /\ \A i \in 1..n - 1 : m[i] = Tail(l)[i]
        /\ m[(n - 1) + 1] = Head(l)
    BY <1>2, <2>1, AppendProperties
  <2>3. (n - 1) + 1 = n
    BY <1>1
  <2> HIDE DEF n
  <2> QED BY <1>1, <1>4, <2>1, <2>2, <2>3
<1>6. /\ \A j, k \in 1..n : l[j] = l[k] => j = k
      /\ \A k \in 1..n - 1 : p_nextready[l[k]] = l[k + 1]
      /\ p_nextready[l[n]] = NIL_PROC
      /\ \A q \in Procs : q \in Ready <=> \E k \in 1..n : l[k] = q
  BY <1>1 DEF Lined
<1>7. p_nextready \in [Procs -> Procs \cup {NIL_PROC}]
  BY ListFacts
<1>8. /\ rdy_tail' = l[1] /\ p_nextready'[l[1]] = NIL_PROC
      /\ rdy_head' = IF n = 1 THEN l[1] ELSE l[2]
      /\ n # 1 => p_nextready'[l[n]] = l[1]
      /\ \A k \in 1..n : k # 1 /\ k # n => p_nextready'[l[k]] = p_nextready[l[k]]
  <2>1. p_nextready' = [[p_nextready EXCEPT ![l[n]] = l[1]] EXCEPT ![l[1]] = NIL_PROC]
    BY <1>1 DEF Rotate
  <2>2. rdy_head' = [p_nextready EXCEPT ![l[n]] = l[1]][l[1]] /\ rdy_tail' = l[1]
    BY <1>1 DEF Rotate
  <2>3. 1 \in 1..n /\ n \in 1..n
    BY <1>1
  <2> HIDE DEF n
  <2>4. n # 1 => l[n] # l[1] /\ p_nextready[l[1]] = l[2]
    BY <1>1, <1>6, <2>3
  <2> QED BY <1>1, <1>6, <1>7, <2>1, <2>2, <2>3, <2>4
<1> HIDE DEF n
<1>9. \A q \in Procs : q \in Ready <=> \E k \in 1..n : m[k] = q
  <2>1. ASSUME NEW k \in 1..n PROVE \E j \in 1..n : m[j] = l[k]
    <3>1. CASE k = 1
      BY <1>1, <1>5, <3>1
    <3>2. CASE k # 1
      <4>1. k - 1 \in 1..n /\ k - 1 # n /\ (k - 1) + 1 = k
        BY <1>1, <3>2
      <4> QED BY <1>5, <4>1
    <3> QED BY <3>1, <3>2
  <2>2. ASSUME NEW k \in 1..n PROVE \E j \in 1..n : m[k] = l[j]
    <3>1. 1 \in 1..n /\ (k # n => k + 1 \in 1..n)
      BY <1>1
    <3> QED BY <1>5, <3>1
  <2> QED BY <1>6, <2>1, <2>2
<1>10. \A j, k \in 1..n : m[j] = m[k] => j = k
  BY <1>1, <1>5, <1>6
<1>11. \A k \in 1..n - 1 : p_nextready'[m[k]] = m[k + 1]
  <2> SUFFICES ASSUME NEW k \in 1..n - 1 PROVE p_nextready'[m[k]] = m[k + 1]
    OBVIOUS
  <2>1. k \in 1..n /\ k + 1 \in 1..n /\ k # n /\ n # 1 /\ k + 1 # 1
    BY <1>1
  <2>2. CASE k + 1 = n
    BY <1>5, <1>8, <2>1, <2>2
  <2>3. CASE k + 1 # n
    <3>1. k + 1 \in 1..n - 1 /\ m[k] = l[k + 1] /\ m[k + 1] = l[(k + 1) + 1]
      BY <1>1, <1>5, <2>1, <2>3
    <3> QED BY <1>6, <1>8, <2>1, <2>3, <3>1
  <2> QED BY <2>2, <2>3
<1>12. rdy_head' = m[1] /\ rdy_tail' = m[n] /\ p_nextready'[m[n]] = NIL_PROC
  BY <1>1, <1>5, <1>8
<1>13. Lined(m)'
  BY <1>1, <1>3, <1>9, <1>10, <1>11, <1>12 DEF Lined
<1>14. LineMoves(l, m)
  BY <1>1, <1>2 DEF LineMoves, Rotated
<1> QED BY <1>13, <1>14

LEMMA FrontLine ==
  ASSUME Lists, NEW l, Lined(l), NEW p \in Procs, p \notin Ready,
         Ready' = Ready \cup {p}, rdy_head' = p,
         rdy_tail' = (IF rdy_head = NIL_PROC THEN p ELSE rdy_tail),
         p_nextready' = [p_nextready EXCEPT ![p] = rdy_head]
  PROVE  \E m : Lined(m)' /\ LineMoves(l, m)
<1> DEFINE n == Len(l)
<1>1. /\ l \in Seq(Procs) /\ n \in Nat
      /\ \A k \in 1..n : l[k] \in Procs /\ l[k] # p
  BY LinedFacts
<1>2. PICK m : m = <<p>> \o l
  OBVIOUS
<1>3. /\ m \in Seq(Procs) /\ Len(m) = n + 1 /\ m[1] = p
      /\ \A k \in 2..n + 1 : m[k] = l[k - 1]
  <2>1. <<p>> \in Seq(Procs) /\ Len(<<p>>) = 1 /\ <<p>>[1] = p
    OBVIOUS
  <2>2. /\ m \in Seq(Procs) /\ Len(m) = 1 + n
        /\ \A i \in 1..1 + n : m[i] = IF i <= 1 THEN <<p>>[i] ELSE l[i - 1]
    BY <1>1, <1>2, <2>1, ConcatProperties
  <2> HIDE DEF n
  <2> QED BY <1>1, <2>1, <2>2
<1>4. /\ \A j, k \in 1..n : l[j] = l[k] => j = k
      /\ \A k \in 1..n - 1 : p_nextready[l[k]] = l[k + 1]
      /\ n = 0 => rdy_head = NIL_PROC
      /\ n # 0 => rdy_head = l[1] /\ rdy_tail = l[n] /\ p_nextready[l[n]] = NIL_PROC
      /\ \A q \in Procs : q \in Ready <=> \E k \in 1..n : l[k] = q
  BY <1>1 DEF Lined
<1>5. /\ p_nextready'[p] = rdy_head
      /\ \A k \in 1..n : p_nextready'[l[k]] = p_nextready[l[k]]
  BY <1>1, ListFacts
<1> HIDE DEF n
<1>6. \A q \in Procs : q \in Ready' <=> \E k \in 1..n + 1 : m[k] = q
  <2>1. ASSUME NEW k \in 1..n PROVE \E j \in 1..n + 1 : m[j] = l[k]
    <3>1. k + 1 \in 2..n + 1 /\ (k + 1) - 1 = k /\ k + 1 \in 1..n + 1
      BY <1>1
    <3> QED BY <1>3, <3>1
  <2>2. ASSUME NEW k \in 1..n + 1, k # 1 PROVE \E j \in 1..n : m[k] = l[j]
    <3>1. k \in 2..n + 1 /\ k - 1 \in 1..n
      BY <1>1, <2>2
    <3> QED BY <1>3, <3>1
  <2>3. 1 \in 1..n + 1
    BY <1>1
  <2> QED BY <1>3, <1>4, <2>1, <2>2, <2>3
<1>7. \A j, k \in 1..n + 1 : m[j] = m[k] => j = k
  <2> SUFFICES ASSUME NEW j \in 1..n + 1, NEW k \in 1..n + 1, m[j] = m[k] PROVE j = k
    OBVIOUS
  <2>1. ASSUME NEW i \in 1..n + 1, i # 1
        PROVE  i - 1 \in 1..n /\ m[i] = l[i - 1] /\ m[i] # m[1]
    <3>1. i \in 2..n + 1 /\ i - 1 \in 1..n
      BY <1>1, <2>1
    <3>2. m[i] = l[i - 1] /\ m[1] = p
      BY <1>3, <3>1, Zenon
    <3>3. l[i - 1] # p
      BY <1>1, <3>1, Zenon
    <3> QED BY <3>1, <3>2, <3>3, Zenon
  <2>2. CASE j = 1 \/ k = 1
    BY <2>1, <2>2, Zenon
  <2>3. CASE j # 1 /\ k # 1
    <3>1. j - 1 \in 1..n /\ k - 1 \in 1..n /\ l[j - 1] = l[k - 1]
      BY <2>1, <2>3, Zenon
    <3>2. \A x, y \in 1..n : l[x] = l[y] => x = y
      BY <1>4, Zenon
    <3>3. j - 1 = k - 1
      BY <3>1, <3>2, Zenon
    <3> QED BY <1>1, <3>3
  <2> QED BY <2>2, <2>3
<1>8. \A k \in 1..n : p_nextready'[m[k]] = m[k + 1]
  <2> SUFFICES ASSUME NEW k \in 1..n PROVE p_nextready'[m[k]] = m[k + 1]
    OBVIOUS
  <2>1. k + 1 \in 2..n + 1 /\ (k + 1) - 1 = k
    BY <1>1
  <2>2. CASE k = 1
    BY <1>3, <1>4, <1>5, <2>1, <2>2
  <2>3. CASE k # 1
    <3>1. k \in 2..n + 1 /\ k - 1 \in 1..n - 1 /\ (k - 1) + 1 = k /\ k - 1 \in 1..n
      BY <1>1, <2>3
    <3> QED BY <1>3, <1>4, <1>5, <2>1, <3>1
  <2> QED BY <2>2, <2>3
<1>9. rdy_tail' = m[n + 1] /\ p_nextready'[m[n + 1]] = NIL_PROC
  <2>1. CASE n = 0
    BY <1>3, <1>4, <1>5, <2>1
  <2>2. CASE n # 0
    <3>1. n + 1 \in 2..n + 1 /\ (n + 1) - 1 = n /\ n \in 1..n /\ 1 \in 1..n
      BY <1>1, <2>2
    <3>2. rdy_head # NIL_PROC
      BY <1>1, <1>4, <2>2, <3>1, ListFacts
    <3> QED BY <1>3, <1>4, <1>5, <2>2, <3>1, <3>2
  <2> QED BY <2>1, <2>2
<1>10. Lined(m)'
  <2>1. n + 1 # 0 /\ (n + 1) - 1 = n
    BY <1>1
  <2> QED BY <1>3, <1>6, <1>7, <1>8, <1>9, <2>1 DEF Lined
<1>11. LineMoves(l, m)
  BY <1>1, <1>2 DEF LineMoves, Joined, n
<1> QED BY <1>10, <1>11

LEMMA BackLine ==
  ASSUME Lists, NEW l, Lined(l), NEW p \in Procs, p \notin Ready, rdy_head # NIL_PROC,
         Ready' = Ready \cup {p}, rdy_head' = rdy_head, rdy_tail' = p,
         p_nextready'[p] = NIL_PROC, p_nextready'[rdy_tail] = p,
         \A q \in Ready : q # rdy_tail => p_nextready'[q] = p_nextready[q]
  PROVE  \E m : Lined(m)' /\ LineMoves(l, m)
<1> DEFINE n == Len(l)
<1>1. /\ l \in Seq(Procs) /\ n \in Nat /\ n # 0
      /\ \A k \in 1..n : l[k] \in Procs /\ l[k] \in Ready /\ l[k] # p
  BY LinedFacts, ListFacts DEF Lined
<1>2. PICK m : m = Append(l, p)
  OBVIOUS
<1>3. /\ m \in Seq(Procs) /\ Len(m) = n + 1 /\ m[n + 1] = p
      /\ \A k \in 1..n : m[k] = l[k]
  BY <1>1, <1>2, AppendProperties
<1>4. /\ \A j, k \in 1..n : l[j] = l[k] => j = k
      /\ \A k \in 1..n - 1 : p_nextready[l[k]] = l[k + 1]
      /\ rdy_head = l[1] /\ rdy_tail = l[n]
      /\ \A q \in Procs : q \in Ready <=> \E k \in 1..n : l[k] = q
  BY <1>1 DEF Lined
<1>5. /\ p_nextready'[p] = NIL_PROC /\ p_nextready'[l[n]] = p
      /\ \A k \in 1..n - 1 : p_nextready'[l[k]] = p_nextready[l[k]]
  <2>1. n \in 1..n /\ \A k \in 1..n - 1 : k \in 1..n /\ l[k] # l[n]
    BY <1>1, <1>4
  <2> HIDE DEF n
  <2> QED BY <1>1, <1>4, <2>1, ListFacts
<1> HIDE DEF n
<1>6. \A q \in Procs : q \in Ready' <=> \E k \in 1..n + 1 : m[k] = q
  <2>1. \A k \in 1..n + 1 : k = n + 1 \/ k \in 1..n
    BY <1>1
  <2>2. n + 1 \in 1..n + 1 /\ \A k \in 1..n : k \in 1..n + 1
    BY <1>1
  <2> QED BY <1>3, <1>4, <2>1, <2>2
<1>7. \A j, k \in 1..n + 1 : m[j] = m[k] => j = k
  BY <1>1, <1>3, <1>4
<1>8. \A k \in 1..n : p_nextready'[m[k]] = m[k + 1]
  <2> SUFFICES ASSUME NEW k \in 1..n PROVE p_nextready'[m[k]] = m[k + 1]
    OBVIOUS
  <2>1. CASE k = n
    BY <1>3, <1>5, <2>1
  <2>2. CASE k # n
    <3>1. k \in 1..n - 1 /\ k + 1 \in 1..n
      BY <1>1, <2>2
    <3> QED BY <1>3, <1>4, <1>5, <3>1
  <2> QED BY <2>1, <2>2
<1>9. rdy_head' = m[1]
  BY <1>1, <1>3, <1>4
<1>10. Lined(m)'
  <2>1. n + 1 # 0 /\ (n + 1) - 1 = n
    BY <1>1
  <2>2. p_nextready'[m[n + 1]] = NIL_PROC /\ rdy_tail' = m[n + 1]
    BY <1>3, <1>5
  <2> QED BY <1>3, <1>6, <1>7, <1>8, <1>9, <2>1, <2>2 DEF Lined
<1>11. LineMoves(l, m)
  BY <1>1, <1>2 DEF LineMoves, Joined, n
<1> QED BY <1>10, <1>11

LEMMA ReadyLine ==
  ASSUME Lists, NEW l, Lined(l), NEW p \in Procs, ready(p)
  PROVE  \E m : Lined(m)' /\ LineMoves(l, m)
<1>1. p \notin Ready /\ Ready' = Ready \cup {p}
  BY DEF ready, Lists, Typed, Ready
<1>2. \/ /\ rdy_head' = p
         /\ rdy_tail' = (IF rdy_head = NIL_PROC THEN p ELSE rdy_tail)
         /\ p_nextready' = [p_nextready EXCEPT ![p] = rdy_head]
      \/ /\ rdy_head # NIL_PROC /\ rdy_head' = rdy_head /\ rdy_tail' = p
         /\ p_nextready' = [p_nextready EXCEPT ![rdy_tail] = p, ![p] = NIL_PROC]
  BY DEF ready
<1>3. ASSUME rdy_head # NIL_PROC,
             p_nextready' = [p_nextready EXCEPT ![rdy_tail] = p, ![p] = NIL_PROC]
      PROVE  /\ p_nextready'[p] = NIL_PROC /\ p_nextready'[rdy_tail] = p
             /\ \A q \in Ready : q # rdy_tail => p_nextready'[q] = p_nextready[q]
  BY <1>1, <1>3, ListFacts
<1> QED BY <1>1, <1>2, <1>3, FrontLine, BackLine

LEMMA UnreadyLine ==
  ASSUME Lists, NEW l, Lined(l), NEW p \in Procs, unready(p)
  PROVE  \E m : Lined(m)' /\ LineMoves(l, m)
<1> DEFINE n == Len(l)
<1>1. p \in Ready /\ Ready' = Ready \ {p}
  BY DEF unready, Lists, Typed, Ready
<1>2. /\ l \in Seq(Procs) /\ n \in Nat
      /\ \A k \in 1..n : l[k] \in Procs /\ l[k] \in Ready
  BY LinedFacts
<1>3. PICK i \in 1..n : l[i] = p
  BY <1>1 DEF Lined
<1>4. n # 0
  BY <1>2, <1>3
<1>5. /\ \A j, k \in 1..n : l[j] = l[k] => j = k
      /\ \A k \in 1..n - 1 : p_nextready[l[k]] = l[k + 1]
      /\ rdy_head = l[1] /\ rdy_tail = l[n] /\ p_nextready[l[n]] = NIL_PROC
      /\ \A q \in Procs : q \in Ready <=> \E k \in 1..n : l[k] = q
  BY <1>4 DEF Lined
<1>6. PICK m : m = SubSeq(l, 1, i - 1) \o SubSeq(l, i + 1, n)
  OBVIOUS
<1>7. /\ m \in Seq(Procs) /\ Len(m) = n - 1
      /\ \A k \in 1..i - 1 : m[k] = l[k]
      /\ \A k \in i..n - 1 : m[k] = l[k + 1]
  <2>1. PICK a, b : a = SubSeq(l, 1, i - 1) /\ b = SubSeq(l, i + 1, n)
    OBVIOUS
  <2>2. /\ 1 \in Int /\ i - 1 \in Int /\ i + 1 \in Int /\ n \in Int
        /\ \A k \in 1..i - 1 : l[k] \in Procs
        /\ \A k \in i + 1..n : l[k] \in Procs
    BY <1>2
  <2>3. /\ a \in Seq(Procs) /\ Len(a) = (IF 1 <= i - 1 THEN (i - 1) - 1 + 1 ELSE 0)
        /\ \A k \in 1..(i - 1) - 1 + 1 : a[k] = l[1 + k - 1]
    BY <2>1, <2>2, SubSeqProperties
  <2>4. /\ b \in Seq(Procs) /\ Len(b) = (IF i + 1 <= n THEN n - (i + 1) + 1 ELSE 0)
        /\ \A k \in 1..n - (i + 1) + 1 : b[k] = l[(i + 1) + k - 1]
    BY <2>1, <2>2, SubSeqProperties
  <2>5. Len(a) = i - 1 /\ Len(b) = n - i
    BY <1>2, <2>3, <2>4
  <2>6. /\ m \in Seq(Procs) /\ Len(m) = Len(a) + Len(b)
        /\ \A k \in 1..Len(a) + Len(b) : m[k] = IF k <= Len(a) THEN a[k] ELSE b[k - Len(a)]
    <3>1. a \in Seq(Procs) /\ b \in Seq(Procs) /\ m = a \o b
      BY <1>6, <2>1, <2>3, <2>4, Zenon
    <3>2. /\ a \o b \in Seq(Procs) /\ Len(a \o b) = Len(a) + Len(b)
          /\ \A k \in 1..Len(a) + Len(b) :
               (a \o b)[k] = IF k <= Len(a) THEN a[k] ELSE b[k - Len(a)]
      BY <3>1, ConcatProperties, Zenon
    <3> QED BY <3>1, <3>2, Zenon
  <2> HIDE DEF n
  <2>7. /\ m \in Seq(Procs) /\ Len(m) = n - 1
        /\ \A k \in 1..n - 1 : m[k] = IF k <= i - 1 THEN a[k] ELSE b[k - (i - 1)]
    BY <1>2, <2>5, <2>6
  <2>8. ASSUME NEW k \in 1..i - 1 PROVE m[k] = l[k]
    BY <1>2, <2>3, <2>7
  <2>9. ASSUME NEW k \in i..n - 1 PROVE m[k] = l[k + 1]
    <3>1. /\ k \in 1..n - 1 /\ ~(k <= i - 1)
          /\ k - (i - 1) \in 1..n - (i + 1) + 1
          /\ (i + 1) + (k - (i - 1)) - 1 = k + 1
      BY <1>2
    <3> QED BY <2>4, <2>7, <3>1
  <2> QED BY <2>7, <2>8, <2>9
<1>8. p_nextready \in [Procs -> Procs \cup {NIL_PROC}] /\ NIL_PROC \notin Procs
  BY ListFacts
<1>9. CASE i = 1
  <2>1. /\ rdy_head' = p_nextready[l[1]] /\ rdy_tail' = rdy_tail
        /\ p_nextready' = p_nextready
    BY <1>3, <1>5, <1>9 DEF unready
  <2> HIDE DEF n
  <2>2. \A k \in 1..n - 1 : m[k] = l[k + 1]
    BY <1>7, <1>9
  <2>3. \A q \in Procs : q \in Ready' <=> \E k \in 1..n - 1 : m[k] = q
    <3>1. ASSUME NEW k \in 1..n, k # 1 PROVE \E j \in 1..n - 1 : m[j] = l[k]
      <4>1. k - 1 \in 1..n - 1 /\ (k - 1) + 1 = k
        BY <1>2, <3>1
      <4> QED BY <2>2, <4>1
    <3>2. ASSUME NEW k \in 1..n - 1 PROVE k + 1 \in 1..n /\ k + 1 # 1 /\ 1 \in 1..n
      BY <1>2
    <3> QED BY <1>1, <1>3, <1>5, <1>9, <2>2, <3>1, <3>2
  <2>4. \A j, k \in 1..n - 1 : m[j] = m[k] => j = k
    BY <1>2, <1>5, <2>2
  <2>5. \A k \in 1..(n - 1) - 1 : p_nextready'[m[k]] = m[k + 1]
    BY <1>2, <1>5, <2>1, <2>2
  <2>6. n - 1 = 0 => rdy_head' = NIL_PROC
    BY <1>2, <1>5, <2>1
  <2>7. n - 1 # 0 => /\ rdy_head' = m[1] /\ rdy_tail' = m[n - 1]
                     /\ p_nextready'[m[n - 1]] = NIL_PROC
    BY <1>2, <1>4, <1>5, <2>1, <2>2
  <2>8. Lined(m)'
    BY <1>7, <2>3, <2>4, <2>5, <2>6, <2>7 DEF Lined
  <2>9. LineMoves(l, m)
    BY <1>6 DEF LineMoves, LeftBy, n
  <2> QED BY <2>8, <2>9
<1>10. CASE i # 1
  <2>1. 1 \in 1..n /\ l[1] # p /\ i - 1 \in 1..n /\ i - 1 \in 1..n - 1 /\ (i - 1) + 1 = i
    BY <1>2, <1>3, <1>4, <1>5, <1>10
  <2>2. PICK q \in Ready :
          /\ p_nextready[q] = p
          /\ p_nextready' = [p_nextready EXCEPT ![q] = p_nextready[p]]
          /\ rdy_tail' = IF rdy_tail = p THEN q ELSE rdy_tail
    BY <1>5, <2>1 DEF unready, Ready
  <2>3. rdy_head' = rdy_head
    BY <1>5, <2>1 DEF unready
  <2> HIDE DEF n
  <2>4. q = l[i - 1]
    <3>1. p_nextready[l[i - 1]] = p
      BY <1>3, <1>5, <2>1
    <3> QED BY <1>2, <2>1, <2>2, <3>1, <1>8, ListFacts
  <2>5. /\ p_nextready'[l[i - 1]] = p_nextready[l[i]]
        /\ \A k \in 1..n : k # i - 1 => p_nextready'[l[k]] = p_nextready[l[k]]
        /\ rdy_tail' = IF i = n THEN l[i - 1] ELSE l[n]
    <3>1. n \in 1..n
      BY <1>2, <1>4
    <3> QED BY <1>2, <1>3, <1>5, <1>8, <2>1, <2>2, <2>4, <3>1
  <2>6. \A r \in Procs : r \in Ready' <=> \E k \in 1..n - 1 : m[k] = r
    <3>1. ASSUME NEW k \in 1..n, k # i PROVE \E j \in 1..n - 1 : m[j] = l[k]
      <4>1. CASE k < i
        BY <1>2, <1>7, <3>1, <4>1
      <4>2. CASE k > i
        <5>1. k - 1 \in i..n - 1 /\ k - 1 \in 1..n - 1 /\ (k - 1) + 1 = k
          BY <1>2, <4>2
        <5> QED BY <1>7, <5>1
      <4> QED BY <1>2, <3>1, <4>1, <4>2
    <3>2. ASSUME NEW k \in 1..n - 1 PROVE \E j \in 1..n : j # i /\ m[k] = l[j]
      <4>1. CASE k < i
        BY <1>2, <1>7, <4>1
      <4>2. CASE k >= i
        <5>1. k \in i..n - 1 /\ k + 1 \in 1..n /\ k + 1 # i
          BY <1>2, <4>2
        <5> QED BY <1>7, <5>1
      <4> QED BY <1>2, <4>1, <4>2
    <3> QED BY <1>1, <1>3, <1>5, <3>1, <3>2
  <2>7. \A j, k \in 1..n - 1 : m[j] = m[k] => j = k
    <3> SUFFICES ASSUME NEW j \in 1..n - 1, NEW k \in 1..n - 1, m[j] = m[k] PROVE j = k
      OBVIOUS
    <3>1. /\ j \in 1..n /\ k \in 1..n /\ j + 1 \in 1..n /\ k + 1 \in 1..n
          /\ j \in 1..i - 1 \/ j \in i..n - 1
          /\ k \in 1..i - 1 \/ k \in i..n - 1
      BY <1>2
    <3>2. CASE j \in 1..i - 1 /\ k \in 1..i - 1
      BY <1>5, <1>7, <3>1, <3>2
    <3>3. CASE j \in i..n - 1 /\ k \in i..n - 1
      <4>1. j + 1 = k + 1
        BY <1>5, <1>7, <3>1, <3>3
      <4> QED BY <4>1
    <3>4. CASE j \in 1..i - 1 /\ k \in i..n - 1
      <4>1. j = k + 1
        BY <1>5, <1>7, <3>1, <3>4
      <4> QED BY <3>4, <4>1
    <3>5. CASE j \in i..n - 1 /\ k \in 1..i - 1
      <4>1. j + 1 = k
        BY <1>5, <1>7, <3>1, <3>5
      <4> QED BY <3>5, <4>1
    <3> QED BY <3>1, <3>2, <3>3, <3>4, <3>5
  <2>8. \A k \in 1..(n - 1) - 1 : p_nextready'[m[k]] = m[k + 1]
    <3> SUFFICES ASSUME NEW k \in 1..(n - 1) - 1 PROVE p_nextready'[m[k]] = m[k + 1]
      OBVIOUS
    <3>1. CASE k < i - 1
      <4>1. k \in 1..i - 1 /\ k + 1 \in 1..i - 1 /\ k \in 1..n - 1 /\ k \in 1..n /\ k # i - 1
        BY <1>2, <3>1
      <4> QED BY <1>5, <1>7, <2>5, <4>1
    <3>2. CASE k = i - 1
      <4>1. k \in 1..i - 1 /\ k + 1 \in i..n - 1 /\ k + 1 = i /\ i \in 1..n - 1
        BY <1>2, <3>2
      <4> QED BY <1>5, <1>7, <2>5, <3>2, <4>1
    <3>3. CASE k >= i
      <4>1. /\ k \in i..n - 1 /\ k + 1 \in i..n - 1 /\ k + 1 \in 1..n - 1 /\ k + 1 \in 1..n
            /\ k + 1 # i - 1
        BY <1>2, <3>3
      <4> QED BY <1>5, <1>7, <2>5, <4>1
    <3> QED BY <1>2, <3>1, <3>2, <3>3
  <2>9. /\ n - 1 # 0 /\ rdy_head' = m[1] /\ rdy_tail' = m[n - 1]
        /\ p_nextready'[m[n - 1]] = NIL_PROC
    <3>1. n - 1 # 0 /\ 1 \in 1..i - 1
      BY <1>2, <2>1
    <3>2. CASE i = n
      <4>1. n - 1 \in 1..i - 1
        BY <1>2, <3>1, <3>2
      <4> QED BY <1>5, <1>7, <2>3, <2>5, <3>1, <3>2, <4>1
    <3>3. CASE i # n
      <4>1. n - 1 \in i..n - 1 /\ (n - 1) + 1 = n /\ n # i - 1 /\ n \in 1..n
        BY <1>2, <1>4, <3>3
      <4> QED BY <1>5, <1>7, <2>3, <2>5, <3>1, <3>3, <4>1
    <3> QED BY <3>2, <3>3
  <2>10. Lined(m)'
    BY <1>7, <2>6, <2>7, <2>8, <2>9 DEF Lined
  <2>11. LineMoves(l, m)
    BY <1>6 DEF LineMoves, LeftBy, n
  <2> QED BY <2>10, <2>11
<1> QED BY <1>9, <1>10
------------------------------------------------------------------------------
LEMMA LineStep ==
  ASSUME Lists, NEW l, Lined(l), SchedStep
  PROVE  \E m : Lined(m)' /\ LineMoves(l, m)
<1>1. ASSUME Ready' = Ready, rdy_head' = rdy_head, rdy_tail' = rdy_tail,
             \A q \in Ready : p_nextready'[q] = p_nextready[q]
      PROVE  \E m : Lined(m)' /\ LineMoves(l, m)
  <2>1. /\ Len(l) \in Nat /\ \A k \in 1..Len(l) : l[k] \in Ready
        /\ Len(l) # 0 => Len(l) \in 1..Len(l)
    BY LinedFacts
  <2>2. \A k \in 1..Len(l) : p_nextready'[l[k]] = p_nextready[l[k]]
    BY <1>1, <2>1
  <2>3. \A k \in 1..Len(l) - 1 : k \in 1..Len(l)
    BY <2>1
  <2>4. Lined(l)'
    BY <1>1, <2>1, <2>2, <2>3 DEF Lined
  <2> QED BY <2>4 DEF LineMoves
<1>2. ASSUME sched PROVE \E m : Lined(m)' /\ LineMoves(l, m)
  <2>1. rdy_head # NIL_PROC /\ Ready' = Ready
    BY <1>2 DEF sched, Ready
  <2>2. CASE Rotate
    BY <2>1, <2>2, RotateLine
  <2>3. CASE UNCHANGED listVars
    BY <1>1, <2>1, <2>3 DEF listVars
  <2> QED BY <1>2, <2>2, <2>3 DEF sched, SchedFirst, SchedSpent, SchedTick
<1>3. ASSUME NEW parent \in Procs, NEW p \in Procs, NEW PID \in 0..1, Fork(parent, p, PID)
      PROVE  \E m : Lined(m)' /\ LineMoves(l, m)
  <2>1. p \notin Ready /\ Ready' = Ready
    BY <1>3 DEF Fork, Lists, Typed, Ready
  <2>2. /\ \A q \in Ready : p_nextready'[q] = p_nextready[q]
        /\ rdy_head' = rdy_head /\ rdy_tail' = rdy_tail
    BY <1>3, <2>1, ListFacts DEF Fork
  <2> QED BY <1>1, <2>1, <2>2
<1>4. ASSUME NEW p \in Procs, NEW x \in Proportions, set_scheduler(p, x)
      PROVE  \E m : Lined(m)' /\ LineMoves(l, m)
  BY <1>1, <1>4 DEF set_scheduler, listVars, Ready
<1>5. ASSUME NEW p \in Procs, change_group(p) PROVE \E m : Lined(m)' /\ LineMoves(l, m)
  BY <1>1, <1>5 DEF change_group, listVars, Ready
<1>6. ASSUME Stays PROVE \E m : Lined(m)' /\ LineMoves(l, m)
  BY <1>1, <1>6 DEF Stays, Ready
<1> QED BY <1>2, <1>3, <1>4, <1>5, <1>6, ReadyLine, UnreadyLine DEF SchedStep

LEMMA LineInit == Init => Lined(<<>>)
<1> SUFFICES ASSUME Init PROVE Lined(<<>>)
  OBVIOUS
<1>1. Ready = {} /\ rdy_head = NIL_PROC
  BY DEF Init, Ready
<1>2. <<>> \in Seq(Procs) /\ Len(<<>>) = 0
  BY EmptySeq
<1> QED BY <1>1, <1>2 DEF Lined
------------------------------------------------------------------------------
(* Induction up to n, with the numbers for which something holds as a set. *)
LEMMA UpTo ==
  ASSUME NEW n \in Nat, NEW T, 0 \in T, \A k \in 1..n : k - 1 \in T => k \in T
  PROVE  \A k \in 0..n : k \in T
<1> DEFINE Bad == {k \in 0..n : k \notin T}
<1> SUFFICES ASSUME Bad # {} PROVE FALSE
  OBVIOUS
<1>1. Bad \in SUBSET Nat /\ Bad # {}
  OBVIOUS
<1>2. \E k \in Bad : \A j \in Bad : <<j, k>> \notin OpToRel(<, Nat)
  <2> HIDE DEF Bad
  <2> QED BY <1>1, NatLessThanWellFounded, WFMin
<1>3. PICK k \in Bad : \A j \in Bad : <<j, k>> \notin OpToRel(<, Nat)
  BY <1>2
<1>4. k \in 1..n
  OBVIOUS
<1>5. k - 1 \notin Bad
  <2>1. k - 1 \in Nat /\ k \in Nat /\ k - 1 < k
    BY <1>4
  <2> HIDE DEF Bad
  <2> QED BY <1>3, <2>1 DEF OpToRel
<1> QED BY <1>4, <1>5

(* The recursive Behind, as an equation. *)
Follows(f, head, next) ==
  f = [k \in Nat |->
        IF k = 0 \/ head = NIL_PROC THEN head
        ELSE IF f[k - 1] = NIL_PROC THEN NIL_PROC ELSE next[f[k - 1]]]

(* A list that ends gives a solution of the equation, *)
LEMMA BehindFollows ==
  ASSUME NEW l, Lined(l)
  PROVE  Follows(Behind, rdy_head, p_nextready)
<1> DEFINE n == Len(l)
           f == [k \in Nat |-> IF k < n THEN l[k + 1] ELSE NIL_PROC]
<1>1. /\ l \in Seq(Procs) /\ n \in Nat
      /\ \A k \in 1..n : l[k] \in Procs /\ l[k] # NIL_PROC
  BY LinedFacts, SchedAssumption
<1>2. /\ n = 0 => rdy_head = NIL_PROC
      /\ n # 0 => rdy_head = l[1] /\ p_nextready[l[n]] = NIL_PROC
      /\ \A k \in 1..n - 1 : p_nextready[l[k]] = l[k + 1]
  BY DEF Lined
<1>3. ASSUME NEW k \in Nat
      PROVE  f[k] = IF k = 0 \/ rdy_head = NIL_PROC THEN rdy_head
                    ELSE IF f[k - 1] = NIL_PROC THEN NIL_PROC ELSE p_nextready[f[k - 1]]
  <2> HIDE DEF n
  <2>1. CASE k = 0
    BY <1>1, <1>2, <2>1
  <2>2. CASE k # 0 /\ n = 0
    BY <1>1, <1>2, <2>2
  <2>3. CASE k # 0 /\ n # 0
    <3>1. k - 1 \in Nat /\ 1 \in 1..n /\ rdy_head # NIL_PROC /\ n \in 1..n
      BY <1>1, <1>2, <2>3
    <3>2. CASE k < n
      <4>1. k \in 1..n /\ k \in 1..n - 1 /\ k - 1 < n /\ (k - 1) + 1 = k
        BY <1>1, <2>3, <3>2
      <4>2. f[k] = l[k + 1] /\ f[k - 1] = l[k]
        BY <3>1, <3>2, <4>1
      <4> QED BY <1>1, <1>2, <2>3, <3>1, <4>1, <4>2
    <3>3. CASE k = n
      <4>1. k - 1 < n /\ (k - 1) + 1 = k
        BY <1>1, <3>3
      <4>2. f[k] = NIL_PROC /\ f[k - 1] = l[n]
        BY <1>1, <3>1, <3>3, <4>1
      <4> QED BY <1>1, <1>2, <2>3, <3>1, <4>2
    <3>4. CASE k > n
      <4>1. ~(k - 1 < n) /\ ~(k < n)
        BY <1>1, <3>4
      <4>2. f[k] = NIL_PROC /\ f[k - 1] = NIL_PROC
        BY <3>1, <4>1
      <4> QED BY <2>3, <3>1, <4>2
    <3> QED BY <1>1, <3>2, <3>3, <3>4
  <2> QED BY <2>1, <2>2, <2>3
<1>4. Follows(f, rdy_head, p_nextready)
  <2>1. PICK g : g = f
    OBVIOUS
  <2>2. g = [k \in Nat |-> g[k]]
    BY <2>1
  <2>3. \A k \in Nat :
          g[k] = IF k = 0 \/ rdy_head = NIL_PROC THEN rdy_head
                 ELSE IF g[k - 1] = NIL_PROC THEN NIL_PROC ELSE p_nextready[g[k - 1]]
    BY <1>3, <2>1
  <2> HIDE DEF f
  <2>4. Follows(g, rdy_head, p_nextready)
    BY <2>2, <2>3 DEF Follows
  <2> QED BY <2>1, <2>4
<1> HIDE DEF f
<1>5. Behind = CHOOSE g : Follows(g, rdy_head, p_nextready)
  BY DEF Behind, Follows
<1> QED BY <1>4, <1>5

(* so that going behind the head spells the list. *)
LEMMA LineIs ==
  ASSUME NEW l, Lined(l)
  PROVE  /\ n_ready = Len(l)
         /\ \A k \in 0..Len(l) - 1 : Behind[k] = l[k + 1]
         /\ [k \in 1..n_ready |-> Behind[k - 1]] = l
<1> DEFINE n == Len(l)
<1>1. /\ l \in Seq(Procs) /\ n \in Nat /\ l \in [1..n -> Procs]
      /\ \A k \in 1..n : l[k] \in Procs /\ l[k] \in Ready /\ l[k] # NIL_PROC
  BY LinedFacts, SchedAssumption, LenProperties
<1>2. /\ n = 0 => rdy_head = NIL_PROC
      /\ n # 0 => rdy_head = l[1]
      /\ \A k \in 1..n - 1 : p_nextready[l[k]] = l[k + 1]
      /\ \A j, k \in 1..n : l[j] = l[k] => j = k
      /\ \A q \in Ready : \E k \in 1..n : l[k] = q
  BY DEF Lined, Ready
<1>3. n_ready = n
  <2>1. l \in Bijection(1..n, Ready)
    <3>1. l \in [1..n -> Ready] /\ DOMAIN l = 1..n
      BY <1>1
    <3> HIDE DEF n
    <3>2. IsInjective(l)
      BY <1>2, <3>1 DEF IsInjective
    <3> QED BY <1>2, <3>1, <3>2 DEF Bijection, Injection, Surjection
  <2>2. ExistsBijection(1..n, Ready)
    BY <2>1 DEF ExistsBijection
  <2> HIDE DEF n
  <2> QED BY <1>1, <2>2, FS_CountingElements DEF n_ready
<1>4. \A k \in Nat :
        Behind[k] = IF k = 0 \/ rdy_head = NIL_PROC THEN rdy_head
                    ELSE IF Behind[k - 1] = NIL_PROC THEN NIL_PROC
                    ELSE p_nextready[Behind[k - 1]]
  <2>1. PICK f : f = Behind
    OBVIOUS
  <2>2. Follows(f, rdy_head, p_nextready)
    BY <2>1, BehindFollows
  <2>3. \A k \in Nat :
          f[k] = IF k = 0 \/ rdy_head = NIL_PROC THEN rdy_head
                 ELSE IF f[k - 1] = NIL_PROC THEN NIL_PROC ELSE p_nextready[f[k - 1]]
    BY <2>2 DEF Follows
  <2> QED BY <2>1, <2>3
<1> HIDE DEF n
<1>5. \A k \in 0..n - 1 : Behind[k] = l[k + 1]
  <2> SUFFICES ASSUME n # 0 PROVE \A k \in 0..n - 1 : Behind[k] = l[k + 1]
    BY <1>1
  <2> DEFINE T == {k \in 0..n - 1 : Behind[k] = l[k + 1]}
  <2>1. 0 \in T /\ n - 1 \in Nat /\ rdy_head # NIL_PROC
    BY <1>1, <1>2, <1>4
  <2>2. ASSUME NEW k \in 1..n - 1, k - 1 \in T PROVE k \in T
    <3>1. k \in Nat /\ k # 0 /\ (k - 1) + 1 = k /\ k \in 1..n
      BY <1>1
    <3>2. Behind[k - 1] = l[k]
      BY <2>2, <3>1
    <3>3. Behind[k] = p_nextready[l[k]]
      BY <1>1, <1>4, <2>1, <3>1, <3>2
    <3> QED BY <1>1, <1>2, <3>3
  <2>3. \A k \in 0..n - 1 : k \in T
    <3> HIDE DEF T
    <3> QED BY <2>1, <2>2, UpTo
  <2> QED BY <2>3
<1>6. [k \in 1..n_ready |-> Behind[k - 1]] = l
  <2>1. \A k \in 1..n : k - 1 \in 0..n - 1 /\ (k - 1) + 1 = k
    BY <1>1
  <2> QED BY <1>1, <1>3, <1>5, <2>1
<1> QED BY <1>3, <1>5, <1>6 DEF n
------------------------------------------------------------------------------
(* The links of the ready processes always spell a list. *)
LineInv == \E l : Lined(l)

LEMMA LineInvStep == Lists /\ LineInv /\ SchedStep => LineInv'
  BY LineStep DEF LineInv

LEMMA LinedIsSound == LineInv => ListSound
<1> SUFFICES ASSUME NEW l, Lined(l), Ready # {}
    PROVE  /\ {Behind[k] : k \in 0..n_ready - 1} = Ready
           /\ Behind[n_ready - 1] = rdy_tail
           /\ p_nextready[rdy_tail] = NIL_PROC
  BY DEF LineInv, ListSound
<1> DEFINE n == Len(l)
<1>1. /\ n \in Nat /\ \A k \in 1..n : l[k] \in Ready
      /\ \A q \in Ready : \E k \in 1..n : l[k] = q
  BY LinedFacts DEF Lined, Ready
<1>2. n_ready = n /\ \A k \in 0..n - 1 : Behind[k] = l[k + 1]
  BY LineIs
<1>3. n # 0
  BY <1>1
<1>4. rdy_tail = l[n] /\ p_nextready[l[n]] = NIL_PROC
  BY <1>3 DEF Lined
<1> HIDE DEF n
<1>5. n - 1 \in 0..n - 1 /\ (n - 1) + 1 = n
  BY <1>1, <1>3
<1>6. \A k \in 0..n - 1 : Behind[k] \in Ready
  BY <1>1, <1>2
<1>7. ASSUME NEW q \in Ready PROVE \E k \in 0..n - 1 : Behind[k] = q
  <2>1. PICK k \in 1..n : l[k] = q
    BY <1>1
  <2>2. k - 1 \in 0..n - 1 /\ (k - 1) + 1 = k
    BY <1>1
  <2> QED BY <1>2, <2>1, <2>2
<1>8. {Behind[k] : k \in 0..n - 1} = Ready
  BY <1>6, <1>7
<1> QED BY <1>2, <1>4, <1>5, <1>8

(* A step of the scheduler is a step of the line. *)
Order == [k \in 1..n_ready |-> Behind[k - 1]]

LEMMA OrderIs == \A l : Lined(l) => Order = l
  BY LineIs DEF Order

LEMMA OrderSteps ==
  Lists /\ LineInv /\ SchedStep => LineInv' /\ LineMoves(Order, Order')
<1>1. (\A l : Lined(l) => Order = l)'
  BY OrderIs, PTL
<1> SUFFICES ASSUME Lists, LineInv, SchedStep PROVE LineInv' /\ LineMoves(Order, Order')
  OBVIOUS
<1>2. PICK l : Lined(l)
  BY DEF LineInv
<1>3. PICK m : Lined(m)' /\ LineMoves(l, m)
  BY <1>2, LineStep
<1>4. Order = l /\ Order' = m
  BY <1>1, <1>2, <1>3, OrderIs
<1> QED BY <1>3, <1>4 DEF LineInv

(* The abstract line's own steps, with Order for the line. *)
LEMMA MovesAreSteps ==
  ASSUME NEW l \in Seq(Procs), Order = l, LineMoves(l, Order')
  PROVE  [Line!Next]_Order
<1>1. PICK m : m = Order'
  OBVIOUS
<1>2. [k \in 1..n_ready |-> Behind[k - 1]] = l
  BY DEF Order
<1>3. [k \in 1..n_ready |-> Behind[k - 1]]' = m
  BY <1>1 DEF Order
<1>4. DOMAIN l = 1..Len(l) /\ \A k \in 1..Len(l) : l[k] \in Procs
  BY LenProperties, ElementOfSeq
<1>5. ASSUME Joined(l, m) PROVE Line!Next
  <2>1. PICK p \in Procs : /\ \A k \in 1..Len(l) : l[k] # p
                           /\ m = <<p>> \o l \/ m = Append(l, p)
    BY <1>5 DEF Joined
  <2>2. p \notin Line!Range(l)
    BY <1>4, <2>1 DEF Line!Range
  <2>3. Line!Join(p)
    BY <1>2, <1>3, <2>1, <2>2 DEF Line!Join
  <2> QED BY <2>3 DEF Line!Next
<1>6. ASSUME LeftBy(l, m) PROVE Line!Next
  <2>1. PICK k \in 1..Len(l) : m = SubSeq(l, 1, k - 1) \o SubSeq(l, k + 1, Len(l))
    BY <1>6 DEF LeftBy
  <2>2. Line!RemoveAt(l, k) = m
    BY <2>1 DEF Line!RemoveAt
  <2>3. \E j \in DOMAIN l : l[j] = l[k] /\ m = Line!RemoveAt(l, j)
    BY <1>4, <2>2
  <2>4. Line!Quit(l[k])
    BY <1>2, <1>3, <2>3 DEF Line!Quit
  <2> QED BY <1>4, <2>4 DEF Line!Next
<1>7. ASSUME Rotated(l, m) PROVE Line!Next
  <2>1. Line!Rotate
    BY <1>2, <1>3, <1>7 DEF Line!Rotate, Rotated
  <2> QED BY <2>1 DEF Line!Next
<1> QED BY <1>1, <1>5, <1>6, <1>7 DEF LineMoves

LEMMA OrderInit == Init => Line!Init
<1> SUFFICES ASSUME Init PROVE Line!Init
  OBVIOUS
<1>1. Order = <<>>
  BY LineInit, OrderIs
<1> QED BY <1>1 DEF Line!Init, Order

LEMMA OrderRefines ==
  Lists /\ LineInv /\ SchedStep => [Line!Next]_[k \in 1..n_ready |-> Behind[k - 1]]
<1> SUFFICES ASSUME Lists, LineInv, SchedStep PROVE [Line!Next]_Order
  BY DEF Order
<1>1. PICK l : Lined(l)
  BY DEF LineInv
<1>2. l \in Seq(Procs) /\ Order = l
  BY <1>1, OrderIs, LinedFacts
<1>3. LineMoves(l, Order')
  BY <1>2, OrderSteps
<1> QED BY <1>2, <1>3, MovesAreSteps
------------------------------------------------------------------------------
LEMMA SchedInvariant == Spec => [](Lists /\ LineInv)
<1>1. Init => Lists /\ LineInv
  BY ListInit, LineInit DEF LineInv
<1>2. (Lists /\ LineInv) /\ [Next]_vars => (Lists /\ LineInv)'
  BY CallsAreSteps, ListStep, LineInvStep
<1> QED BY <1>1, <1>2, PTL DEF Spec

LEMMA UsersLine == UsersSpec => []LineInv
<1>1. UsersInit => LineInv
  BY LineInit DEF UsersInit, LineInv
<1>2. (Lists /\ UsersInv) /\ LineInv /\ [UsersNext]_allVars => LineInv'
  BY UsersAreSteps, LineInvStep
<1> QED BY <1>1, <1>2, UsersInvariant, PTL DEF UsersSpec

(* With the calls in any order, the list holds the ready processes, each   *)
(* once, from rdy_head to rdy_tail (zmiany_proc.c:15-30).                  *)
THEOREM ListIsSound == Spec => []ListSound
  BY SchedInvariant, LinedIsSound, PTL

(* And so it does with the test programs at work. *)
THEOREM UsersListIsSound == UsersSpec => []ListSound
  BY UsersLine, LinedIsSound, PTL

(* The scheduler implements the abstract line: a tick of the clock either  *)
(* leaves the order alone or sends the head to the end                     *)
(* (zmiany_proc.c:15-30).                                                  *)
THEOREM QueueImplements == Spec => ImplementsReadyQueue
<1>1. (Lists /\ LineInv) /\ [Next]_vars =>
        [Line!Next]_[k \in 1..n_ready |-> Behind[k - 1]]
  BY CallsAreSteps, OrderRefines
<1> QED BY <1>1, SchedInvariant, OrderInit, PTL DEF Spec, ImplementsReadyQueue, Line!Spec

THEOREM UsersQueueImplements == UsersSpec => ImplementsReadyQueue
<1>1. (Lists /\ UsersInv) /\ LineInv /\ [UsersNext]_allVars =>
        [Line!Next]_[k \in 1..n_ready |-> Behind[k - 1]]
  BY UsersAreSteps, OrderRefines
<1>2. UsersInit => Line!Init
  BY OrderInit DEF UsersInit
<1> QED BY <1>1, <1>2, UsersLine, UsersInvariant, PTL
        DEF UsersSpec, ImplementsReadyQueue, Line!Spec
------------------------------------------------------------------------------
(* A child that MM has not made ready yet and a parent that waits are      *)
(* blocked.                                                                *)
Waits(p) ==
  /\ at[p] = "new" => prog[p] = "child" /\ state[p] = "blocked"
  /\ at[p] = "wait" => prog[p] = "procesy" /\ state[p] = "blocked"
CallsInv == calls \in 0..MaxCalls
BlockedInv == \A p \in Procs : Waits(p)

LEMMA CallsStep == CallsInv /\ (UNCHANGED calls \/ Called) => CallsInv'
  BY SchedAssumption DEF CallsInv, Called

LEMMA UsersCallsStep == CallsInv /\ [UsersNext]_allVars => CallsInv'
<1> SUFFICES ASSUME CallsInv, [UsersNext]_allVars PROVE CallsInv'
  OBVIOUS
<1>1. ASSUME NEW p \in Procs, Start(p) PROVE CallsInv'
  <2>1. PICK n \in 0..MaxChildren \cup {1} :
          calls + ProgramCalls * n <= MaxCalls /\ calls' = calls + ProgramCalls * n
    <3>1. ProgramCalls * 1 = ProgramCalls
      BY UsersAssumption
    <3> QED BY <1>1, <3>1 DEF Start, Exec
  <2>2. ProgramCalls * n \in Nat
    <3>1. \A m \in Nat, k \in Nat : m * k \in Nat
      OBVIOUS
    <3>2. ProgramCalls \in Nat /\ n \in Nat
      BY UsersAssumption
    <3> QED BY <3>1, <3>2
  <2> QED BY <2>1, <2>2, SchedAssumption DEF CallsInv
<1>2. ASSUME Tick PROVE UNCHANGED calls
  BY <1>2 DEF Tick
<1>3. ASSUME NEW p \in Procs, Program(p) \/ KillChild(p) PROVE UNCHANGED calls
  BY <1>3 DEF Program, KillChild, SetProportion, ChangeAndRetry, ForkChild, ForkFails, Collect, Wait, End,
              ExitChild, vars
<1>4. ASSUME NEW p \in Procs, MM(p) PROVE UNCHANGED calls
  BY <1>4 DEF MM, ReadyChild, WakeParent
<1>5. ASSUME NEW p \in Procs, Others(p) PROVE Called
  BY <1>5 DEF Others
<1>6. ASSUME UNCHANGED allVars PROVE UNCHANGED calls
  BY <1>6 DEF allVars, vars
<1> QED BY <1>1, <1>2, <1>3, <1>4, <1>5, <1>6, CallsStep DEF UsersNext

LEMMA BlockedStep == Lists /\ UsersInv /\ BlockedInv /\ [UsersNext]_allVars => BlockedInv'
<1> SUFFICES ASSUME Lists, UsersInv, BlockedInv, [UsersNext]_allVars PROVE BlockedInv'
  OBVIOUS
<1>1. /\ prog = [q \in Procs |-> prog[q]] /\ at = [q \in Procs |-> at[q]]
      /\ state = [q \in Procs |-> state[q]]
      /\ \A q \in Procs : Waits(q)
  BY DEF UsersInv, UsersTyped, Lists, Typed, BlockedInv
(* One process may change; the others stay as they are. *)
<1>2. ASSUME NEW p \in Procs,
             \A q \in Procs : q # p =>
               prog'[q] = prog[q] /\ at'[q] = at[q] /\ state'[q] = state[q],
             at'[p] \in {"new", "wait"} => Waits(p)'
      PROVE  BlockedInv'
  <2>1. ASSUME NEW q \in Procs PROVE Waits(q)'
    BY <1>1, <1>2 DEF Waits
  <2> QED BY <2>1 DEF BlockedInv
(* Or several may, when none of those waits afterwards. *)
<1>many. ASSUME \A q \in Procs :
                \/ at'[q] \in {"any", "fork", "end"}
                \/ prog'[q] = prog[q] /\ at'[q] = at[q] /\ state'[q] = state[q]
       PROVE  BlockedInv'
  <2>1. ASSUME NEW q \in Procs PROVE Waits(q)'
    BY <1>1, <1>many DEF Waits
  <2> QED BY <2>1 DEF BlockedInv
<1>3. ASSUME UNCHANGED <<prog, at, state>> PROVE BlockedInv'
  BY <1>1, <1>3 DEF BlockedInv, Waits
<1>4. ASSUME Tick PROVE BlockedInv'
  BY <1>3, <1>4 DEF Tick, sched
<1>5. ASSUME NEW p \in Procs, Start(p) PROVE BlockedInv'
  <2>1. /\ state' = state /\ at'[p] \in {"set", "fork"}
        /\ \A q \in Procs : q # p => prog'[q] = prog[q] /\ at'[q] = at[q]
    BY <1>1, <1>5 DEF Start, Exec
  <2> QED BY <1>2, <2>1
<1>6. ASSUME NEW p \in Procs, SetProportion(p) \/ ChangeAndRetry(p) PROVE BlockedInv'
  <2>1. /\ state' = state /\ at'[p] \in {"any", "change", "again", "BLAD"}
        /\ \A q \in Procs : q # p => prog'[q] = prog[q] /\ at'[q] = at[q]
    BY <1>1, <1>6
       DEF SetProportion, ChangeAndRetry, set_scheduler, change_group, Goto, Leave
  <2> QED BY <1>2, <2>1
<1>7. ASSUME NEW p \in Procs, NEW c \in Procs, ForkChild(p, c) PROVE BlockedInv'
  <2>1. /\ state'[c] = "blocked" /\ prog'[c] = "child" /\ at'[c] = "new"
        /\ \A q \in Procs : q # c =>
             prog'[q] = prog[q] /\ at'[q] = at[q] /\ state'[q] = state[q]
    BY <1>1, <1>7 DEF ForkChild, Fork
  <2>2. Waits(c)'
    BY <2>1 DEF Waits
  <2> QED BY <1>2, <2>1, <2>2
<1>8. ASSUME NEW p \in Procs, ForkFails(p) PROVE BlockedInv'
  BY <1>3, <1>8 DEF ForkFails, vars
<1>9. ASSUME NEW p \in Procs, Collect(p) PROVE BlockedInv'
  <2>1. prog[p] = "procesy" /\ state' = state /\ \E c \in Zombies : Collected(p, c)
    BY <1>9 DEF Collect, Runs, vars
  <2> QED BY <2>1, <1>many, CollectedMoves
<1>10. ASSUME NEW p \in Procs, ExitChild(p) \/ KillChild(p) \/ Wait(p) PROVE BlockedInv'
  <2>1. \A q \in Procs : q # p => state'[q] = state[q]
    <3>1. unready(p)
      BY <1>10 DEF ExitChild, KillChild, Wait
    <3> QED BY <3>1, CallsAreOwn
  <2>2. \/ Goto(p, "zombie") \/ Goto(p, "killed") \/ Leave(p)
        \/ Goto(p, "wait") /\ prog[p] = "procesy" /\ state'[p] = "blocked"
    BY <1>10 DEF ExitChild, KillChild, Ended, Wait, Runs
  <2>3. /\ \A q \in Procs : q # p => prog'[q] = prog[q] /\ at'[q] = at[q]
        /\ \/ at'[p] \in {"zombie", "killed", "any"}
           \/ at'[p] = "wait" /\ prog'[p] = "procesy" /\ state'[p] = "blocked"
    BY <1>1, <2>2 DEF Goto, Leave
  <2>4. at'[p] \in {"new", "wait"} => Waits(p)'
    BY <2>3 DEF Waits
  <2> QED BY <1>2, <2>1, <2>3, <2>4
<1>end. ASSUME NEW p \in Procs, End(p) PROVE BlockedInv'
  <2>1. \A q \in Procs : q # p => state'[q] = state[q]
    BY <1>end, CallsAreOwn DEF End
  <2> QED BY <1>many, <1>end, <2>1, EndMoves
<1>11. ASSUME NEW p \in Procs, ReadyChild(p) PROVE BlockedInv'
  <2>1. \A q \in Procs : q # p => state'[q] = state[q]
    BY <1>11, CallsAreOwn DEF ReadyChild
  <2>2. /\ \A q \in Procs : q # p => prog'[q] = prog[q] /\ at'[q] = at[q]
        /\ at'[p] = "compute"
    BY <1>1, <1>11 DEF ReadyChild, Goto
  <2> QED BY <1>2, <2>1, <2>2
<1>12. ASSUME NEW p \in Procs, WakeParent(p) PROVE BlockedInv'
  <2>1. \A q \in Procs : q # p => state'[q] = state[q]
    BY <1>12, CallsAreOwn DEF WakeParent
  <2>2. prog[p] = "procesy" /\ \E c \in Zombies : Collected(p, c)
    BY <1>12 DEF WakeParent
  <2> QED BY <2>1, <2>2, <1>many, CollectedMoves
<1>13. ASSUME NEW p \in Procs, Others(p) PROVE BlockedInv'
  <2>1. prog' = prog /\ at' = at /\ prog[p] = "other"
    BY <1>13 DEF Others, userVars
  <2>2. \A q \in Procs : q # p => state'[q] = state[q]
    BY <1>13, CallsAreOwn DEF Others, Call
  <2>3. at'[p] \notin {"new", "wait"}
    BY <1>1, <2>1 DEF Waits
  <2> QED BY <1>2, <2>1, <2>2, <2>3
<1>14. ASSUME UNCHANGED allVars PROVE BlockedInv'
  BY <1>3, <1>14 DEF allVars, vars, userVars
<1>15. ASSUME NEW p \in Procs, Program(p) PROVE BlockedInv'
  BY <1>6, <1>7, <1>8, <1>9, <1>10, <1>15, <1>end DEF Program
<1>16. ASSUME NEW p \in Procs, MM(p) PROVE BlockedInv'
  BY <1>11, <1>12, <1>16 DEF MM
<1> QED BY <1>4, <1>5, <1>10, <1>13, <1>14, <1>15, <1>16 DEF UsersNext

LEMMA TypesFollow == Lists /\ LineInv /\ CallsInv => TypeOK
<1> SUFFICES ASSUME Lists, NEW l, Lined(l), CallsInv PROVE TypeOK
  BY DEF LineInv
<1>1. rdy_head # NIL_PROC <=> \E p \in Procs : state[p] = "ready"
  <2>1. CASE Len(l) = 0
    <3>1. rdy_head = NIL_PROC /\ \A p \in Procs : p \notin Ready
      BY <2>1 DEF Lined
    <3> QED BY <3>1 DEF Ready
  <2>2. CASE Len(l) # 0
    <3>1. rdy_head = l[1] /\ 1 \in 1..Len(l)
      BY <2>2, LinedFacts DEF Lined
    <3>2. rdy_head \in Ready /\ rdy_head \in Procs
      BY <3>1, LinedFacts
    <3> QED BY <3>2, SchedAssumption DEF Ready
  <2> QED BY <2>1, <2>2
<1> QED BY <1>1 DEF TypeOK, Lists, Typed, CallsInv

(* Types, and that the list is empty exactly when nobody is ready.         *)
THEOREM TypesAreSound == Spec => []TypeOK
<1>1. Init => CallsInv
  BY SchedAssumption DEF Init, CallsInv
<1>2. CallsInv /\ [Next]_vars => CallsInv'
  BY CallsStep DEF Next, vars
<1> QED BY <1>1, <1>2, SchedInvariant, TypesFollow, PTL DEF Spec

(* The same under the test programs, and that nobody is ready who waits in *)
(* MM, so that MM never makes a process ready twice.                       *)
THEOREM UsersTypesAreSound == UsersSpec => []UsersTypeOK
<1>1. UsersInit => CallsInv /\ BlockedInv
  BY SchedAssumption DEF UsersInit, Init, CallsInv, BlockedInv, Waits
<1>2. (Lists /\ UsersInv) /\ CallsInv /\ BlockedInv /\ [UsersNext]_allVars
        => CallsInv' /\ BlockedInv'
  BY UsersCallsStep, BlockedStep
<1>3. Lists /\ LineInv /\ CallsInv /\ UsersInv /\ BlockedInv => UsersTypeOK
  BY TypesFollow DEF UsersTypeOK, UsersInv, UsersTyped, BlockedInv, Waits
<1> QED BY <1>1, <1>2, <1>3, UsersInvariant, UsersLine, PTL DEF UsersSpec
==============================================================================
