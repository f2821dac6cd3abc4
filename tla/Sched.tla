-------------------------------- MODULE Sched ---------------------------------
(***************************************************************************)
(* The scheduler of szeregowanie: one queue of ready user processes, in    *)
(* two groups whose quanta are in the proportion set by set_scheduler.     *)
(* sched() of zmiany_proc.c is called by the clock each time the running   *)
(* process has used a tick; do_fork and the added kernel calls are in      *)
(* zmiany_system.c and zmiany_proc.c.  ready and unready, which put a      *)
(* process on the queue and take it off, are not in this repository.       *)
(***************************************************************************)
EXTENDS Integers, FiniteSets

CONSTANTS
  Procs,          \* process slots
  NIL_PROC,       \* the null pointer
  FULL,           \* 100 in the code: the sum of the two quanta
  Proportions,    \* arguments given to set_scheduler
  MaxCalls        \* bound: calls other than those of the clock

GROUP_A == 0
GROUP_B == 1

ASSUME SchedAssumption ==
  /\ NIL_PROC \notin Procs
  /\ FULL \in Nat \ {0}
  /\ Proportions \subseteq Int
  /\ MaxCalls \in Nat

VARIABLES
  rdy_head, rdy_tail,   \* ends of the list of ready user processes
  p_nextready,          \* its links
  p_first,              \* the process has not been in sched() yet
  p_ticks,              \* what is left of its quantum
  p_group,
  PROC_TIME,            \* quantum of each group
  state,                \* whether a slot is unused, blocked or ready
  calls,                \* number of calls so far
  held                  \* history: ticks of the head in a row

listVars == <<rdy_head, rdy_tail, p_nextready>>
procVars == <<p_first, p_ticks, p_group>>
vars == <<rdy_head, rdy_tail, p_nextready, p_first, p_ticks, p_group,
          PROC_TIME, state, calls, held>>

Quanta(x) == [g \in {GROUP_A, GROUP_B} |-> IF g = GROUP_A THEN x ELSE FULL - x]

(* Nobody is there yet; the quanta are a half each. *)
Init ==
  /\ rdy_head = NIL_PROC
  /\ rdy_tail = NIL_PROC
  /\ p_nextready = [p \in Procs |-> NIL_PROC]
  /\ p_first = [p \in Procs |-> 0]
  /\ p_ticks = [p \in Procs |-> 0]
  /\ p_group = [p \in Procs |-> GROUP_A]
  /\ PROC_TIME = Quanta(FULL \div 2)
  /\ state = [p \in Procs |-> "unused"]
  /\ calls = 0
  /\ held = 0
------------------------------------------------------------------------------
(* Faulty variants: the new head is read before the list is closed; the    *)
(* new end of the list keeps its link.                                     *)
RotateHeadFirst ==
  /\ rdy_tail' = rdy_head
  /\ rdy_head' = p_nextready[rdy_head]
  /\ p_nextready' = [p_nextready EXCEPT ![rdy_tail] = rdy_head, ![rdy_head] = NIL_PROC]
RotateUnended ==
  LET linked == [p_nextready EXCEPT ![rdy_tail] = rdy_head]
  IN  /\ rdy_tail' = rdy_head
      /\ rdy_head' = linked[rdy_head]
      /\ p_nextready' = linked

(* The head goes to the end of the list. *)
Rotate ==
  LET linked == [p_nextready EXCEPT ![rdy_tail] = rdy_head]
  IN  /\ rdy_tail' = rdy_head
      /\ rdy_head' = linked[rdy_head]
      /\ p_nextready' = [linked EXCEPT ![rdy_head] = NIL_PROC]

(* A process that is in sched() for the first time is only rotated. *)
SchedFirst ==
  /\ p_first[rdy_head] = 1
  /\ p_first' = [p_first EXCEPT ![rdy_head] = 0]
  /\ Rotate
  /\ held' = 0
  /\ UNCHANGED p_ticks

(* Faulty variant: the quantum is not renewed. *)
SchedSpentForGood ==
  /\ p_first[rdy_head] # 1 /\ p_ticks[rdy_head] - 1 = 0
  /\ p_ticks' = [p_ticks EXCEPT ![rdy_head] = @ - 1]
  /\ Rotate
  /\ held' = 0
  /\ UNCHANGED p_first

(* The last tick of a quantum: it is renewed, and the head rotated. *)
SchedSpent ==
  /\ p_first[rdy_head] # 1 /\ p_ticks[rdy_head] - 1 = 0
  /\ p_ticks' = [p_ticks EXCEPT ![rdy_head] = PROC_TIME[p_group[rdy_head]]]
  /\ Rotate
  /\ held' = 0
  /\ UNCHANGED p_first

(* Another tick of a quantum. *)
SchedTick ==
  /\ p_first[rdy_head] # 1 /\ p_ticks[rdy_head] - 1 # 0
  /\ p_ticks' = [p_ticks EXCEPT ![rdy_head] = @ - 1]
  /\ held' = held + 1
  /\ UNCHANGED <<listVars, p_first>>

(* sched(), with the longest hold that is of interest as a bound. *)
sched ==
  /\ rdy_head # NIL_PROC
  /\ held <= FULL
  /\ SchedFirst \/ SchedSpent \/ SchedTick
  /\ UNCHANGED <<p_group, PROC_TIME, state>>
------------------------------------------------------------------------------
(* do_fork: the group comes from the process number, and the quantum from  *)
(* the group.  The link is a copy of the parent's.                         *)
Fork(parent, p, PID) ==
  /\ state[p] = "unused" /\ state' = [state EXCEPT ![p] = "blocked"]
  /\ LET group == IF PID % 2 = 0 THEN GROUP_A ELSE GROUP_B
     IN  /\ p_group' = [p_group EXCEPT ![p] = group]
         /\ p_ticks' = [p_ticks EXCEPT ![p] = PROC_TIME[group]]
  /\ p_first' = [p_first EXCEPT ![p] = 1]
  /\ p_nextready' = [p_nextready EXCEPT ![p] = p_nextready[parent]]
  /\ UNCHANGED <<rdy_head, rdy_tail, PROC_TIME, held>>

(* Only a process of group A may set the proportion.  Its argument is not  *)
(* checked.                                                                *)
set_scheduler(p, x) ==
  /\ state[p] # "unused" /\ p_group[p] = GROUP_A
  /\ PROC_TIME' = Quanta(x)
  /\ UNCHANGED <<listVars, procVars, state, held>>

(* Faulty variant: the branch back to group A is missing. *)
ChangeToB(p) ==
  /\ state[p] # "unused"
  /\ p_group' = [p_group EXCEPT ![p] = GROUP_B]
  /\ UNCHANGED <<listVars, p_first, p_ticks, PROC_TIME, state, held>>

(* What is left of the quantum stays. *)
change_group(p) ==
  /\ state[p] # "unused"
  /\ p_group' = [p_group EXCEPT ![p] = IF @ = GROUP_A THEN GROUP_B ELSE GROUP_A]
  /\ UNCHANGED <<listVars, p_first, p_ticks, PROC_TIME, state, held>>

(* ready: at the front or at the end of the list. *)
ready(p) ==
  /\ state[p] = "blocked" /\ state' = [state EXCEPT ![p] = "ready"]
  /\ \/ /\ rdy_head = NIL_PROC
        /\ rdy_head' = p /\ rdy_tail' = p /\ held' = 0
        /\ p_nextready' = [p_nextready EXCEPT ![p] = NIL_PROC]
     \/ /\ rdy_head # NIL_PROC
        /\ rdy_head' = p /\ held' = 0
        /\ p_nextready' = [p_nextready EXCEPT ![p] = rdy_head]
        /\ UNCHANGED rdy_tail
     \/ /\ rdy_head # NIL_PROC
        /\ rdy_tail' = p
        /\ p_nextready' = [p_nextready EXCEPT ![rdy_tail] = p, ![p] = NIL_PROC]
        /\ UNCHANGED <<rdy_head, held>>
  /\ UNCHANGED <<procVars, PROC_TIME>>

(* unready, because the process waits or ends.  rdy_tail is left as it is  *)
(* when the list becomes empty.                                            *)
unready(p) ==
  /\ state[p] = "ready"
  /\ \E s \in {"blocked", "unused"} : state' = [state EXCEPT ![p] = s]
  /\ \/ /\ rdy_head = p
        /\ rdy_head' = p_nextready[p] /\ held' = 0
        /\ UNCHANGED <<rdy_tail, p_nextready>>
     \/ /\ rdy_head # p
        /\ \E q \in Procs :
             /\ state[q] = "ready" /\ p_nextready[q] = p
             /\ p_nextready' = [p_nextready EXCEPT ![q] = p_nextready[p]]
             /\ rdy_tail' = IF rdy_tail = p THEN q ELSE rdy_tail
        /\ UNCHANGED <<rdy_head, held>>
  /\ UNCHANGED <<procVars, PROC_TIME>>

Call(p) ==
  \/ \E parent \in Procs, PID \in 0..1 : Fork(parent, p, PID)
  \/ \E x \in Proportions : set_scheduler(p, x)
  \/ change_group(p) \/ ready(p) \/ unready(p)

Called == calls < MaxCalls /\ calls' = calls + 1

Next ==
  \/ sched /\ UNCHANGED calls
  \/ Called /\ \E p \in Procs : Call(p)

Spec == Init /\ [][Next]_vars

(* The clock goes on. *)
FairSpec == Spec /\ WF_vars(sched /\ UNCHANGED calls)
------------------------------------------------------------------------------
TypeOK ==
  /\ rdy_head \in Procs \cup {NIL_PROC} /\ rdy_tail \in Procs \cup {NIL_PROC}
  /\ p_nextready \in [Procs -> Procs \cup {NIL_PROC}]
  /\ p_first \in [Procs -> {0, 1}] /\ p_ticks \in [Procs -> Int]
  /\ p_group \in [Procs -> {GROUP_A, GROUP_B}]
  /\ PROC_TIME \in [{GROUP_A, GROUP_B} -> Int]
  /\ state \in [Procs -> {"unused", "blocked", "ready"}]
  /\ calls \in 0..MaxCalls /\ held \in Nat
  /\ rdy_head # NIL_PROC <=> \E p \in Procs : state[p] = "ready"

(* The process k places behind the head. *)
Behind[k \in Nat] ==
  IF k = 0 \/ rdy_head = NIL_PROC THEN rdy_head
  ELSE IF Behind[k - 1] = NIL_PROC THEN NIL_PROC ELSE p_nextready[Behind[k - 1]]

Ready == {p \in Procs : state[p] = "ready"}
n_ready == Cardinality(Ready)

(* The list from rdy_head to rdy_tail holds the ready processes, each one  *)
(* once, whatever rotations, forks and wake-ups came before: a rotation of *)
(* a list of one, or a stale tail, breaks nothing.                         *)
ListSound ==
  Ready # {} =>
    /\ {Behind[k] : k \in 0..n_ready - 1} = Ready
    /\ Behind[n_ready - 1] = rdy_tail
    /\ p_nextready[rdy_tail] = NIL_PROC

Line == INSTANCE ReadyQueue WITH line <- [k \in 1..n_ready |-> Behind[k - 1]]

(* sched only ever moves the head to the end of the line. *)
ImplementsReadyQueue == Line!Spec

(* No process keeps the processor for more ticks in a row than a whole     *)
(* period has, so that with a proportion x the group of the others gets    *)
(* FULL - x of it (koncepcja.pdf, page 1).                                 *)
HoldBounded == held < FULL

(* While the clock runs and calls no longer interfere, every process that  *)
(* stays ready runs again and again.                                       *)
EveryoneRuns ==
  \A p \in Procs : <>[](state[p] = "ready") => []<>(rdy_head = p)
==============================================================================
