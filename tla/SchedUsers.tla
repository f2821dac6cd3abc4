------------------------------ MODULE SchedUsers -------------------------------
(***************************************************************************)
(* The test programs of szeregowanie over its scheduler.  test_grupa sets  *)
(* the proportion, after a change of group if it has to.  procesy makes    *)
(* children that compute and end, and waits for all of them.               *)
(*                                                                         *)
(* A program makes a step when it has the processor, at the head of the    *)
(* list.  A call that goes to MM and comes back (mm_main.c passes it on to *)
(* the kernel, in the name of the caller) leaves the caller at the head,   *)
(* and is one step.  fork, wait, exit and kill are MM's; every other       *)
(* process makes the calls of Sched in any order.                          *)
(***************************************************************************)
EXTENDS Sched

CONSTANTS
  MaxChildren,    \* bound: children procesy is asked for
  Work,           \* ticks a child computes
  ProgramCalls    \* bound: test_grupa, and a child of procesy, count as that many calls

ASSUME UsersAssumption ==
  /\ MaxChildren \in Nat /\ Work \in Nat /\ ProgramCalls \in Nat

VARIABLES
  prog,           \* the program of each process
  at,             \* how far it has got
  left            \* children to make; ticks to compute; argument of test_grupa

userVars == <<prog, at, left>>
allVars == <<vars, userVars>>

UsersInit ==
  /\ Init
  /\ prog = [p \in Procs |-> "other"]
  /\ at = [p \in Procs |-> "any"]
  /\ left = [p \in Procs |-> 0]

Runs(p, program, place) == rdy_head = p /\ prog[p] = program /\ at[p] = place
Goto(p, place) == at' = [at EXCEPT ![p] = place] /\ UNCHANGED <<prog, left>>
Leave(p) ==
  /\ prog' = [prog EXCEPT ![p] = "other"]
  /\ at' = [at EXCEPT ![p] = "any"]
  /\ left' = [left EXCEPT ![p] = 0]
------------------------------------------------------------------------------
(* A process starts one of the programs. *)
Exec(p, program, place, n, cost) ==
  /\ rdy_head = p /\ prog[p] = "other"
  /\ calls + cost <= MaxCalls /\ calls' = calls + cost
  /\ prog' = [prog EXCEPT ![p] = program]
  /\ at' = [at EXCEPT ![p] = place]
  /\ left' = [left EXCEPT ![p] = n]
  /\ UNCHANGED <<listVars, procVars, PROC_TIME, state, held>>

(* test_grupa: set_scheduler, and again after a change of group when it    *)
(* gave -1.  A second -1 makes it print BLAD.                              *)
SetProportion(p) ==
  /\ rdy_head = p /\ prog[p] = "test_grupa" /\ at[p] \in {"set", "again"}
  /\ \/ set_scheduler(p, left[p]) /\ Leave(p)
     \/ /\ p_group[p] # GROUP_A
        /\ Goto(p, IF at[p] = "set" THEN "change" ELSE "BLAD")
        /\ UNCHANGED <<listVars, procVars, PROC_TIME, state, held>>
  /\ UNCHANGED calls

ChangeAndRetry(p) ==
  /\ Runs(p, "test_grupa", "change")
  /\ change_group(p)
  /\ Goto(p, "again")
  /\ UNCHANGED calls
------------------------------------------------------------------------------
(* procesy: its loop of forks.  The child's number decides its group. *)
ForkChild(p, c) ==
  /\ Runs(p, "procesy", "fork") /\ left[p] > 0
  /\ prog[c] = "other" /\ \E PID \in 0..1 : Fork(p, c, PID)
  /\ prog' = [prog EXCEPT ![c] = "child"]
  /\ at' = [at EXCEPT ![c] = "new"]
  /\ left' = [left EXCEPT ![p] = @ - 1, ![c] = Work]
  /\ UNCHANGED calls

(* No slot is free: fork gives -1, which the loop takes for a child made. *)
ForkFails(p) ==
  /\ Runs(p, "procesy", "fork") /\ left[p] > 0
  /\ \A c \in Procs : state[c] # "unused" \/ prog[c] # "other"
  /\ left' = [left EXCEPT ![p] = @ - 1]
  /\ UNCHANGED <<vars, prog, at>>

(* MM makes the child ready. *)
ReadyChild(c) ==
  /\ prog[c] = "child" /\ at[c] = "new"
  /\ ready(c)
  /\ Goto(c, "compute")
  /\ UNCHANGED calls

(* The clock; the running child computes. *)
Tick ==
  /\ sched
  /\ LET c == rdy_head
     IN  left' = [left EXCEPT ![c] = IF prog[c] = "child" /\ @ > 0 THEN @ - 1 ELSE @]
  /\ UNCHANGED <<calls, prog, at>>

Children == {c \in Procs : prog[c] = "child"}
Zombies == {c \in Children : at[c] \in {"zombie", "killed"}}

(* MM keeps the slot of a child that has ended for its parent; if procesy  *)
(* has ended before, init collects it.                                     *)
Ended(c, place) ==
  IF \E p \in Procs : prog[p] = "procesy" THEN Goto(c, place) ELSE Leave(c)

(* A child that has computed ends, *)
ExitChild(c) ==
  /\ Runs(c, "child", "compute") /\ left[c] = 0
  /\ unready(c) /\ state'[c] = "unused"
  /\ Ended(c, "zombie")
  /\ UNCHANGED calls

(* or is killed by a signal before. *)
KillChild(c) ==
  /\ prog[c] = "child" /\ at[c] = "compute"
  /\ unready(c) /\ state'[c] = "unused"
  /\ Ended(c, "killed")
  /\ UNCHANGED calls

(* procesy goes on when it has collected a child that made its exit; it    *)
(* ends at once when the child did not, or when times() fails.             *)
Collected(p, c) ==
  \E place \in {"fork", "end"} :
    /\ place = "fork" => at[c] = "zombie"
    /\ prog' = [prog EXCEPT ![c] = "other"]
    /\ at' = [at EXCEPT ![c] = "any", ![p] = place]
    /\ left' = [left EXCEPT ![c] = 0]

(* Faulty variant: the parent keeps the processor. *)
WaitBusy(p) ==
  /\ Runs(p, "procesy", "fork") /\ left[p] = 0
  /\ Children # {} /\ Zombies = {}
  /\ Goto(p, "wait")
  /\ UNCHANGED vars

(* wait: a child that has ended is collected, *)
Collect(p) ==
  /\ Runs(p, "procesy", "fork") /\ left[p] = 0
  /\ \E c \in Zombies : Collected(p, c)
  /\ UNCHANGED vars

(* or the parent blocks while there is none, *)
Wait(p) ==
  /\ Runs(p, "procesy", "fork") /\ left[p] = 0
  /\ Children # {} /\ Zombies = {}
  /\ unready(p) /\ state'[p] = "blocked"
  /\ Goto(p, "wait")
  /\ UNCHANGED calls

(* until MM has one for it; *)
WakeParent(p) ==
  /\ prog[p] = "procesy" /\ at[p] = "wait"
  /\ ready(p)
  /\ \E c \in Zombies : Collected(p, c)
  /\ UNCHANGED calls

(* and when there are no children, wait gives -1 and the program ends.     *)
(* init collects the children it has not collected.                        *)
End(p) ==
  /\ \/ Runs(p, "procesy", "fork") /\ left[p] = 0 /\ Children = {}
     \/ Runs(p, "procesy", "end")
  /\ unready(p) /\ state'[p] = "unused"
  /\ LET gone == {p} \cup Zombies
     IN  /\ prog' = [q \in Procs |-> IF q \in gone THEN "other" ELSE prog[q]]
         /\ at' = [q \in Procs |-> IF q \in gone THEN "any" ELSE at[q]]
         /\ left' = [q \in Procs |-> IF q \in gone THEN 0 ELSE left[q]]
  /\ UNCHANGED calls
------------------------------------------------------------------------------
(* One procesy at a time, with its children. *)
Start(p) ==
  \/ \E x \in Proportions : Exec(p, "test_grupa", "set", x, ProgramCalls)
  \/ /\ \A q \in Procs : prog[q] \notin {"procesy", "child"}
     /\ \E n \in 0..MaxChildren : Exec(p, "procesy", "fork", n, ProgramCalls * n)

(* What a program does with the processor, and what MM does for it. *)
Program(p) ==
  \/ SetProportion(p) \/ ChangeAndRetry(p)
  \/ (\E c \in Procs : ForkChild(p, c)) \/ ForkFails(p)
  \/ Collect(p) \/ Wait(p) \/ End(p) \/ ExitChild(p)
MM(p) == ReadyChild(p) \/ WakeParent(p)

Others(p) == prog[p] = "other" /\ Called /\ Call(p) /\ UNCHANGED userVars

UsersNext ==
  Tick \/ \E p \in Procs : Start(p) \/ Program(p) \/ MM(p) \/ KillChild(p) \/ Others(p)

UsersSpec == UsersInit /\ [][UsersNext]_allVars

(* The clock goes on, MM answers, and when programs have the processor     *)
(* again and again, one gets on: between two ticks there is time for a     *)
(* call.  A program makes finitely many steps.                             *)
FairUsers ==
  /\ UsersSpec /\ WF_allVars(Tick)
  /\ SF_allVars(\E p \in Procs : Program(p))
  /\ WF_allVars(\E p \in Procs : MM(p))
------------------------------------------------------------------------------
UsersTypeOK ==
  /\ TypeOK
  /\ prog \in [Procs -> {"other", "test_grupa", "procesy", "child"}]
  /\ at \in [Procs -> {"any", "set", "change", "again", "BLAD", "fork", "wait", "new",
                       "compute", "zombie", "killed", "end"}]
  /\ left \in [Procs -> Int]
  /\ \A p \in Procs : at[p] \in {"new", "wait"} => state[p] = "blocked"

(* Whoever sets the proportion meanwhile and whatever group the others     *)
(* choose, the second attempt of test_grupa succeeds (test_grupa.c:53-62). *)
NoBLAD == \A p \in Procs : at[p] # "BLAD"

(* procesy ends, and each of its children computes to its end and has its  *)
(* slot freed: whatever their groups and the proportion in force, with     *)
(* another process at work beside them, and also when a child is killed or *)
(* procesy gives up waiting (procesy.c:47-92).                             *)
ProcesyEnds ==
  \A p \in Procs : prog[p] \in {"procesy", "child"} ~> prog[p] = "other"
==============================================================================
