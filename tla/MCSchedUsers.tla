----------------------------- MODULE MCSchedUsers ------------------------------
(***************************************************************************)
(* SchedUsers with a period of a few ticks instead of 100.                 *)
(***************************************************************************)
EXTENDS SchedUsers, TLC

==============================================================================
