-------------------------------- MODULE MCSched -------------------------------
(***************************************************************************)
(* Sched with a period of a few ticks instead of 100.                      *)
(***************************************************************************)
EXTENDS Sched, TLC
==============================================================================
