-------------------------------- MODULE MCChat --------------------------------
(***************************************************************************)
(* Chat on small instances.  The threads are model values; the numbers of  *)
(* the command line range over everything up to the bounds of the cfg.     *)
(***************************************************************************)
EXTENDS Chat, TLC

CONSTANTS p1, r1, r2, rd

MCPriUsers == {p1}
MCRegUsers == {r1}
MCTwoRegUsers == {r1, r2}
==============================================================================
