------------------------------- MODULE MCCzacik -------------------------------
(***************************************************************************)
(* Czacik with a short ring, so that both indices wrap several times, and  *)
(* all numbers on the command line up to the bounds of the cfg.            *)
(***************************************************************************)
EXTENDS Czacik, TLC
==============================================================================
