------------------------------ MODULE MCChatting ------------------------------
(***************************************************************************)
(* Chatting with the numbers of the code, but for a ring that just holds   *)
(* the messages, and with runs killed at any point.                        *)
(***************************************************************************)
EXTENDS Chatting, TLC
==============================================================================
