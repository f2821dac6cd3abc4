-------------------------------- MODULE MCAlloc -------------------------------
(***************************************************************************)
(* Alloc on a small memory.  The clicks outside the chunk belong to        *)
(* nobody, as the kernel's own memory does.                                *)
(***************************************************************************)
EXTENDS Alloc, TLC

MCOneChunk == <<[base |-> 1, len |-> 3]>>
MCSizes == {1, 2}
MCBufferSizes == {-64, -3, -1} \cup 0..24 \cup {63}
==============================================================================
