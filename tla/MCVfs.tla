---------------------------------- MODULE MCVfs --------------------------------
(***************************************************************************)
(* Vfs on words of six bits and blocks of four bytes.  A positive int asks *)
(* for at most 11 data blocks; a size of 0 wraps around to 22.             *)
(***************************************************************************)
EXTENDS Vfs, TLC

Image(size, n, files, used) ==
  [EmptyFile EXCEPT !.size = size, !.n_datablocks = n, !.files = files, !.used = used]

(* Disks with files on them, one of them empty, one with several groups;   *)
(* copies cut short, one of them of the length of a smaller disk; a disk   *)
(* of no blocks; one of more blocks than an int counts; a file that is no  *)
(* disk.                                                                   *)
MCImages == {Image(32, 4, <<2, 5>>, {0, 2, 3}), Image(60, 11, <<0, 4>>, {1, 2, 8, 10}),
             Image(24, 11, <<9>>, {3}), Image(12, 11, <<3>>, {}), Image(12, 0, <<>>, {}),
             Image(24, 34, <<>>, {0}), Image(7, 50, <<>>, {})}

MCSymmetry == Permutations(Procs) \cup Permutations(Inodes)
==============================================================================
