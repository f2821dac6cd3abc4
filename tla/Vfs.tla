---------------------------------- MODULE Vfs ----------------------------------
(***************************************************************************)
(* The programs createVFS, deleteVFS, readInfo and mls of system_plikow.   *)
(* Each works on a disk file given by its name, none takes a lock, and any *)
(* number of them may run at a time.  A step is one call of the C library  *)
(* or the system that touches a file.  As in UNIX, a name leads to an      *)
(* inode, and a program that has opened a file keeps its inode whatever    *)
(* happens to the name.                                                    *)
(*                                                                         *)
(* Nothing in the repository writes the directory or the bitmap: disks     *)
(* with files on them are among the Images found at the start.             *)
(***************************************************************************)
EXTENDS DiskLayout, FiniteSets, SequencesExt

CONSTANTS
  Procs,           \* processes that run the programs
  Names,           \* names of files
  Inodes,          \* enough of them for the names and for unlinked files
  NONE,            \* no inode
  DiskSizes,       \* sizes given to createVFS, as a size_type
  Images,          \* contents of the files there are at the start
  MaxRuns          \* bound: programs started

(* The contents of a file: its length, the superblock, the sizes of the    *)
(* files in the directory and the bits set in the bitmap, where they would *)
(* be; and the size createVFS was asked for (history).                     *)
EmptyFile == [size |-> 0, n_datablocks |-> 0, files |-> <<>>, used |-> {}, asked |-> 0]

ASSUME VfsAssumption ==
  /\ NONE \notin Inodes
  /\ Cardinality(Inodes) >= Cardinality(Names) + Cardinality(Procs)
  /\ DiskSizes \subseteq size_type
  /\ \A image \in Images : /\ DOMAIN image = DOMAIN EmptyFile
                              /\ image.size \in Nat /\ image.n_datablocks \in size_type
                              /\ image.files \in Seq(size_type)
                              /\ image.used \subseteq Nat /\ image.asked = 0
  /\ MaxRuns \in Nat

VARIABLES
  names,           \* the inode a name leads to
  inode,           \* contents of the inodes
  pc,              \* what a process does next
  job,             \* the program it runs, with its local variables
  runs,            \* number of programs started
  written,         \* history: processes whose file was written since they opened it
  disturbed        \* history: names on which a createVFS met a failure or another program

diskVars == <<names, inode, written, disturbed>>
vars == <<pc, job, runs, diskVars>>

NoSpace == [occupied |-> 0, available |-> 0, free |-> 0]
NoJob == [prog |-> "none", name |-> NONE, asked |-> 0, fd |-> NONE, ret |-> 0,
          n_datablocks |-> 0, files |-> <<>>, used |-> {}, groups |-> <<>>, space |-> NoSpace]

Init ==
  /\ names \in [Names -> Inodes \cup {NONE}]
  /\ \A f, g \in Names : names[f] = names[g] /\ names[f] # NONE => f = g
  /\ inode \in [Inodes -> Images \cup {EmptyFile}]
  /\ \A i \in Inodes : inode[i] = EmptyFile <=> \A f \in Names : names[f] # i
  /\ pc = [p \in Procs |-> "idle"]
  /\ job = [p \in Procs |-> NoJob]
  /\ runs = 0
  /\ written = {}
  /\ disturbed = {}
------------------------------------------------------------------------------
(* A new program, that makes its first call and goes on with the next. *)
Start(p, new, next) ==
  /\ pc[p] = "idle" /\ pc' = [pc EXCEPT ![p] = next]
  /\ runs < MaxRuns /\ runs' = runs + 1
  /\ job' = [job EXCEPT ![p] = new]

Step(p, from, to) == pc[p] = from /\ pc' = [pc EXCEPT ![p] = to] /\ UNCHANGED runs

Write(i, file) ==
  /\ inode' = [inode EXCEPT ![i] = file]
  /\ written' = written \cup {p \in Procs : job[p].fd = i}

Unused(i) == (\A f \in Names : names[f] # i) /\ (\A p \in Procs : job[p].fd # i)
Creating(f) == {p \in Procs : pc[p] \in {"fclose", "truncate"} /\ job[p].name = f}

(* fopen, of a name that leads nowhere or for another reason: code 1. *)
FopenFails(p, prog, f) ==
  /\ Start(p, [NoJob EXCEPT !.prog = prog, !.name = f, !.ret = 1], "idle")
  /\ UNCHANGED diskVars
------------------------------------------------------------------------------
(* create_VFS: fopen(filename, "wb") empties the file or makes a new one.  *)
FopenWb(p, f, s) ==
  \E i \in Inodes :
    /\ IF names[f] = NONE THEN Unused(i) ELSE i = names[f]
    /\ names' = [names EXCEPT ![f] = i]
    /\ Write(i, EmptyFile)
    /\ Start(p, [NoJob EXCEPT !.prog = "createVFS", !.name = f, !.asked = s, !.fd = i,
                              !.n_datablocks = FILE_CHUNKS_NEEDED_FOR_BYTES(s)], "fclose")
    /\ disturbed' = IF Creating(f) = {} THEN disturbed \ {f} ELSE disturbed \cup {f}

(* Faulty variant: the file is not closed. *)
WriteSuperblockUnclosed(p) ==
  /\ Step(p, "fclose", "truncate")
  /\ LET j == job[p]
     IN  Write(j.fd, [inode[j.fd] EXCEPT !.size = Max({@, INDEX_SIZE}), !.asked = j.asked,
                                         !.n_datablocks = j.n_datablocks])
  /\ UNCHANGED <<names, job, disturbed>>

(* The superblock reaches the file when it is closed, if it can be written. *)
WriteSuperblock(p) ==
  /\ Step(p, "fclose", "truncate")
  /\ LET j == job[p]
     IN  Write(j.fd, [inode[j.fd] EXCEPT !.size = Max({@, INDEX_SIZE}), !.asked = j.asked,
                                         !.n_datablocks = j.n_datablocks])
  /\ job' = [job EXCEPT ![p].fd = NONE]
  /\ UNCHANGED <<names, disturbed>>

WriteFails(p) ==
  /\ Step(p, "fclose", "truncate")
  /\ job' = [job EXCEPT ![p].fd = NONE]
  /\ disturbed' = disturbed \cup {job[p].name}
  /\ UNCHANGED <<names, inode, written>>

(* truncate goes by the name again, whatever it leads to by now.  Neither  *)
(* call is looked at: the code is 0.                                       *)
SetSize(p) ==
  LET i == names[job[p].name]
  IN  /\ Step(p, "truncate", "idle")
      /\ i # NONE
      /\ Write(i, [inode[i] EXCEPT !.size = PREDICTED_VFS_FILE_SIZE(job[p].n_datablocks)])
      /\ UNCHANGED <<names, job, disturbed>>

SetSizeFails(p) ==
  /\ Step(p, "truncate", "idle")
  /\ disturbed' = disturbed \cup {job[p].name}
  /\ UNCHANGED <<names, inode, job, written>>

(* deleteVFS: the name goes, and the inode with it once nobody has it open. *)
Unlink(p, f) ==
  /\ Start(p, [NoJob EXCEPT !.prog = "deleteVFS", !.name = f], "idle")
  /\ names' = [names EXCEPT ![f] = NONE]
  /\ disturbed' = IF Creating(f) = {} THEN disturbed ELSE disturbed \cup {f}
  /\ UNCHANGED <<inode, written>>
------------------------------------------------------------------------------
(* open_and_read_VFS, called by readInfo (with a bitmap) and mls (without). *)
FopenRb(p, prog, f) ==
  /\ names[f] # NONE
  /\ Start(p, [NoJob EXCEPT !.prog = prog, !.name = f, !.fd = names[f]], "ftell")
  /\ written' = written \ {p}
  /\ UNCHANGED <<names, inode, disturbed>>

Opened(p) == inode[job[p].fd]
Refuse(p, from, code) ==
  Step(p, from, "exit") /\ job' = [job EXCEPT ![p].ret = code]

(* fread of one item gives 1 when all of it is there; of no bytes it never *)
(* does.                                                                   *)
Fread(p, offset, bytes) == bytes > 0 /\ offset + bytes <= Opened(p).size

(* Faulty variant: the size is not compared. *)
FtellOnly(p) == Step(p, "ftell", "superblock") /\ UNCHANGED <<job, diskVars>>

(* The size is compared with the prediction for the n_datablocks of a      *)
(* superblock that has not been read yet: any word.                        *)
Ftell(p) ==
  /\ pc[p] = "ftell"
  /\ \E word \in size_type :
       IF Word(Opened(p).size) = PREDICTED_VFS_FILE_SIZE(word)
       THEN Step(p, "ftell", "superblock") /\ UNCHANGED job
       ELSE Refuse(p, "ftell", 2)
  /\ UNCHANGED diskVars

ReadSuperblock(p) ==
  /\ pc[p] = "superblock"
  /\ IF Fread(p, 0, INDEX_SIZE)
     THEN /\ Step(p, "superblock", "rootdir")
          /\ job' = [job EXCEPT ![p].n_datablocks = Opened(p).n_datablocks]
     ELSE Refuse(p, "superblock", 3)
  /\ UNCHANGED diskVars

ReadRootdir(p) ==
  /\ pc[p] = "rootdir"
  /\ IF Fread(p, ROOTDIR_BYTE_OFFSET, ROOTDIR_SIZE_BYTES)
     THEN /\ Step(p, "rootdir", IF job[p].prog = "readInfo" THEN "bitmap" ELSE "print")
          /\ job' = [job EXCEPT ![p].files = Opened(p).files]
     ELSE Refuse(p, "rootdir", 4)
  /\ UNCHANGED diskVars

ReadBitmap(p) ==
  LET bytes == BITNSLOTS(job[p].n_datablocks)
  IN  /\ pc[p] = "bitmap"
      /\ IF Fread(p, BITMAP_BYTE_OFFSET, bytes)
         THEN /\ Step(p, "bitmap", "print")
              /\ job' = [job EXCEPT ![p].used = {b \in Opened(p).used : BITSLOT(b) < bytes}]
         ELSE Refuse(p, "bitmap", 5)
      /\ UNCHANGED diskVars
------------------------------------------------------------------------------
(* The bits iterate_block_structure tests: the first, whatever max_loop    *)
(* is.  It counts them in a size_type, but is_free_bitmap_block takes an   *)
(* int: of the upper half of the words it makes negative numbers.          *)
AsInt(word) == IF word < WORDS \div 2 THEN word ELSE word - WORDS
TestedBits(max_loop) == {AsInt(i) : i \in {0} \cup 1..max_loop - 1}

(* Those that are in none of the bytes allocated for a bitmap of n blocks. *)
Outside(n) == {b \in TestedBits(n) : ~ (b >= 0 /\ BITSLOT(b) < BITNSLOTS(n))}

is_free_bitmap_block(i, block_usage_map) == i \notin block_usage_map

(* The groups of free and of occupied blocks up to a last one. *)
GroupsUpTo(last, map, addr_offset) ==
  LET Group(i) == [free |-> is_free_bitmap_block(AsInt(i), map),
                   addr |-> Word(addr_offset + i), size |-> 1]
      walk[i \in 0..last] ==
        IF i = 0 THEN <<Group(0)>>
        ELSE LET groups == walk[i - 1]
                 k == Len(groups)
             IN  IF is_free_bitmap_block(AsInt(i), map) = groups[k].free
                 THEN [groups EXCEPT ![k].size = @ + 1]
                 ELSE Append(groups, Group(i))
  IN  walk[last]

(* Faulty variant: the last block is not looked at. *)
IterateTooShort(structure, max_loop, addr_offset) ==
  GroupsUpTo(Max({0, max_loop - 2}), structure, addr_offset)

iterate_block_structure(structure, max_loop, addr_offset) ==
  GroupsUpTo(Max({0, max_loop - 1}), structure, addr_offset)

(* read_VFS_info prints the groups.  A bit outside the bitmap is what      *)
(* happens to be in memory there, or the program is killed.                *)
PrintStructure(p) ==
  LET n == job[p].n_datablocks
  IN  /\ job[p].prog = "readInfo"
      /\ Step(p, "print", "exit")
      /\ \E stray \in SUBSET Outside(n) :
           job' = [job EXCEPT ![p].groups =
                     iterate_block_structure(job[p].used \cup stray, n, DATA_BLOCK_OFFSET(n))]
      /\ UNCHANGED diskVars

PrintCrashes(p) ==
  /\ job[p].prog = "readInfo" /\ Outside(job[p].n_datablocks) # {}
  /\ Step(p, "print", "idle")
  /\ job' = [job EXCEPT ![p] = NoJob]
  /\ UNCHANGED diskVars

(* list_VFS_rootdir prints what the files occupy, in whole blocks. *)
Occupied(files) ==
  LET total[k \in 0..Len(files)] ==
        IF k = 0 THEN 0
        ELSE Word(total[k - 1] +
                  Word(FILE_CHUNKS_NEEDED_FOR_BYTES(files[k]) * FILE_DATA_CHUNK_SIZE))
  IN  total[Len(files)]

PrintListing(p) ==
  LET occupied == Occupied(job[p].files)
      available == Word(USABLE_DATA_SIZE_BYTES(job[p].n_datablocks))
  IN  /\ job[p].prog = "mls"
      /\ Step(p, "print", "exit")
      /\ job' = [job EXCEPT ![p].space =
                   [occupied |-> occupied, available |-> available,
                    free |-> Word(available - occupied)]]
      /\ UNCHANGED diskVars

(* The program ends, and with it goes the file, which the error paths have *)
(* not closed.                                                             *)
Exit(p) ==
  /\ Step(p, "exit", "idle")
  /\ job' = [job EXCEPT ![p] = NoJob]
  /\ UNCHANGED diskVars

Next ==
  \E p \in Procs :
    \/ \E f \in Names, prog \in {"createVFS", "readInfo", "mls"} : FopenFails(p, prog, f)
    \/ \E f \in Names : Unlink(p, f)
    \/ \E f \in Names, s \in DiskSizes : FopenWb(p, f, s)
    \/ \E f \in Names, prog \in {"readInfo", "mls"} : FopenRb(p, prog, f)
    \/ WriteSuperblock(p) \/ WriteFails(p) \/ SetSize(p) \/ SetSizeFails(p)
    \/ Ftell(p) \/ ReadSuperblock(p) \/ ReadRootdir(p) \/ ReadBitmap(p)
    \/ PrintStructure(p) \/ PrintCrashes(p) \/ PrintListing(p) \/ Exit(p)

Spec == Init /\ [][Next]_vars
------------------------------------------------------------------------------
Groups == [free : BOOLEAN, addr : size_type, size : Nat \ {0}]

TypeOK ==
  /\ names \in [Names -> Inodes \cup {NONE}]
  /\ \A i \in Inodes :
       /\ inode[i].size \in Nat /\ inode[i].n_datablocks \in size_type
       /\ inode[i].files \in Seq(size_type) /\ inode[i].used \subseteq Nat
       /\ inode[i].asked \in {0} \cup DiskSizes
  /\ pc \in [Procs -> {"idle", "fclose", "truncate", "ftell", "superblock", "rootdir",
                       "bitmap", "print", "exit"}]
  /\ \A p \in Procs :
       /\ job[p].ret \in 0..5 /\ job[p].n_datablocks \in size_type
       /\ job[p].groups \in Seq(Groups)
       /\ job[p].fd # NONE <=> pc[p] \notin {"idle", "truncate"}
  /\ runs \in 0..MaxRuns
  /\ written \subseteq Procs /\ disturbed \subseteq Names

(* The structure VFS.h draws (lines 14-19): one block of superblock, the   *)
(* directory, as few blocks as hold a bit for every data block, and the    *)
(* data blocks, up to the last byte of the file.                           *)
Whole(file) ==
  \E k \in 1..file.size :
    /\ file.size = (1 + DIR_BLOCKS + k + file.n_datablocks) * BLOCK_SIZE
    /\ (k - 1) * BLOCK_SIZE * CHAR_BIT < file.n_datablocks
    /\ file.n_datablocks <= k * BLOCK_SIZE * CHAR_BIT

(* A disk createVFS has made, of a size that is positive as an int, is     *)
(* whole and has room for that size, but for less than a block more; the   *)
(* readers change nothing.  Only a failed call or another program at work  *)
(* on the same name can spoil it (VFS.c:41-57, by name again at 54).       *)
DiskWhole ==
  \A f \in Names :
    LET file == inode[names[f]]
        room == file.n_datablocks * FILE_DATA_CHUNK_SIZE
    IN  /\ names[f] # NONE /\ f \notin disturbed /\ Creating(f) = {}
        /\ file.asked \in 1..WORDS \div 2 - 1
        => Whole(file) /\ file.asked \in room - FILE_DATA_CHUNK_SIZE + 1..room

(* Although the size is tested against a word nobody has read, it keeps    *)
(* files too short for a directory away: codes 3 and 4 come up only when   *)
(* the file is rewritten between two reads, and a whole disk never gets    *)
(* code 5 otherwise (VFS.c:84-112).                                        *)
RefusedForAReason ==
  \A p \in Procs :
    pc[p] = "exit" /\ p \notin written =>
      job[p].ret \notin {3, 4} /\ (job[p].ret = 5 => ~ Whole(Opened(p)))

(* The walk over the bitmap never tests a bit outside the bytes allocated  *)
(* for it, as long as the number of blocks in the superblock is an int,    *)
(* and whoever rewrote the file in between; in particular there is a first *)
(* bit (helpers.c:38, 46, VFS.c:106).  createVFS makes no disk of more     *)
(* blocks; in one that it has not made, the walk goes wrong beyond them.   *)
WalkInsideBitmap ==
  \A p \in Procs :
    /\ pc[p] = "print" /\ job[p].prog = "readInfo"
    /\ job[p].n_datablocks <= WORDS \div 2
    => Outside(job[p].n_datablocks) = {}

(* What readInfo prints of a file nobody wrote meanwhile, were it deleted  *)
(* or its name taken by another disk: the groups follow each other from    *)
(* the first data block to the last, alternate, and say of each block what *)
(* the bitmap says (helpers.c:29-63), if it has no more blocks than that.  *)
InfoTrue ==
  \A p \in Procs :
    LET file == Opened(p)
        groups == job[p].groups
        Blocks(g) == g.addr..g.addr + g.size - 1
        offset == DATA_BLOCK_OFFSET(file.n_datablocks)
    IN  /\ pc[p] = "exit" /\ job[p].ret = 0 /\ job[p].prog = "readInfo"
        /\ p \notin written /\ file.n_datablocks <= WORDS \div 2
        => /\ UNION {Blocks(groups[k]) : k \in DOMAIN groups}
                = offset..offset + file.n_datablocks - 1
           /\ \A k \in DOMAIN groups :
                /\ \A b \in Blocks(groups[k]) : groups[k].free <=> b - offset \notin file.used
                /\ k > 1 => /\ groups[k].free # groups[k - 1].free
                            /\ groups[k].addr = groups[k - 1].addr + groups[k - 1].size

(* The data blocks files of these sizes need, none being empty. *)
BlocksNeeded(files) ==
  LET needed[k \in 0..Len(files)] ==
        IF k = 0 THEN 0
        ELSE needed[k - 1] +
             CHOOSE n \in 1..files[k] : /\ files[k] <= n * FILE_DATA_CHUNK_SIZE
                                        /\ files[k] > (n - 1) * FILE_DATA_CHUNK_SIZE
  IN  needed[Len(files)]

(* The used and free space mls prints make up the whole disk, and hold     *)
(* every file, when the files fit and none is empty (VFS.c:151-165).  The  *)
(* sizes of files are bytes here: so mls counts and prints them, although  *)
(* VFS.h:41 and types.h:15 say that sizes are in blocks.                   *)
ListAddsUp ==
  \A p \in Procs :
    LET files == job[p].files
        blocks == BlocksNeeded(files)
        n == job[p].n_datablocks
    IN  /\ pc[p] = "exit" /\ job[p].ret = 0 /\ job[p].prog = "mls"
        /\ \A k \in DOMAIN files : files[k] > 0
        /\ blocks <= n /\ n * FILE_DATA_CHUNK_SIZE < WORDS
        => /\ job[p].space.occupied = blocks * FILE_DATA_CHUNK_SIZE
           /\ job[p].space.free = (n - blocks) * FILE_DATA_CHUNK_SIZE

(* What the readers print is true of the disk they have opened, although   *)
(* they hold no lock and read it piece by piece: the two above.            *)
PrintsTheTruth == InfoTrue /\ ListAddsUp
==============================================================================
