----------------------------- MODULE DiskLayout ------------------------------
(***************************************************************************)
(* The layout of a virtual disk: the macros of system_plikow/VFS.c and the *)
(* bitmap macros of types.h.                                               *)
(*                                                                         *)
(*   [superblock] [root directory] [bitmap] [data blocks]                  *)
(*                                                                         *)
(* size_type is unsigned and narrow: an operation whose operands are all   *)
(* of that type wraps, and is taken % WORDS here.  One with a sizeof among *)
(* its operands is done in size_t, which is wide enough for all of them.   *)
(***************************************************************************)
EXTENDS Integers

CONSTANTS
  BLOCK_SIZE,      \* 4096 in the code
  INDEX_SIZE,      \* sizeof(block_index_type) and sizeof(size_type), 4
  DIR_BLOCKS,      \* blocks of the root directory, 8 by MAX_FILECOUNT
  CHAR_BIT,        \* 8
  WORDS            \* number of values of a size_type, 2^32

ASSUME LayoutAssumption ==
  /\ INDEX_SIZE \in Nat \ {0} /\ BLOCK_SIZE \in Nat /\ BLOCK_SIZE - INDEX_SIZE > 1
  /\ DIR_BLOCKS \in Nat \ {0} /\ CHAR_BIT \in Nat \ {0}
  /\ WORDS \in Nat \ {0} /\ WORDS % BLOCK_SIZE = 0 /\ WORDS > BLOCK_SIZE /\ WORDS > CHAR_BIT
  /\ WORDS % 2 = 0

Word(x) == x % WORDS
size_type == 0..WORDS - 1
------------------------------------------------------------------------------
FILE_DATA_CHUNK_SIZE == BLOCK_SIZE - INDEX_SIZE

BLOCKS_NEEDED_FOR_BYTES(nb) == Word(nb - 1) \div BLOCK_SIZE + 1

FILE_CHUNKS_NEEDED_FOR_BYTES(nb) == Word(nb - 1) \div FILE_DATA_CHUNK_SIZE + 1

ROOTDIR_BYTE_OFFSET == BLOCK_SIZE
ROOTDIR_SIZE_BYTES == DIR_BLOCKS * BLOCK_SIZE

BITMAP_BYTE_OFFSET == ROOTDIR_BYTE_OFFSET + ROOTDIR_SIZE_BYTES
BITMAP_BLOCK_OFFSET == 1 + DIR_BLOCKS

(* Faulty variant: one byte for every full CHAR_BIT blocks. *)
BITNSLOTS_ROUNDED_DOWN(nb) == nb \div CHAR_BIT

BITNSLOTS(nb) == Word(nb + CHAR_BIT - 1) \div CHAR_BIT
BITSLOT(b) == b \div CHAR_BIT          \* of a b that is not negative

BITMAP_SIZE_BLOCKS(ndblocks) == BLOCKS_NEEDED_FOR_BYTES(BITNSLOTS(ndblocks))
BITMAP_SIZE_DISK_BYTES(ndblocks) == Word(BITMAP_SIZE_BLOCKS(ndblocks) * BLOCK_SIZE)

DATA_BYTE_OFFSET(ndblocks) == BITMAP_BYTE_OFFSET + BITMAP_SIZE_DISK_BYTES(ndblocks)
DATA_BLOCK_OFFSET(ndblocks) == BITMAP_BLOCK_OFFSET + BITMAP_SIZE_BLOCKS(ndblocks)
DATA_SIZE_DISK_BYTES(ndblocks) == Word(ndblocks * BLOCK_SIZE)
USABLE_DATA_SIZE_BYTES(ndblocks) == ndblocks * FILE_DATA_CHUNK_SIZE

(* Faulty variant: the bitmap is not counted. *)
PREDICTED_NO_BITMAP(ndblocks) == BITMAP_BYTE_OFFSET + DATA_SIZE_DISK_BYTES(ndblocks)

PREDICTED_VFS_FILE_SIZE(ndblocks) ==
  DATA_BYTE_OFFSET(ndblocks) + DATA_SIZE_DISK_BYTES(ndblocks)
==============================================================================
