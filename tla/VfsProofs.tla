------------------------------- MODULE VfsProofs -------------------------------
(***************************************************************************)
(* Proofs about Vfs, for every layout, every set of disks found at the     *)
(* start and any number of programs at work: every invariant that the runs *)
(* of Vfs check.                                                           *)
(*                                                                         *)
(* First the arithmetic of the layout and the two loops of the readers,    *)
(* then the inductive invariant in three parts: the types, what a reader   *)
(* has found out, and what createVFS makes.                                *)
(***************************************************************************)
EXTENDS Vfs, TLAPS, WellFoundedInduction, NaturalsInduction

(* Division and remainder of naturals. *)
LEMMA DivFacts ==
  ASSUME NEW x \in Nat, NEW c \in Nat \ {0}
  PROVE  /\ x \div c \in Nat
         /\ c * (x \div c) <= x
         /\ x < c * (x \div c) + c
  BY SMT

LEMMA ModFacts ==
  ASSUME NEW c \in Nat \ {0}, NEW x \in Nat
  PROVE  /\ x % c \in 0..c - 1
         /\ x < c => x % c = x
         /\ c <= x /\ x < 2 * c => x % c = x - c
  BY SMT

LEMMA LessTimes ==
  ASSUME NEW a \in Nat, NEW b \in Nat, NEW c \in Nat \ {0}, c * a < c * b
  PROVE  a < b
  BY SMT

(* A bitmap of at least one byte has a bit for every block, even when the  *)
(* addition in BITNSLOTS wraps around.                                     *)
LEMMA BitsInside ==
  ASSUME NEW n \in size_type, BITNSLOTS(n) > 0, NEW b \in {0} \cup 1..n - 1
  PROVE  BITSLOT(b) < BITNSLOTS(n)
<1> DEFINE w == Word(n + CHAR_BIT - 1)
<1>1. /\ n \in Nat /\ n < WORDS
      /\ CHAR_BIT \in Nat \ {0} /\ WORDS \in Nat \ {0} /\ CHAR_BIT < WORDS
  BY LayoutAssumption DEF size_type
<1>2. w \in Nat /\ (w = n + CHAR_BIT - 1 \/ w < CHAR_BIT)
  <2> DEFINE x == n + CHAR_BIT - 1
  <2>1. x \in Nat /\ x < 2 * WORDS /\ x - WORDS < CHAR_BIT
    BY <1>1, SMT
  <2> HIDE DEF x
  <2>2. /\ x % WORDS \in 0..WORDS - 1
        /\ x < WORDS => x % WORDS = x
        /\ WORDS <= x /\ x < 2 * WORDS => x % WORDS = x - WORDS
    BY <1>1, <2>1, ModFacts
  <2>3. x % WORDS \in Nat /\ (x % WORDS = x \/ x % WORDS < CHAR_BIT)
    BY <1>1, <2>1, <2>2, SMT
  <2> QED BY <2>3 DEF Word, x
<1>3. BITNSLOTS(n) = w \div CHAR_BIT
  BY DEF BITNSLOTS
<1>4. ~ (w < CHAR_BIT)
  BY <1>1, <1>2, <1>3, BITNSLOTS(n) > 0, SMT
<1> HIDE DEF w
<1>5. b \in Nat /\ b + CHAR_BIT <= w
  BY <1>1, <1>2, <1>4, SMT
<1>6. CHAR_BIT * (b \div CHAR_BIT) < CHAR_BIT * (w \div CHAR_BIT)
  <2>1. CHAR_BIT * (b \div CHAR_BIT) <= b /\ b \div CHAR_BIT \in Nat
    BY <1>1, <1>5, DivFacts
  <2>2. w < CHAR_BIT * (w \div CHAR_BIT) + CHAR_BIT /\ w \div CHAR_BIT \in Nat
    BY <1>1, <1>2, DivFacts
  <2> QED BY <1>1, <1>2, <1>5, <2>1, <2>2, SMT
<1>7. b \div CHAR_BIT < w \div CHAR_BIT
  BY <1>1, <1>2, <1>5, <1>6, DivFacts, LessTimes
<1> QED BY <1>3, <1>7 DEF BITSLOT

(* The blocks an int counts are tested under their own numbers.            *)
LEMMA IntsAre ==
  ASSUME NEW i \in Nat, i < WORDS \div 2 PROVE AsInt(i) = i
  BY DEF AsInt

LEMMA NothingOutside ==
  ASSUME NEW n \in size_type, BITNSLOTS(n) > 0, n <= WORDS \div 2 PROVE Outside(n) = {}
<1> DEFINE half == WORDS \div 2
<1>1. n \in Nat /\ half \in Nat \ {0}
  BY LayoutAssumption DEF size_type
<1>2. n <= half
  OBVIOUS
<1>3. ASSUME NEW i \in {0} \cup 1..n - 1 PROVE AsInt(i) = i /\ i >= 0
  <2> HIDE DEF half
  <2>1. i \in Nat /\ i < half
    BY <1>1, <1>2
  <2> QED BY <2>1, IntsAre DEF half
<1>4. \A i \in {0} \cup 1..n - 1 : BITSLOT(i) < BITNSLOTS(n)
  BY BitsInside
<1>5. TestedBits(n) = {0} \cup 1..n - 1
  BY <1>3 DEF TestedBits
<1> QED BY <1>3, <1>4, <1>5 DEF Outside

(* createVFS makes no disk of more blocks than an int counts.              *)
LEMMA MadeIsNarrow ==
  \A s \in size_type : FILE_CHUNKS_NEEDED_FOR_BYTES(s) <= WORDS \div 2
<1> SUFFICES ASSUME NEW s \in size_type
             PROVE  FILE_CHUNKS_NEEDED_FOR_BYTES(s) <= WORDS \div 2
  OBVIOUS
<1> DEFINE x == Word(s - 1)
           c == FILE_DATA_CHUNK_SIZE
           q == x \div c
           half == WORDS \div 2
<1>1. WORDS \in Nat \ {0} /\ WORDS % 2 = 0 /\ s \in Int
  BY LayoutAssumption DEF size_type
<1>2. half \in Nat /\ WORDS = 2 * half
  BY <1>1
<1>3. x \in Nat /\ x < 2 * half
  <2>1. (s - 1) % WORDS \in 0..WORDS - 1
    BY <1>1
  <2> QED BY <1>2, <2>1 DEF Word
<1>4. c \in Nat /\ c >= 2
  BY LayoutAssumption DEF FILE_DATA_CHUNK_SIZE
<1> HIDE DEF x, c, half
<1>5. q \in Nat /\ c * q <= x
  BY <1>3, <1>4, DivFacts
<1> HIDE DEF q
<1>6. 2 * q <= c * q
  BY <1>4, <1>5, SMT
<1>7. q + 1 <= half
  <2> DEFINE y == c * q
  <2>1. y \in Nat /\ 2 * q <= y /\ y <= x
    BY <1>4, <1>5, <1>6, SMT
  <2> HIDE DEF y
  <2> QED BY <1>2, <1>3, <1>5, <2>1
<1> QED BY <1>7 DEF FILE_CHUNKS_NEEDED_FOR_BYTES, q, x, c, half

(* What createVFS writes into the superblock fits it, for any size. *)
LEMMA ChunksFit ==
  ASSUME NEW s \in size_type
  PROVE  FILE_CHUNKS_NEEDED_FOR_BYTES(s) \in size_type
<1> DEFINE w == Word(s - 1)
           c == FILE_DATA_CHUNK_SIZE
<1>1. /\ WORDS \in Nat \ {0} /\ WORDS >= 3 /\ s - 1 \in Int
      /\ c \in Nat \ {0} /\ c >= 2
  BY LayoutAssumption, SMT DEF size_type, FILE_DATA_CHUNK_SIZE
<1>2. w \in Nat /\ w < WORDS
  BY <1>1, SMT DEF Word
<1> HIDE DEF w, c
<1>3. w \div c \in Nat /\ c * (w \div c) <= w
  BY <1>1, <1>2, DivFacts
<1>4. 2 * (w \div c) <= c * (w \div c)
  BY <1>1, <1>3, SMT
<1>5. w \div c + 1 \in 0..WORDS - 1
  BY <1>1, <1>2, <1>3, <1>4, SMT
<1> QED BY <1>5 DEF FILE_CHUNKS_NEEDED_FOR_BYTES, size_type, w, c

(* What the layout amounts to, and what Word does.                         *)
LEMMA LayoutIs ==
  /\ BLOCK_SIZE \in Nat \ {0} /\ INDEX_SIZE \in Nat \ {0} /\ DIR_BLOCKS \in Nat \ {0}
  /\ CHAR_BIT \in Nat \ {0} /\ WORDS \in Nat \ {0}
  /\ INDEX_SIZE < BLOCK_SIZE /\ BLOCK_SIZE < WORDS /\ CHAR_BIT < WORDS
  /\ FILE_DATA_CHUNK_SIZE \in Nat \ {0} /\ 1 < FILE_DATA_CHUNK_SIZE
  /\ FILE_DATA_CHUNK_SIZE < BLOCK_SIZE
  BY LayoutAssumption, SMT DEF FILE_DATA_CHUNK_SIZE

LEMMA WordIs ==
  ASSUME NEW x \in Int
  PROVE  /\ Word(x) \in size_type
         /\ x \in 0..WORDS - 1 => Word(x) = x
<1>1. WORDS \in Nat \ {0}
  BY LayoutIs
<1>2. x % WORDS \in 0..WORDS - 1 /\ (x \in 0..WORDS - 1 => x % WORDS = x)
  BY <1>1, SMT
<1> QED BY <1>2 DEF Word, size_type

(* Where the bitmap begins.                                                *)
LEMMA OffsetsAre ==
  /\ BITMAP_BYTE_OFFSET \in Nat /\ BITMAP_BYTE_OFFSET = (1 + DIR_BLOCKS) * BLOCK_SIZE
  /\ ROOTDIR_BYTE_OFFSET + ROOTDIR_SIZE_BYTES = BITMAP_BYTE_OFFSET
  /\ ROOTDIR_SIZE_BYTES > 0
  /\ INDEX_SIZE <= BITMAP_BYTE_OFFSET
<1> DEFINE d == DIR_BLOCKS * BLOCK_SIZE
<1>1. d \in Nat /\ d > 0 /\ (1 + DIR_BLOCKS) * BLOCK_SIZE = BLOCK_SIZE + d
  BY LayoutIs, SMT
<1> HIDE DEF d
<1> QED BY <1>1, LayoutIs DEF BITMAP_BYTE_OFFSET, ROOTDIR_BYTE_OFFSET, ROOTDIR_SIZE_BYTES, d

LEMMA DivMonotone ==
  ASSUME NEW c \in Nat \ {0}, NEW x \in Nat, NEW y \in Nat, x <= y
  PROVE  x \div c <= y \div c
<1> DEFINE a == x \div c
           b == y \div c
<1>1. a \in Nat /\ b \in Nat /\ c * a <= x /\ y < c * b + c
  BY DivFacts
<1> HIDE DEF a, b
<1>2. c * a < c * (b + 1)
  BY <1>1, SMT
<1>3. a < b + 1
  BY <1>1, <1>2, LessTimes
<1> QED BY <1>1, <1>3 DEF a, b

(* How many data blocks a size takes.                                      *)
LEMMA ChunksAre ==
  ASSUME NEW s \in Nat, 0 < s, s < WORDS
  PROVE  /\ FILE_CHUNKS_NEEDED_FOR_BYTES(s) \in 1..s
         /\ s <= FILE_CHUNKS_NEEDED_FOR_BYTES(s) * FILE_DATA_CHUNK_SIZE
         /\ FILE_CHUNKS_NEEDED_FOR_BYTES(s) * FILE_DATA_CHUNK_SIZE < s + FILE_DATA_CHUNK_SIZE
         /\ FILE_CHUNKS_NEEDED_FOR_BYTES(s) = (s - 1) \div FILE_DATA_CHUNK_SIZE + 1
<1> DEFINE c == FILE_DATA_CHUNK_SIZE
           q == (s - 1) \div c
<1>1. c \in Nat \ {0} /\ s - 1 \in Nat /\ Word(s - 1) = s - 1
  BY LayoutIs, WordIs
<1>2. FILE_CHUNKS_NEEDED_FOR_BYTES(s) = q + 1
  BY <1>1 DEF FILE_CHUNKS_NEEDED_FOR_BYTES
<1>3. q \in Nat /\ c * q <= s - 1 /\ s - 1 < c * q + c
  BY <1>1, DivFacts
<1> HIDE DEF q, c
<1>4. (q + 1) * c = c * q + c /\ c * q \in Nat /\ q <= c * q
  BY <1>1, <1>3, SMT
<1> QED BY <1>1, <1>2, <1>3, <1>4 DEF c, q

(* The bytes of a bitmap, as long as nothing wraps around.                 *)
LEMMA BytesAre ==
  ASSUME NEW n \in Nat \ {0}, n + CHAR_BIT <= WORDS
  PROVE  /\ BITNSLOTS(n) \in Nat \ {0}
         /\ n <= CHAR_BIT * BITNSLOTS(n)
         /\ CHAR_BIT * BITNSLOTS(n) < n + CHAR_BIT
         /\ BITNSLOTS(n) <= n
<1> DEFINE x == n + CHAR_BIT - 1
           b == x \div CHAR_BIT
<1>1. CHAR_BIT \in Nat \ {0} /\ x \in Nat /\ x \in 0..WORDS - 1
  BY LayoutIs
<1>2. BITNSLOTS(n) = b
  BY <1>1, WordIs DEF BITNSLOTS
<1>3. b \in Nat /\ CHAR_BIT * b <= x /\ x < CHAR_BIT * b + CHAR_BIT
  BY <1>1, DivFacts
<1> HIDE DEF b
<1>4. n <= CHAR_BIT * b /\ CHAR_BIT * b < n + CHAR_BIT
  BY <1>1, <1>3
<1>5. b # 0
  BY <1>1, <1>3, <1>4
<1>6. CHAR_BIT * b < CHAR_BIT * (n + 1)
  <2>1. CHAR_BIT * (n + 1) = CHAR_BIT * n + CHAR_BIT /\ n <= CHAR_BIT * n /\ CHAR_BIT * n \in Nat
    BY <1>1, SMT
  <2> QED BY <1>1, <1>3, <1>4, <2>1
<1>7. b < n + 1
  BY <1>1, <1>3, <1>6, LessTimes
<1> QED BY <1>2, <1>3, <1>4, <1>5, <1>7

(* The blocks of a bitmap.                                                 *)
LEMMA BitmapBlocksAre ==
  ASSUME NEW n \in Nat \ {0}, n + CHAR_BIT <= WORDS
  PROVE  /\ BITMAP_SIZE_BLOCKS(n) \in 1..n
         /\ (BITMAP_SIZE_BLOCKS(n) - 1) * BLOCK_SIZE < BITNSLOTS(n)
         /\ BITNSLOTS(n) <= BITMAP_SIZE_BLOCKS(n) * BLOCK_SIZE
<1> DEFINE b == BITNSLOTS(n)
           q == (b - 1) \div BLOCK_SIZE
<1>1. b \in Nat \ {0} /\ b <= n /\ BLOCK_SIZE \in Nat \ {0} /\ CHAR_BIT \in Nat \ {0}
      /\ WORDS \in Nat
  BY BytesAre, LayoutIs
<1> HIDE DEF b
<1>2. b - 1 \in 0..WORDS - 1 /\ b - 1 \in Nat
  BY <1>1
<1>3. BITMAP_SIZE_BLOCKS(n) = q + 1
  BY <1>2, WordIs DEF BITMAP_SIZE_BLOCKS, BLOCKS_NEEDED_FOR_BYTES, b
<1>4. q \in Nat /\ BLOCK_SIZE * q <= b - 1 /\ b - 1 < BLOCK_SIZE * q + BLOCK_SIZE
  BY <1>1, <1>2, DivFacts
<1> HIDE DEF q
<1>5. /\ (q + 1) * BLOCK_SIZE = BLOCK_SIZE * q + BLOCK_SIZE
      /\ (q + 1 - 1) * BLOCK_SIZE = BLOCK_SIZE * q
      /\ q <= BLOCK_SIZE * q /\ BLOCK_SIZE * q \in Nat
  BY <1>1, <1>4, SMT
<1> QED BY <1>1, <1>3, <1>4, <1>5 DEF b

(* A file of the predicted size is whole, unless a number wraps around.    *)
LEMMA PredictedIsWhole ==
  ASSUME NEW file, NEW n \in Nat \ {0}, n + CHAR_BIT <= WORDS, n * BLOCK_SIZE < WORDS,
         file.n_datablocks = n, file.size = PREDICTED_VFS_FILE_SIZE(n)
  PROVE  Whole(file)
<1> DEFINE k == BITMAP_SIZE_BLOCKS(n)
           b == BITNSLOTS(n)
           d == k - 1
<1>1. /\ k \in Nat /\ k >= 1 /\ k <= n /\ b \in Nat \ {0} /\ d \in Nat /\ k = d + 1
      /\ d * BLOCK_SIZE < b /\ b <= k * BLOCK_SIZE
      /\ n <= CHAR_BIT * b /\ CHAR_BIT * b < n + CHAR_BIT
  BY BitmapBlocksAre, BytesAre
<1>2. /\ BLOCK_SIZE \in Nat \ {0} /\ CHAR_BIT \in Nat \ {0}
      /\ WORDS \in Nat \ {0} /\ DIR_BLOCKS \in Nat
  BY LayoutIs
<1> HIDE DEF k, b, d
<1>3. k * BLOCK_SIZE \in Nat /\ n * BLOCK_SIZE \in Nat /\ k * BLOCK_SIZE <= n * BLOCK_SIZE
  BY <1>1, <1>2, SMT
<1>4. Word(k * BLOCK_SIZE) = k * BLOCK_SIZE /\ Word(n * BLOCK_SIZE) = n * BLOCK_SIZE
  <2> DEFINE x == k * BLOCK_SIZE
             y == n * BLOCK_SIZE
  <2>1. x \in Nat /\ y \in Nat /\ x <= y /\ y < WORDS
    BY <1>3
  <2> HIDE DEF x, y
  <2>2. Word(x) = x /\ Word(y) = y
    BY <1>2, <2>1, WordIs
  <2> QED BY <2>2 DEF x, y
<1>5. file.size = BITMAP_BYTE_OFFSET + k * BLOCK_SIZE + n * BLOCK_SIZE
  BY <1>4 DEF PREDICTED_VFS_FILE_SIZE, DATA_BYTE_OFFSET, BITMAP_SIZE_DISK_BYTES,
              DATA_SIZE_DISK_BYTES, k
<1>6. file.size = (1 + DIR_BLOCKS + k + n) * BLOCK_SIZE
  <2>1. (1 + DIR_BLOCKS + k + n) * BLOCK_SIZE
          = (1 + DIR_BLOCKS) * BLOCK_SIZE + k * BLOCK_SIZE + n * BLOCK_SIZE
    BY <1>1, <1>2, SMT
  <2> QED BY <1>5, <2>1, OffsetsAre
<1>7. k \in 1..file.size
  <2> DEFINE s == 1 + DIR_BLOCKS + k + n
  <2>1. s \in Nat /\ k <= s
    BY <1>1, <1>2
  <2>2. s * BLOCK_SIZE \in Nat /\ s <= s * BLOCK_SIZE
    <3> HIDE DEF s
    <3> QED BY <1>2, <2>1, SMT
  <2> QED BY <1>1, <1>6, <2>1, <2>2
<1>8. (k - 1) * BLOCK_SIZE * CHAR_BIT < n
  <2> DEFINE x == d * BLOCK_SIZE
  <2>1. x \in Nat /\ x + 1 <= b /\ (k - 1) * BLOCK_SIZE = x
    BY <1>1, <1>2, SMT
  <2> HIDE DEF x
  <2>2. CHAR_BIT * (x + 1) <= CHAR_BIT * b
    BY <1>1, <1>2, <2>1, SMT
  <2>3. CHAR_BIT * (x + 1) = CHAR_BIT * x + CHAR_BIT /\ x * CHAR_BIT = CHAR_BIT * x
        /\ CHAR_BIT * x \in Nat /\ CHAR_BIT * b \in Nat
    BY <1>1, <1>2, <2>1, SMT
  <2> QED BY <1>1, <1>2, <2>1, <2>2, <2>3
<1>9. n <= k * BLOCK_SIZE * CHAR_BIT
  <2> DEFINE x == k * BLOCK_SIZE
  <2>1. x \in Nat /\ b <= x
    BY <1>1, <1>3
  <2> HIDE DEF x
  <2>2. CHAR_BIT * b <= x * CHAR_BIT
    BY <1>1, <1>2, <2>1, SMT
  <2>3. CHAR_BIT * b \in Nat /\ x * CHAR_BIT \in Nat
    BY <1>1, <1>2, <2>1, SMT
  <2>4. n <= x * CHAR_BIT
    BY <1>1, <2>2, <2>3
  <2> QED BY <2>4 DEF x
<1> HIDE DEF k
<1>10. \E j \in 1..file.size :
         /\ file.size = (1 + DIR_BLOCKS + j + file.n_datablocks) * BLOCK_SIZE
         /\ (j - 1) * BLOCK_SIZE * CHAR_BIT < file.n_datablocks
         /\ file.n_datablocks <= j * BLOCK_SIZE * CHAR_BIT
  BY <1>6, <1>7, <1>8, <1>9
<1> QED BY <1>10 DEF Whole
------------------------------------------------------------------------------
(* The bitmap is there, as far as the superblock says.                     *)
HasBitmap(file) ==
  LET bytes == BITNSLOTS(file.n_datablocks)
  IN  bytes > 0 /\ BITMAP_BYTE_OFFSET + bytes <= file.size

(* The numbers computed for n data blocks do not wrap around.              *)
Modest(n) == n + CHAR_BIT <= WORDS /\ DATA_BLOCK_OFFSET(n) + n <= WORDS

(* A whole disk has its bitmap, unless a number wraps around.              *)
LEMMA WholeHasBitmap ==
  ASSUME NEW file, file.n_datablocks \in Nat, Modest(file.n_datablocks), Whole(file)
  PROVE  HasBitmap(file)
<1> DEFINE n == file.n_datablocks
           b == BITNSLOTS(n)
<1>1. /\ BLOCK_SIZE \in Nat \ {0} /\ CHAR_BIT \in Nat \ {0}
      /\ WORDS \in Nat \ {0} /\ DIR_BLOCKS \in Nat
  BY LayoutIs
<1>2. PICK k \in 1..file.size : /\ file.size = (1 + DIR_BLOCKS + k + n) * BLOCK_SIZE
                                /\ (k - 1) * BLOCK_SIZE * CHAR_BIT < n
                                /\ n <= k * BLOCK_SIZE * CHAR_BIT
  BY DEF Whole
<1>3. n \in Nat /\ n # 0
  <2>1. k - 1 \in Nat
    BY <1>2
  <2>2. (k - 1) * BLOCK_SIZE * CHAR_BIT \in Nat
    <3> DEFINE j == k - 1
    <3> HIDE DEF j
    <3>1. j * BLOCK_SIZE * CHAR_BIT \in Nat
      BY <1>1, <2>1, SMT DEF j
    <3> QED BY <3>1 DEF j
  <2> QED BY <1>2, <2>2
<1>4. b \in Nat \ {0} /\ CHAR_BIT * b < n + CHAR_BIT
  BY <1>3, BytesAre DEF Modest
<1> HIDE DEF b, n
<1> DEFINE x == k * BLOCK_SIZE
<1>5. x \in Nat
  BY <1>1, <1>2, SMT
<1>6. file.size = BITMAP_BYTE_OFFSET + x + n * BLOCK_SIZE /\ n * BLOCK_SIZE \in Nat
      /\ BITMAP_BYTE_OFFSET \in Nat
  <2>1. (1 + DIR_BLOCKS + k + n) * BLOCK_SIZE
          = (1 + DIR_BLOCKS) * BLOCK_SIZE + k * BLOCK_SIZE + n * BLOCK_SIZE
    BY <1>1, <1>2, <1>3, SMT
  <2>2. n * BLOCK_SIZE \in Nat
    BY <1>1, <1>3, SMT
  <2> QED BY <1>2, <2>1, <2>2, OffsetsAre
<1>7. b <= x
  <2> HIDE DEF x
  <2>1. n <= x * CHAR_BIT
    BY <1>2 DEF x
  <2>2. x * CHAR_BIT \in Nat /\ CHAR_BIT * (x + 1) = x * CHAR_BIT + CHAR_BIT
        /\ CHAR_BIT * b \in Nat
    BY <1>1, <1>4, <1>5, SMT
  <2>3. CHAR_BIT * b < CHAR_BIT * (x + 1)
    BY <1>1, <1>3, <1>4, <2>1, <2>2
  <2>4. b < x + 1
    BY <1>1, <1>4, <1>5, <2>3, LessTimes
  <2> QED BY <1>4, <1>5, <2>4
<1>8. b > 0 /\ BITMAP_BYTE_OFFSET + b <= file.size
  <2> HIDE DEF x
  <2>1. n * BLOCK_SIZE \in Nat /\ file.size = BITMAP_BYTE_OFFSET + x + n * BLOCK_SIZE
        /\ BITMAP_BYTE_OFFSET \in Nat
    BY <1>6
  <2> DEFINE y == n * BLOCK_SIZE
  <2> HIDE DEF y
  <2>2. y \in Nat /\ file.size = BITMAP_BYTE_OFFSET + x + y
    BY <2>1 DEF y
  <2> QED BY <1>4, <1>5, <1>7, <2>1, <2>2
<1> QED BY <1>8 DEF HasBitmap, b, n

(* A superblock of no data blocks makes no disk.                           *)
LEMMA NoBlocks ==
  ASSUME NEW file, file.n_datablocks = 0
  PROVE  ~ Whole(file) /\ ~ HasBitmap(file)
<1>0. BLOCK_SIZE \in Nat \ {0} /\ CHAR_BIT \in Nat \ {0} /\ WORDS \in Nat \ {0} /\ CHAR_BIT < WORDS
  BY LayoutIs
<1>1. ~ Whole(file)
  <2> SUFFICES ASSUME NEW k \in 1..file.size, (k - 1) * BLOCK_SIZE * CHAR_BIT < 0 PROVE FALSE
    BY DEF Whole
  <2> DEFINE j == k - 1
  <2>1. j \in Nat
    OBVIOUS
  <2> HIDE DEF j
  <2>2. j * BLOCK_SIZE * CHAR_BIT \in Nat
    BY <1>0, <2>1, SMT
  <2> QED BY <2>2 DEF j
<1>2. BITNSLOTS(0) = 0
  <2> DEFINE x == CHAR_BIT - 1
  <2>1. x \in Nat /\ x \in 0..WORDS - 1 /\ 0 + CHAR_BIT - 1 = x /\ x < CHAR_BIT
    BY <1>0
  <2> HIDE DEF x
  <2>2. Word(x) = x
    BY <2>1, WordIs
  <2>3. x \div CHAR_BIT = 0
    BY <1>0, <2>1, SMT
  <2> QED BY <2>1, <2>2, <2>3 DEF BITNSLOTS
<1>3. ~ HasBitmap(file)
  BY <1>2 DEF HasBitmap
<1> QED BY <1>1, <1>3
------------------------------------------------------------------------------
(* Induction up to n, with the numbers for which something holds as a set. *)
LEMMA UpTo ==
  ASSUME NEW n \in Nat, NEW T, 0 \in T, \A k \in 1..n : k - 1 \in T => k \in T
  PROVE  \A k \in 0..n : k \in T
<1> DEFINE Bad == {k \in 0..n : k \notin T}
<1> SUFFICES ASSUME Bad # {} PROVE FALSE
  OBVIOUS
<1>1. Bad \in SUBSET Nat /\ Bad # {}
  OBVIOUS
<1>2. \E k \in Bad : \A j \in Bad : <<j, k>> \notin OpToRel(<, Nat)
  <2> HIDE DEF Bad
  <2> QED BY <1>1, NatLessThanWellFounded, WFMin
<1>3. PICK k \in Bad : \A j \in Bad : <<j, k>> \notin OpToRel(<, Nat)
  BY <1>2
<1>4. k \in 1..n
  OBVIOUS
<1>5. k - 1 \notin Bad
  <2>1. k - 1 \in Nat /\ k \in Nat /\ k - 1 < k
    BY <1>4
  <2> HIDE DEF Bad
  <2> QED BY <1>3, <2>1 DEF OpToRel
<1> QED BY <1>4, <1>5

(* A loop that computes each value from the one before has its values.     *)
Stays(n, S, g) == \A x \in S : \A k \in 1..n : g[<<x, k>>] \in S

LoopOf(n, S, a, g, f) ==
  f \in [0..n -> S] /\ f[0] = a /\ \A k \in 1..n : f[k] = g[<<f[k - 1], k>>]

(* The function a loop defines exists and is what the loop says.           *)
LEMMA LoopRuns ==
  ASSUME NEW n \in Nat, NEW S, NEW a \in S, NEW g, Stays(n, S, g)
  PROVE  \E f : LoopOf(n, S, a, g, f)
<1> DEFINE Runs(m, f) == f[0] = a /\ \A k \in 1..m : f[k] = g[<<f[k - 1], k>>]
           T == {m \in 0..n : \E f \in [0..m -> S] : Runs(m, f)}
<1>1. 0 \in T
  <2> DEFINE f == [k \in 0..0 |-> a]
  <2>1. f \in [0..0 -> S] /\ Runs(0, f)
    OBVIOUS
  <2>2. \E e \in [0..0 -> S] : Runs(0, e)
    <3> HIDE DEF f
    <3> QED BY <2>1
  <2>3. 0 \in 0..n
    OBVIOUS
  <2> HIDE DEF f, Runs
  <2> QED BY <2>2, <2>3
<1>2. ASSUME NEW k \in 1..n, k - 1 \in T PROVE k \in T
  <2>1. PICK f \in [0..k - 1 -> S] : Runs(k - 1, f)
    BY <1>2
  <2> DEFINE v == g[<<f[k - 1], k>>]
             e == [i \in 0..k |-> IF i = k THEN v ELSE f[i]]
  <2>2. k - 1 \in 0..k - 1 /\ k \in Nat /\ k # 0
    OBVIOUS
  <2>3. v \in S
    BY <2>1, <2>2 DEF Stays
  <2>4. e \in [0..k -> S]
    <3>1. \A i \in 0..k : i # k => i \in 0..k - 1
      OBVIOUS
    <3> HIDE DEF v
    <3> QED BY <2>1, <2>3, <3>1
  <2>5. e[k] = v /\ \A i \in 0..k - 1 : e[i] = f[i]
    <3>1. \A i \in 0..k - 1 : i \in 0..k /\ i # k
      OBVIOUS
    <3> HIDE DEF v
    <3> QED BY <2>2, <3>1
  <2> HIDE DEF e
  <2>6. e[0] = a
    <3>1. 0 \in 0..k - 1
      OBVIOUS
    <3> QED BY <2>1, <2>5, <3>1
  <2>7. ASSUME NEW i \in 1..k PROVE e[i] = g[<<e[i - 1], i>>]
    <3>1. CASE i = k
      BY <2>2, <2>5, <3>1
    <3>2. CASE i # k
      <4>1. i \in 0..k - 1 /\ i - 1 \in 0..k - 1 /\ i \in 1..k - 1
        BY <3>2
      <4> QED BY <2>1, <2>5, <4>1
    <3> QED BY <3>1, <3>2
  <2>8. Runs(k, e)
    BY <2>6, <2>7
  <2> QED BY <2>4, <2>8
<1>3. \A k \in 0..n : k \in T
  <2> HIDE DEF T
  <2> QED BY <1>1, <1>2, UpTo
<1>4. n \in T
  <2> HIDE DEF T
  <2> QED BY <1>3
<1> QED BY <1>4 DEF LoopOf
------------------------------------------------------------------------------
(* The greater of 0 and a number, which iterate_block_structure starts     *)
(* from.                                                                   *)
LEMMA MaxOfTwo ==
  ASSUME NEW a \in Int, NEW b \in Int
  PROVE  Max({a, b}) = IF a >= b THEN a ELSE b
<1> DEFINE c == IF a >= b THEN a ELSE b
<1>1. c \in {a, b} /\ \A y \in {a, b} : c >= y
  OBVIOUS
<1>2. \A x \in {a, b} : (\A y \in {a, b} : x >= y) => x = c
  OBVIOUS
<1> QED BY <1>1, <1>2 DEF Max

(* A turn of the loop of iterate_block_structure, and what is left after   *)
(* each of them.                                                           *)
GroupOf(i, map, addr_offset) ==
  [free |-> is_free_bitmap_block(AsInt(i), map), addr |-> Word(addr_offset + i), size |-> 1]

Turned(groups, i, map, addr_offset) ==
  LET k == Len(groups)
  IN  IF is_free_bitmap_block(AsInt(i), map) = groups[k].free
      THEN [groups EXCEPT ![k].size = @ + 1]
      ELSE Append(groups, GroupOf(i, map, addr_offset))

Walks(last, map, addr_offset, walk) ==
  walk = [i \in 0..last |-> IF i = 0 THEN <<GroupOf(0, map, addr_offset)>>
                            ELSE Turned(walk[i - 1], i, map, addr_offset)]

SomeGroups == {groups \in Seq(Groups) : Len(groups) > 0}

LEMMA GroupTyped ==
  ASSUME NEW i \in Nat, NEW map, NEW off \in Nat
  PROVE  GroupOf(i, map, off) \in Groups
<1>1. Word(off + i) \in size_type
  BY WordIs
<1> QED BY <1>1 DEF GroupOf, Groups, is_free_bitmap_block

(* What a turn changes: it lengthens the last group or begins a new one.   *)
TurnMade(groups, after, i, map, addr_offset) ==
  LET k == Len(groups)
  IN  /\ after \in SomeGroups /\ k \in Nat \ {0}
      /\ \A j \in 1..k - 1 : after[j] = groups[j]
      /\ after[k].free = groups[k].free /\ after[k].addr = groups[k].addr
      /\ (AsInt(i) \notin map) = groups[k].free
           => Len(after) = k /\ after[k].size = groups[k].size + 1
      /\ (AsInt(i) \notin map) # groups[k].free
           => /\ Len(after) = k + 1 /\ after[k].size = groups[k].size
              /\ after[k + 1].free = (AsInt(i) \notin map)
              /\ after[k + 1].addr = Word(addr_offset + i) /\ after[k + 1].size = 1

(* What one turn of the loop does to the last group.                       *)
LEMMA TurnIs ==
  ASSUME NEW groups \in SomeGroups, NEW i \in Nat, NEW map, NEW off \in Nat
  PROVE  TurnMade(groups, Turned(groups, i, map, off), i, map, off)
<1> DEFINE k == Len(groups)
           after == Turned(groups, i, map, off)
           G == GroupOf(i, map, off)
<1>1. groups \in Seq(Groups) /\ k \in Nat \ {0} /\ k \in 1..Len(groups) /\ groups[k] \in Groups
  BY DEF SomeGroups
<1>2. G \in Groups /\ G.free = (AsInt(i) \notin map) /\ G.addr = Word(off + i) /\ G.size = 1
  <2>1. G \in Groups
    BY GroupTyped
  <2> QED BY <2>1 DEF GroupOf, is_free_bitmap_block
<1>3. after = IF (AsInt(i) \notin map) = groups[k].free
              THEN [groups EXCEPT ![k].size = groups[k].size + 1]
              ELSE Append(groups, G)
  BY DEF Turned, is_free_bitmap_block
<1> HIDE DEF after, G
<1>4. CASE (AsInt(i) \notin map) = groups[k].free
  <2> DEFINE h == [groups[k] EXCEPT !.size = groups[k].size + 1]
  <2>1. after = [groups EXCEPT ![k] = h]
    BY <1>1, <1>3, <1>4
  <2>2. h \in Groups /\ h.free = groups[k].free /\ h.addr = groups[k].addr
        /\ h.size = groups[k].size + 1
    BY <1>1 DEF Groups
  <2> HIDE DEF h, k
  <2>3. after \in Seq(Groups) /\ Len(after) = Len(groups) /\ after[k] = h
        /\ \A j \in 1..k - 1 : after[j] = groups[j]
    BY <1>1, <2>1, <2>2
  <2> QED BY <1>1, <1>4, <2>2, <2>3 DEF k, SomeGroups, after, TurnMade
<1>5. CASE ~ ((AsInt(i) \notin map) = groups[k].free)
  <2>1. after = Append(groups, G)
    BY <1>3, <1>5
  <2>2. after \in Seq(Groups) /\ Len(after) = k + 1 /\ after[k + 1] = G
        /\ \A j \in 1..k : after[j] = groups[j]
    BY <1>1, <1>2, <2>1
  <2> HIDE DEF k
  <2> QED BY <1>1, <1>2, <1>5, <2>2 DEF k, SomeGroups, after, TurnMade
<1> QED BY <1>4, <1>5

(* The walk over the bitmap is the function its turns define.              *)
LEMMA WalkExists ==
  ASSUME NEW last \in Nat, NEW map, NEW off \in Nat
  PROVE  \E walk : Walks(last, map, off, walk)
<1> DEFINE S == SomeGroups
           a == <<GroupOf(0, map, off)>>
           g == [x \in S \X (1..last) |-> Turned(x[1], x[2], map, off)]
<1>1. a \in S
  <2>1. GroupOf(0, map, off) \in Groups
    BY GroupTyped
  <2> QED BY <2>1 DEF SomeGroups
<1>2. \A x \in S : \A k \in 1..last :
        g[<<x, k>>] = Turned(x, k, map, off) /\ Turned(x, k, map, off) \in S
  <2> SUFFICES ASSUME NEW x \in S, NEW k \in 1..last
               PROVE  g[<<x, k>>] = Turned(x, k, map, off) /\ Turned(x, k, map, off) \in S
    OBVIOUS
  <2>1. k \in Nat
    OBVIOUS
  <2>2. Turned(x, k, map, off) \in S
    BY <2>1, TurnIs DEF TurnMade
  <2> QED BY <2>2
<1> HIDE DEF S, a, g
<1>3. Stays(last, S, g)
  BY <1>2 DEF Stays
<1>4. PICK f \in [0..last -> S] : f[0] = a /\ \A k \in 1..last : f[k] = g[<<f[k - 1], k>>]
  <2>1. \E f : LoopOf(last, S, a, g, f)
    BY <1>1, <1>3, LoopRuns, Zenon
  <2> QED BY <2>1 DEF LoopOf
<1>5. \A k \in 0..last : f[k] = IF k = 0 THEN a ELSE Turned(f[k - 1], k, map, off)
  <2> SUFFICES ASSUME NEW k \in 0..last, k # 0 PROVE f[k] = Turned(f[k - 1], k, map, off)
    BY <1>4
  <2>1. k \in 1..last /\ k - 1 \in 0..last
    OBVIOUS
  <2> QED BY <1>2, <1>4, <2>1
<1>6. f = [k \in 0..last |-> IF k = 0 THEN a ELSE Turned(f[k - 1], k, map, off)]
  BY <1>4, <1>5
<1> QED BY <1>6 DEF Walks, a

Walk(last, map, addr_offset, walk) ==
  /\ GroupsUpTo(last, map, addr_offset) = walk[last]
  /\ walk[0] = <<GroupOf(0, map, addr_offset)>>
  /\ \A i \in 1..last : walk[i] = Turned(walk[i - 1], i, map, addr_offset)

LEMMA GroupsAre ==
  ASSUME NEW last \in Nat, NEW map, NEW off \in Nat
  PROVE  \E walk : Walk(last, map, off, walk)
<1> DEFINE walk == CHOOSE f : Walks(last, map, off, f)
<1>1. Walks(last, map, off, walk)
  BY WalkExists, Zenon
<1>2. GroupsUpTo(last, map, off) = walk[last]
  BY DEF GroupsUpTo, Walks, Turned, GroupOf
<1> HIDE DEF walk
<1>3. \A i \in 0..last : walk[i] = IF i = 0 THEN <<GroupOf(0, map, off)>>
                                   ELSE Turned(walk[i - 1], i, map, off)
  BY <1>1 DEF Walks
<1>4. 0 \in 0..last /\ \A i \in 1..last : i \in 0..last /\ i # 0
  OBVIOUS
<1> QED BY <1>2, <1>3, <1>4 DEF Walk

(* The groups after block i: they say of each block up to i what the       *)
(* bitmap says, in order and as few as can be.                             *)
InGroup(g, b) == g.addr <= b /\ b < g.addr + g.size

(* Groups that are right as far as block i: they follow each other         *)
(* without a gap, alternate, end after block i and say of each block what  *)
(* the map says.                                                           *)
Right(groups, i, map, addr_offset) ==
  /\ groups \in SomeGroups
  /\ \A k \in 2..Len(groups) : /\ groups[k].free # groups[k - 1].free
                               /\ groups[k].addr = groups[k - 1].addr + groups[k - 1].size
  /\ groups[Len(groups)].addr + groups[Len(groups)].size = addr_offset + i + 1
  /\ \A k \in 1..Len(groups) : \A b \in Int :
       InGroup(groups[k], b) => groups[k].free = (b - addr_offset \notin map)
  /\ \A b \in Int : (\E k \in 1..Len(groups) : InGroup(groups[k], b))
                     <=> b \in addr_offset..addr_offset + i

(* A turn keeps the groups right, and extends them by a block.             *)
LEMMA TurnRight ==
  ASSUME NEW map, NEW off \in Nat, NEW i \in Nat \ {0}, off + i < WORDS, AsInt(i) = i,
         NEW groups, Right(groups, i - 1, map, off)
  PROVE  Right(Turned(groups, i, map, off), i, map, off)
<1> DEFINE n == Len(groups)
           after == Turned(groups, i, map, off)
           m == Len(after)
<1>1. groups \in SomeGroups /\ i \in Nat
  BY DEF Right
<1>2. /\ after \in SomeGroups /\ n \in Nat \ {0}
      /\ \A j \in 1..n - 1 : after[j] = groups[j]
      /\ after[n].free = groups[n].free /\ after[n].addr = groups[n].addr
      /\ (i \notin map) = groups[n].free
           => m = n /\ after[n].size = groups[n].size + 1
      /\ (i \notin map) # groups[n].free
           => /\ m = n + 1 /\ after[n].size = groups[n].size
              /\ after[n + 1].free = (i \notin map)
              /\ after[n + 1].addr = Word(off + i) /\ after[n + 1].size = 1
  BY <1>1, TurnIs DEF TurnMade
<1>3. /\ \A k \in 1..n : groups[k].addr \in Nat /\ groups[k].size \in Nat \ {0}
                        /\ groups[k].free \in BOOLEAN
  <2>1. \A k \in 1..n : groups[k] \in Groups
    BY <1>1 DEF SomeGroups
  <2> HIDE DEF n
  <2> QED BY <2>1 DEF Groups, size_type
<1>4. /\ \A k \in 2..n : /\ groups[k].free # groups[k - 1].free
                         /\ groups[k].addr = groups[k - 1].addr + groups[k - 1].size
      /\ groups[n].addr + groups[n].size = off + i
      /\ \A k \in 1..n : \A b \in Int :
           InGroup(groups[k], b) => groups[k].free = (b - off \notin map)
      /\ \A b \in Int : (\E k \in 1..n : InGroup(groups[k], b)) <=> b \in off..off + i - 1
  <2>1. off + (i - 1) + 1 = off + i /\ off + (i - 1) = off + i - 1
    OBVIOUS
  <2> QED BY <2>1 DEF Right
<1>5. Word(off + i) = off + i
  BY LayoutIs, WordIs
<1> HIDE DEF n, after, m
<1>6. \A k \in 1..n - 1 : after[k] = groups[k] /\ k \in 1..n
  BY <1>2
<1>7. CASE (i \notin map) = groups[n].free
  <2>1. m = n /\ after[n].size = groups[n].size + 1
    BY <1>2, <1>7
  <2>2. \A k \in 1..m : after[k].free = groups[k].free /\ after[k].addr = groups[k].addr
    BY <1>2, <1>6, <2>1
  <2>3. \A k \in 1..m : k # n => after[k].size = groups[k].size
    BY <1>2, <1>6, <2>1
  <2>4. ASSUME NEW k \in 2..m
        PROVE  /\ after[k].free # after[k - 1].free
               /\ after[k].addr = after[k - 1].addr + after[k - 1].size
    <3>1. k \in 1..m /\ k - 1 \in 1..m /\ k - 1 # n
      BY <1>2, <2>1
    <3> QED BY <1>4, <2>1, <2>2, <2>3, <3>1
  <2>5. \A k \in 1..m : \A b \in Int :
          InGroup(after[k], b) <=> InGroup(groups[k], b) \/ (k = n /\ b = off + i)
    <3> SUFFICES ASSUME NEW k \in 1..m, NEW b \in Int
                 PROVE  InGroup(after[k], b) <=> InGroup(groups[k], b) \/ (k = n /\ b = off + i)
      OBVIOUS
    <3>1. CASE k = n
      <4>1. groups[n].addr \in Nat /\ groups[n].size \in Nat \ {0}
            /\ groups[n].addr + groups[n].size = off + i
        BY <1>2, <1>3, <1>4
      <4>2. after[n].addr = groups[n].addr /\ after[n].size = groups[n].size + 1
        BY <1>2, <2>1
      <4> QED BY <3>1, <4>1, <4>2 DEF InGroup
    <3>2. CASE k # n
      BY <2>2, <2>3, <3>2 DEF InGroup
    <3> QED BY <3>1, <3>2
  <2>6. ASSUME NEW k \in 1..m, NEW b \in Int, InGroup(after[k], b)
        PROVE  after[k].free = (b - off \notin map)
    <3>1. CASE InGroup(groups[k], b)
      BY <1>4, <2>1, <2>2, <3>1
    <3>2. CASE k = n /\ b = off + i
      <4>1. b - off = i
        BY <3>2
      <4> QED BY <1>2, <1>7, <3>2, <4>1
    <3> QED BY <2>5, <2>6, <3>1, <3>2
  <2>7. ASSUME NEW b \in Int
        PROVE  (\E k \in 1..m : InGroup(after[k], b)) <=> b \in off..off + i
    <3>1. (\E k \in 1..m : InGroup(after[k], b)) <=> (b \in off..off + i - 1 \/ b = off + i)
      <4>1. n \in 1..m
        BY <1>2, <2>1
      <4> QED BY <1>4, <2>1, <2>5, <4>1
    <3> QED BY <3>1
  <2>8. after[m].addr + after[m].size = off + i + 1
    <3>1. groups[n].addr \in Nat /\ groups[n].size \in Nat
      BY <1>2, <1>3
    <3>2. after[m].addr = groups[n].addr /\ after[m].size = groups[n].size + 1
      BY <1>2, <2>1
    <3> QED BY <1>4, <3>1, <3>2
  <2> QED BY <1>2, <2>4, <2>6, <2>7, <2>8 DEF Right, m, after
<1>8. CASE ~ ((i \notin map) = groups[n].free)
  <2>1. /\ m = n + 1 /\ after[n].size = groups[n].size
        /\ after[m].free = (i \notin map) /\ after[m].addr = off + i /\ after[m].size = 1
    BY <1>2, <1>5, <1>8
  <2>2. \A k \in 1..n : /\ after[k].free = groups[k].free /\ after[k].addr = groups[k].addr
                       /\ after[k].size = groups[k].size
    BY <1>2, <1>6, <2>1
  <2>3. ASSUME NEW k \in 2..m
        PROVE  /\ after[k].free # after[k - 1].free
               /\ after[k].addr = after[k - 1].addr + after[k - 1].size
    <3>1. CASE k = m
      <4>1. k - 1 = n /\ n \in 1..n
        BY <1>2, <2>1, <3>1
      <4>2. after[m].free # after[n].free
        BY <1>2, <1>8, <2>1
      <4> QED BY <1>2, <1>4, <2>1, <2>2, <3>1, <4>1, <4>2
    <3>2. CASE k # m
      <4>1. k \in 2..n /\ k \in 1..n /\ k - 1 \in 1..n
        BY <1>2, <2>1, <3>2
      <4> QED BY <1>4, <2>2, <4>1
    <3> QED BY <3>1, <3>2
  <2>4. \A b \in Int : /\ InGroup(after[m], b) <=> b = off + i
                      /\ \A k \in 1..n : InGroup(after[k], b) <=> InGroup(groups[k], b)
    BY <2>1, <2>2 DEF InGroup
  <2>5. ASSUME NEW k \in 1..m, NEW b \in Int, InGroup(after[k], b)
        PROVE  after[k].free = (b - off \notin map)
    <3>1. CASE k = m
      <4>1. b - off = i
        BY <2>4, <2>5, <3>1
      <4> QED BY <2>1, <3>1, <4>1
    <3>2. CASE k # m
      <4>1. k \in 1..n
        BY <1>2, <2>1, <3>2
      <4> QED BY <1>4, <2>2, <2>4, <2>5, <4>1
    <3> QED BY <3>1, <3>2
  <2>6. ASSUME NEW b \in Int
        PROVE  (\E k \in 1..m : InGroup(after[k], b)) <=> b \in off..off + i
    <3>1. (\E k \in 1..m : InGroup(after[k], b))
            <=> ((\E k \in 1..n : InGroup(after[k], b)) \/ InGroup(after[m], b))
      <4>1. m \in 1..m /\ \A k \in 1..n : k \in 1..m
        BY <1>2, <2>1
      <4>2. \A k \in 1..m : k = m \/ k \in 1..n
        BY <1>2, <2>1
      <4> QED BY <4>1, <4>2
    <3>2. (\E k \in 1..m : InGroup(after[k], b)) <=> (b \in off..off + i - 1 \/ b = off + i)
      BY <1>4, <2>4, <3>1
    <3> QED BY <3>2
  <2>7. after[m].addr + after[m].size = off + i + 1
    BY <2>1
  <2> QED BY <1>2, <2>3, <2>5, <2>6, <2>7 DEF Right, m, after
<1> QED BY <1>7, <1>8

(* What iterate_block_structure prints, for as many blocks as have         *)
(* addresses and an int counts.                                            *)
LEMMA GroupsRight ==
  ASSUME NEW n \in Nat \ {0}, NEW map, NEW off \in Nat, off + n <= WORDS, n <= WORDS \div 2
  PROVE  Right(iterate_block_structure(map, n, off), n - 1, map, off)
<1> DEFINE last == n - 1
<1>1. last \in Nat /\ off + last < WORDS /\ WORDS \in Nat
  BY LayoutIs
<1>I. \A i \in 0..last : AsInt(i) = i
  <2> SUFFICES ASSUME NEW i \in 0..last PROVE AsInt(i) = i
    OBVIOUS
  <2>1. WORDS \div 2 \in Nat
    BY <1>1
  <2>2. i \in Nat /\ i < WORDS \div 2
    BY <2>1
  <2> QED BY <2>2, IntsAre
<1>2. iterate_block_structure(map, n, off) = GroupsUpTo(last, map, off)
  <2>1. Max({0, last}) = last
    BY <1>1, MaxOfTwo
  <2> QED BY <2>1 DEF iterate_block_structure
<1> HIDE DEF last
<1>W. \E walk : Walk(last, map, off, walk)
  BY <1>1, GroupsAre, Zenon
<1>3. PICK walk : /\ GroupsUpTo(last, map, off) = walk[last]
                  /\ walk[0] = <<GroupOf(0, map, off)>>
                  /\ \A i \in 1..last : walk[i] = Turned(walk[i - 1], i, map, off)
  BY <1>W DEF Walk
<1> DEFINE T == {i \in 0..last : Right(walk[i], i, map, off)}
<1>4. 0 \in T
  <2> DEFINE G == GroupOf(0, map, off)
             s == <<G>>
  <2>1. G \in Groups /\ G.free = (0 \notin map) /\ G.addr = off /\ G.size = 1
    <3>1. Word(off + 0) = off
      BY <1>1, WordIs
    <3>2. G \in Groups
      BY GroupTyped
    <3>3. AsInt(0) = 0
      BY <1>1, <1>I
    <3> QED BY <3>1, <3>2, <3>3 DEF GroupOf, is_free_bitmap_block
  <2> HIDE DEF G
  <2>2. s \in SomeGroups /\ Len(s) = 1 /\ s[1] = G
    BY <2>1 DEF SomeGroups
  <2> HIDE DEF s
  <2>3. \A b \in Int : InGroup(G, b) <=> b = off
    BY <2>1 DEF InGroup
  <2>4. \A b \in Int : (b = off => b - off = 0) /\ (b \in off..off + 0 <=> b = off)
    OBVIOUS
  <2>5. Right(s, 0, map, off)
    BY <2>1, <2>2, <2>3, <2>4 DEF Right
  <2>6. 0 \in 0..last
    BY <1>1
  <2> QED BY <1>3, <2>5, <2>6 DEF s, G
<1>5. ASSUME NEW i \in 1..last, i - 1 \in T PROVE i \in T
  <2>1. i \in Nat \ {0} /\ off + i < WORDS /\ i \in 0..last /\ AsInt(i) = i
    BY <1>1, <1>I
  <2>2. Right(Turned(walk[i - 1], i, map, off), i, map, off)
    BY <1>5, <2>1, TurnRight
  <2> QED BY <1>3, <2>1, <2>2
<1>6. \A i \in 0..last : i \in T
  <2> HIDE DEF T
  <2> QED BY <1>1, <1>4, <1>5, UpTo
<1>7. last \in 0..last
  BY <1>1
<1> QED BY <1>2, <1>3, <1>6, <1>7 DEF last

(* Whatever is in the bitmap, the groups are groups.                       *)
LEMMA GroupsTyped ==
  ASSUME NEW n \in Nat, NEW map, NEW off \in Nat
  PROVE  iterate_block_structure(map, n, off) \in Seq(Groups)
<1> DEFINE last == Max({0, n - 1})
<1>1. last \in Nat
  BY MaxOfTwo
<1> HIDE DEF last
<1>W. \E walk : Walk(last, map, off, walk)
  BY <1>1, GroupsAre, Zenon
<1>3. PICK walk : /\ GroupsUpTo(last, map, off) = walk[last]
                  /\ walk[0] = <<GroupOf(0, map, off)>>
                  /\ \A i \in 1..last : walk[i] = Turned(walk[i - 1], i, map, off)
  BY <1>W DEF Walk
<1> DEFINE T == {i \in 0..last : walk[i] \in SomeGroups}
<1>4. 0 \in T
  <2>1. GroupOf(0, map, off) \in Groups /\ 0 \in 0..last
    BY <1>1, GroupTyped
  <2>2. walk[0] \in SomeGroups
    <3> DEFINE G == GroupOf(0, map, off)
    <3> HIDE DEF G
    <3>1. G \in Groups /\ walk[0] = <<G>>
      BY <1>3, <2>1 DEF G
    <3> QED BY <3>1 DEF SomeGroups
  <2> QED BY <2>1, <2>2
<1>5. ASSUME NEW i \in 1..last, i - 1 \in T PROVE i \in T
  <2>1. i \in Nat /\ i \in 0..last /\ walk[i - 1] \in SomeGroups
    BY <1>5
  <2>2. Turned(walk[i - 1], i, map, off) \in SomeGroups
    BY <2>1, TurnIs DEF TurnMade
  <2> QED BY <1>3, <2>1, <2>2
<1>6. \A i \in 0..last : i \in T
  <2> HIDE DEF T
  <2> QED BY <1>1, <1>4, <1>5, UpTo
<1>7. walk[last] \in SomeGroups
  BY <1>1, <1>6
<1> QED BY <1>3, <1>7 DEF last, SomeGroups, iterate_block_structure
------------------------------------------------------------------------------
(* The loop of list_VFS_rootdir, and the count of the blocks it stands for. *)
Bytes(size) == Word(FILE_CHUNKS_NEEDED_FOR_BYTES(size) * FILE_DATA_CHUNK_SIZE)

Adds(files, total) ==
  total = [k \in 0..Len(files) |-> IF k = 0 THEN 0 ELSE Word(total[k - 1] + Bytes(files[k]))]

BlocksOf(size) ==
  CHOOSE n \in 1..size : /\ size <= n * FILE_DATA_CHUNK_SIZE
                         /\ size > (n - 1) * FILE_DATA_CHUNK_SIZE

Counts(files, needed) ==
  needed = [k \in 0..Len(files) |-> IF k = 0 THEN 0 ELSE needed[k - 1] + BlocksOf(files[k])]

(* The blocks of a file, as the listing counts them and as the property    *)
(* does.                                                                   *)
LEMMA BlocksAre ==
  ASSUME NEW size \in Nat, 0 < size, size < WORDS
  PROVE  BlocksOf(size) = FILE_CHUNKS_NEEDED_FOR_BYTES(size)
<1> DEFINE c == FILE_DATA_CHUNK_SIZE
           q == FILE_CHUNKS_NEEDED_FOR_BYTES(size)
           Fits(n) == size <= n * c /\ size > (n - 1) * c
<1>1. c \in Nat \ {0} /\ q \in 1..size /\ size <= q * c /\ q * c < size + c
  BY LayoutIs, ChunksAre
<1> HIDE DEF c, q
<1>2. (q - 1) * c = q * c - c /\ q * c \in Nat
  BY <1>1, SMT
<1>3. q \in 1..size /\ Fits(q)
  BY <1>1, <1>2
<1>4. ASSUME NEW n \in 1..size, Fits(n) PROVE n = q
  <2>1. n \in Nat /\ n * c \in Nat /\ (n - 1) * c = n * c - c
    BY <1>1, SMT
  <2>2. n * c < size + c /\ size <= n * c
    BY <1>1, <1>4, <2>1
  <2>3. c * n = n * c /\ c * q = q * c /\ c * (n + 1) = n * c + c /\ c * (q + 1) = q * c + c
    BY <1>1, <2>1, SMT
  <2>4. c * n < c * (q + 1) /\ c * q < c * (n + 1)
    BY <1>1, <1>2, <2>1, <2>2, <2>3
  <2>5. n < q + 1 /\ q < n + 1
    <3>1. q + 1 \in Nat /\ n + 1 \in Nat /\ q \in Nat
      BY <1>1, <2>1
    <3> QED BY <1>1, <2>1, <2>4, <3>1, LessTimes
  <2> QED BY <1>1, <2>1, <2>5
<1>5. BlocksOf(size) = CHOOSE n \in 1..size : Fits(n)
  BY DEF BlocksOf, c
<1> HIDE DEF Fits
<1> QED BY <1>3, <1>4, <1>5 DEF q

(* Both sums over the files are functions their definitions define.        *)
LEMMA AddsExists ==
  ASSUME NEW files \in Seq(size_type)
  PROVE  \E total : Adds(files, total)
<1> DEFINE n == Len(files)
           S == size_type
           g == [x \in S \X (1..n) |-> Word(x[1] + Bytes(files[x[2]]))]
<1>1. 0 \in S /\ n \in Nat
  BY LayoutIs DEF size_type
<1>2. \A x \in S : \A k \in 1..n : /\ g[<<x, k>>] = Word(x + Bytes(files[k]))
                                  /\ Word(x + Bytes(files[k])) \in S
  <2> SUFFICES ASSUME NEW x \in S, NEW k \in 1..n
               PROVE  g[<<x, k>>] = Word(x + Bytes(files[k])) /\ Word(x + Bytes(files[k])) \in S
    OBVIOUS
  <2>1. Bytes(files[k]) \in Int
    <3>0. files[k] \in size_type
      OBVIOUS
    <3>1. Word(files[k] - 1) \in Nat /\ files[k] \in Int
      <4> DEFINE s == files[k]
      <4>1. s \in Int /\ s - 1 \in Int
        BY <3>0, LayoutIs DEF size_type
      <4> HIDE DEF s
      <4>2. Word(s - 1) \in size_type
        BY <4>1, WordIs
      <4> QED BY <4>1, <4>2, LayoutIs DEF size_type, s
    <3>2. FILE_CHUNKS_NEEDED_FOR_BYTES(files[k]) * FILE_DATA_CHUNK_SIZE \in Int
      BY <3>1, LayoutIs, DivFacts, SMT DEF FILE_CHUNKS_NEEDED_FOR_BYTES
    <3> QED BY <3>2, WordIs DEF Bytes, size_type
  <2>2. x + Bytes(files[k]) \in Int
    BY <2>1 DEF size_type
  <2> QED BY <2>2, WordIs
<1> HIDE DEF n, S, g
<1>3. Stays(n, S, g)
  BY <1>2 DEF Stays
<1>4. PICK f \in [0..n -> S] : f[0] = 0 /\ \A k \in 1..n : f[k] = g[<<f[k - 1], k>>]
  <2>1. \E f : LoopOf(n, S, 0, g, f)
    BY <1>1, <1>3, LoopRuns, Zenon
  <2> QED BY <2>1 DEF LoopOf
<1>5. \A k \in 0..n : f[k] = IF k = 0 THEN 0 ELSE Word(f[k - 1] + Bytes(files[k]))
  <2> SUFFICES ASSUME NEW k \in 0..n, k # 0 PROVE f[k] = Word(f[k - 1] + Bytes(files[k]))
    BY <1>4
  <2>1. k \in 1..n /\ k - 1 \in 0..n
    BY <1>1
  <2> QED BY <1>2, <1>4, <2>1
<1>6. f = [k \in 0..n |-> IF k = 0 THEN 0 ELSE Word(f[k - 1] + Bytes(files[k]))]
  BY <1>4, <1>5
<1> QED BY <1>6 DEF Adds, n

LEMMA CountsExists ==
  ASSUME NEW files \in Seq(size_type), \A k \in 1..Len(files) : files[k] > 0
  PROVE  \E needed : Counts(files, needed)
<1> DEFINE n == Len(files)
           S == Nat
           g == [x \in S \X (1..n) |-> x[1] + BlocksOf(files[x[2]])]
<1>1. 0 \in S /\ n \in Nat
  OBVIOUS
<1>2. \A x \in S : \A k \in 1..n : /\ g[<<x, k>>] = x + BlocksOf(files[k])
                                  /\ x + BlocksOf(files[k]) \in S
  <2> SUFFICES ASSUME NEW x \in S, NEW k \in 1..n
               PROVE  g[<<x, k>>] = x + BlocksOf(files[k]) /\ x + BlocksOf(files[k]) \in S
    OBVIOUS
  <2>1. BlocksOf(files[k]) \in Nat
    <3>1. files[k] \in Nat /\ 0 < files[k] /\ files[k] < WORDS
      BY LayoutIs DEF size_type
    <3>2. FILE_CHUNKS_NEEDED_FOR_BYTES(files[k]) \in 1..files[k]
      BY <3>1, ChunksAre
    <3> QED BY <3>1, <3>2, BlocksAre
  <2> QED BY <2>1
<1> HIDE DEF n, S, g
<1>3. Stays(n, S, g)
  BY <1>2 DEF Stays
<1>4. PICK f \in [0..n -> S] : f[0] = 0 /\ \A k \in 1..n : f[k] = g[<<f[k - 1], k>>]
  <2>1. \E f : LoopOf(n, S, 0, g, f)
    BY <1>1, <1>3, LoopRuns, Zenon
  <2> QED BY <2>1 DEF LoopOf
<1>5. \A k \in 0..n : f[k] = IF k = 0 THEN 0 ELSE f[k - 1] + BlocksOf(files[k])
  <2> SUFFICES ASSUME NEW k \in 0..n, k # 0 PROVE f[k] = f[k - 1] + BlocksOf(files[k])
    BY <1>4
  <2>1. k \in 1..n /\ k - 1 \in 0..n
    BY <1>1
  <2> QED BY <1>2, <1>4, <2>1
<1>6. f = [k \in 0..n |-> IF k = 0 THEN 0 ELSE f[k - 1] + BlocksOf(files[k])]
  BY <1>4, <1>5
<1> QED BY <1>6 DEF Counts, n

(* What the files occupy is the blocks they need, if those are no more     *)
(* than fit the numbers.                                                   *)
LEMMA OccupiedIs ==
  ASSUME NEW files \in Seq(size_type), \A k \in 1..Len(files) : files[k] > 0,
         NEW n \in Nat, BlocksNeeded(files) <= n, n * FILE_DATA_CHUNK_SIZE < WORDS
  PROVE  /\ BlocksNeeded(files) \in Nat
         /\ Occupied(files) = BlocksNeeded(files) * FILE_DATA_CHUNK_SIZE
<1> DEFINE c == FILE_DATA_CHUNK_SIZE
           m == Len(files)
           total == CHOOSE f : Adds(files, f)
           needed == CHOOSE f : Counts(files, f)
           q(k) == BlocksOf(files[k])
<1>1. Adds(files, total) /\ Counts(files, needed)
  BY AddsExists, CountsExists, Zenon
<1>2. Occupied(files) = total[m]
  BY DEF Occupied, Adds, Bytes
<1>3. BlocksNeeded(files) = needed[m]
  BY DEF BlocksNeeded, Counts, BlocksOf
<1> HIDE DEF total, needed
<1>4. /\ \A k \in 0..m : total[k] = IF k = 0 THEN 0 ELSE Word(total[k - 1] + Bytes(files[k]))
      /\ \A k \in 0..m : needed[k] = IF k = 0 THEN 0 ELSE needed[k - 1] + q(k)
  BY <1>1 DEF Adds, Counts
<1>5. \A k \in 1..m : q(k) \in Nat /\ Bytes(files[k]) = Word(q(k) * c)
  <2> SUFFICES ASSUME NEW k \in 1..m PROVE q(k) \in Nat /\ Bytes(files[k]) = Word(q(k) * c)
    OBVIOUS
  <2>1. files[k] \in Nat /\ 0 < files[k] /\ files[k] < WORDS
    BY LayoutIs DEF size_type
  <2>2. FILE_CHUNKS_NEEDED_FOR_BYTES(files[k]) \in 1..files[k]
    BY <2>1, ChunksAre
  <2> QED BY <2>1, <2>2, BlocksAre DEF Bytes
<1>6. m \in Nat /\ c \in Nat \ {0} /\ WORDS \in Nat
  BY LayoutIs
<1> HIDE DEF m, q, c
<1> DEFINE T == {k \in 0..m : /\ needed[k] \in Nat
                               /\ \A j \in 0..k : needed[j] \in Nat /\ needed[j] <= needed[k]}
<1>7. \A k \in 0..m : /\ needed[k] \in Nat
                      /\ \A j \in 0..k : needed[j] \in Nat /\ needed[j] <= needed[k]
  <2>1. 0 \in T
    <3>1. 0 \in 0..m /\ needed[0] = 0 /\ \A j \in 0..0 : j = 0
      BY <1>4, <1>6
    <3> QED BY <3>1
  <2>2. ASSUME NEW k \in 1..m, k - 1 \in T PROVE k \in T
    <3>1. k \in 0..m /\ k # 0 /\ needed[k - 1] \in Nat
      BY <1>6, <2>2
    <3>2. needed[k] = needed[k - 1] + q(k) /\ q(k) \in Nat
      BY <1>4, <1>5, <3>1
    <3>3. needed[k] \in Nat /\ needed[k - 1] <= needed[k]
      BY <3>1, <3>2
    <3>4. ASSUME NEW j \in 0..k PROVE needed[j] \in Nat /\ needed[j] <= needed[k]
      <4>1. CASE j = k
        BY <3>3, <4>1
      <4>2. CASE j # k
        <5>1. j \in 0..k - 1 /\ j \in 0..m
          BY <1>6, <4>2
        <5>2. needed[j] \in Nat /\ needed[j] <= needed[k - 1]
          BY <2>2, <5>1
        <5> QED BY <3>1, <3>3, <5>2
      <4> QED BY <4>1, <4>2
    <3> QED BY <3>1, <3>3, <3>4
  <2>3. \A k \in 0..m : k \in T
    <3> HIDE DEF T
    <3> QED BY <1>6, <2>1, <2>2, UpTo
  <2> QED BY <2>3
<1> HIDE DEF T
<1> DEFINE U == {k \in 0..m : total[k] = needed[k] * c}
<1>8. \A k \in 0..m : total[k] = needed[k] * c
  <2>1. 0 \in U
    <3>1. 0 \in 0..m /\ needed[0] = 0 /\ total[0] = 0
      BY <1>4, <1>6
    <3>2. 0 * c = 0
      BY <1>6, SMT
    <3> QED BY <3>1, <3>2
  <2>2. ASSUME NEW k \in 1..m, k - 1 \in U PROVE k \in U
    <3> DEFINE v == needed[k - 1]
    <3>1. k \in 0..m /\ k # 0 /\ k - 1 \in 0..m /\ m \in 0..m /\ k \in 0..m
      BY <1>6
    <3>2. /\ v \in Nat /\ needed[k] \in Nat /\ needed[k] = v + q(k) /\ q(k) \in Nat
          /\ needed[k] <= n
      <4>1. needed[k] <= needed[m] /\ needed[m] \in Nat
        BY <1>6, <1>7, <3>1
      <4>2. v \in Nat /\ needed[k] \in Nat /\ needed[k] = v + q(k) /\ q(k) \in Nat
        BY <1>4, <1>5, <1>7, <3>1
      <4> QED BY <1>3, <4>1, <4>2 DEF m
    <3>3. total[k] = Word(v * c + Word(q(k) * c))
      BY <1>4, <1>5, <2>2, <3>1
    <3> DEFINE x == v * c
               y == q(k) * c
    <3>4. x \in Nat /\ y \in Nat /\ needed[k] * c = x + y /\ needed[k] * c <= n * c
          /\ n * c \in Nat
      <4> HIDE DEF v
      <4>1. (v + q(k)) * c = v * c + q(k) * c /\ v * c \in Nat /\ q(k) * c \in Nat
        BY <1>6, <3>2, SMT
      <4>2. needed[k] * c <= n * c /\ n * c \in Nat
        BY <1>6, <3>2, SMT
      <4> QED BY <3>2, <4>1, <4>2
    <3>5. x + y < WORDS
      BY <1>6, <3>4 DEF c
    <3> HIDE DEF x, y
    <3>6. Word(y) = y /\ Word(x + y) = x + y
      BY <1>6, <3>4, <3>5, WordIs
    <3> QED BY <3>1, <3>3, <3>4, <3>6 DEF x, y
  <2>3. \A k \in 0..m : k \in U
    <3> HIDE DEF U
    <3> QED BY <1>6, <2>1, <2>2, UpTo
  <2> QED BY <2>3
<1>9. m \in 0..m
  BY <1>6
<1> QED BY <1>2, <1>3, <1>7, <1>8, <1>9 DEF c
------------------------------------------------------------------------------
FileFields == {"size", "n_datablocks", "files", "used", "asked"}
JobFields == {"prog", "name", "asked", "fd", "ret", "n_datablocks", "files", "used",
              "groups", "space"}

LEMMA Fields == DOMAIN EmptyFile = FileFields /\ DOMAIN NoJob = JobFields
  BY DEF EmptyFile, NoJob, FileFields, JobFields

(* A file that may be on the disk, and the disk.                           *)
FileTypes(file) ==
  /\ DOMAIN file = FileFields
  /\ file.size \in Nat /\ file.n_datablocks \in size_type
  /\ file.files \in Seq(size_type) /\ file.used \subseteq Nat
  /\ file.asked \in {0} \cup DiskSizes

FilesInv == DOMAIN inode = Inodes /\ \A i \in Inodes : FileTypes(inode[i])

DiskInv ==
  /\ names \in [Names -> Inodes \cup {NONE}]
  /\ FilesInv
  /\ runs \in 0..MaxRuns /\ written \subseteq Procs /\ disturbed \subseteq Names

(* What is in the job of a program, wherever the program is.  A reader of  *)
(* the bitmap has got at least one byte of it.                             *)
Good(at, j) ==
  /\ DOMAIN j = JobFields
  /\ at \in {"idle", "fclose", "truncate", "ftell", "superblock", "rootdir", "bitmap",
             "print", "exit"}
  /\ j.ret \in 0..5 /\ j.n_datablocks \in size_type /\ j.asked \in {0} \cup DiskSizes
  /\ j.files \in Seq(size_type) /\ j.groups \in Seq(Groups)
  /\ j.fd \in Inodes \cup {NONE} /\ (j.fd # NONE <=> at \notin {"idle", "truncate"})
  /\ at \in {"fclose", "truncate"} => j.name \in Names
  /\ at = "print" /\ j.prog = "readInfo" => BITNSLOTS(j.n_datablocks) > 0

(* The first part of the invariant: types, and where a program has a file  *)
(* open.                                                                   *)
TypeInv ==
  /\ DiskInv
  /\ pc = [p \in Procs |-> pc[p]] /\ DOMAIN job = Procs
  /\ \A p \in Procs : Good(pc[p], job[p])

LEMMA EmptyTypes == FileTypes(EmptyFile) /\ \A image \in Images : FileTypes(image)
<1>1. 0 \in size_type
  BY LayoutIs DEF size_type
<1>2. FileTypes(EmptyFile)
  BY <1>1 DEF FileTypes, EmptyFile, FileFields
<1>3. ASSUME NEW image \in Images PROVE FileTypes(image)
  <2>1. /\ DOMAIN image = DOMAIN EmptyFile /\ image.size \in Nat
        /\ image.n_datablocks \in size_type /\ image.files \in Seq(size_type)
        /\ image.used \subseteq Nat /\ image.asked = 0
    BY VfsAssumption
  <2> QED BY <2>1, Fields DEF FileTypes
<1> QED BY <1>2, <1>3

LEMMA NoJobGood == Good("idle", NoJob)
<1>1. 0 \in size_type
  BY LayoutIs DEF size_type
<1> QED BY <1>1, Fields DEF Good, NoJob, JobFields

LEMMA InitTypes == Init => TypeInv
<1> SUFFICES ASSUME Init PROVE TypeInv
  OBVIOUS
<1>1. FilesInv
  BY EmptyTypes DEF Init, FilesInv
<1>2. DiskInv
  BY <1>1, VfsAssumption DEF Init, DiskInv
<1>3. /\ pc = [p \in Procs |-> pc[p]] /\ DOMAIN job = Procs
      /\ \A p \in Procs : pc[p] = "idle" /\ job[p] = NoJob
  BY DEF Init
<1> QED BY <1>2, <1>3, NoJobGood DEF TypeInv
------------------------------------------------------------------------------
(* A step of p is judged by where p gets and what is in its job then. *)
Moves(p, to, j) ==
  pc' = [pc EXCEPT ![p] = to] /\ (job' = [job EXCEPT ![p] = j] \/ (job' = job /\ j = job[p]))

LEMMA MovesTo ==
  ASSUME TypeInv, NEW p \in Procs, NEW to, NEW j, Moves(p, to, j)
  PROVE  /\ pc' = [q \in Procs |-> pc'[q]] /\ DOMAIN job' = Procs
         /\ pc'[p] = to /\ job'[p] = j
         /\ \A q \in Procs : q # p => pc'[q] = pc[q] /\ job'[q] = job[q]
  BY DEF TypeInv, Moves

(* It is enough to look at the program that moved, and at the disk.        *)
LEMMA Frame ==
  ASSUME TypeInv, NEW p \in Procs, NEW to, NEW j, Moves(p, to, j), Good(to, j), DiskInv'
  PROVE  TypeInv'
<1>1. /\ pc' = [q \in Procs |-> pc'[q]] /\ DOMAIN job' = Procs
      /\ pc'[p] = to /\ job'[p] = j
      /\ \A q \in Procs : q # p => pc'[q] = pc[q] /\ job'[q] = job[q]
  BY MovesTo
<1>2. ASSUME NEW q \in Procs PROVE Good(pc'[q], job'[q])
  <2>1. CASE q = p
    BY <1>1, <2>1
  <2>2. CASE q # p
    BY <1>1, <2>2 DEF TypeInv
  <2> QED BY <2>1, <2>2
<1> QED BY <1>1, <1>2 DEF TypeInv

(* Writing a well-typed file keeps all of them so.                         *)
LEMMA WriteKeeps ==
  ASSUME FilesInv, NEW i \in Inodes, NEW file, Write(i, file), FileTypes(file)
  PROVE  FilesInv'
<1>1. DOMAIN inode' = Inodes /\ \A k \in Inodes : inode'[k] = IF k = i THEN file ELSE inode[k]
  BY DEF FilesInv, Write
<1>2. \A k \in Inodes : FileTypes(inode'[k])
  BY <1>1 DEF FilesInv
<1> QED BY <1>1, <1>2 DEF FilesInv

LEMMA OffsetIsNat ==
  ASSUME NEW n \in size_type
  PROVE  BITMAP_SIZE_BLOCKS(n) \in Nat /\ DATA_BLOCK_OFFSET(n) \in Nat
<1>1. n \in Nat /\ CHAR_BIT \in Nat \ {0} /\ BLOCK_SIZE \in Nat \ {0} /\ WORDS \in Nat \ {0}
      /\ DIR_BLOCKS \in Nat
  BY LayoutIs DEF size_type
<1> DEFINE w == Word(n + CHAR_BIT - 1)
           b == w \div CHAR_BIT
           v == Word(b - 1)
           k == v \div BLOCK_SIZE + 1
<1>2. w \in Nat
  BY <1>1, WordIs DEF size_type
<1> HIDE DEF w
<1>3. b \in Nat /\ b - 1 \in Int
  BY <1>1, <1>2, DivFacts
<1> HIDE DEF b
<1>4. v \in Nat
  BY <1>1, <1>3, WordIs DEF size_type
<1> HIDE DEF v
<1>5. k \in Nat
  BY <1>1, <1>4, DivFacts
<1>6. BITMAP_SIZE_BLOCKS(n) = k
  BY DEF BITMAP_SIZE_BLOCKS, BLOCKS_NEEDED_FOR_BYTES, BITNSLOTS, v, b, w
<1> HIDE DEF k
<1> QED BY <1>1, <1>5, <1>6 DEF DATA_BLOCK_OFFSET, BITMAP_BLOCK_OFFSET

(* The predicted size never falls short of the directory, even wrapped.    *)
LEMMA PredictedIsNat ==
  ASSUME NEW n \in size_type
  PROVE  PREDICTED_VFS_FILE_SIZE(n) \in Nat /\ BITMAP_BYTE_OFFSET <= PREDICTED_VFS_FILE_SIZE(n)
<1> DEFINE k == BITMAP_SIZE_BLOCKS(n)
<1>1. n \in Nat /\ k \in Nat /\ BLOCK_SIZE \in Nat /\ WORDS \in Nat
  BY LayoutIs, OffsetIsNat DEF size_type
<1> HIDE DEF k
<1>2. k * BLOCK_SIZE \in Int /\ n * BLOCK_SIZE \in Int
  BY <1>1, SMT
<1>3. Word(k * BLOCK_SIZE) \in Nat /\ Word(n * BLOCK_SIZE) \in Nat
  BY <1>1, <1>2, WordIs DEF size_type
<1> QED BY <1>3, OffsetsAre
        DEF PREDICTED_VFS_FILE_SIZE, DATA_BYTE_OFFSET, BITMAP_SIZE_DISK_BYTES,
            DATA_SIZE_DISK_BYTES, k
------------------------------------------------------------------------------
LEMMA ChunksTyped ==
  ASSUME NEW s \in DiskSizes
  PROVE  FILE_CHUNKS_NEEDED_FOR_BYTES(s) \in size_type
  BY ChunksFit, VfsAssumption

(* The programs that start.                                                *)
LEMMA StartsKeep ==
  ASSUME TypeInv, NEW p \in Procs, NEW f \in Names
  PROVE  /\ \A prog : FopenFails(p, prog, f) => TypeInv'
         /\ Unlink(p, f) => TypeInv'
         /\ \A prog : FopenRb(p, prog, f) => TypeInv'
         /\ \A s \in DiskSizes : FopenWb(p, f, s) => TypeInv'
<1> USE Fields
<1>0. /\ DiskInv /\ NONE \notin Inodes
      /\ NoJob.n_datablocks \in size_type /\ NoJob.files \in Seq(size_type)
      /\ NoJob.groups \in Seq(Groups) /\ NoJob.asked = 0 /\ NoJob.fd = NONE /\ NoJob.ret = 0
  <2>1. 0 \in size_type
    BY LayoutIs DEF size_type
  <2> QED BY <2>1, VfsAssumption DEF NoJob, TypeInv
<1>1. ASSUME NEW prog, FopenFails(p, prog, f) PROVE TypeInv'
  <2> DEFINE j == [NoJob EXCEPT !.prog = prog, !.name = f, !.ret = 1]
  <2>1. Moves(p, "idle", j) /\ runs' \in 0..MaxRuns
    BY <1>0, <1>1, VfsAssumption DEF FopenFails, Start, Moves, DiskInv
  <2>2. Good("idle", j)
    BY <1>0 DEF Good, JobFields
  <2>3. DiskInv'
    BY <1>0, <1>1, <2>1 DEF FopenFails, diskVars, DiskInv, FilesInv
  <2> HIDE DEF j
  <2> QED BY <2>1, <2>2, <2>3, Frame
<1>2. ASSUME Unlink(p, f) PROVE TypeInv'
  <2> DEFINE j == [NoJob EXCEPT !.prog = "deleteVFS", !.name = f]
  <2>1. Moves(p, "idle", j) /\ runs' \in 0..MaxRuns
    BY <1>0, <1>2, VfsAssumption DEF Unlink, Start, Moves, DiskInv
  <2>2. Good("idle", j)
    BY <1>0 DEF Good, JobFields
  <2>3. disturbed' \subseteq Names
    BY <1>0, <1>2 DEF Unlink, DiskInv
  <2>4. DiskInv'
    BY <1>0, <1>2, <2>1, <2>3 DEF Unlink, DiskInv, FilesInv
  <2> HIDE DEF j
  <2> QED BY <2>1, <2>2, <2>4, Frame
<1>3. ASSUME NEW prog, FopenRb(p, prog, f) PROVE TypeInv'
  <2> DEFINE i == names[f]
             j == [NoJob EXCEPT !.prog = prog, !.name = f, !.fd = i]
  <2>1. Moves(p, "ftell", j) /\ runs' \in 0..MaxRuns
    BY <1>0, <1>3, VfsAssumption DEF FopenRb, Start, Moves, DiskInv
  <2>2. i \in Inodes
    BY <1>0, <1>3 DEF FopenRb, DiskInv
  <2> HIDE DEF i
  <2>3. Good("ftell", j)
    BY <1>0, <2>2 DEF Good, JobFields
  <2>4. DiskInv'
    BY <1>0, <1>3, <2>1 DEF FopenRb, DiskInv, FilesInv
  <2> HIDE DEF j
  <2> QED BY <2>1, <2>3, <2>4, Frame
<1>4. ASSUME NEW s \in DiskSizes, FopenWb(p, f, s) PROVE TypeInv'
  <2> DEFINE n == FILE_CHUNKS_NEEDED_FOR_BYTES(s)
  <2>1. PICK i \in Inodes :
          /\ names' = [names EXCEPT ![f] = i]
          /\ Write(i, EmptyFile)
          /\ Start(p, [NoJob EXCEPT !.prog = "createVFS", !.name = f, !.asked = s, !.fd = i,
                                    !.n_datablocks = n], "fclose")
    BY <1>4 DEF FopenWb
  <2>2. n \in size_type
    BY ChunksTyped
  <2> HIDE DEF n
  <2> DEFINE j == [NoJob EXCEPT !.prog = "createVFS", !.name = f, !.asked = s, !.fd = i,
                                !.n_datablocks = n]
  <2>3. Moves(p, "fclose", j) /\ runs' \in 0..MaxRuns
    BY <1>0, <2>1, VfsAssumption DEF Start, Moves, DiskInv
  <2>4. Good("fclose", j)
    BY <1>0, <2>2 DEF Good, JobFields
  <2>5. FilesInv' /\ written' \subseteq Procs
    <3>1. FilesInv /\ written \subseteq Procs /\ FileTypes(EmptyFile)
      BY <1>0, EmptyTypes DEF DiskInv
    <3>2. FilesInv'
      BY <2>1, <3>1, WriteKeeps
    <3> QED BY <2>1, <3>1, <3>2 DEF Write
  <2>6. disturbed' \subseteq Names
    BY <1>0, <1>4 DEF FopenWb, DiskInv
  <2>7. names' \in [Names -> Inodes \cup {NONE}]
    BY <1>0, <2>1 DEF DiskInv
  <2>8. DiskInv'
    BY <2>3, <2>5, <2>6, <2>7 DEF DiskInv
  <2> HIDE DEF j
  <2> QED BY <2>3, <2>4, <2>8, Frame
<1> QED BY <1>1, <1>2, <1>3, <1>4
------------------------------------------------------------------------------
(* createVFS after its fopen.                                              *)
LEMMA CreatesKeep ==
  ASSUME TypeInv, NEW p \in Procs,
         WriteSuperblock(p) \/ WriteFails(p) \/ SetSize(p) \/ SetSizeFails(p)
  PROVE  TypeInv'
<1>1. Good(pc[p], job[p]) /\ DiskInv /\ DOMAIN job = Procs
  BY DEF TypeInv
<1> DEFINE closed == [job[p] EXCEPT !.fd = NONE]
<1>2. pc[p] = "fclose" => Good("truncate", closed)
  BY <1>1 DEF Good, JobFields
<1>3. CASE WriteSuperblock(p)
  <2> DEFINE i == job[p].fd
             size == Max({inode[i].size, INDEX_SIZE})
             file == [inode[i] EXCEPT !.size = size, !.asked = job[p].asked,
                                      !.n_datablocks = job[p].n_datablocks]
  <2>1. /\ pc[p] = "fclose" /\ pc' = [pc EXCEPT ![p] = "truncate"]
        /\ job' = [job EXCEPT ![p] = closed]
        /\ names' = names /\ runs' = runs /\ disturbed' = disturbed
    BY <1>3 DEF WriteSuperblock, Step
  <2>2. i \in Inodes
    BY <1>1, <2>1 DEF Good
  <2>3. Write(i, file)
    BY <1>1, <1>3, <2>2 DEF WriteSuperblock, DiskInv, FilesInv, FileTypes, FileFields
  <2>4. FileTypes(inode[i])
    BY <1>1, <2>2 DEF DiskInv, FilesInv
  <2>5. size \in Nat
    BY <2>4, LayoutIs, MaxOfTwo DEF FileTypes
  <2> HIDE DEF size, i
  <2>6. FileTypes(file)
    BY <1>1, <2>4, <2>5 DEF Good, FileTypes, FileFields
  <2> HIDE DEF file
  <2>7. FilesInv' /\ written' \subseteq Procs
    <3>1. FilesInv /\ written \subseteq Procs
      BY <1>1 DEF DiskInv
    <3>2. FilesInv'
      BY <2>2, <2>3, <2>6, <3>1, WriteKeeps
    <3> QED BY <2>3, <3>1, <3>2 DEF Write
  <2>8. DiskInv'
    BY <1>1, <2>1, <2>7 DEF DiskInv
  <2> HIDE DEF closed
  <2>9. Moves(p, "truncate", closed) /\ Good("truncate", closed)
    BY <1>2, <2>1 DEF Moves
  <2> QED BY <2>8, <2>9, Frame
<1>4. CASE WriteFails(p)
  <2>1. /\ pc[p] = "fclose" /\ pc' = [pc EXCEPT ![p] = "truncate"]
        /\ job' = [job EXCEPT ![p] = closed]
    BY <1>4 DEF WriteFails, Step
  <2>2. disturbed' \subseteq Names
    BY <1>1, <1>4, <2>1 DEF WriteFails, DiskInv, Good
  <2>3. DiskInv'
    BY <1>1, <1>4, <2>2 DEF WriteFails, Step, DiskInv, FilesInv
  <2> HIDE DEF closed
  <2>4. Moves(p, "truncate", closed) /\ Good("truncate", closed)
    BY <1>2, <2>1 DEF Moves
  <2> QED BY <2>3, <2>4, Frame
<1>5. pc[p] = "truncate" => Good("idle", job[p])
  BY <1>1 DEF Good
<1>6. CASE SetSize(p)
  <2> DEFINE i == names[job[p].name]
             size == PREDICTED_VFS_FILE_SIZE(job[p].n_datablocks)
             file == [inode[i] EXCEPT !.size = size]
  <2>1. /\ pc[p] = "truncate" /\ pc' = [pc EXCEPT ![p] = "idle"] /\ job' = job
        /\ i # NONE /\ Write(i, file) /\ names' = names /\ runs' = runs
        /\ disturbed' = disturbed
    BY <1>6 DEF SetSize, Step
  <2>2. i \in Inodes /\ size \in Nat
    BY <1>1, <2>1, PredictedIsNat DEF Good, DiskInv
  <2>3. FileTypes(inode[i])
    BY <1>1, <2>2 DEF DiskInv, FilesInv
  <2> HIDE DEF size, i
  <2>4. FileTypes(file)
    BY <2>2, <2>3 DEF FileTypes, FileFields
  <2> HIDE DEF file
  <2>5. FilesInv' /\ written' \subseteq Procs
    <3>1. FilesInv /\ written \subseteq Procs
      BY <1>1 DEF DiskInv
    <3>2. FilesInv'
      BY <2>1, <2>2, <2>4, <3>1, WriteKeeps
    <3> QED BY <2>1, <3>1, <3>2 DEF Write
  <2>6. DiskInv'
    BY <1>1, <2>1, <2>5 DEF DiskInv
  <2>7. Moves(p, "idle", job[p]) /\ Good("idle", job[p])
    BY <1>5, <2>1 DEF Moves
  <2> QED BY <2>6, <2>7, Frame
<1>7. CASE SetSizeFails(p)
  <2>1. pc[p] = "truncate" /\ pc' = [pc EXCEPT ![p] = "idle"] /\ job' = job
    BY <1>7 DEF SetSizeFails, Step
  <2>2. disturbed' \subseteq Names
    BY <1>1, <1>7, <2>1 DEF SetSizeFails, DiskInv, Good
  <2>3. DiskInv'
    BY <1>1, <1>7, <2>2 DEF SetSizeFails, Step, DiskInv, FilesInv
  <2>4. Moves(p, "idle", job[p]) /\ Good("idle", job[p])
    BY <1>5, <2>1 DEF Moves
  <2> QED BY <2>3, <2>4, Frame
<1> QED BY <1>3, <1>4, <1>6, <1>7
------------------------------------------------------------------------------
(* What a reader has found out: the code it ends with, and what it prints  *)
(* comes from what it has read.                                            *)
Printed(at, j) ==
  LET occupied == Occupied(j.files)
  IN  /\ at \in {"ftell", "superblock", "rootdir", "bitmap", "print"} => j.ret = 0
      /\ at = "exit" /\ j.ret = 0 /\ j.prog = "readInfo" =>
           /\ BITNSLOTS(j.n_datablocks) > 0
           /\ \E stray \in SUBSET Outside(j.n_datablocks) :
                j.groups = iterate_block_structure(j.used \cup stray, j.n_datablocks,
                                                   DATA_BLOCK_OFFSET(j.n_datablocks))
      /\ at = "exit" /\ j.ret = 0 /\ j.prog = "mls" =>
           /\ j.space.occupied = occupied
           /\ j.space.free = Word(Word(USABLE_DATA_SIZE_BYTES(j.n_datablocks)) - occupied)

(* And as long as nobody writes the file, that is what the file says.      *)
Seen(at, j, file) ==
  LET read == at = "print" \/ (at = "exit" /\ j.ret = 0)
  IN  /\ at \in {"superblock", "rootdir", "bitmap", "print"} => BITMAP_BYTE_OFFSET <= file.size
      /\ at \in {"rootdir", "bitmap"} \/ read => j.n_datablocks = file.n_datablocks
      /\ read /\ j.prog = "readInfo" =>
           /\ HasBitmap(file)
           /\ j.used = {b \in file.used : BITSLOT(b) < BITNSLOTS(j.n_datablocks)}
      /\ at = "exit" => j.ret \notin {3, 4} /\ (j.ret = 5 => ~ HasBitmap(file))

(* The second part: all that a reader relies on.                           *)
ReaderInv ==
  \A p \in Procs : /\ Printed(pc[p], job[p])
                   /\ p \notin written => Seen(pc[p], job[p], Opened(p))

(* A step of a reader.                                                     *)
ReadMove(p) ==
  /\ UNCHANGED <<runs, diskVars>>
  /\ \E to, j : /\ Moves(p, to, j) /\ Good(to, j)
                /\ to = "idle" \/ j.fd = job[p].fd
                /\ Printed(to, j)
                /\ p \notin written => Seen(to, j, Opened(p))

(* A file that passes the test against any word holds a directory.         *)
LEMMA SizeFits ==
  ASSUME NEW size \in Nat, NEW word \in size_type, Word(size) = PREDICTED_VFS_FILE_SIZE(word)
  PROVE  BITMAP_BYTE_OFFSET <= size
<1>1. Word(size) \in Nat /\ Word(size) <= size
  <2>1. CASE size < WORDS
    BY <2>1, LayoutIs, WordIs DEF size_type
  <2>2. CASE ~ (size < WORDS)
    <3>1. Word(size) \in 0..WORDS - 1 /\ WORDS \in Nat
      BY LayoutIs, WordIs DEF size_type
    <3> QED BY <2>2, <3>1
  <2> QED BY <2>1, <2>2
<1>2. BITMAP_BYTE_OFFSET \in Nat /\ PREDICTED_VFS_FILE_SIZE(word) \in Nat
      /\ BITMAP_BYTE_OFFSET <= PREDICTED_VFS_FILE_SIZE(word)
  BY PredictedIsNat, OffsetsAre
<1> QED BY <1>1, <1>2

(* Each read tells the reader what it should, or ends it with a code that  *)
(* is right as long as nobody writes.                                      *)
LEMMA ReadsMove ==
  ASSUME TypeInv, NEW p \in Procs, Printed(pc[p], job[p]),
         p \notin written => Seen(pc[p], job[p], Opened(p)),
         \/ Ftell(p) \/ ReadSuperblock(p) \/ ReadRootdir(p) \/ ReadBitmap(p)
         \/ PrintStructure(p) \/ PrintCrashes(p) \/ PrintListing(p) \/ Exit(p)
  PROVE  ReadMove(p)
<1> DEFINE fresh == p \notin written
           at == pc[p]
           j0 == job[p]
           file == Opened(p)
<1>1. /\ Good(at, j0) /\ DOMAIN job = Procs /\ Printed(at, j0)
      /\ fresh => Seen(at, j0, file)
      /\ at \in {"ftell", "superblock", "rootdir", "bitmap", "print"} =>
           /\ j0.fd \in Inodes /\ FileTypes(file) /\ j0.ret = 0
  BY DEF TypeInv, DiskInv, FilesInv, Opened, Good, Printed
<1>2. UNCHANGED <<runs, diskVars>>
  BY DEF Ftell, ReadSuperblock, ReadRootdir, ReadBitmap, PrintStructure, PrintCrashes,
         PrintListing, Exit, Step, Refuse
<1>3. ASSUME NEW code \in 2..5, NEW from, Refuse(p, from, code),
             from \in {"ftell", "superblock", "rootdir", "bitmap"},
             fresh => code \notin {3, 4} /\ (code = 5 => ~ HasBitmap(file))
      PROVE  ReadMove(p)
  <2> DEFINE j == [j0 EXCEPT !.ret = code]
  <2>1. at = from /\ Moves(p, "exit", j)
    BY <1>3 DEF Refuse, Step, Moves
  <2>2. /\ DOMAIN j = JobFields /\ j.ret = code /\ j.n_datablocks = j0.n_datablocks
        /\ j.asked = j0.asked /\ j.files = j0.files /\ j.groups = j0.groups
        /\ j.fd = j0.fd /\ j.prog = j0.prog
    BY <1>1 DEF Good, JobFields
  <2> HIDE DEF j
  <2>3. Good("exit", j)
    BY <1>1, <1>3, <2>1, <2>2 DEF Good
  <2>4. Printed("exit", j) /\ (fresh => Seen("exit", j, file))
    BY <1>3, <2>2 DEF Printed, Seen
  <2> QED BY <1>2, <2>1, <2>2, <2>3, <2>4 DEF ReadMove
<1>4. CASE Ftell(p)
  <2>0. pc[p] = "ftell"
    BY <1>4 DEF Ftell
  <2>1. PICK word \in size_type :
          IF Word(file.size) = PREDICTED_VFS_FILE_SIZE(word)
          THEN Step(p, "ftell", "superblock") /\ UNCHANGED job
          ELSE Refuse(p, "ftell", 2)
    BY <1>4 DEF Ftell
  <2>2. CASE Word(file.size) = PREDICTED_VFS_FILE_SIZE(word)
    <3>1. Moves(p, "superblock", j0)
      BY <2>1, <2>2 DEF Step, Moves
    <3>2. Good("superblock", j0)
      BY <1>1, <2>0 DEF Good
    <3>3. BITMAP_BYTE_OFFSET <= file.size
      BY <1>1, <2>0, <2>2, SizeFits DEF FileTypes
    <3>4. Printed("superblock", j0) /\ (fresh => Seen("superblock", j0, file))
      BY <1>1, <2>0, <3>3 DEF Printed, Seen
    <3> QED BY <1>2, <3>1, <3>2, <3>4 DEF ReadMove
  <2>3. CASE ~ (Word(file.size) = PREDICTED_VFS_FILE_SIZE(word))
    <3>1. Refuse(p, "ftell", 2)
      BY <2>1, <2>3
    <3> QED BY <1>3, <3>1
  <2> QED BY <2>2, <2>3
<1>5. CASE ReadSuperblock(p)
  <2>0. pc[p] = "superblock"
    BY <1>5 DEF ReadSuperblock
  <2>1. CASE Fread(p, 0, INDEX_SIZE)
    <3> DEFINE n == file.n_datablocks
               j == [j0 EXCEPT !.n_datablocks = n]
    <3>1. Moves(p, "rootdir", j)
      BY <1>5, <2>1 DEF ReadSuperblock, Step, Moves
    <3>2. n \in size_type
      BY <1>1, <2>0 DEF FileTypes
    <3> HIDE DEF n
    <3>3. /\ DOMAIN j = JobFields /\ j.ret = j0.ret /\ j.n_datablocks = n
          /\ j.asked = j0.asked /\ j.files = j0.files /\ j.groups = j0.groups
          /\ j.fd = j0.fd /\ j.prog = j0.prog
      BY <1>1 DEF Good, JobFields
    <3> HIDE DEF j
    <3>4. Good("rootdir", j)
      BY <1>1, <2>0, <3>2, <3>3 DEF Good
    <3>5. Printed("rootdir", j) /\ (fresh => Seen("rootdir", j, file))
      BY <1>1, <2>0, <3>3 DEF Printed, Seen, n
    <3> QED BY <1>2, <3>1, <3>3, <3>4, <3>5 DEF ReadMove
  <2>2. CASE ~ Fread(p, 0, INDEX_SIZE)
    <3>1. Refuse(p, "superblock", 3)
      BY <1>5, <2>2 DEF ReadSuperblock
    <3>2. ~ fresh
      <4>1. fresh => BITMAP_BYTE_OFFSET <= file.size
        BY <1>1, <2>0 DEF Seen
      <4>2. file.size \in Nat
        BY <1>1, <2>0 DEF FileTypes
      <4> QED BY <2>2, <4>1, <4>2, LayoutIs, OffsetsAre DEF Fread
    <3> QED BY <1>3, <3>1, <3>2
  <2> QED BY <2>1, <2>2
<1>6. CASE ReadRootdir(p)
  <2>0. pc[p] = "rootdir"
    BY <1>6 DEF ReadRootdir
  <2>1. CASE Fread(p, ROOTDIR_BYTE_OFFSET, ROOTDIR_SIZE_BYTES)
    <3> DEFINE files == file.files
               to == IF j0.prog = "readInfo" THEN "bitmap" ELSE "print"
               j == [j0 EXCEPT !.files = files]
    <3>1. Moves(p, to, j)
      BY <1>6, <2>1 DEF ReadRootdir, Step, Moves
    <3>2. files \in Seq(size_type)
      BY <1>1, <2>0 DEF FileTypes
    <3> HIDE DEF files
    <3>3. /\ DOMAIN j = JobFields /\ j.ret = j0.ret /\ j.n_datablocks = j0.n_datablocks
          /\ j.asked = j0.asked /\ j.files = files /\ j.groups = j0.groups
          /\ j.fd = j0.fd /\ j.prog = j0.prog
      BY <1>1 DEF Good, JobFields
    <3> HIDE DEF j
    <3>4. Good(to, j)
      BY <1>1, <2>0, <3>2, <3>3 DEF Good
    <3>5. Printed(to, j) /\ (fresh => Seen(to, j, file))
      BY <1>1, <2>0, <3>3 DEF Printed, Seen
    <3> HIDE DEF to
    <3> QED BY <1>2, <3>1, <3>3, <3>4, <3>5 DEF ReadMove
  <2>2. CASE ~ Fread(p, ROOTDIR_BYTE_OFFSET, ROOTDIR_SIZE_BYTES)
    <3>1. Refuse(p, "rootdir", 4)
      BY <1>6, <2>2 DEF ReadRootdir
    <3>2. ~ fresh
      <4>1. fresh => BITMAP_BYTE_OFFSET <= file.size
        BY <1>1, <2>0 DEF Seen
      <4>2. file.size \in Nat
        BY <1>1, <2>0 DEF FileTypes
      <4> QED BY <2>2, <4>1, <4>2, OffsetsAre DEF Fread
    <3> QED BY <1>3, <3>1, <3>2
  <2> QED BY <2>1, <2>2
<1>7. CASE ReadBitmap(p)
  <2> DEFINE bytes == BITNSLOTS(j0.n_datablocks)
  <2>0. pc[p] = "bitmap"
    BY <1>7 DEF ReadBitmap
  <2>1. fresh => j0.n_datablocks = file.n_datablocks
    BY <1>1, <2>0 DEF Seen
  <2>2. CASE Fread(p, BITMAP_BYTE_OFFSET, bytes)
    <3> DEFINE bits == {b \in file.used : BITSLOT(b) < bytes}
               j == [j0 EXCEPT !.used = bits]
    <3>1. Moves(p, "print", j)
      BY <1>7, <2>2 DEF ReadBitmap, Step, Moves
    <3>2. bytes > 0 /\ (fresh => HasBitmap(file))
      BY <2>1, <2>2 DEF Fread, HasBitmap
    <3> HIDE DEF bits
    <3>3. /\ DOMAIN j = JobFields /\ j.ret = j0.ret /\ j.n_datablocks = j0.n_datablocks
          /\ j.asked = j0.asked /\ j.files = j0.files /\ j.groups = j0.groups
          /\ j.fd = j0.fd /\ j.prog = j0.prog /\ j.used = bits
      BY <1>1 DEF Good, JobFields
    <3> HIDE DEF j
    <3>4. Good("print", j)
      BY <1>1, <2>0, <3>2, <3>3 DEF Good
    <3>5. BITMAP_BYTE_OFFSET <= file.size \/ ~ fresh
      BY <1>1, <2>0 DEF Seen
    <3>6. Printed("print", j) /\ (fresh => Seen("print", j, file))
      BY <1>1, <2>0, <2>1, <3>2, <3>3, <3>5 DEF Printed, Seen, bits
    <3> QED BY <1>2, <3>1, <3>3, <3>4, <3>6 DEF ReadMove
  <2>3. CASE ~ Fread(p, BITMAP_BYTE_OFFSET, bytes)
    <3>1. Refuse(p, "bitmap", 5)
      BY <1>7, <2>3 DEF ReadBitmap
    <3>2. fresh => ~ HasBitmap(file)
      BY <2>1, <2>3 DEF Fread, HasBitmap
    <3> QED BY <1>3, <3>1, <3>2
  <2> QED BY <2>2, <2>3
<1>8. CASE PrintStructure(p)
  <2> DEFINE n == j0.n_datablocks
  <2>P. PICK stray \in SUBSET Outside(n) :
          job' = [job EXCEPT ![p].groups =
                    iterate_block_structure(j0.used \cup stray, n, DATA_BLOCK_OFFSET(n))]
    BY <1>8 DEF PrintStructure
  <2> DEFINE groups == iterate_block_structure(j0.used \cup stray, n, DATA_BLOCK_OFFSET(n))
             j == [j0 EXCEPT !.groups = groups]
  <2>0. pc[p] = "print" /\ j0.prog = "readInfo" /\ Moves(p, "exit", j)
    BY <1>8, <2>P DEF PrintStructure, Step, Moves
  <2>1. groups \in Seq(Groups)
    <3>1. n \in Nat /\ DATA_BLOCK_OFFSET(n) \in Nat
      BY <1>1, LayoutIs, OffsetIsNat DEF Good, size_type
    <3> HIDE DEF n
    <3> QED BY <3>1, GroupsTyped
  <2>2. BITNSLOTS(n) > 0
    BY <1>1, <2>0 DEF Good
  <2> HIDE DEF groups
  <2>3. /\ DOMAIN j = JobFields /\ j.ret = j0.ret /\ j.n_datablocks = n
        /\ j.asked = j0.asked /\ j.files = j0.files /\ j.groups = groups
        /\ j.fd = j0.fd /\ j.prog = j0.prog /\ j.used = j0.used
    BY <1>1 DEF Good, JobFields
  <2> HIDE DEF j
  <2>4. Good("exit", j)
    BY <1>1, <2>0, <2>1, <2>3 DEF Good
  <2>5. Printed("exit", j)
    BY <2>0, <2>2, <2>3 DEF Printed, groups
  <2>6. fresh => Seen("exit", j, file)
    BY <1>1, <2>0, <2>3 DEF Seen
  <2> QED BY <1>2, <2>0, <2>3, <2>4, <2>5, <2>6 DEF ReadMove
<1>9. CASE PrintListing(p)
  <2> DEFINE occupied == Occupied(j0.files)
             available == Word(USABLE_DATA_SIZE_BYTES(j0.n_datablocks))
             space == [occupied |-> occupied, available |-> available,
                       free |-> Word(available - occupied)]
             j == [j0 EXCEPT !.space = space]
  <2>0. pc[p] = "print" /\ j0.prog = "mls" /\ Moves(p, "exit", j)
    BY <1>9 DEF PrintListing, Step, Moves
  <2>1. space.occupied = occupied /\ space.free = Word(available - occupied)
    OBVIOUS
  <2> HIDE DEF space
  <2>2. /\ DOMAIN j = JobFields /\ j.ret = j0.ret /\ j.n_datablocks = j0.n_datablocks
        /\ j.asked = j0.asked /\ j.files = j0.files /\ j.groups = j0.groups
        /\ j.fd = j0.fd /\ j.prog = j0.prog /\ j.space = space
    BY <1>1 DEF Good, JobFields
  <2> HIDE DEF j
  <2>3. Good("exit", j)
    BY <1>1, <2>0, <2>2 DEF Good
  <2>4. Printed("exit", j)
    BY <2>0, <2>1, <2>2 DEF Printed
  <2>5. fresh => Seen("exit", j, file)
    BY <1>1, <2>0, <2>2 DEF Seen
  <2> QED BY <1>2, <2>0, <2>2, <2>3, <2>4, <2>5 DEF ReadMove
<1>10. CASE Exit(p)
  <2>1. Moves(p, "idle", NoJob)
    BY <1>10 DEF Exit, Step, Moves
  <2>2. Printed("idle", NoJob) /\ (fresh => Seen("idle", NoJob, file))
    BY DEF Printed, Seen
  <2> QED BY <1>2, <2>1, <2>2, NoJobGood DEF ReadMove
<1>11. CASE PrintCrashes(p)
  <2>1. Moves(p, "idle", NoJob)
    BY <1>11 DEF PrintCrashes, Step, Moves
  <2>2. Printed("idle", NoJob) /\ (fresh => Seen("idle", NoJob, file))
    BY DEF Printed, Seen
  <2> QED BY <1>2, <2>1, <2>2, NoJobGood DEF ReadMove
<1> QED BY <1>4, <1>5, <1>6, <1>7, <1>8, <1>9, <1>10, <1>11
------------------------------------------------------------------------------
(* Whoever writes a file, its readers are noted: what the others know of   *)
(* theirs stays true.                                                      *)
LEMMA ReaderFrame ==
  ASSUME TypeInv, ReaderInv, NEW p \in Procs, NEW to, NEW j, Moves(p, to, j),
         Printed(to, j), p \notin written' => Seen(to, j, inode'[j.fd]),
         \/ inode' = inode /\ written \ {p} \subseteq written'
         \/ \E i \in Inodes : \E file : Write(i, file)
  PROVE  ReaderInv'
<1>1. /\ pc'[p] = to /\ job'[p] = j
      /\ \A q \in Procs : q # p => pc'[q] = pc[q] /\ job'[q] = job[q]
  BY MovesTo
<1>2. ASSUME NEW q \in Procs, q # p
      PROVE  /\ Printed(pc'[q], job'[q])
             /\ q \notin written' => Seen(pc'[q], job'[q], inode'[job'[q].fd])
  <2> DEFINE at == pc[q]
             job_q == job[q]
  <2>1. pc'[q] = at /\ job'[q] = job_q /\ Printed(at, job_q) /\ Good(at, job_q)
        /\ (q \notin written => Seen(at, job_q, inode[job_q.fd]))
    BY <1>1, <1>2 DEF ReaderInv, TypeInv, Opened
  <2> HIDE DEF at, job_q
  <2>2. ASSUME q \notin written' PROVE Seen(at, job_q, inode'[job_q.fd])
    <3>1. CASE inode' = inode /\ written \ {p} \subseteq written'
      <4>1. q \notin written
        BY <1>2, <2>2, <3>1
      <4> QED BY <2>1, <3>1, <4>1
    <3>2. CASE \E i \in Inodes : \E file : Write(i, file)
      <4>0. PICK i \in Inodes : \E file : Write(i, file)
        BY <3>2
      <4>1. PICK file : Write(i, file)
        BY <4>0
      <4>2. q \notin written /\ job_q.fd # i
        BY <2>2, <4>1 DEF Write, job_q
      <4>3. CASE at \in {"superblock", "rootdir", "bitmap", "print", "exit"}
        <5>1. job_q.fd \in Inodes
          BY <2>1, <4>3 DEF Good
        <5>2. inode'[job_q.fd] = inode[job_q.fd]
          BY <4>1, <4>2, <5>1 DEF Write, TypeInv, DiskInv, FilesInv
        <5> QED BY <2>1, <4>2, <5>2
      <4>4. CASE at \notin {"superblock", "rootdir", "bitmap", "print", "exit"}
        BY <4>4 DEF Seen
      <4> QED BY <4>3, <4>4
    <3> QED BY <3>1, <3>2
  <2> QED BY <2>1, <2>2
<1>3. ASSUME NEW q \in Procs
      PROVE  /\ Printed(pc'[q], job'[q])
             /\ q \notin written' => Seen(pc'[q], job'[q], inode'[job'[q].fd])
  <2>1. CASE q = p
    BY <1>1, <2>1
  <2>2. CASE q # p
    BY <1>2, <2>2
  <2> QED BY <2>1, <2>2
<1> QED BY <1>3 DEF ReaderInv, Opened

(* A program that reads nothing has found out nothing.                     *)
LEMMA NothingRead ==
  ASSUME NEW to \in {"idle", "fclose", "truncate"}, NEW j, NEW file
  PROVE  Printed(to, j) /\ Seen(to, j, file)
  BY DEF Printed, Seen

(* Steps that do not read.                                                 *)
LEMMA OthersRead ==
  ASSUME TypeInv, ReaderInv, NEW p \in Procs,
         \/ \E f \in Names, prog \in {"createVFS", "readInfo", "mls"} : FopenFails(p, prog, f)
         \/ \E f \in Names : Unlink(p, f)
         \/ \E f \in Names, s \in DiskSizes : FopenWb(p, f, s)
         \/ \E f \in Names, prog \in {"readInfo", "mls"} : FopenRb(p, prog, f)
         \/ WriteSuperblock(p) \/ WriteFails(p) \/ SetSize(p) \/ SetSizeFails(p)
  PROVE  ReaderInv'
<1>1. ASSUME NEW f \in Names, NEW prog, FopenFails(p, prog, f) PROVE ReaderInv'
  <2> DEFINE j == [NoJob EXCEPT !.prog = prog, !.name = f, !.ret = 1]
  <2>1. Moves(p, "idle", j) /\ inode' = inode /\ written' = written
    BY <1>1 DEF FopenFails, Start, Moves, diskVars
  <2> HIDE DEF j
  <2> QED BY <2>1, NothingRead, ReaderFrame
<1>2. ASSUME NEW f \in Names, Unlink(p, f) PROVE ReaderInv'
  <2> DEFINE j == [NoJob EXCEPT !.prog = "deleteVFS", !.name = f]
  <2>1. Moves(p, "idle", j) /\ inode' = inode /\ written' = written
    BY <1>2 DEF Unlink, Start, Moves
  <2> HIDE DEF j
  <2> QED BY <2>1, NothingRead, ReaderFrame
<1>3. ASSUME NEW f \in Names, NEW s \in DiskSizes, FopenWb(p, f, s) PROVE ReaderInv'
  <2>1. PICK i \in Inodes :
          /\ Write(i, EmptyFile)
          /\ Start(p, [NoJob EXCEPT !.prog = "createVFS", !.name = f, !.asked = s, !.fd = i,
                                    !.n_datablocks = FILE_CHUNKS_NEEDED_FOR_BYTES(s)], "fclose")
    BY <1>3 DEF FopenWb
  <2> DEFINE j == [NoJob EXCEPT !.prog = "createVFS", !.name = f, !.asked = s, !.fd = i,
                                !.n_datablocks = FILE_CHUNKS_NEEDED_FOR_BYTES(s)]
  <2>2. Moves(p, "fclose", j)
    BY <2>1 DEF Start, Moves
  <2> HIDE DEF j
  <2> QED BY <2>1, <2>2, NothingRead, ReaderFrame
<1>4. ASSUME NEW f \in Names, NEW prog, FopenRb(p, prog, f) PROVE ReaderInv'
  <2> DEFINE j == [NoJob EXCEPT !.prog = prog, !.name = f, !.fd = names[f]]
  <2>1. Moves(p, "ftell", j) /\ inode' = inode /\ written' = written \ {p}
    BY <1>4 DEF FopenRb, Start, Moves
  <2>2. j.ret = 0
    BY Fields DEF NoJob
  <2> HIDE DEF j
  <2>3. Printed("ftell", j) /\ \A file : Seen("ftell", j, file)
    BY <2>2 DEF Printed, Seen
  <2> QED BY <2>1, <2>3, ReaderFrame
<1>5. CASE WriteSuperblock(p) \/ WriteFails(p)
  <2> DEFINE j == [job[p] EXCEPT !.fd = NONE]
  <2>1. Moves(p, "truncate", j)
    BY <1>5 DEF WriteSuperblock, WriteFails, Step, Moves, TypeInv
  <2>2. \/ inode' = inode /\ written' = written
        \/ \E i \in Inodes : \E file : Write(i, file)
    <3>1. CASE WriteFails(p)
      BY <3>1 DEF WriteFails
    <3>2. CASE WriteSuperblock(p)
      <4>1. job[p].fd \in Inodes
        BY <3>2 DEF WriteSuperblock, Step, TypeInv, Good
      <4>2. \E file : Write(job[p].fd, file)
        BY <3>2 DEF WriteSuperblock
      <4> QED BY <4>1, <4>2
    <3> QED BY <1>5, <3>1, <3>2
  <2> HIDE DEF j
  <2>3. \/ inode' = inode /\ written \ {p} \subseteq written'
        \/ \E i \in Inodes : \E file : Write(i, file)
    BY <2>2
  <2>4. Printed("truncate", j) /\ Seen("truncate", j, inode'[j.fd])
    BY NothingRead
  <2> QED BY <2>1, <2>3, <2>4, ReaderFrame
<1>6. CASE SetSize(p) \/ SetSizeFails(p)
  <2>1. Moves(p, "idle", job[p])
    BY <1>6 DEF SetSize, SetSizeFails, Step, Moves
  <2>2. \/ inode' = inode /\ written \ {p} \subseteq written'
        \/ \E i \in Inodes : \E file : Write(i, file)
    <3>1. CASE SetSizeFails(p)
      BY <3>1 DEF SetSizeFails
    <3>2. CASE SetSize(p)
      <4> DEFINE i == names[job[p].name]
      <4>1. i \in Inodes
        BY <3>2 DEF SetSize, Step, TypeInv, Good, DiskInv
      <4>2. \E file : Write(i, file)
        BY <3>2 DEF SetSize
      <4> QED BY <4>1, <4>2
    <3> QED BY <1>6, <3>1, <3>2
  <2>3. Printed("idle", job[p]) /\ Seen("idle", job[p], inode'[job[p].fd])
    BY NothingRead
  <2> QED BY <2>1, <2>2, <2>3, ReaderFrame
<1> QED BY <1>1, <1>2, <1>3, <1>4, <1>5, <1>6

(* A step of a reader keeps both parts.                                    *)
LEMMA MoveReads ==
  ASSUME TypeInv, ReaderInv, NEW p \in Procs, ReadMove(p)
  PROVE  TypeInv' /\ ReaderInv'
<1>1. PICK to, j : /\ Moves(p, to, j) /\ Good(to, j)
                   /\ to = "idle" \/ j.fd = job[p].fd
                   /\ Printed(to, j)
                   /\ p \notin written => Seen(to, j, Opened(p))
  BY DEF ReadMove
<1>2. inode' = inode /\ written' = written /\ DiskInv'
  BY DEF ReadMove, diskVars, TypeInv, DiskInv, FilesInv
<1>3. p \notin written' => Seen(to, j, inode'[j.fd])
  BY <1>1, <1>2, NothingRead DEF Opened
<1>4. ReaderInv'
  BY <1>1, <1>2, <1>3, ReaderFrame
<1> QED BY <1>1, <1>2, <1>4, Frame

LEMMA StepReads == TypeInv /\ ReaderInv /\ [Next]_vars => TypeInv' /\ ReaderInv'
<1> SUFFICES ASSUME TypeInv, ReaderInv, [Next]_vars PROVE TypeInv' /\ ReaderInv'
  OBVIOUS
<1>1. CASE Next
  <2>1. PICK p \in Procs :
          \/ \E f \in Names, prog \in {"createVFS", "readInfo", "mls"} : FopenFails(p, prog, f)
          \/ \E f \in Names : Unlink(p, f)
          \/ \E f \in Names, s \in DiskSizes : FopenWb(p, f, s)
          \/ \E f \in Names, prog \in {"readInfo", "mls"} : FopenRb(p, prog, f)
          \/ WriteSuperblock(p) \/ WriteFails(p) \/ SetSize(p) \/ SetSizeFails(p)
          \/ Ftell(p) \/ ReadSuperblock(p) \/ ReadRootdir(p) \/ ReadBitmap(p)
          \/ PrintStructure(p) \/ PrintCrashes(p) \/ PrintListing(p) \/ Exit(p)
    BY <1>1 DEF Next
  <2>2. CASE \/ Ftell(p) \/ ReadSuperblock(p) \/ ReadRootdir(p) \/ ReadBitmap(p)
             \/ PrintStructure(p) \/ PrintCrashes(p) \/ PrintListing(p) \/ Exit(p)
    <3>1. Printed(pc[p], job[p]) /\ (p \notin written => Seen(pc[p], job[p], Opened(p)))
      BY DEF ReaderInv
    <3>2. ReadMove(p)
      BY <2>2, <3>1, ReadsMove
    <3> QED BY <3>2, MoveReads
  <2>3. CASE \/ \E f \in Names, prog \in {"createVFS", "readInfo", "mls"} : FopenFails(p, prog, f)
             \/ \E f \in Names : Unlink(p, f)
             \/ \E f \in Names, s \in DiskSizes : FopenWb(p, f, s)
             \/ \E f \in Names, prog \in {"readInfo", "mls"} : FopenRb(p, prog, f)
             \/ WriteSuperblock(p) \/ WriteFails(p) \/ SetSize(p) \/ SetSizeFails(p)
    <3>1. ReaderInv'
      BY <2>3, OthersRead
    <3>2. TypeInv'
      BY <2>3, StartsKeep, CreatesKeep
    <3> QED BY <3>1, <3>2
  <2> QED BY <2>1, <2>2, <2>3
<1>2. CASE UNCHANGED vars
  <2>1. UNCHANGED <<pc, job, runs, names, inode, written, disturbed>>
    BY <1>2 DEF vars, diskVars
  <2>2. TypeInv'
    BY <2>1 DEF TypeInv, DiskInv, FilesInv
  <2>3. ReaderInv'
    BY <2>1 DEF ReaderInv, Opened
  <2> QED BY <2>2, <2>3
<1> QED BY <1>1, <1>2
------------------------------------------------------------------------------
(* createVFS at work, and what it leaves.  Everything it writes carries a  *)
(* count of blocks of some size asked for; it alone writes a disk that was *)
(* not disturbed, under the name that leads there.                         *)
Making(p, f) == pc[p] \in {"fclose", "truncate"} /\ job[p].name = f

MadeCounts == {0} \cup {FILE_CHUNKS_NEEDED_FOR_BYTES(s) : s \in DiskSizes}

NamesApart == \A f, g \in Names : names[f] = names[g] /\ names[f] # NONE => f = g

(* The file of a maker: it is the one the name leads to, if any name       *)
(* does, and what is written into it is counted from the size asked for.   *)
Maker(p) ==
  pc[p] \in {"fclose", "truncate"} =>
    /\ job[p].asked \in DiskSizes
    /\ job[p].n_datablocks = FILE_CHUNKS_NEEDED_FOR_BYTES(job[p].asked)
    /\ pc[p] = "fclose" => \A f \in Names : names[f] = job[p].fd => f = job[p].name
    /\ names[job[p].name] # NONE => inode[names[job[p].name]].n_datablocks \in MadeCounts

(* On a name nobody disturbed there is one maker, and its file is there.   *)
MakerAlone(p, f) ==
  /\ names[f] # NONE
  /\ \A q \in Procs : Making(q, f) => q = p
  /\ pc[p] = "fclose" => job[p].fd = names[f]
  /\ pc[p] = "truncate" => /\ inode[names[f]].n_datablocks = job[p].n_datablocks
                           /\ inode[names[f]].asked = job[p].asked

(* The superblock and the length a finished createVFS leaves.              *)
MadeAsAsked(file) ==
  file.asked # 0 => /\ file.n_datablocks = FILE_CHUNKS_NEEDED_FOR_BYTES(file.asked)
                    /\ file.size = PREDICTED_VFS_FILE_SIZE(file.n_datablocks)

Undisturbed(f) ==
  /\ \A p \in Procs : Making(p, f) => MakerAlone(p, f)
  /\ (\A p \in Procs : ~ Making(p, f)) /\ names[f] # NONE => MadeAsAsked(inode[names[f]])

(* The third part of the invariant.                                        *)
CreationInv ==
  /\ NamesApart
  /\ \A i \in Inodes : inode[i] \in Images \/ inode[i].n_datablocks \in MadeCounts
  /\ \A p \in Procs : Maker(p)
  /\ \A f \in Names : f \notin disturbed => Undisturbed(f)

LEMMA InitCreation == Init => CreationInv
<1> SUFFICES ASSUME Init PROVE CreationInv
  OBVIOUS
<1>1. NamesApart
  BY DEF Init, NamesApart
<1>2. \A i \in Inodes : inode[i] \in Images \/ inode[i].n_datablocks \in MadeCounts
  BY DEF Init, MadeCounts, EmptyFile
<1>3. \A p \in Procs : pc[p] = "idle"
  BY DEF Init
<1>4. \A i \in Inodes : inode[i].asked = 0
  <2>1. EmptyFile.asked = 0 /\ \A image \in Images : image.asked = 0
    BY VfsAssumption DEF EmptyFile
  <2> QED BY <2>1 DEF Init
<1>5. \A f \in Names : names[f] # NONE => names[f] \in Inodes
  BY DEF Init
<1>6. \A p \in Procs : Maker(p)
  BY <1>3 DEF Maker
<1>7. \A f \in Names : Undisturbed(f)
  BY <1>3, <1>4, <1>5 DEF Undisturbed, Making, MadeAsAsked
<1> QED BY <1>1, <1>2, <1>6, <1>7 DEF CreationInv

(* A program that makes nothing, and leaves names and files as they are.   *)
LEMMA Bystander ==
  ASSUME TypeInv, CreationInv, NEW p \in Procs, NEW to, NEW j, Moves(p, to, j),
         pc[p] \notin {"fclose", "truncate"}, to \notin {"fclose", "truncate"},
         UNCHANGED <<names, inode, disturbed>>
  PROVE  CreationInv'
<1>1. /\ pc'[p] = to /\ job'[p] = j
      /\ \A q \in Procs : q # p => pc'[q] = pc[q] /\ job'[q] = job[q]
  BY MovesTo
<1>2. \A q \in Procs : Maker(q)'
  BY <1>1 DEF CreationInv, Maker
<1>3. \A q \in Procs : \A f : Making(q, f)' <=> Making(q, f)
  BY <1>1 DEF Making
<1>4. \A q \in Procs : \A f : Making(q, f) => pc'[q] = pc[q] /\ job'[q] = job[q]
  BY <1>1 DEF Making
<1>5. ASSUME NEW f \in Names, f \notin disturbed' PROVE Undisturbed(f)'
  <2>1. Undisturbed(f)
    BY <1>5 DEF CreationInv
  <2>2. \A q \in Procs : Making(q, f)' => MakerAlone(q, f)'
    BY <1>3, <1>4, <2>1 DEF Undisturbed, MakerAlone
  <2> QED BY <1>3, <2>1, <2>2 DEF Undisturbed
<1> QED BY <1>2, <1>5 DEF CreationInv, NamesApart

(* fopen: a maker that is alone on the name starts it undisturbed.         *)
LEMMA CreationOpens ==
  ASSUME TypeInv, CreationInv, NEW p \in Procs, NEW f \in Names, NEW s \in DiskSizes,
         FopenWb(p, f, s)
  PROVE  CreationInv'
<1> DEFINE n == FILE_CHUNKS_NEEDED_FOR_BYTES(s)
<1>1. PICK i \in Inodes :
        /\ IF names[f] = NONE THEN Unused(i) ELSE i = names[f]
        /\ names' = [names EXCEPT ![f] = i]
        /\ Write(i, EmptyFile)
        /\ Start(p, [NoJob EXCEPT !.prog = "createVFS", !.name = f, !.asked = s, !.fd = i,
                                  !.n_datablocks = n], "fclose")
        /\ disturbed' = IF Creating(f) = {} THEN disturbed \ {f} ELSE disturbed \cup {f}
  BY DEF FopenWb
<1> HIDE DEF n
<1> DEFINE j == [NoJob EXCEPT !.prog = "createVFS", !.name = f, !.asked = s, !.fd = i,
                              !.n_datablocks = n]
<1>2. Moves(p, "fclose", j) /\ pc[p] = "idle"
  BY <1>1 DEF Start, Moves
<1>3. j.name = f /\ j.asked = s /\ j.fd = i /\ j.n_datablocks = n
  BY Fields DEF NoJob, JobFields
<1> HIDE DEF j
<1>4. /\ pc'[p] = "fclose" /\ job'[p] = j
      /\ \A q \in Procs : q # p => pc'[q] = pc[q] /\ job'[q] = job[q]
  BY <1>2, MovesTo
<1>5. /\ names'[f] = i /\ \A g \in Names : g # f => names'[g] = names[g]
      /\ inode'[i] = EmptyFile /\ \A k \in Inodes : k # i => inode'[k] = inode[k]
      /\ NONE \notin Inodes /\ \A g \in Names : names[g] \in Inodes \cup {NONE}
      /\ EmptyFile.n_datablocks = 0
  BY <1>1, VfsAssumption DEF TypeInv, DiskInv, FilesInv, Write, EmptyFile
<1>6. \A g \in Names : g # f => names[g] # i
  BY <1>1, <1>5 DEF Unused, CreationInv, NamesApart
<1>7. NamesApart'
  BY <1>5, <1>6 DEF CreationInv, NamesApart
<1>8. \A k \in Inodes : inode'[k] \in Images \/ inode'[k].n_datablocks \in MadeCounts
  BY <1>5 DEF CreationInv, MadeCounts
<1>9. ASSUME NEW q \in Procs, q # p PROVE Maker(q)'
  <2> SUFFICES ASSUME pc[q] \in {"fclose", "truncate"} PROVE Maker(q)'
    BY <1>4, <1>9 DEF Maker
  <2>1. Maker(q) /\ pc'[q] = pc[q] /\ job'[q] = job[q] /\ Good(pc[q], job[q])
    BY <1>4, <1>9 DEF CreationInv, TypeInv
  <2> DEFINE h == job[q].name
             k == job[q].fd
  <2>2. h \in Names /\ (pc[q] = "fclose" => k \in Inodes)
    BY <2>1 DEF Good
  <2>3. ASSUME pc[q] = "fclose", NEW g \in Names, names'[g] = k PROVE g = h
    <3>1. CASE g # f
      BY <1>5, <2>1, <2>3, <3>1 DEF Maker
    <3>2. CASE g = f /\ names[f] = NONE
      BY <1>1, <1>5, <2>3, <3>2 DEF Unused
    <3>3. CASE g = f /\ names[f] # NONE
      <4>1. names[f] = k
        BY <1>1, <1>5, <2>3, <3>3
      <4> QED BY <2>1, <2>3, <3>3, <4>1 DEF Maker
    <3> QED BY <3>1, <3>2, <3>3
  <2>4. ASSUME names'[h] # NONE PROVE inode'[names'[h]].n_datablocks \in MadeCounts
    <3>1. CASE h = f
      BY <1>5, <3>1 DEF MadeCounts
    <3>2. CASE h # f
      BY <1>5, <1>6, <2>1, <2>2, <2>4, <3>2 DEF Maker
    <3> QED BY <3>1, <3>2
  <2> QED BY <2>1, <2>3, <2>4 DEF Maker
<1>10. Maker(p)'
  <2>1. \A g \in Names : names'[g] = i => g = f
    BY <1>5, <1>6
  <2> QED BY <1>3, <1>4, <1>5, <2>1 DEF Maker, MadeCounts, n
<1>11. ASSUME NEW g \in Names, g # f, g \notin disturbed' PROVE Undisturbed(g)'
  <2>1. Undisturbed(g) /\ names'[g] = names[g]
        /\ (names[g] # NONE => inode'[names[g]] = inode[names[g]])
    BY <1>1, <1>5, <1>6, <1>11 DEF CreationInv
  <2>2. \A q \in Procs : /\ Making(q, g)' <=> Making(q, g)
                         /\ Making(q, g) => pc'[q] = pc[q] /\ job'[q] = job[q]
    BY <1>2, <1>3, <1>4, <1>11 DEF Making
  <2>3. \A q \in Procs : Making(q, g)' => MakerAlone(q, g)'
    BY <2>1, <2>2 DEF Undisturbed, MakerAlone
  <2> QED BY <2>1, <2>2, <2>3 DEF Undisturbed
<1>12. ASSUME f \notin disturbed' PROVE Undisturbed(f)'
  <2>1. \A q \in Procs : ~ Making(q, f)
    BY <1>1, <1>12 DEF Creating, Making
  <2>2. \A q \in Procs : Making(q, f)' => q = p
    BY <1>4, <2>1 DEF Making
  <2>3. Making(p, f)'
    BY <1>3, <1>4 DEF Making
  <2>4. MakerAlone(p, f)'
    BY <1>3, <1>4, <1>5, <2>2 DEF MakerAlone
  <2> QED BY <2>2, <2>3, <2>4 DEF Undisturbed
<1>13. \A q \in Procs : Maker(q)'
  BY <1>9, <1>10
<1>14. \A g \in Names : g \notin disturbed' => Undisturbed(g)'
  BY <1>11, <1>12
<1> QED BY <1>7, <1>8, <1>13, <1>14 DEF CreationInv

(* deleteVFS disturbs a name some maker is at work on.                     *)
LEMMA CreationUnlinks ==
  ASSUME TypeInv, CreationInv, NEW p \in Procs, NEW f \in Names, Unlink(p, f)
  PROVE  CreationInv'
<1> DEFINE j == [NoJob EXCEPT !.prog = "deleteVFS", !.name = f]
<1>1. Moves(p, "idle", j) /\ pc[p] = "idle" /\ inode' = inode
      /\ disturbed' = IF Creating(f) = {} THEN disturbed ELSE disturbed \cup {f}
  BY DEF Unlink, Start, Moves
<1> HIDE DEF j
<1>2. /\ pc'[p] = "idle" /\ job'[p] = j
      /\ \A q \in Procs : q # p => pc'[q] = pc[q] /\ job'[q] = job[q]
  BY <1>1, MovesTo
<1>3. /\ names'[f] = NONE /\ \A g \in Names : g # f => names'[g] = names[g]
      /\ NONE \notin Inodes
  BY VfsAssumption DEF Unlink, TypeInv, DiskInv
<1>4. NamesApart'
  BY <1>3 DEF CreationInv, NamesApart
<1>5. ASSUME NEW q \in Procs PROVE Maker(q)'
  <2> SUFFICES ASSUME pc'[q] \in {"fclose", "truncate"} PROVE Maker(q)'
    BY DEF Maker
  <2>1. q # p /\ Maker(q) /\ pc'[q] = pc[q] /\ job'[q] = job[q] /\ Good(pc[q], job[q])
    BY <1>2 DEF CreationInv, TypeInv
  <2>2. job[q].name \in Names /\ (pc[q] = "fclose" => job[q].fd \in Inodes)
    BY <2>1 DEF Good
  <2> QED BY <1>1, <1>3, <2>1, <2>2 DEF Maker
<1>6. \A q \in Procs : \A g : /\ Making(q, g)' <=> Making(q, g)
                              /\ Making(q, g) => pc'[q] = pc[q] /\ job'[q] = job[q]
  BY <1>1, <1>2 DEF Making
<1>7. ASSUME NEW g \in Names, g \notin disturbed' PROVE Undisturbed(g)'
  <2>1. CASE g = f
    <3>1. \A q \in Procs : ~ Making(q, f)
      BY <1>1, <1>7, <2>1 DEF Creating, Making
    <3> QED BY <1>3, <1>6, <2>1, <3>1 DEF Undisturbed
  <2>2. CASE g # f
    <3>1. Undisturbed(g) /\ names'[g] = names[g]
      BY <1>1, <1>3, <1>7, <2>2 DEF CreationInv
    <3>2. \A q \in Procs : Making(q, g)' => MakerAlone(q, g)'
      BY <1>1, <1>6, <3>1 DEF Undisturbed, MakerAlone
    <3> QED BY <1>1, <1>6, <3>1, <3>2 DEF Undisturbed
  <2> QED BY <2>1, <2>2
<1> QED BY <1>1, <1>4, <1>5, <1>7 DEF CreationInv
------------------------------------------------------------------------------
LEMMA InitReads == Init => ReaderInv
  BY NothingRead DEF Init, ReaderInv

(* A maker that goes on to truncate the file it has closed.                *)
LEMMA CreationCloses ==
  ASSUME TypeInv, CreationInv, NEW p \in Procs, WriteSuperblock(p) \/ WriteFails(p)
  PROVE  CreationInv'
<1> DEFINE j == [job[p] EXCEPT !.fd = NONE]
           i == job[p].fd
           n == job[p].n_datablocks
           s == job[p].asked
<1>1. /\ pc[p] = "fclose" /\ Moves(p, "truncate", j) /\ names' = names
      /\ disturbed \subseteq disturbed'
  BY DEF WriteSuperblock, WriteFails, Step, Moves
<1>2. /\ Good(pc[p], job[p]) /\ Maker(p) /\ DiskInv
      /\ i \in Inodes /\ job[p].name \in Names /\ NONE \notin Inodes
  BY <1>1, VfsAssumption DEF TypeInv, CreationInv, Good
<1>N. PICK f \in Names : f = job[p].name
  BY <1>2
<1>3. j.name = f /\ j.n_datablocks = n /\ j.asked = s
  BY <1>N, <1>2 DEF Good, JobFields
<1>4. \A g \in Names : names[g] = i => g = f
  BY <1>N, <1>1, <1>2 DEF Maker
<1>5. n \in MadeCounts /\ s \in DiskSizes /\ n = FILE_CHUNKS_NEEDED_FOR_BYTES(s)
  BY <1>1, <1>2 DEF Maker, MadeCounts
<1>6. PICK file :
        /\ \A k \in Inodes : inode'[k] = inode[k] \/ (k = i /\ inode'[k] = file)
        /\ file.n_datablocks = n /\ file.asked = s
        /\ f \notin disturbed' => inode'[i] = file
  <2>1. CASE WriteSuperblock(p)
    <3> DEFINE new == [inode[i] EXCEPT !.size = Max({@, INDEX_SIZE}), !.asked = s,
                                       !.n_datablocks = n]
    <3>1. DOMAIN inode[i] = FileFields
      BY <1>2 DEF DiskInv, FilesInv, FileTypes
    <3>2. new.n_datablocks = n /\ new.asked = s
      BY <3>1 DEF FileFields
    <3>3. Write(i, new)
      BY <2>1, <3>1 DEF WriteSuperblock, FileFields
    <3> HIDE DEF new
    <3>4. inode'[i] = new /\ \A k \in Inodes : k # i => inode'[k] = inode[k]
      BY <1>2, <3>3 DEF Write, DiskInv, FilesInv
    <3> QED BY <3>2, <3>4
  <2>2. CASE WriteFails(p)
    <3> DEFINE new == [EmptyFile EXCEPT !.n_datablocks = n, !.asked = s]
    <3>1. new.n_datablocks = n /\ new.asked = s
      BY DEF EmptyFile
    <3> HIDE DEF new
    <3>2. f \in disturbed' /\ inode' = inode
      BY <1>N, <2>2 DEF WriteFails
    <3> QED BY <3>1, <3>2
  <2> QED BY <2>1, <2>2
<1> HIDE DEF j
<1>7. /\ pc'[p] = "truncate" /\ job'[p] = j
      /\ \A q \in Procs : q # p => pc'[q] = pc[q] /\ job'[q] = job[q]
  BY <1>1, MovesTo
<1>8. \A q \in Procs : Making(q, f)' <=> Making(q, f)
  BY <1>N, <1>1, <1>3, <1>7 DEF Making
<1>9. \A k \in Inodes : inode'[k] \in Images \/ inode'[k].n_datablocks \in MadeCounts
  BY <1>5, <1>6 DEF CreationInv
<1>10. \A g \in Names : names[g] # NONE /\ inode[names[g]].n_datablocks \in MadeCounts
                          => inode'[names[g]].n_datablocks \in MadeCounts
  BY <1>2, <1>5, <1>6 DEF DiskInv
<1>11. ASSUME NEW q \in Procs PROVE Maker(q)'
  <2>1. CASE q = p
    BY <1>N, <1>1, <1>2, <1>3, <1>5, <1>7, <1>10, <2>1 DEF Maker
  <2>2. CASE q # p
    <3> SUFFICES ASSUME pc[q] \in {"fclose", "truncate"} PROVE Maker(q)'
      BY <1>7, <2>2 DEF Maker
    <3>1. Maker(q) /\ job[q].name \in Names /\ pc'[q] = pc[q] /\ job'[q] = job[q]
      BY <1>7, <2>2 DEF CreationInv, TypeInv, Good
    <3> QED BY <1>1, <1>10, <3>1 DEF Maker
  <2> QED BY <2>1, <2>2
<1>12. ASSUME NEW g \in Names, g # f, g \notin disturbed' PROVE Undisturbed(g)'
  <2>1. Undisturbed(g) /\ names'[g] = names[g]
        /\ (names[g] # NONE => inode'[names[g]] = inode[names[g]])
    BY <1>1, <1>2, <1>4, <1>6, <1>12 DEF CreationInv, DiskInv
  <2>2. \A q \in Procs : /\ Making(q, g)' <=> Making(q, g)
                         /\ Making(q, g) => pc'[q] = pc[q] /\ job'[q] = job[q]
    BY <1>N, <1>3, <1>7, <1>12 DEF Making
  <2>3. \A q \in Procs : Making(q, g)' => MakerAlone(q, g)'
    BY <2>1, <2>2 DEF Undisturbed, MakerAlone
  <2> QED BY <2>1, <2>2, <2>3 DEF Undisturbed
<1>13. ASSUME f \notin disturbed' PROVE Undisturbed(f)'
  <2>1. Making(p, f) /\ Undisturbed(f)
    BY <1>N, <1>1, <1>2, <1>13 DEF Making, CreationInv
  <2>2. MakerAlone(p, f)
    BY <2>1 DEF Undisturbed
  <2>3. names[f] = i /\ inode'[i] = file
    BY <1>1, <1>6, <1>13, <2>2 DEF MakerAlone
  <2>4. MakerAlone(p, f)'
    BY <1>1, <1>3, <1>6, <1>7, <1>8, <2>2, <2>3 DEF MakerAlone
  <2>5. \A q \in Procs : Making(q, f)' => q = p
    BY <1>8, <2>2 DEF MakerAlone
  <2>6. Making(p, f)'
    BY <1>8, <2>1
  <2> QED BY <2>4, <2>5, <2>6 DEF Undisturbed
<1>14. \A q \in Procs : Maker(q)'
  BY <1>11
<1>15. \A g \in Names : g \notin disturbed' => Undisturbed(g)'
  BY <1>12, <1>13
<1> QED BY <1>1, <1>9, <1>14, <1>15 DEF CreationInv, NamesApart
------------------------------------------------------------------------------
(* A maker that gives the file its size is done: if nobody disturbed it,   *)
(* the disk is made as asked.                                              *)
LEMMA CreationEnds ==
  ASSUME TypeInv, CreationInv, NEW p \in Procs, SetSize(p) \/ SetSizeFails(p)
  PROVE  CreationInv'
<1>1. PICK f \in Names : f = job[p].name
  BY DEF SetSize, SetSizeFails, Step, TypeInv, Good
<1>2. /\ pc[p] = "truncate" /\ Moves(p, "idle", job[p]) /\ names' = names
      /\ disturbed \subseteq disturbed'
  BY DEF SetSize, SetSizeFails, Step, Moves
<1>3. pc'[p] = "idle" /\ \A q \in Procs : job'[q] = job[q] /\ (q # p => pc'[q] = pc[q])
  BY <1>2, MovesTo
<1>4. DiskInv /\ NONE \notin Inodes /\ Maker(p) /\ job[p].n_datablocks \in size_type
  BY VfsAssumption DEF TypeInv, CreationInv, Good
<1>5. /\ \A g \in Names : names[g] # NONE =>
           /\ names[g] \in Inodes
           /\ inode'[names[g]].n_datablocks = inode[names[g]].n_datablocks
           /\ inode'[names[g]].asked = inode[names[g]].asked
           /\ g # f => inode'[names[g]] = inode[names[g]]
      /\ \A k \in Inodes : inode'[k] = inode[k] \/ (names[f] # NONE /\ k = names[f])
      /\ f \notin disturbed' =>
           names[f] # NONE /\ inode'[names[f]].size = PREDICTED_VFS_FILE_SIZE(job[p].n_datablocks)
  <2>1. CASE SetSize(p)
    <3> DEFINE i == names[f]
               size == PREDICTED_VFS_FILE_SIZE(job[p].n_datablocks)
               new == [inode[i] EXCEPT !.size = size]
    <3>1. i # NONE /\ Write(i, new)
      BY <1>1, <2>1 DEF SetSize
    <3>2. i \in Inodes /\ DOMAIN inode[i] = FileFields
      BY <1>4, <3>1 DEF DiskInv, FilesInv, FileTypes
    <3> HIDE DEF size
    <3>3. new.n_datablocks = inode[i].n_datablocks /\ new.asked = inode[i].asked /\ new.size = size
      BY <3>2 DEF FileFields
    <3> HIDE DEF new
    <3>4. inode'[i] = new /\ \A k \in Inodes : k # i => inode'[k] = inode[k]
      BY <1>4, <3>1, <3>2 DEF Write, DiskInv, FilesInv
    <3>5. \A g \in Names : names[g] # NONE => names[g] \in Inodes /\ (g # f => names[g] # i)
      BY <1>4, <3>1 DEF DiskInv, CreationInv, NamesApart
    <3> QED BY <3>1, <3>3, <3>4, <3>5 DEF size
  <2>2. CASE SetSizeFails(p)
    <3>1. f \in disturbed' /\ inode' = inode
      BY <1>1, <2>2 DEF SetSizeFails
    <3> QED BY <1>4, <3>1 DEF DiskInv
  <2> QED BY <2>1, <2>2
<1>6. \A k \in Inodes : inode'[k] \in Images \/ inode'[k].n_datablocks \in MadeCounts
  <2>1. names[f] # NONE => inode[names[f]].n_datablocks \in MadeCounts
    BY <1>1, <1>2, <1>4 DEF Maker
  <2> QED BY <1>5, <2>1 DEF CreationInv
<1>7. ASSUME NEW q \in Procs PROVE Maker(q)'
  <2> SUFFICES ASSUME pc'[q] \in {"fclose", "truncate"} PROVE Maker(q)'
    BY DEF Maker
  <2>1. q # p /\ Maker(q) /\ pc'[q] = pc[q] /\ job'[q] = job[q] /\ Good(pc[q], job[q])
    BY <1>3 DEF CreationInv, TypeInv
  <2>2. job[q].name \in Names
    BY <2>1 DEF Good
  <2> QED BY <1>2, <1>5, <2>1, <2>2 DEF Maker
<1>8. ASSUME NEW g \in Names, g # f, g \notin disturbed' PROVE Undisturbed(g)'
  <2>1. Undisturbed(g) /\ names'[g] = names[g]
        /\ (names[g] # NONE => inode'[names[g]] = inode[names[g]])
    BY <1>2, <1>5, <1>8 DEF CreationInv
  <2>2. \A q \in Procs : /\ Making(q, g)' <=> Making(q, g)
                         /\ Making(q, g) => pc'[q] = pc[q] /\ job'[q] = job[q]
    BY <1>1, <1>2, <1>3, <1>8 DEF Making
  <2>3. \A q \in Procs : Making(q, g)' => MakerAlone(q, g)'
    BY <2>1, <2>2 DEF Undisturbed, MakerAlone
  <2> QED BY <2>1, <2>2, <2>3 DEF Undisturbed
<1>9. ASSUME f \notin disturbed' PROVE Undisturbed(f)'
  <2>1. Making(p, f) /\ Undisturbed(f)
    BY <1>1, <1>2, <1>9 DEF Making, CreationInv
  <2>2. MakerAlone(p, f)
    BY <2>1 DEF Undisturbed
  <2>3. \A q \in Procs : ~ Making(q, f)'
    BY <1>3, <2>2 DEF MakerAlone, Making
  <2>4. /\ names[f] # NONE
        /\ inode'[names[f]].n_datablocks = FILE_CHUNKS_NEEDED_FOR_BYTES(inode'[names[f]].asked)
        /\ inode'[names[f]].size = PREDICTED_VFS_FILE_SIZE(inode'[names[f]].n_datablocks)
    <3>1. /\ inode[names[f]].n_datablocks = job[p].n_datablocks
          /\ inode[names[f]].asked = job[p].asked
          /\ job[p].n_datablocks = FILE_CHUNKS_NEEDED_FOR_BYTES(job[p].asked)
      BY <1>2, <1>4, <2>2 DEF MakerAlone, Maker
    <3> QED BY <1>5, <1>9, <3>1
  <2> QED BY <1>2, <2>3, <2>4 DEF Undisturbed, MadeAsAsked
<1>10. \A q \in Procs : Maker(q)'
  BY <1>7
<1>11. \A g \in Names : g \notin disturbed' => Undisturbed(g)'
  BY <1>8, <1>9
<1> QED BY <1>2, <1>6, <1>10, <1>11 DEF CreationInv, NamesApart

(* Every step keeps the third part.                                        *)
LEMMA StepCreation ==
  TypeInv /\ ReaderInv /\ CreationInv /\ [Next]_vars => CreationInv'
<1> SUFFICES ASSUME TypeInv, ReaderInv, CreationInv, [Next]_vars PROVE CreationInv'
  OBVIOUS
<1>1. ASSUME NEW p \in Procs, NEW f \in Names, NEW prog, FopenFails(p, prog, f)
      PROVE  CreationInv'
  <2> DEFINE j == [NoJob EXCEPT !.prog = prog, !.name = f, !.ret = 1]
  <2>1. Moves(p, "idle", j) /\ pc[p] = "idle" /\ UNCHANGED <<names, inode, disturbed>>
    BY <1>1 DEF FopenFails, Start, Moves, diskVars
  <2> HIDE DEF j
  <2> QED BY <2>1, Bystander
<1>2. ASSUME NEW p \in Procs, NEW f \in Names, NEW prog, FopenRb(p, prog, f)
      PROVE  CreationInv'
  <2> DEFINE j == [NoJob EXCEPT !.prog = prog, !.name = f, !.fd = names[f]]
  <2>1. Moves(p, "ftell", j) /\ pc[p] = "idle" /\ UNCHANGED <<names, inode, disturbed>>
    BY <1>2 DEF FopenRb, Start, Moves
  <2> HIDE DEF j
  <2> QED BY <2>1, Bystander
<1>3. ASSUME NEW p \in Procs,
             \/ Ftell(p) \/ ReadSuperblock(p) \/ ReadRootdir(p) \/ ReadBitmap(p)
             \/ PrintStructure(p) \/ PrintCrashes(p) \/ PrintListing(p) \/ Exit(p)
      PROVE  CreationInv'
  <2>1. Printed(pc[p], job[p]) /\ (p \notin written => Seen(pc[p], job[p], Opened(p)))
    BY DEF ReaderInv
  <2>2. ReadMove(p)
    BY <1>3, <2>1, ReadsMove
  <2>3. PICK to, j : Moves(p, to, j) /\ (to = "idle" \/ j.fd = job[p].fd)
    BY <2>2 DEF ReadMove
  <2>4. pc[p] \in {"ftell", "superblock", "rootdir", "bitmap", "print", "exit"}
    BY <1>3 DEF Ftell, ReadSuperblock, ReadRootdir, ReadBitmap, PrintStructure, PrintCrashes,
                PrintListing, Exit, Step
  <2>5. pc'[p] \in {"superblock", "rootdir", "bitmap", "print", "exit", "idle"}
    BY <1>3 DEF TypeInv, Ftell, ReadSuperblock, ReadRootdir, ReadBitmap, PrintStructure,
                PrintCrashes, PrintListing, Exit, Step, Refuse
  <2>6. to \notin {"fclose", "truncate"}
    BY <2>3, <2>5, MovesTo
  <2>7. UNCHANGED <<names, inode, disturbed>>
    BY <2>2 DEF ReadMove, diskVars
  <2> QED BY <2>3, <2>4, <2>6, <2>7, Bystander
<1>4. CASE Next
  BY <1>1, <1>2, <1>3, <1>4, CreationOpens, CreationUnlinks, CreationCloses, CreationEnds DEF Next
<1>5. CASE UNCHANGED vars
  <2>1. UNCHANGED <<pc, job, names, inode, disturbed>>
    BY <1>5 DEF vars, diskVars
  <2> QED BY <2>1 DEF CreationInv, NamesApart, Maker, Undisturbed, Making, MakerAlone
<1> QED BY <1>4, <1>5
------------------------------------------------------------------------------
(* The inductive invariant.                                                *)
IInv == TypeInv /\ ReaderInv /\ CreationInv

LEMMA Inductive ==
  /\ Init => IInv
  /\ IInv /\ [Next]_vars => IInv'
<1>1. Init => IInv
  BY InitTypes, InitReads, InitCreation DEF IInv
<1>2. IInv /\ [Next]_vars => IInv'
  BY StepReads, StepCreation DEF IInv
<1> QED BY <1>1, <1>2

(* Every variable keeps its type, whatever the programs read: in           *)
(* particular what is read into n_datablocks fits it, the groups printed   *)
(* are groups of at least one block, and a file is open exactly between    *)
(* the fopen and the fclose of a program (create_VFS and                   *)
(* open_and_read_VFS).                                                     *)
THEOREM TypesAreSound == Spec => []TypeOK
<1>1. IInv => TypeOK
  <2> SUFFICES ASSUME TypeInv PROVE TypeOK
    BY DEF IInv
  <2>1. \A i \in Inodes : FileTypes(inode[i])
    BY DEF TypeInv, DiskInv, FilesInv
  <2>2. \A p \in Procs : Good(pc[p], job[p])
    BY DEF TypeInv
  <2>3. \A p \in Procs : /\ job[p].ret \in 0..5 /\ job[p].n_datablocks \in size_type
                         /\ job[p].groups \in Seq(Groups)
                         /\ job[p].fd # NONE <=> pc[p] \notin {"idle", "truncate"}
    BY <2>2 DEF Good
  <2>4. pc \in [Procs -> {"idle", "fclose", "truncate", "ftell", "superblock", "rootdir",
                          "bitmap", "print", "exit"}]
    BY <2>2 DEF TypeInv, Good
  <2> QED BY <2>1, <2>3, <2>4 DEF TypeInv, DiskInv, FileTypes, TypeOK
<1> QED BY Inductive, <1>1, PTL DEF Spec

(* The walk of readInfo never leaves the bytes allocated for the bitmap:   *)
(* for every layout, every disk of at most as many blocks as an int        *)
(* counts, and however programs rewrite or delete it between two reads     *)
(* (helpers.c, iterate_block_structure and is_free_bitmap_block).          *)
THEOREM WalkStaysInside == Spec => []WalkInsideBitmap
<1>1. IInv => WalkInsideBitmap
  <2>1. IInv => \A p \in Procs : Good(pc[p], job[p])
    BY DEF IInv, TypeInv
  <2> QED BY <2>1, NothingOutside DEF Good, WalkInsideBitmap
<1> QED BY Inductive, <1>1, PTL DEF Spec
------------------------------------------------------------------------------
(* The disks found, and those made, do not reach the end of a size_type:   *)
(* with the numbers of VFS.h, every size asked for is modest, and so is    *)
(* every disk of less than 16 TB.                                          *)
ModestDisks ==
  /\ \A image \in Images : Whole(image) \/ HasBitmap(image) => Modest(image.n_datablocks)
  /\ \A s \in DiskSizes : Modest(FILE_CHUNKS_NEEDED_FOR_BYTES(s))

(* A disk that is read through, and one that should be, is modest.         *)
LEMMA DisksAreModest ==
  ASSUME ModestDisks, TypeInv, CreationInv, NEW i \in Inodes,
         Whole(inode[i]) \/ HasBitmap(inode[i])
  PROVE  Modest(inode[i].n_datablocks) /\ inode[i].n_datablocks \in Nat \ {0}
<1> DEFINE file == inode[i]
           n == file.n_datablocks
<1>1. FileTypes(file)
  BY DEF TypeInv, DiskInv, FilesInv
<1>2. n \in Nat
  BY <1>1, LayoutIs DEF FileTypes, size_type
<1>3. n # 0
  BY <1>1, NoBlocks DEF FileTypes
<1>4. Modest(n)
  <2>1. file \in Images \/ n \in MadeCounts
    BY DEF CreationInv
  <2> QED BY <1>3, <2>1 DEF ModestDisks, MadeCounts
<1> QED BY <1>2, <1>3, <1>4

(* What is known of a reader that has come to its end.                     *)
LEMMA EndsOpened ==
  ASSUME TypeInv, ReaderInv, NEW p \in Procs, pc[p] = "exit"
  PROVE  /\ job[p].fd \in Inodes /\ FileTypes(Opened(p)) /\ Printed("exit", job[p])
         /\ p \notin written => Seen("exit", job[p], Opened(p))
<1>1. Good(pc[p], job[p])
  BY DEF TypeInv
<1>2. job[p].fd \in Inodes
  BY <1>1 DEF Good
<1> QED BY <1>2 DEF TypeInv, DiskInv, FilesInv, ReaderInv, Opened

(* Of a file nobody wrote meanwhile open_and_read_VFS never gives code 3   *)
(* or 4, and code 5 only if it is no whole disk: although the length was   *)
(* tested against a word nobody has read.                                  *)
THEOREM RefusedIsRight == ASSUME ModestDisks PROVE Spec => []RefusedForAReason
<1>1. IInv => RefusedForAReason
  <2> SUFFICES ASSUME IInv, NEW p \in Procs, pc[p] = "exit", p \notin written
               PROVE  job[p].ret \notin {3, 4} /\ (job[p].ret = 5 => ~ Whole(Opened(p)))
    BY DEF RefusedForAReason
  <2>1. job[p].fd \in Inodes /\ Seen("exit", job[p], Opened(p))
    BY EndsOpened DEF IInv
  <2>2. job[p].ret \notin {3, 4} /\ (job[p].ret = 5 => ~ HasBitmap(Opened(p)))
    BY <2>1 DEF Seen
  <2>3. Whole(Opened(p)) => Modest(Opened(p).n_datablocks) /\ Opened(p).n_datablocks \in Nat
    BY <2>1, DisksAreModest DEF Opened, IInv
  <2> QED BY <2>2, <2>3, WholeHasBitmap
<1> QED BY Inductive, <1>1, PTL DEF Spec

(* The groups tell of each data block what the bitmap says.                *)
Tells(groups, file) ==
  LET Blocks(g) == g.addr..g.addr + g.size - 1
      offset == DATA_BLOCK_OFFSET(file.n_datablocks)
  IN  /\ UNION {Blocks(groups[k]) : k \in DOMAIN groups}
           = offset..offset + file.n_datablocks - 1
      /\ \A k \in DOMAIN groups :
           /\ \A b \in Blocks(groups[k]) : groups[k].free <=> b - offset \notin file.used
           /\ k > 1 => /\ groups[k].free # groups[k - 1].free
                       /\ groups[k].addr = groups[k - 1].addr + groups[k - 1].size

(* They do when computed from as much of the bitmap as is read.            *)
LEMMA PrintedGroups ==
  ASSUME NEW file, FileTypes(file), HasBitmap(file), Modest(file.n_datablocks),
         file.n_datablocks \in Nat \ {0}, file.n_datablocks <= WORDS \div 2, NEW groups, NEW offset,
         offset = DATA_BLOCK_OFFSET(file.n_datablocks),
         groups = iterate_block_structure(
                    {b \in file.used : BITSLOT(b) < BITNSLOTS(file.n_datablocks)},
                    file.n_datablocks, offset)
  PROVE  Tells(groups, file)
<1> DEFINE n == file.n_datablocks
           map == {b \in file.used : BITSLOT(b) < BITNSLOTS(n)}
           Blocks(k) == groups[k].addr..groups[k].addr + groups[k].size - 1
<1>1. /\ n \in Nat \ {0} /\ n \in size_type /\ BITNSLOTS(n) > 0
      /\ offset \in Nat /\ offset + n <= WORDS /\ n <= WORDS \div 2 /\ file.used \subseteq Nat
  <2>1. n \in size_type /\ file.used \subseteq Nat
    BY DEF FileTypes
  <2>2. offset \in Nat
    BY <2>1, OffsetIsNat
  <2> QED BY <2>1, <2>2 DEF HasBitmap, Modest
<1>2. \A b \in 0..n - 1 : b \in map <=> b \in file.used
  <2>1. \A b \in 0..n - 1 : b \in {0} \cup 1..n - 1
    BY <1>1
  <2> QED BY <1>1, <2>1, BitsInside
<1>3. groups = iterate_block_structure(map, n, offset)
  OBVIOUS
<1> HIDE DEF n, map
<1>4. Right(groups, n - 1, map, offset)
  BY <1>1, <1>3, GroupsRight
<1>5. /\ groups \in SomeGroups
      /\ \A k \in 1..Len(groups) : groups[k].addr \in Nat /\ groups[k].size \in Nat
  <2>1. groups \in SomeGroups
    BY <1>4 DEF Right
  <2>2. \A k \in 1..Len(groups) : groups[k] \in Groups
    BY <2>1 DEF SomeGroups
  <2> QED BY <2>1, <2>2, LayoutIs DEF Groups, size_type
<1>6. DOMAIN groups = 1..Len(groups) /\ Len(groups) \in Nat
  BY <1>5 DEF SomeGroups
<1>7. \A k \in 1..Len(groups) : \A b \in Int : b \in Blocks(k) <=> InGroup(groups[k], b)
  BY <1>5 DEF InGroup
<1>8. \A k \in 1..Len(groups) : Blocks(k) \subseteq Int
  BY <1>5
<1>9. /\ \A b \in Int : (\E k \in 1..Len(groups) : InGroup(groups[k], b))
                        <=> b \in offset..offset + n - 1
      /\ \A k \in 1..Len(groups) : \A b \in Int :
           InGroup(groups[k], b) => groups[k].free = (b - offset \notin map)
      /\ \A k \in 2..Len(groups) : /\ groups[k].free # groups[k - 1].free
                                   /\ groups[k].addr = groups[k - 1].addr + groups[k - 1].size
  BY <1>1, <1>4 DEF Right
<1> HIDE DEF Blocks
<1>10. UNION {Blocks(k) : k \in DOMAIN groups} = offset..offset + n - 1
  <2>1. ASSUME NEW b \in offset..offset + n - 1 PROVE \E k \in DOMAIN groups : b \in Blocks(k)
    <3>1. b \in Int
      BY <1>1
    <3>2. PICK k \in 1..Len(groups) : InGroup(groups[k], b)
      BY <1>9, <3>1
    <3>3. b \in Blocks(k)
      BY <1>7, <3>1, <3>2
    <3> QED BY <1>6, <3>3
  <2>2. ASSUME NEW k \in DOMAIN groups, NEW b \in Blocks(k) PROVE b \in offset..offset + n - 1
    BY <1>6, <1>7, <1>8, <1>9
  <2> DEFINE all == offset..offset + n - 1
  <2> HIDE DEF all
  <2>3. \A b \in all : \E k \in DOMAIN groups : b \in Blocks(k)
    BY <2>1 DEF all
  <2>4. \A k \in DOMAIN groups : \A b \in Blocks(k) : b \in all
    BY <2>2 DEF all
  <2>5. UNION {Blocks(k) : k \in DOMAIN groups} = all
    BY <2>3, <2>4, Zenon
  <2> QED BY <2>5 DEF all
<1>11. ASSUME NEW k \in DOMAIN groups, NEW b \in Blocks(k)
       PROVE  groups[k].free <=> b - offset \notin file.used
  <2>1. b \in Int /\ InGroup(groups[k], b)
    BY <1>6, <1>7, <1>8
  <2>2. b \in offset..offset + n - 1 /\ groups[k].free = (b - offset \notin map)
    BY <1>6, <1>9, <2>1
  <2>3. b - offset \in 0..n - 1
    BY <1>1, <2>2
  <2> QED BY <1>2, <2>2, <2>3
<1>12. ASSUME NEW k \in DOMAIN groups, k > 1
       PROVE  /\ groups[k].free # groups[k - 1].free
              /\ groups[k].addr = groups[k - 1].addr + groups[k - 1].size
  BY <1>6, <1>9, <1>12
<1>13. \A k \in DOMAIN groups :
         /\ \A b \in Blocks(k) : groups[k].free <=> b - offset \notin file.used
         /\ k > 1 => /\ groups[k].free # groups[k - 1].free
                     /\ groups[k].addr = groups[k - 1].addr + groups[k - 1].size
  BY <1>11, <1>12, Zenon
<1>14. offset = DATA_BLOCK_OFFSET(file.n_datablocks)
  OBVIOUS
<1> QED BY <1>10, <1>13, <1>14, Zenon DEF Blocks, n, Tells

(* What readInfo prints.                                                   *)
LEMMA ReadIsTrue == ModestDisks /\ IInv => InfoTrue
<1> SUFFICES ASSUME ModestDisks, IInv, NEW p \in Procs, pc[p] = "exit", job[p].ret = 0,
                    job[p].prog = "readInfo", p \notin written,
                    Opened(p).n_datablocks <= WORDS \div 2
             PROVE  Tells(job[p].groups, Opened(p))
  BY DEF InfoTrue, Tells
<1> DEFINE file == Opened(p)
           groups == job[p].groups
           offset == DATA_BLOCK_OFFSET(file.n_datablocks)
<1>1. /\ job[p].fd \in Inodes /\ FileTypes(file)
      /\ Printed("exit", job[p]) /\ Seen("exit", job[p], file)
  BY EndsOpened DEF IInv
<1>2. /\ HasBitmap(file) /\ job[p].n_datablocks = file.n_datablocks
      /\ job[p].used = {b \in file.used : BITSLOT(b) < BITNSLOTS(file.n_datablocks)}
  BY <1>1 DEF Seen
<1>N. file.n_datablocks \in size_type /\ file.n_datablocks <= WORDS \div 2
  BY <1>1 DEF FileTypes
<1>3. groups = iterate_block_structure(job[p].used, file.n_datablocks, offset)
  <2>1. PICK stray \in SUBSET Outside(file.n_datablocks) :
          groups = iterate_block_structure(job[p].used \cup stray, file.n_datablocks, offset)
    BY <1>1, <1>2 DEF Printed
  <2>2. stray = {}
    BY <1>2, <1>N, <2>1, NothingOutside DEF HasBitmap
  <2>3. job[p].used \cup stray = job[p].used
    BY <2>2
  <2> QED BY <2>1, <2>3
<1>4. Modest(file.n_datablocks) /\ file.n_datablocks \in Nat \ {0}
  BY <1>1, <1>2, DisksAreModest DEF Opened, IInv
<1> HIDE DEF file, groups
<1>5. Tells(groups, file)
  BY <1>1, <1>2, <1>3, <1>4, <1>N, PrintedGroups
<1> QED BY <1>5 DEF file, groups

(* What mls prints.                                                        *)
LEMMA ListsAddUp == IInv => ListAddsUp
<1> SUFFICES ASSUME IInv, NEW p \in Procs, pc[p] = "exit", job[p].ret = 0,
                    job[p].prog = "mls",
                    \A k \in DOMAIN job[p].files : job[p].files[k] > 0,
                    BlocksNeeded(job[p].files) <= job[p].n_datablocks,
                    job[p].n_datablocks * FILE_DATA_CHUNK_SIZE < WORDS
             PROVE  /\ job[p].space.occupied = BlocksNeeded(job[p].files) * FILE_DATA_CHUNK_SIZE
                    /\ job[p].space.free =
                         (job[p].n_datablocks - BlocksNeeded(job[p].files)) * FILE_DATA_CHUNK_SIZE
  BY DEF ListAddsUp
<1> DEFINE n == job[p].n_datablocks
           files == job[p].files
           blocks == BlocksNeeded(files)
           c == FILE_DATA_CHUNK_SIZE
           occupied == Occupied(files)
<1>1. Good(pc[p], job[p]) /\ Printed("exit", job[p])
  BY EndsOpened DEF IInv, TypeInv
<1>2. n \in Nat /\ files \in Seq(size_type) /\ c \in Nat \ {0} /\ WORDS \in Nat
  BY <1>1, LayoutIs DEF Good, size_type
<1>3. blocks \in Nat /\ occupied = blocks * c
  <2>1. DOMAIN files = 1..Len(files)
    BY <1>2
  <2>2. \A k \in 1..Len(files) : files[k] > 0
    BY <2>1
  <2>3. blocks <= n /\ n * FILE_DATA_CHUNK_SIZE < WORDS
    OBVIOUS
  <2> HIDE DEF files, n
  <2> QED BY <1>2, <2>2, <2>3, OccupiedIs
<1>4. job[p].space.occupied = occupied /\ job[p].space.free = Word(Word(n * c) - occupied)
  BY <1>1 DEF Printed, USABLE_DATA_SIZE_BYTES
<1>5. blocks <= n /\ n * c < WORDS
  OBVIOUS
<1> HIDE DEF n, blocks, c, occupied
<1>6. /\ n * c \in Nat /\ blocks * c \in Nat /\ blocks * c <= n * c
      /\ (n - blocks) * c = n * c - blocks * c
  BY <1>2, <1>3, <1>5, SMT
<1> DEFINE x == n * c
           y == blocks * c
<1>7. x \in Nat /\ y \in Nat /\ y <= x /\ x < WORDS /\ occupied = y
  BY <1>3, <1>5, <1>6
<1> HIDE DEF x, y
<1>8. Word(x) = x /\ Word(x - y) = x - y
  BY <1>2, <1>7, WordIs
<1>9. job[p].space.free = x - y
  BY <1>4, <1>7, <1>8 DEF x
<1> QED BY <1>3, <1>4, <1>6, <1>9 DEF x, y, n, blocks, c, files

(* What readInfo and mls print is true of the disk they have opened, as    *)
(* long as nobody writes it, although they hold no lock and read it piece  *)
(* by piece: the groups cover the data blocks and say what the bitmap      *)
(* says, the used and free space make up the disk (read_VFS_info and       *)
(* list_VFS_rootdir).                                                      *)
THEOREM PrintsTrue == ASSUME ModestDisks PROVE Spec => []PrintsTheTruth
<1>1. IInv => PrintsTheTruth
  BY ReadIsTrue, ListsAddUp DEF PrintsTheTruth
<1> QED BY Inductive, <1>1, PTL DEF Spec
------------------------------------------------------------------------------
(* A size that is positive as an int asks for few enough blocks that       *)
(* their bytes can be counted; so it is with the numbers of VFS.h.         *)
Wide ==
  LET most == FILE_CHUNKS_NEEDED_FOR_BYTES(WORDS \div 2 - 1)
  IN  most * BLOCK_SIZE < WORDS /\ most + CHAR_BIT <= WORDS

(* What createVFS leaves is a whole disk of the size asked for.            *)
LEMMA MadeIsWhole ==
  ASSUME Wide, NEW file, MadeAsAsked(file), file.asked \in 1..WORDS \div 2 - 1
  PROVE  LET room == file.n_datablocks * FILE_DATA_CHUNK_SIZE
         IN  Whole(file) /\ file.asked \in room - FILE_DATA_CHUNK_SIZE + 1..room
<1> DEFINE s == file.asked
           n == file.n_datablocks
           half == WORDS \div 2 - 1
           most == FILE_CHUNKS_NEEDED_FOR_BYTES(half)
           c == FILE_DATA_CHUNK_SIZE
<1>1. /\ WORDS \in Nat \ {0} /\ BLOCK_SIZE \in Nat \ {0} /\ CHAR_BIT \in Nat \ {0}
      /\ c \in Nat \ {0}
  BY LayoutIs
<1>2. half \in Nat /\ s \in Nat /\ 0 < s /\ s <= half /\ half < WORDS
  <2>1. WORDS \div 2 \in Nat /\ WORDS \div 2 <= WORDS
    BY <1>1, SMT
  <2> QED BY <1>1, <2>1
<1>3. n = FILE_CHUNKS_NEEDED_FOR_BYTES(s) /\ file.size = PREDICTED_VFS_FILE_SIZE(n)
  BY <1>2 DEF MadeAsAsked
<1>4. most * BLOCK_SIZE < WORDS /\ most + CHAR_BIT <= WORDS
  BY DEF Wide
<1> HIDE DEF s, n, half, most
<1>5. n \in Nat \ {0} /\ n <= most /\ most \in Nat
  <2>1. n \in 1..s /\ n = (s - 1) \div c + 1
    BY <1>1, <1>2, <1>3, ChunksAre
  <2>2. most \in 1..half /\ most = (half - 1) \div c + 1
    <3>1. 0 < half
      BY <1>2
    <3>2. /\ FILE_CHUNKS_NEEDED_FOR_BYTES(half) \in 1..half
          /\ FILE_CHUNKS_NEEDED_FOR_BYTES(half) = (half - 1) \div FILE_DATA_CHUNK_SIZE + 1
      BY <1>2, <3>1, ChunksAre, Zenon
    <3> QED BY <3>2, Zenon DEF most
  <2>3. (s - 1) \div c <= (half - 1) \div c
    <3>1. s - 1 \in Nat /\ half - 1 \in Nat /\ s - 1 <= half - 1
      BY <1>2
    <3> HIDE DEF c
    <3> QED BY <1>1, <3>1, DivMonotone
  <2>4. (s - 1) \div c \in Int /\ (half - 1) \div c \in Int
    BY <1>1, <1>2, <2>2, DivFacts
  <2> HIDE DEF c
  <2> QED BY <1>2, <2>1, <2>2, <2>3, <2>4
<1>6. n * BLOCK_SIZE < WORDS /\ n + CHAR_BIT <= WORDS
  <2>1. n * BLOCK_SIZE <= most * BLOCK_SIZE /\ n * BLOCK_SIZE \in Nat
        /\ most * BLOCK_SIZE \in Nat
    BY <1>1, <1>5, SMT
  <2> QED BY <1>1, <1>4, <1>5, <2>1
<1>7. Whole(file)
  BY <1>3, <1>5, <1>6, PredictedIsWhole DEF n
<1>8. s <= n * c /\ n * c < s + c
  BY <1>1, <1>2, <1>3, ChunksAre
<1>9. n * c \in Nat
  BY <1>1, <1>5, SMT
<1>10. s \in n * c - c + 1..n * c
  BY <1>1, <1>2, <1>8, <1>9
<1> QED BY <1>7, <1>10 DEF s, n, c

(* A disk createVFS has made, of a size that is positive as an int, is     *)
(* whole and has room for that size, but for less than a block more: only  *)
(* a failed call or another program at work on the same name can spoil it  *)
(* (create_VFS, which goes by the name again to truncate).                 *)
THEOREM DiskIsWhole == ASSUME Wide PROVE Spec => []DiskWhole
<1>1. IInv => DiskWhole
  <2> SUFFICES ASSUME IInv, NEW f \in Names, names[f] # NONE, f \notin disturbed,
                      Creating(f) = {}, inode[names[f]].asked \in 1..WORDS \div 2 - 1
               PROVE  LET file == inode[names[f]]
                          room == file.n_datablocks * FILE_DATA_CHUNK_SIZE
                      IN  Whole(file) /\ file.asked \in room - FILE_DATA_CHUNK_SIZE + 1..room
    BY DEF DiskWhole
  <2>1. Undisturbed(f) /\ \A p \in Procs : ~ Making(p, f)
    BY DEF IInv, CreationInv, Creating, Making
  <2>2. MadeAsAsked(inode[names[f]])
    BY <2>1 DEF Undisturbed
  <2> QED BY <2>2, MadeIsWhole
<1> QED BY Inductive, <1>1, PTL DEF Spec
==============================================================================
