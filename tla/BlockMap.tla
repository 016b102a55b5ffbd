------------------------------ MODULE BlockMap ------------------------------
(***************************************************************************)
(* From a position in a file to a disk block: the direct numbers in the    *)
(* inode and the trees of index blocks below its last three numbers, as    *)
(* bmap reads them (incoreInodeOps/bmap.c), appending grows them           *)
(* (incoreInodeOps/iNodeManager.c), shrinking prunes them                  *)
(* (interface/truncate.c) and iput dissolves them (dsk/free.c).            *)
(*                                                                         *)
(* Directories are files here.  One unit of a size stands for a directory  *)
(* entry or for some bytes; entries fill a block exactly.                  *)
(*                                                                         *)
(* Which free block is handed out is FreeBlockList's matter and makes no   *)
(* difference here: it is the lowest one.  What a file writes into a data  *)
(* block, and the free list into a free one, reads as Garbage once the     *)
(* block is made an index block: an array of numbers of a block in use.    *)
(*                                                                         *)
(* Two variables are history: layout has the blocks appended to each file, *)
(* first one first, and astray says that some pass of a truncation has     *)
(* freed other index blocks than those made for the block it took off.     *)
(***************************************************************************)
EXTENDS Integers, Sequences, FiniteSets, SequencesExt

CONSTANTS
    Files,               \* Inodes in use or to be used.
    MaxSize,             \* Bound: the size each of them reaches.
    NumBlocks,           \* The blocks, more than the files can take.
    BLOCK_SIZE,          \* The units in a block.
    DIRECT_BLOCK_LIMIT,  \* The last direct number of an inode.
    BLOCK_ADDRESSES_PER_BLOCK

ASSUME BlockMapAssumption ==
    /\ IsFiniteSet(Files) /\ MaxSize \in [Files -> Nat]
    /\ NumBlocks \in Nat \ {0} /\ BLOCK_SIZE \in Nat \ {0}
    /\ DIRECT_BLOCK_LIMIT \in Nat /\ BLOCK_ADDRESSES_PER_BLOCK \in Nat \ {0}

Blocks  == 1..NumBlocks
Addresses == 0..NumBlocks   \* Block 0 is below the data blocks.
Slots   == 0..(BLOCK_ADDRESSES_PER_BLOCK - 1)
Numbers == 0..(DIRECT_BLOCK_LIMIT + 3)
Garbage == [s \in Slots |-> 1]

VARIABLES
    size,    \* The size of each file.
    nums,    \* dataBlockNums of each inode, stale where the size does not reach.
    disk,    \* Every block, read as an array of block numbers.
    listed,  \* How many times each block is on the free list.
    layout,
    astray

vars == <<size, nums, disk, listed, layout, astray>>

Init ==
    /\ size = [f \in Files |-> 0]
    /\ nums = [f \in Files |-> [n \in Numbers |-> 0]]
    /\ disk = [b \in Addresses |-> Garbage]
    /\ listed = [b \in Blocks |-> 1]
    /\ layout = [f \in Files |-> << >>]
    /\ astray = FALSE

-----------------------------------------------------------------------------
(* The way to a block.                                                     *)

SINGLE_INDIRECT_LIMIT == DIRECT_BLOCK_LIMIT + BLOCK_ADDRESSES_PER_BLOCK
DOUBLE_INDIRECT_LIMIT ==
    SINGLE_INDIRECT_LIMIT + BLOCK_ADDRESSES_PER_BLOCK * BLOCK_ADDRESSES_PER_BLOCK
TRIPLE_INDIRECT_LIMIT ==
    DOUBLE_INDIRECT_LIMIT
        + BLOCK_ADDRESSES_PER_BLOCK * BLOCK_ADDRESSES_PER_BLOCK * BLOCK_ADDRESSES_PER_BLOCK

\* The number of the inode to start from and the slots to follow from there.
Way(number, slots) == [number |-> number, slots |-> slots]

calculateOffset(offset) ==
    LET blkIndex == offset \div BLOCK_SIZE
        A == BLOCK_ADDRESSES_PER_BLOCK
        inSingle == blkIndex - (DIRECT_BLOCK_LIMIT + 1)
        inDouble == blkIndex - (SINGLE_INDIRECT_LIMIT + 1)
        inTriple == blkIndex - (DOUBLE_INDIRECT_LIMIT + 1)
    IN  CASE blkIndex <= DIRECT_BLOCK_LIMIT -> Way(blkIndex, << >>)
          [] blkIndex \in (DIRECT_BLOCK_LIMIT + 1)..SINGLE_INDIRECT_LIMIT ->
                Way(DIRECT_BLOCK_LIMIT + 1, <<inSingle>>)
          [] blkIndex \in (SINGLE_INDIRECT_LIMIT + 1)..DOUBLE_INDIRECT_LIMIT ->
                LET first == inDouble \div A
                IN  Way(DIRECT_BLOCK_LIMIT + 2, <<first, inDouble - first * A>>)
          [] blkIndex \in (DOUBLE_INDIRECT_LIMIT + 1)..TRIPLE_INDIRECT_LIMIT ->
                LET first  == inTriple \div (A * A)
                    second == (inTriple - first * (A * A)) \div A
                IN  Way(DIRECT_BLOCK_LIMIT + 3,
                        <<first, second, inTriple - (first * (A * A) + second * A)>>)

\* The block reached from a block by following slots.
processAndGetDiskBlock(slots, start) == FoldLeft(LAMBDA b, s : disk[b][s], start, slots)

\* The block of a position below the size.
bmap(f, offset) ==
    LET way == calculateOffset(offset)
    IN  processAndGetDiskBlock(way.slots, nums[f][way.number])

\* The index blocks on the way, from the inode's down.
IndexBlocks(f, way) ==
    [c \in 1..Len(way.slots) |->
        processAndGetDiskBlock(SubSeq(way.slots, 1, c - 1), nums[f][way.number])]

-----------------------------------------------------------------------------
(* Appending.                                                              *)

fromTheTop(slots) == IF slots # << >> /\ Last(slots) = 0 THEN 1 ELSE Len(slots) + 1

\* The first index block on the way all of whose slots from it on are 0: it
\* and those below exist only for the block at the end of the way.
firstOnlyForThis(slots) ==
    CHOOSE c \in 1..(Len(slots) + 1) :
        /\ \A j \in c..Len(slots) : slots[j] = 0
        /\ c > 1 => slots[c - 1] # 0

\* The places in a file's trees of the index blocks made only for the block at
\* an offset: the number of the inode and the slots that lead to each.
MadeFor(offset) ==
    LET way == calculateOffset(offset)
    IN  {<<way.number, SubSeq(way.slots, 1, c - 1)>> :
            c \in firstOnlyForThis(way.slots)..Len(way.slots)}

\* The h-th block that blockAlloc returns from here on.
blockAlloc(h) ==
    CHOOSE b \in Blocks : /\ listed[b] > 0
                          /\ Cardinality({c \in 1..b : listed[c] > 0}) = h

\* The free list once these blocks are on it too.
blockFree(blocks) ==
    [b \in Blocks |-> listed[b] + Cardinality({i \in DOMAIN blocks : blocks[i] = b})]

\* A block on the free list is not kept as it was.
Forgotten(list) ==
    [b \in Addresses |-> IF b \in Blocks /\ list[b] > 0 THEN Garbage ELSE disk[b]]

\* allocateAllNeededBlocks: the data block has been allocated, first; now the
\* index blocks made for it, from the inode's down.  A new index block keeps
\* what it held in the slots that are not on the way.
insertDataBlockInINode(f, newBlock) ==
    LET way   == calculateOffset(size[f])
        level == Len(way.slots)
        first == firstOnlyForThis(way.slots)
        old   == IndexBlocks(f, way)
        path  == [c \in 1..(level + 1) |-> IF c = level + 1 THEN newBlock
                                           ELSE IF c >= first THEN blockAlloc(c - first + 2)
                                           ELSE old[c]]
    IN  /\ nums' = [nums EXCEPT ![f][way.number] = path[1]]
        /\ disk' = [b \in Addresses |->
                      IF b = newBlock THEN Garbage
                      ELSE IF \E c \in 1..level : path[c] = b
                           THEN LET c == CHOOSE c \in 1..level : path[c] = b
                                IN  [disk[b] EXCEPT ![way.slots[c]] = path[c + 1]]
                           ELSE disk[b]]
        /\ listed' = [b \in Blocks |-> IF \E c \in first..(level + 1) : path[c] = b
                                       THEN listed[b] - 1 ELSE listed[b]]

\* One pass of the loops of writeToFile and increaseFileSizeBy, or the entry
\* that getAndUpdateDirectoryTable adds: n units within the last block, which
\* is a new one if the size is at its head.  Writes below the size move no block.
Extend(f, n) ==
    /\ size[f] + n <= MaxSize[f]
    /\ n <= BLOCK_SIZE - (size[f] % BLOCK_SIZE)
    /\ size' = [size EXCEPT ![f] = @ + n]
    /\ IF size[f] % BLOCK_SIZE = 0
       THEN /\ insertDataBlockInINode(f, blockAlloc(1))
            /\ layout' = [layout EXCEPT ![f] = Append(@, blockAlloc(1))]
       ELSE UNCHANGED <<nums, disk, listed, layout>>
    /\ UNCHANGED astray

-----------------------------------------------------------------------------
(* Shrinking.                                                              *)

freesDataOnly(f, block) == blockFree(<<block>>)
\* freeNeededBlocks: the data block, then the index blocks made only for the
\* position the size is at, from the inode's down.  The block freed lies at
\* size - 1: with a size at the head of a block the two are apart, and what is
\* freed may belong to other blocks or not be there (a number 0, or an old one).
freeDataBlockInINode(f, block) ==
    LET way == calculateOffset(size[f])
    IN  blockFree(<<block>> \o SubSeq(IndexBlocks(f, way), firstOnlyForThis(way.slots),
                                      Len(way.slots)))

ShrinkByBlocks(f, n) ==
    LET used == ((size[f] - 1) % BLOCK_SIZE) + 1
    IN  /\ n \in 1..size[f]
        /\ nums' = nums
        /\ IF n < used
           THEN /\ size' = [size EXCEPT ![f] = @ - n]
                /\ UNCHANGED <<disk, listed, layout, astray>>
           ELSE /\ listed' = freeDataBlockInINode(f, bmap(f, size[f] - 1))
                /\ disk' = Forgotten(listed')
                /\ size' = [size EXCEPT ![f] = @ - BLOCK_SIZE]
                /\ layout' = [layout EXCEPT ![f] = Front(@)]
                /\ astray' = (astray \/ MadeFor(size[f]) # MadeFor(size[f] - 1))

\* One pass of the loop of decreaseFileSizeBy, which has n units left to take
\* off: part of the last block, or the whole of it.
Shrink(f, n) ==
    LET used == ((size[f] - 1) % BLOCK_SIZE) + 1
    IN  /\ n \in 1..size[f]
        /\ nums' = nums
        /\ IF n < used
           THEN /\ size' = [size EXCEPT ![f] = @ - n]
                /\ UNCHANGED <<disk, listed, layout, astray>>
           ELSE /\ listed' = freeDataBlockInINode(f, bmap(f, size[f] - 1))
                /\ disk' = Forgotten(listed')
                /\ size' = [size EXCEPT ![f] = @ - used]
                /\ layout' = [layout EXCEPT ![f] = Front(@)]
                /\ astray' = (astray \/ MadeFor(size[f]) # MadeFor(size[f] - 1))

-----------------------------------------------------------------------------
(* Freeing.                                                                *)

\* The direct blocks, then the trees, while any of the size is left.  The
\* recursion gives the blocks freed below and with a block, and what is left.
inodeBlocksFree(f) ==
    LET upTo(n) == [i \in 1..n |-> i - 1]
        diskBlockFree[level \in 0..3, b \in 0..NumBlocks, leftSize \in Int] ==
            IF level = 0 THEN [freed |-> <<b>>, left |-> leftSize - BLOCK_SIZE]
            ELSE LET next(acc, s) ==
                         IF acc.left <= 0 THEN acc
                         ELSE LET r == diskBlockFree[level - 1, disk[b][s], acc.left]
                              IN  [freed |-> acc.freed \o r.freed, left |-> r.left]
                     below == FoldLeft(next, [freed |-> << >>, left |-> leftSize],
                                       upTo(BLOCK_ADDRESSES_PER_BLOCK))
                 IN  [below EXCEPT !.freed = Append(@, b)]
        nextNumber(acc, n) ==
            IF acc.left <= 0 THEN acc
            ELSE LET level == IF n <= DIRECT_BLOCK_LIMIT THEN 0 ELSE n - DIRECT_BLOCK_LIMIT
                     r == diskBlockFree[level, nums[f][n], acc.left]
                 IN  [freed |-> acc.freed \o r.freed, left |-> r.left]
    IN  FoldLeft(nextNumber, [freed |-> << >>, left |-> size[f]],
                 upTo(DIRECT_BLOCK_LIMIT + 4)).freed

\* iput of an inode without links.  freeINode resets the size on the disk, and
\* not the block numbers there: the next file with this inode finds them.
Delete(f) ==
    /\ size[f] > 0
    /\ listed' = blockFree(inodeBlocksFree(f))
    /\ disk' = Forgotten(listed')
    /\ size' = [size EXCEPT ![f] = 0]
    /\ layout' = [layout EXCEPT ![f] = << >>]
    /\ UNCHANGED <<nums, astray>>

Next ==
    \E f \in Files :
        \/ \E n \in 1..BLOCK_SIZE : Extend(f, n)
        \/ \E n \in 1..BLOCK_SIZE : Shrink(f, n)
        \/ Delete(f)

Spec == Init /\ [][Next]_vars

-----------------------------------------------------------------------------
(* Properties.                                                             *)

NumOf(f) == (size[f] + BLOCK_SIZE - 1) \div BLOCK_SIZE

\* Every variable keeps its type.
Types ==
    /\ size \in [Files -> Nat] /\ \A f \in Files : size[f] <= MaxSize[f]
    /\ nums \in [Files -> [Numbers -> Addresses]]
    /\ disk \in [Addresses -> [Slots -> Blocks]]
    /\ listed \in [Blocks -> 0..NumBlocks]
    /\ layout \in [Files -> Seq(Blocks)]

\* bmap finds the block that was appended for a position, for every position
\* of every file.
EveryPositionMapped ==
    \A f \in Files :
        /\ Len(layout[f]) = NumOf(f)
        /\ \A k \in 1..NumOf(f) : bmap(f, (k - 1) * BLOCK_SIZE) = layout[f][k]

\* The data and index blocks a file is made of.
BlocksOf(f) ==
    UNION {LET way == calculateOffset((k - 1) * BLOCK_SIZE)
           IN  ToSet(IndexBlocks(f, way)) \union {bmap(f, (k - 1) * BLOCK_SIZE)} : k \in 1..NumOf(f)}

\* Data and index blocks are in no two files and not free, each block is free
\* at most once, and none is lost.
Balanced ==
    /\ \A b \in Blocks :
          listed[b] + Cardinality({f \in Files : b \in BlocksOf(f)}) = 1
    /\ \A f \in Files : \A i, j \in 1..Len(layout[f]) : layout[f][i] = layout[f][j] => i = j

\* Every variable keeps its type, and astray is a truth value, until a
\* truncation goes astray; from then on nothing is claimed of the others.
TypeOK == astray \in BOOLEAN /\ (~astray => Types)

\* bmap finds the block that was appended for a position (bmap.c:64-76),
\* however the files grew, shrank and were freed in between, and whatever
\* stale numbers inodes and index blocks still hold: until decreaseFileSizeBy
\* has taken a block off a file whose size is at the head of the next one and
\* the two blocks have different index blocks of their own.
MapsWhatWasAppended == ~astray => EveryPositionMapped

\* What appending allocates is what shrinking and freeing give back, every
\* block once: as long as every pass of decreaseFileSizeBy was at a size inside
\* the last block, or at one where it makes no difference.  The code looks the
\* index blocks up at the size and not at the last byte (iNodeManager.c:211-214):
\* a pass at an aligned size beyond the direct blocks frees an index block that
\* is in use, or one that is not there, or forgets one.
NoLeakNoSharing == ~astray => Balanced
=============================================================================
