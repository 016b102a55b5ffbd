--------------------------- MODULE FreeBlockList ----------------------------
(***************************************************************************)
(* The list of free disk blocks, kept on the disk itself: block            *)
(* FREE_LIST_BLOCK holds an array of ListSize block numbers, whose last    *)
(* slot names the block that holds the next array, and so on.  mkfs        *)
(* builds the chain (mkfs/freeBlockList.c, mkfs/mkfs.c), blockAlloc        *)
(* consumes it (dsk/alloc.c) and blockFree extends it (dsk/free.c).        *)
(*                                                                         *)
(* A disk block is what it decodes to: the array of addresses it was       *)
(* written as (writeFreeDiskListBlock and makeFreeDiskListBlock copy       *)
(* addresses of a fixed width, so decoding returns what was encoded), or   *)
(* Data when a file or directory wrote its own bytes into it.              *)
(*                                                                         *)
(* pile, owned and lost are history: what a caller knows of its            *)
(* allocations and frees; so are link and sound, which follow what happens *)
(* when a block is freed while the last array of the chain is loaded.  No  *)
(* action's effect on the disk depends on them.                            *)
(***************************************************************************)
EXTENDS Integers, Sequences, FiniteSets

CONSTANTS
    StartPos,      \* First data block: 4 + NUM_OF_INODE_BLOCKS.
    ListSize,      \* BLOCK_ADDRESSES_PER_BLOCK.
    NumLists,      \* The full arrays mkfs writes ...
    TailSize,      \* ... and the entries of the last one, which is not full.
    BackedBlocks,  \* The blocks the medium really has (NUM_OF_BLOCKS_IN_MEM).
    Data           \* The content of a block that holds no array of addresses.

ASSUME SizesAssumption ==
    /\ StartPos \in Nat /\ StartPos >= 4
    /\ ListSize \in Nat /\ ListSize >= 2
    /\ NumLists \in Nat /\ NumLists >= 1
    /\ TailSize \in 0..(ListSize - 1)
    /\ BackedBlocks \in Nat /\ BackedBlocks > StartPos

FREE_LIST_BLOCK == 2
NUM_OF_BLOCKS   == StartPos + NumLists * ListSize + TailSize
Blocks     == 0..(NUM_OF_BLOCKS - 1)
DataBlocks == StartPos..(NUM_OF_BLOCKS - 1)
Slots      == 0..(ListSize - 1)
Lists      == [Slots -> Blocks]

ASSUME DataAssumption == Data \notin Lists

VARIABLES
    disk,      \* The content of every block.
    pending,   \* The block a free has spilled the list into, 0 outside a spill.
    pile,      \* The free blocks, latest freed last.
    owned,     \* The blocks handed out and not freed since.
    lost,      \* The blocks a crash lost.
    ret,       \* What the latest blockAlloc returned.
    link,      \* The block freed into the slot that links to no array, if any.
    sound      \* That block has not been handed out.

misfiling == <<link, sound>>
vars == <<disk, pending, pile, owned, lost, ret, misfiling>>

-----------------------------------------------------------------------------
(* mkfs.                                                                   *)

makeOneBlockShort(start) ==
    [i \in Slots |-> IF start + i < NUM_OF_BLOCKS - 1 THEN start + i ELSE 0]

\* The array of the block numbers from `start' on, 0 past the end of the disk.
makeOneBlock(start) ==
    [i \in Slots |-> IF start + i < NUM_OF_BLOCKS THEN start + i ELSE 0]

\* Each full array's last entry is the block the next array is written to.
initializeDiskBlocks ==
    [b \in Blocks |->
        IF b = FREE_LIST_BLOCK THEN makeOneBlock(StartPos)
        ELSE IF \E j \in 1..NumLists : b = StartPos + j * ListSize - 1
             THEN makeOneBlock(b + 1)
             ELSE Data]

Init ==
    /\ disk = initializeDiskBlocks
    /\ pending = 0
    /\ pile = [h \in 1..(NUM_OF_BLOCKS - StartPos) |-> NUM_OF_BLOCKS - h]
    /\ owned = {}
    /\ lost = {}
    /\ ret = 0
    /\ link = 0
    /\ sound = TRUE

-----------------------------------------------------------------------------
(* The medium.                                                             *)

\* A block the medium does not have leaves the caller's buffer as it was.
getDiskBlock(b, buffer) == IF b < BackedBlocks THEN disk[b] ELSE buffer

\* The disk after a write, which a medium without that block ignores.
writeDiskBlock(b, content) ==
    IF b < BackedBlocks THEN [disk EXCEPT ![b] = content] ELSE disk

-----------------------------------------------------------------------------
(* blockAlloc.                                                             *)

\* The first slot that lists a block, ListSize when none does.
firstListed(list) ==
    IF \E i \in Slots : list[i] # 0
    THEN CHOOSE i \in Slots : list[i] # 0 /\ \A j \in Slots : j < i => list[j] = 0
    ELSE ListSize

linkTestPastEnd(list, counter, newBlock) ==
    IF counter = ListSize THEN getDiskBlock(newBlock, list)
    ELSE [i \in Slots |-> IF i = counter THEN 0 ELSE list[i]]

\* The array that replaces the current one: the array the block in the last
\* slot holds, if that is the block taken, else the current one without it.
listAfterAlloc(list, counter, newBlock) ==
    IF counter = ListSize - 1 THEN getDiskBlock(newBlock, list)
    ELSE [i \in Slots |-> IF i = counter THEN 0 ELSE list[i]]

blockAlloc ==
    LET list     == disk[FREE_LIST_BLOCK]
        counter  == firstListed(list)
        newBlock == IF counter < ListSize THEN list[counter] ELSE 0
    IN  /\ pending = 0
        /\ disk' = writeDiskBlock(FREE_LIST_BLOCK,
                                  listAfterAlloc(list, counter, newBlock))
        /\ ret' = newBlock
        /\ owned' = IF newBlock = 0 THEN owned ELSE owned \union {newBlock}
        /\ pile' = IF pile = << >> THEN pile ELSE SubSeq(pile, 1, Len(pile) - 1)
        /\ sound' = (sound /\ (newBlock = 0 \/ newBlock # link))
        /\ UNCHANGED <<pending, lost, link>>

-----------------------------------------------------------------------------
(* blockFree.                                                              *)

firstFreeSlot(list) ==
    CHOOSE i \in Slots : list[i] = 0 /\ \A j \in Slots : j < i => list[j] # 0

\* The slot a freed block goes to: the last one that is 0.
lastFreeSlot(list) ==
    CHOOSE i \in Slots : list[i] = 0 /\ \A j \in Slots : j > i => list[j] # 0

\* The array that lists nothing but the block the list was spilled into.
linkOnlyList(b) == [i \in Slots |-> IF i = ListSize - 1 THEN b ELSE 0]

\* The tail array, which links to no other, is in FREE_LIST_BLOCK.
TailListLoaded == disk[FREE_LIST_BLOCK][ListSize - 1] = 0

\* The array has room: one write.  The tail array always has, and its last slot
\* is the first to be filled: blockAlloc will take the block for a link and load
\* what it holds as the next array.
FreeIntoSlot(b) ==
    LET list == disk[FREE_LIST_BLOCK]
    IN  /\ pending = 0
        /\ b \in owned
        /\ list[0] = 0
        /\ disk' = writeDiskBlock(FREE_LIST_BLOCK,
                                  [list EXCEPT ![lastFreeSlot(list)] = b])
        /\ pile' = Append(pile, b)
        /\ owned' = owned \ {b}
        /\ link' = IF link = 0 /\ TailListLoaded THEN b ELSE link
        /\ UNCHANGED <<pending, lost, ret, sound>>

\* The second write made first: the order free.c does not use.
FreeCommitFirst(b) ==
    LET list == disk[FREE_LIST_BLOCK]
    IN  /\ pending = 0
        /\ b \in owned
        /\ list[0] # 0
        /\ disk' = writeDiskBlock(FREE_LIST_BLOCK, linkOnlyList(b))
        /\ pending' = b
        /\ UNCHANGED <<pile, owned, lost, ret, misfiling>>

\* The array is full: its copy goes into the freed block ...
FreeSpill(b) ==
    LET list == disk[FREE_LIST_BLOCK]
    IN  /\ pending = 0
        /\ b \in owned
        /\ list[0] # 0
        /\ disk' = writeDiskBlock(b, list)
        /\ pending' = b
        /\ UNCHANGED <<pile, owned, lost, ret, misfiling>>

\* ... and then the freed block alone is listed.
FreeCommit ==
    /\ pending # 0
    /\ disk' = writeDiskBlock(FREE_LIST_BLOCK, linkOnlyList(pending))
    /\ pile' = Append(pile, pending)
    /\ owned' = owned \ {pending}
    /\ pending' = 0
    /\ UNCHANGED <<lost, ret, misfiling>>

-----------------------------------------------------------------------------
(* The owner of a block and the machine.                                   *)

\* Whoever owns a block may overwrite what it holds.
WriteData(b) ==
    /\ pending = 0
    /\ b \in owned
    /\ disk' = writeDiskBlock(b, Data)
    /\ UNCHANGED <<pending, pile, owned, lost, ret, misfiling>>

\* The machine stops between the two writes of a spill, and is restarted.
Crash ==
    /\ pending # 0
    /\ owned' = owned \ {pending}
    /\ lost' = lost \union {pending}
    /\ pending' = 0
    /\ UNCHANGED <<disk, pile, ret, misfiling>>

Next ==
    \/ blockAlloc
    \/ \E b \in DataBlocks : FreeIntoSlot(b) \/ FreeSpill(b) \/ WriteData(b)
    \/ FreeCommit
    \/ Crash

Spec == Init /\ [][Next]_vars

-----------------------------------------------------------------------------
(* Properties.                                                             *)

\* Every variable has its type, FREE_LIST_BLOCK with an array of addresses.
Types ==
    /\ disk \in [Blocks -> Lists \union {Data}]
    /\ disk[FREE_LIST_BLOCK] \in Lists
    /\ pending \in DataBlocks \union {0}
    /\ pile \in Seq(DataBlocks)
    /\ owned \subseteq DataBlocks
    /\ lost \subseteq DataBlocks
    /\ ret \in DataBlocks \union {0}

\* The block at position q from the bottom of a pile p, 0 if there is none.
At(p, q) == IF q \in 1..Len(p) THEN p[q] ELSE 0

\* The array whose slot 0 is the block at position q, and so downwards.
ListFrom(p, q) == [i \in Slots |-> At(p, q - i)]

\* The positions whose block holds an array; the 0th is the tail array's.
Height(k) == TailSize + 1 + (k - 1) * ListSize

\* The chain of arrays is that of the pile: FREE_LIST_BLOCK holds the blocks
\* from the topmost link upwards, right aligned, and every link block that is
\* free holds the array below it.
ListInOrder ==
    /\ \E k \in 0..Len(pile) :
          /\ Height(k) <= Len(pile)
          /\ Len(pile) < Height(k) + ListSize
          /\ disk[FREE_LIST_BLOCK] = ListFrom(pile, Height(k) + ListSize - 1)
    /\ \A k \in 1..Len(pile) :
          Height(k) <= Len(pile) => disk[pile[Height(k)]] = ListFrom(pile, Height(k) - 1)

\* Every data block is in the pile, once, or owned, or lost.
OneState ==
    /\ \A i, j \in 1..Len(pile) : pile[i] = pile[j] => i = j
    /\ \A i \in 1..Len(pile) : pile[i] \notin owned \union lost
    /\ owned \intersect lost = {}
    /\ \A b \in DataBlocks \ (owned \union lost) : \E i \in 1..Len(pile) : pile[i] = b

\* The copy made by a spill, and the list it is a copy of.
CopyComplete ==
    pending # 0 =>
        /\ pending \in owned
        /\ disk[pending] = disk[FREE_LIST_BLOCK]
        /\ disk[FREE_LIST_BLOCK][0] # 0

\* Every variable keeps its type: in particular FREE_LIST_BLOCK always holds
\* an array of addresses, whatever the owners write into their own blocks; but
\* for the time after a block has been freed into the link slot of the tail
\* array (free.c:39-42).
TypeOK == link = 0 => Types

\* The chain of arrays on the disk lists the free blocks and only those, in
\* the order of the latest freed first, and every link block that is free
\* still holds the array below it, though its former owner wrote into it:
\* as long as no block was freed into the link slot of the tail array.
Represents == link = 0 => ListInOrder

\* No block is listed twice, owned while it is listed, or lost but by a crash
\* in the middle of a spill: allocations, frees and crashes conserve blocks,
\* as long as no block was freed into the link slot of the tail array.
Conserved == link = 0 => OneState

\* Between the two writes of a spill the copy is complete and the old list
\* still in force, so that a crash then costs one block and no list; with the
\* proviso of Conserved.
SpillSafe == link = 0 => CopyComplete

\* The blocks that hold the arrays of the chain, from FREE_LIST_BLOCK on; the
\* misfiled block is no link, and 0 stands for the end.
Chain[n \in 0..Cardinality(DataBlocks)] ==
    IF n = 0 THEN FREE_LIST_BLOCK
    ELSE LET b == Chain[n - 1]
         IN  IF b # 0 /\ disk[b] # Data /\ disk[b][ListSize - 1] # link
             THEN disk[b][ListSize - 1] ELSE 0

\* A block freed into the link slot of the tail array does no harm before it is
\* handed out itself, and that is after all the others: until then every data
\* block that is neither owned nor lost is in one slot of one array of the
\* chain, and no other block is.
ListedOnce ==
    LET places == {p \in (DOMAIN Chain) \X Slots :
                     LET b == Chain[p[1]]
                     IN  b # 0 /\ disk[b] # Data /\ disk[b][p[2]] # 0}
        free   == DataBlocks \ (owned \union lost)
    IN  sound => /\ {disk[Chain[p[1]]][p[2]] : p \in places} = free
                 /\ Cardinality(places) = Cardinality(free)

Stack == INSTANCE BlockStack WITH broken <- (link # 0)

\* The allocator is a stack: what blockAlloc finds on the disk is the block
\* freed last, and it returns 0 only when every data block is owned or lost;
\* until a block is freed into the link slot of the tail array, and that
\* happens only when no more blocks are free than mkfs put into that array.
RefinesStack == Stack!Spec

\* The medium holds every block that is handed out.
HandsOutBackedBlocks == \A b \in owned : b < BackedBlocks
=============================================================================
