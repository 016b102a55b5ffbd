---------------------------- MODULE BlockThreads ----------------------------
(***************************************************************************)
(* blockAlloc and blockFree called by several threads, as FUSE does        *)
(* without the option -s.  Each function holds a mutex from its read of    *)
(* the list to its write, but the two mutexes, in dsk/alloc.c and          *)
(* dsk/free.c, have only their name in common.                             *)
(*                                                                         *)
(* A free may therefore fall between an allocation's read and its write.   *)
(* The write then undoes it, and the freed block is lost: pile goes back   *)
(* to what it was when the list was read.  And an allocation may write     *)
(* between a free's read and its write: the free then puts the list back   *)
(* to what it had read, with the block that has been handed out; relisted  *)
(* has these blocks.                                                       *)
(***************************************************************************)
EXTENDS FreeBlockList, SequencesExt

CONSTANT Threads

VARIABLES
    pc,       \* Where each thread is.
    list,     \* The array in its memory.
    block,    \* The block it takes or frees.
    mine,     \* History: pile when it read the list.
    relisted  \* History: the blocks that were not free when a free listed them again.

threadVars == <<pc, list, block, mine, relisted>>
allVars    == <<vars, threadVars>>

ThreadsInit ==
    /\ Init
    /\ pc = [t \in Threads |-> "idle"]
    /\ list = [t \in Threads |-> linkOnlyList(0)]
    /\ block = [t \in Threads |-> 0]
    /\ mine = [t \in Threads |-> << >>]
    /\ relisted = {}

\* The threads that hold the mutex of alloc.c, and of free.c.
Allocating == {t \in Threads : pc[t] \in {"taking", "storing"}}
Freeing    == {t \in Threads : pc[t] \in {"freeing", "spilled"}}

Goes(t, where, l, b) ==
    /\ pc' = [pc EXCEPT ![t] = where]
    /\ list' = [list EXCEPT ![t] = l]
    /\ block' = [block EXCEPT ![t] = b]

\* A thread has read the list.
Reads(t, where, b) ==
    /\ Goes(t, where, disk[FREE_LIST_BLOCK], b)
    /\ mine' = [mine EXCEPT ![t] = pile]
    /\ UNCHANGED <<vars, relisted>>

Returns(t) == Goes(t, "idle", linkOnlyList(0), 0) /\ mine' = [mine EXCEPT ![t] = << >>]

-----------------------------------------------------------------------------
(* blockAlloc                                                              *)

AllocReadUnlocked(t) ==
    /\ pc[t] = "idle"
    /\ Reads(t, "taking", 0)

AllocRead(t) ==
    /\ pc[t] = "idle"
    /\ Allocating = {}
    /\ Reads(t, "taking", 0)

\* A block is chosen, and read if it holds the next array.
AllocTake(t) ==
    LET counter  == firstListed(list[t])
        newBlock == IF counter < ListSize THEN list[t][counter] ELSE 0
    IN  /\ pc[t] = "taking"
        /\ Goes(t, "storing", listAfterAlloc(list[t], counter, newBlock), newBlock)
        /\ UNCHANGED <<vars, mine, relisted>>

AllocWrite(t) ==
    /\ pc[t] = "storing"
    /\ disk' = writeDiskBlock(FREE_LIST_BLOCK, list[t])
    /\ ret' = block[t]
    /\ owned' = IF block[t] = 0 THEN owned ELSE owned \union {block[t]}
    /\ pile' = IF mine[t] = << >> THEN << >> ELSE Front(mine[t])
    /\ lost' = lost \union (Range(pile) \ Range(mine[t]))
    /\ sound' = (sound /\ (block[t] = 0 \/ block[t] # link))
    /\ Returns(t)
    /\ UNCHANGED <<pending, link, relisted>>

-----------------------------------------------------------------------------
(* blockFree                                                               *)

BeingFreed == {block[t] : t \in Freeing}

FreeReadUnlocked(t, b) ==
    /\ pc[t] = "idle"
    /\ b \in owned \ BeingFreed
    /\ Reads(t, "freeing", b)

FreeRead(t, b) ==
    /\ pc[t] = "idle"
    /\ Freeing = {}
    /\ b \in owned \ BeingFreed
    /\ Reads(t, "freeing", b)

\* The array is full: it is copied into the freed block.
FreeCopy(t) ==
    /\ pc[t] = "freeing"
    /\ list[t][0] # 0
    /\ disk' = writeDiskBlock(block[t], list[t])
    /\ pending' = block[t]
    /\ Goes(t, "spilled", linkOnlyList(block[t]), block[t])
    /\ UNCHANGED <<pile, owned, lost, ret, misfiling, mine, relisted>>

FreeWrite(t) ==
    /\ \/ pc[t] = "freeing" /\ list[t][0] = 0
       \/ pc[t] = "spilled"
    /\ disk' = writeDiskBlock(FREE_LIST_BLOCK,
                              IF pc[t] = "spilled" THEN list[t]
                              ELSE [list[t] EXCEPT ![lastFreeSlot(list[t])] = block[t]])
    /\ pile' = Append(mine[t], block[t])
    /\ owned' = owned \ {block[t]}
    /\ relisted' = relisted \union (Range(mine[t]) \ Range(pile))
    /\ link' = IF link = 0 /\ pc[t] = "freeing" /\ list[t][ListSize - 1] = 0
               THEN block[t] ELSE link
    /\ pending' = 0
    /\ Returns(t)
    /\ UNCHANGED <<lost, ret, sound>>

-----------------------------------------------------------------------------

\* The owner of a block writes into it, whatever the threads do.
WriteOwned(b) ==
    /\ b \in owned \ BeingFreed
    /\ disk' = writeDiskBlock(b, Data)
    /\ UNCHANGED <<pending, pile, owned, lost, ret, misfiling, threadVars>>

\* The machine stops and is restarted; the blocks being freed are lost.
CrashThreads ==
    /\ Allocating \union Freeing # {}
    /\ owned' = owned \ BeingFreed
    /\ lost' = lost \union BeingFreed
    /\ pending' = 0
    /\ pc' = [t \in Threads |-> "idle"]
    /\ list' = [t \in Threads |-> linkOnlyList(0)]
    /\ block' = [t \in Threads |-> 0]
    /\ mine' = [t \in Threads |-> << >>]
    /\ UNCHANGED <<disk, pile, ret, misfiling, relisted>>

ThreadsNext ==
    \/ \E t \in Threads :
          \/ AllocRead(t)
          \/ AllocTake(t)
          \/ AllocWrite(t)
          \/ \E b \in DataBlocks : FreeRead(t, b)
          \/ FreeCopy(t)
          \/ FreeWrite(t)
    \/ \E b \in DataBlocks : WriteOwned(b)
    \/ CrashThreads

ThreadsSpec == ThreadsInit /\ [][ThreadsNext]_allVars

-----------------------------------------------------------------------------
(* Properties.                                                             *)

\* No free has listed a block again that an allocation took in the meantime,
\* or put one into the link slot of the tail array.
Undisturbed == relisted = {} /\ link = 0

\* Threads that allocate, free, and write their blocks at the same time keep
\* the chain of arrays intact, and never own the same block, until one of two
\* things happens: an allocation writes the list between the read and the write
\* of a free (alloc.c:44, free.c:15 and 57), or a block is freed into the link
\* slot of the tail array.  Neither mutex can be left out, and a free that an
\* allocation undoes costs its block only.
ListSurvivesThreads == Undisturbed => ListInOrder /\ OneState

\* The block that an allocation has chosen is free until it is handed out, and
\* no other thread, nor any file, has it: with the same proviso.
ChosenStaysFree ==
    Undisturbed =>
        \A t \in Allocating : block[t] # 0 =>
            /\ block[t] \in Range(pile) \ owned
            /\ \A u \in Threads \ {t} : block[u] # block[t]
=============================================================================
