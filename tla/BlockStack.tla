----------------------------- MODULE BlockStack -----------------------------
(***************************************************************************)
(* What the disk block allocator promises to its callers (bmap, iput,      *)
(* truncate): a stack of free blocks.  Allocation hands out the block on   *)
(* top of the stack, and 0 only when no block is free; freeing a block     *)
(* puts it on top.  A crash in the middle of a free may lose the block     *)
(* being freed, and nothing else.  A free with few blocks left may break   *)
(* the stack, and nothing is promised any more.                            *)
(***************************************************************************)
EXTENDS Integers, Sequences

CONSTANTS
    DataBlocks,   \* The block numbers the allocator manages.
    TailSize      \* With more blocks than these free, no free breaks the stack.

VARIABLES
    pile,     \* The free blocks, the next one to hand out last.
    owned,    \* The blocks handed out and not freed since.
    lost,     \* The blocks a crash lost: neither free nor owned by anyone.
    ret,      \* What the latest allocation returned.
    broken    \* Nothing is promised.

vars == <<pile, owned, lost, ret, broken>>

Init ==
    /\ pile \in Seq(DataBlocks)
    /\ \A i, j \in 1..Len(pile) : pile[i] = pile[j] => i = j
    /\ \A b \in DataBlocks : \E i \in 1..Len(pile) : pile[i] = b
    /\ owned = {}
    /\ lost = {}
    /\ ret = 0
    /\ broken = FALSE

\* Allocation fails, with 0, only when there is nothing left to hand out.
Exhausted ==
    /\ pile = << >>
    /\ ret' = 0
    /\ UNCHANGED <<pile, owned, lost, broken>>

Alloc ==
    /\ pile # << >>
    /\ ret' = pile[Len(pile)]
    /\ pile' = SubSeq(pile, 1, Len(pile) - 1)
    /\ owned' = owned \union {pile[Len(pile)]}
    /\ UNCHANGED <<lost, broken>>

Free(b) ==
    /\ b \in owned
    /\ pile' = Append(pile, b)
    /\ owned' = owned \ {b}
    /\ broken' = broken \/ (broken' /\ Len(pile) <= TailSize)
    /\ UNCHANGED <<lost, ret>>

Lose(b) ==
    /\ b \in owned
    /\ owned' = owned \ {b}
    /\ lost' = lost \union {b}
    /\ UNCHANGED <<pile, ret, broken>>

Broken == broken /\ broken'

Next ==
    \/ Broken
    \/ Exhausted
    \/ Alloc
    \/ \E b \in DataBlocks : Free(b) \/ Lose(b)

Spec == Init /\ [][Next]_vars
=============================================================================
