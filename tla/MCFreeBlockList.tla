-------------------------- MODULE MCFreeBlockList ---------------------------
(***************************************************************************)
(* FreeBlockList for TLC.                                                  *)
(***************************************************************************)
EXTENDS FreeBlockList

\* Bound: a block is freed only after its owner has written it, as every
\* caller of blockAlloc does.  What the block held before is then forgotten,
\* which keeps the number of states finite enough; the proofs do without.
WrittenBeforeFreed ==
    \A b \in owned : (b \notin owned' \/ pending' = b) => pending = b \/ disk[b] = Data

\* Nothing is claimed once a block that was freed into the link slot of the tail
\* array is handed out: TLC stops there.  Bound: from the time of that free on,
\* at most four blocks are free, none is lost, and the first two freed are the
\* two lowest.  (With an empty tail array every other block is owned at that
\* time, and it makes no difference which come first.)
FewMisfiled ==
    /\ sound
    /\ link # 0 => /\ lost = {} /\ Len(pile) <= 4
                   /\ \A i \in 1..Len(pile) : i <= 2 => pile[i] = StartPos + i - 1
=============================================================================
