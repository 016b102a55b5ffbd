----------------------------- MODULE MCFileData -----------------------------
(***************************************************************************)
(* FileData for TLC: two files that compete for blocks.                    *)
(***************************************************************************)
EXTENDS FileData

CONSTANTS Large, Small, LargeSize, SmallSize

Sizes == [f \in {Large, Small} |-> IF f = Large THEN LargeSize ELSE SmallSize]
=============================================================================
