----------------------------- MODULE MCBlockMap -----------------------------
(***************************************************************************)
(* BlockMap for TLC: two files that take turns, until a truncation goes    *)
(* astray.                                                                 *)
(***************************************************************************)
EXTENDS BlockMap

CONSTANTS Large, Small, LargeSize, SmallSize

Sizes == [f \in {Large, Small} |-> IF f = Large THEN LargeSize ELSE SmallSize]

\* Nothing is claimed after a truncation went astray: TLC stops there.
NotAstray == ~astray

\* Bound: the small file grows, shrinks and goes at a few sizes of the large one
\* only, inside a block and between two.
SmallSeldomMoves == size'[Small] # size[Small] => size[Large] % 9 = 0
=============================================================================
