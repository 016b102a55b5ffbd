---------------------------- MODULE MCINodeCache ----------------------------
(***************************************************************************)
(* INodeCache for TLC.  Buffers and handles are interchangeable: the order *)
(* of the initial free list is the only choice made among them.            *)
(***************************************************************************)
EXTENDS INodeCache

\* Inode 17 is on another queue than the root, and than the other small ones.
OtherQueue == [i \in {17} |-> 3]

Interchangeable == Permutations(Buffers) \union Permutations(Handles)
=============================================================================
