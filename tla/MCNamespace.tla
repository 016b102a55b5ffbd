---------------------------- MODULE MCNamespace -----------------------------
(***************************************************************************)
(* Namespace for TLC.  Neither names nor inodes are told apart.            *)
(***************************************************************************)
EXTENDS Namespace, TLC

Interchangeable == Permutations(Names) \union Permutations(INodes)

\* A directory with a free block is followed no further.
NotRuined == ~ruined
=============================================================================
