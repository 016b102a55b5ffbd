--------------------------- MODULE MCDirectories ----------------------------
(***************************************************************************)
(* Directories for TLC.  Neither names nor the inodes of files are told    *)
(* apart.                                                                  *)
(***************************************************************************)
EXTENDS Directories, TLC

Interchangeable == Permutations(Names) \union Permutations(INodes \ {ROOT})
=============================================================================
