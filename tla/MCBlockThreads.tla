--------------------------- MODULE MCBlockThreads ---------------------------
(* The threads, which are interchangeable.                                 *)
EXTENDS BlockThreads

\* Nothing is claimed of what follows a disturbance: TLC stops there.
NotDisturbed == Undisturbed

\* Bound: a block is freed only after its owner has written it, as every caller
\* of blockAlloc does.
WrittenBeforeFreed ==
    \A t \in Threads : pc[t] = "idle" /\ pc'[t] = "freeing" => disk[block'[t]] = Data

ThreadsSymmetry == Permutations(Threads)
=============================================================================
