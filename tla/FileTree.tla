------------------------------ MODULE FileTree ------------------------------
(***************************************************************************)
(* What the handlers of names promise to the kernel: a tree of files and   *)
(* directories, in which a path leads to an inode.  A rename takes         *)
(* everything below a directory along, and replaces its target, even a     *)
(* directory that is not empty.                                            *)
(***************************************************************************)
EXTENDS Integers, Sequences, SequencesExt, Functions

CONSTANTS
    Paths,    \* Sequences of names; the root's is empty.
    INodes, ROOT

VARIABLE tree   \* The inode and kind at every path that exists.

Exists(p)   == p \in DOMAIN tree
IsDir(p)    == Exists(p) /\ tree[p].kind = "dir"
Below(p, q) == IsPrefix(p, q)   \* q is p or below it.

\* What p reached is reached by q.
Moved(p, q, r) == q \o SubSeq(r, Len(p) + 1, Len(r))

Without(p) == Restrict(tree, {q \in DOMAIN tree : ~Below(p, q)})

Init == tree = [p \in {<< >>} |-> [ino |-> ROOT, kind |-> "dir"]]

Create(p, i, kind) ==
    /\ p # << >> /\ ~Exists(p) /\ IsDir(Front(p))
    /\ \A q \in DOMAIN tree : tree[q].ino # i
    /\ tree' = [q \in DOMAIN tree \union {p} |->
                   IF q = p THEN [ino |-> i, kind |-> kind] ELSE tree[q]]

Unlink(p) ==
    /\ Exists(p) /\ ~IsDir(p)
    /\ tree' = Without(p)

Rmdir(p) ==
    /\ p # << >> /\ IsDir(p)
    /\ \A q \in DOMAIN tree : Below(p, q) => q = p
    /\ tree' = Without(p)

Rename(p, q) ==
    LET kept  == {r \in DOMAIN tree : ~Below(p, r) /\ ~Below(q, r)}
        moved == {r \in DOMAIN tree : Below(p, r)}
        From(r) == CHOOSE s \in moved : Moved(p, q, s) = r
    IN  /\ Exists(p) /\ ~Below(p, q) /\ ~Below(q, p)
        /\ q # << >> /\ IsDir(Front(q))
        /\ tree' = [r \in kept \union {Moved(p, q, s) : s \in moved} |->
                       IF Below(q, r) THEN tree[From(r)] ELSE tree[r]]

Next ==
    \E p \in Paths :
        \/ \E i \in INodes, kind \in {"dir", "file"} : Create(p, i, kind)
        \/ Unlink(p)
        \/ Rmdir(p)
        \/ \E q \in Paths : Rename(p, q)

Spec == Init /\ [][Next]_tree
=============================================================================
