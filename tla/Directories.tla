---------------------------- MODULE Directories -----------------------------
(***************************************************************************)
(* Directories within directories: path lookup (trav/namei.c), the entries *)
(* of directories (trav/directory.c), and the handlers that the callbacks  *)
(* of main.c call for mkdir, create, unlink, rmdir, rename, chmod and      *)
(* readdir.  A handler runs to its end before the next begins, as with the *)
(* option -s; Namespace has its steps, and the handles of open files.      *)
(*                                                                         *)
(* The kernel is external: before it calls a handler it has looked up      *)
(* every prefix of the path with getattr, and made the checks of rename.   *)
(*                                                                         *)
(* seen is what getattr tells the kernel of every path, kept so that it    *)
(* need not be worked out again.  lost is history: the inodes of removed   *)
(* directories and what was below them.                                    *)
(***************************************************************************)
EXTENDS Integers, Sequences, FiniteSets, SequencesExt, Functions

CONSTANTS
    Names, Dot, DotDot,
    INodes, ROOT,          \* ROOT is the root directory's.
    MaxDepth,              \* Bound: the names in a path.
    EntrySizes,            \* What DIRECTORY_ENTRY_SIZE may be; 64 in the code.
    EntriesInBlock,        \* DIRECTORY_ENTRIES_IN_BLOCK.
    None                   \* No inode, NULL.

ASSUME DirectoriesAssumption ==
    /\ IsFiniteSet(Names) /\ {Dot, DotDot} \intersect Names = {}
    /\ IsFiniteSet(INodes) /\ ROOT \in INodes /\ None \notin INodes
    /\ MaxDepth \in Nat \ {0}
    /\ EntrySizes \subseteq Nat \ {0} /\ EntriesInBlock \in Nat \ {0}

Paths == UNION {[1..k -> Names] : k \in 0..MaxDepth}

VARIABLES
    fs,    \* The inodes: entries, type, whether file_mode says directory, links.
    seen, lost,
    DIRECTORY_ENTRY_SIZE   \* Never changes; a variable so that one run has several.

vars == <<fs, seen, lost, DIRECTORY_ENTRY_SIZE>>

Entry(n, i) == [name |-> n, ino |-> i]

-----------------------------------------------------------------------------
(* directory.c: the entries of directory d.  s is the file system so far.  *)

Holding(s, d, n) == {k \in DOMAIN s.entries[d] : s.entries[d][k].name = n}

firstHolding(s, d, n) ==
    CHOOSE k \in Holding(s, d, n) : \A j \in Holding(s, d, n) : k <= j

\* validateSearch goes by the mode.
validateSearch(s, d) == d \in s.dirMode

addDirectoryEntry(s, d, n, i) == [s EXCEPT !.entries[d] = Append(@, Entry(n, i))]

getAndUpdateDirectoryTable(s, d, n, i) ==
    IF validateSearch(s, d) THEN addDirectoryEntry(s, d, n, i) ELSE s

dotsSwapped(s, d, parent) ==
    addDirectoryEntry(addDirectoryEntry(s, d, DotDot, parent), d, Dot, d)

updateNewDirMetaData(s, d, parent) ==
    addDirectoryEntry(addDirectoryEntry(s, d, Dot, d), d, DotDot, parent)

-----------------------------------------------------------------------------
(* namei.c                                                                 *)

\* One name looked up in d.  The -1 of a search in a file is taken for
\* success, with the 0 in the buffer for the inode found.
operate(s, d, n) ==
    IF ~validateSearch(s, d) THEN ROOT
    ELSE IF Holding(s, d, n) = {} THEN None
    ELSE s.entries[d][firstHolding(s, d, n)].ino

RECURSIVE getFileINode(_, _)

getFileINode(s, path) ==
    IF path = << >> THEN ROOT
    ELSE LET d == getFileINode(s, Front(path))
         IN  IF d = None THEN None ELSE operate(s, d, Last(path))

getParentINode(s, path) == getFileINode(s, Front(path))

-----------------------------------------------------------------------------
(* create.c                                                                *)

\* The links of a new inode.
linksOfNew(kind) == IF kind = "dir" THEN 2 ELSE 1

\* createFile, when getNewINode returns i and the parent has no such name.
createFile(s, path, kind, i) ==
    LET parent == getParentINode(s, path)
        new    == [s EXCEPT !.type[i] = kind, !.links[i] = linksOfNew(kind),
                            !.dirMode = IF kind = "dir" THEN @ \union {i} ELSE @]
        named  == getAndUpdateDirectoryTable(new, parent, Last(path), i)
    IN  IF kind = "dir" THEN updateNewDirMetaData(named, i, parent) ELSE named

-----------------------------------------------------------------------------
(* unlink.c                                                                *)

neverFrees(s, i) == s

\* iput of the last reference frees an inode that has no links.
iput(s, i) ==
    IF s.links[i] > 0 \/ i = ROOT THEN s
    ELSE [s EXCEPT !.type[i] = "free", !.entries[i] = << >>, !.dirMode = @ \ {i}]

dropsLast(es, k) == Front(es)

\* The last entry takes the place of the k-th, and the directory is truncated.
overwriteWithLast(es, k) == Front([es EXCEPT ![k] = Last(es)])

unlinkFileFromINode(s, d, n) ==
    LET k    == firstHolding(s, d, n)
        gone == s.entries[d][k].ino
        t    == [s EXCEPT !.links[gone] = @ - 1,
                          !.entries[d] = overwriteWithLast(@, k)]
    IN  IF validateSearch(s, d) /\ Holding(s, d, n) # {} THEN iput(t, gone) ELSE s

unlinkFile(s, path) == unlinkFileFromINode(s, getParentINode(s, path), Last(path))

\* The passes of emptyDir.  Its loop goes over positions in bytes, from that of
\* the third entry, and ends at the number of entries.
passesOfEmptyDir(count) ==
    Cardinality({k \in 2..count : k * DIRECTORY_ENTRY_SIZE < count})

RECURSIVE emptyDir(_, _, _)

\* A pass removes the last entry; a directory there is emptied before.
emptyDir(s, d, passes) ==
    LET last  == Last(s.entries[d])
        count == Len(s.entries[last.ino])
        t     == IF s.type[last.ino] = "dir" /\ count > 2
                 THEN emptyDir(s, last.ino, passesOfEmptyDir(count)) ELSE s
    IN  IF passes = 0 THEN s
        ELSE emptyDir(unlinkFileFromINode(t, d, last.name), d, passes - 1)

\* validateAndEmptyDirectoryIfNeeded of a directory other than the root,
\* without force: it must be empty.
mayRemove(s, i) == Len(s.entries[i]) <= 2

\* unlinkDir, not forced.
unlinkDir(s, path) ==
    IF mayRemove(s, getFileINode(s, path)) THEN unlinkFile(s, path) ELSE s

-----------------------------------------------------------------------------
(* rename.c                                                                *)

removeDestinationIfExists(s, d, n) ==
    LET i     == s.entries[d][firstHolding(s, d, n)].ino
        count == Len(s.entries[i])
        t     == IF s.type[i] = "dir" /\ count > 2
                 THEN emptyDir(s, i, passesOfEmptyDir(count)) ELSE s
    IN  IF Holding(s, d, n) = {} THEN s ELSE unlinkFileFromINode(t, d, n)

keepsDestination(s, from, to) ==
    LET i  == getFileINode(s, from)
        d  == getParentINode(s, to)
        s2 == getAndUpdateDirectoryTable(s, d, Last(to), i)
        s3 == [s2 EXCEPT !.links[i] = @ + 1]
    IN  unlinkFile(s3, from)

keepsOldName(s, from, to) ==
    LET i  == getFileINode(s, from)
        d  == getParentINode(s, to)
        s1 == removeDestinationIfExists(s, d, Last(to))
        s2 == getAndUpdateDirectoryTable(s1, d, Last(to), i)
    IN  [s2 EXCEPT !.links[i] = @ + 1]

\* renameFile: the destination goes, the file gets its new name, and the old
\* one is unlinked.
renameFile(s, from, to) ==
    LET i  == getFileINode(s, from)
        d  == getParentINode(s, to)
        s1 == removeDestinationIfExists(s, d, Last(to))
        s2 == getAndUpdateDirectoryTable(s1, d, Last(to), i)
        s3 == [s2 EXCEPT !.links[i] = @ + 1]
    IN  unlinkFile(s3, from)

-----------------------------------------------------------------------------
(* What the kernel sees: it calls getattr for a path only if its prefixes  *)
(* are directories by their modes.                                         *)

Prefix(path, k) == SubSeq(path, 1, k)

AllDirs(s, path) == \A k \in 0..Len(path) : getFileINode(s, Prefix(path, k)) \in s.dirMode

attrPopulate(s) ==
    LET found == {p \in Paths : /\ getFileINode(s, p) # None
                                /\ p = << >> \/ AllDirs(s, Front(p))}
    IN  [p \in found |-> LET i == getFileINode(s, p)
                         IN  [ino |-> i, kind |-> IF i \in s.dirMode THEN "dir" ELSE "file"]]

Seen(path)    == path \in DOMAIN seen
SeenDir(path) == Seen(path) /\ seen[path].kind = "dir"

\* The inodes at a path and below it.
Under(path) == {seen[p].ino : p \in {q \in DOMAIN seen : IsPrefix(path, q)}}

\* A handler leaves the file system like this.
Becomes(s) == fs' = s /\ seen' = attrPopulate(s) /\ UNCHANGED DIRECTORY_ENTRY_SIZE

\* assignRootData: the root has no entries for itself and its parent.
Init ==
    /\ fs = [entries |-> [i \in INodes |-> << >>],
             type    |-> [i \in INodes |-> IF i = ROOT THEN "dir" ELSE "free"],
             dirMode |-> {ROOT},
             links   |-> [i \in INodes |-> 0]]
    /\ seen = attrPopulate(fs)
    /\ lost = {}
    /\ DIRECTORY_ENTRY_SIZE \in EntrySizes

-----------------------------------------------------------------------------
(* The callbacks.                                                          *)

\* create and mkdir; getNewINode hands out any free inode.
Create(path, kind, i) ==
    /\ path # << >> /\ SeenDir(Front(path)) /\ ~Seen(path)
    /\ fs.type[i] = "free"
    /\ Becomes(createFile(fs, path, kind, i))
    /\ lost' = lost \ {i}

Unlink(path) ==
    /\ Seen(path) /\ ~SeenDir(path)
    /\ Becomes(unlinkFile(fs, path))
    /\ UNCHANGED lost

Rmdir(path) ==
    /\ path # << >> /\ SeenDir(path)
    /\ Becomes(unlinkDir(fs, path))
    /\ lost' = IF fs' = fs THEN lost ELSE lost \union Under(path)

Rename(from, to) ==
    /\ from # << >> /\ Seen(from)
    /\ to # << >> /\ SeenDir(Front(to))
    /\ ~IsPrefix(from, to) /\ ~IsPrefix(to, from)
    /\ Seen(to) => (SeenDir(to) <=> SeenDir(from))
    /\ \A p \in DOMAIN seen : IsPrefix(from, p) => Len(to) + Len(p) - Len(from) <= MaxDepth
    /\ Becomes(renameFile(fs, from, to))
    /\ lost' = IF SeenDir(to) THEN lost \union Under(to) ELSE lost

chmodAsAsked(i, asked) == IF asked THEN fs.dirMode \union {i} ELSE fs.dirMode \ {i}

\* changeMode keeps the bit that says directory in the mode of one.
changeMode(i, asked) ==
    IF asked \/ fs.type[i] = "dir" THEN fs.dirMode \union {i} ELSE fs.dirMode \ {i}

\* The mode of a file never has that bit.
Chmod(path, asked) ==
    /\ Seen(path)
    /\ asked => SeenDir(path)
    /\ Becomes([fs EXCEPT !.dirMode = changeMode(getFileINode(fs, path), asked)])
    /\ UNCHANGED lost

Next ==
    \E path \in Paths :
        \/ \E kind \in {"dir", "file"}, i \in INodes : Create(path, kind, i)
        \/ Unlink(path)
        \/ Rmdir(path)
        \/ \E to \in Paths : Rename(path, to)
        \/ \E asked \in BOOLEAN : Chmod(path, asked)

Spec == Init /\ [][Next]_vars

-----------------------------------------------------------------------------
(* read.c: a directory is listed a block of entries at a time.             *)

entriesRead(d, offset) ==
    SubSeq(fs.entries[d], offset + 1,
           IF offset + EntriesInBlock < Len(fs.entries[d]) THEN offset + EntriesInBlock
           ELSE Len(fs.entries[d]))

RECURSIVE fillDirectoryEntries(_, _)

fillDirectoryEntries(d, offset) ==
    IF offset >= Len(fs.entries[d]) THEN << >>
    ELSE entriesRead(d, offset)
             \o fillDirectoryEntries(d, offset + Len(entriesRead(d, offset)))

-----------------------------------------------------------------------------
(* Properties.                                                             *)

Reachable == Under(<< >>)

\* Every variable keeps its type.
TypeOK ==
    /\ DOMAIN fs = {"entries", "type", "dirMode", "links"}
    /\ \A i \in INodes : \A e \in Range(fs.entries[i]) :
          e.name \in Names \union {Dot, DotDot} /\ e.ino \in INodes
    /\ fs.type \in [INodes -> {"free", "dir", "file"}]
    /\ fs.dirMode \subseteq INodes
    /\ fs.links \in [INodes -> 0..2]
    /\ lost \subseteq INodes

Tree == INSTANCE FileTree WITH tree <- seen

\* Whatever entries are moved within and between directories, every handler
\* changes the tree of paths that the kernel sees as FileTree says, and no
\* other path.
RefinesTree == Tree!Spec

\* The first two entries of a directory stay its own and one for a parent,
\* though removals move entries.  rename does not correct the latter; yet it
\* never leads to an inode that is now another file's, because the inodes of
\* removed directories are not handed out again.
DotsInPlace ==
    \A i \in Reachable \ {ROOT} : fs.type[i] = "dir" =>
        /\ Len(fs.entries[i]) >= 2
        /\ fs.entries[i][1] = Entry(Dot, i)
        /\ fs.entries[i][2].name = DotDot
        /\ fs.type[fs.entries[i][2].ino] = "dir"

\* The link count of an inode is the number of entries that name it, its own
\* among them and its children's left out.
LinksCountNames ==
    \A i \in Reachable \ {ROOT} :
        fs.links[i] = Cardinality({e \in Reachable \X (1..(2 + Cardinality(Names))) :
                                      /\ e[2] \in DOMAIN fs.entries[e[1]]
                                      /\ fs.entries[e[1]][e[2]].ino = i
                                      /\ fs.entries[e[1]][e[2]].name # DotDot})

\* No inode that a path leads to is free; and an inode in use to which none
\* leads was a removed directory or below one.
UsedIffReachable ==
    LET used == {i \in INodes : fs.type[i] # "free"}
    IN  Reachable \subseteq used /\ used \ Reachable \subseteq lost

\* readdir lists the names that a lookup finds, each once, and the directory's
\* own two entries.
ListsEveryName ==
    \A d \in Reachable : d \in fs.dirMode =>
        LET listed == fillDirectoryEntries(d, 0)
        IN  /\ Cardinality({e.name : e \in Range(listed)}) = Len(listed)
            /\ Range(listed) = {Entry(n, operate(fs, d, n)) :
                   n \in {m \in Names \union {Dot, DotDot} : operate(fs, d, m) # None}}

\* namei.c: getFileINode returns NULL if a directory along the path is missing.
NullIfDirectoryMissing ==
    \A p \in Paths : p # << >> /\ ~SeenDir(Front(p)) => getFileINode(fs, p) = None
=============================================================================
