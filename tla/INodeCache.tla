----------------------------- MODULE INodeCache -----------------------------
(***************************************************************************)
(* The cache of inodes in memory: iget and iput, over a free list of       *)
(* buffers and hash queues of cached inodes (incoreInodeOps/), in front of *)
(* the inodes on the disk.                                                 *)
(*                                                                         *)
(* The callers are handles: the temporary references of an operation and   *)
(* the entries of the open file table.  A handle changes the inode it      *)
(* refers to (Update), adds or removes a name for it (Link, Unlink), and   *)
(* is given up (Iput).  One call runs at a time, as with the -s option     *)
(* the README, run.sh and .travis.yml start the file system with.          *)
(*                                                                         *)
(* An inode is its link count and a version, which stands for its size,    *)
(* mode, owner, times and block numbers.  latest, names and dirs are       *)
(* history: what the callers wrote last, the directory entries there are   *)
(* for an inode, and which inodes are directories.                         *)
(***************************************************************************)
EXTENDS Integers, Sequences, FiniteSets, SequencesExt

CONSTANTS
    Buffers,     \* The nodes of initFreeInCoreINodeList, INODE_BUFFER_SIZE many.
    Handles,     \* The references the callers may hold at a time.
    INodes,      \* The inode numbers.
    wideShift,   \* The hash queue of each of them above 16.
    MaxVersion,  \* Bound: the changes made to an inode before it is freed.
    None         \* No buffer.

INODE_HASH_SIZE == 8
ROOT   == 0
Queues == 0..(INODE_HASH_SIZE - 1)

ASSUME CacheAssumption ==
    /\ IsFiniteSet(Buffers) /\ IsFiniteSet(Handles) /\ None \notin Buffers
    /\ INodes \subseteq Nat /\ ROOT \in INodes
    /\ wideShift \in [{i \in INodes : i > 16} -> Queues]
    /\ MaxVersion \in Nat

VARIABLES
    node,      \* The in-core inode in every buffer.
    freeList,  \* The buffers on the circular free list, its head first.
    hashQ,     \* The buffers on each hash queue, its head first.
    disk,      \* The inodes on the disk.
    held,      \* The buffer and the inode each handle refers to.
    latest,    \* The link count and version last given to each inode.
    names,     \* The directory entries that name each inode.
    dirs       \* The inodes that are directories.

vars == <<node, freeList, hashQ, disk, held, latest, names, dirs>>

Record == [links : 0..3, ver : 0..MaxVersion]
NoRef  == [buffer |-> None, ino |-> ROOT]
Free   == [links |-> 0, ver |-> 0]

Init ==
    /\ node = [b \in Buffers |-> [ino |-> 0, ref |-> 0, links |-> 0, ver |-> 0, changed |-> FALSE]]
    /\ freeList = SetToSeq(Buffers)
    /\ hashQ = [q \in Queues |-> << >>]
    /\ disk = [i \in INodes |-> [used |-> i = ROOT, links |-> 0, ver |-> 0]]
    /\ held = [h \in Handles |-> NoRef]
    /\ latest = [i \in INodes |-> Free]
    /\ names = [i \in INodes |-> 0]
    /\ dirs = {ROOT}

-----------------------------------------------------------------------------
(* Hash queues.                                                            *)

\* deviceNumber + iNodeNumber << 6 + iNodeNumber << 16 - iNodeNumber, where
\* the sums bind tighter than the shifts; deviceNumber is always 0.  Above 16
\* the last count is negative, wraps in a size_t and is wider than the word:
\* C does not say what the shift gives, so it is any queue.
getHash(i) == IF i <= 16 THEN (i * 2^(6 + i) * 2^(16 - i)) % INODE_HASH_SIZE ELSE wideShift[i]

\* The first buffer on the inode's queue that caches it.
hashLookup(i) ==
    LET queue   == hashQ[getHash(i)]
        matches == {k \in DOMAIN queue : node[queue[k]].ino = i}
    IN  IF matches = {} THEN None ELSE queue[Min(matches)]

keepsInHashQ(b) == hashQ

\* The head of a queue is moved only if the buffer's present inode hashes
\* there; another queue it heads keeps it, with nothing behind it.
removeFromHashQ(b) ==
    [q \in DOMAIN hashQ |->
        IF hashQ[q] # << >> /\ Head(hashQ[q]) = b /\ q # getHash(node[b].ino)
        THEN <<b>>
        ELSE RemoveFirst(hashQ[q], b)]

updateInHashQ(b, i) ==
    [removeFromHashQ(b) EXCEPT ![getHash(i)] = <<b>> \o @]

-----------------------------------------------------------------------------
(* Free list.                                                              *)

freeListInsert(b) == Append(freeList, b)
freeListRemove(b) == RemoveFirst(freeList, b)

-----------------------------------------------------------------------------
(* iget.  Its effect is a record of the buffer it returns and the values it *)
(* leaves in node, freeList and hashQ, given the disk it reads.            *)

\* insertDiskInodeData copies neither the reference count nor the flags.
fetchInodeFromDisk(n, i, d) ==
    [n EXCEPT !.ino = i, !.links = d[i].links, !.ver = d[i].ver]

\* A hit that trusts the in-core inode whatever its link count.
cachedNoRefetch(b, i, d) == node[b]

\* A hit: an inode that had no links when it was cached is read again.
cachedINode(b, i, d) ==
    IF node[b].links = 0 THEN fetchInodeFromDisk(node[b], i, d) ELSE node[b]

igetHitKeepsFree(b, i, d) ==
    [buffer   |-> b,
     node     |-> [node EXCEPT ![b] = [cachedINode(b, i, d) EXCEPT !.ref = @ + 1]],
     freeList |-> freeList,
     hashQ    |-> hashQ]

igetHit(b, i, d) ==
    [buffer   |-> b,
     node     |-> [node EXCEPT ![b] = [cachedINode(b, i, d) EXCEPT !.ref = @ + 1]],
     freeList |-> IF node[b].ref = 0 THEN freeListRemove(b) ELSE freeList,
     hashQ    |-> hashQ]

igetMiss(i, d) ==
    LET b == Head(freeList)
    IN  [buffer   |-> b,
         node     |-> [node EXCEPT ![b] = [fetchInodeFromDisk(node[b], i, d) EXCEPT !.ref = @ + 1]],
         freeList |-> Tail(freeList),
         hashQ    |-> updateInHashQ(b, i)]

\* iget returns a buffer, and not NULL.
igetSucceeds(i) == hashLookup(i) # None \/ freeList # << >>

iget(i, d) ==
    IF hashLookup(i) # None THEN igetHit(hashLookup(i), i, d) ELSE igetMiss(i, d)

-----------------------------------------------------------------------------
(* Operations on handles.                                                  *)

Refers(h) == held[h].buffer # None
HeldBy(i) == {h \in Handles : Refers(h) /\ held[h].ino = i}

Acquire(h, i, d) ==
    LET r == iget(i, d)
    IN  /\ freeList' = r.freeList
        /\ hashQ' = r.hashQ
        /\ held' = [held EXCEPT ![h] = [buffer |-> r.buffer, ino |-> i]]

\* No operation looks the root up while a handle to it has changed it.
RootUnchanged == \A h \in HeldBy(ROOT) : ~node[held[h].buffer].changed

\* A path lookup ends at an inode that has a name, or at the root.
Iget(h, i) ==
    /\ ~Refers(h)
    /\ i = ROOT \/ names[i] > 0
    /\ i = ROOT => RootUnchanged
    /\ igetSucceeds(i)
    /\ Acquire(h, i, disk)
    /\ node' = iget(i, disk).node
    /\ UNCHANGED <<disk, latest, names, dirs>>

\* createFile: getNewINode writes a new inode without links to the disk, then
\* iget finds it and the link count is set, 1 for a file and 2 for a directory.
Create(h, i, links) ==
    LET d == [disk EXCEPT ![i] = [used |-> TRUE, links |-> 0, ver |-> 0]]
        r == iget(i, d)
    IN  /\ ~Refers(h)
        /\ ~disk[i].used
        /\ igetSucceeds(i)
        /\ Acquire(h, i, d)
        /\ node' = [r.node EXCEPT ![r.buffer].links = links, ![r.buffer].changed = TRUE]
        /\ disk' = d
        /\ latest' = [latest EXCEPT ![i] = [links |-> links, ver |-> 0]]
        /\ names' = [names EXCEPT ![i] = 1]
        /\ dirs' = IF links = 2 THEN dirs \union {i} ELSE dirs \ {i}

\* updateINodeMetadata, changeMode, changeOwner: a change of the inode.
Update(h) ==
    LET b == held[h].buffer
        i == held[h].ino
    IN  /\ Refers(h)
        /\ node[b].ver < MaxVersion
        /\ node' = [node EXCEPT ![b].ver = @ + 1, ![b].changed = TRUE]
        /\ latest' = [latest EXCEPT ![i].ver = @ + 1]
        /\ UNCHANGED <<freeList, hashQ, disk, held, names, dirs>>

\* renameFile gives the inode a second name before it removes the first.
Link(h) ==
    LET b == held[h].buffer
        i == held[h].ino
    IN  /\ Refers(h) /\ i # ROOT
        /\ names[i] = 1
        /\ node' = [node EXCEPT ![b].links = @ + 1, ![b].changed = TRUE]
        /\ latest' = [latest EXCEPT ![i].links = @ + 1]
        /\ names' = [names EXCEPT ![i] = 2]
        /\ UNCHANGED <<freeList, hashQ, disk, held, dirs>>

UnlinkAgain(h) ==
    LET b == held[h].buffer
        i == held[h].ino
    IN  /\ Refers(h) /\ i # ROOT
        /\ node' = [node EXCEPT ![b].links = @ - 1, ![b].changed = TRUE]
        /\ latest' = [latest EXCEPT ![i].links = @ - 1]
        /\ names' = [names EXCEPT ![i] = @ - 1]
        /\ UNCHANGED <<freeList, hashQ, disk, held, dirs>>

\* unlinkFileFromINode removes a name.
Unlink(h) ==
    LET b == held[h].buffer
        i == held[h].ino
    IN  /\ Refers(h) /\ i # ROOT
        /\ names[i] > 0
        /\ node' = [node EXCEPT ![b].links = @ - 1, ![b].changed = TRUE]
        /\ latest' = [latest EXCEPT ![i].links = @ - 1]
        /\ names' = [names EXCEPT ![i] = @ - 1]
        /\ UNCHANGED <<freeList, hashQ, disk, held, dirs>>

-----------------------------------------------------------------------------
(* iput.                                                                   *)

neverWritesBack(b, d) == d

\* A changed inode is written back ...
writeINodeToDisk(b, d) ==
    IF node[b].changed
    THEN [d EXCEPT ![node[b].ino].links = node[b].links, ![node[b].ino].ver = node[b].ver]
    ELSE d

freesAlsoNamed(b, d) ==
    IF node[b].links <= 1 /\ node[b].ino # ROOT
    THEN [d EXCEPT ![node[b].ino] = [used |-> FALSE, links |-> 0, ver |-> 0]]
    ELSE d

\* ... and one without links, other than the root, is freed with its blocks.
freeIfUnlinked(b, d) ==
    IF node[b].links = 0 /\ node[b].ino # ROOT
    THEN [d EXCEPT ![node[b].ino] = [used |-> FALSE, links |-> 0, ver |-> 0]]
    ELSE d

\* The reference is not the last one: only the count goes down.
IputShared(h) ==
    LET b == held[h].buffer
    IN  /\ Refers(h)
        /\ node[b].ref > 1
        /\ node' = [node EXCEPT ![b].ref = @ - 1]
        /\ held' = [held EXCEPT ![h] = NoRef]
        /\ UNCHANGED <<freeList, hashQ, disk, latest, names, dirs>>

\* The buffer goes back to the free list if its inode is found in its queue.
returnToFreeList(b) ==
    IF hashLookup(node[b].ino) = None THEN freeList
    ELSE freeListInsert(hashLookup(node[b].ino))

\* The last reference.
IputLast(h) ==
    LET b == held[h].buffer
    IN  /\ Refers(h)
        /\ node[b].ref = 1
        /\ node' = [node EXCEPT ![b].ref = 0, ![b].changed = FALSE]
        /\ disk' = freeIfUnlinked(b, writeINodeToDisk(b, disk))
        /\ freeList' = returnToFreeList(b)
        /\ held' = [held EXCEPT ![h] = NoRef]
        /\ latest' = IF disk'[node[b].ino].used THEN latest
                     ELSE [latest EXCEPT ![node[b].ino] = Free]
        /\ UNCHANGED <<hashQ, names, dirs>>

Next ==
    \E h \in Handles :
        \/ \E i \in INodes : Iget(h, i)
        \/ \E i \in INodes \ {ROOT}, links \in {1, 2} : Create(h, i, links)
        \/ Update(h)
        \/ Link(h)
        \/ Unlink(h)
        \/ IputShared(h)
        \/ IputLast(h)

Spec == Init /\ [][Next]_vars

-----------------------------------------------------------------------------
(* Properties.                                                             *)

\* Every variable keeps its type.
TypeOK ==
    /\ node \in [Buffers -> [ino : INodes, ref : 0..Cardinality(Handles), links : 0..3,
                             ver : 0..MaxVersion, changed : BOOLEAN]]
    /\ freeList \in Seq(Buffers)
    /\ hashQ \in [Queues -> Seq(Buffers)]
    /\ disk \in [INodes -> [used : BOOLEAN, links : 0..3, ver : 0..MaxVersion]]
    /\ held \in [Handles -> [buffer : Buffers \union {None}, ino : INodes]]
    /\ latest \in [INodes -> Record]
    /\ names \in [INodes -> 0..2]
    /\ dirs \subseteq INodes

\* The free list holds exactly the buffers nobody refers to, each once: iput
\* loses no buffer, and iget never hands out one that is in use.
FreeListExact ==
    /\ ToSet(freeList) = {b \in Buffers : node[b].ref = 0}
    /\ IsInjective(freeList)
    /\ \A b \in Buffers : node[b].ref = Cardinality({h \in Handles : held[h].buffer = b})

\* At most one buffer caches an inode, on the one queue hashLookup searches,
\* and every buffer in use is found there.
OneCopy ==
    /\ \A q \in DOMAIN hashQ :
          /\ IsInjective(hashQ[q])
          /\ \A b \in ToSet(hashQ[q]) : getHash(node[b].ino) = q
          /\ \A b, c \in ToSet(hashQ[q]) : node[b].ino = node[c].ino => b = c
    /\ \A b \in Buffers : node[b].ref > 0 => b \in ToSet(hashQ[getHash(node[b].ino)])

\* Whoever holds a reference sees the inode it asked for as it was last
\* changed by anyone: never what the buffer held for another inode, nor what
\* it held for an earlier file with the same inode number.
HoldersSeeLatest ==
    \A h \in Handles : Refers(h) =>
        LET n == node[held[h].buffer]
        IN  /\ n.ino = held[h].ino
            /\ [links |-> n.links, ver |-> n.ver] = latest[n.ino]

\* Once nobody refers to an inode in use, the disk has its latest content.
WrittenBack ==
    \A i \in INodes : disk[i].used /\ HeldBy(i) = {} =>
        [links |-> disk[i].links, ver |-> disk[i].ver] = latest[i]

\* The inode of a file is in use on the disk as long as it has a name or
\* someone refers to it, and no longer: an unlinked file lives until it is
\* closed, and is then freed.  Directories, whose count starts at 2, are
\* never freed by the removal of their name.
FreedWhenUnreachable ==
    \A i \in INodes \ {ROOT} :
        /\ names[i] > 0 \/ HeldBy(i) # {} => disk[i].used
        /\ disk[i].used /\ i \notin dirs => names[i] > 0 \/ HeldBy(i) # {}
=============================================================================
