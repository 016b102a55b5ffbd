----------------------------- MODULE Namespace ------------------------------
(***************************************************************************)
(* The names of the files in one directory, the root, and the open files:  *)
(* create, open, close, unlink and rename (interface/), on the directory's *)
(* entries (trav/directory.c) and the table of open files                  *)
(* (fdTable/globalFileTable.c).                                            *)
(*                                                                         *)
(* One call runs at a time.  A call is a sequence of steps, each of which  *)
(* makes at most one write to the disk.  The blocks of the directory are   *)
(* written at once; its size, and the link count of a file, are in memory  *)
(* until the last iput writes them, which INodeCache shows iput to do.     *)
(*                                                                         *)
(* The machine, or the program, may stop between any two steps; memory and *)
(* the table of open files are then lost.  Nothing repairs the disk, so    *)
(* the inodes the call was about, and those whose entries it was moving,   *)
(* may be damaged for good.                                                *)
(*                                                                         *)
(* A removal that empties the directory's last block gives the block back  *)
(* before the smaller size is written.  If the machine stops in between,   *)
(* the directory that is found next reaches a block of the free list, and  *)
(* nothing is claimed of it from then on: ruined.                          *)
(*                                                                         *)
(* names, before, moved, damaged, crashes and ruined are history: the file *)
(* that each name leads to after the call that is running, and before it;  *)
(* the files whose entries the call has moved; the files that a crash, or  *)
(* a rename onto a damaged file's name, may have damaged; and whether a    *)
(* crash has left the directory with a free block.                         *)
(***************************************************************************)
EXTENDS Integers, Sequences, FiniteSets

CONSTANTS
    Names,      \* File names.
    INodes,     \* The inodes other than the root's.
    DIRECTORY_ENTRIES_IN_BLOCK,
    MaxFds,     \* MAX_FILE_DESCRIPTORS.
    MaxLeaks,   \* Bound: the files opened when the table is full.
    MaxCrashes, \* Bound: the times the machine stops.
    None        \* No inode, no name.

ASSUME NamespaceAssumption ==
    /\ IsFiniteSet(Names) /\ IsFiniteSet(INodes)
    /\ DIRECTORY_ENTRIES_IN_BLOCK \in Nat \ {0}
    /\ MaxFds \in Nat \ {0} /\ MaxLeaks \in Nat /\ MaxCrashes \in Nat
    /\ None \notin Names \union INodes

Fds       == 0..(MaxFds - 1)
MaxSize   == Cardinality(Names) + MaxCrashes   \* A crash may leave an entry twice.
Positions == 0..(MaxSize - 1)
NoEntry   == [name |-> None, ino |-> None]
Entries   == [name : Names, ino : INodes] \union {NoEntry}

VARIABLES
    slots,      \* The entries on the disk, by position.
    size,       \* The directory's entries, by the inode in memory ...
    diskSize,   \* ... and by the one on the disk.
    links,      \* Each file's link count in memory ...
    diskLinks,  \* ... and on the disk.
    used,       \* The inodes that are not free on the disk.
    fileTable,  \* The inode of every valid entry of the table.
    leaked,     \* The files with a reference that nobody will give up.
    todo,       \* The steps left of the call that is running.
    names, before, moved, damaged, crashes, ruined

memory  == <<fileTable, leaked>>
history == <<damaged, crashes, ruined>>
vars == <<slots, size, diskSize, links, diskLinks, used, memory, todo, names, before, moved, history>>

Init ==
    /\ slots = [p \in Positions |-> NoEntry]
    /\ size = 0 /\ diskSize = 0
    /\ links = [i \in INodes |-> 0]
    /\ diskLinks = [i \in INodes |-> 0]
    /\ used = {}
    /\ fileTable = [fd \in Fds |-> None]
    /\ leaked = {}
    /\ todo = << >>
    /\ names = [n \in Names |-> None]
    /\ before = names
    /\ moved = {}
    /\ damaged = {}
    /\ crashes = 0
    /\ ruined = FALSE

-----------------------------------------------------------------------------
(* Directory entries.                                                      *)

\* The positions below a size that hold a name.
Holding(n, s) == {p \in Positions : p < s /\ slots[p].name = n}

\* searchINodeDirectoryEntries finds the first one.
searchINodeDirectoryEntries(n) ==
    CHOOSE p \in Holding(n, size) : \A q \in Holding(n, size) : p <= q

\* What getattr tells the kernel of a name.
Lookup(n) == IF Holding(n, size) = {} THEN None ELSE slots[searchINodeDirectoryEntries(n)].ino

lastEntryOrNone == IF size <= 2 THEN NoEntry ELSE slots[size - 1]

\* The entry that takes the place of a removed one.  For two entries or fewer
\* getLastEntry means to say that there is none, but goes on to read it.
getLastEntry == slots[size - 1]

\* The block written by a search with forUnlink set.
overwriteEntry(n) ==
    IF getLastEntry = NoEntry THEN slots
    ELSE [slots EXCEPT ![searchINodeDirectoryEntries(n)] = getLastEntry]

addsOverLast(n, i) ==
    [slots EXCEPT ![IF size = 0 THEN 0 ELSE size - 1] = [name |-> n, ino |-> i]]

addDirectoryEntry(n, i) == [slots EXCEPT ![size] = [name |-> n, ino |-> i]]

\* What the last entry's block may hold once truncateINode has taken the entry
\* off.  If the entry was alone in it the block is freed; blockFree then leaves
\* it as it is, or, the array of the free list being full, fills it with
\* addresses.
truncateINode ==
    {slots} \union (IF (size - 1) % DIRECTORY_ENTRIES_IN_BLOCK = 0
                    THEN {[slots EXCEPT ![size - 1] = NoEntry]} ELSE {})

\* The directory on the disk still reaches the block that was freed.
ReachesFreeBlock == size < diskSize /\ size % DIRECTORY_ENTRIES_IN_BLOCK = 0

-----------------------------------------------------------------------------
(* Open files and references.                                              *)

\* There are references to a file besides that of the running call.
Referenced(i) == i \in leaked \/ \E fd \in Fds : fileTable[fd] = i

FreeFds == {fd \in Fds : fileTable[fd] = None}

\* The first entry that is not valid.
createAndGetFileDescriptor == CHOOSE fd \in FreeFds : \A other \in FreeFds : fd <= other

\* openFile.  If the table is full the caller is told otherwise and given a
\* handle that is no entry's, and the reference stays.
openFile(i) ==
    IF FreeFds # {}
    THEN /\ fileTable' = [fileTable EXCEPT ![createAndGetFileDescriptor] = i]
         /\ UNCHANGED leaked
    ELSE /\ leaked' = leaked \union {i}
         /\ UNCHANGED fileTable

WithinLeaks(i) == FreeFds # {} \/ Cardinality(leaked \union {i}) <= MaxLeaks

-----------------------------------------------------------------------------
(* The steps of a call.                                                    *)

Do(what, n, i) == [what |-> what, name |-> n, ino |-> i]

\* What the call gives up: its reference to a file, to the directory.
IputFile(i) == <<Do("writeLinks", None, i), Do("free", None, i)>>
IputParent  == <<Do("writeSize", None, None)>>

shrinksTwice(i) ==
    <<Do("unlink", None, i)>> \o IputFile(i)
        \o <<Do("shrink", None, None), Do("shrink", None, None)>>

\* unlinkFileFromINode, once it has found i and overwritten its entry.
unlinkFileFromINode(i) ==
    <<Do("unlink", None, i)>> \o IputFile(i) \o <<Do("shrink", None, None)>>

\* create_callback, once getNewINode has returned i: createFile, and openFile.
createSteps(n, i) ==
    <<Do("add", n, i), Do("firstLink", None, i)>> \o IputParent \o IputFile(i)
        \o <<Do("open", n, i)>>

\* renameFile: the destination is removed, the file is added under its new
\* name, and its old name is unlinked.
renameSteps(n, m) ==
    (IF Lookup(m) = None THEN << >> ELSE <<Do("remove", m, None)>>)
        \o <<Do("add", m, Lookup(n)), Do("link", None, Lookup(n))>>
        \o IputParent \o IputFile(Lookup(n))
        \o <<Do("remove", n, None)>> \o IputParent

Is(what) == todo # << >> /\ Head(todo).what = what

\* The next step of the call.
Step ==
    LET n == Head(todo).name
        i == Head(todo).ino
        writes == Is("writeLinks") /\ ~Referenced(i)
        frees  == Is("free") /\ ~Referenced(i) /\ links[i] = 0
    IN  /\ todo # << >>
        /\ todo' = IF Is("remove") THEN unlinkFileFromINode(Lookup(n)) \o Tail(todo) ELSE Tail(todo)
        /\ moved' = IF todo' = << >> THEN {}
                    ELSE IF Is("remove") THEN moved \union {getLastEntry.ino} ELSE moved
        /\ IF Is("shrink") THEN slots' \in truncateINode
           ELSE slots' = IF Is("add") THEN addDirectoryEntry(n, i)
                         ELSE IF Is("remove") THEN overwriteEntry(n) ELSE slots
        /\ size' = IF Is("add") THEN size + 1
                   ELSE IF Is("shrink") THEN size - 1 ELSE size
        /\ diskSize' = IF Is("writeSize") THEN size ELSE diskSize
        /\ links' = IF Is("firstLink") THEN [links EXCEPT ![i] = 1]
                    ELSE IF Is("link") THEN [links EXCEPT ![i] = @ + 1]
                    ELSE IF Is("unlink") THEN [links EXCEPT ![i] = @ - 1] ELSE links
        /\ diskLinks' = IF writes THEN [diskLinks EXCEPT ![i] = links[i]] ELSE diskLinks
        /\ used' = IF frees THEN used \ {i} ELSE used
        /\ IF Is("open") THEN openFile(Lookup(n)) ELSE UNCHANGED memory
        /\ before' = IF todo' = << >> THEN names ELSE before
        /\ UNCHANGED <<names, history>>

-----------------------------------------------------------------------------
(* Calls.                                                                  *)

Idle == todo = << >>

\* A call that leads to these names and makes these steps.
Begin(after, steps) ==
    /\ before' = names
    /\ names' = after
    /\ todo' = steps
    /\ moved' = {}

\* The kernel has looked the name up and not found it.  getNewINode writes the
\* inode before anything else.
Create(n, i) ==
    /\ Idle
    /\ Lookup(n) = None
    /\ i \notin used
    /\ WithinLeaks(i)
    /\ used' = used \union {i}
    /\ diskLinks' = [diskLinks EXCEPT ![i] = 0]
    /\ Begin([names EXCEPT ![n] = i], createSteps(n, i))
    /\ UNCHANGED <<slots, size, diskSize, links, memory, history>>

\* getattr, of a damaged file: iput may find that it has no links.
GetAttr(n) ==
    /\ Idle
    /\ Lookup(n) \in damaged
    /\ Begin(names, IputFile(Lookup(n)))
    /\ UNCHANGED <<slots, size, diskSize, links, diskLinks, used, memory, history>>

Open(n) ==
    /\ Idle
    /\ Lookup(n) # None
    /\ WithinLeaks(Lookup(n))
    /\ openFile(Lookup(n))
    /\ UNCHANGED <<slots, size, diskSize, links, diskLinks, used, todo, names, before, moved, history>>

CloseNoIput(fd) ==
    /\ Idle
    /\ fileTable[fd] # None
    /\ fileTable' = [fileTable EXCEPT ![fd] = None]
    /\ UNCHANGED <<slots, size, diskSize, links, diskLinks, used, leaked, todo, names, before, moved, history>>

Close(fd) ==
    /\ Idle
    /\ fileTable[fd] # None
    /\ fileTable' = [fileTable EXCEPT ![fd] = None]
    /\ Begin(names, IputFile(fileTable[fd]))
    /\ UNCHANGED <<slots, size, diskSize, links, diskLinks, used, leaked, history>>

Unlink(n) ==
    /\ Idle
    /\ Lookup(n) # None
    /\ Begin([names EXCEPT ![n] = None], <<Do("remove", n, None)>> \o IputParent)
    /\ UNCHANGED <<slots, size, diskSize, links, diskLinks, used, memory, history>>

Rename(n, m) ==
    /\ Idle
    /\ Lookup(n) # None /\ Lookup(n) # Lookup(m) /\ n # m
    /\ Begin([names EXCEPT ![n] = None, ![m] = Lookup(n)], renameSteps(n, m))
    /\ damaged' = IF Lookup(m) \in damaged THEN damaged \union {Lookup(n)} ELSE damaged
    /\ UNCHANGED <<slots, size, diskSize, links, diskLinks, used, memory, crashes, ruined>>

\* The inodes that the running call is about; those of other files whose
\* entries it has moved, which a crash may leave with two entries; and those
\* that are open without a name.
InFlight ==
    LET changed == {n \in Names : before[n] # names[n]}
    IN  moved \union {names[n] : n \in changed} \union {before[n] : n \in changed}
            \union {i \in INodes : Referenced(i) /\ \A n \in Names : names[n] # i}
            \union {todo[k].ino : k \in DOMAIN todo}

\* The machine stops and is started again.
Crash ==
    /\ crashes < MaxCrashes
    /\ crashes' = crashes + 1
    /\ size' = diskSize
    /\ links' = diskLinks
    /\ fileTable' = [fd \in Fds |-> None]
    /\ leaked' = {}
    /\ damaged' = (damaged \union InFlight) \ {None}
    /\ ruined' = (ruined \/ ReachesFreeBlock)
    /\ names' = [n \in Names |-> IF Holding(n, diskSize) = {} THEN None
                               ELSE slots[CHOOSE p \in Holding(n, diskSize) :
                                             \A q \in Holding(n, diskSize) : p <= q].ino]
    /\ before' = names'
    /\ todo' = << >>
    /\ moved' = {}
    /\ UNCHANGED <<slots, diskSize, diskLinks, used>>

Next ==
    \/ Step
    \/ \E n \in Names :
          \/ \E i \in INodes : Create(n, i)
          \/ GetAttr(n)
          \/ Open(n)
          \/ Unlink(n)
          \/ \E m \in Names : Rename(n, m)
    \/ \E fd \in Fds : Close(fd)
    \/ Crash

Spec == Init /\ [][Next]_vars

\* A call that has begun goes on, and whoever has a file open closes it in the
\* end, though other calls may come first again and again.
FairSpec == Spec /\ WF_vars(Step) /\ \A fd \in Fds : SF_vars(Close(fd))

-----------------------------------------------------------------------------
(* Properties.                                                             *)

\* Every variable keeps its type, while no crash has left the directory with a
\* free block.
TypeOK ==
    ~ruined =>
        /\ slots \in [Positions -> Entries]
        /\ size \in 0..MaxSize
        /\ diskSize \in 0..MaxSize
        /\ \A i \in INodes \ damaged : links[i] \in 0..2 /\ diskLinks[i] \in 0..2
        /\ used \subseteq INodes
        /\ fileTable \in [Fds -> INodes \union {None}]
        /\ leaked \subseteq INodes
        /\ names \in [Names -> INodes \union {None}]
        /\ before \in [Names -> INodes \union {None}]

\* Between calls a lookup finds each file under its name and nothing else,
\* in memory and on the disk, though removals move other files' entries and a
\* rename replaces one file by another; crashes have cost no file but the
\* damaged ones its name.  That is, unless a crash came after a removal freed
\* the directory's last block and before it wrote the size.
LookupExact ==
    Idle /\ ~ruined =>
        /\ diskSize = size
        /\ \A n \in Names :
              IF names[n] = None THEN \A p \in Holding(n, size) : slots[p].ino \in damaged
              ELSE \/ names[n] \in damaged
                   \/ \E p \in Positions : /\ Holding(n, size) = {p}
                                            /\ slots[p].ino = names[n]

\* If the machine stopped now, every file the call is not about would still be
\* found under its name on the disk, and its inode be in use and linked.  That
\* is so after every write of every call but one, the freeing of the directory's
\* last block, until the size is written.
CrashSparesOthers ==
    ~ruined /\ ~ReachesFreeBlock =>
    \A n \in Names : before[n] = names[n] /\ names[n] \notin damaged =>
        /\ \A p \in Holding(n, diskSize) : slots[p].ino \in damaged \union {names[n]}
        /\ names[n] # None =>
              /\ \E p \in Holding(n, diskSize) : slots[p].ino = names[n]
              /\ names[n] \in used /\ diskLinks[names[n]] > 0

\* An open file's inode is never freed; and between calls an inode is in use
\* just if a name leads to it, or it is open, or open has leaked it: an
\* unlinked or replaced file goes when the last of its handles is closed.
\* No crash changes that for an inode that is not damaged, unless it leaves the
\* directory with a free block.
InUseIfReachable ==
    ~ruined =>
        /\ \A i \in INodes \ damaged : Referenced(i) => i \in used
        /\ Idle => used \ damaged =
              {i \in INodes : Referenced(i) \/ \E n \in Names : names[n] = i} \ damaged

\* A file without a name does not stay: unless open has leaked it, or a crash
\* damaged it, its inode is freed in the end.
UnlinkedGoes ==
    \A i \in INodes :
        (i \in used \ (leaked \union damaged) /\ \A n \in Names : names[n] # i)
            ~> (i \notin used \/ i \in damaged)
=============================================================================
