# A TLA+ model of NAOFS

NAOFS is a Unix-style file system for FUSE: a chain of free-block lists and a
list of free inodes on the disk, a cache of inodes in memory, block trees with
up to three levels of index blocks, directories, and one handler per FUSE call.
This directory holds TLA+ modules translated from its C source (`src/` of the
repository), TLC configurations that check them on small instances, and
theorems proved with TLAPS.

`PROJECT.json` lists the components, runs, mutants (one plausible bug of the code
for each property, under which TLC must find the property violated), the source
lines behind every definition, the hazards of the code, and the theorems.

## Inventory

| Component | State | Operations | Called by |
|---|---|---|---|
| Block access (`dsk/blkfetch.c`, `mdisk.c`, `diskAccess.c`) | the blocks of a device, or an array of 65536 blocks in memory | read and write a block | everything below |
| Free block list (`dsk/alloc.c`, `dsk/free.c`) | arrays of 128 block numbers: the current one in block 2, whose last slot names the block with the next array | `blockAlloc`, `blockFree` | block map, `iput` |
| mkfs (`mkfs/`) | writes the first inodes, inode list and block lists | `makeFileSystem` | `main`, the mkfs program |
| Free inode list (`mkfs/ialloc.c`, `ifree.c`) | one array of 512 inode numbers in block 3; the type in every inode | `getNewINode`, `freeINode` | `createFile`, `iput` |
| Inode cache (`incoreInodeOps/iget.c`, `iput.c`, `hashQ.c`, `freeList.c`) | 32 buffers, a circular free list, 8 hash queues, a reference count per inode | `iget`, `iput` | every handler |
| Block map (`incoreInodeOps/bmap.c`, `iNodeManager.c`, `interface/truncate.c`) | 13 block numbers per inode and the index blocks below the last three | `bmap`, insertion and removal of the last block | read, write, truncate, directories |
| Directories (`trav/directory.c`) | entries of 64 bytes in the blocks of a directory | search, add, remove (the last entry replaces the removed one) | create, unlink, rename, path lookup |
| Path lookup (`trav/namei.c`) | none | a chain of `iget`, search, `iput` | every handler with a path |
| Handlers (`interface/`) | none | create, open, close, read, write, truncate, unlink, rmdir, rename, getattr, chmod, chown | FUSE |
| Open file table (`fdTable/globalFileTable.c`) | up to 10000 entries, each a reference to an inode | add, look up | open, close, read, write |

In the documented mode parallelism is not what is hard: the README, `run.sh` and
`.travis.yml` start the program with `-s`, one call at a time.  (Without it
`alloc.c:10` and `free.c:11` lock two different mutexes for the same list.)  What
is hard is

* lists that are read by one function and written by another with a different
  scan (`alloc.c:29` from the front, `free.c:39` from the back), across array
  boundaries;
* stale content: blocks and inode buffers are reused without being cleared, so
  that link blocks, index blocks, data blocks and cached inodes all hold what an
  earlier owner left there;
* calls of several writes where a crash can fall in between (a spill of the free
  list, the inode and the inode list, every handler of names), with nothing that
  repairs the disk afterwards;
* removal from a directory, which moves another file's entry, and rename, which
  removes, adds and removes again;
* loops that mix positions, lengths and counts (`write.c:73`, `read.c:93`,
  `unlink.c:101`), at the boundaries of blocks;
* limits: the last block, the last inode, the last buffer, the full file table.

The properties each component owes, all stated below: no block, inode or buffer
is lost or used twice; what was stored is what is found; stale content is never
followed; a crash between two writes costs at most the object in flight.

## Modules

```
abstract        detailed          for TLC           models
BlockStack      FreeBlockList     MCFreeBlockList   the chain of free lists on the disk
                BlockThreads      MCBlockThreads    the same, called by threads
                INodeList                           the list of free inodes
                INodeCache        MCINodeCache      iget and iput
                BlockMap          MCBlockMap        block trees
ByteFile        FileData          MCFileData        read, write, truncate
FileTree        Directories       MCDirectories     paths, directories, the handlers of names
                Namespace         MCNamespace       the handlers of names write by write,
                                                    crashes, open files
```

Theorems are in `FreeBlockListProofs` (with the refinement of BlockStack),
`BlockThreadsProofs`, `INodeListProofs`, `INodeCacheProofs`, `BlockMapProofs`,
`FileDataProofs`, `ByteFileProofs` (FileData implements ByteFile) and
`NamespaceProofs`.

The modules compose along these lines.  BlockThreads extends FreeBlockList and uses
its operators on each thread's own copy of the list.  BlockMap, FileData and
Namespace take from the modules below them what those establish: a set of free
blocks (`RefinesStack`), positions mapped to the blocks appended (BlockMap),
inodes written by the last `iput` (`WrittenBack`).  Namespace and Directories
model the same handlers, the first with every write of one directory, the second
with every directory and whole calls.

### FreeBlockList, BlockStack

`disk` is the content of every block: an array of block numbers or `Data`.
`blockAlloc` is one action, since it makes one write; `blockFree` is
`FreeIntoSlot` (one write) or `FreeSpill` and `FreeCommit` (two writes), and
`Crash` falls between these.  `WriteData` lets the owner of a block overwrite it
at any time.  `getDiskBlock` and `writeDiskBlock` ignore blocks the medium does
not have, as `mdisk.c` does.  `pile`, `owned`, `lost`,
`link` and `sound` are history variables.

`blockFree` does not look at which array is loaded.  A block freed while the
last array of the chain is (`TailListLoaded`) lands in the slot of the link (`free.c:39-42`), and
when `blockAlloc` comes to it, it loads the block's data as the next array.  `link`
records the block that was misfiled so, and `sound` that it has not been handed out.
What is claimed of the chain is claimed while `link` is 0: `broken` in BlockStack
stands for the rest, and `RefinesStack` says that it comes true only in a free with at
most `TailSize` blocks free (the remainder of the data area by 128: 124 with the sizes
configured).  `ListedOnce` goes on from there, until the misfiled block is handed out;
nothing is claimed afterwards.

Properties: `Represents` (the chain lists the free blocks in stack order, and
free link blocks still hold their arrays), `Conserved`, `SpillSafe` (between the
two writes of a spill a crash is harmless), `RefinesStack` (the abstract
specification `BlockStack`: the block freed last is the one returned next, 0 only
if none is free), `ListedOnce` (every free block is in one slot of one array of the
chain, also above a misfiled block), `HandsOutBackedBlocks` (violated, see Findings).

### BlockThreads

The two functions step by step: lock and read the list, choose a block or copy the
list into the freed block, write the list and unlock.  A thread holds alloc.c's
mutex just if it is in `Allocating`, free.c's just if it is in `Freeing`.  Owners
write into their blocks at any time, and `CrashThreads` stops all threads.

A free that falls between an allocation's read and write is undone by the write:
its block is lost, which `lost` records and `pile`, put back to `mine`, shows.
An allocation that writes between a free's read and its write is undone as well, by
the free: the block that was handed out is listed again, and is in `relisted` from
then on.  The code allows it, and a block then gets two owners.  The properties hold
while `Undisturbed`: nothing is relisted, and no block misfiled.

Properties: `ListSurvivesThreads` (the chain stays intact and no block is owned
twice), `ChosenStaysFree` (what an allocation has chosen stays free, and is chosen
by no one else, until it is handed out).  They say what the two mutexes give, and
fail if either is left out: the only overlap that does harm is the one above.

### INodeList

`iNodeNos` is the list, `used` the inodes whose type is not `T_FREE`.
`getNewINode` and `freeINode` each write the inode and then the list: two actions
with a possible `Crash` between them.  `fetchFreeINodes` and `rememberIfNeeded`
are not actions: `checkAndGetFreeINode` never returns the 0 that calls for the
first, and `SaveNeverFails` shows that the list has room whenever an inode is
freed.  That rests on the off-by-one at `ialloc.c:26`: the last slot is never
handed out, so that the list is never empty, which `saveInListIfPossible` would
not notice.

### INodeCache

A buffer holds an inode number, its reference count, link count, a version (which
stands for size, mode, owner, times and block numbers) and whether it changed.
The free list and the hash queues are sequences.  Handles are the references
the callers hold: an operation's own and those of the open file table.
`Create`, `Link`, `Unlink` and `Update` are what the handlers do to an inode they
hold; `IputShared` and `IputLast` are the two branches of `iput`.

Two assumptions stand for code outside the module.  An operation that needs a
buffer is taken only when there is one (`igetSucceeds`; some handlers use the NULL
that `iget` returns).  The root is not looked up while a reference to it has
changes (`RootUnchanged`): the root has no links, so that `iget.c:52` reads it
again from the disk, and the changes would be lost.

Properties: `FreeListExact`, `OneCopy`, `HoldersSeeLatest` (a reference never sees
an earlier file with the same inode number), `WrittenBack`,
`FreedWhenUnreachable` (an unlinked file lives until closed, and no longer; for
directories only the first half holds, as their link count starts at 2 and
`rmdir` takes off 1, so that their inodes are never freed).

In `hashQ.c:18` `+` and `-` bind tighter than the shifts, where `hashQ.h`'s comment says
`(device number + inode number) % INODE_HASH_SIZE`.  Up to inode 16 the hash is the
inode number times a power of 2 above 8, so that all are on queue 0.  Above 16 the
last count of the shift is negative and wraps, and C does not define what comes out:
`wideShift` gives each such inode any queue.  The cache is correct all the same
(`OneCopy`), only slower.

### BlockMap

`nums` is `dataBlockNums` and `disk` every block as an index block.  `Extend` is
one pass of the loops that append, `Shrink` one pass of `decreaseFileSizeBy`,
`Delete` is `inodeBlocksFree` as `iput` calls it.  Stale numbers stay in inodes
and index blocks, and a block that has been free reads as `Garbage`, an array
that names a block in use.  Which free block is handed out does not matter to
the map, so it is the lowest one; `listed` counts how often a block is on the
free list, so that a double free shows.

`freeDataBlockInINode` computes the position from the size (`iNodeManager.c:214`), and
frees the index blocks made for that position.  If the last block is not full that is
the position of the block it takes off, as in the removal of a directory entry and in
the first pass of most truncations.  At an aligned size it is the position after it:
`astray` records a pass in which the two have different index blocks of their own
(`MadeFor`), and which therefore frees an index block that is in use, or that is not
there, or forgets one.  What is claimed is claimed until then.  The theorem
`WhenShrinkingGoesAstray` says exactly when that is: the size is aligned, and the
position at the size or the one before it is the first below an index block.

Properties: `MapsWhatWasAppended` (every position maps to the block appended for
it), `NoLeakNoSharing` (every block is on the free list once or in one file).

### FileData, ByteFile

`size`, `nums` (`dataBlockNums`), the bytes of every block, and the free blocks.
`Call` starts a handler; `WritePass`, `ReadPass`, `GrowPass` and `ShrinkPass` are one
pass each of the loops of `writeToFile`, `readBytes`, `increaseFileSizeBy` and
`decreaseFileSizeBy`, `TruncateSame` is the end of `truncateINode`, and `Delete` what
`iput` does to an unlinked file.  `bmap` and `insertDataBlockInINode` are the
operators `bmapForAppend` and `Insert`.  A block that has been free reads as `Junk`.

On a full disk `blockAlloc` returns 0, and the number of the boot block is used, and
freed, like any other (`Freed`).  Freed into an array with room it changes nothing;
a full array is spilled into it, and lists nothing any more: its blocks are lost, and
`tidy` is false.  A block freed while the last array of the list is loaded and has room
(`TailHasRoom`, as in FreeBlockList) is `link`, and is handed out last; from then on the
list is whatever that block held, and `sound` is false.

ByteFile is the promise: a file is a sequence of bytes.  It is weaker than POSIX
where the code is.  A write that starts inside a file and ends past its end may
leave only a first part of it, unless the cases in `LeavesWhole` hold.  A read may
return more bytes than were asked for, unless it is of whole blocks.  A file
that grows on a full disk is `Unknown` from then on, and every file is once the free
list is none (`LoseFreeList`).  The refinement mapping takes
a file to its bytes as `bmap` finds them, and to what it was before the call while
one is served.

Properties: `RefinesByteFile`, `BlocksAccounted` (while `sound`, no block is shared, or
free and in a file, however full the disk was when blocks were taken and freed; none
is lost unless a write crossed the end of its file from below or a full array was
spilled into block 0, which `tidy` records), `CallsReturn`.

### Directories, FileTree

`fs` is the inodes: entries in their order, type, whether the mode says directory,
link count.  The handlers and their helpers are operators with the source's names
that take a file system and return the next, in the order the code calls them;
`getFileINode` and `emptyDir` are recursive.  The guards of the actions are what the
kernel checks before it calls: it has looked up every prefix of a path, and a
rename neither moves a directory below itself nor replaces a directory by a file.

`emptyDir` compares an offset in bytes with a number of entries, so that with
entries of 64 bytes it does nothing to a directory of up to 128 entries.  `Init`
chooses `DIRECTORY_ENTRY_SIZE`, which never changes, from `EntrySizes`: with 2 no
directory of the instance is emptied, with 1 every one is.

FileTree is the promise: a tree of paths, where a rename takes along what is below
and replaces its target, even a directory that is not empty.

Properties: `RefinesTree`; `DotsInPlace`, `LinksCountNames`, `UsedIffReachable` and
`ListsEveryName` relate the entries, link counts, types and listings to the paths.
`DotsInPlace` asks of `..` only that it names a directory in use: a renamed directory keeps
the entry of its old parent, and the kernel never asks for a path through it.
`UsedIffReachable` allows what the code does not free: removed directories, whose
link count goes from 2 to 1, and what was below a replaced one (`lost`).
`NullIfDirectoryMissing` is violated, see Findings.

### Namespace

The root directory's entries (`slots`, written at once) and size (in memory, and
on the disk once `iput` has written it), the link counts of the files, likewise,
and the table of open files.  `Create`, `Unlink`, `Rename`, `Close` and `GetAttr` begin
a call: they put the steps of the handler into `todo`, and `Step` takes them one at
a time, at most one disk write each.  One call runs at a time.  The blocks behind
the entries are BlockMap's, the buffers behind the inodes INodeCache's.

A removal that takes the only entry of the directory's last block gives the block
back (`truncateINode`): `blockFree` writes the free list, and perhaps the array it
spills into that block, before `iput` writes the smaller size.  Until then the
directory on the disk reaches a block of the free list (`ReachesFreeBlock`).  A crash at
that point leaves it so, and the next owner of the block writes what the directory
will read as entries: `ruined`, after which nothing is claimed.  The entry that a rename
adds after such a removal goes to the block just freed, the free list being a stack
(`RefinesStack`; its end, see FreeBlockList, excepted).

`Crash` stops the machine, or the program, between any two steps and starts it
again from the disk.  Nothing in the repository repairs the disk, and what a crash
leaves can be wrong: a name twice, a count of links too low or too high.
`damaged` holds the inodes that the interrupted call was about, those of other files
whose entry it has moved over a removed one, which may be left with two entries, and
those that were open without a name; a rename onto the name of a damaged file adds the file
renamed, because a second entry may still hide it.  The properties say that the
damage never goes further, however many calls follow.

`Create` is taken only for a name that does not exist: the kernel has looked it up.
For one that does, `createFile` returns without giving up the parent
(`create.c:53`).  It ends with `openFile`, as `create_callback` does.  With a full
table `openFile` leaks a reference and returns a handle that belongs to no entry.

Properties: `LookupExact` (between calls each name leads to its file and to nothing
else), `CrashSparesOthers` (a crash after any write leaves the files the call is
not about in place, the one whose entry is moved included, except while the
directory reaches a free block), `InUseIfReachable` (an unlinked or replaced file is freed with
its last handle, and not before), `UnlinkedGoes` (and it is freed in the end).
`LookupExact` depends on the missing `return` in `getLastEntry` (`directory.c:106`):
with it the root could not remove the first of two entries, as its mutant shows.

## Runs

| Run | Instance | Result |
|---|---|---|
| `free_block_list` | 6 data blocks, lists of 3; two full lists, so that spills, links within links and exhaustion happen, and a free after exhaustion with a spill on top of it | passes |
| `memory_disk` | the same with a medium of 4 data blocks | `HandsOutBackedBlocks` violated |
| `inode_list` | a list of 5, 7 inodes | passes |
| `inode_list_comment` | the same | `FailsOnlyWhenEmpty` violated |
| `inode_cache` | 2 buffers, 3 handles, inodes 0, 1 and 17, one change each: two hash queues, more inodes than buffers, and an inode held twice | passes |
| `block_map` | 1 direct block, 3 addresses per index block, 2 units per block; one file of up to 15 blocks, the last two in the triple tree, beside a file of one block | passes |
| `block_threads` | 3 threads (of which two can be in a function), 5 data blocks, lists of 2: two spills deep, until a free relists or misfiles a block | passes |
| `file_data` | a file of up to 4 bytes and one of 1, 2 blocks of 2 bytes, fair loops: writes across blocks, reuse of blocks, a full disk with one file holding both blocks or each holding one, deletions and truncations of files with block 0 | passes |
| `directories` | 2 names, paths of 3 names, 4 inodes and the root; every directory listed in more than one block, with `emptyDir` idle and at work, so that it recurses | passes |
| `path_comment` | 2 inodes and the root | `NullIfDirectoryMissing` violated |
| `namespace` | 2 names, 2 entries in a block, 3 inodes, 2 file handles, 1 leaked reference, fair closes: renames over existing and open files, a full table | passes |
| `namespace_crash` | 3 names, 2 entries in a block, 3 inodes, 1 handle, a crash at any step: all positions of the removed entry | passes |

Bounds: `free_block_list` and `block_threads` use an action constraint, a block is
written by its owner before it is freed, as every caller does; the proofs do without
it.  In `free_block_list`, after a block is misfiled, at most four are free.  In
`block_map` the small file changes at few sizes of the large one.
`MaxVersion`, `MaxSize`, `MaxDepth`, `MaxLeaks` and `MaxCrashes` bound changes, sizes, paths,
leaked references and crashes.  Where the code goes wrong and the properties stop, so
does TLC: the constraints `FewMisfiled`, `NotDisturbed`, `NotAstray` and `NotRuined` end a
behaviour at the state where `sound`, `Undisturbed`, `~astray` or `~ruined` has become false.
`file_data`, which checks liveness, has no constraint.  In INodeCache
symmetry over buffers and handles is sound, since only the order of the initial
free list distinguishes them; nothing in Namespace and Directories distinguishes
names, or inodes but the root, nor BlockThreads threads.  The runs
with liveness use no symmetry.  `namespace_crash` does not check for deadlock: a
crash can leave every inode in use with no name, and then no call can be made.

Fairness: `file_data` assumes `WF_vars(Pass)`, a loop that can go on does: nothing
in it waits.  `namespace` assumes `WF_vars(Step)` for the same reason, and
`SF_vars(Close(fd))`: whoever has a file open closes it in the end, which the kernel
does for a process that exits; strong, since other calls may come first any
number of times.

## Findings

* `memory_disk`: `mdisk.c:4` fixes the in-memory disk at 65536 blocks, whatever
  `params.h` configures; blocks beyond it are handed out, and their content is
  lost.  The repository's README says the file system can be run in memory and its
  size be set in `params.h`.
* `inode_list_comment`: `checkAndGetFreeINode` fails although an inode is free, and
  with -1; its comment says it returns the first free inode "if any exists, `0`
  otherwise".
* `path_comment`: `operate` keeps the -1 for a search in a file in a `size_t` and
  takes it for success, so that a path that goes on below a file leads to the root;
  the comment on `getFileINode` says it returns `NULL` "if any of the directories in
  along the path doesn't exist".  The kernel never asks for such a path.

## Proofs

Every theorem holds for all values of the constants that satisfy the assumptions
named in the modules: any size of disk, list, block or cache, any number of
threads, references and files.  TLC evaluates the same assumptions on the
instances of the runs.  No theorem uses a bound on the number of steps.

| Module | Theorems, and the properties they state |
|---|---|
| `FreeBlockListProofs` | `TypeCorrect` (`TypeOK`), `ListCorrect` (`Represents`), `BlocksConserved` (`Conserved`), `SpillsAreSafe` (`SpillSafe`), `ImplementsStack` (`RefinesStack`) |
| `BlockThreadsProofs` | `ListSurvives` (`ListSurvivesThreads`), `ChoiceIsSafe` (`ChosenStaysFree`) |
| `INodeListProofs` | `TypeCorrect` (`TypeOK`), `ListIsStack` (`Represents`), `INodesConserved` (`Conserved`), `FreeFindsRoom` (`SaveNeverFails`), `TypesOnDiskAgree` (`TypesAgree`) |
| `INodeCacheProofs` | `TypeCorrect` (`TypeOK`), `FreeListIsExact` (`FreeListExact`), `OneCopyCached` (`OneCopy`), `HoldersSeeTheLatest` (`HoldersSeeLatest`), `ChangesAreWrittenBack` (`WrittenBack`), `FreedExactlyWhenUnreachable` (`FreedWhenUnreachable`) |
| `FileDataProofs` | `TypeCorrect` (`TypeOK`), `EveryBlockAccounted` (`BlocksAccounted`) |
| `ByteFileProofs` | `ImplementsByteFile` (`RefinesByteFile`) |
| `NamespaceProofs` | `TypeCorrect` (`TypeOK`), `LookupIsExact` (`LookupExact`), `CrashSparesTheOthers` (`CrashSparesOthers`), `InUseExactlyIfReachable` (`InUseIfReachable`) |
| `BlockMapProofs` | `WaysAreSound`, `MadeForTheFirst`, `WhenShrinkingGoesAstray`: what `calculateOffset`, `firstOnlyForThis` and `MadeFor` compute |

In each module but BlockMapProofs one inductive invariant carries all the theorems: it holds in `Init`,
one lemma per action shows that the action preserves it, and each property is one
of its conjuncts or follows from them.

**FreeBlockListProofs.**  From `SizesAssumption` and `DataAssumption`, on a medium that
has every block (`Backed`; the run `memory_disk` shows what happens on another).  The
invariant `Inv` is the conjunction of the four properties: none is inductive alone.
A spill preserves `Represents` only because the block it writes into is owned, hence
not a link block (`Conserved`); the commit needs the copy (`SpillSafe`); an allocation
from the last slot needs the array in the link block (`Represents`); and the free
list's block stays an array (`TypeOK`) only because link blocks do.  The argument is
arithmetic on positions: the link blocks sit at heights
`TailSize + 1 + (k - 1) * ListSize` of the stack, an array is the `ListSize` blocks below
a position, and allocation and release move the top by one (`PopFacts`,
`PushFacts`).  The refinement maps `pile` and `ret` to the
stack, and `link # 0` to `broken`.  What is inductive is `link = 0 => Inv`
(`UntilMisfiled`): nothing puts `link` back to 0, and a step that sets it is a free with at
most `TailSize` blocks free.

**BlockThreadsProofs** extends it.  `ThreadsInv` adds to `Inv` what each thread may rely
on: at most one thread is in each function (`OneEach`, the two mutexes); the list that
an allocation read is that of a stack which is still the lower part of the present
one (`AllocView`), since frees only add to it; the present stack is the lower part of
the one that a free read, since allocations only take from it, and the list it read is
up to date if none has (`FreeView`).  Its write then either puts its block on the
present list, or relists what was taken.  `ThreadsInv` is inductive while `Undisturbed`
(`UntilDisturbed`), with no assumption on the order of the threads' steps.  The lemmas
of FreeBlockListProofs on one allocation and one release are applied to a thread's own
copy of the list.

**INodeListProofs**, from `INodeSizes`.  `Inv` is the four properties `TypeOK`, `Represents`,
`Conserved` and `TypesAgree`, and `InCall`: between the two writes of `getNewINode` the
inode is the top of a stack of at least two, and between those of `freeINode` its
type is already free while it is still in use.  `SaveNeverFails` follows by counting
(the stack never holds an inode that is in use, so it is not full).

**INodeCacheProofs**, from `CacheAssumption`, for any inode numbers and any hash queues of
those above 16.  `Inv` is the six properties, `Clean` (a buffer
that nobody refers to has no changes, and an unchanged one that `iget` will trust
agrees with the disk) and `LinksCount` (link counts follow the number of names).
`Clean` is what makes a hit on a buffer of the free list safe; `HoldersSeeLatest` does
not say anything of such a buffer.  `LinksCount` decides which branch of `iput` frees
the inode.

**FileDataProofs**, from `FileDataAssumption`.  `Inv` is `Shape`, `TypeOK`, `Progress` and
`Accounted`.  `Accounted` is `BlocksAccounted` at every pass of a loop, and that `link` is on
the list, so that a block handed out is not in a file; `Progress` says of a call that is
served how far it is, and in which of four ways a `tidy` write stands to the end of its
file.  Frees of block 0 and on a full disk are steps like the others: they take blocks
off the list, or leave it, and put none on it that is in a file.
The passes of the loops are steps of at most one block, so the lemmas they rest on
are about quotients and remainders of the block size.

**ByteFileProofs**, from these and `UnknownAssumption`.  `ByteInv` is `Inv`, `Whole` (a file
that never met a full disk has no block 0) and `Served`, which compares the file with
what it was when the call began: a write has put its first `done` bytes in place and
touched nothing else (`Written`), and its size is one of four (`Reaches`: as before; the
end of the bytes written; their number, if the write starts over a shorter file;
or, only outside `LeavesWhole`, smaller than that end); a read has found what is there
(`ReadSoFar`); a truncation is between the two sizes, with zeros in what it added
(`Truncated`).  A pass after which the call returns maps to one step of ByteFile, every
other to a stuttering step, one that takes block 0 to `MeetFullDisk`,
and one that hands out the misfiled block to `LoseFreeList`; from there on every file is
`Unknown`, and only `Inv` is kept (`UntilLost`).

**NamespaceProofs**, from `NamespaceAssumption`.  What holds always is `ruined \/ Inv`: a crash
while the directory reaches a free block sets `ruined` for good.  `Inv` has to speak of every point of a
call, when the entries, the two sizes and the counts of links disagree; its parts are
operators of the state and of the steps that are left, so that a lemma says what one
step does to one part.
`Ordered`: the steps left are in an order that the handlers produce (after an entry is
added or removed the size is written before the next removal, no two removals shrink
the directory at once, a file's count is written after the last change to it).
`DirInv`: the first `Extent` entries are exactly those that the names lead to by now
(`Current`), and perhaps more of damaged files; the size on the disk differs from it by
at most one, and an entry in between (`Differ`) is one of a file that the call is about
(`Changing`), or a copy of the entry that was moved, except in a block that has been given
up (`GaveUp`), of which it says nothing.  This is what `CrashSparesOthers`
needs, and `LookupExact` is `DirInv` with nothing left.
`StepInv`: what the next removal, addition or open will find.
`LinkInv`: the count in memory is the number of names once the steps left are taken
(`Counts`), the one on the disk is 1 or is going to be written (`OnDisk`), and an inode
in use is named, open or going to be freed.
`CountInv`: the entries are at most as many as the distinct names among them and the
crashes so far; without this count the directory might outgrow its positions.
A call begins with `DirInv` and `LinkInv` as they are between calls (`IdleDir`, `IdleFile`);
the lemmas `...Begins` show the invariant for the whole sequence of its steps.  Its last
step makes `before` equal to `names`, which is shown apart (`Ends`).  For a crash it is
shown that an entry on the disk of a file that is not damaged is the only one of its
name (`SparedEntry`), from which the rest follows.  What the calls find is given by
`Lookup`, as in the code, and damaged files are allowed everywhere: after a crash a name
may have two entries for ever, and every lemma holds for the others nevertheless.

**BlockMapProofs**, from `BlockMapAssumption`.  Three theorems about the operators that all
actions of BlockMap rest on.  A way is read as a number in base
`BLOCK_ADDRESSES_PER_BLOCK` with one digit per slot (`Place`).  `WaysAreSound`: the digits
that `calculateOffset` computes are within an index block, and the number is that of
the block asked for, so that no two blocks share a way (`WayBack` is the converse: each
way belongs to a position).  `MadeForTheFirst`: an index block is allocated, or freed,
exactly if no earlier position is reached through it, since the positions below it
start with the one whose further slots are all 0.  `WhenShrinkingGoesAstray`: for every
size, `freeDataBlockInINode`, which looks at the way to the size, has the index blocks
made for the block it takes off before it, except exactly when the size is aligned and
one of the two positions is the first below an index block.

Only model-checked:

* liveness, `CallsReturn` and `UnlinkedGoes`: out of the prover's reach;
* Directories with `RefinesTree`: its lookup and `emptyDir` are RECURSIVE operators, in
  the presence of which there is no SMT backend;
* `ListedOnce`: `Chain` is a recursion along the disk, and that it meets every array once
  needs induction over data;
* BlockMap's invariants: `bmap` and `inodeBlocksFree` are folds over the slots and over
  whole trees, and what they compute for trees of any width needs induction over
  data.

## Not modelled

* The super block (its one field is never used), `searchINodes` (only the
  unreachable refill calls it), `diskReader`, debug output, the device's system
  calls, the parsing of the command line, `fileTables.c` (commented out), `link.c`
  (empty), the vendored `ctest.h`.
* `changeOwner`, the times, and the offset, flags and pid of an open file: they are
  stored and returned, and decide nothing.
* Strings: splitting a path at slashes, and names that fill all 62 bytes, which are
  stored without an end.
* What the code does after it has used an invalid value: `iget`'s NULL (the program
  stops, which is Namespace's `Crash`), inode number -1 when none is left, a
  negative file handle, the bytes of an inode number that were never set.
* The locks of the inodes: with `-s` nothing waits for them.
* The two cases assumed away in INodeCache, `igetSucceeds` and `RootUnchanged`.
* What happens after the code has gone wrong in one of the ways that `sound`, `relisted`,
  `astray` and `ruined` record.
