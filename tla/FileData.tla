------------------------------ MODULE FileData ------------------------------
(***************************************************************************)
(* The bytes of files: the loops of writeToFile (interface/write.c),       *)
(* readBytes (interface/read.c) and truncateINode (interface/truncate.c),  *)
(* pass by pass.  One call is served at a time.                            *)
(*                                                                         *)
(* Files stay within their direct blocks; BlockMap has the trees.  Which   *)
(* free block is handed out makes no difference: it is the lowest one.     *)
(* What is in a block that has been free is Junk.  When no block is free,  *)
(* blockAlloc returns 0, and block 0 is used, and freed, like any other.   *)
(*                                                                         *)
(* A block freed while the last array of the free list is loaded and has   *)
(* room becomes the link of that array (FreeBlockList), and is handed out  *)
(* last.  What it holds is then loaded as the free list: any block may be  *)
(* handed out from there on, and which one makes no difference to what is  *)
(* said of the calls: it is block 0.                                       *)
(*                                                                         *)
(* was, full, tidy and sound are history: the bytes of the file before the *)
(* call that is served, the files that have met a full disk, whether the   *)
(* code has kept track of every block, and whether the free list is a list *)
(* of free blocks.                                                         *)
(***************************************************************************)
EXTENDS Integers, Sequences, SequencesExt

CONSTANTS
    Files,
    MaxSize,     \* Bound: the size each file reaches.
    NumBlocks,   \* The data blocks, 1..NumBlocks.
    TailSize,    \* The blocks in the last array of the free list.
    BLOCK_SIZE,
    Junk,        \* The bytes of a block that has been free.
    NoRequest, Unknown

ASSUME FileDataAssumption ==
    /\ IsFiniteSet(Files)
    /\ MaxSize \in [Files -> Nat \ {0}]
    /\ NumBlocks \in Nat \ {0} /\ TailSize \in Nat /\ BLOCK_SIZE \in Nat \ {0}
    /\ Junk \notin Int

Bytes   == 0..2
Blocks  == 1..NumBlocks
InBlock == 0..(BLOCK_SIZE - 1)

\* Unknown is no content of a file.
ASSUME UnknownAssumption == Unknown \notin Seq(Bytes \union {Junk})

Numbers(f) == 0..((MaxSize[f] - 1) \div BLOCK_SIZE)

\* The bytes of a write, all different from their neighbours.
Buffer(n) == [i \in 1..n |-> 1 + (i % 2)]

Request(op, f, offset, n, buf) == [op |-> op, file |-> f, offset |-> offset, n |-> n, buf |-> buf]

Requests ==
    UNION {LET max    == MaxSize[f]
               within == {r \in (0..max) \X (1..max) : r[1] + r[2] <= max}
           IN  {Request("write", f, r[1], r[2], Buffer(r[2])) : r \in within}
               \union {Request("read", f, r[1], r[2], << >>) : r \in within}
               \union {Request("truncate", f, 0, n, << >>) : n \in 0..max}
               \union {Request("delete", f, 0, 0, << >>)} : f \in Files}

VARIABLES
    size,   \* The size of each file.
    nums,   \* dataBlockNums of each inode, stale where the size does not reach.
    disk,   \* The bytes of every block.
    free,   \* The blocks on the free list ...
    link,   \* ... and the one among them that was freed into a link, or 0.
    req,    \* The call that is served.
    done,   \* The bytes its loop has been through ...
    got,    \* ... and, for a read, what they were.
    ret,    \* What the latest call returned.
    was, full, tidy, sound

list == <<free, link, sound>>
vars == <<size, nums, disk, list, req, done, got, ret, was, full, tidy>>

Init ==
    /\ size = [f \in Files |-> 0]
    /\ nums = [f \in Files |-> [k \in Numbers(f) |-> 0]]
    /\ disk = [b \in Blocks \union {0} |-> [o \in InBlock |-> Junk]]
    /\ free = Blocks
    /\ link = 0
    /\ sound = TRUE
    /\ req = NoRequest
    /\ done = 0
    /\ got = << >>
    /\ ret = [count |-> 0, bytes |-> << >>]
    /\ was = << >>
    /\ full = {}
    /\ tidy = TRUE

-----------------------------------------------------------------------------
(* Blocks.                                                                 *)

Least(a, b) == IF a < b THEN a ELSE b

\* The first free block, 0 if there is none.  A link comes last.
blockAlloc ==
    LET first == IF free = {link} THEN free ELSE free \ {link}
    IN  IF free = {} THEN 0 ELSE CHOOSE b \in first : \A c \in first : b <= c

bytesLeftOneShort(offset) == BLOCK_SIZE - 1 - (offset % BLOCK_SIZE)

\* bmapResponse: the bytes from an offset to the end of its block.
bytesLeftInBlock(offset) == BLOCK_SIZE - (offset % BLOCK_SIZE)

NeedsBlock(f, offset) == offset = size[f] /\ offset % BLOCK_SIZE = 0

\* bmap in APPEND_MODE: the block of an offset, a new one at the end of the
\* file if the last is full.  It fails beyond the end.
bmapAppends(f, offset) == offset <= size[f]

bmapForAppend(f, offset) ==
    IF NeedsBlock(f, offset) THEN blockAlloc ELSE nums[f][offset \div BLOCK_SIZE]

Insert(f, offset) ==
    IF NeedsBlock(f, offset)
    THEN /\ nums' = [nums EXCEPT ![f][offset \div BLOCK_SIZE] = blockAlloc]
         /\ free' = free \ {blockAlloc}
         /\ full' = IF free = {} THEN full \union {f} ELSE full
         /\ sound' = (sound /\ (free = {} \/ blockAlloc # link))
         /\ UNCHANGED link
    ELSE UNCHANGED <<nums, list, full>>

\* The block with these bytes from an offset on.
putInBlock(block, offset, bytes) ==
    LET o == offset % BLOCK_SIZE
    IN  [disk EXCEPT ![block] = [i \in InBlock |-> IF i \in o..(o + Len(bytes) - 1)
                                                   THEN bytes[i - o + 1] ELSE @[i]]]

\* The blocks once these are written.  Without a free list any block may be
\* the one that was handed out, and what is in which is not followed.
Stores(blocks) ==
    disk' = IF sound' THEN blocks ELSE [b \in DOMAIN disk |-> [o \in InBlock |-> Junk]]

\* The bytes of a file, as bmap finds them.
Byte(f, offset) == disk[nums[f][offset \div BLOCK_SIZE]][offset % BLOCK_SIZE]
Content(f)      == [i \in 1..size[f] |-> Byte(f, i - 1)]

NumOf(length) == (length + BLOCK_SIZE - 1) \div BLOCK_SIZE
BlocksOf(f)   == {nums[f][k] : k \in 0..(NumOf(size[f]) - 1)}

-----------------------------------------------------------------------------
(* Calls begin and end.                                                    *)

Serving(op) == req # NoRequest /\ req.op = op

Return(count, bytes) ==
    /\ req' = NoRequest
    /\ done' = 0
    /\ got' = << >>
    /\ ret' = [count |-> count, bytes |-> bytes]
    /\ was' = << >>

Continue(n) ==
    /\ done' = done + n
    /\ UNCHANGED <<req, got, ret, was>>

\* A write on which the code keeps track of every block: it neither crosses
\* the end of the file from below nor starts over a file of several blocks.
KeepsBlocks(r) ==
    \/ r.op # "write"
    \/ r.offset >= size[r.file]
    \/ r.offset + r.n <= size[r.file]
    \/ size[r.file] % BLOCK_SIZE = 0 /\ r.n <= size[r.file]
    \/ r.offset = 0 /\ size[r.file] <= BLOCK_SIZE

Call(r) ==
    /\ req = NoRequest
    /\ req' = r
    /\ was' = Content(r.file)
    /\ tidy' = (tidy /\ KeepsBlocks(r))
    /\ ret' = [count |-> 0, bytes |-> << >>]
    /\ UNCHANGED <<size, nums, disk, list, full, done, got>>

-----------------------------------------------------------------------------
(* write.c                                                                 *)

addsEveryPass(f, offset, n) == size[f] + n

\* The size after a pass.  A pass that does not append sets it to the length
\* of the pass if the whole write is longer than the file.
sizeAfterWrite(f, offset, n) ==
    IF offset = size[f] THEN size[f] + n
    ELSE IF done <= size[f] /\ size[f] < req.n THEN n
    ELSE size[f]

\* A pass of the loop of writeToFile, the last one if it ends the buffer or
\* bmap refuses.  An offset past the end is refused at once, with -1.
WritePass ==
    LET f      == req.file
        offset == req.offset + done
        n      == Least(bytesLeftInBlock(offset), req.n - done)
    IN  /\ Serving("write")
        /\ IF bmapAppends(f, offset)
           THEN /\ Insert(f, offset)
                /\ Stores(putInBlock(bmapForAppend(f, offset), offset,
                                     SubSeq(req.buf, done + 1, done + n)))
                /\ size' = [size EXCEPT ![f] = sizeAfterWrite(f, offset, n)]
                /\ IF done + n < req.n THEN Continue(n) ELSE Return(req.n, << >>)
           ELSE /\ Return(IF done = 0 THEN -1 ELSE done, << >>)
                /\ UNCHANGED <<size, nums, disk, list, full>>
        /\ UNCHANGED tidy

-----------------------------------------------------------------------------
(* read.c                                                                  *)

\* The bytes that readBytes takes from a block: as many as the position of the
\* last byte asked for, or of the file, is ahead of the bytes read so far.
bytesToReadFromBlock(f, offset) ==
    Least(bytesLeftInBlock(offset), Least(size[f], req.n + req.offset) - done)

ReadPass ==
    LET f      == req.file
        offset == req.offset + done
        n      == bytesToReadFromBlock(f, offset)
        block  == nums[f][offset \div BLOCK_SIZE]
        bytes  == [i \in 1..n |-> disk[block][(offset % BLOCK_SIZE) + i - 1]]
    IN  /\ Serving("read")
        /\ IF done < Least(req.n, size[f] - req.offset)
           THEN /\ done' = done + n
                /\ got' = got \o bytes
                /\ UNCHANGED <<req, ret, was>>
           ELSE Return(done, got)
        /\ UNCHANGED <<size, nums, disk, list, full, tidy>>

-----------------------------------------------------------------------------
(* truncate.c, and inodeBlocksFree of dsk/free.c                           *)

\* The last array of the free list is loaded and has room.
TailHasRoom == free = {} \/ Cardinality(free) < TailSize

\* The blocks at some positions of a file are freed, in order.  Block 0 among
\* them changes nothing if the array of the free list has room, which is left
\* open; a full one is spilled into it, and no block is listed any more.  cut
\* is the last position at which that happens, -1 if it does not.
Freed(f, positions) ==
    \E cut \in {k \in positions : nums[f][k] = 0} \union {-1} :
        LET back   == {k \in positions : k > cut /\ nums[f][k] # 0}
            blocks == {nums[f][k] : k \in back}
        IN  /\ IF sound
               THEN /\ free' = (IF cut = -1 THEN free ELSE {}) \union blocks
                    /\ link' = IF cut = -1 /\ (link # 0 \/ ~TailHasRoom \/ back = {}) THEN link
                               ELSE IF back = {} THEN 0
                               ELSE nums[f][Min(back)]
               ELSE UNCHANGED <<free, link>>
            /\ tidy' = (tidy /\ cut = -1)
            /\ disk' = [b \in DOMAIN disk |-> IF \E k \in positions : nums[f][k] = b
                                              THEN [o \in InBlock |-> Junk] ELSE disk[b]]
            /\ UNCHANGED sound

\* truncateINode of a file that has the size already.
TruncateSame ==
    /\ Serving("truncate")
    /\ size[req.file] = req.n
    /\ Return(0, << >>)
    /\ UNCHANGED <<size, nums, disk, list, full, tidy>>

growsWithoutZeros(block, offset, n) == disk

writeNullBytes(block, offset, n) == putInBlock(block, offset, [i \in 1..n |-> 0])

\* A pass of the loop of increaseFileSizeBy.
GrowPass ==
    LET f      == req.file
        offset == size[f]
        n      == Least(bytesLeftInBlock(offset), req.n - offset)
    IN  /\ Serving("truncate")
        /\ size[f] < req.n
        /\ Insert(f, offset)
        /\ Stores(writeNullBytes(bmapForAppend(f, offset), offset, n))
        /\ size' = [size EXCEPT ![f] = offset + n]
        /\ Continue(0)
        /\ UNCHANGED tidy

keepsLastBlock(f, left, used) == left <= used

\* Whether a pass of decreaseFileSizeBy with this much left to take off only
\* shortens the last block, used up to used.
staysInBlock(f, left, used) == left < used

\* A pass of the loop of decreaseFileSizeBy.
ShrinkPass ==
    LET f    == req.file
        used == ((size[f] - 1) % BLOCK_SIZE) + 1
        left == size[f] - req.n
    IN  /\ Serving("truncate")
        /\ size[f] > req.n
        /\ IF staysInBlock(f, left, used)
           THEN /\ size' = [size EXCEPT ![f] = @ - left]
                /\ UNCHANGED <<disk, list, tidy>>
           ELSE /\ size' = [size EXCEPT ![f] = @ - used]
                /\ Freed(f, {(size[f] - 1) \div BLOCK_SIZE})
        /\ Continue(0)
        /\ UNCHANGED <<nums, full>>

\* The positions that the size reaches.
inodeBlocksFree(f) == 0..(NumOf(size[f]) - 1)

\* iput frees the blocks of a file without links, and freeINode sets its size
\* to 0 on the disk; the numbers stay there for the next file.
Delete ==
    /\ Serving("delete")
    /\ Freed(req.file, inodeBlocksFree(req.file))
    /\ size' = [size EXCEPT ![req.file] = 0]
    /\ Return(0, << >>)
    /\ UNCHANGED <<nums, full>>

Pass == WritePass \/ ReadPass \/ TruncateSame \/ GrowPass \/ ShrinkPass \/ Delete

Next == (\E r \in Requests : Call(r)) \/ Pass

SafeSpec == Init /\ [][Next]_vars

\* A call that is being served goes on: nothing in the loops waits.
Spec == SafeSpec /\ WF_vars(Pass)

-----------------------------------------------------------------------------
(* Properties.                                                             *)

\* Every variable keeps its type.
TypeOK ==
    /\ \A f \in Files : size[f] \in 0..MaxSize[f] /\ nums[f] \in [Numbers(f) -> Blocks \union {0}]
    /\ disk \in [Blocks \union {0} -> [InBlock -> Bytes \union {Junk}]]
    /\ free \subseteq Blocks
    /\ link \in Blocks \union {0}
    /\ req \in Requests \union {NoRequest}
    /\ done = 0 \/ done <= 2 * MaxSize[req.file]
    /\ full \subseteq Files
    /\ tidy \in BOOLEAN /\ sound \in BOOLEAN

\* Until a block freed into a link is handed out, no block is in two files,
\* twice in one, or in a file and free, however full the disk was when blocks
\* were taken and freed; only block 0, which stands for none, and only in files
\* that met a full disk.  None is lost as long as no write has crossed the end
\* of its file and no full array was spilled into block 0.
BlocksAccounted ==
    sound =>
        /\ \A f, g \in Files : \A i \in 0..(NumOf(size[f]) - 1), j \in 0..(NumOf(size[g]) - 1) :
              nums[f][i] = nums[g][j] => (f = g /\ i = j) \/ nums[f][i] = 0
        /\ \A f \in Files : BlocksOf(f) \intersect free = {}
        /\ \A f \in Files : 0 \in BlocksOf(f) => f \in full
        /\ tidy => Blocks \subseteq free \union UNION {BlocksOf(f) : f \in Files}

\* The abstract file: what it was until the call returns, and Unknown once the
\* file has met a full disk or the free list is none.
Abstract(f) ==
    IF ~sound \/ f \in full THEN Unknown
    ELSE IF req # NoRequest /\ req.file = f THEN was
    ELSE Content(f)

File == INSTANCE ByteFile WITH file <- [f \in Files |-> Abstract(f)]

\* Every call reads and writes the bytes of its file as ByteFile says, however
\* blocks are split, reused and shared, and leaves the other files alone, also
\* when the disk is full, until a block freed into a link is handed out.
RefinesByteFile == File!Spec

\* Every call returns: each pass gets on with the work.
CallsReturn == (req # NoRequest) ~> (req = NoRequest)
=============================================================================
