----------------------------- MODULE INodeList ------------------------------
(***************************************************************************)
(* The list of free inode numbers in INODE_LIST_BLOCK, and the type kept   *)
(* in every inode on the disk: getNewINode (mkfs/ialloc.c) and freeINode   *)
(* (mkfs/ifree.c).  Each writes the inode first and the list second, and   *)
(* the machine may stop in between.                                        *)
(*                                                                         *)
(* Both scan the list for its first number that is not 0.  The branch of   *)
(* getNewINode that refills the list (fetchFreeINodes) is not an action:   *)
(* checkAndGetFreeINode never returns the 0 that leads to it.  Nor is the  *)
(* one of freeINode that remembers an inode for the refill: SaveNeverFails *)
(* says that the list then always has room.                                *)
(*                                                                         *)
(* pile, inUse and lost are history: what the callers know.                *)
(***************************************************************************)
EXTENDS Integers, Sequences

CONSTANTS
    ListSize,      \* INODE_NOS_PER_BLOCK, the slots of the list.
    NUM_OF_INODES  \* The inodes on the disk; 0 is the root directory's.

ASSUME INodeSizes ==
    /\ ListSize \in Nat /\ ListSize >= 2
    /\ NUM_OF_INODES \in Nat /\ NUM_OF_INODES > ListSize

ErrorINode == -1   \* What checkAndGetFreeINode fails with.

INodes == 0..(NUM_OF_INODES - 1)
Listed == 1..ListSize          \* The numbers mkfs lists.
Slots  == 0..(ListSize - 1)

VARIABLES
    iNodeNos,   \* The list: an inode number or 0 in every slot.
    used,       \* The inodes whose type on the disk is not T_FREE.
    allocating, \* The inode getNewINode has written, its list not; 0 for none.
    freeing,    \* The inode freeINode has written, its list not; 0 for none.
    pile,       \* The listed inodes, latest freed last.
    inUse,      \* The inodes handed out and not freed since.
    lost,       \* The inodes a crash left neither listed nor handed out.
    ret         \* What the latest getNewINode returned, 0 before the first.

vars == <<iNodeNos, used, allocating, freeing, pile, inUse, lost, ret>>

\* mkfs lists the inodes after the root's, as many as the list holds.
Init ==
    /\ iNodeNos = [s \in Slots |-> s + 1]
    /\ used = {0}
    /\ allocating = 0
    /\ freeing = 0
    /\ pile = [h \in 1..ListSize |-> ListSize + 1 - h]
    /\ inUse = {}
    /\ lost = {}
    /\ ret = 0

-----------------------------------------------------------------------------

\* The first slot that lists an inode, ListSize when none does.
firstListed ==
    IF \E s \in Slots : iNodeNos[s] # 0
    THEN CHOOSE s \in Slots : iNodeNos[s] # 0 /\ \A t \in Slots : t < s => iNodeNos[t] = 0
    ELSE ListSize

takesLastSlot == IF firstListed = ListSize THEN ErrorINode ELSE iNodeNos[firstListed]

\* checkAndGetFreeINode counts one past the slot it took, so that it fails for
\* the last slot too.
checkAndGetFreeINode ==
    IF firstListed + 1 >= ListSize THEN ErrorINode ELSE iNodeNos[firstListed]

NewINodeUnchecked ==
    /\ allocating = 0 /\ freeing = 0
    /\ allocating' = checkAndGetFreeINode
    /\ used' = used \union {checkAndGetFreeINode}
    /\ UNCHANGED <<iNodeNos, freeing, pile, inUse, lost, ret>>

\* getNewINode writes the inode ...
NewINodeWrite ==
    /\ allocating = 0 /\ freeing = 0
    /\ checkAndGetFreeINode # ErrorINode
    /\ allocating' = checkAndGetFreeINode
    /\ used' = used \union {checkAndGetFreeINode}
    /\ UNCHANGED <<iNodeNos, freeing, pile, inUse, lost, ret>>

\* ... and then the list without it.
NewINodeCommit ==
    /\ allocating # 0
    /\ iNodeNos' = [iNodeNos EXCEPT ![firstListed] = 0]
    /\ ret' = allocating
    /\ inUse' = inUse \union {allocating}
    /\ pile' = SubSeq(pile, 1, Len(pile) - 1)
    /\ allocating' = 0
    /\ UNCHANGED <<used, freeing, lost>>

\* Nothing is left to hand out: no inode has the number -1, so nothing but
\* the same list is written, and -1 is returned.
NewINodeFails ==
    /\ allocating = 0 /\ freeing = 0
    /\ checkAndGetFreeINode = ErrorINode
    /\ ret' = ErrorINode
    /\ UNCHANGED <<iNodeNos, used, allocating, freeing, pile, inUse, lost>>

-----------------------------------------------------------------------------

savesOverFirst(i) ==
    IF firstListed \in Slots THEN [iNodeNos EXCEPT ![firstListed] = i] ELSE iNodeNos

\* The list with i in the slot before the first that lists an inode, if there
\* is such a slot.
saveInListIfPossible(i) ==
    IF firstListed \in Slots \ {0} THEN [iNodeNos EXCEPT ![firstListed - 1] = i] ELSE iNodeNos

FreeINodeKeepsType(i) ==
    /\ allocating = 0 /\ freeing = 0
    /\ i \in inUse
    /\ freeing' = i
    /\ UNCHANGED <<iNodeNos, used, allocating, pile, inUse, lost, ret>>

\* freeINode clears the type of the inode ...
FreeINodeWrite(i) ==
    /\ allocating = 0 /\ freeing = 0
    /\ i \in inUse
    /\ freeing' = i
    /\ used' = used \ {i}
    /\ UNCHANGED <<iNodeNos, allocating, pile, inUse, lost, ret>>

\* ... and then lists it.
FreeINodeCommit ==
    /\ freeing # 0
    /\ iNodeNos' = saveInListIfPossible(freeing)
    /\ pile' = Append(pile, freeing)
    /\ inUse' = inUse \ {freeing}
    /\ freeing' = 0
    /\ UNCHANGED <<used, allocating, lost, ret>>

\* The machine stops between the two writes, and is restarted.
Crash ==
    /\ allocating # 0 \/ freeing # 0
    /\ inUse' = inUse \ {freeing}
    /\ lost' = lost \union ({freeing} \ {0})
    /\ allocating' = 0
    /\ freeing' = 0
    /\ UNCHANGED <<iNodeNos, used, pile, ret>>

Next ==
    \/ NewINodeWrite \/ NewINodeCommit \/ NewINodeFails
    \/ \E i \in Listed : FreeINodeWrite(i)
    \/ FreeINodeCommit
    \/ Crash

Spec == Init /\ [][Next]_vars

-----------------------------------------------------------------------------
(* Properties.                                                             *)

\* Every variable keeps its type.
TypeOK ==
    /\ iNodeNos \in [Slots -> Listed \union {0}]
    /\ used \subseteq INodes
    /\ allocating \in Listed \union {0}
    /\ freeing \in Listed \union {0}
    /\ pile \in Seq(Listed)
    /\ inUse \subseteq Listed
    /\ lost \subseteq Listed
    /\ ret \in Listed \union {0, ErrorINode}

\* The inode at position q from the bottom of a pile p, 0 if there is none.
At(p, q) == IF q \in 1..Len(p) THEN p[q] ELSE 0

\* The list holds the free inodes, latest freed first, right aligned, and one
\* is always left: ialloc.c and ifree.c agree on where the list begins.
Represents ==
    /\ Len(pile) >= 1
    /\ iNodeNos = [s \in Slots |-> At(pile, ListSize - s)]

\* Every inode mkfs listed is listed once, in use, or lost by a crash; none is
\* handed out twice.
Conserved ==
    /\ \A i, j \in 1..Len(pile) : pile[i] = pile[j] => i = j
    /\ \A i \in 1..Len(pile) : pile[i] \notin inUse \union lost
    /\ inUse \intersect lost = {}
    /\ \A i \in Listed \ (inUse \union lost) : \E h \in 1..Len(pile) : pile[h] = i

\* A free always finds a slot: the list is neither full nor empty when an
\* inode is in use, so that neither rememberIfNeeded nor the loss of an inode
\* that saveInListIfPossible claims to have saved can happen.
SaveNeverFails ==
    inUse # {} => firstListed \in 1..(ListSize - 1)

\* The types on the disk agree with the callers: an inode handed out is not
\* T_FREE, and one that a crash left unlisted is, so that a search of the disk
\* for free inodes, as searchINodes does, could still find it.
TypesAgree ==
    /\ inUse \ {freeing} \subseteq used
    /\ lost \intersect used = {}

\* What the comment on checkAndGetFreeINode says, "Returns first free iNode
\* number, if any exists": it fails only when the list is empty.
FailsOnlyWhenEmpty ==
    checkAndGetFreeINode = ErrorINode => \A s \in Slots : iNodeNos[s] = 0
=============================================================================
