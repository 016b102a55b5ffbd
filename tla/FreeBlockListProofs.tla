------------------------ MODULE FreeBlockListProofs -------------------------
(***************************************************************************)
(* The free block list represents a stack, for every size of the disk and  *)
(* of an array of addresses, on a medium that has all the blocks.          *)
(***************************************************************************)
EXTENDS FreeBlockList, SequenceTheorems, TLAPS

\* The medium has every block mkfs lists: the disk of a device, and not the
\* array of mdisk.c.
Backed == BackedBlocks >= NUM_OF_BLOCKS

\* The inductive invariant.  ListInOrder alone is not inductive: that a block
\* being freed is not listed (OneState) keeps the spill from overwriting an
\* array, and what was spilled (CopyComplete) is what the commit relies on.
\* It holds until a block is freed into the link slot of the tail array.
Inv == Types /\ ListInOrder /\ OneState /\ CopyComplete
UntilMisfiled == link = 0 => Inv

-----------------------------------------------------------------------------
(* Arithmetic of the heights.                                              *)

\* The sizes are natural numbers, and there is a data block.
LEMMA Sizes ==
    /\ NUM_OF_BLOCKS \in Nat
    /\ NUM_OF_BLOCKS - StartPos = NumLists * ListSize + TailSize
    /\ NumLists * ListSize \in Nat
    /\ NumLists * ListSize >= ListSize
    /\ NUM_OF_BLOCKS > StartPos
    /\ FREE_LIST_BLOCK \in Blocks
    /\ FREE_LIST_BLOCK \notin DataBlocks
    /\ 0 \notin DataBlocks
    /\ DataBlocks \subseteq Blocks
  <1>1. NumLists * ListSize \in Nat /\ NumLists * ListSize >= ListSize
    BY SizesAssumption
  <1> QED
    BY <1>1, SizesAssumption DEF NUM_OF_BLOCKS, FREE_LIST_BLOCK, Blocks, DataBlocks

\* Consecutive heights are ListSize apart, and the 0th is not positive.
LEMMA HeightStep ==
    ASSUME NEW k \in Int
    PROVE  /\ Height(k) \in Int
           /\ Height(k + 1) = Height(k) + ListSize
           /\ Height(k - 1) = Height(k) - ListSize
           /\ Height(0) <= 0
  <1>1. (k - 1) * ListSize \in Int
    BY SizesAssumption
  <1>2. ((k + 1) - 1) * ListSize = (k - 1) * ListSize + ListSize
    BY SizesAssumption
  <1>3. ((k - 1) - 1) * ListSize = (k - 1) * ListSize - ListSize
    BY SizesAssumption
  <1>4. (0 - 1) * ListSize = 0 - ListSize
    BY SizesAssumption
  <1> QED
    BY <1>1, <1>2, <1>3, <1>4, SizesAssumption DEF Height

\* Different heights are at least ListSize apart.
LEMMA HeightApart ==
    ASSUME NEW j \in Int, NEW k \in Int, j < k
    PROVE  Height(j) + ListSize <= Height(k)
  <1>1. (k - 1) - (j - 1) >= 1 /\ (k - 1) - (j - 1) \in Int
    OBVIOUS
  <1>2. ((k - 1) - (j - 1)) * ListSize >= ListSize
    BY <1>1, SizesAssumption
  <1>3. ((k - 1) - (j - 1)) * ListSize = (k - 1) * ListSize - (j - 1) * ListSize
    BY SizesAssumption
  <1>4. (k - 1) * ListSize \in Int /\ (j - 1) * ListSize \in Int
    BY SizesAssumption
  <1> QED
    BY <1>2, <1>3, <1>4, SizesAssumption DEF Height

\* A height is at least its index.
LEMMA HeightAtLeast ==
    ASSUME NEW k \in Nat, k >= 1
    PROVE  Height(k) >= k
  <1>1. (k - 1) * ListSize >= k - 1 /\ (k - 1) * ListSize \in Int
    BY SizesAssumption
  <1> QED
    BY <1>1, SizesAssumption DEF Height

-----------------------------------------------------------------------------
(* The arrays a pile stands for.                                           *)

\* An array read off a pile of blocks is an array of addresses.
LEMMA ListFromType ==
    ASSUME NEW p \in Seq(DataBlocks), NEW q \in Int
    PROVE  ListFrom(p, q) \in Lists
  <1>1. ASSUME NEW i \in Slots
        PROVE  At(p, q - i) \in Blocks
    <2>1. q - i \in Int
      BY SizesAssumption DEF Slots
    <2>2. At(p, q - i) = 0 \/ At(p, q - i) \in DataBlocks
      BY <2>1 DEF At
    <2>3. 0 \in Blocks
      BY Sizes, SizesAssumption DEF Blocks
    <2> QED
      BY <2>2, <2>3, Sizes
  <1> QED
    BY <1>1 DEF ListFrom, Lists

\* A block on a pile is not 0; there is none above the top or below position 1.
LEMMA AtFacts ==
    ASSUME NEW p \in Seq(DataBlocks), NEW q \in Int
    PROVE  /\ q >= 1 /\ q <= Len(p) => At(p, q) = p[q] /\ p[q] \in DataBlocks /\ At(p, q) # 0
           /\ ~(q >= 1 /\ q <= Len(p)) => At(p, q) = 0
  BY Sizes DEF At

\* Pushing a block changes no array that lies below it.
LEMMA ListFromPush ==
    ASSUME NEW p \in Seq(DataBlocks), NEW b \in DataBlocks, NEW q \in Int, q <= Len(p)
    PROVE  ListFrom(Append(p, b), q) = ListFrom(p, q)
  <1>1. ASSUME NEW i \in Slots
        PROVE  At(Append(p, b), q - i) = At(p, q - i)
    BY SizesAssumption DEF At, Slots
  <1> QED
    BY <1>1 DEF ListFrom

\* Popping a block changes no array that lies below it.
LEMMA ListFromPop ==
    ASSUME NEW p \in Seq(DataBlocks), p # << >>, NEW q \in Int, q <= Len(p) - 1
    PROVE  ListFrom(SubSeq(p, 1, Len(p) - 1), q) = ListFrom(p, q)
  <1>1. ASSUME NEW i \in Slots
        PROVE  At(SubSeq(p, 1, Len(p) - 1), q - i) = At(p, q - i)
    BY SizesAssumption DEF At, Slots
  <1> QED
    BY <1>1 DEF ListFrom

\* What popping leaves.
LEMMA PopFacts ==
    ASSUME NEW p \in Seq(DataBlocks), p # << >>
    PROVE  /\ Len(p) >= 1
           /\ SubSeq(p, 1, Len(p) - 1) \in Seq(DataBlocks)
           /\ Len(SubSeq(p, 1, Len(p) - 1)) = Len(p) - 1
           /\ \A i \in 1..(Len(p) - 1) : SubSeq(p, 1, Len(p) - 1)[i] = p[i]
  <1>1. Len(p) \in Nat /\ Len(p) >= 1
    BY EmptySeq, LenProperties
  <1>2. \A i \in 1..(Len(p) - 1) : p[i] \in DataBlocks
    BY <1>1
  <1>3. /\ SubSeq(p, 1, Len(p) - 1) \in Seq(DataBlocks)
        /\ Len(SubSeq(p, 1, Len(p) - 1)) =
              IF 1 <= Len(p) - 1 THEN (Len(p) - 1) - 1 + 1 ELSE 0
        /\ \A i \in 1..((Len(p) - 1) - 1 + 1) : SubSeq(p, 1, Len(p) - 1)[i] = p[1 + i - 1]
    <2>1. 1 \in Int /\ Len(p) - 1 \in Int
      BY <1>1
    <2> QED
      BY ONLY <2>1, <1>2, SubSeqProperties
  <1> DEFINE f == SubSeq(p, 1, Len(p) - 1)
             n == Len(p) - 1
  <1>4. f \in Seq(DataBlocks) /\ Len(f) = n /\ \A i \in 1..n : f[i] = p[i]
    <2>1. n - 1 + 1 = n /\ n \in Nat
      BY <1>1
    <2>2. \A i \in 1..n : 1 + i - 1 = i
      OBVIOUS
    <2>3. f \in Seq(DataBlocks) /\ Len(f) = (IF 1 <= n THEN n - 1 + 1 ELSE 0)
          /\ \A i \in 1..(n - 1 + 1) : f[i] = p[1 + i - 1]
      BY <1>3
    <2> HIDE DEF f, n
    <2> QED
      BY <2>1, <2>2, <2>3
  <1> QED
    BY <1>1, <1>4, Zenon

\* What pushing leaves.
LEMMA PushFacts ==
    ASSUME NEW p \in Seq(DataBlocks), NEW b \in DataBlocks
    PROVE  /\ Append(p, b) \in Seq(DataBlocks)
           /\ Len(Append(p, b)) = Len(p) + 1
           /\ Append(p, b)[Len(p) + 1] = b
           /\ \A i \in 1..Len(p) : Append(p, b)[i] = p[i]
  OBVIOUS

\* Reading and writing a block of a medium that has it.
LEMMA BackedAccess ==
    ASSUME Backed, NEW b \in Blocks, NEW c
    PROVE  /\ getDiskBlock(b, c) = disk[b]
           /\ writeDiskBlock(b, c) = [disk EXCEPT ![b] = c]
  BY SizesAssumption, Sizes DEF Backed, Blocks, getDiskBlock, writeDiskBlock

-----------------------------------------------------------------------------
(* What blockAlloc finds.                                                  *)

\* In an array read off a pile whose top lies within it, the first slot that
\* lists a block lists the top.
LEMMA FirstListedIsTop ==
    ASSUME NEW p \in Seq(DataBlocks), NEW q \in Int,
           Len(p) >= 1, Len(p) <= q, q < Len(p) + ListSize
    PROVE  /\ q - Len(p) \in Slots
           /\ firstListed(ListFrom(p, q)) = q - Len(p)
           /\ ListFrom(p, q)[q - Len(p)] = p[Len(p)]
  <1> DEFINE c == q - Len(p)
  <1>1. c \in Slots
    BY SizesAssumption DEF Slots
  <1>2. ListFrom(p, q)[c] = p[Len(p)] /\ ListFrom(p, q)[c] # 0
    <2>1. q - c = Len(p) /\ Len(p) \in Int
      OBVIOUS
    <2>2. At(p, Len(p)) = p[Len(p)] /\ At(p, Len(p)) # 0
      BY AtFacts
    <2> QED
      BY <1>1, <2>1, <2>2 DEF ListFrom
  <1>3. ASSUME NEW j \in Slots, j < c
        PROVE  ListFrom(p, q)[j] = 0
    <2>1. q - j > Len(p) /\ q - j \in Int
      BY <1>3 DEF Slots
    <2>2. At(p, q - j) = 0
      BY <2>1, AtFacts
    <2> QED
      BY <2>2 DEF ListFrom
  <1>4. ASSUME NEW i \in Slots, ListFrom(p, q)[i] # 0,
               \A j \in Slots : j < i => ListFrom(p, q)[j] = 0
        PROVE  i = c
    <2>1. ~(i < c)
      BY <1>3, <1>4
    <2>2. ~(c < i)
      BY <1>1, <1>2, <1>4
    <2> QED
      BY <2>1, <2>2, <1>1 DEF Slots
  <1>5. firstListed(ListFrom(p, q)) = c
    <2> DEFINE P(i) == ListFrom(p, q)[i] # 0 /\ \A j \in Slots : j < i => ListFrom(p, q)[j] = 0
    <2>1. c \in Slots /\ P(c)
      BY <1>1, <1>2, <1>3
    <2>2. \A i \in Slots : P(i) => i = c
      BY <1>4
    <2>3. (CHOOSE i \in Slots : P(i)) = c
      BY <2>1, <2>2
    <2>4. \E i \in Slots : ListFrom(p, q)[i] # 0
      BY <1>1, <1>2
    <2> QED
      BY <2>3, <2>4 DEF firstListed
  <1> QED
    BY <1>1, <1>2, <1>5

\* An array read off an empty pile lists nothing.
LEMMA EmptyListsNothing ==
    ASSUME NEW p \in Seq(DataBlocks), p = << >>, NEW q \in Int
    PROVE  /\ firstListed(ListFrom(p, q)) = ListSize
           /\ \A i \in Slots : ListFrom(p, q)[i] = 0
  <1>1. ASSUME NEW i \in Slots
        PROVE  ListFrom(p, q)[i] = 0
    <2>1. q - i \in Int /\ Len(p) = 0
      BY EmptySeq DEF Slots
    <2>2. At(p, q - i) = 0
      BY <2>1 DEF At
    <2> QED
      BY <2>2 DEF ListFrom
  <1> QED
    BY <1>1 DEF firstListed

-----------------------------------------------------------------------------
(* The initial state.                                                      *)

\* mkfs leaves every data block on the chain, lowest number on top.
LEMMA InitInv ==
    ASSUME Init
    PROVE  Inv
  <1> DEFINE n == NUM_OF_BLOCKS - StartPos
  <1>n. n \in Nat /\ n >= 1 /\ n = NumLists * ListSize + TailSize /\ NUM_OF_BLOCKS = StartPos + n
    BY Sizes, SizesAssumption
  <1>p. pile = [h \in 1..n |-> NUM_OF_BLOCKS - h]
    BY DEF Init
  <1>d. \A h \in 1..n : NUM_OF_BLOCKS - h \in DataBlocks
    BY <1>n, SizesAssumption DEF DataBlocks
  <1>1. pile \in Seq(DataBlocks) /\ Len(pile) = n
    <2>1. pile \in [1..n -> DataBlocks]
      BY <1>p, <1>d
    <2> QED
      BY <2>1, <1>n
  <1>l. ASSUME NEW q \in Int, q <= n
        PROVE  makeOneBlock(NUM_OF_BLOCKS - q) = ListFrom(pile, q)
    <2>1. ASSUME NEW i \in Slots
          PROVE  (IF (NUM_OF_BLOCKS - q) + i < NUM_OF_BLOCKS
                  THEN (NUM_OF_BLOCKS - q) + i ELSE 0) = At(pile, q - i)
      <3>1. q - i \in Int /\ q - i <= n
        BY <1>l, <1>n, SizesAssumption DEF Slots
      <3>2. CASE q - i >= 1
        <4>1. At(pile, q - i) = NUM_OF_BLOCKS - (q - i)
          BY <3>1, <3>2, <1>1, <1>p, <1>n, AtFacts
        <4> QED
          BY <4>1, <3>2, Sizes DEF Slots
      <3>3. CASE ~(q - i >= 1)
        <4>1. At(pile, q - i) = 0
          BY <3>1, <3>3, <1>1, AtFacts
        <4> QED
          BY <4>1, <3>3, Sizes DEF Slots
      <3> QED
        BY <3>2, <3>3
    <2> QED
      BY <2>1 DEF makeOneBlock, ListFrom
  <1>f. disk[FREE_LIST_BLOCK] = ListFrom(pile, n)
    <2>1. disk[FREE_LIST_BLOCK] = makeOneBlock(StartPos)
      BY Sizes DEF Init, initializeDiskBlocks
    <2>2. StartPos = NUM_OF_BLOCKS - n
      BY <1>n, SizesAssumption
    <2> QED
      BY <2>1, <2>2, <1>l, <1>n
  <1>2. Types
    <2>1. disk[FREE_LIST_BLOCK] \in Lists
      BY <1>f, <1>1, <1>n, ListFromType
    <2>2. ASSUME NEW s \in Int, s >= StartPos PROVE makeOneBlock(s) \in Lists
      BY <2>2, Sizes, SizesAssumption DEF makeOneBlock, Lists, Slots, Blocks
    <2>3. disk \in [Blocks -> Lists \union {Data}]
      <3>1. ASSUME NEW b \in Blocks
            PROVE  initializeDiskBlocks[b] \in Lists \union {Data}
        <4>1. CASE b = FREE_LIST_BLOCK
          BY <4>1, <2>2, SizesAssumption DEF initializeDiskBlocks
        <4>2. CASE b # FREE_LIST_BLOCK /\ \E j \in 1..NumLists : b = StartPos + j * ListSize - 1
          <5>1. PICK j \in 1..NumLists : b = StartPos + j * ListSize - 1
            BY <4>2
          <5>2. j * ListSize >= 1 /\ j * ListSize \in Int
            BY SizesAssumption
          <5>3. b + 1 \in Int /\ b + 1 >= StartPos
            BY <5>1, <5>2, SizesAssumption
          <5> QED
            BY <4>2, <5>3, <2>2 DEF initializeDiskBlocks
        <4>3. CASE b # FREE_LIST_BLOCK /\ ~\E j \in 1..NumLists : b = StartPos + j * ListSize - 1
          BY <4>3 DEF initializeDiskBlocks
        <4> QED
          BY <4>1, <4>2, <4>3
      <3> QED
        BY <3>1 DEF Init, initializeDiskBlocks
    <2> QED
      BY <1>1, <2>1, <2>3 DEF Init, Types
  <1>3. ListInOrder
    <2> DEFINE m == NumLists
    <2>1. Height(m) + ListSize - 1 = n /\ Height(m) \in Int
      <3>1. (m - 1) * ListSize = m * ListSize - ListSize
        BY SizesAssumption
      <3> QED
        BY <3>1, <1>n, Sizes, SizesAssumption, HeightStep DEF Height
    <2>2. m \in 0..Len(pile)
      <3>1. m * ListSize >= m
        BY SizesAssumption
      <3> QED
        BY <3>1, <1>1, <1>n, SizesAssumption, Sizes
    <2>3. /\ Height(m) <= Len(pile)
          /\ Len(pile) < Height(m) + ListSize
          /\ disk[FREE_LIST_BLOCK] = ListFrom(pile, Height(m) + ListSize - 1)
      BY <2>1, <1>1, <1>f, <1>n, SizesAssumption
    <2>4. ASSUME NEW k \in 1..Len(pile), Height(k) <= Len(pile)
          PROVE  disk[pile[Height(k)]] = ListFrom(pile, Height(k) - 1)
      <3>1. k \in Nat /\ k >= 1 /\ Height(k) \in Int /\ Height(k) >= 1
        BY <1>1, <1>n, HeightAtLeast, HeightStep, SMTT(20)
      <3>2. k <= m
        <4>1. SUFFICES ASSUME m < k PROVE FALSE
          BY <3>1, SizesAssumption
        <4>2. Height(m) + ListSize <= Height(k)
          BY <4>1, <3>1, SizesAssumption, HeightApart
        <4> QED
          BY <4>2, <2>4, <2>3, <1>1, <1>n, <2>1, <3>1, SizesAssumption
      <3> DEFINE b == NUM_OF_BLOCKS - Height(k)
                 j == m - k + 1
      <3>3. pile[Height(k)] = b /\ b \in DataBlocks
        BY <3>1, <2>4, <1>p, <1>1, <1>d, <1>n
      <3>4. j \in 1..NumLists
        BY <3>1, <3>2, SizesAssumption
      <3>5. b = StartPos + j * ListSize - 1
        <4>1. j * ListSize = m * ListSize - (k - 1) * ListSize
          BY <3>1, SizesAssumption
        <4>2. (k - 1) * ListSize \in Int
          BY <3>1, SizesAssumption
        <4> QED
          BY <4>1, <4>2, <1>n, Sizes, SizesAssumption DEF Height
      <3>6. disk[b] = makeOneBlock(b + 1)
        <4>1. b \in Blocks /\ b # FREE_LIST_BLOCK
          BY <3>3, Sizes
        <4> HIDE DEF b, j
        <4> QED
          BY <4>1, <3>4, <3>5 DEF Init, initializeDiskBlocks
      <3>7. b + 1 = NUM_OF_BLOCKS - (Height(k) - 1) /\ Height(k) - 1 \in Int /\ Height(k) - 1 <= n
        BY <3>1, <2>4, <1>1, <1>n, Sizes
      <3> QED
        BY <3>3, <3>6, <3>7, <1>l
    <2> QED
      BY <2>2, <2>3, <2>4 DEF ListInOrder
  <1>4. OneState
    <2>1. \A i, j \in 1..Len(pile) : pile[i] = pile[j] => i = j
      BY <1>1, <1>p, <1>n, Sizes
    <2>2. ASSUME NEW b \in DataBlocks
          PROVE  \E i \in 1..Len(pile) : pile[i] = b
      <3>1. NUM_OF_BLOCKS - b \in 1..n
        BY <1>n, Sizes, SizesAssumption DEF DataBlocks
      <3>2. pile[NUM_OF_BLOCKS - b] = b
        BY <3>1, <1>p, <1>n, SizesAssumption DEF DataBlocks
      <3> QED
        BY <3>1, <3>2, <1>1
    <2>3. owned = {} /\ lost = {}
      BY DEF Init
    <2> QED
      BY <2>1, <2>2, <2>3 DEF OneState
  <1>5. CopyComplete
    BY DEF Init, CopyComplete
  <1> QED
    BY <1>2, <1>3, <1>4, <1>5 DEF Inv

-----------------------------------------------------------------------------
(* The steps.                                                              *)

\* An array holds the blocks of a pile from its topmost link upwards.
Loaded(list, p) ==
    \E k \in 0..Len(p) :
        /\ Height(k) <= Len(p)
        /\ Len(p) < Height(k) + ListSize
        /\ list = ListFrom(p, Height(k) + ListSize - 1)

\* The link blocks of a pile hold the arrays below them.
Chained(p) ==
    \A k \in 1..Len(p) :
        Height(k) <= Len(p) => disk[p[Height(k)]] = ListFrom(p, Height(k) - 1)

\* The block that blockAlloc finds in an array, and the array it replaces it by.
blockFound(list) == IF firstListed(list) < ListSize THEN list[firstListed(list)] ELSE 0
listLeft(list)   == listAfterAlloc(list, firstListed(list), blockFound(list))

\* blockAlloc takes the top of a pile, or finds nothing, and leaves the array
\* of the pile without its top.
LEMMA AllocTakesTop ==
    ASSUME Backed, disk \in [Blocks -> Lists \union {Data}],
           NEW pl \in Seq(DataBlocks), NEW list, Loaded(list, pl), Chained(pl)
    PROVE  /\ pl # << >> => /\ blockFound(list) = pl[Len(pl)]
                            /\ Loaded(listLeft(list), SubSeq(pl, 1, Len(pl) - 1))
           /\ pl = << >> => blockFound(list) = 0 /\ listLeft(list) = list
           /\ list \in Lists
           /\ listLeft(list) \in Lists
  <1> DEFINE counter  == firstListed(list)
             newBlock == blockFound(list)
             newList  == listLeft(list)
  <1>t. Len(pl) \in Nat
    OBVIOUS
  <1>k. PICK k \in 0..Len(pl) :
          /\ Height(k) <= Len(pl)
          /\ Len(pl) < Height(k) + ListSize
          /\ list = ListFrom(pl, Height(k) + ListSize - 1)
    BY DEF Loaded
  <1> DEFINE h == Height(k)
             q == h + ListSize - 1
  <1>h. k \in Int /\ h \in Int /\ q \in Int /\ ListSize \in Nat /\ ListSize >= 2
    <2>1. k \in Int
      BY <1>t
    <2>2. h \in Int
      BY <2>1, HeightStep
    <2> HIDE DEF h
    <2> QED
      BY <2>1, <2>2, SizesAssumption
  <1>l. list \in Lists
    BY <1>k, <1>h, ListFromType
  <1>3. CASE pl = << >>
    <2>1. counter = ListSize
      BY <1>3, <1>k, <1>h, EmptyListsNothing
    <2>2. newBlock = 0
      BY <2>1, <1>h DEF blockFound
    <2>3. newList = list
      <3>1. newList = [i \in Slots |-> IF i = counter THEN 0 ELSE list[i]]
        BY <2>1, <1>h DEF listLeft, listAfterAlloc
      <3>2. \A i \in Slots : i # counter
        BY <2>1, <1>h DEF Slots
      <3> QED
        BY <3>1, <3>2, <1>l DEF Lists
    <2> QED
      BY <1>3, <1>l, <2>2, <2>3
  <1>4. CASE pl # << >>
    <2> DEFINE p == SubSeq(pl, 1, Len(pl) - 1)
    <2>1. Len(pl) >= 1 /\ p \in Seq(DataBlocks) /\ Len(p) = Len(pl) - 1
      BY <1>4, PopFacts
    <2>2. counter = q - Len(pl) /\ counter \in Slots /\ list[counter] = pl[Len(pl)]
      <3>1. Len(pl) <= q /\ q < Len(pl) + ListSize
        BY <1>t, <1>k, <1>h
      <3>2. list = ListFrom(pl, q)
        BY <1>k
      <3> HIDE DEF q
      <3>3. /\ q - Len(pl) \in Slots
            /\ firstListed(ListFrom(pl, q)) = q - Len(pl)
            /\ ListFrom(pl, q)[q - Len(pl)] = pl[Len(pl)]
        BY <1>h, <2>1, <3>1, FirstListedIsTop
      <3> QED
        BY <3>2, <3>3
    <2>3. counter \in Nat /\ counter < ListSize /\ newBlock = pl[Len(pl)]
      BY <2>2, <1>h DEF Slots, blockFound
    <2>b. newBlock \in DataBlocks
      BY <2>3, <2>1, <1>t
    <2> HIDE DEF p, newList, newBlock
    <2>4. CASE Len(pl) = h
      <3>1. k >= 1
        BY <2>4, <2>1, <1>h, HeightStep
      <3>2. counter = ListSize - 1
        BY <2>2, <2>4, <1>t, <1>h
      <3>3. newList = disk[newBlock]
        <4>1. newList = getDiskBlock(newBlock, list)
          BY <3>2 DEF listLeft, listAfterAlloc, newList, newBlock
        <4> QED
          BY <4>1, <2>b, Sizes, BackedAccess
      <3>4. disk[newBlock] = ListFrom(pl, h - 1)
        BY <2>3, <2>4, <3>1, <1>h, <1>k DEF Chained
      <3>5. ListFrom(p, h - 1) = ListFrom(pl, h - 1)
        BY <1>4, <1>h, <2>4, ListFromPop DEF p
      <3>6. Height(k - 1) = h - ListSize /\ k - 1 \in 0..Len(p)
        BY <1>h, <1>k, <3>1, <2>1, <1>t, HeightStep
      <3>7. newList = ListFrom(p, Height(k - 1) + ListSize - 1)
        BY <3>3, <3>4, <3>5, <3>6, <1>h
      <3>8. newList \in Lists
        BY <3>3, <3>4, <1>h, ListFromType
      <3>9. Height(k - 1) <= Len(p) /\ Len(p) < Height(k - 1) + ListSize
        BY <3>6, <2>1, <2>4, <1>h, <1>t
      <3>10. Loaded(newList, p)
        BY <3>6, <3>7, <3>9 DEF Loaded
      <3> QED
        BY <1>4, <1>l, <2>3, <3>8, <3>10 DEF p, newList, newBlock
    <2>5. CASE Len(pl) # h
      <3>1. counter # ListSize - 1
        BY <2>2, <2>5, <1>t, <1>h
      <3>2. newList = [i \in Slots |-> IF i = counter THEN 0 ELSE list[i]]
        BY <3>1 DEF listLeft, listAfterAlloc, newList
      <3>3. ASSUME NEW i \in Slots
            PROVE  (IF i = counter THEN 0 ELSE list[i]) = At(p, q - i)
        <4>i. i \in Nat /\ q - i \in Int /\ list[i] = At(pl, q - i)
          BY <1>h, <1>k DEF Slots, ListFrom
        <4>1. CASE i = counter
          <5>1. q - i = Len(p) + 1
            BY <4>1, <2>1, <2>2, <1>t, <1>h, SMTT(20)
          <5> QED
            BY <4>1, <5>1, <2>1, <4>i, AtFacts
        <4>2. CASE i # counter
          <5>1. q - i # Len(pl)
            BY <4>2, <2>2, <4>i, <1>h, <1>t
          <5>2. At(p, q - i) = At(pl, q - i)
            BY <5>1, <4>i, <2>1, <1>t, <1>4, PopFacts DEF At, p
          <5> QED
            BY <4>2, <5>2, <4>i
        <4> QED
          BY <4>1, <4>2
      <3>4. newList = ListFrom(p, q)
        BY <3>2, <3>3 DEF ListFrom
      <3>5. k \in 0..Len(p)
        <4>1. k >= 1 => h >= k
          BY <1>h, <1>k, HeightAtLeast
        <4> QED
          BY <4>1, <1>k, <1>h, <1>t, <2>1, <2>5
      <3>6. newList \in Lists
        BY <3>4, <2>1, <1>h, ListFromType
      <3>7. h <= Len(p) /\ Len(p) < h + ListSize
        BY <1>k, <1>h, <1>t, <2>1, <2>5
      <3>8. Loaded(newList, p)
        BY <3>4, <3>5, <3>7 DEF Loaded
      <3> QED
        BY <1>4, <1>l, <2>3, <3>6, <3>8 DEF p, newList, newBlock
    <2> QED
      BY <2>4, <2>5
  <1> QED
    BY <1>3, <1>4

\* What blockAlloc returns and writes.
LEMMA AllocEffect ==
    ASSUME Backed, Types, ListInOrder, blockAlloc
    PROVE  /\ pile # << >> => ret' = pile[Len(pile)]
           /\ pile = << >> => ret' = 0
           /\ \A b \in Blocks \ {FREE_LIST_BLOCK} : disk'[b] = disk[b]
           /\ disk' \in [Blocks -> Lists \union {Data}]
           /\ disk'[FREE_LIST_BLOCK] \in Lists
           /\ \E k \in 0..Len(pile') :
                /\ Height(k) <= Len(pile')
                /\ Len(pile') < Height(k) + ListSize
                /\ disk'[FREE_LIST_BLOCK] = ListFrom(pile', Height(k) + ListSize - 1)
  <1> DEFINE list == disk[FREE_LIST_BLOCK]
  <1>t. pile \in Seq(DataBlocks) /\ disk \in [Blocks -> Lists \union {Data}]
    BY DEF Types
  <1>r. Loaded(list, pile) /\ Chained(pile)
    BY DEF ListInOrder, Loaded, Chained
  <1>1. ret' = blockFound(list) /\ disk' = writeDiskBlock(FREE_LIST_BLOCK, listLeft(list))
    BY DEF blockAlloc, blockFound, listLeft
  <1>2. disk' = [disk EXCEPT ![FREE_LIST_BLOCK] = listLeft(list)]
    BY <1>1, Sizes, BackedAccess
  <1>3. /\ pile # << >> => /\ blockFound(list) = pile[Len(pile)]
                           /\ Loaded(listLeft(list), SubSeq(pile, 1, Len(pile) - 1))
        /\ pile = << >> => blockFound(list) = 0 /\ listLeft(list) = list
        /\ listLeft(list) \in Lists
    BY <1>t, <1>r, AllocTakesTop
  <1>4. Loaded(listLeft(list), pile')
    <2>1. pile' = IF pile = << >> THEN pile ELSE SubSeq(pile, 1, Len(pile) - 1)
      BY DEF blockAlloc
    <2> QED
      BY <2>1, <1>3, <1>r
  <1>5. /\ \A b \in Blocks \ {FREE_LIST_BLOCK} : disk'[b] = disk[b]
        /\ disk'[FREE_LIST_BLOCK] = listLeft(list)
        /\ disk' \in [Blocks -> Lists \union {Data}]
    BY <1>2, <1>3, <1>t, Sizes
  <1> QED
    BY <1>1, <1>3, <1>4, <1>5 DEF Loaded

\* blockAlloc keeps the invariant.
LEMMA AllocInv ==
    ASSUME Backed, Inv, blockAlloc
    PROVE  Inv'
  <1>i. Types /\ ListInOrder /\ OneState /\ CopyComplete
    BY DEF Inv
  <1>t. pile \in Seq(DataBlocks) /\ Len(pile) \in Nat /\ owned \subseteq DataBlocks
        /\ lost \subseteq DataBlocks
    BY <1>i DEF Types
  <1>e. /\ pile # << >> => ret' = pile[Len(pile)]
        /\ pile = << >> => ret' = 0
        /\ \A b \in Blocks \ {FREE_LIST_BLOCK} : disk'[b] = disk[b]
        /\ disk' \in [Blocks -> Lists \union {Data}]
        /\ disk'[FREE_LIST_BLOCK] \in Lists
        /\ \E k \in 0..Len(pile') :
             /\ Height(k) <= Len(pile')
             /\ Len(pile') < Height(k) + ListSize
             /\ disk'[FREE_LIST_BLOCK] = ListFrom(pile', Height(k) + ListSize - 1)
    BY <1>i, AllocEffect
  <1>v. /\ pending = 0 /\ pending' = 0 /\ lost' = lost
        /\ owned' = IF ret' = 0 THEN owned ELSE owned \union {ret'}
        /\ pile' = IF pile = << >> THEN pile ELSE SubSeq(pile, 1, Len(pile) - 1)
    BY DEF blockAlloc
  <1>s. CopyComplete'
    BY <1>v DEF CopyComplete
  <1>1. CASE pile = << >>
    <2>1. pile' = pile /\ ret' = 0 /\ owned' = owned /\ Len(pile) = 0
      BY <1>1, <1>e, <1>v, EmptySeq
    <2>2. Types'
      BY <2>1, <1>i, <1>e, <1>v DEF Types
    <2>3. OneState'
      BY <2>1, <1>i, <1>v DEF OneState
    <2>4. ListInOrder'
      BY <2>1, <1>e DEF ListInOrder
    <2> QED
      BY <2>2, <2>3, <2>4, <1>s DEF Inv
  <1>2. CASE pile # << >>
    <2> DEFINE n == Len(pile)
    <2>1. /\ n \in Nat /\ n >= 1
          /\ pile' \in Seq(DataBlocks)
          /\ Len(pile') = n - 1
          /\ \A i \in 1..(n - 1) : pile'[i] = pile[i]
      BY <1>2, <1>v, <1>t, PopFacts
    <2>2. ret' = pile[n] /\ pile[n] \in DataBlocks /\ ret' # 0
      BY <1>2, <1>e, <1>t, <2>1, Sizes
    <2>3. owned' = owned \union {pile[n]}
      BY <2>2, <1>v
    <2>4. Types'
      BY <2>1, <2>2, <2>3, <1>i, <1>e, <1>v DEF Types
    <2>5. OneState'
      <3>1. \A i, j \in 1..Len(pile') : pile'[i] = pile'[j] => i = j
        BY <2>1, <1>i DEF OneState
      <3>2. \A i \in 1..Len(pile') : pile'[i] \notin owned' \union lost'
        BY <2>1, <2>3, <1>i, <1>v DEF OneState
      <3>3. owned' \intersect lost' = {}
        <4>1. pile[n] \notin lost
          BY <2>1, <1>i DEF OneState
        <4>2. owned \intersect lost = {}
          BY <1>i DEF OneState
        <4> QED
          BY <4>1, <4>2, <2>3, <1>v
      <3>4. ASSUME NEW b \in DataBlocks \ (owned' \union lost')
            PROVE  \E i \in 1..Len(pile') : pile'[i] = b
        <4>1. b \in DataBlocks \ (owned \union lost) /\ b # pile[n]
          BY <2>3, <1>v
        <4>2. PICK i \in 1..n : pile[i] = b
          BY <4>1, <1>i DEF OneState
        <4>3. i \in 1..(n - 1)
          BY <4>1, <4>2, <2>1
        <4> QED
          BY <4>2, <4>3, <2>1
      <3> QED
        BY <3>1, <3>2, <3>3, <3>4 DEF OneState
    <2>6. ListInOrder'
      <3>1. ASSUME NEW k \in 1..Len(pile'), Height(k) <= Len(pile')
            PROVE  disk'[pile'[Height(k)]] = ListFrom(pile', Height(k) - 1)
        <4>1. k \in Nat /\ k \in Int /\ k >= 1 /\ k \in 1..n
          BY <2>1
        <4>2. Height(k) \in Int /\ Height(k) >= 1
          <5>1. Height(k) \in Int
            BY <4>1, HeightStep
          <5>2. Height(k) >= k
            BY <4>1, HeightAtLeast
          <5> QED
            BY <4>1, <5>1, <5>2
        <4>3. Height(k) \in 1..(n - 1) /\ Height(k) <= n
          BY <4>2, <3>1, <2>1
        <4>4. pile'[Height(k)] = pile[Height(k)] /\ pile[Height(k)] \in DataBlocks
          BY <4>3, <2>1, <1>t
        <4>5. disk'[pile[Height(k)]] = disk[pile[Height(k)]]
          BY <4>4, <1>e, Sizes
        <4>6. disk[pile[Height(k)]] = ListFrom(pile, Height(k) - 1)
          BY <4>1, <4>3, <1>i DEF ListInOrder
        <4>7. ListFrom(pile', Height(k) - 1) = ListFrom(pile, Height(k) - 1)
          <5>1. pile' = SubSeq(pile, 1, Len(pile) - 1)
            BY <1>2, <1>v
          <5>2. Height(k) - 1 \in Int /\ Height(k) - 1 <= Len(pile) - 1
            BY <4>2, <4>3, <2>1
          <5> QED
            BY <5>1, <5>2, <1>2, <1>t, ListFromPop
        <4> QED
          BY <4>4, <4>5, <4>6, <4>7
      <3> QED
        BY <3>1, <1>e DEF ListInOrder
    <2> QED
      BY <2>4, <2>5, <2>6, <1>s DEF Inv
  <1> QED
    BY <1>1, <1>2

\* Pushing an owned block keeps the blocks conserved.
LEMMA PushConserved ==
    ASSUME Types, OneState, NEW b \in owned,
           pile' = Append(pile, b), owned' = owned \ {b}, lost' = lost
    PROVE  /\ OneState'
           /\ b \in DataBlocks
           /\ pile' \in Seq(DataBlocks)
           /\ Len(pile') = Len(pile) + 1
           /\ pile'[Len(pile) + 1] = b
           /\ \A i \in 1..Len(pile) : pile'[i] = pile[i]
           /\ Len(pile) \in Nat
  <1>1. b \in DataBlocks /\ pile \in Seq(DataBlocks) /\ Len(pile) \in Nat
    BY DEF Types
  <1>2. /\ pile' \in Seq(DataBlocks)
        /\ Len(pile') = Len(pile) + 1
        /\ pile'[Len(pile) + 1] = b
        /\ \A i \in 1..Len(pile) : pile'[i] = pile[i]
    BY <1>1, PushFacts
  <1>3. \A i \in 1..Len(pile) : pile[i] # b
    BY DEF OneState
  <1>4. \A i, j \in 1..Len(pile') : pile'[i] = pile'[j] => i = j
    BY <1>1, <1>2, <1>3 DEF OneState
  <1>5. \A i \in 1..Len(pile') : pile'[i] \notin owned' \union lost'
    BY <1>1, <1>2 DEF OneState
  <1>6. owned' \intersect lost' = {}
    BY DEF OneState
  <1>7. ASSUME NEW c \in DataBlocks \ (owned' \union lost')
        PROVE  \E i \in 1..Len(pile') : pile'[i] = c
    <2>1. CASE c = b
      BY <2>1, <1>1, <1>2
    <2>2. CASE c # b
      <3>1. PICK i \in 1..Len(pile) : pile[i] = c
        BY <2>2 DEF OneState
      <3>2. i \in 1..Len(pile') /\ pile'[i] = c
        BY <3>1, <1>1, <1>2
      <3> QED
        BY <3>2
    <2> QED
      BY <2>1, <2>2
  <1> QED
    BY <1>1, <1>2, <1>4, <1>5, <1>6, <1>7 DEF OneState

\* What a free finds in the array when the tail array is not loaded: a link in
\* the last slot, at a positive height.
LEMMA LinkLoaded ==
    ASSUME Types, ListInOrder, ~TailListLoaded
    PROVE  \E k \in 1..Len(pile) :
              /\ Height(k) \in Int /\ Height(k) >= 1
              /\ Height(k) <= Len(pile)
              /\ Len(pile) < Height(k) + ListSize
              /\ disk[FREE_LIST_BLOCK] = ListFrom(pile, Height(k) + ListSize - 1)
  <1>1. PICK k \in 0..Len(pile) :
          /\ Height(k) <= Len(pile)
          /\ Len(pile) < Height(k) + ListSize
          /\ disk[FREE_LIST_BLOCK] = ListFrom(pile, Height(k) + ListSize - 1)
    BY DEF ListInOrder
  <1>2. k \in Int /\ k \in Nat /\ pile \in Seq(DataBlocks) /\ Len(pile) \in Nat
    BY DEF Types
  <1>3. Height(k) \in Int
    BY <1>2, HeightStep
  <1>4. At(pile, Height(k)) # 0
    <2>1. ListSize - 1 \in Slots
      BY SizesAssumption DEF Slots
    <2>2. (Height(k) + ListSize - 1) - (ListSize - 1) = Height(k)
      BY <1>3, SizesAssumption
    <2>3. disk[FREE_LIST_BLOCK][ListSize - 1] # 0
      BY DEF TailListLoaded
    <2> QED
      BY <1>1, <2>1, <2>2, <2>3 DEF ListFrom
  <1>5. Height(k) >= 1
    BY <1>2, <1>3, <1>4, AtFacts
  <1>6. k # 0
    BY <1>5, <1>3, HeightStep
  <1>7. k \in 1..Len(pile)
    BY <1>2, <1>6
  <1> QED
    BY <1>1, <1>3, <1>5, <1>7

\* The slot a free fills is the one just before the first that lists a block.
LEMMA LastFreeSlotIsNext ==
    ASSUME NEW p \in Seq(DataBlocks), NEW h \in Int,
           h >= 1, h <= Len(p), Len(p) < h + ListSize - 1
    PROVE  LET q == h + ListSize - 1
           IN  /\ q - Len(p) - 1 \in Slots
               /\ lastFreeSlot(ListFrom(p, q)) = q - Len(p) - 1
  <1> DEFINE q == h + ListSize - 1
             c == q - Len(p) - 1
             P(i) == ListFrom(p, q)[i] = 0 /\ \A j \in Slots : j > i => ListFrom(p, q)[j] # 0
  <1>q. q \in Int /\ Len(p) \in Nat /\ ListSize \in Nat
    BY SizesAssumption
  <1>1. c \in Slots
    BY <1>q DEF Slots
  <1>2. ListFrom(p, q)[c] = 0
    <2>1. q - c = Len(p) + 1 /\ q - c \in Int
      BY <1>q
    <2>2. At(p, q - c) = 0
      BY <2>1, <1>q, AtFacts
    <2> QED
      BY <1>1, <2>2 DEF ListFrom
  <1>3. ASSUME NEW j \in Slots, j > c
        PROVE  ListFrom(p, q)[j] # 0
    <2>1. q - j \in Int /\ q - j >= 1 /\ q - j <= Len(p)
      BY <1>3, <1>q DEF Slots
    <2>2. At(p, q - j) # 0
      BY <2>1, AtFacts
    <2> QED
      BY <2>2 DEF ListFrom
  <1>4. P(c)
    BY <1>2, <1>3
  <1>5. ASSUME NEW i \in Slots, P(i)
        PROVE  i = c
    <2>1. ~(i > c)
      BY <1>3, <1>5
    <2>2. ~(c > i)
      BY <1>1, <1>2, <1>5
    <2> HIDE DEF c, q
    <2> QED
      BY <2>1, <2>2, <1>1 DEF Slots
  <1>6. (CHOOSE i \in Slots : P(i)) = c
    <2> HIDE DEF c, P
    <2> QED
      BY <1>1, <1>4, <1>5
  <1> QED
    BY <1>1, <1>6 DEF lastFreeSlot

\* A free into a slot of the array keeps the invariant.
LEMMA SlotInv ==
    ASSUME Backed, Inv, ~TailListLoaded, NEW b \in DataBlocks, FreeIntoSlot(b)
    PROVE  Inv'
  <1> DEFINE list == disk[FREE_LIST_BLOCK]
             n    == Len(pile)
  <1>i. Types /\ ListInOrder /\ OneState /\ CopyComplete
    BY DEF Inv
  <1>v. /\ b \in owned /\ list[0] = 0
        /\ pending = 0 /\ pending' = 0 /\ lost' = lost /\ ret' = ret
        /\ pile' = Append(pile, b) /\ owned' = owned \ {b}
        /\ disk' = writeDiskBlock(FREE_LIST_BLOCK, [list EXCEPT ![lastFreeSlot(list)] = b])
    BY DEF FreeIntoSlot
  <1>t. pile \in Seq(DataBlocks) /\ n \in Nat /\ disk \in [Blocks -> Lists \union {Data}]
        /\ list \in Lists
    BY <1>i DEF Types
  <1>p. /\ OneState'
        /\ pile' \in Seq(DataBlocks)
        /\ Len(pile') = n + 1
        /\ pile'[n + 1] = b
        /\ \A i \in 1..n : pile'[i] = pile[i]
    BY <1>i, <1>v, PushConserved
  <1>k. PICK k \in 1..n :
          /\ Height(k) \in Int /\ Height(k) >= 1
          /\ Height(k) <= n
          /\ n < Height(k) + ListSize
          /\ list = ListFrom(pile, Height(k) + ListSize - 1)
    BY <1>i, LinkLoaded
  <1> DEFINE h == Height(k)
             q == h + ListSize - 1
             c == q - n - 1
  <1>1. n < q
    <2>1. 0 \in Slots /\ q - 0 = q /\ q \in Int /\ q >= 1
      BY <1>k, SizesAssumption DEF Slots
    <2>2. At(pile, q) = 0
      BY <2>1, <1>v, <1>k DEF ListFrom
    <2> HIDE DEF q
    <2> QED
      BY <2>1, <2>2, <1>t, AtFacts
  <1>2. c \in Slots /\ lastFreeSlot(list) = c
    <2> HIDE DEF n
    <2>1. h \in Int /\ h >= 1 /\ h <= Len(pile) /\ Len(pile) < h + ListSize - 1
      BY <1>1, <1>k DEF n
    <2> HIDE DEF h
    <2> QED
      BY <2>1, <1>t, <1>k, LastFreeSlotIsNext DEF n, h
  <1>3. [list EXCEPT ![c] = b] = ListFrom(pile', q)
    <2>1. ASSUME NEW i \in Slots
          PROVE  [list EXCEPT ![c] = b][i] = At(pile', q - i)
      <3>q. q - i \in Int /\ i \in Int /\ q \in Int /\ c \in Int /\ list[i] = At(pile, q - i)
        BY <1>k, <1>2, SizesAssumption DEF Slots, ListFrom
      <3>1. CASE i = c
        <4>1. q - i = n + 1
          BY <3>1, <3>q, <1>t
        <4>2. At(pile', n + 1) = b
          BY <1>p, <1>t DEF At
        <4>3. [list EXCEPT ![c] = b][i] = b
          BY <3>1, <1>2, <1>t DEF Lists
        <4> QED
          BY <4>1, <4>2, <4>3
      <3>2. CASE i # c
        <4>1. q - i # n + 1
          BY <3>2, <3>q, <1>t
        <4>2. At(pile', q - i) = At(pile, q - i)
          BY <4>1, <3>q, <1>p, <1>t DEF At
        <4>3. [list EXCEPT ![c] = b][i] = list[i]
          BY <3>2, <1>2, <1>t DEF Lists
        <4> QED
          BY <4>2, <4>3, <3>q
      <3> QED
        BY <3>1, <3>2
    <2>2. [list EXCEPT ![c] = b] = [i \in Slots |-> [list EXCEPT ![c] = b][i]]
      BY <1>t DEF Lists
    <2> QED
      BY <2>1, <2>2 DEF ListFrom
  <1>4. disk' = [disk EXCEPT ![FREE_LIST_BLOCK] = ListFrom(pile', q)]
    BY <1>2, <1>3, <1>v, Sizes, BackedAccess
  <1>5. /\ disk'[FREE_LIST_BLOCK] = ListFrom(pile', q)
        /\ disk'[FREE_LIST_BLOCK] \in Lists
        /\ \A x \in Blocks \ {FREE_LIST_BLOCK} : disk'[x] = disk[x]
        /\ disk' \in [Blocks -> Lists \union {Data}]
    <2>1. q \in Int
      BY <1>k, SizesAssumption
    <2> HIDE DEF q
    <2>2. ListFrom(pile', q) \in Lists
      BY <2>1, <1>p, ListFromType
    <2> QED
      BY <2>2, <1>4, <1>t, Sizes
  <1>6. Types'
    BY <1>5, <1>p, <1>v, <1>i DEF Types
  <1>7. CopyComplete'
    BY <1>v DEF CopyComplete
  <1>8. ListInOrder'
    <2>1. k \in 0..Len(pile') /\ h <= Len(pile') /\ Len(pile') < h + ListSize
      BY <1>k, <1>p, <1>1, <1>t, SizesAssumption
    <2>2. ASSUME NEW j \in 1..Len(pile'), Height(j) <= Len(pile')
          PROVE  disk'[pile'[Height(j)]] = ListFrom(pile', Height(j) - 1)
      <3>1. j \in Nat /\ j \in Int /\ j >= 1 /\ k \in Int
        BY <1>p, <1>t
      <3>2. Height(j) \in Int
        BY <3>1, HeightStep
      <3>3. Height(j) >= j
        BY <3>1, HeightAtLeast
      <3>4. Height(j) # n + 1
        <4>1. j < k => Height(j) + ListSize <= h
          BY <3>1, HeightApart
        <4>2. k < j => h + ListSize <= Height(j)
          BY <3>1, HeightApart
        <4> QED
          BY <4>1, <4>2, <3>1, <3>2, <1>k, <1>1, <1>t, SizesAssumption
      <3>5. Height(j) \in 1..n /\ j \in 1..n
        BY <3>1, <3>2, <3>3, <3>4, <2>2, <1>p, <1>t
      <3>6. pile'[Height(j)] = pile[Height(j)] /\ pile[Height(j)] \in DataBlocks
        BY <3>5, <1>p, <1>t
      <3>7. disk'[pile[Height(j)]] = disk[pile[Height(j)]]
        BY <3>6, <1>5, Sizes
      <3>8. disk[pile[Height(j)]] = ListFrom(pile, Height(j) - 1)
        BY <3>5, <1>i DEF ListInOrder
      <3>9. ListFrom(pile', Height(j) - 1) = ListFrom(pile, Height(j) - 1)
        <4>1. Height(j) - 1 \in Int /\ Height(j) - 1 <= Len(pile)
          BY <3>2, <3>5, <1>t
        <4> QED
          BY <4>1, <1>t, <1>v, ListFromPush
      <3> QED
        BY <3>6, <3>7, <3>8, <3>9
    <2> QED
      BY <2>1, <2>2, <1>5 DEF ListInOrder
  <1> QED
    BY <1>6, <1>7, <1>8, <1>p DEF Inv

\* Writing into an owned block, which is on no list, disturbs no array.
LEMMA OwnedWrite ==
    ASSUME Backed, Types, ListInOrder, OneState, NEW b \in owned,
           NEW c \in Lists \union {Data},
           disk' = writeDiskBlock(b, c), pile' = pile
    PROVE  /\ ListInOrder'
           /\ disk' \in [Blocks -> Lists \union {Data}]
           /\ disk'[FREE_LIST_BLOCK] = disk[FREE_LIST_BLOCK]
           /\ disk'[b] = c
  <1>1. b \in Blocks /\ b # FREE_LIST_BLOCK
    BY Sizes DEF Types
  <1>2. disk' = [disk EXCEPT ![b] = c]
    BY <1>1, BackedAccess
  <1>3. /\ disk' \in [Blocks -> Lists \union {Data}]
        /\ disk'[FREE_LIST_BLOCK] = disk[FREE_LIST_BLOCK]
        /\ disk'[b] = c
        /\ \A x \in Blocks \ {b} : disk'[x] = disk[x]
    BY <1>1, <1>2, Sizes DEF Types
  <1>4. ASSUME NEW k \in 1..Len(pile), Height(k) <= Len(pile)
        PROVE  disk'[pile[Height(k)]] = ListFrom(pile, Height(k) - 1)
    <2>1. k \in Nat /\ k \in Int /\ k >= 1 /\ Len(pile) \in Nat /\ pile \in Seq(DataBlocks)
      BY DEF Types
    <2>2. Height(k) \in Int
      BY <2>1, HeightStep
    <2>3. Height(k) >= k
      BY <2>1, HeightAtLeast
    <2>4. Height(k) \in 1..Len(pile)
      BY <1>4, <2>1, <2>2, <2>3
    <2>5. pile[Height(k)] \in Blocks /\ pile[Height(k)] # b
      BY <2>1, <2>4, Sizes DEF OneState
    <2> QED
      BY <2>5, <1>3, <1>4 DEF ListInOrder
  <1> QED
    BY <1>3, <1>4 DEF ListInOrder

\* Spilling the full array into the block being freed keeps the invariant.
LEMMA SpillInv ==
    ASSUME Backed, Inv, NEW b \in DataBlocks, FreeSpill(b)
    PROVE  Inv'
  <1> DEFINE list == disk[FREE_LIST_BLOCK]
  <1>i. Types /\ ListInOrder /\ OneState /\ CopyComplete
    BY DEF Inv
  <1>v. /\ b \in owned /\ list[0] # 0
        /\ pending' = b /\ lost' = lost /\ ret' = ret /\ pile' = pile /\ owned' = owned
        /\ disk' = writeDiskBlock(b, list)
    BY DEF FreeSpill
  <1>t. pile \in Seq(DataBlocks) /\ Len(pile) \in Nat /\ list \in Lists
    BY <1>i DEF Types
  <1>1. /\ ListInOrder'
        /\ disk' \in [Blocks -> Lists \union {Data}]
        /\ disk'[FREE_LIST_BLOCK] = list
        /\ disk'[b] = list
    BY <1>i, <1>v, <1>t, OwnedWrite
  <1>2. Types'
    BY <1>1, <1>t, <1>v, <1>i DEF Types
  <1>3. OneState'
    BY <1>i, <1>v DEF OneState
  <1>4. CopyComplete'
    BY <1>1, <1>v DEF CopyComplete
  <1> QED
    BY <1>1, <1>2, <1>3, <1>4 DEF Inv

\* Listing the block that holds the spilled array keeps the invariant.
LEMMA CommitInv ==
    ASSUME Backed, Inv, FreeCommit
    PROVE  Inv'
  <1> DEFINE list == disk[FREE_LIST_BLOCK]
             n    == Len(pile)
             b    == pending
  <1>i. Types /\ ListInOrder /\ OneState /\ CopyComplete
    BY DEF Inv
  <1>v. /\ pending # 0 /\ pending' = 0 /\ lost' = lost /\ ret' = ret
        /\ pile' = Append(pile, b) /\ owned' = owned \ {b}
        /\ disk' = writeDiskBlock(FREE_LIST_BLOCK, linkOnlyList(b))
    BY DEF FreeCommit
  <1>s. b \in owned /\ disk[b] = list /\ list[0] # 0
    BY <1>i, <1>v DEF CopyComplete
  <1>t. pile \in Seq(DataBlocks) /\ n \in Nat /\ disk \in [Blocks -> Lists \union {Data}]
    BY <1>i DEF Types
  <1>p. /\ OneState'
        /\ b \in DataBlocks
        /\ pile' \in Seq(DataBlocks)
        /\ Len(pile') = n + 1
        /\ pile'[n + 1] = b
        /\ \A i \in 1..n : pile'[i] = pile[i]
    BY <1>i, <1>s, <1>v, PushConserved
  <1>k. PICK k \in 0..n :
          /\ Height(k) \in Int
          /\ Height(k) <= n
          /\ n < Height(k) + ListSize
          /\ list = ListFrom(pile, Height(k) + ListSize - 1)
    BY <1>i, <1>t, HeightStep DEF ListInOrder
  <1> DEFINE h == Height(k)
  <1>1. n = h + ListSize - 1
    <2> DEFINE q == h + ListSize - 1
    <2>1. 0 \in Slots /\ q - 0 = q /\ q \in Int
      BY <1>k, SizesAssumption DEF Slots
    <2>2. At(pile, q) # 0
      BY <2>1, <1>s, <1>k DEF ListFrom
    <2>3. q <= n
      <3> HIDE DEF q
      <3> QED
        BY <2>1, <2>2, <1>t, AtFacts
    <2> QED
      BY <2>3, <1>k, <1>t, SizesAssumption
  <1>2. k + 1 \in 0..Len(pile') /\ Height(k + 1) = h + ListSize /\ Height(k + 1) = n + 1
    <2>1. k \in Int
      BY <1>t
    <2>2. Height(k + 1) = h + ListSize
      BY <2>1, HeightStep
    <2> QED
      BY <2>1, <2>2, <1>1, <1>p, <1>k, <1>t, SizesAssumption
  <1>3. linkOnlyList(b) = ListFrom(pile', n + ListSize)
    <2>1. ASSUME NEW i \in Slots
          PROVE  (IF i = ListSize - 1 THEN b ELSE 0) = At(pile', (n + ListSize) - i)
      <3>q. i \in Int /\ i <= ListSize - 1 /\ (n + ListSize) - i \in Int
        BY <1>t, SizesAssumption DEF Slots
      <3>1. CASE i = ListSize - 1
        <4>1. (n + ListSize) - i = n + 1
          BY <3>1, <1>t, SizesAssumption
        <4> QED
          BY <3>1, <4>1, <1>p, <1>t DEF At
      <3>2. CASE i # ListSize - 1
        <4>1. (n + ListSize) - i > n + 1
          BY <3>2, <3>q, <1>t, SizesAssumption
        <4> QED
          BY <3>2, <4>1, <3>q, <1>p, <1>t DEF At
      <3> QED
        BY <3>1, <3>2
    <2> QED
      BY <2>1 DEF linkOnlyList, ListFrom
  <1>4. /\ disk'[FREE_LIST_BLOCK] = ListFrom(pile', n + ListSize)
        /\ disk'[FREE_LIST_BLOCK] \in Lists
        /\ \A x \in Blocks \ {FREE_LIST_BLOCK} : disk'[x] = disk[x]
        /\ disk' \in [Blocks -> Lists \union {Data}]
    <2>1. disk' = [disk EXCEPT ![FREE_LIST_BLOCK] = ListFrom(pile', n + ListSize)]
      BY <1>3, <1>v, Sizes, BackedAccess
    <2>2. n + ListSize \in Int
      BY <1>t, SizesAssumption
    <2>3. ListFrom(pile', n + ListSize) \in Lists
      BY <2>2, <1>p, ListFromType
    <2> QED
      BY <2>1, <2>3, <1>t, Sizes
  <1>5. Types'
    BY <1>4, <1>p, <1>v, <1>i DEF Types
  <1>6. CopyComplete'
    BY <1>v DEF CopyComplete
  <1>7. ListInOrder'
    <2>1. /\ Height(k + 1) <= Len(pile')
          /\ Len(pile') < Height(k + 1) + ListSize
          /\ disk'[FREE_LIST_BLOCK] = ListFrom(pile', Height(k + 1) + ListSize - 1)
      <3>1. Height(k + 1) + ListSize - 1 = n + ListSize
        BY <1>2, <1>t, SizesAssumption
      <3> QED
        BY <3>1, <1>2, <1>4, <1>p, <1>t, SizesAssumption
    <2>2. ASSUME NEW j \in 1..Len(pile'), Height(j) <= Len(pile')
          PROVE  disk'[pile'[Height(j)]] = ListFrom(pile', Height(j) - 1)
      <3>1. j \in Nat /\ j \in Int /\ j >= 1 /\ k \in Int
        BY <1>p, <1>t
      <3>2. Height(j) \in Int
        BY <3>1, HeightStep
      <3>3. Height(j) >= j
        BY <3>1, HeightAtLeast
      <3>4. ListFrom(pile', Height(j) - 1) = ListFrom(pile, Height(j) - 1)
        <4>1. Height(j) - 1 \in Int /\ Height(j) - 1 <= Len(pile)
          BY <3>2, <2>2, <1>p, <1>t
        <4> QED
          BY <4>1, <1>t, <1>p, <1>v, ListFromPush
      <3>5. CASE Height(j) = n + 1
        <4>1. disk'[pile'[Height(j)]] = list
          BY <3>5, <1>p, <1>4, <1>s, Sizes
        <4>2. Height(j) - 1 = h + ListSize - 1
          BY <3>5, <1>1, <1>t
        <4> QED
          BY <4>1, <4>2, <3>4, <1>k
      <3>6. CASE Height(j) # n + 1
        <4>1. Height(j) \in 1..n /\ j \in 1..n
          BY <3>1, <3>2, <3>3, <3>6, <2>2, <1>p, <1>t
        <4>2. pile'[Height(j)] = pile[Height(j)] /\ pile[Height(j)] \in DataBlocks
          BY <4>1, <1>p, <1>t
        <4>3. disk'[pile[Height(j)]] = disk[pile[Height(j)]]
          BY <4>2, <1>4, Sizes
        <4>4. disk[pile[Height(j)]] = ListFrom(pile, Height(j) - 1)
          BY <4>1, <1>i DEF ListInOrder
        <4> QED
          BY <4>2, <4>3, <4>4, <3>4
      <3> QED
        BY <3>5, <3>6
    <2> QED
      BY <2>1, <2>2, <1>2 DEF ListInOrder
  <1> QED
    BY <1>5, <1>6, <1>7, <1>p DEF Inv

\* An owner's write and a crash keep the invariant.
LEMMA OtherInv ==
    ASSUME Backed, Inv, (\E b \in DataBlocks : WriteData(b)) \/ Crash \/ UNCHANGED vars
    PROVE  Inv'
  <1>i. Types /\ ListInOrder /\ OneState /\ CopyComplete
    BY DEF Inv
  <1>1. ASSUME NEW b \in DataBlocks, WriteData(b)
        PROVE  Inv'
    <2>v. /\ b \in owned /\ disk' = writeDiskBlock(b, Data) /\ pending' = 0
          /\ pile' = pile /\ owned' = owned /\ lost' = lost /\ ret' = ret
      BY <1>1 DEF WriteData
    <2>1. /\ ListInOrder'
          /\ disk' \in [Blocks -> Lists \union {Data}]
          /\ disk'[FREE_LIST_BLOCK] = disk[FREE_LIST_BLOCK]
      BY <1>i, <2>v, OwnedWrite
    <2>2. Types' /\ CopyComplete' /\ OneState'
      BY <2>1, <2>v, <1>i DEF Types, CopyComplete, OneState
    <2> QED
      BY <2>1, <2>2 DEF Inv
  <1>2. CASE Crash
    <2>v. /\ pending # 0 /\ pending' = 0 /\ owned' = owned \ {pending}
          /\ lost' = lost \union {pending} /\ disk' = disk /\ pile' = pile /\ ret' = ret
      BY <1>2 DEF Crash
    <2>1. pending \in owned
      BY <2>v, <1>i DEF CopyComplete
    <2>2. Types'
      BY <2>v, <2>1, <1>i DEF Types
    <2>3. ListInOrder'
      BY <2>v, <1>i DEF ListInOrder
    <2>4. OneState'
      BY <2>v, <2>1, <1>i DEF OneState
    <2>5. CopyComplete'
      BY <2>v DEF CopyComplete
    <2> QED
      BY <2>2, <2>3, <2>4, <2>5 DEF Inv
  <1>3. CASE UNCHANGED vars
    BY <1>3 DEF Inv, Types, ListInOrder, OneState, CopyComplete, vars
  <1> QED
    BY <1>1, <1>2, <1>3

\* The tail array is loaded only when no block is free but those mkfs put there.
LEMMA TailLoaded ==
    ASSUME Types, ListInOrder, TailListLoaded
    PROVE  Len(pile) <= TailSize
  <1>1. PICK k \in 0..Len(pile) :
          /\ Height(k) <= Len(pile)
          /\ Len(pile) < Height(k) + ListSize
          /\ disk[FREE_LIST_BLOCK] = ListFrom(pile, Height(k) + ListSize - 1)
    BY DEF ListInOrder
  <1>2. k \in Int /\ k >= 0 /\ pile \in Seq(DataBlocks) /\ Len(pile) \in Nat
    BY DEF Types
  <1>3. Height(k) \in Int
    BY <1>2, HeightStep
  <1>4. At(pile, Height(k)) = 0
    <2>1. ListSize - 1 \in Slots
      BY SizesAssumption DEF Slots
    <2>2. (Height(k) + ListSize - 1) - (ListSize - 1) = Height(k)
      BY <1>3, SizesAssumption
    <2>3. disk[FREE_LIST_BLOCK][ListSize - 1] = 0
      BY DEF TailListLoaded
    <2> QED
      BY <1>1, <2>1, <2>2, <2>3 DEF ListFrom
  <1>5. ~(Height(k) >= 1)
    BY <1>1, <1>2, <1>3, <1>4, AtFacts
  <1>6. k = 0
    BY <1>2, <1>3, <1>5, HeightAtLeast
  <1>7. Height(0) = TailSize + 1 - ListSize
    BY SizesAssumption DEF Height
  <1> QED
    BY <1>1, <1>2, <1>6, <1>7, SizesAssumption

\* Every step keeps the invariant, and no step takes a misfiling back.
LEMMA StepInv ==
    ASSUME Backed, UntilMisfiled, [Next]_vars
    PROVE  UntilMisfiled'
  <1> SUFFICES ASSUME link' = 0 PROVE Inv'
    BY DEF UntilMisfiled
  <1>1. ASSUME NEW b \in DataBlocks, FreeIntoSlot(b)
        PROVE  link = 0 /\ ~TailListLoaded
    BY <1>1, Sizes DEF FreeIntoSlot
  <1>2. link = 0
    BY <1>1 DEF Next, blockAlloc, FreeSpill, FreeCommit, WriteData, Crash, vars, misfiling
  <1>3. Inv
    BY <1>2 DEF UntilMisfiled
  <1>4. CASE blockAlloc
    BY <1>3, <1>4, AllocInv
  <1>5. ASSUME NEW b \in DataBlocks, FreeIntoSlot(b)
        PROVE  Inv'
    BY <1>1, <1>3, <1>5, SlotInv
  <1>6. ASSUME NEW b \in DataBlocks, FreeSpill(b)
        PROVE  Inv'
    BY <1>3, <1>6, SpillInv
  <1>7. CASE FreeCommit
    BY <1>3, <1>7, CommitInv
  <1>8. CASE (\E b \in DataBlocks : WriteData(b)) \/ Crash \/ UNCHANGED vars
    BY <1>3, <1>8, OtherInv
  <1> QED
    BY <1>4, <1>5, <1>6, <1>7, <1>8 DEF Next

-----------------------------------------------------------------------------
(* The theorems.                                                           *)

\* The invariant holds in every state.
LEMMA InvAlways ==
    ASSUME Backed
    PROVE  Spec => []UntilMisfiled
  <1>1. Init => UntilMisfiled
    BY InitInv DEF UntilMisfiled
  <1>2. UntilMisfiled /\ [Next]_vars => UntilMisfiled'
    BY StepInv
  <1> QED
    BY <1>1, <1>2, PTL DEF Spec

\* On a medium that has every block, the variables keep their types: whatever
\* the owners write into their blocks, blockAlloc and blockFree leave an array
\* of addresses in FREE_LIST_BLOCK, until a block is freed into the link slot
\* of the tail array.
THEOREM TypeCorrect ==
    ASSUME Backed
    PROVE  Spec => []TypeOK
  <1>1. UntilMisfiled => TypeOK
    BY DEF UntilMisfiled, Inv, TypeOK
  <1> QED
    BY <1>1, InvAlways, PTL

\* On a medium that has every block, the chain of arrays on the disk
\* lists exactly the free blocks, in the order they will be handed out:
\* blockAlloc and blockFree keep the list well formed, until a block is freed
\* into the link slot of the tail array.
THEOREM ListCorrect ==
    ASSUME Backed
    PROVE  Spec => []Represents
  <1>1. UntilMisfiled => Represents
    BY DEF UntilMisfiled, Inv, Represents
  <1> QED
    BY <1>1, InvAlways, PTL

\* On a medium that has every block, blockAlloc and blockFree list no block
\* twice or while it is owned, and lose none but in a crash inside a spill,
\* until a block is freed into the link slot of the tail array.
THEOREM BlocksConserved ==
    ASSUME Backed
    PROVE  Spec => []Conserved
  <1>1. UntilMisfiled => Conserved
    BY DEF UntilMisfiled, Inv, Conserved
  <1> QED
    BY <1>1, InvAlways, PTL

\* On a medium that has every block, a crash between the two writes of a
\* blockFree that spills costs one block and no list; with the same proviso.
THEOREM SpillsAreSafe ==
    ASSUME Backed
    PROVE  Spec => []SpillSafe
  <1>1. UntilMisfiled => SpillSafe
    BY DEF UntilMisfiled, Inv, SpillSafe
  <1> QED
    BY <1>1, InvAlways, PTL

\* On a medium that has every block, the allocator is a stack of blocks:
\* blockAlloc returns the block freed last, and 0 only when none is free; and a
\* blockFree can break it only with no more blocks free than mkfs put into the
\* tail array.
THEOREM ImplementsStack ==
    ASSUME Backed
    PROVE  Spec => RefinesStack
  <1>1. Init => Stack!Init
    <2> SUFFICES ASSUME Init PROVE Stack!Init
      OBVIOUS
    <2>1. Types /\ OneState
      BY InitInv DEF Inv
    <2>2. owned = {} /\ lost = {} /\ ret = 0 /\ (link # 0) = FALSE
      BY DEF Init
    <2> QED
      BY <2>1, <2>2 DEF Types, OneState, Stack!Init
  <1>2. UntilMisfiled /\ [Next]_vars => [Stack!Next]_(Stack!vars)
    <2> SUFFICES ASSUME UntilMisfiled, [Next]_vars PROVE [Stack!Next]_(Stack!vars)
      OBVIOUS
    <2>b. CASE link # 0
      <3>1. link' # 0
        BY <2>b, Sizes DEF Next, blockAlloc, FreeIntoSlot, FreeSpill, FreeCommit, WriteData,
                           Crash, vars, misfiling
      <3>2. (link # 0) /\ (link' # 0)
        BY <2>b, <3>1
      <3> QED
        BY <3>2 DEF Stack!Next, Stack!Broken
    <2>0. CASE link = 0
      <3>i. Types /\ ListInOrder /\ OneState /\ CopyComplete
        BY <2>0 DEF UntilMisfiled, Inv
      <3>1. CASE blockAlloc
        <4>1. /\ pile # << >> => ret' = pile[Len(pile)]
              /\ pile = << >> => ret' = 0
          BY <3>1, <3>i, AllocEffect
        <4>2. /\ lost' = lost
              /\ owned' = IF ret' = 0 THEN owned ELSE owned \union {ret'}
              /\ pile' = IF pile = << >> THEN pile ELSE SubSeq(pile, 1, Len(pile) - 1)
              /\ (link' # 0) = (link # 0)
          BY <3>1 DEF blockAlloc
        <4>3. CASE pile = << >>
          BY <4>1, <4>2, <4>3 DEF Stack!Next, Stack!Exhausted
        <4>4. CASE pile # << >>
          <5>1. pile \in Seq(DataBlocks) /\ Len(pile) \in Nat /\ Len(pile) >= 1
            BY <3>i, <4>4, EmptySeq DEF Types
          <5>2. pile[Len(pile)] # 0
            BY <5>1, Sizes
          <5> QED
            BY <4>1, <4>2, <4>4, <5>2 DEF Stack!Next, Stack!Alloc
        <4> QED
          BY <4>3, <4>4
      <3>2. ASSUME NEW b \in DataBlocks, FreeIntoSlot(b)
            PROVE  Stack!Free(b)
        <4>1. CASE TailListLoaded
          <5>1. Len(pile) <= TailSize
            BY <4>1, <3>i, TailLoaded
          <5>2. link' # 0
            BY <2>0, <3>2, <4>1, Sizes DEF FreeIntoSlot
          <5> QED
            BY <3>2, <5>1, <5>2 DEF FreeIntoSlot, Stack!Free
        <4>2. CASE ~TailListLoaded
          <5>1. (link' # 0) = (link # 0)
            BY <3>2, <4>2 DEF FreeIntoSlot
          <5> QED
            BY <3>2, <5>1 DEF FreeIntoSlot, Stack!Free
        <4> QED
          BY <4>1, <4>2
      <3>3. ASSUME NEW b \in DataBlocks, FreeSpill(b) \/ WriteData(b)
            PROVE  UNCHANGED Stack!vars
        BY <3>3 DEF FreeSpill, WriteData, Stack!vars, misfiling
      <3>4. CASE FreeCommit
        <4>1. pending \in owned /\ pending \in DataBlocks /\ (link' # 0) = (link # 0)
          BY <3>4, <3>i DEF FreeCommit, CopyComplete, Types, misfiling
        <4>2. Stack!Free(pending)
          BY <3>4, <4>1 DEF FreeCommit, Stack!Free
        <4> QED
          BY <4>1, <4>2 DEF Stack!Next
      <3>5. CASE Crash
        <4>1. pending \in owned /\ pending \in DataBlocks /\ (link' # 0) = (link # 0)
          BY <3>5, <3>i DEF Crash, CopyComplete, Types, misfiling
        <4>2. Stack!Lose(pending)
          BY <3>5, <4>1 DEF Crash, Stack!Lose
        <4> QED
          BY <4>1, <4>2 DEF Stack!Next
      <3>6. CASE UNCHANGED vars
        BY <3>6 DEF vars, Stack!vars, misfiling
      <3> QED
        BY <3>1, <3>2, <3>3, <3>4, <3>5, <3>6 DEF Next, Stack!Next
    <2> QED
      BY <2>b, <2>0
  <1>3. Spec => []UntilMisfiled
    BY InvAlways
  <1> QED
    BY <1>1, <1>2, <1>3, PTL DEF Spec, RefinesStack, Stack!Spec
=============================================================================
