------------------------- MODULE BlockThreadsProofs -------------------------
(***************************************************************************)
(* Threads that allocate and free at the same time keep the free block     *)
(* list intact, for every number of threads and every size of the disk,    *)
(* until a free lists a block again or misfiles one.  The lemmas on the    *)
(* list are those of FreeBlockListProofs.                                  *)
(***************************************************************************)
EXTENDS BlockThreads, FreeBlockListProofs

Places == {"idle", "taking", "storing", "freeing", "spilled"}

ThreadsType ==
    /\ pc \in [Threads -> Places]
    /\ list \in [Threads -> Lists]
    /\ block \in [Threads -> DataBlocks \union {0}]
    /\ mine \in [Threads -> Seq(DataBlocks)]

\* Each mutex has one holder.
OneEach ==
    /\ \A t, u \in Allocating : t = u
    /\ \A t, u \in Freeing : t = u

\* A pile is the lower part of another.
Below(p, q) == Len(p) <= Len(q) /\ \A i \in 1..Len(p) : p[i] = q[i]

\* What blockAlloc leaves of a pile.
Popped(p) == IF p = << >> THEN << >> ELSE SubSeq(p, 1, Len(p) - 1)
TopOf(p)  == IF p = << >> THEN 0 ELSE p[Len(p)]

\* What a thread in blockAlloc has read may be out of date by the blocks freed
\* since, but is still the lower part of the list; what it is about to write is
\* that part without the block it has chosen.
AllocView(t) ==
    /\ pc[t] \in {"idle", "taking"} => block[t] = 0
    /\ pc[t] \in {"taking", "storing"} => Below(mine[t], pile)
    /\ pc[t] = "taking" => Loaded(list[t], mine[t])
    /\ pc[t] = "storing" => block[t] = TopOf(mine[t]) /\ Loaded(list[t], Popped(mine[t]))

\* What a thread in blockFree has read may be out of date by the blocks taken
\* since: the list is the lower part of it.  If none was taken it is up to date,
\* and so is the copy it made of a full array.
FreeView(t) ==
    /\ pc[t] \in {"freeing", "spilled"} =>
          /\ block[t] \in owned
          /\ Below(pile, mine[t])
          /\ \A i, j \in 1..Len(mine[t]) : mine[t][i] = mine[t][j] => i = j
    /\ pc[t] = "freeing" => /\ pending = 0
                            /\ mine[t] = pile => list[t] = disk[FREE_LIST_BLOCK]
    /\ pc[t] = "spilled" => /\ pending = block[t] /\ list[t] = linkOnlyList(block[t])
                            /\ mine[t] = pile => /\ disk[block[t]] = disk[FREE_LIST_BLOCK]
                                                 /\ disk[FREE_LIST_BLOCK][0] # 0

\* The list is that of the pile.  CopyComplete is not part of it: a copy may be
\* out of date.
ListInv == Types /\ ListInOrder /\ OneState

\* The inductive invariant: that of the list, and what the threads know of it,
\* until a free lists a block again or misfiles one.
ThreadsInv ==
    /\ ListInv
    /\ ThreadsType
    /\ OneEach
    /\ \A t \in Threads : AllocView(t)
    /\ \A t \in Threads : FreeView(t)
    /\ Freeing = {} => pending = 0

UntilDisturbed == Undisturbed => ThreadsInv

-----------------------------------------------------------------------------
(* Piles.                                                                  *)

\* The arrays of a pile are those of any pile it is the lower part of.
LEMMA BelowLists ==
    ASSUME NEW p \in Seq(DataBlocks), NEW r \in Seq(DataBlocks), Below(p, r),
           NEW q \in Int, q <= Len(p)
    PROVE  ListFrom(p, q) = ListFrom(r, q)
  <1>1. ASSUME NEW i \in Slots
        PROVE  At(p, q - i) = At(r, q - i)
    <2>1. q - i \in Int /\ q - i <= Len(p) /\ Len(p) \in Nat /\ Len(r) \in Nat /\ Len(p) <= Len(r)
      BY SizesAssumption DEF Slots, Below
    <2> QED
      BY <2>1 DEF At, Below
  <1> QED
    BY <1>1 DEF ListFrom

\* The lower part of a chain is a chain.
LEMMA BelowChained ==
    ASSUME NEW p \in Seq(DataBlocks), NEW r \in Seq(DataBlocks), Below(p, r), Chained(r)
    PROVE  Chained(p)
  <1> SUFFICES ASSUME NEW k \in 1..Len(p), Height(k) <= Len(p)
               PROVE  disk[p[Height(k)]] = ListFrom(p, Height(k) - 1)
    BY DEF Chained
  <1>1. k \in Nat /\ k \in Int /\ k >= 1 /\ Len(p) \in Nat /\ Len(r) \in Nat /\ Len(p) <= Len(r)
    BY DEF Below
  <1>2. Height(k) \in Int
    BY <1>1, HeightStep
  <1>3. Height(k) >= k
    BY <1>1, HeightAtLeast
  <1>4. Height(k) \in 1..Len(p) /\ k \in 1..Len(r) /\ Height(k) <= Len(r)
    BY <1>1, <1>2, <1>3
  <1>5. p[Height(k)] = r[Height(k)]
    BY <1>4 DEF Below
  <1>6. disk[r[Height(k)]] = ListFrom(r, Height(k) - 1)
    BY <1>4 DEF Chained
  <1>7. ListFrom(p, Height(k) - 1) = ListFrom(r, Height(k) - 1)
    <2>1. Height(k) - 1 \in Int /\ Height(k) - 1 <= Len(p)
      BY <1>1, <1>2, <1>4
    <2> QED
      BY <2>1, BelowLists
  <1> QED
    BY <1>5, <1>6, <1>7

\* The lower part of a lower part is a lower part.
LEMMA BelowTransitive ==
    ASSUME NEW p, NEW q, NEW r, Len(p) \in Nat, Len(q) \in Nat, Len(r) \in Nat,
           Below(p, q), Below(q, r)
    PROVE  Below(p, r)
  <1>1. Len(p) <= Len(q) /\ Len(q) <= Len(r)
    BY DEF Below
  <1>2. ASSUME NEW i \in 1..Len(p)
        PROVE  p[i] = r[i]
    <2>1. i \in 1..Len(q)
      BY <1>1
    <2> QED
      BY <2>1 DEF Below
  <1> QED
    BY <1>1, <1>2 DEF Below

\* The list of an invariant state, in the words of AllocTakesTop.
LEMMA ListInWords ==
    ASSUME ListInv
    PROVE  Loaded(disk[FREE_LIST_BLOCK], pile) /\ Chained(pile) /\ pile \in Seq(DataBlocks)
  BY DEF ListInv, Types, ListInOrder, Loaded, Chained

\* What a step of one thread does to the variables of all.
LEMMA GoesFacts ==
    ASSUME ThreadsType, NEW t \in Threads, NEW where \in Places, NEW l \in Lists,
           NEW b \in DataBlocks \union {0}, Goes(t, where, l, b)
    PROVE  /\ pc' \in [Threads -> Places]
           /\ list' \in [Threads -> Lists]
           /\ block' \in [Threads -> DataBlocks \union {0}]
           /\ pc'[t] = where /\ list'[t] = l /\ block'[t] = b
           /\ \A u \in Threads \ {t} : pc'[u] = pc[u] /\ list'[u] = list[u] /\ block'[u] = block[u]
  BY DEF ThreadsType, Goes

\* An array that links to nothing.
LEMMA LinkOnlyType ==
    ASSUME NEW b \in DataBlocks \union {0}
    PROVE  linkOnlyList(b) \in Lists
  BY Sizes, SizesAssumption DEF linkOnlyList, Lists, Blocks

-----------------------------------------------------------------------------
(* The initial state and the steps.                                        *)

\* All threads are outside at first.
LEMMA ThreadsInitInv ==
    ASSUME ThreadsInit
    PROVE  ThreadsInv
  <1>1. ListInv /\ pending = 0
    BY InitInv DEF ThreadsInit, Init, Inv, ListInv
  <1>2. ThreadsType
    <2>1. linkOnlyList(0) \in Lists /\ << >> \in Seq(DataBlocks)
      BY LinkOnlyType
    <2> QED
      BY <2>1 DEF ThreadsInit, ThreadsType, Places
  <1>3. \A t \in Threads : pc[t] = "idle" /\ block[t] = 0
    BY DEF ThreadsInit
  <1>4. OneEach
    BY <1>3 DEF OneEach, Allocating, Freeing
  <1>5. \A t \in Threads : AllocView(t) /\ FreeView(t)
    BY <1>3 DEF AllocView, FreeView
  <1> QED
    BY <1>1, <1>2, <1>4, <1>5 DEF ThreadsInv

\* A thread reads the list to allocate.
LEMMA AllocReadInv ==
    ASSUME ThreadsInv, NEW t \in Threads, AllocRead(t)
    PROVE  ThreadsInv'
  <1>1. /\ ListInv /\ ThreadsType /\ OneEach
        /\ \A u \in Threads : AllocView(u) /\ FreeView(u)
        /\ Freeing = {} => pending = 0
    BY DEF ThreadsInv
  <1>2. /\ pc[t] = "idle" /\ Allocating = {}
        /\ Goes(t, "taking", disk[FREE_LIST_BLOCK], 0)
        /\ mine' = [mine EXCEPT ![t] = pile]
        /\ disk' = disk /\ pending' = pending /\ pile' = pile /\ owned' = owned
        /\ lost' = lost /\ ret' = ret
    BY DEF AllocRead, Reads, vars
  <1>3. ListInv'
    BY <1>1, <1>2 DEF ListInv, Types, ListInOrder, OneState
  <1>4. /\ pc' \in [Threads -> Places] /\ list' \in [Threads -> Lists]
        /\ block' \in [Threads -> DataBlocks \union {0}]
        /\ pc'[t] = "taking" /\ list'[t] = disk[FREE_LIST_BLOCK] /\ block'[t] = 0
        /\ \A u \in Threads \ {t} : pc'[u] = pc[u] /\ list'[u] = list[u] /\ block'[u] = block[u]
    <2>1. disk[FREE_LIST_BLOCK] \in Lists /\ "taking" \in Places
      BY <1>1 DEF ListInv, Types, Places
    <2> QED
      BY <2>1, <1>1, <1>2, GoesFacts
  <1>5. Loaded(disk[FREE_LIST_BLOCK], pile) /\ pile \in Seq(DataBlocks)
    BY <1>1, ListInWords
  <1>6. ThreadsType' /\ mine'[t] = pile /\ \A u \in Threads \ {t} : mine'[u] = mine[u]
    BY <1>1, <1>2, <1>4, <1>5 DEF ThreadsType
  <1>7. Freeing' = Freeing /\ Allocating' = {t}
    BY <1>2, <1>4 DEF Freeing, Allocating
  <1>8. OneEach'
    BY <1>1, <1>7 DEF OneEach
  <1>9. ASSUME NEW u \in Threads
        PROVE  AllocView(u)' /\ FreeView(u)'
    <2>1. CASE u = t
      <3>1. Below(pile, pile)
        BY <1>5 DEF Below
      <3> QED
        BY <2>1, <3>1, <1>2, <1>4, <1>5, <1>6 DEF AllocView, FreeView, Loaded, Below
    <2>2. CASE u # t
      <3>1. pc'[u] = pc[u] /\ list'[u] = list[u] /\ block'[u] = block[u] /\ mine'[u] = mine[u]
        BY <2>2, <1>4, <1>6
      <3>2. AllocView(u) /\ FreeView(u)
        BY <1>1
      <3>3. AllocView(u)'
        BY <3>1, <3>2, <1>2 DEF AllocView, Loaded, Below, Popped, TopOf
      <3>4. FreeView(u)'
        BY <3>1, <3>2, <1>2 DEF FreeView, Below, linkOnlyList
      <3> QED
        BY <3>3, <3>4
    <2> QED
      BY <2>1, <2>2
  <1> QED
    BY <1>1, <1>2, <1>3, <1>6, <1>7, <1>8, <1>9 DEF ThreadsInv

\* What another thread knows stays true while the list only grows.
LEMMA AllocViewKept ==
    ASSUME NEW u, mine[u] \in Seq(DataBlocks), pile \in Seq(DataBlocks),
           pile' \in Seq(DataBlocks), AllocView(u),
           pc'[u] = pc[u], list'[u] = list[u], block'[u] = block[u], mine'[u] = mine[u],
           pc[u] \in {"taking", "storing"} => Below(pile, pile')
    PROVE  AllocView(u)'
  <1>1. ASSUME pc[u] \in {"taking", "storing"}
        PROVE  Below(mine[u], pile')
    <2>1. Below(mine[u], pile) /\ Below(pile, pile')
      BY <1>1 DEF AllocView
    <2>2. Len(mine[u]) \in Nat /\ Len(pile) \in Nat /\ Len(pile') \in Nat
      OBVIOUS
    <2> QED
      BY <2>1, <2>2, BelowTransitive
  <1> QED
    BY <1>1 DEF AllocView, Loaded, Below, Popped, TopOf

\* A thread chooses the block, and reads it if it holds the next array.
LEMMA AllocTakeInv ==
    ASSUME Backed, ThreadsInv, NEW t \in Threads, AllocTake(t)
    PROVE  ThreadsInv'
  <1> DEFINE newBlock == blockFound(list[t])
             newList  == listLeft(list[t])
  <1>1. /\ ListInv /\ ThreadsType /\ OneEach
        /\ \A u \in Threads : AllocView(u) /\ FreeView(u)
        /\ Freeing = {} => pending = 0
    BY DEF ThreadsInv
  <1>2. /\ pc[t] = "taking"
        /\ Goes(t, "storing", newList, newBlock)
        /\ mine' = mine /\ disk' = disk /\ pending' = pending /\ pile' = pile /\ owned' = owned
        /\ lost' = lost /\ ret' = ret
    BY DEF AllocTake, vars, blockFound, listLeft
  <1>3. ListInv'
    BY <1>1, <1>2 DEF ListInv, Types, ListInOrder, OneState
  <1>4. /\ mine[t] \in Seq(DataBlocks) /\ Below(mine[t], pile) /\ Loaded(list[t], mine[t])
        /\ pile \in Seq(DataBlocks)
    BY <1>1, <1>2, ListInWords DEF ThreadsType, AllocView
  <1>5. Chained(mine[t])
    BY <1>1, <1>4, ListInWords, BelowChained
  <1>6. /\ newBlock = TopOf(mine[t])
        /\ Loaded(newList, Popped(mine[t]))
        /\ newList \in Lists
    <2>1. disk \in [Blocks -> Lists \union {Data}]
      BY <1>1 DEF ListInv, Types
    <2>2. /\ mine[t] # << >> => /\ newBlock = mine[t][Len(mine[t])]
                                /\ Loaded(newList, SubSeq(mine[t], 1, Len(mine[t]) - 1))
          /\ mine[t] = << >> => newBlock = 0 /\ newList = list[t]
          /\ newList \in Lists
      BY <2>1, <1>4, <1>5, AllocTakesTop
    <2> HIDE DEF newBlock, newList
    <2> QED
      BY <2>2, <1>4 DEF TopOf, Popped
  <1>7. newBlock \in DataBlocks \union {0}
    <2>1. CASE mine[t] = << >>
      BY <2>1, <1>6 DEF TopOf
    <2>2. CASE mine[t] # << >>
      <3>1. Len(mine[t]) \in 1..Len(mine[t])
        BY <2>2, <1>4, EmptySeq
      <3> QED
        BY <2>2, <3>1, <1>4, <1>6, ElementOfSeq DEF TopOf
    <2> QED
      BY <2>1, <2>2
  <1> HIDE DEF newBlock, newList
  <1>8. /\ pc' \in [Threads -> Places] /\ list' \in [Threads -> Lists]
        /\ block' \in [Threads -> DataBlocks \union {0}]
        /\ pc'[t] = "storing" /\ list'[t] = newList /\ block'[t] = newBlock
        /\ \A u \in Threads \ {t} : pc'[u] = pc[u] /\ list'[u] = list[u] /\ block'[u] = block[u]
    <2>1. "storing" \in Places
      BY DEF Places
    <2> QED
      BY <2>1, <1>1, <1>2, <1>6, <1>7, GoesFacts
  <1>9. ThreadsType'
    BY <1>1, <1>2, <1>8 DEF ThreadsType
  <1>10. Freeing' = Freeing /\ Allocating' = Allocating
    BY <1>2, <1>8 DEF Freeing, Allocating
  <1>11. OneEach'
    BY <1>1, <1>10 DEF OneEach
  <1>12. ASSUME NEW u \in Threads
         PROVE  AllocView(u)' /\ FreeView(u)'
    <2>1. CASE u = t
      BY <2>1, <1>2, <1>4, <1>6, <1>8 DEF AllocView, FreeView, Loaded, Below, TopOf, Popped
    <2>2. CASE u # t
      <3>1. pc'[u] = pc[u] /\ list'[u] = list[u] /\ block'[u] = block[u] /\ mine'[u] = mine[u]
        BY <2>2, <1>2, <1>8
      <3>2. AllocView(u) /\ FreeView(u) /\ mine[u] \in Seq(DataBlocks)
        BY <1>1 DEF ThreadsType
      <3>3. Below(pile, pile') /\ pile' \in Seq(DataBlocks)
        BY <1>2, <1>4 DEF Below
      <3>4. AllocView(u)'
        BY <3>1, <3>2, <3>3, <1>4, AllocViewKept
      <3>5. FreeView(u)'
        BY <3>1, <3>2, <1>2 DEF FreeView, Below, linkOnlyList
      <3> QED
        BY <3>4, <3>5
    <2> QED
      BY <2>1, <2>2
  <1> QED
    BY <1>1, <1>2, <1>3, <1>9, <1>10, <1>11, <1>12 DEF ThreadsInv

\* Writing the list without the chosen block puts the pile back to what it was
\* when the list was read, less that block; what was freed since is lost.
LEMMA AllocWriteList ==
    ASSUME Backed, ListInv,
           NEW p \in Seq(DataBlocks), Below(p, pile), NEW l \in Lists, Loaded(l, Popped(p)),
           disk' = writeDiskBlock(FREE_LIST_BLOCK, l),
           ret' = TopOf(p),
           owned' = IF TopOf(p) = 0 THEN owned ELSE owned \union {TopOf(p)},
           pile' = Popped(p),
           lost' = lost \union (Range(pile) \ Range(p)),
           pending' = pending
    PROVE  /\ ListInv'
           /\ pile' \in Seq(DataBlocks) /\ Below(pile', pile)
           /\ Len(pile') = Len(pile) => p = << >>
           /\ disk'[FREE_LIST_BLOCK] = l
           /\ \A b \in Blocks \ {FREE_LIST_BLOCK} : disk'[b] = disk[b]
  <1>1. Types /\ ListInOrder /\ OneState
    BY DEF ListInv
  <1>2. /\ pile \in Seq(DataBlocks) /\ disk \in [Blocks -> Lists \union {Data}]
        /\ owned \subseteq DataBlocks /\ lost \subseteq DataBlocks
        /\ Len(p) \in Nat /\ Len(pile) \in Nat /\ Len(p) <= Len(pile)
        /\ \A i \in 1..Len(p) : i \in 1..Len(pile) /\ p[i] = pile[i]
    BY <1>1 DEF Types, Below
  <1>3. /\ Range(pile) = {pile[i] : i \in 1..Len(pile)}
        /\ Range(p) = {p[i] : i \in 1..Len(p)}
    BY <1>2, RangeEquality
  <1>4. /\ disk'[FREE_LIST_BLOCK] = l
        /\ disk' \in [Blocks -> Lists \union {Data}]
        /\ \A b \in Blocks \ {FREE_LIST_BLOCK} : disk'[b] = disk[b]
    <2>1. disk' = [disk EXCEPT ![FREE_LIST_BLOCK] = l]
      BY Sizes, BackedAccess
    <2> QED
      BY <2>1, <1>2, Sizes
  <1>5. /\ pile' \in Seq(DataBlocks) /\ Len(pile') \in Nat /\ Len(pile') <= Len(p)
        /\ \A i \in 1..Len(pile') : i \in 1..Len(p) /\ pile'[i] = p[i]
        /\ p # << >> => /\ Len(p) \in 1..Len(p) /\ Len(pile') = Len(p) - 1
                        /\ TopOf(p) = p[Len(p)] /\ TopOf(p) \in DataBlocks
        /\ p = << >> => pile' = << >> /\ TopOf(p) = 0 /\ Len(p) = 0
    <2>1. CASE p = << >>
      BY <2>1, EmptySeq DEF Popped, TopOf
    <2>2. CASE p # << >>
      <3>1. /\ Len(p) >= 1 /\ pile' \in Seq(DataBlocks) /\ Len(pile') = Len(p) - 1
            /\ \A i \in 1..(Len(p) - 1) : pile'[i] = p[i]
        BY <2>2, PopFacts DEF Popped
      <3>2. Len(p) \in 1..Len(p) /\ TopOf(p) = p[Len(p)]
        BY <2>2, <3>1, <1>2 DEF TopOf
      <3>3. p[Len(p)] \in DataBlocks
        BY <3>2, ElementOfSeq
      <3> QED
        BY <2>2, <3>1, <3>2, <3>3, <1>2
    <2> QED
      BY <2>1, <2>2
  <1>6. Below(pile', pile)
    BY <1>2, <1>5 DEF Below
  <1>7. ListInOrder'
    <2>1. Loaded(disk'[FREE_LIST_BLOCK], pile')
      BY <1>4
    <2>2. Chained(pile')
      <3>1. Chained(pile)
        BY ListInWords
      <3> QED
        BY <3>1, <1>2, <1>5, <1>6, BelowChained
    <2>3. ASSUME NEW k \in 1..Len(pile'), Height(k) <= Len(pile')
          PROVE  disk'[pile'[Height(k)]] = ListFrom(pile', Height(k) - 1)
      <3>1. k \in Nat /\ k \in Int /\ k >= 1
        BY <1>5
      <3>2. Height(k) \in Int
        BY <3>1, HeightStep
      <3>3. Height(k) >= k
        BY <3>1, HeightAtLeast
      <3>4. Height(k) \in 1..Len(pile')
        BY <2>3, <3>1, <3>2, <3>3, <1>5
      <3>5. pile'[Height(k)] \in DataBlocks
        BY <3>4, <1>5, ElementOfSeq
      <3>6. disk'[pile'[Height(k)]] = disk[pile'[Height(k)]]
        BY <3>5, <1>4, Sizes
      <3> QED
        BY <2>2, <2>3, <3>6 DEF Chained
    <2> QED
      BY <2>1, <2>3 DEF ListInOrder, Loaded
  <1>8. Range(pile) \ Range(p) \subseteq DataBlocks
    BY <1>2, RangeOfSeq
  <1>9. Types'
    <2>1. TopOf(p) \in DataBlocks \union {0}
      BY <1>5
    <2>2. owned' \subseteq DataBlocks
      BY <1>2, <2>1
    <2>3. pending' \in DataBlocks \union {0}
      BY <1>1 DEF Types
    <2> QED
      BY <1>2, <1>4, <1>5, <1>8, <2>1, <2>2, <2>3 DEF Types
  <1>10. Len(pile') = Len(pile) => p = << >>
    BY <1>2, <1>5
  <1>11. OneState'
    <2>c. /\ \A i, j \in 1..Len(pile) : pile[i] = pile[j] => i = j
          /\ \A i \in 1..Len(pile) : pile[i] \notin owned \union lost
          /\ owned \intersect lost = {}
          /\ \A b \in DataBlocks \ (owned \union lost) : \E i \in 1..Len(pile) : pile[i] = b
      BY <1>1 DEF OneState
    <2>1. \A i, j \in 1..Len(pile') : pile'[i] = pile'[j] => i = j
      BY <2>c, <1>2, <1>5
    <2>2. ASSUME NEW i \in 1..Len(pile')
          PROVE  pile'[i] \notin owned' \union lost'
      <3>1. i \in 1..Len(p) /\ i \in 1..Len(pile) /\ pile'[i] = p[i] /\ pile'[i] = pile[i]
        BY <1>2, <1>5
      <3>2. pile'[i] \notin owned \union lost /\ pile'[i] \in Range(p)
        BY <3>1, <2>c, <1>3
      <3>3. TopOf(p) # 0 => pile'[i] # TopOf(p)
        <4> SUFFICES ASSUME TopOf(p) # 0 PROVE p[i] # TopOf(p)
          BY <3>1
        <4>1. Len(pile') = Len(p) - 1 /\ TopOf(p) = p[Len(p)] /\ Len(p) \in 1..Len(p)
          BY <1>5
        <4>2. i # Len(p)
          BY <4>1, <1>2
        <4> QED
          BY <4>1, <4>2, <3>1, <2>c, <1>2
      <3> QED
        BY <3>2, <3>3
    <2>3. owned' \intersect lost' = {}
      <3>1. owned \intersect Range(pile) = {}
        BY <2>c, <1>3
      <3>2. TopOf(p) # 0 => TopOf(p) \in Range(p) /\ TopOf(p) \notin lost
        <4> SUFFICES ASSUME TopOf(p) # 0 PROVE TopOf(p) \in Range(p) /\ TopOf(p) \notin lost
          OBVIOUS
        <4>1. TopOf(p) = p[Len(p)] /\ Len(p) \in 1..Len(p)
          BY <1>5
        <4> QED
          BY <4>1, <2>c, <1>2, <1>3
      <3> QED
        BY <3>1, <3>2, <2>c
    <2>4. ASSUME NEW b \in DataBlocks \ (owned' \union lost')
          PROVE  \E i \in 1..Len(pile') : pile'[i] = b
      <3>1. b \in DataBlocks \ (owned \union lost) /\ (TopOf(p) # 0 => b # TopOf(p))
            /\ b \notin Range(pile) \ Range(p)
        OBVIOUS
      <3>2. PICK j \in 1..Len(pile) : pile[j] = b
        BY <3>1, <2>c
      <3>3. b \in Range(p)
        BY <3>1, <3>2, <1>3
      <3>4. PICK i \in 1..Len(p) : p[i] = b
        BY <3>3, <1>3
      <3>5. p # << >>
        BY <3>4, <1>5
      <3>6. TopOf(p) = p[Len(p)] /\ TopOf(p) # 0 /\ Len(pile') = Len(p) - 1
        BY <3>5, <1>5, Sizes
      <3>7. i # Len(p)
        BY <3>1, <3>4, <3>6
      <3>8. i \in 1..Len(pile')
        BY <3>6, <3>7, <1>2
      <3> QED
        BY <3>4, <3>8, <1>5
    <2> QED
      BY <2>1, <2>2, <2>3, <2>4 DEF OneState
  <1> QED
    BY <1>4, <1>5, <1>6, <1>7, <1>9, <1>10, <1>11 DEF ListInv

\* There is one array that lists nothing.
LEMMA OneEmptyList ==
    ASSUME NEW l, NEW m, Loaded(l, << >>), Loaded(m, << >>)
    PROVE  l = m
  <1>1. Len(<< >>) = 0
    OBVIOUS
  <1>2. 0..Len(<< >>) = {0}
    BY <1>1
  <1> QED
    BY <1>2 DEF Loaded

\* A thread writes the list, and with it undoes the frees since it read it.  A
\* thread that is freeing then knows a longer list, unless nothing was taken.
LEMMA AllocWriteInv ==
    ASSUME Backed, ThreadsInv, NEW t \in Threads, AllocWrite(t)
    PROVE  ThreadsInv'
  <1>1. /\ ListInv /\ ThreadsType /\ OneEach
        /\ \A u \in Threads : AllocView(u) /\ FreeView(u)
        /\ Freeing = {} => pending = 0
    BY DEF ThreadsInv
  <1>2. /\ pc[t] = "storing"
        /\ disk' = writeDiskBlock(FREE_LIST_BLOCK, list[t])
        /\ ret' = block[t]
        /\ owned' = IF block[t] = 0 THEN owned ELSE owned \union {block[t]}
        /\ pile' = Popped(mine[t])
        /\ lost' = lost \union (Range(pile) \ Range(mine[t]))
        /\ Goes(t, "idle", linkOnlyList(0), 0)
        /\ mine' = [mine EXCEPT ![t] = << >>]
        /\ pending' = pending
    BY DEF AllocWrite, Returns, Popped, Front
  <1>3. /\ mine[t] \in Seq(DataBlocks) /\ Below(mine[t], pile) /\ list[t] \in Lists
        /\ block[t] = TopOf(mine[t]) /\ Loaded(list[t], Popped(mine[t]))
    BY <1>1, <1>2 DEF ThreadsType, AllocView
  <1>4. /\ ListInv'
        /\ pile' \in Seq(DataBlocks) /\ Below(pile', pile)
        /\ Len(pile') = Len(pile) => mine[t] = << >>
        /\ disk'[FREE_LIST_BLOCK] = list[t]
        /\ \A b \in Blocks \ {FREE_LIST_BLOCK} : disk'[b] = disk[b]
    BY <1>1, <1>2, <1>3, AllocWriteList
  <1>5. /\ pc' \in [Threads -> Places] /\ list' \in [Threads -> Lists]
        /\ block' \in [Threads -> DataBlocks \union {0}]
        /\ pc'[t] = "idle" /\ block'[t] = 0
        /\ \A u \in Threads \ {t} : pc'[u] = pc[u] /\ list'[u] = list[u] /\ block'[u] = block[u]
    <2>1. "idle" \in Places /\ linkOnlyList(0) \in Lists
      BY LinkOnlyType DEF Places
    <2> QED
      BY <2>1, <1>1, <1>2, GoesFacts
  <1>6. ThreadsType' /\ \A u \in Threads \ {t} : mine'[u] = mine[u]
    <2>1. mine \in [Threads -> Seq(DataBlocks)] /\ << >> \in Seq(DataBlocks)
      BY <1>1 DEF ThreadsType
    <2>2. mine' \in [Threads -> Seq(DataBlocks)] /\ \A u \in Threads \ {t} : mine'[u] = mine[u]
      BY <2>1, <1>2
    <2> QED
      BY <2>2, <1>5 DEF ThreadsType
  <1>7. Freeing' = Freeing /\ Allocating' = {}
    <2>1. \A u \in Threads \ {t} : pc[u] \notin {"taking", "storing"}
      BY <1>1, <1>2 DEF OneEach, Allocating
    <2> QED
      BY <2>1, <1>2, <1>5 DEF Freeing, Allocating
  <1>8. OneEach'
    BY <1>1, <1>7 DEF OneEach
  <1>9. ASSUME NEW u \in Threads
        PROVE  AllocView(u)'
    <2>1. pc'[u] \notin {"taking", "storing"}
      BY <1>7 DEF Allocating
    <2>2. pc'[u] = "idle" => block'[u] = 0
      BY <1>1, <1>5 DEF AllocView
    <2> QED
      BY <2>1, <2>2 DEF AllocView
  <1>10. ASSUME NEW u \in Threads, pc'[u] \in {"freeing", "spilled"}
         PROVE  FreeView(u)'
    <2>1. /\ u # t /\ pc'[u] = pc[u] /\ list'[u] = list[u] /\ block'[u] = block[u]
          /\ mine'[u] = mine[u] /\ mine[u] \in Seq(DataBlocks) /\ pile \in Seq(DataBlocks)
      BY <1>1, <1>5, <1>6, <1>10 DEF ThreadsType, ListInv, Types
    <2>2. FreeView(u) /\ Below(pile, mine[u])
      BY <1>1, <1>10, <2>1 DEF FreeView
    <2>3. Len(pile) \in Nat /\ Len(pile') \in Nat /\ Len(mine[u]) \in Nat
      BY <1>4, <2>1
    <2>4. Below(pile', mine[u])
      BY <1>4, <2>2, <2>3, BelowTransitive
    <2>5. ASSUME mine[u] = pile'
          PROVE  mine[u] = pile /\ disk'[FREE_LIST_BLOCK] = disk[FREE_LIST_BLOCK]
      <3>1. Len(pile') = Len(pile)
        BY <1>4, <2>2, <2>3, <2>5 DEF Below
      <3>2. mine[t] = << >> /\ pile' = << >>
        BY <1>2, <1>4, <3>1 DEF Popped
      <3>3. pile = << >>
        BY <2>1, <3>1, <3>2, EmptySeq
      <3>4. Loaded(disk[FREE_LIST_BLOCK], << >>) /\ Loaded(list[t], << >>)
        BY <1>1, <1>2, <1>3, <3>2, <3>3, ListInWords
      <3> QED
        BY <1>4, <2>5, <3>2, <3>3, <3>4, OneEmptyList
    <2>6. block[u] \in owned' /\ block[u] \in DataBlocks
      BY <1>1, <1>2, <1>10, <2>1, <2>2 DEF FreeView, ListInv, Types
    <2>7. disk'[block[u]] = disk[block[u]]
      BY <1>4, <2>6, Sizes
    <2> QED
      BY <1>2, <2>1, <2>2, <2>4, <2>5, <2>6, <2>7 DEF FreeView, Below, linkOnlyList
  <1>11. \A u \in Threads : FreeView(u)'
    BY <1>10 DEF FreeView
  <1> QED
    BY <1>1, <1>2, <1>4, <1>6, <1>7, <1>8, <1>9, <1>11 DEF ThreadsInv

\* The mutex of free.c has one holder.
LEMMA OthersNotFreeing ==
    ASSUME OneEach, NEW t \in Threads, pc[t] \in {"freeing", "spilled"}
    PROVE  /\ \A u \in Threads \ {t} : pc[u] \notin {"freeing", "spilled"}
           /\ Freeing = {t} /\ BeingFreed = {block[t]}
  BY DEF OneEach, Freeing, BeingFreed

\* A thread reads the list to free a block.
LEMMA FreeReadInv ==
    ASSUME ThreadsInv, NEW t \in Threads, NEW b \in DataBlocks, FreeRead(t, b)
    PROVE  ThreadsInv'
  <1>1. /\ ListInv /\ ThreadsType /\ OneEach
        /\ \A u \in Threads : AllocView(u) /\ FreeView(u)
        /\ Freeing = {} => pending = 0
    BY DEF ThreadsInv
  <1>2. /\ pc[t] = "idle" /\ Freeing = {} /\ b \in owned
        /\ Goes(t, "freeing", disk[FREE_LIST_BLOCK], b)
        /\ mine' = [mine EXCEPT ![t] = pile]
        /\ disk' = disk /\ pending' = pending /\ pile' = pile /\ owned' = owned
        /\ lost' = lost /\ ret' = ret
    BY DEF FreeRead, Reads, vars
  <1>3. ListInv'
    BY <1>1, <1>2 DEF ListInv, Types, ListInOrder, OneState
  <1>4. /\ pc' \in [Threads -> Places] /\ list' \in [Threads -> Lists]
        /\ block' \in [Threads -> DataBlocks \union {0}]
        /\ pc'[t] = "freeing" /\ list'[t] = disk[FREE_LIST_BLOCK] /\ block'[t] = b
        /\ \A u \in Threads \ {t} : pc'[u] = pc[u] /\ list'[u] = list[u] /\ block'[u] = block[u]
    <2>1. disk[FREE_LIST_BLOCK] \in Lists /\ "freeing" \in Places
      BY <1>1 DEF ListInv, Types, Places
    <2> QED
      BY <2>1, <1>1, <1>2, GoesFacts
  <1>5. ThreadsType' /\ mine'[t] = pile /\ \A u \in Threads \ {t} : mine'[u] = mine[u]
    BY <1>1, <1>2, <1>4 DEF ThreadsType, ListInv, Types
  <1>6. Freeing' = {t} /\ Allocating' = Allocating
    BY <1>2, <1>4 DEF Freeing, Allocating
  <1>7. OneEach'
    BY <1>1, <1>6 DEF OneEach
  <1>8. ASSUME NEW u \in Threads
        PROVE  AllocView(u)' /\ FreeView(u)'
    <2>1. CASE u = t
      <3>1. Below(pile, pile) /\ \A i, j \in 1..Len(pile) : pile[i] = pile[j] => i = j
        BY <1>1 DEF Below, ListInv, Types, OneState
      <3> QED
        BY <2>1, <3>1, <1>1, <1>2, <1>4, <1>5 DEF AllocView, FreeView, Below
    <2>2. CASE u # t
      <3>1. pc'[u] = pc[u] /\ list'[u] = list[u] /\ block'[u] = block[u] /\ mine'[u] = mine[u]
        BY <2>2, <1>2, <1>4, <1>5
      <3>2. AllocView(u) /\ FreeView(u)
        BY <1>1
      <3>3. AllocView(u)'
        BY <3>1, <3>2, <1>2 DEF AllocView, Loaded, Below, Popped, TopOf
      <3>4. FreeView(u)'
        BY <3>1, <3>2, <1>2 DEF FreeView, Below, linkOnlyList
      <3> QED
        BY <3>3, <3>4
    <2> QED
      BY <2>1, <2>2
  <1> QED
    BY <1>3, <1>5, <1>6, <1>7, <1>8 DEF ThreadsInv

\* A thread copies the full array into the block it frees.
LEMMA FreeCopyInv ==
    ASSUME Backed, ThreadsInv, NEW t \in Threads, FreeCopy(t)
    PROVE  ThreadsInv'
  <1>1. /\ ListInv /\ ThreadsType /\ OneEach
        /\ \A u \in Threads : AllocView(u) /\ FreeView(u)
    BY DEF ThreadsInv
  <1>2. /\ pc[t] = "freeing" /\ list[t][0] # 0
        /\ disk' = writeDiskBlock(block[t], list[t])
        /\ pending' = block[t]
        /\ Goes(t, "spilled", linkOnlyList(block[t]), block[t])
        /\ mine' = mine /\ pile' = pile /\ owned' = owned /\ lost' = lost /\ ret' = ret
    BY DEF FreeCopy
  <1>3. block[t] \in owned /\ (mine[t] = pile => list[t] = disk[FREE_LIST_BLOCK])
    BY <1>1, <1>2 DEF FreeView
  <1>4. block[t] \in DataBlocks /\ list[t] \in Lists /\ pile \in Seq(DataBlocks)
    BY <1>1, <1>3 DEF ListInv, Types, ThreadsType
  <1>5. /\ ListInOrder'
        /\ disk' \in [Blocks -> Lists \union {Data}]
        /\ disk'[FREE_LIST_BLOCK] = disk[FREE_LIST_BLOCK]
        /\ disk'[block[t]] = list[t]
    BY <1>1, <1>2, <1>3, <1>4, OwnedWrite DEF ListInv
  <1>6. ListInv'
    BY <1>1, <1>2, <1>4, <1>5 DEF ListInv, Types, OneState
  <1>8. /\ pc' \in [Threads -> Places] /\ list' \in [Threads -> Lists]
        /\ block' \in [Threads -> DataBlocks \union {0}]
        /\ pc'[t] = "spilled" /\ list'[t] = linkOnlyList(block[t]) /\ block'[t] = block[t]
        /\ \A u \in Threads \ {t} : pc'[u] = pc[u] /\ list'[u] = list[u] /\ block'[u] = block[u]
    <2>1. linkOnlyList(block[t]) \in Lists /\ "spilled" \in Places
      BY <1>4, LinkOnlyType DEF Places
    <2> QED
      BY <2>1, <1>1, <1>2, <1>4, GoesFacts
  <1>9. ThreadsType'
    BY <1>1, <1>2, <1>8 DEF ThreadsType
  <1>10. Freeing' = Freeing /\ Allocating' = Allocating /\ t \in Freeing
    BY <1>2, <1>8 DEF Freeing, Allocating
  <1>11. OneEach'
    BY <1>1, <1>10 DEF OneEach
  <1>12. ASSUME NEW u \in Threads
         PROVE  AllocView(u)' /\ FreeView(u)'
    <2>1. CASE u = t
      <3>1. FreeView(t)
        BY <1>1
      <3>2. AllocView(t)'
        BY <1>8 DEF AllocView
      <3>3. FreeView(t)'
        BY <3>1, <1>2, <1>3, <1>5, <1>8 DEF FreeView, Below, linkOnlyList
      <3> QED
        BY <2>1, <3>2, <3>3
    <2>2. CASE u # t
      <3>1. pc'[u] = pc[u] /\ list'[u] = list[u] /\ block'[u] = block[u] /\ mine'[u] = mine[u]
        BY <2>2, <1>2, <1>8
      <3>2. AllocView(u) /\ pc[u] \notin {"freeing", "spilled"}
        BY <2>2, <1>1, <1>2, OthersNotFreeing
      <3>3. AllocView(u)'
        BY <3>1, <3>2, <1>2 DEF AllocView, Loaded, Below, Popped, TopOf
      <3>4. FreeView(u)'
        BY <3>1, <3>2 DEF FreeView
      <3> QED
        BY <3>3, <3>4
    <2> QED
      BY <2>1, <2>2
  <1> QED
    BY <1>6, <1>9, <1>10, <1>11, <1>12 DEF ThreadsInv

\* A thread writes the list that has the freed block.
LEMMA FreeWriteInv ==
    ASSUME Backed, ThreadsInv, NEW t \in Threads, FreeWrite(t), Undisturbed'
    PROVE  ThreadsInv'
  <1>1. /\ ListInv /\ ThreadsType /\ OneEach
        /\ \A u \in Threads : AllocView(u) /\ FreeView(u)
    BY DEF ThreadsInv
  <1>2. /\ pc[t] \in {"freeing", "spilled"}
        /\ pile' = Append(mine[t], block[t])
        /\ relisted' = relisted \union (Range(mine[t]) \ Range(pile))
        /\ owned' = owned \ {block[t]}
        /\ pending' = 0 /\ lost' = lost /\ ret' = ret
        /\ Goes(t, "idle", linkOnlyList(0), 0)
        /\ mine' = [mine EXCEPT ![t] = << >>]
    BY DEF FreeWrite, Returns
  <1>3. block[t] \in owned /\ Below(pile, mine[t]) /\ mine[t] \in Seq(DataBlocks)
        /\ \A i, j \in 1..Len(mine[t]) : mine[t][i] = mine[t][j] => i = j
    BY <1>1, <1>2 DEF FreeView, ThreadsType
  <1>4. block[t] \in DataBlocks /\ block[t] # 0 /\ pile \in Seq(DataBlocks)
    BY <1>1, <1>3, Sizes DEF ListInv, Types
  <1>m. mine[t] = pile
    <2>1. Range(mine[t]) \subseteq Range(pile)
      BY <1>2 DEF Undisturbed
    <2>2. /\ Range(mine[t]) = {mine[t][i] : i \in 1..Len(mine[t])}
          /\ Range(pile) = {pile[i] : i \in 1..Len(pile)}
      BY <1>3, <1>4, RangeEquality
    <2>3. Len(pile) \in Nat /\ Len(mine[t]) \in Nat /\ Len(pile) <= Len(mine[t])
      BY <1>3, <1>4 DEF Below
    <2>4. ~(Len(pile) < Len(mine[t]))
      <3> SUFFICES ASSUME Len(pile) < Len(mine[t]) PROVE FALSE
        OBVIOUS
      <3>1. Len(mine[t]) \in 1..Len(mine[t])
        BY <2>3
      <3>2. PICK i \in 1..Len(pile) : pile[i] = mine[t][Len(mine[t])]
        BY <2>1, <2>2, <3>1
      <3>3. i \in 1..Len(mine[t]) /\ mine[t][i] = mine[t][Len(mine[t])]
        BY <2>3, <3>2, <1>3 DEF Below
      <3>4. i = Len(mine[t])
        BY <1>3, <3>1, <3>3
      <3> QED
        BY <2>3, <3>2, <3>4
    <2>5. Len(pile) = Len(mine[t])
      BY <2>3, <2>4
    <2> QED
      BY <2>5, <1>3, <1>4, SeqEqual DEF Below
  <1>5. ListInv' /\ pile' = Append(pile, block[t])
    <2>0. pile' = Append(pile, block[t])
      BY <1>2, <1>m
    <2>1. CASE pc[t] = "freeing"
      <3>1. list[t] = disk[FREE_LIST_BLOCK] /\ pending = 0
        BY <2>1, <1>1, <1>m DEF FreeView
      <3>2. /\ list[t][0] = 0
            /\ disk' = writeDiskBlock(FREE_LIST_BLOCK,
                                      [list[t] EXCEPT ![lastFreeSlot(list[t])] = block[t]])
            /\ link' = IF link = 0 /\ list[t][ListSize - 1] = 0 THEN block[t] ELSE link
            /\ sound' = sound
        BY <2>1 DEF FreeWrite
      <3>3. ~TailListLoaded
        BY <3>1, <3>2, <1>4 DEF Undisturbed, TailListLoaded
      <3>4. FreeIntoSlot(block[t])
        BY <2>0, <3>1, <3>2, <1>2, <1>3 DEF FreeIntoSlot, TailListLoaded
      <3>5. Inv
        BY <3>1, <1>1 DEF Inv, ListInv, CopyComplete
      <3>6. Inv'
        BY <3>3, <3>4, <3>5, <1>4, SlotInv
      <3> QED
        BY <2>0, <3>6 DEF Inv, ListInv
    <2>2. CASE pc[t] = "spilled"
      <3>1. /\ pending = block[t] /\ list[t] = linkOnlyList(block[t])
            /\ disk[block[t]] = disk[FREE_LIST_BLOCK] /\ disk[FREE_LIST_BLOCK][0] # 0
        BY <2>2, <1>1, <1>m DEF FreeView
      <3>2. disk' = writeDiskBlock(FREE_LIST_BLOCK, list[t]) /\ link' = link /\ sound' = sound
        BY <2>2 DEF FreeWrite
      <3>3. FreeCommit
        BY <2>0, <3>1, <3>2, <1>2, <1>4 DEF FreeCommit, misfiling
      <3>4. Inv
        BY <3>1, <1>1, <1>3 DEF Inv, ListInv, CopyComplete
      <3>5. Inv'
        BY <3>3, <3>4, CommitInv
      <3> QED
        BY <2>0, <3>5 DEF Inv, ListInv
    <2> QED
      BY <2>1, <2>2, <1>2
  <1>6. /\ pc' \in [Threads -> Places] /\ list' \in [Threads -> Lists]
        /\ block' \in [Threads -> DataBlocks \union {0}]
        /\ pc'[t] = "idle" /\ block'[t] = 0
        /\ \A u \in Threads \ {t} : pc'[u] = pc[u] /\ list'[u] = list[u] /\ block'[u] = block[u]
    <2>1. "idle" \in Places /\ linkOnlyList(0) \in Lists
      BY LinkOnlyType DEF Places
    <2> QED
      BY <2>1, <1>1, <1>2, GoesFacts
  <1>7. ThreadsType' /\ \A u \in Threads \ {t} : mine'[u] = mine[u]
    <2>1. mine \in [Threads -> Seq(DataBlocks)] /\ << >> \in Seq(DataBlocks)
      BY <1>1 DEF ThreadsType
    <2>2. mine' \in [Threads -> Seq(DataBlocks)] /\ \A u \in Threads \ {t} : mine'[u] = mine[u]
      BY <2>1, <1>2
    <2> QED
      BY <2>2, <1>6 DEF ThreadsType
  <1>8. Freeing' = {} /\ Allocating' = Allocating
    BY <1>1, <1>2, <1>6, OthersNotFreeing DEF Freeing, Allocating
  <1>9. OneEach'
    BY <1>1, <1>8 DEF OneEach
  <1>10. Below(pile, pile') /\ pile' \in Seq(DataBlocks)
    BY <1>4, <1>5, PushFacts DEF Below
  <1>11. ASSUME NEW u \in Threads
         PROVE  AllocView(u)' /\ FreeView(u)'
    <2>0. FreeView(u)'
      BY <1>8 DEF FreeView, Freeing
    <2>1. CASE u = t
      BY <2>0, <2>1, <1>6 DEF AllocView
    <2>2. CASE u # t
      <3>1. pc'[u] = pc[u] /\ list'[u] = list[u] /\ block'[u] = block[u] /\ mine'[u] = mine[u]
        BY <2>2, <1>6, <1>7
      <3>2. AllocView(u) /\ mine[u] \in Seq(DataBlocks)
        BY <1>1 DEF ThreadsType
      <3>3. AllocView(u)'
        BY <3>1, <3>2, <1>4, <1>10, AllocViewKept
      <3> QED
        BY <2>0, <3>3
    <2> QED
      BY <2>1, <2>2
  <1> QED
    BY <1>2, <1>5, <1>7, <1>9, <1>11 DEF ThreadsInv

\* The owner of a block that is not being freed writes into it.
LEMMA WriteOwnedInv ==
    ASSUME Backed, ThreadsInv, NEW b \in DataBlocks, WriteOwned(b)
    PROVE  ThreadsInv'
  <1>1. /\ ListInv /\ ThreadsType /\ OneEach
        /\ \A u \in Threads : AllocView(u) /\ FreeView(u)
        /\ Freeing = {} => pending = 0
    BY DEF ThreadsInv
  <1>2. /\ b \in owned /\ b \notin BeingFreed /\ disk' = writeDiskBlock(b, Data)
        /\ pending' = pending /\ pile' = pile /\ owned' = owned /\ lost' = lost /\ ret' = ret
        /\ pc' = pc /\ list' = list /\ block' = block /\ mine' = mine
    BY DEF WriteOwned, threadVars
  <1>3. Types /\ ListInOrder /\ OneState
    BY <1>1 DEF ListInv
  <1>4. /\ ListInOrder'
        /\ disk' \in [Blocks -> Lists \union {Data}]
        /\ disk'[FREE_LIST_BLOCK] = disk[FREE_LIST_BLOCK]
    BY <1>2, <1>3, OwnedWrite
  <1>5. ASSUME NEW u \in Freeing
        PROVE  disk'[block[u]] = disk[block[u]]
    <2>1. block[u] \in DataBlocks /\ block[u] # b
      BY <1>1, <1>2, <1>3, <1>5 DEF Freeing, FreeView, BeingFreed, Types
    <2>2. disk' = [disk EXCEPT ![b] = Data]
      BY <1>2, Sizes, BackedAccess
    <2> QED
      BY <2>1, <2>2, <1>3, Sizes DEF Types
  <1>7. ListInv'
    BY <1>2, <1>3, <1>4 DEF ListInv, Types, OneState
  <1>8. ThreadsType' /\ OneEach' /\ Freeing' = Freeing
    BY <1>1, <1>2 DEF ThreadsType, OneEach, Freeing, Allocating
  <1>9. ASSUME NEW u \in Threads
        PROVE  AllocView(u)' /\ FreeView(u)'
    <2>1. AllocView(u) /\ FreeView(u)
      BY <1>1
    <2>2. AllocView(u)'
      BY <2>1, <1>2 DEF AllocView, Loaded, Below, Popped, TopOf
    <2>3. FreeView(u)'
      BY <2>1, <1>2, <1>4, <1>5 DEF FreeView, Freeing, Below, linkOnlyList
    <2> QED
      BY <2>2, <2>3
  <1> QED
    BY <1>1, <1>2, <1>7, <1>8, <1>9 DEF ThreadsInv

\* The machine stops while threads are inside, and is restarted.
LEMMA CrashThreadsInv ==
    ASSUME ThreadsInv, CrashThreads
    PROVE  ThreadsInv'
  <1>1. /\ Types /\ ListInOrder /\ OneState /\ OneEach
        /\ \A u \in Threads : FreeView(u)
    BY DEF ThreadsInv, ListInv
  <1>2. /\ owned' = owned \ BeingFreed /\ lost' = lost \union BeingFreed /\ pending' = 0
        /\ disk' = disk /\ pile' = pile /\ ret' = ret
        /\ pc' = [t \in Threads |-> "idle"]
        /\ list' = [t \in Threads |-> linkOnlyList(0)]
        /\ block' = [t \in Threads |-> 0]
        /\ mine' = [t \in Threads |-> << >>]
    BY DEF CrashThreads
  <1>3. BeingFreed \subseteq owned
    BY <1>1 DEF BeingFreed, Freeing, FreeView
  <1>4. Types'
    BY <1>1, <1>2, <1>3 DEF Types
  <1>5. ListInOrder'
    BY <1>1, <1>2 DEF ListInOrder
  <1>6. OneState'
    BY <1>1, <1>2, <1>3 DEF OneState
  <1>7. ThreadsType'
    <2>1. linkOnlyList(0) \in Lists /\ << >> \in Seq(DataBlocks)
      BY LinkOnlyType
    <2> QED
      BY <2>1, <1>2 DEF ThreadsType, Places
  <1>8. \A t \in Threads : pc'[t] = "idle" /\ block'[t] = 0
    BY <1>2
  <1>9. OneEach'
    BY <1>8 DEF OneEach, Allocating, Freeing
  <1>10. \A t \in Threads : AllocView(t)' /\ FreeView(t)'
    BY <1>8 DEF AllocView, FreeView
  <1> QED
    BY <1>2, <1>4, <1>5, <1>6, <1>7, <1>9, <1>10 DEF ThreadsInv, ListInv

\* Nothing happens to the allocator.
LEMMA ThreadsStutterInv ==
    ASSUME ThreadsInv, UNCHANGED allVars
    PROVE  ThreadsInv'
  <1>1. /\ disk' = disk /\ pending' = pending /\ pile' = pile /\ owned' = owned
        /\ lost' = lost /\ ret' = ret /\ pc' = pc /\ list' = list /\ block' = block
        /\ mine' = mine
    BY DEF allVars, vars, threadVars
  <1>2. ListInv' /\ ThreadsType' /\ OneEach' /\ (Freeing' = {} => pending' = 0)
    BY <1>1 DEF ThreadsInv, ListInv, Types, ListInOrder, OneState, ThreadsType,
                OneEach, Freeing, Allocating
  <1>3. ASSUME NEW u \in Threads
        PROVE  AllocView(u)' /\ FreeView(u)'
    <2>1. AllocView(u) /\ FreeView(u)
      BY DEF ThreadsInv
    <2>2. AllocView(u)'
      BY <2>1, <1>1 DEF AllocView, Loaded, Below, Popped, TopOf
    <2>3. FreeView(u)'
      BY <2>1, <1>1 DEF FreeView, Below, linkOnlyList
    <2> QED
      BY <2>2, <2>3
  <1> QED
    BY <1>2, <1>3 DEF ThreadsInv

\* Every step keeps the invariant, and no step takes a disturbance back.
LEMMA ThreadsStepInv ==
    ASSUME Backed, UntilDisturbed, [ThreadsNext]_allVars
    PROVE  UntilDisturbed'
  <1> SUFFICES ASSUME Undisturbed' PROVE ThreadsInv'
    BY DEF UntilDisturbed
  <1>1. Undisturbed
    <2>1. ASSUME NEW t \in Threads, FreeWrite(t) PROVE Undisturbed
      BY <2>1 DEF FreeWrite, Undisturbed
    <2>2. ASSUME NEW t \in Threads,
                 \/ AllocRead(t)
                 \/ AllocTake(t)
                 \/ AllocWrite(t)
                 \/ \E b \in DataBlocks : FreeRead(t, b)
                 \/ FreeCopy(t)
          PROVE  Undisturbed
      BY <2>2 DEF AllocRead, AllocTake, AllocWrite, FreeRead, FreeCopy, Reads, vars, misfiling,
                  Undisturbed
    <2>3. ASSUME CrashThreads \/ (\E b \in DataBlocks : WriteOwned(b)) \/ UNCHANGED allVars
          PROVE  Undisturbed
      BY <2>3 DEF CrashThreads, WriteOwned, allVars, vars, threadVars, misfiling, Undisturbed
    <2> QED
      BY <2>1, <2>2, <2>3 DEF ThreadsNext
  <1>2. ThreadsInv
    BY <1>1 DEF UntilDisturbed
  <1>3. ASSUME NEW t \in Threads,
               \/ AllocRead(t)
               \/ AllocTake(t)
               \/ AllocWrite(t)
               \/ \E b \in DataBlocks : FreeRead(t, b)
               \/ FreeCopy(t)
               \/ FreeWrite(t)
        PROVE  ThreadsInv'
    BY <1>2, <1>3, AllocReadInv, AllocTakeInv, AllocWriteInv, FreeReadInv, FreeCopyInv,
       FreeWriteInv
  <1>4. ASSUME NEW b \in DataBlocks, WriteOwned(b)
        PROVE  ThreadsInv'
    BY <1>2, <1>4, WriteOwnedInv
  <1>5. CASE CrashThreads
    BY <1>2, <1>5, CrashThreadsInv
  <1>6. CASE UNCHANGED allVars
    BY <1>2, <1>6, ThreadsStutterInv
  <1> QED
    BY <1>3, <1>4, <1>5, <1>6 DEF ThreadsNext

-----------------------------------------------------------------------------
(* The theorems.                                                           *)

\* The invariant holds in every reachable state.
LEMMA ThreadsInvAlways ==
    ASSUME Backed
    PROVE  ThreadsSpec => []UntilDisturbed
  <1>1. ThreadsInit => UntilDisturbed
    BY ThreadsInitInv DEF UntilDisturbed
  <1>2. UntilDisturbed /\ [ThreadsNext]_allVars => UntilDisturbed'
    BY ThreadsStepInv
  <1> QED
    BY <1>1, <1>2, PTL DEF ThreadsSpec

\* On a medium that has every block, any number of threads inside blockAlloc and
\* blockFree, each pair kept apart by its own mutex only and interleaved in every
\* way, leave the chain of arrays intact and never own the same block, until a
\* blockFree writes a list that an allocation has written since it read it, or
\* puts its block into the link slot of the tail array.
THEOREM ListSurvives ==
    ASSUME Backed
    PROVE  ThreadsSpec => []ListSurvivesThreads
  <1>1. UntilDisturbed => ListSurvivesThreads
    BY DEF UntilDisturbed, ThreadsInv, ListInv, ListSurvivesThreads
  <1> QED
    BY <1>1, ThreadsInvAlways, PTL

\* On a medium that has every block, and until the same things happen, the block
\* that a blockAlloc has chosen stays free, and no other thread's, until the list
\* is written, whatever is freed in the meantime.
THEOREM ChoiceIsSafe ==
    ASSUME Backed
    PROVE  ThreadsSpec => []ChosenStaysFree
  <1>1. UntilDisturbed => ChosenStaysFree
    <2> SUFFICES ASSUME UntilDisturbed, Undisturbed, NEW t \in Allocating, block[t] # 0
                 PROVE  /\ block[t] \in Range(pile) \ owned
                        /\ \A u \in Threads \ {t} : block[u] # block[t]
      BY DEF ChosenStaysFree
    <2>1. /\ Types /\ OneState /\ ThreadsType /\ OneEach
          /\ \A u \in Threads : AllocView(u) /\ FreeView(u)
      BY DEF UntilDisturbed, ThreadsInv, ListInv
    <2>2. t \in Threads /\ pc[t] = "storing"
      BY <2>1 DEF Allocating, AllocView
    <2>3. /\ block[t] = TopOf(mine[t]) /\ Below(mine[t], pile)
          /\ mine[t] \in Seq(DataBlocks) /\ pile \in Seq(DataBlocks)
      BY <2>1, <2>2 DEF AllocView, ThreadsType, Types
    <2>4. mine[t] # << >> /\ block[t] = mine[t][Len(mine[t])]
      BY <2>3 DEF TopOf
    <2>5. Len(mine[t]) \in 1..Len(mine[t]) /\ Len(mine[t]) \in 1..Len(pile)
      BY <2>3, <2>4, EmptySeq DEF Below
    <2>6. block[t] = pile[Len(mine[t])]
      BY <2>3, <2>4, <2>5 DEF Below
    <2>7. block[t] \notin owned
      BY <2>1, <2>5, <2>6 DEF OneState
    <2>8. block[t] \in Range(pile)
      BY <2>3, <2>5, <2>6, RangeEquality
    <2>9. ASSUME NEW u \in Threads \ {t}
          PROVE  block[u] # block[t]
      <3>1. pc[u] \notin {"taking", "storing"}
        BY <2>1, <2>2 DEF OneEach, Allocating
      <3>2. pc[u] \in {"idle", "freeing", "spilled"}
        BY <3>1, <2>1 DEF ThreadsType, Places
      <3> QED
        BY <3>2, <2>1, <2>7 DEF AllocView, FreeView
    <2> QED
      BY <2>7, <2>8, <2>9
  <1> QED
    BY <1>1, ThreadsInvAlways, PTL
=============================================================================
