-------------------------- MODULE INodeListProofs ---------------------------
(***************************************************************************)
(* The list of free inodes is a stack that neither overflows nor empties,  *)
(* for every size of the list and every number of inodes, and whenever the *)
(* machine stops.                                                          *)
(***************************************************************************)
EXTENDS INodeList, FiniteSetTheorems, FunctionTheorems, SequenceTheorems, TLAPS

\* What holds between the two writes of a call.  The inode being allocated is
\* still the top of the list, with another below it; the one being freed is
\* free on the disk and still the caller's.
InCall ==
    /\ allocating # 0 => /\ Len(pile) >= 2
                         /\ allocating = pile[Len(pile)]
                         /\ allocating \in used
    /\ freeing # 0 => freeing \in inUse \ used
    /\ allocating = 0 \/ freeing = 0

\* The inductive invariant.  SaveNeverFails follows from it: the list has no
\* more entries than mkfs listed inodes, since it lists none twice (Conserved).
Inv == TypeOK /\ Represents /\ Conserved /\ TypesAgree /\ InCall

-----------------------------------------------------------------------------
(* Piles of inodes.                                                        *)

\* 0 stands for no inode, and every inode listed is on the disk.
LEMMA ListedFacts ==
    /\ Listed \subseteq INodes
    /\ 0 \notin Listed
    /\ ErrorINode \notin Listed \union {0}
    /\ ListSize \in Nat /\ ListSize >= 2
  BY INodeSizes DEF Listed, INodes, ErrorINode

\* A pile that lists no inode twice fits into the list.
LEMMA PileFits ==
    ASSUME NEW p \in Seq(Listed),
           \A i, j \in 1..Len(p) : p[i] = p[j] => i = j
    PROVE  Len(p) <= ListSize
  <1>1. Len(p) \in Nat /\ p \in [1..Len(p) -> Listed]
    BY LenProperties
  <1>2. p \in Injection(1..Len(p), Listed)
    BY <1>1, Fun_IsInj
  <1>3. IsFiniteSet(Listed) /\ Cardinality(Listed) = ListSize
    BY ListedFacts, FS_Interval DEF Listed
  <1>4. Cardinality(1..Len(p)) = Len(p)
    <2>1. Cardinality(1..Len(p)) = IF 1 > Len(p) THEN 0 ELSE Len(p) - 1 + 1
      BY <1>1, FS_Interval
    <2> QED
      BY <2>1, <1>1
  <1>5. Cardinality(1..Len(p)) <= Cardinality(Listed)
    BY <1>2, <1>3, FS_Injection
  <1> QED
    BY <1>3, <1>4, <1>5

\* A pile that lists no inode twice and leaves one out does not fill the list.
LEMMA PileLeavesRoom ==
    ASSUME NEW p \in Seq(Listed), NEW e \in Listed,
           \A i, j \in 1..Len(p) : p[i] = p[j] => i = j,
           \A i \in 1..Len(p) : p[i] # e
    PROVE  Len(p) < ListSize
  <1>1. /\ Append(p, e) \in Seq(Listed)
        /\ Len(p) \in Nat
        /\ Len(Append(p, e)) = Len(p) + 1
        /\ \A i \in 1..Len(p) : Append(p, e)[i] = p[i]
        /\ Append(p, e)[Len(p) + 1] = e
    BY AppendProperties, LenProperties
  <1>2. \A i, j \in 1..Len(Append(p, e)) : Append(p, e)[i] = Append(p, e)[j] => i = j
    <2> TAKE i, j \in 1..Len(Append(p, e))
    <2>1. i \in 1..Len(p) \/ i = Len(p) + 1
      BY <1>1
    <2>2. j \in 1..Len(p) \/ j = Len(p) + 1
      BY <1>1
    <2> QED
      BY <2>1, <2>2, <1>1
  <1>3. Len(Append(p, e)) <= ListSize
    BY <1>1, <1>2, PileFits
  <1> QED
    BY <1>1, <1>3, ListedFacts

\* What is on a pile, and where nothing is.
LEMMA AtFacts ==
    ASSUME NEW p \in Seq(Listed), NEW q \in Int
    PROVE  /\ q >= 1 /\ q <= Len(p) => At(p, q) = p[q] /\ p[q] \in Listed /\ At(p, q) # 0
           /\ ~(q >= 1 /\ q <= Len(p)) => At(p, q) = 0
  BY ListedFacts DEF At

\* Both functions find the top of the pile in the first slot in use.
LEMMA FirstListedIsTop ==
    ASSUME TypeOK, Represents, Len(pile) <= ListSize
    PROVE  /\ firstListed = ListSize - Len(pile)
           /\ firstListed \in Slots
           /\ iNodeNos[firstListed] = pile[Len(pile)]
           /\ pile[Len(pile)] \in Listed
           /\ Len(pile) \in Nat /\ Len(pile) >= 1
  <1> DEFINE n == Len(pile)
             c == ListSize - n
             P(s) == iNodeNos[s] # 0 /\ \A t \in Slots : t < s => iNodeNos[t] = 0
  <1>1. pile \in Seq(Listed) /\ n \in Nat /\ n >= 1 /\ n <= ListSize /\ ListSize \in Nat
    BY ListedFacts DEF TypeOK, Represents
  <1>2. c \in Slots /\ c \in Int
    BY <1>1 DEF Slots
  <1>3. ASSUME NEW s \in Slots
        PROVE  iNodeNos[s] = At(pile, ListSize - s) /\ ListSize - s \in Int /\ s \in Int
    BY <1>1 DEF Represents, Slots
  <1>4. iNodeNos[c] = pile[n] /\ iNodeNos[c] # 0 /\ pile[n] \in Listed
    <2>1. ListSize - c = n
      BY <1>1
    <2>2. At(pile, n) = pile[n] /\ At(pile, n) # 0 /\ pile[n] \in Listed
      BY <1>1, AtFacts
    <2> QED
      BY <2>1, <2>2, <1>2, <1>3
  <1>5. ASSUME NEW s \in Slots, s < c
        PROVE  iNodeNos[s] = 0
    <2>1. ListSize - s > n
      BY <1>1, <1>3, <1>5
    <2> QED
      BY <2>1, <1>1, <1>3, AtFacts
  <1>6. ASSUME NEW s \in Slots, P(s)
        PROVE  s = c
    <2>1. ~(s < c)
      BY <1>5, <1>6
    <2>2. ~(c < s)
      BY <1>2, <1>4, <1>6
    <2> HIDE DEF c
    <2> QED
      BY <2>1, <2>2, <1>2, <1>3
  <1>7. (CHOOSE s \in Slots : P(s)) = c
    <2>1. P(c)
      BY <1>4, <1>5
    <2> HIDE DEF P, c
    <2> QED
      BY <2>1, <1>2, <1>6
  <1>8. firstListed = c
    BY <1>2, <1>4, <1>7 DEF firstListed
  <1> QED
    BY <1>1, <1>2, <1>4, <1>8

\* What an invariant state lists, and what checkAndGetFreeINode makes of it.
LEMMA ListFacts ==
    ASSUME Inv
    PROVE  /\ pile \in Seq(Listed)
           /\ Len(pile) \in Nat /\ Len(pile) >= 1 /\ Len(pile) <= ListSize
           /\ firstListed = ListSize - Len(pile)
           /\ firstListed \in Slots
           /\ pile[Len(pile)] \in Listed
           /\ checkAndGetFreeINode = IF Len(pile) = 1 THEN ErrorINode ELSE pile[Len(pile)]
           /\ \A i \in inUse : Len(pile) < ListSize
  <1>1. TypeOK /\ Represents /\ Conserved
    BY DEF Inv
  <1>2. pile \in Seq(Listed) /\ inUse \subseteq Listed
    BY <1>1 DEF TypeOK
  <1>3. Len(pile) <= ListSize
    BY <1>1, <1>2, PileFits DEF Conserved
  <1>4. /\ firstListed = ListSize - Len(pile)
        /\ firstListed \in Slots
        /\ iNodeNos[firstListed] = pile[Len(pile)]
        /\ pile[Len(pile)] \in Listed
        /\ Len(pile) \in Nat /\ Len(pile) >= 1
    BY <1>1, <1>3, FirstListedIsTop
  <1>5. checkAndGetFreeINode = IF Len(pile) = 1 THEN ErrorINode ELSE pile[Len(pile)]
    <2>1. firstListed + 1 >= ListSize <=> Len(pile) = 1
      <3>1. \A n, s \in Int : n >= 1 => ((s - n) + 1 >= s <=> n = 1)
        OBVIOUS
      <3>2. Len(pile) \in Int /\ ListSize \in Int /\ Len(pile) >= 1
        BY <1>4, ListedFacts
      <3> QED
        BY <3>1, <3>2, <1>4
    <2> QED
      BY <2>1, <1>4 DEF checkAndGetFreeINode
  <1>6. ASSUME NEW i \in inUse
        PROVE  Len(pile) < ListSize
    <2>1. \A j, k \in 1..Len(pile) : pile[j] = pile[k] => j = k
      BY <1>1 DEF Conserved
    <2>2. i \in Listed /\ \A j \in 1..Len(pile) : pile[j] # i
      BY <1>1, <1>2 DEF Conserved
    <2> QED
      BY <2>1, <2>2, <1>2, PileLeavesRoom
  <1> QED
    BY <1>2, <1>3, <1>4, <1>5, <1>6

-----------------------------------------------------------------------------
(* The initial state and the steps.                                        *)

\* mkfs lists the inodes with the lowest number on top.
LEMMA InitInv ==
    ASSUME Init
    PROVE  Inv
  <1>1. /\ iNodeNos = [s \in Slots |-> s + 1]
        /\ used = {0} /\ allocating = 0 /\ freeing = 0
        /\ inUse = {} /\ lost = {} /\ ret = 0
        /\ pile = [h \in 1..ListSize |-> ListSize + 1 - h]
    BY DEF Init
  <1>2. \A h \in 1..ListSize : ListSize + 1 - h \in Listed
    BY ListedFacts DEF Listed
  <1>3. pile \in Seq(Listed) /\ Len(pile) = ListSize
    <2>1. pile \in [1..ListSize -> Listed]
      BY <1>1, <1>2
    <2> QED
      BY <2>1, ListedFacts
  <1>4. TypeOK
    <2>1. iNodeNos \in [Slots -> Listed \union {0}]
      BY <1>1, ListedFacts DEF Slots, Listed
    <2>2. 0 \in INodes
      BY INodeSizes DEF INodes
    <2> QED
      BY <1>1, <1>3, <2>1, <2>2 DEF TypeOK
  <1>5. Represents
    <2>1. ASSUME NEW s \in Slots
          PROVE  s + 1 = At(pile, ListSize - s)
      <3>1. ListSize - s \in 1..Len(pile) /\ ListSize - s \in 1..ListSize
        BY <1>3, ListedFacts DEF Slots
      <3>2. pile[ListSize - s] = ListSize + 1 - (ListSize - s)
        BY <3>1, <1>1
      <3> QED
        BY <3>1, <3>2, ListedFacts DEF At, Slots
    <2>2. Len(pile) >= 1
      BY <1>3, ListedFacts
    <2> QED
      BY <2>1, <2>2, <1>1 DEF Represents
  <1>6. Conserved
    <2>1. \A i, j \in 1..Len(pile) : pile[i] = pile[j] => i = j
      BY <1>1, <1>3, ListedFacts
    <2>2. ASSUME NEW i \in Listed
          PROVE  \E h \in 1..Len(pile) : pile[h] = i
      <3>1. ListSize + 1 - i \in 1..Len(pile)
        BY <1>3, ListedFacts DEF Listed
      <3>2. pile[ListSize + 1 - i] = i
        BY <3>1, <1>1, <1>3, ListedFacts DEF Listed
      <3> QED
        BY <3>1, <3>2
    <2>3. inUse = {} /\ lost = {}
      BY <1>1
    <2> QED
      BY <2>1, <2>2, <2>3 DEF Conserved
  <1>7. TypesAgree /\ InCall
    BY <1>1 DEF TypesAgree, InCall
  <1> QED
    BY <1>4, <1>5, <1>6, <1>7 DEF Inv

\* Writing the inode that is handed out.
LEMMA NewWriteInv ==
    ASSUME Inv, NewINodeWrite
    PROVE  Inv'
  <1> DEFINE i == pile[Len(pile)]
  <1>1. TypeOK /\ Represents /\ Conserved /\ TypesAgree
    BY DEF Inv
  <1>2. Len(pile) \in Nat /\ Len(pile) >= 2 /\ i \in Listed /\ checkAndGetFreeINode = i
    <2>1. Len(pile) # 1
      BY ListFacts DEF NewINodeWrite
    <2>2. Len(pile) \in Nat /\ Len(pile) >= 1 /\ i \in Listed /\ checkAndGetFreeINode = i
      BY <2>1, ListFacts
    <2> QED
      BY <2>1, <2>2
  <1>3. /\ freeing = 0 /\ freeing' = 0 /\ allocating' = i /\ used' = used \union {i}
        /\ iNodeNos' = iNodeNos /\ pile' = pile /\ inUse' = inUse /\ lost' = lost /\ ret' = ret
    BY <1>2 DEF NewINodeWrite
  <1>4. TypeOK'
    BY <1>1, <1>2, <1>3, ListedFacts DEF TypeOK
  <1>5. Represents' /\ Conserved'
    BY <1>1, <1>3 DEF Represents, Conserved
  <1>6. TypesAgree'
    <2>1. i \notin lost
      BY <1>1, <1>2 DEF Conserved
    <2> QED
      BY <1>1, <1>3, <2>1 DEF TypesAgree
  <1>7. InCall'
    BY <1>2, <1>3, ListedFacts DEF InCall
  <1> QED
    BY <1>4, <1>5, <1>6, <1>7 DEF Inv

\* Taking the inode off the list.
LEMMA NewCommitInv ==
    ASSUME Inv, NewINodeCommit
    PROVE  Inv'
  <1> DEFINE n == Len(pile)
             i == pile[n]
  <1>1. TypeOK /\ Represents /\ Conserved /\ TypesAgree /\ InCall
    BY DEF Inv
  <1>2. /\ pile \in Seq(Listed) /\ n \in Nat /\ n <= ListSize /\ i \in Listed
        /\ firstListed = ListSize - n /\ firstListed \in Slots
    BY ListFacts
  <1>3. allocating # 0 /\ n >= 2 /\ allocating = i /\ i \in used /\ freeing = 0
    BY <1>1 DEF NewINodeCommit, InCall
  <1>4. /\ iNodeNos' = [iNodeNos EXCEPT ![ListSize - n] = 0]
        /\ pile' = SubSeq(pile, 1, n - 1) /\ inUse' = inUse \union {i} /\ ret' = i
        /\ allocating' = 0 /\ freeing' = 0 /\ used' = used /\ lost' = lost
    BY <1>2, <1>3 DEF NewINodeCommit
  <1>5. pile' \in Seq(Listed) /\ Len(pile') = n - 1 /\ \A h \in 1..(n - 1) : pile'[h] = pile[h]
    <2>1. \A h \in 1..(n - 1) : pile[h] \in Listed
      BY <1>2
    <2>2. 1 \in Int /\ n - 1 \in Int
      BY <1>2
    <2>3. /\ SubSeq(pile, 1, n - 1) \in Seq(Listed)
          /\ Len(SubSeq(pile, 1, n - 1)) = IF 1 <= n - 1 THEN n - 1 - 1 + 1 ELSE 0
          /\ \A h \in 1..(n - 1 - 1 + 1) : SubSeq(pile, 1, n - 1)[h] = pile[1 + h - 1]
      BY ONLY <2>1, <2>2, SubSeqProperties
    <2>4. n - 1 - 1 + 1 = n - 1 /\ 1 <= n - 1
      BY <1>2, <1>3
    <2>5. \A h \in 1..(n - 1) : 1 + h - 1 = h
      OBVIOUS
    <2> HIDE DEF n
    <2> QED
      BY <2>3, <2>4, <2>5, <1>4
  <1>6. TypeOK'
    <2>1. iNodeNos' \in [Slots -> Listed \union {0}]
      BY <1>1, <1>4 DEF TypeOK
    <2> QED
      BY <1>1, <1>2, <1>4, <1>5, <2>1 DEF TypeOK
  <1>7. Represents'
    <2>1. ASSUME NEW s \in Slots
          PROVE  iNodeNos'[s] = At(pile', ListSize - s)
      <3>1. s \in Int /\ ListSize \in Int /\ ListSize - n \in Slots
            /\ iNodeNos[s] = At(pile, ListSize - s)
        BY <1>1, <1>2, ListedFacts DEF Represents, Slots
      <3>2. iNodeNos'[s] = IF s = ListSize - n THEN 0 ELSE iNodeNos[s]
        BY <1>1, <1>4, <3>1 DEF TypeOK
      <3>3. At(pile', ListSize - s) = IF ListSize - s = n THEN 0 ELSE At(pile, ListSize - s)
        <4>1. ListSize - s \in 1..(n - 1) \/ ListSize - s = n \/ ListSize - s \notin 1..n
          BY <3>1, <1>2
        <4> QED
          BY <4>1, <3>1, <1>2, <1>5, SMTT(20) DEF At
      <3>4. s = ListSize - n <=> ListSize - s = n
        BY <3>1, <1>2
      <3> QED
        BY <3>1, <3>2, <3>3, <3>4
    <2>2. iNodeNos' = [s \in Slots |-> iNodeNos'[s]]
      BY <1>6 DEF TypeOK
    <2>3. Len(pile') >= 1
      BY <1>2, <1>3, <1>5
    <2> QED
      BY <2>1, <2>2, <2>3 DEF Represents
  <1>8. Conserved'
    <2>1. \A g, h \in 1..Len(pile') : pile'[g] = pile'[h] => g = h
      BY <1>1, <1>2, <1>5, SMTT(20) DEF Conserved
    <2>2. \A h \in 1..Len(pile') : pile'[h] \notin inUse' \union lost'
      BY <1>1, <1>2, <1>3, <1>4, <1>5 DEF Conserved
    <2>3. inUse' \intersect lost' = {}
      <3>1. i \notin lost
        BY <1>1, <1>2, <1>3 DEF Conserved
      <3> QED
        BY <1>1, <1>4, <3>1 DEF Conserved
    <2>4. ASSUME NEW j \in Listed \ (inUse' \union lost')
          PROVE  \E h \in 1..Len(pile') : pile'[h] = j
      <3>1. j \in Listed \ (inUse \union lost) /\ j # i
        BY <1>4
      <3>2. PICK h \in 1..n : pile[h] = j
        BY <3>1, <1>1 DEF Conserved
      <3>3. h \in 1..(n - 1)
        BY <3>1, <3>2, <1>2
      <3> QED
        BY <3>2, <3>3, <1>5
    <2> QED
      BY <2>1, <2>2, <2>3, <2>4 DEF Conserved
  <1>9. TypesAgree' /\ InCall'
    BY <1>1, <1>3, <1>4 DEF TypesAgree, InCall
  <1> QED
    BY <1>6, <1>7, <1>8, <1>9 DEF Inv

\* Clearing the type of the inode that is freed.
LEMMA FreeWriteInv ==
    ASSUME Inv, NEW i \in Listed, FreeINodeWrite(i)
    PROVE  Inv'
  <1>1. TypeOK /\ Represents /\ Conserved /\ TypesAgree /\ InCall
    BY DEF Inv
  <1>2. /\ i \in inUse /\ i # 0 /\ freeing = 0 /\ allocating = 0
        /\ freeing' = i /\ used' = used \ {i} /\ allocating' = allocating
        /\ iNodeNos' = iNodeNos /\ pile' = pile /\ inUse' = inUse /\ lost' = lost /\ ret' = ret
    BY ListedFacts DEF FreeINodeWrite
  <1>3. TypeOK'
    BY <1>1, <1>2 DEF TypeOK
  <1>4. Represents' /\ Conserved'
    BY <1>1, <1>2 DEF Represents, Conserved
  <1>5. TypesAgree'
    <2>1. 0 \notin inUse
      BY <1>1, ListedFacts DEF TypeOK
    <2> QED
      BY <1>1, <1>2, <2>1 DEF TypesAgree
  <1>6. InCall'
    BY <1>2 DEF InCall
  <1> QED
    BY <1>3, <1>4, <1>5, <1>6 DEF Inv

\* Listing the inode that is freed: there is a slot before the first in use.
LEMMA FreeCommitInv ==
    ASSUME Inv, FreeINodeCommit
    PROVE  Inv'
  <1> DEFINE n == Len(pile)
             i == freeing
  <1>1. TypeOK /\ Represents /\ Conserved /\ TypesAgree /\ InCall
    BY DEF Inv
  <1>2. i # 0 /\ i \in inUse /\ i \in Listed /\ i \notin used /\ allocating = 0
    BY <1>1 DEF FreeINodeCommit, InCall, TypeOK
  <1>3. /\ pile \in Seq(Listed) /\ n \in Nat /\ n >= 1 /\ n < ListSize
        /\ firstListed = ListSize - n /\ firstListed \in Slots
    BY <1>2, ListFacts
  <1>4. ListSize - n - 1 \in Slots /\ firstListed \in Slots \ {0}
    BY <1>3, ListedFacts DEF Slots
  <1>5. /\ iNodeNos' = [iNodeNos EXCEPT ![ListSize - n - 1] = i]
        /\ pile' = Append(pile, i) /\ inUse' = inUse \ {i} /\ freeing' = 0
        /\ used' = used /\ allocating' = allocating /\ lost' = lost /\ ret' = ret
    BY <1>3, <1>4 DEF FreeINodeCommit, saveInListIfPossible
  <1>6. /\ pile' \in Seq(Listed) /\ Len(pile') = n + 1
        /\ pile'[n + 1] = i /\ \A h \in 1..n : pile'[h] = pile[h]
    BY <1>2, <1>3, <1>5, AppendProperties
  <1>7. TypeOK'
    <2>1. iNodeNos' \in [Slots -> Listed \union {0}]
      BY <1>1, <1>2, <1>5 DEF TypeOK
    <2> QED
      BY <1>1, <1>5, <1>6, <2>1 DEF TypeOK
  <1>8. Represents'
    <2>1. ASSUME NEW s \in Slots
          PROVE  iNodeNos'[s] = At(pile', ListSize - s)
      <3>1. s \in Int /\ ListSize \in Int /\ iNodeNos[s] = At(pile, ListSize - s)
        BY <1>1, ListedFacts DEF Represents, Slots
      <3>2. iNodeNos'[s] = IF s = ListSize - n - 1 THEN i ELSE iNodeNos[s]
        BY <1>1, <1>4, <1>5, <3>1 DEF TypeOK
      <3>3. At(pile', ListSize - s) = IF ListSize - s = n + 1 THEN i ELSE At(pile, ListSize - s)
        <4>1. CASE ListSize - s = n + 1
          <5>1. n + 1 \in 1..Len(pile')
            BY <1>3, <1>6
          <5> QED
            BY <4>1, <5>1, <1>6 DEF At
        <4>2. CASE ListSize - s # n + 1
          BY <4>2, <3>1, <1>3, <1>6, SMTT(20) DEF At
        <4> QED
          BY <4>1, <4>2
      <3>4. s = ListSize - n - 1 <=> ListSize - s = n + 1
        BY <3>1, <1>3
      <3> QED
        BY <3>1, <3>2, <3>3, <3>4
    <2>2. iNodeNos' = [s \in Slots |-> iNodeNos'[s]]
      BY <1>7 DEF TypeOK
    <2>3. Len(pile') >= 1
      BY <1>3, <1>6
    <2> QED
      BY <2>1, <2>2, <2>3 DEF Represents
  <1>9. Conserved'
    <2>1. \A h \in 1..n : pile[h] # i
      BY <1>1, <1>2 DEF Conserved
    <2>2. \A g, h \in 1..Len(pile') : pile'[g] = pile'[h] => g = h
      <3> TAKE g, h \in 1..Len(pile')
      <3>1. (g \in 1..n \/ g = n + 1) /\ (h \in 1..n \/ h = n + 1)
        BY <1>3, <1>6
      <3> QED
        BY <3>1, <2>1, <1>1, <1>6 DEF Conserved
    <2>3. \A h \in 1..Len(pile') : pile'[h] \notin inUse' \union lost'
      <3> TAKE h \in 1..Len(pile')
      <3>1. h \in 1..n \/ h = n + 1
        BY <1>3, <1>6
      <3>2. i \notin lost
        BY <1>1, <1>2 DEF Conserved
      <3> QED
        BY <3>1, <3>2, <1>1, <1>5, <1>6 DEF Conserved
    <2>4. inUse' \intersect lost' = {}
      BY <1>1, <1>5 DEF Conserved
    <2>5. ASSUME NEW j \in Listed \ (inUse' \union lost')
          PROVE  \E h \in 1..Len(pile') : pile'[h] = j
      <3>1. CASE j = i
        <4>1. n + 1 \in 1..Len(pile')
          BY <1>3, <1>6
        <4> QED
          BY <3>1, <4>1, <1>6
      <3>2. CASE j # i
        <4>1. PICK h \in 1..n : pile[h] = j
          BY <3>2, <1>1, <1>5 DEF Conserved
        <4>2. h \in 1..Len(pile')
          BY <1>3, <1>6
        <4> QED
          BY <4>1, <4>2, <1>6
      <3> QED
        BY <3>1, <3>2
    <2> QED
      BY <2>2, <2>3, <2>4, <2>5 DEF Conserved
  <1>10. TypesAgree' /\ InCall'
    BY <1>1, <1>2, <1>5 DEF TypesAgree, InCall
  <1> QED
    BY <1>7, <1>8, <1>9, <1>10 DEF Inv

\* A crash, which loses the inode being freed, and a call that fails.
LEMMA OtherInv ==
    ASSUME Inv, Crash \/ NewINodeFails \/ UNCHANGED vars
    PROVE  Inv'
  <1>1. TypeOK /\ Represents /\ Conserved /\ TypesAgree /\ InCall
    BY DEF Inv
  <1>2. CASE Crash
    <2>1. /\ inUse' = inUse \ {freeing} /\ lost' = lost \union ({freeing} \ {0})
          /\ allocating' = 0 /\ freeing' = 0
          /\ iNodeNos' = iNodeNos /\ used' = used /\ pile' = pile /\ ret' = ret
      BY <1>2 DEF Crash
    <2>2. freeing = 0 \/ freeing \in inUse \ used
      BY <1>1 DEF InCall
    <2>3. inUse \subseteq Listed /\ 0 \notin Listed
      BY <1>1, ListedFacts DEF TypeOK
    <2>4. TypeOK'
      BY <1>1, <2>1, <2>2, <2>3 DEF TypeOK
    <2>5. Represents'
      BY <1>1, <2>1 DEF Represents
    <2>6. Conserved'
      <3>1. inUse' \union lost' = inUse \union lost
        BY <2>1, <2>2, <2>3
      <3>2. inUse' \intersect lost' = {}
        BY <1>1, <2>1, <2>2 DEF Conserved
      <3> QED
        BY <1>1, <2>1, <3>1, <3>2 DEF Conserved
    <2>7. TypesAgree' /\ InCall'
      BY <1>1, <2>1, <2>2, <2>3 DEF TypesAgree, InCall
    <2> QED
      BY <2>4, <2>5, <2>6, <2>7 DEF Inv
  <1>3. CASE NewINodeFails
    BY <1>1, <1>3 DEF NewINodeFails, Inv, TypeOK, Represents, Conserved, TypesAgree, InCall
  <1>4. CASE UNCHANGED vars
    BY <1>1, <1>4 DEF vars, Inv, TypeOK, Represents, Conserved, TypesAgree, InCall
  <1> QED
    BY <1>2, <1>3, <1>4

\* Every step keeps the invariant.
LEMMA StepInv ==
    ASSUME Inv, [Next]_vars
    PROVE  Inv'
  <1>1. CASE NewINodeWrite
    BY <1>1, NewWriteInv
  <1>2. CASE NewINodeCommit
    BY <1>2, NewCommitInv
  <1>3. ASSUME NEW i \in Listed, FreeINodeWrite(i)
        PROVE  Inv'
    BY <1>3, FreeWriteInv
  <1>4. CASE FreeINodeCommit
    BY <1>4, FreeCommitInv
  <1>5. CASE Crash \/ NewINodeFails \/ UNCHANGED vars
    BY <1>5, OtherInv
  <1> QED
    BY <1>1, <1>2, <1>3, <1>4, <1>5 DEF Next

\* The invariant holds in every state.
LEMMA InvAlways == Spec => []Inv
  <1>1. Init => Inv
    BY InitInv
  <1>2. Inv /\ [Next]_vars => Inv'
    BY StepInv
  <1> QED
    BY <1>1, <1>2, PTL DEF Spec

-----------------------------------------------------------------------------
(* The theorems.                                                           *)

\* Every variable keeps its type: getNewINode and freeINode write nothing but
\* numbers of inodes mkfs has listed, and 0, into the list.
THEOREM TypeCorrect == Spec => []TypeOK
  <1>1. Inv => TypeOK
    BY DEF Inv
  <1> QED
    BY <1>1, InvAlways, PTL

\* The list on the disk is the stack of free inodes, right aligned, and one is
\* always left: what freeINode lists is what getNewINode hands out next.
THEOREM ListIsStack == Spec => []Represents
  <1>1. Inv => Represents
    BY DEF Inv
  <1> QED
    BY <1>1, InvAlways, PTL

\* No inode is handed out twice, and none is lost but by a crash inside a free.
THEOREM INodesConserved == Spec => []Conserved
  <1>1. Inv => Conserved
    BY DEF Inv
  <1> QED
    BY <1>1, InvAlways, PTL

\* The branch of freeINode for a list without room is never taken, nor the one
\* of saveInListIfPossible that finds no inode listed.
THEOREM FreeFindsRoom == Spec => []SaveNeverFails
  <1>1. Inv => SaveNeverFails
    <2> SUFFICES ASSUME Inv, NEW i \in inUse PROVE firstListed \in 1..(ListSize - 1)
      BY DEF SaveNeverFails
    <2>1. /\ Len(pile) \in Nat /\ Len(pile) >= 1 /\ Len(pile) < ListSize
          /\ firstListed = ListSize - Len(pile)
      BY ListFacts
    <2> QED
      BY <2>1, ListedFacts
  <1> QED
    BY <1>1, InvAlways, PTL

\* The types on the disk agree with what the callers hold, and the inodes that
\* crashes have lost are free there.
THEOREM TypesOnDiskAgree == Spec => []TypesAgree
  <1>1. Inv => TypesAgree
    BY DEF Inv
  <1> QED
    BY <1>1, InvAlways, PTL
=============================================================================
