--------------------------- MODULE FileDataProofs ---------------------------
(***************************************************************************)
(* The loops that write, grow, shrink and delete files keep every block in *)
(* one place, for every number of files and blocks and every block size.   *)
(***************************************************************************)
EXTENDS FileData, SequenceTheorems, WellFoundedInduction, TLAPS

B == BLOCK_SIZE

\* The blocks a file has.
Count(f) == NumOf(size[f])

\* size and nums are functions of the files.
Shape ==
    /\ size \in [Files -> Nat]
    /\ nums = [f \in Files |-> nums[f]]

\* What the passes of a call that is served find.  A write the code can keep
\* track of either appends from here on, or stays within the file, or ends it
\* at a block boundary before it appends, or starts over its only block.
Progress ==
    /\ done \in Nat
    /\ req = NoRequest => done = 0
    /\ Serving("write") => done < req.n
    /\ tidy /\ Serving("write") =>
          \/ req.offset + done >= size[req.file]
          \/ req.offset + req.n <= size[req.file]
          \/ size[req.file] % B = 0 /\ req.n <= size[req.file]
          \/ req.offset + done = 0 /\ size[req.file] <= B

\* BlocksAccounted, block by block, and a link that is on the list.
Accounts ==
    /\ \A f, g \in Files : \A i \in 0..(Count(f) - 1), j \in 0..(Count(g) - 1) :
          nums[f][i] = nums[g][j] => (f = g /\ i = j) \/ nums[f][i] = 0
    /\ \A f \in Files : \A i \in 0..(Count(f) - 1) :
          nums[f][i] \notin free /\ (nums[f][i] = 0 => f \in full)
    /\ link \in free \union {0}
    /\ tidy => \A b \in Blocks \ free :
          \E f \in Files : \E i \in 0..(Count(f) - 1) : nums[f][i] = b

Accounted == sound => Accounts

\* The inductive invariant.
Inv == Shape /\ TypeOK /\ Progress /\ Accounted

-----------------------------------------------------------------------------
(* Division by the block size.                                             *)

\* Quotient and remainder.
LEMMA DivFacts ==
    ASSUME NEW a \in Nat
    PROVE  /\ B \in Nat /\ B > 0
           /\ a \div B \in Nat /\ a % B \in 0..(B - 1)
           /\ a % B = a - B * (a \div B)
           /\ B * (a \div B) <= a /\ a < B * (a \div B) + B
  <1>1. B \in Nat /\ B > 0
    BY FileDataAssumption DEF B
  <1>2. a \div B \in Nat
    BY <1>1
  <1>3. a % B \in 0..(B - 1)
    BY <1>1
  <1>4. a % B = a - B * (a \div B)
    BY <1>1
  <1>5. B * (a \div B) <= a
    BY <1>1
  <1>6. a < B * (a \div B) + B
    BY <1>1
  <1> QED
    BY <1>1, <1>2, <1>3, <1>4, <1>5, <1>6

\* Multiples of the block size are at least that far apart.
LEMMA Multiples ==
    ASSUME NEW p \in Int, NEW q \in Int
    PROVE  /\ B * p \in Int /\ B * q \in Int
           /\ p < q => B * p + B <= B * q
           /\ p <= q => B * p <= B * q
           /\ B * p < B * q => p < q
           /\ B * p < B * q + B => p <= q
           /\ B * (p + 1) = B * p + B /\ B * (p - 1) = B * p - B
  <1>1. B \in Nat /\ B > 0
    BY FileDataAssumption DEF B
  <1>2. /\ B * p \in Int /\ B * q \in Int
        /\ B * (p + 1) = B * p + B /\ B * (p - 1) = B * p - B
    BY <1>1
  <1>3. p < q => B * p + B <= B * q
    BY <1>1
  <1>4. q < p => B * q + B <= B * p
    BY <1>1
  <1>5. p = q => B * p = B * q
    OBVIOUS
  <1> QED
    BY <1>1, <1>2, <1>3, <1>4, <1>5

\* The quotient is the only number of whole blocks that fits.
LEMMA QuotientIs ==
    ASSUME NEW a \in Nat, NEW q \in Int, B * q <= a, a < B * q + B
    PROVE  a \div B = q
  <1>1. /\ a \div B \in Int /\ B * (a \div B) <= a /\ a < B * (a \div B) + B
        /\ B * (a \div B) \in Int /\ B * q \in Int /\ B \in Int
    BY DivFacts, Multiples
  <1>2. B * q < B * (a \div B) + B /\ B * (a \div B) < B * q + B
    BY <1>1
  <1>3. q <= a \div B
    BY <1>1, <1>2, Multiples
  <1>4. a \div B <= q
    BY <1>1, <1>2, Multiples
  <1> QED
    BY <1>1, <1>3, <1>4

\* NumOf is the least number of blocks that holds so many bytes.
LEMMA NumFacts ==
    ASSUME NEW l \in Nat
    PROVE  /\ NumOf(l) \in Nat /\ B * NumOf(l) \in Int
           /\ l <= B * NumOf(l) /\ B * NumOf(l) < l + B
           /\ l > 0 => NumOf(l) = ((l - 1) \div B) + 1
           /\ l = 0 => NumOf(l) = 0
           /\ \A k \in Int : l <= B * k /\ B * k < l + B => NumOf(l) = k
  <1>0. B \in Nat /\ B > 0
    BY FileDataAssumption DEF B
  <1> DEFINE a == l + B - 1
  <1>1. a \in Nat /\ NumOf(l) = a \div B
    BY <1>0 DEF NumOf, B
  <1> HIDE DEF a
  <1>2. /\ NumOf(l) \in Nat /\ B * NumOf(l) <= a /\ a < B * NumOf(l) + B
        /\ B * NumOf(l) \in Int
    BY <1>1, DivFacts, Multiples
  <1>3. a = l + B - 1
    BY DEF a
  <1>4. l <= B * NumOf(l) /\ B * NumOf(l) < l + B
    BY <1>0, <1>2, <1>3
  <1>5. ASSUME NEW k \in Int, l <= B * k, B * k < l + B
        PROVE  NumOf(l) = k
    <2>1. B * k \in Int
      BY Multiples
    <2>2. B * k <= a /\ a < B * k + B
      BY <2>1, <1>0, <1>3, <1>5
    <2> QED
      BY <2>2, <1>1, QuotientIs
  <1>6. ASSUME l > 0
        PROVE  NumOf(l) = ((l - 1) \div B) + 1
    <2> DEFINE q == (l - 1) \div B
    <2>1. l - 1 \in Nat
      BY <1>6
    <2>2. q \in Nat /\ B * q <= l - 1 /\ l - 1 < B * q + B
      BY <2>1, DivFacts
    <2> HIDE DEF q
    <2>3. B * q \in Int /\ B * (q + 1) = B * q + B
      BY <2>2, Multiples
    <2>4. l <= B * (q + 1) /\ B * (q + 1) < l + B /\ q + 1 \in Int
      BY <2>2, <2>3, <1>0
    <2> QED
      BY <2>4, <1>5 DEF q
  <1>7. ASSUME l = 0
        PROVE  NumOf(l) = 0
    <2>1. l <= B * 0 /\ B * 0 < l + B
      BY <1>0, <1>7
    <2> QED
      BY <2>1, <1>5
  <1> QED
    BY <1>2, <1>4, <1>5, <1>6, <1>7

\* More bytes take no fewer blocks.
LEMMA NumMono ==
    ASSUME NEW l \in Nat, NEW m \in Nat, l <= m
    PROVE  NumOf(l) <= NumOf(m)
  <1>1. /\ NumOf(l) \in Int /\ NumOf(m) \in Int /\ B \in Int
        /\ B * NumOf(l) < l + B /\ m <= B * NumOf(m)
        /\ B * NumOf(l) \in Int /\ B * NumOf(m) \in Int
    BY NumFacts, DivFacts
  <1>2. B * NumOf(l) < B * NumOf(m) + B
    BY <1>1
  <1> QED
    BY <1>1, <1>2, Multiples

\* Bytes appended within the block of the end of the file.
LEMMA AppendNum ==
    ASSUME NEW s \in Nat, NEW n \in Nat, n > 0, n <= bytesLeftInBlock(s)
    PROVE  /\ s % B = 0 => NumOf(s) = s \div B /\ NumOf(s + n) = s \div B + 1
           /\ s % B # 0 => NumOf(s) = s \div B + 1 /\ NumOf(s + n) = NumOf(s)
  <1>0. B \in Nat /\ B > 0
    BY FileDataAssumption DEF B
  <1> DEFINE q == s \div B
  <1>1. q \in Nat /\ s % B = s - B * q /\ B * q <= s /\ s < B * q + B
    BY DivFacts
  <1>2. n <= B - (s - B * q)
    BY <1>1 DEF bytesLeftInBlock, B
  <1> HIDE DEF q
  <1>3. B * q \in Int /\ B * (q + 1) = B * q + B /\ q + 1 \in Int
    BY <1>1, Multiples
  <1>4. s + n \in Nat /\ s + n <= B * (q + 1) /\ B * (q + 1) < s + n + B
    BY <1>0, <1>1, <1>2, <1>3
  <1>5. NumOf(s + n) = q + 1
    BY <1>3, <1>4, NumFacts
  <1>6. CASE s % B = 0
    <2>1. s = B * q
      BY <1>1, <1>3, <1>6
    <2>2. s <= B * q /\ B * q < s + B
      BY <2>1, <1>0
    <2>3. NumOf(s) = q
      BY <1>1, <2>2, NumFacts
    <2> QED
      BY <2>3, <1>5, <1>6 DEF q
  <1>7. CASE s % B # 0
    <2>1. s > B * q
      BY <1>1, <1>3, <1>7
    <2>2. s <= B * (q + 1) /\ B * (q + 1) < s + B
      BY <2>1, <1>0, <1>1, <1>3
    <2>3. NumOf(s) = q + 1
      BY <1>3, <2>2, NumFacts
    <2> QED
      BY <2>3, <1>5, <1>7 DEF q
  <1> QED
    BY <1>6, <1>7

\* Bytes written within a block that the file has.
LEMMA WithinNum ==
    ASSUME NEW s \in Nat, NEW o \in Nat, o < s, NEW n \in Nat, n <= bytesLeftInBlock(o)
    PROVE  /\ NumOf(o + n) <= NumOf(s) /\ NumOf(n) <= NumOf(s)
           /\ s % B = 0 => o + n <= s
  <1>0. B \in Nat /\ B > 0
    BY FileDataAssumption DEF B
  <1> DEFINE q == o \div B
             k == NumOf(s)
  <1>1. q \in Nat /\ o % B = o - B * q /\ B * q <= o /\ o < B * q + B
    BY DivFacts
  <1>2. n <= B - (o - B * q)
    BY <1>1 DEF bytesLeftInBlock, B
  <1>3. k \in Nat /\ s <= B * k /\ B * k < s + B
    BY NumFacts
  <1> HIDE DEF q, k
  <1>4. B * q \in Int /\ B * k \in Int /\ B * (q + 1) = B * q + B
    BY <1>1, <1>3, Multiples
  <1>5. B * q < B * k
    BY <1>1, <1>3, <1>4
  <1>6. B * q + B <= B * k
    BY <1>5, <1>1, <1>3, Multiples
  <1>7. o + n <= B * k /\ o + n \in Nat
    BY <1>0, <1>1, <1>2, <1>3, <1>4, <1>6
  <1>8. ASSUME NEW m \in Nat, m <= B * k
        PROVE  NumOf(m) <= k
    <2>1. NumOf(m) \in Nat /\ B * NumOf(m) < m + B /\ B * NumOf(m) \in Int
      BY NumFacts
    <2>2. B * NumOf(m) < B * k + B
      BY <2>1, <1>0, <1>4, <1>8
    <2> QED
      BY <2>1, <2>2, <1>3, Multiples
  <1>9. n <= B * k
    BY <1>7, <1>4
  <1>10. ASSUME s % B = 0
         PROVE  o + n <= s
    <2> DEFINE p == s \div B
    <2>1. p \in Nat /\ s % B = s - B * p
      BY DivFacts
    <2> HIDE DEF p
    <2>2. B * p \in Int
      BY <2>1, Multiples
    <2>3. s = B * p
      BY <2>1, <2>2, <1>10
    <2>4. B * q < B * p
      BY <2>3, <1>1, <1>4
    <2>5. B * q + B <= B * p
      BY <2>1, <2>4, <1>1, Multiples
    <2> QED
      BY <2>3, <2>5, <1>0, <1>1, <1>2, <1>4
  <1> QED
    BY <1>7, <1>8, <1>9, <1>10 DEF k

\* Bytes taken off the end of a file.
LEMMA ShrinkNum ==
    ASSUME NEW s \in Nat, s > 0, NEW left \in 1..s, NEW used, used = ((s - 1) % B) + 1
    PROVE  /\ used \in 1..s
           /\ left < used => NumOf(s - left) = NumOf(s)
           /\ left >= used => NumOf(s - left) < NumOf(s)
           /\ NumOf(s - used) = NumOf(s) - 1 /\ (s - 1) \div B = NumOf(s) - 1
  <1>0. B \in Nat /\ B > 0
    BY FileDataAssumption DEF B
  <1> DEFINE q == (s - 1) \div B
  <1>1. /\ q \in Nat /\ (s - 1) % B = (s - 1) - B * q /\ B * q <= s - 1 /\ s - 1 < B * q + B
        /\ NumOf(s) = q + 1
    BY DivFacts, NumFacts
  <1> HIDE DEF q
  <1>2. B * q \in Int /\ B * (q + 1) = B * q + B /\ q + 1 \in Int /\ B * q >= 0
    BY <1>0, <1>1, Multiples
  <1>3. used = s - B * q
    BY <1>1, <1>2
  <1>4. used \in 1..s
    BY <1>1, <1>2, <1>3
  <1>5. s - used = B * q /\ s - used \in Nat
    BY <1>2, <1>3, <1>4
  <1>6. NumOf(s - used) = q
    <2>1. s - used <= B * q /\ B * q < s - used + B
      BY <1>0, <1>5
    <2> QED
      BY <2>1, <1>1, <1>5, NumFacts
  <1>7. ASSUME left < used
        PROVE  NumOf(s - left) = q + 1
    <2>1. s - left \in Nat /\ s - left <= B * (q + 1) /\ B * (q + 1) < s - left + B
      BY <1>0, <1>1, <1>2, <1>3, <1>7
    <2> QED
      BY <2>1, <1>2, NumFacts
  <1>8. ASSUME left >= used
        PROVE  NumOf(s - left) <= q
    <2>1. s - left \in Nat /\ s - left <= s - used
      BY <1>4, <1>8
    <2> QED
      BY <2>1, <1>5, <1>6, NumMono
  <1>9. NumOf(s - left) \in Nat
    BY NumFacts
  <1> QED
    BY <1>1, <1>4, <1>6, <1>7, <1>8, <1>9 DEF q

-----------------------------------------------------------------------------
(* Requests and blocks.                                                    *)

\* A nonempty set of numbers has a least one.
LEMMA LeastOf ==
    ASSUME NEW S, S \subseteq Nat, S # {}
    PROVE  \E b \in S : \A c \in S : b <= c
  <1> DEFINE R == OpToRel(<, Nat)
  <1>1. IsWellFoundedOn(R, Nat)
    BY NatLessThanWellFounded
  <1>2. \A a, b \in Nat : a < b => <<a, b>> \in R
    BY DEF OpToRel
  <1> HIDE DEF R
  <1>3. PICK b \in S : \A c \in S : ~(<<c, b>> \in R)
    BY <1>1, WFMin
  <1>4. ASSUME NEW c \in S
        PROVE  b <= c
    <2>1. b \in Nat /\ c \in Nat
      OBVIOUS
    <2>2. ~(c < b)
      <3>1. ~(<<c, b>> \in R)
        BY <1>3
      <3> QED
        BY <1>2, <2>1, <3>1, Zenon
    <2> QED
      BY <2>1, <2>2
  <1> QED
    BY <1>4, Zenon

\* blockAlloc returns a free block, or 0 if there is none.
LEMMA AllocFacts ==
    ASSUME free \subseteq Blocks
    PROVE  /\ free # {} => blockAlloc \in free
           /\ free = {} => blockAlloc = 0
           /\ blockAlloc \in Blocks \union {0}
  <1>1. Blocks \subseteq Nat
    BY DEF Blocks
  <1>2. ASSUME free # {}
        PROVE  blockAlloc \in free
    <2> DEFINE first == IF free = {link} THEN free ELSE free \ {link}
    <2>1. first # {} /\ first \subseteq free /\ first \subseteq Nat
      BY <1>1, <1>2
    <2>2. blockAlloc = CHOOSE b \in first : \A c \in first : b <= c
      BY <1>2 DEF blockAlloc
    <2> HIDE DEF first
    <2>3. \E b \in first : \A c \in first : b <= c
      BY <2>1, LeastOf
    <2> QED
      BY <2>1, <2>2, <2>3
  <1>3. free = {} => blockAlloc = 0
    BY DEF blockAlloc
  <1> QED
    BY <1>2, <1>3

\* The bytes of a write.
LEMMA BufferFacts ==
    ASSUME NEW n \in Nat
    PROVE  Buffer(n) \in Seq(Bytes) /\ Len(Buffer(n)) = n
  <1>1. \A i \in 1..n : 1 + (i % 2) \in Bytes
    BY DEF Bytes
  <1> QED
    BY <1>1 DEF Buffer

\* Every request stays within the bound of its file.
LEMMA RequestFacts ==
    ASSUME NEW r \in Requests
    PROVE  /\ r.file \in Files /\ r.offset \in Nat /\ r.n \in Nat
           /\ r.offset + r.n <= MaxSize[r.file] /\ MaxSize[r.file] \in Nat
           /\ r.op = "write" => r.n > 0 /\ r.buf \in Seq(Bytes) /\ Len(r.buf) = r.n
           /\ r.op = "read" => r.n > 0
           /\ r.op = "delete" => r.n = 0
  <1>1. PICK f \in Files :
           LET max    == MaxSize[f]
               within == {w \in (0..max) \X (1..max) : w[1] + w[2] <= max}
           IN  r \in {Request("write", f, w[1], w[2], Buffer(w[2])) : w \in within}
                     \union {Request("read", f, w[1], w[2], << >>) : w \in within}
                     \union {Request("truncate", f, 0, n, << >>) : n \in 0..max}
                     \union {Request("delete", f, 0, 0, << >>)}
    BY DEF Requests
  <1> DEFINE max    == MaxSize[f]
             within == {w \in (0..max) \X (1..max) : w[1] + w[2] <= max}
  <1>2. max \in Nat
    BY FileDataAssumption
  <1>3. CASE r \in {Request("write", f, w[1], w[2], Buffer(w[2])) : w \in within}
    <2>1. PICK w \in within : r = Request("write", f, w[1], w[2], Buffer(w[2]))
      BY <1>3
    <2>2. w[1] \in Nat /\ w[2] \in Nat /\ w[2] > 0 /\ w[1] + w[2] <= max
      BY <1>2
    <2>3. /\ r.op = "write" /\ r.file = f /\ r.offset = w[1] /\ r.n = w[2] /\ r.buf = Buffer(w[2])
      BY <2>1 DEF Request
    <2> QED
      BY <1>2, <2>2, <2>3, BufferFacts
  <1>4. CASE r \in {Request("read", f, w[1], w[2], << >>) : w \in within}
    <2>1. PICK w \in within : r = Request("read", f, w[1], w[2], << >>)
      BY <1>4
    <2>2. w[1] \in Nat /\ w[2] \in Nat /\ w[2] > 0 /\ w[1] + w[2] <= max
      BY <1>2
    <2> QED
      BY <1>2, <2>1, <2>2 DEF Request
  <1>5. CASE r \in {Request("truncate", f, 0, n, << >>) : n \in 0..max}
    BY <1>2, <1>5 DEF Request
  <1>6. CASE r \in {Request("delete", f, 0, 0, << >>)}
    BY <1>2, <1>6 DEF Request
  <1> QED
    BY <1>1, <1>3, <1>4, <1>5, <1>6

\* The numbers of an inode that a size reaches are there.
LEMMA IndexIn ==
    ASSUME NEW f \in Files, NEW s \in 0..MaxSize[f], NEW k \in 0..(NumOf(s) - 1)
    PROVE  k \in Numbers(f)
  <1>1. MaxSize[f] \in Nat /\ MaxSize[f] > 0 /\ s \in Nat
    BY FileDataAssumption
  <1>2. NumOf(MaxSize[f]) = ((MaxSize[f] - 1) \div B) + 1 /\ NumOf(MaxSize[f]) \in Nat
    BY <1>1, NumFacts
  <1>3. NumOf(s) \in Nat /\ NumOf(s) <= NumOf(MaxSize[f])
    BY <1>1, NumFacts, NumMono
  <1>4. (MaxSize[f] - 1) \div B \in Nat
    <2>1. MaxSize[f] - 1 \in Nat
      BY <1>1
    <2> QED
      BY <2>1, DivFacts
  <1>5. k \in 0..((MaxSize[f] - 1) \div B)
    BY <1>2, <1>3, <1>4
  <1> QED
    BY <1>5 DEF Numbers, B

\* The blocks of a file.
LEMMA FileFacts ==
    ASSUME Shape, TypeOK, NEW f \in Files
    PROVE  /\ size[f] \in 0..MaxSize[f] /\ size[f] \in Nat /\ MaxSize[f] \in Nat
           /\ Count(f) \in Nat
           /\ nums[f] \in [Numbers(f) -> Blocks \union {0}]
           /\ \A k \in 0..(Count(f) - 1) : k \in Numbers(f) /\ nums[f][k] \in Blocks \union {0}
  <1>1. /\ size[f] \in 0..MaxSize[f] /\ size[f] \in Nat /\ MaxSize[f] \in Nat
        /\ nums[f] \in [Numbers(f) -> Blocks \union {0}]
    BY FileDataAssumption DEF TypeOK, Shape
  <1>2. Count(f) \in Nat
    BY <1>1, NumFacts DEF Count
  <1>3. \A k \in 0..(Count(f) - 1) : k \in Numbers(f)
    BY <1>1, IndexIn DEF Count
  <1> QED
    BY <1>1, <1>2, <1>3

\* Bytes put into a block leave a disk of bytes.
LEMMA PutType ==
    ASSUME TypeOK, NEW block \in Blocks \union {0}, NEW offset \in Nat, NEW bytes \in Seq(Bytes)
    PROVE  putInBlock(block, offset, bytes) \in [Blocks \union {0} -> [InBlock -> Bytes \union {Junk}]]
  <1> DEFINE o == offset % BLOCK_SIZE
             new == [i \in InBlock |-> IF i \in o..(o + Len(bytes) - 1)
                                       THEN bytes[i - o + 1] ELSE disk[block][i]]
  <1>1. disk \in [Blocks \union {0} -> [InBlock -> Bytes \union {Junk}]]
    BY DEF TypeOK
  <1>2. o \in Nat /\ Len(bytes) \in Nat /\ \A k \in 1..Len(bytes) : bytes[k] \in Bytes
    <2>1. offset % B \in 0..(B - 1) /\ B \in Nat
      BY DivFacts
    <2>2. o \in Nat
      BY <2>1 DEF B
    <2> HIDE DEF o
    <2> QED
      BY <2>2
  <1> HIDE DEF o
  <1>3. \A i \in o..(o + Len(bytes) - 1) : i - o + 1 \in 1..Len(bytes)
    BY <1>2
  <1>4. new \in [InBlock -> Bytes \union {Junk}]
    BY <1>1, <1>2, <1>3
  <1>5. putInBlock(block, offset, bytes) = [disk EXCEPT ![block] = new]
    BY <1>1 DEF putInBlock, o
  <1> HIDE DEF new
  <1> QED
    BY <1>1, <1>4, <1>5

\* Bytes that are not followed are bytes of a block.
LEMMA StoredType ==
    ASSUME TypeOK, NEW blocks \in [Blocks \union {0} -> [InBlock -> Bytes \union {Junk}]],
           Stores(blocks)
    PROVE  disk' \in [Blocks \union {0} -> [InBlock -> Bytes \union {Junk}]]
  BY DEF TypeOK, Stores

-----------------------------------------------------------------------------
(* Blocks that change hands.                                               *)

\* A file may keep fewer of its blocks, but a tidy one keeps all.
LEMMA KeepAccounted ==
    ASSUME Shape, TypeOK, Accounted, NEW f \in Files,
           nums' = nums, list' = list, full' = full, tidy' => tidy,
           \A g \in Files \ {f} : Count(g)' = Count(g),
           Count(f)' \in Nat, Count(f)' <= Count(f), tidy => Count(f)' = Count(f)
    PROVE  Accounted'
  <1> SUFFICES ASSUME sound'
               PROVE  Accounts'
    BY DEF Accounted
  <1>a. Accounts /\ free' = free /\ link' = link
    BY DEF Accounted, list
  <1>1. \A g \in Files : /\ Count(g) \in Nat /\ Count(g)' \in Nat /\ Count(g)' <= Count(g)
                         /\ tidy => Count(g)' = Count(g)
    BY FileFacts
  <1>2. \A g \in Files : \A i \in 0..(Count(g)' - 1) : i \in 0..(Count(g) - 1)
    BY <1>1
  <1>3. \A g, h \in Files : \A i \in 0..(Count(g)' - 1), j \in 0..(Count(h)' - 1) :
          nums'[g][i] = nums'[h][j] => (g = h /\ i = j) \/ nums'[g][i] = 0
    BY <1>a, <1>2 DEF Accounts
  <1>4. \A g \in Files : \A i \in 0..(Count(g)' - 1) :
          nums'[g][i] \notin free' /\ (nums'[g][i] = 0 => g \in full')
    BY <1>a, <1>2 DEF Accounts
  <1>5. tidy' => \A b \in Blocks \ free' :
          \E g \in Files : \E i \in 0..(Count(g)' - 1) : nums'[g][i] = b
    BY <1>a, <1>1 DEF Accounts
  <1> QED
    BY <1>a, <1>3, <1>4, <1>5 DEF Accounts

\* A file takes the block that blockAlloc returns.
LEMMA GrowAccounted ==
    ASSUME Shape, TypeOK, Accounted, NEW f \in Files, NEW K, K = Count(f),
           NEW b, b = blockAlloc, free' = free \ {b}, tidy' => tidy,
           full' = IF free = {} THEN full \union {f} ELSE full,
           sound' => sound /\ (free = {} \/ b # link), link' = link,
           \A g \in Files \ {f} : Count(g)' = Count(g) /\ nums'[g] = nums[g],
           Count(f)' = K + 1, nums'[f][K] = b,
           \A i \in 0..(K - 1) : nums'[f][i] = nums[f][i]
    PROVE  Accounted'
  <1> SUFFICES ASSUME sound'
               PROVE  Accounts'
    BY DEF Accounted
  <1>a. Accounts
    BY DEF Accounted
  <1>1. K \in Nat /\ \A g \in Files : Count(g) \in Nat
    BY FileFacts
  <1>2. free \subseteq Blocks /\ (free # {} => b \in free) /\ (free = {} => b = 0) /\ 0 \notin Blocks
    BY AllocFacts DEF TypeOK, Blocks
  <1> DEFINE Old(g, i) == i \in 0..(Count(g) - 1) /\ nums'[g][i] = nums[g][i]
  <1>3. ASSUME NEW g \in Files, NEW i \in 0..(Count(g)' - 1)
        PROVE  Old(g, i) \/ (g = f /\ i = K /\ nums'[g][i] = b)
    <2>1. CASE g # f
      BY <2>1, <1>3
    <2>2. CASE g = f /\ i = K
      BY <2>2
    <2>3. CASE g = f /\ i # K
      BY <2>3, <1>1, <1>3
    <2> QED
      BY <2>1, <2>2, <2>3
  <1>4. \A g \in Files : \A i \in 0..(Count(g) - 1) : i \in 0..(Count(g)' - 1) /\ Old(g, i)
    BY <1>1
  <1>5. \A g \in Files : \A i \in 0..(Count(g) - 1) : nums[g][i] # b \/ nums[g][i] = 0
    BY <1>a, <1>2 DEF Accounts
  <1>6. ASSUME NEW g \in Files, NEW h \in Files,
               NEW i \in 0..(Count(g)' - 1), NEW j \in 0..(Count(h)' - 1),
               nums'[g][i] = nums'[h][j]
        PROVE  (g = h /\ i = j) \/ nums'[g][i] = 0
    <2>1. /\ Old(g, i) \/ (g = f /\ i = K /\ nums'[g][i] = b)
          /\ Old(h, j) \/ (h = f /\ j = K /\ nums'[h][j] = b)
      BY <1>3
    <2>2. CASE Old(g, i) /\ Old(h, j)
      BY <2>2, <1>a, <1>6 DEF Accounts
    <2>3. CASE Old(g, i) /\ nums'[h][j] = b
      BY <2>3, <1>5, <1>6
    <2>4. CASE Old(h, j) /\ nums'[g][i] = b
      BY <2>4, <1>5, <1>6
    <2> QED
      BY <2>1, <2>2, <2>3, <2>4
  <1>7. ASSUME NEW g \in Files, NEW i \in 0..(Count(g)' - 1)
        PROVE  nums'[g][i] \notin free' /\ (nums'[g][i] = 0 => g \in full')
    <2>1. CASE Old(g, i)
      BY <2>1, <1>a DEF Accounts
    <2>2. CASE g = f /\ nums'[g][i] = b
      BY <2>2, <1>2
    <2> QED
      BY <2>1, <2>2, <1>3
  <1>8. ASSUME tidy', NEW c \in Blocks, c \notin free'
        PROVE  \E g \in Files : \E i \in 0..(Count(g)' - 1) : nums'[g][i] = c
    <2>1. CASE c = b
      <3>1. K \in 0..(Count(f)' - 1)
        BY <1>1
      <3> QED
        BY <2>1, <3>1
    <2>2. CASE c # b
      <3>1. c \notin free
        BY <2>2, <1>8
      <3>2. PICK g \in Files : \E i \in 0..(Count(g) - 1) : nums[g][i] = c
        BY <3>1, <1>a, <1>8 DEF Accounts
      <3>3. PICK i \in 0..(Count(g) - 1) : nums[g][i] = c
        BY <3>2
      <3> QED
        BY <3>3, <1>4
    <2> QED
      BY <2>1, <2>2
  <1>9. link' \in free' \union {0}
    BY <1>a DEF Accounts
  <1> HIDE DEF Old
  <1> QED
    BY <1>6, <1>7, <1>8, <1>9 DEF Accounts

\* A file gives back the blocks from a number on.
LEMMA DropAccounted ==
    ASSUME Shape, TypeOK, Accounted, NEW f \in Files, NEW K, K \in 0..Count(f),
           Freed(f, K..(Count(f) - 1)), nums' = nums, full' = full,
           \A g \in Files \ {f} : Count(g)' = Count(g), Count(f)' = K
    PROVE  /\ Accounted' /\ free' \subseteq Blocks /\ link' \in Blocks \union {0}
           /\ sound' = sound /\ tidy' \in BOOLEAN /\ (tidy' => tidy)
           /\ disk' \in [Blocks \union {0} -> [InBlock -> Bytes \union {Junk}]]
  <1> DEFINE given == K..(Count(f) - 1)
  <1>1. K \in Nat /\ \A g \in Files : Count(g) \in Nat
    BY FileFacts
  <1>2. given \subseteq 0..(Count(f) - 1)
    BY <1>1
  <1>3. \A i \in given : nums[f][i] \in Blocks \union {0}
    BY <1>2, FileFacts
  <1>4. PICK cut \in {k \in given : nums[f][k] = 0} \union {-1} :
          LET back   == {k \in given : k > cut /\ nums[f][k] # 0}
              blocks == {nums[f][k] : k \in back}
          IN  /\ IF sound
                 THEN /\ free' = (IF cut = -1 THEN free ELSE {}) \union blocks
                      /\ link' = IF cut = -1 /\ (link # 0 \/ ~TailHasRoom \/ back = {}) THEN link
                                 ELSE IF back = {} THEN 0
                                 ELSE nums[f][Min(back)]
                 ELSE UNCHANGED <<free, link>>
              /\ tidy' = (tidy /\ cut = -1)
              /\ disk' = [b \in DOMAIN disk |-> IF \E k \in given : nums[f][k] = b
                                                THEN [o \in InBlock |-> Junk] ELSE disk[b]]
              /\ UNCHANGED sound
    BY DEF Freed
  <1> DEFINE back   == {k \in given : k > cut /\ nums[f][k] # 0}
             blocks == {nums[f][k] : k \in back}
  <1>5. sound' = sound /\ tidy' \in BOOLEAN /\ (tidy' => tidy /\ cut = -1)
    BY <1>4, Zenon
  <1>6. disk' \in [Blocks \union {0} -> [InBlock -> Bytes \union {Junk}]]
    BY <1>4 DEF TypeOK
  <1>7. blocks \subseteq Blocks
    BY <1>3
  <1>8. \A i \in given : i \in Nat
    BY <1>1
  <1>9. back # {} => nums[f][Min(back)] \in blocks
    <2>1. back \subseteq Nat
      BY <1>8
    <2> HIDE DEF back
    <2>2. back # {} => \E k \in back : \A c \in back : k <= c
      BY <2>1, LeastOf
    <2>3. back # {} => Min(back) \in back
      BY <2>2 DEF Min
    <2> QED
      BY <2>3
  <1>10. free \subseteq Blocks /\ link \in Blocks \union {0}
    BY DEF TypeOK
  <1>11. ASSUME sound
         PROVE  /\ free' = (IF cut = -1 THEN free ELSE {}) \union blocks
                /\ \/ cut = -1 /\ link' = link
                   \/ link' = 0
                   \/ link' \in blocks
    <2>1. /\ free' = (IF cut = -1 THEN free ELSE {}) \union blocks
          /\ link' = IF cut = -1 /\ (link # 0 \/ ~TailHasRoom \/ back = {}) THEN link
                     ELSE IF back = {} THEN 0
                     ELSE nums[f][Min(back)]
      BY <1>4, <1>11
    <2> HIDE DEF back, blocks
    <2> QED
      BY <2>1, <1>9
  <1>12. ~sound => free' = free /\ link' = link
    BY <1>4
  <1> HIDE DEF blocks
  <1>13. free' \subseteq Blocks /\ link' \in Blocks \union {0}
    BY <1>7, <1>10, <1>11, <1>12
  <1>14. Accounted'
    <2> SUFFICES ASSUME sound
                 PROVE  Accounts'
      BY <1>5 DEF Accounted
    <2>a. Accounts
      BY DEF Accounted
    <2>3. \A g \in Files : \A i \in 0..(Count(g)' - 1) :
             i \in 0..(Count(g) - 1) /\ (g = f => i \notin given)
      <3>1. ASSUME NEW g \in Files, NEW i \in 0..(Count(g)' - 1)
            PROVE  i \in 0..(Count(g) - 1) /\ (g = f => i \notin given)
        <4>1. CASE g = f
          BY <4>1, <3>1, <1>1
        <4>2. CASE g # f
          BY <4>2, <3>1
        <4> QED
          BY <4>1, <4>2
      <3> QED
        BY <3>1
    <2> HIDE DEF given
    <2>4. \A c \in blocks : c # 0 /\ \E j \in given : nums[f][j] = c
      BY DEF blocks
    <2>6. \A g, h \in Files : \A i \in 0..(Count(g)' - 1), j \in 0..(Count(h)' - 1) :
            nums'[g][i] = nums'[h][j] => (g = h /\ i = j) \/ nums'[g][i] = 0
      BY <2>a, <2>3 DEF Accounts
    <2>7. ASSUME NEW g \in Files, NEW i \in 0..(Count(g)' - 1)
          PROVE  nums'[g][i] \notin free' /\ (nums'[g][i] = 0 => g \in full')
      <3>1. nums[g][i] \notin free /\ (nums[g][i] = 0 => g \in full)
        BY <2>a, <2>3 DEF Accounts
      <3>2. ASSUME nums[g][i] \in blocks
            PROVE  FALSE
        <4>1. PICK j \in given : nums[f][j] = nums[g][i]
          BY <3>2, <2>4
        <4>2. nums[g][i] # 0
          BY <3>2, <2>4
        <4>3. g = f /\ i = j
          BY <4>1, <4>2, <2>a, <2>3, <1>2 DEF Accounts
        <4> QED
          BY <4>3, <2>3
      <3> QED
        BY <3>1, <3>2, <1>11
    <2>8. ASSUME tidy', NEW c \in Blocks, c \notin free'
          PROVE  \E g \in Files : \E i \in 0..(Count(g)' - 1) : nums'[g][i] = c
      <3>0. tidy /\ cut = -1 /\ c \notin free /\ c \notin blocks /\ c # 0
        BY <2>8, <1>5, <1>11 DEF Blocks
      <3>1. PICK g \in Files : \E i \in 0..(Count(g) - 1) : nums[g][i] = c
        BY <3>0, <2>a, <2>8 DEF Accounts
      <3>3. PICK i \in 0..(Count(g) - 1) : nums[g][i] = c
        BY <3>1
      <3>4. i \in 0..(Count(g)' - 1)
        <4>1. CASE g = f
          <5>1. ASSUME i \in given
                PROVE  FALSE
            <6>1. i > cut /\ nums[f][i] # 0
              BY <5>1, <4>1, <3>0, <3>3, <1>8
            <6>2. c \in blocks
              BY <6>1, <5>1, <4>1, <3>3 DEF blocks
            <6> QED
              BY <6>2, <3>0
          <5>2. i \notin K..(Count(f) - 1)
            BY <5>1 DEF given
          <5> QED
            BY <5>2, <4>1, <3>3, <1>1
        <4>2. CASE g # f
          BY <4>2
        <4> QED
          BY <4>1, <4>2
      <3> QED
        BY <3>3, <3>4
    <2>9. link' \in free' \union {0}
      BY <2>a, <1>11 DEF Accounts
    <2> QED
      BY <2>6, <2>7, <2>8, <2>9 DEF Accounts
  <1> QED
    BY <1>5, <1>6, <1>13, <1>14

-----------------------------------------------------------------------------
(* Every pass keeps the invariant.                                         *)

\* No file has a block.
LEMMA InitInv ==
    ASSUME Init
    PROVE  Inv
  <1>1. \A f \in Files : size[f] = 0 /\ MaxSize[f] \in Nat /\ Count(f) = 0
    BY FileDataAssumption, NumFacts DEF Init, Count
  <1>2. Shape
    BY DEF Init, Shape
  <1>3. TypeOK
    <2>1. \A f \in Files : size[f] \in 0..MaxSize[f] /\ nums[f] \in [Numbers(f) -> Blocks \union {0}]
      BY <1>1 DEF Init
    <2>2. disk \in [Blocks \union {0} -> [InBlock -> Bytes \union {Junk}]]
      BY DEF Init
    <2> QED
      BY <2>1, <2>2 DEF Init, TypeOK
  <1>4. Progress
    BY DEF Init, Progress, Serving
  <1>5. Accounted
    <2>1. \A f \in Files : 0..(Count(f) - 1) = {}
      BY <1>1
    <2> QED
      BY <2>1 DEF Init, Accounted, Accounts
  <1> QED
    BY <1>2, <1>3, <1>4, <1>5 DEF Inv

\* A call begins.
LEMMA CallInv ==
    ASSUME Inv, NEW r \in Requests, Call(r)
    PROVE  Inv'
  <1>1. Shape /\ TypeOK /\ Progress /\ Accounted
    BY DEF Inv
  <1>2. /\ req = NoRequest /\ req' = r
        /\ size' = size /\ nums' = nums /\ disk' = disk /\ list' = list /\ full' = full /\ done' = done
    BY DEF Call
  <1>t. tidy' \in BOOLEAN /\ (tidy' => tidy) /\ (tidy' => KeepsBlocks(r))
    BY Zenon DEF Call
  <1>3. done' = 0
    BY <1>1, <1>2 DEF Progress
  <1>4. /\ r.file \in Files /\ r.offset \in Nat /\ r.n \in Nat
        /\ r.op = "write" => r.n > 0
    BY RequestFacts
  <1>5. Shape'
    BY <1>1, <1>2 DEF Shape
  <1>6. TypeOK'
    BY <1>1, <1>2, <1>3, <1>t DEF TypeOK, list
  <1>7. Accounted'
    <2>1. \A g \in Files : Count(g) \in Nat /\ Count(g)' = Count(g)
      BY <1>1, <1>2, FileFacts DEF Count
    <2> QED
      BY <2>1, <1>1, <1>2, <1>4, <1>t, KeepAccounted
  <1>8. Progress'
    <2>1. Serving("write")' => done' < req'.n
      BY <1>2, <1>3, <1>4 DEF Serving
    <2>4. ASSUME tidy', Serving("write")'
          PROVE  \/ req'.offset + done' >= size'[req'.file]
                 \/ req'.offset + req'.n <= size'[req'.file]
                 \/ size'[req'.file] % B = 0 /\ req'.n <= size'[req'.file]
                 \/ req'.offset + done' = 0 /\ size'[req'.file] <= B
      <3>1. KeepsBlocks(r) /\ r.op = "write"
        BY <2>4, <1>2, <1>t DEF Serving
      <3>2. size[r.file] \in Nat
        BY <1>1, <1>4, FileFacts
      <3>3. \/ r.offset >= size[r.file]
            \/ r.offset + r.n <= size[r.file]
            \/ size[r.file] % B = 0 /\ r.n <= size[r.file]
            \/ r.offset = 0 /\ size[r.file] <= B
        BY <3>1 DEF KeepsBlocks, B
      <3> QED
        BY <3>2, <3>3, <1>2, <1>3, <1>4
    <2> QED
      BY <2>1, <2>4, <1>3 DEF Progress
  <1> QED
    BY <1>5, <1>6, <1>7, <1>8 DEF Inv

\* The size of one file changes.
LEMMA Resized ==
    ASSUME Shape, TypeOK, NEW f \in Files, NEW m \in 0..MaxSize[f],
           size' = [size EXCEPT ![f] = m]
    PROVE  /\ size' \in [Files -> Nat] /\ \A g \in Files : size'[g] \in 0..MaxSize[g]
           /\ size'[f] = m /\ Count(f)' = NumOf(m)
           /\ \A g \in Files \ {f} : Count(g)' = Count(g)
  <1>1. MaxSize[f] \in Nat /\ m \in Nat
    BY FileDataAssumption
  <1>2. /\ size' \in [Files -> Nat] /\ size'[f] = m
        /\ \A g \in Files \ {f} : size'[g] = size[g]
    BY <1>1 DEF Shape
  <1>3. \A g \in Files : size'[g] \in 0..MaxSize[g]
    BY <1>2 DEF TypeOK
  <1> QED
    BY <1>2, <1>3 DEF Count

\* A pass that appends, of a write or of a truncation that makes a file longer.
LEMMA AppendStep ==
    ASSUME Shape, TypeOK, Accounted, NEW f \in Files, NEW n \in Nat, n > 0,
           n <= bytesLeftInBlock(size[f]), size[f] + n <= MaxSize[f],
           Insert(f, size[f]), size' = [size EXCEPT ![f] = size[f] + n], tidy' = tidy
    PROVE  /\ Shape' /\ Accounted' /\ free' \subseteq Blocks /\ full' \subseteq Files
           /\ link' \in Blocks \union {0} /\ sound' \in BOOLEAN
           /\ \A g \in Files : /\ size'[g] \in 0..MaxSize[g]
                               /\ nums'[g] \in [Numbers(g) -> Blocks \union {0}]
           /\ bmapForAppend(f, size[f]) \in Blocks \union {0}
  <1> DEFINE s == size[f]
             k == s \div B
  <1>0. /\ s \in Nat /\ s \in 0..MaxSize[f] /\ MaxSize[f] \in Nat /\ s + n \in 0..MaxSize[f]
        /\ nums = [g \in Files |-> nums[g]]
        /\ \A g \in Files : nums[g] \in [Numbers(g) -> Blocks \union {0}]
        /\ free \subseteq Blocks /\ full \subseteq Files
        /\ link \in Blocks \union {0} /\ sound \in BOOLEAN
    BY FileFacts DEF TypeOK, Shape
  <1>1. /\ size' \in [Files -> Nat] /\ \A g \in Files : size'[g] \in 0..MaxSize[g]
        /\ Count(f)' = NumOf(s + n)
        /\ \A g \in Files \ {f} : Count(g)' = Count(g)
    BY <1>0, Resized
  <1>2. /\ s % B = 0 => Count(f) = k /\ Count(f)' = k + 1
        /\ s % B # 0 => Count(f) = k + 1 /\ Count(f)' = Count(f)
    BY <1>0, <1>1, AppendNum DEF Count
  <1>3. k \in Nat
    BY <1>0, DivFacts
  <1>4. k \in Numbers(f)
    <2>1. k \in 0..(NumOf(s + n) - 1)
      BY <1>1, <1>2, <1>3
    <2> QED
      BY <2>1, <1>0, IndexIn
  <1> HIDE DEF k
  <1>5. CASE s % B = 0
    <2>1. NeedsBlock(f, s)
      BY <1>5 DEF NeedsBlock, B
    <2>2. /\ nums' = [nums EXCEPT ![f][k] = blockAlloc]
          /\ free' = free \ {blockAlloc}
          /\ full' = IF free = {} THEN full \union {f} ELSE full
          /\ link' = link
      BY <2>1 DEF Insert, k, B
    <2>s. sound' \in BOOLEAN /\ (sound' => sound /\ (free = {} \/ blockAlloc # link))
      <3>1. sound' = (sound /\ (free = {} \/ blockAlloc # link))
        BY <2>1 DEF Insert
      <3> QED
        BY <3>1, Zenon
    <2>3. blockAlloc \in Blocks \union {0} /\ bmapForAppend(f, s) = blockAlloc
      BY <2>1, <1>0, AllocFacts DEF bmapForAppend
    <2> DEFINE m == [nums[f] EXCEPT ![k] = blockAlloc]
    <2>4. /\ m \in [Numbers(f) -> Blocks \union {0}] /\ m[k] = blockAlloc
          /\ \A i \in Numbers(f) \ {k} : m[i] = nums[f][i]
      BY <2>3, <1>0, <1>4
    <2>5. nums' = [nums EXCEPT ![f] = m]
      BY <2>2
    <2> HIDE DEF m
    <2>6. /\ nums' = [g \in Files |-> nums'[g]] /\ nums'[f] = m
          /\ \A g \in Files \ {f} : nums'[g] = nums[g]
      BY <2>5, <1>0
    <2>7. \A i \in 0..(Count(f) - 1) : nums'[f][i] = nums[f][i]
      <3>1. \A i \in 0..(Count(f) - 1) : i \in Numbers(f) \ {k}
        BY <1>2, <1>3, <1>5, FileFacts
      <3> QED
        BY <3>1, <2>4, <2>6
    <2>8. Accounted'
      <3>1. Count(f) = k /\ Count(f)' = Count(f) + 1 /\ nums'[f][Count(f)] = blockAlloc
        BY <2>4, <2>6, <1>2, <1>5
      <3> QED
        BY <3>1, <2>2, <2>s, <2>6, <2>7, <1>1, GrowAccounted
    <2> QED
      BY <2>2, <2>3, <2>4, <2>s, <2>6, <2>8, <1>0, <1>1 DEF Shape
  <1>6. CASE s % B # 0
    <2>1. ~NeedsBlock(f, s)
      BY <1>6 DEF NeedsBlock, B
    <2>2. nums' = nums /\ list' = list /\ full' = full
      BY <2>1 DEF Insert
    <2>3. bmapForAppend(f, s) \in Blocks \union {0}
      BY <2>1, <1>0, <1>4 DEF bmapForAppend, k, B
    <2>4. Accounted'
      <3>1. Count(f) \in Nat
        BY FileFacts
      <3> QED
        BY <2>2, <3>1, <1>1, <1>2, <1>6, KeepAccounted
    <2> QED
      BY <2>2, <2>3, <2>4, <1>0, <1>1 DEF Shape, list
  <1> QED
    BY <1>5, <1>6

\* A call that returns leaves nothing to be served.
LEMMA ReturnFacts ==
    ASSUME NEW count, NEW bytes, Return(count, bytes)
    PROVE  req' = NoRequest /\ done' = 0 /\ Progress'
  <1>1. req' = NoRequest /\ done' = 0
    BY DEF Return
  <1> QED
    BY <1>1 DEF Progress, Serving

\* Nothing but the call that is served changes.
LEMMA SameFiles ==
    ASSUME Shape, TypeOK, Accounted, size' = size, nums' = nums, list' = list, full' = full,
           tidy' = tidy
    PROVE  Shape' /\ Accounted'
  <1>1. Shape'
    BY DEF Shape
  <1>2. \A g \in Files : Count(g)' = Count(g)
    BY DEF Count
  <1>3. Accounted'
    BY <1>2 DEF Accounted, Accounts, list
  <1> QED
    BY <1>1, <1>3

\* The number of bytes of a pass.
LEMMA PassLength ==
    ASSUME NEW o \in Nat, NEW rest \in Nat, rest > 0
    PROVE  /\ Least(bytesLeftInBlock(o), rest) \in Nat /\ Least(bytesLeftInBlock(o), rest) > 0
           /\ Least(bytesLeftInBlock(o), rest) <= bytesLeftInBlock(o)
           /\ Least(bytesLeftInBlock(o), rest) <= rest
           /\ \/ Least(bytesLeftInBlock(o), rest) = bytesLeftInBlock(o)
              \/ Least(bytesLeftInBlock(o), rest) = rest
           /\ bytesLeftInBlock(o) \in Nat /\ bytesLeftInBlock(o) <= B
           /\ o = 0 => bytesLeftInBlock(o) = B
  <1>1. B \in Nat /\ B > 0 /\ o % B \in 0..(B - 1)
    BY DivFacts
  <1>2. bytesLeftInBlock(o) = B - (o % B)
    BY DEF bytesLeftInBlock, B
  <1>3. bytesLeftInBlock(o) \in Nat /\ bytesLeftInBlock(o) > 0 /\ bytesLeftInBlock(o) <= B
    BY <1>1, <1>2
  <1>4. o = 0 => bytesLeftInBlock(o) = B
    <2>1. 0 % B = 0
      BY <1>1
    <2> QED
      BY <2>1, <1>1, <1>2
  <1> QED
    BY <1>3, <1>4 DEF Least

\* A file that has no more bytes than a block has one block.
LEMMA OneBlock ==
    ASSUME NEW l \in Nat, l > 0, l <= B
    PROVE  NumOf(l) = 1
  <1>1. B \in Nat /\ B * 1 = B
    BY FileDataAssumption DEF B
  <1> QED
    BY <1>1, NumFacts

\* The size that a pass leaves which writes below the end of the file.
LEMMA WriteWithin ==
    ASSUME Shape, TypeOK, Progress, Serving("write"), NEW f, f = req.file,
           NEW o, o = req.offset + done, o < size[f],
           NEW n, n = Least(bytesLeftInBlock(o), req.n - done),
           NEW m, m = sizeAfterWrite(f, o, n)
    PROVE  /\ m \in 0..MaxSize[f] /\ NumOf(m) <= Count(f) /\ NumOf(m) \in Nat
           /\ tidy => NumOf(m) = Count(f)
           /\ tidy /\ done + n < req.n =>
                 \/ o + n >= m
                 \/ req.offset + req.n <= m
                 \/ m % B = 0 /\ req.n <= m
  <1>1. req \in Requests /\ req.op = "write"
    BY DEF Serving, TypeOK
  <1>2. /\ f \in Files /\ req.offset \in Nat /\ req.n \in Nat /\ MaxSize[f] \in Nat
        /\ req.offset + req.n <= MaxSize[f]
    BY <1>1, RequestFacts
  <1>3. done \in Nat /\ done < req.n
    BY DEF Progress
  <1>4. o \in Nat /\ req.n - done \in Nat /\ req.n - done > 0
    BY <1>2, <1>3
  <1>5. /\ n \in Nat /\ n > 0 /\ n <= bytesLeftInBlock(o) /\ n <= req.n - done
        /\ n = bytesLeftInBlock(o) \/ n = req.n - done
        /\ bytesLeftInBlock(o) \in Nat /\ bytesLeftInBlock(o) <= B
        /\ o = 0 => bytesLeftInBlock(o) = B
    BY <1>4, PassLength
  <1>6. size[f] \in Nat /\ size[f] <= MaxSize[f] /\ Count(f) = NumOf(size[f]) /\ Count(f) \in Nat
    BY <1>2, FileFacts DEF Count
  <1>7. (m = n /\ size[f] < req.n) \/ m = size[f]
    BY <1>4, <1>6 DEF sizeAfterWrite
  <1>8. NumOf(n) <= Count(f) /\ NumOf(n) \in Nat
    <2>1. NumOf(n) <= NumOf(size[f])
      BY <1>4, <1>5, <1>6, WithinNum
    <2> QED
      BY <2>1, <1>5, <1>6, NumFacts
  <1>9. m \in 0..MaxSize[f] /\ NumOf(m) <= Count(f) /\ NumOf(m) \in Nat
    BY <1>2, <1>3, <1>5, <1>6, <1>7, <1>8
  <1>10. ASSUME tidy
         PROVE  /\ NumOf(m) = Count(f)
                /\ done + n < req.n =>
                       \/ o + n >= m
                       \/ req.offset + req.n <= m
                       \/ m % B = 0 /\ req.n <= m
    <2>1. \/ req.offset + req.n <= size[f]
          \/ size[f] % B = 0 /\ req.n <= size[f]
          \/ o = 0 /\ size[f] <= B
      BY <1>4, <1>6, <1>10 DEF Progress
    <2>2. CASE req.offset + req.n <= size[f]
      <3>1. m = size[f]
        BY <2>2, <1>2, <1>6, <1>7
      <3> QED
        BY <3>1, <2>2, <1>6
    <2>3. CASE size[f] % B = 0 /\ req.n <= size[f]
      <3>1. m = size[f]
        BY <2>3, <1>2, <1>6, <1>7
      <3> QED
        BY <3>1, <2>3, <1>6
    <2>4. CASE o = 0 /\ size[f] <= B
      <3>0. B \in Nat
        BY FileDataAssumption DEF B
      <3>1. Count(f) = 1
        BY <2>4, <1>6, OneBlock
      <3>d. done = 0
        <4>1. \A x, y \in Nat : x + y = 0 => y = 0
          OBVIOUS
        <4>2. req.offset + done = 0
          BY <2>4
        <4> QED
          BY <4>1, <4>2, <1>2, <1>3
      <3>2. CASE m = n /\ size[f] < req.n
        <4>1. NumOf(m) = 1
          BY <3>0, <3>2, <1>5, OneBlock
        <4> QED
          BY <4>1, <3>1, <3>2, <2>4, <1>5
      <3>3. CASE m = size[f] /\ ~(size[f] < req.n)
        <4>1. req.n <= B /\ done = 0
          BY <3>0, <3>d, <3>3, <2>4, <1>2, <1>6
        <4>2. n = B \/ n = req.n
          BY <4>1, <2>4, <1>2, <1>5
        <4>3. ~(done + n < req.n)
          BY <3>0, <4>1, <4>2, <1>2, <1>5
        <4> QED
          BY <4>3, <3>3, <1>6
      <3>4. CASE m = size[f] /\ size[f] < req.n
        <4>1. m <= B /\ m < req.n /\ done = 0 /\ m \in Nat
          BY <3>4, <3>d, <2>4, <1>2, <1>6
        <4>2. n = B \/ n = req.n
          BY <4>1, <2>4, <1>2, <1>5
        <4>3. m <= o + n
          BY <3>0, <4>1, <4>2, <2>4, <1>2, <1>5
        <4> QED
          BY <4>3, <3>4, <1>4, <1>5, <1>6
      <3> QED
        BY <3>2, <3>3, <3>4, <1>7
    <2> QED
      BY <2>1, <2>2, <2>3, <2>4
  <1> QED
    BY <1>9, <1>10

\* A pass of a write.
LEMMA WriteInv ==
    ASSUME Inv, WritePass
    PROVE  Inv'
  <1>i. Shape /\ TypeOK /\ Progress /\ Accounted
    BY DEF Inv
  <1>f. PICK f : f = req.file
    OBVIOUS
  <1>o. PICK o : o = req.offset + done
    OBVIOUS
  <1>n. PICK n : n = Least(bytesLeftInBlock(o), req.n - done)
    OBVIOUS
  <1>s. Serving("write")
    BY DEF WritePass
  <1>1. req # NoRequest /\ req \in Requests /\ req.op = "write"
    BY <1>i, <1>s DEF Serving, TypeOK
  <1>2. /\ f \in Files /\ req.offset \in Nat /\ req.n \in Nat /\ MaxSize[f] \in Nat
        /\ req.offset + req.n <= MaxSize[f] /\ req.buf \in Seq(Bytes) /\ Len(req.buf) = req.n
    BY <1>f, <1>1, RequestFacts
  <1>3. done \in Nat /\ done < req.n /\ o \in Nat /\ req.n - done \in Nat /\ req.n - done > 0
    BY <1>i, <1>s, <1>o, <1>2 DEF Progress
  <1>4. n \in Nat /\ n > 0 /\ n <= bytesLeftInBlock(o) /\ n <= req.n - done
    BY <1>n, <1>3, PassLength
  <1>5. size[f] \in Nat /\ size[f] <= MaxSize[f]
    BY <1>i, <1>2, FileFacts
  <1>6. tidy' = tidy
    BY DEF WritePass
  <1>7. CASE ~bmapAppends(f, o)
    <2>1. /\ Return(IF done = 0 THEN -1 ELSE done, << >>)
          /\ size' = size /\ nums' = nums /\ disk' = disk /\ list' = list /\ full' = full
      BY <1>7, <1>f, <1>o DEF WritePass
    <2>2. req' = NoRequest /\ done' = 0 /\ Progress'
      BY <2>1, ReturnFacts
    <2>3. Shape' /\ Accounted'
      BY <2>1, <1>i, <1>6, SameFiles
    <2>4. TypeOK'
      BY <2>1, <2>2, <1>i, <1>6 DEF TypeOK, list
    <2> QED
      BY <2>2, <2>3, <2>4 DEF Inv
  <1>8. CASE bmapAppends(f, o)
    <2> DEFINE m == sizeAfterWrite(f, o, n)
               block == bmapForAppend(f, o)
    <2>1. /\ Insert(f, o)
          /\ Stores(putInBlock(block, o, SubSeq(req.buf, done + 1, done + n)))
          /\ size' = [size EXCEPT ![f] = m]
          /\ done + n < req.n => Continue(n)
          /\ ~(done + n < req.n) => Return(req.n, << >>)
      BY <1>8, <1>f, <1>o, <1>n DEF WritePass
    <2>2. o <= size[f]
      BY <1>8 DEF bmapAppends
    <2>3. /\ Shape' /\ Accounted' /\ free' \subseteq Blocks /\ full' \subseteq Files
          /\ link' \in Blocks \union {0} /\ sound' \in BOOLEAN
          /\ \A g \in Files : /\ size'[g] \in 0..MaxSize[g]
                              /\ nums'[g] \in [Numbers(g) -> Blocks \union {0}]
          /\ block \in Blocks \union {0}
          /\ size'[f] = m /\ m \in Nat
          /\ tidy /\ done + n < req.n =>
                \/ o + n >= m
                \/ req.offset + req.n <= m
                \/ m % B = 0 /\ req.n <= m
      <3>1. CASE o = size[f]
        <4>1. m = size[f] + n
          BY <3>1 DEF sizeAfterWrite
        <4>2. size[f] + n <= MaxSize[f]
          <5>1. /\ req.offset \in Nat /\ req.n \in Nat /\ done \in Nat /\ n \in Nat /\ MaxSize[f] \in Nat
                /\ req.offset + req.n <= MaxSize[f] /\ n <= req.n - done
            BY <1>2, <1>3, <1>4
          <5>2. req.offset + done + n <= MaxSize[f]
            BY <5>1
          <5> QED
            BY <5>2, <3>1, <1>o
        <4>3. /\ n <= bytesLeftInBlock(size[f]) /\ Insert(f, size[f])
              /\ size' = [size EXCEPT ![f] = size[f] + n]
          BY <3>1, <4>1, <2>1, <1>4
        <4>4. /\ Shape' /\ Accounted' /\ free' \subseteq Blocks /\ full' \subseteq Files
              /\ link' \in Blocks \union {0} /\ sound' \in BOOLEAN
              /\ \A g \in Files : /\ size'[g] \in 0..MaxSize[g]
                                  /\ nums'[g] \in [Numbers(g) -> Blocks \union {0}]
              /\ bmapForAppend(f, size[f]) \in Blocks \union {0}
          BY <4>2, <4>3, <1>i, <1>2, <1>4, <1>6, AppendStep
        <4>5. size'[f] = size[f] + n
          BY <4>3, <1>i, <1>2 DEF Shape
        <4> QED
          BY <4>1, <4>4, <4>5, <3>1, <1>4, <1>5
      <3>2. CASE o < size[f]
        <4>1. ~NeedsBlock(f, o)
          BY <3>2, <1>3, <1>5 DEF NeedsBlock
        <4>2. nums' = nums /\ list' = list /\ full' = full
          BY <4>1, <2>1 DEF Insert
        <4>3. /\ m \in 0..MaxSize[f] /\ NumOf(m) <= Count(f) /\ NumOf(m) \in Nat
              /\ tidy => NumOf(m) = Count(f)
              /\ tidy /\ done + n < req.n =>
                    \/ o + n >= m
                    \/ req.offset + req.n <= m
                    \/ m % B = 0 /\ req.n <= m
          BY <3>2, <1>i, <1>s, <1>f, <1>o, <1>n, WriteWithin
        <4>4. /\ size' \in [Files -> Nat] /\ \A g \in Files : size'[g] \in 0..MaxSize[g]
              /\ size'[f] = m /\ Count(f)' = NumOf(m)
              /\ \A g \in Files \ {f} : Count(g)' = Count(g)
          <5> HIDE DEF m
          <5> QED
            BY <4>3, <2>1, <1>i, <1>2, Resized
        <4>5. Accounted'
          BY <4>2, <4>3, <4>4, <1>i, <1>2, <1>6, KeepAccounted
        <4>6. block \in Blocks \union {0}
          <5>1. o \div B \in Numbers(f)
            <6>1. o \div B \in Nat
              BY <1>3, DivFacts
            <6>2. NumOf(size[f]) \in Nat
              BY <1>5, NumFacts
            <6>3. NumOf(o + 1) = o \div B + 1 /\ NumOf(o + 1) <= NumOf(size[f])
              <7>1. o + 1 \in Nat /\ o + 1 > 0 /\ (o + 1) - 1 = o /\ o + 1 <= size[f]
                BY <3>2, <1>3, <1>5
              <7> QED
                BY <7>1, <1>5, NumFacts, NumMono
            <6>4. o \div B \in 0..(NumOf(size[f]) - 1)
              BY <6>1, <6>2, <6>3
            <6> QED
              BY <6>4, <1>2, <1>5, IndexIn
          <5> QED
            BY <5>1, <4>1, <1>i, <1>2, FileFacts DEF bmapForAppend, B
        <4>7. m \in Nat
          BY <4>3, <1>2
        <4> HIDE DEF m, block
        <4> QED
          BY <4>2, <4>3, <4>4, <4>5, <4>6, <4>7, <1>i DEF Shape, TypeOK, list
      <3> QED
        BY <3>1, <3>2, <2>2, <1>3, <1>5
    <2> HIDE DEF m, block
    <2>4. disk' \in [Blocks \union {0} -> [InBlock -> Bytes \union {Junk}]]
      <3>1. SubSeq(req.buf, done + 1, done + n) \in Seq(Bytes)
        <4>1. done + 1 \in Int /\ done + n \in Int /\ done + 1 >= 1 /\ done + n <= Len(req.buf)
          BY <1>2, <1>3, <1>4
        <4>2. \A i \in (done + 1)..(done + n) : req.buf[i] \in Bytes
          BY <4>1, <1>2
        <4> QED
          BY <4>1, <4>2, SubSeqProperties
      <3> QED
        BY <3>1, <2>1, <2>3, <1>i, <1>3, PutType, StoredType
    <2>5. CASE done + n < req.n
      <3>1. done' = done + n /\ req' = req
        BY <2>1, <2>5 DEF Continue
      <3>2. done' \in Nat /\ done' <= 2 * MaxSize[req'.file]
        BY <3>1, <2>5, <1>f, <1>2, <1>3, <1>4
      <3>3. TypeOK'
        BY <3>1, <3>2, <2>3, <2>4, <1>i, <1>6 DEF TypeOK
      <3>4. Progress'
        <4>1. tidy' => \/ req'.offset + done' >= size'[req'.file]
                       \/ req'.offset + req'.n <= size'[req'.file]
                       \/ size'[req'.file] % B = 0 /\ req'.n <= size'[req'.file]
          <5>1. req.offset + (done + n) = o + n
            BY <1>o, <1>2, <1>3, <1>4
          <5> QED
            BY <5>1, <3>1, <2>3, <2>5, <1>f, <1>6
        <4>2. done' \in Nat /\ done' < req'.n /\ req' # NoRequest /\ req'.op = "write"
          BY <3>1, <3>2, <2>5, <1>1
        <4> QED
          BY <4>1, <4>2 DEF Progress, Serving
      <3> QED
        BY <3>3, <3>4, <2>3 DEF Inv
    <2>6. CASE ~(done + n < req.n)
      <3>1. req' = NoRequest /\ done' = 0 /\ Progress'
        BY <2>1, <2>6, ReturnFacts
      <3>2. TypeOK'
        BY <3>1, <2>3, <2>4, <1>i, <1>6 DEF TypeOK
      <3> QED
        BY <3>1, <3>2, <2>3 DEF Inv
    <2> QED
      BY <2>5, <2>6
  <1> QED
    BY <1>7, <1>8

\* A pass of a read.
LEMMA ReadInv ==
    ASSUME Inv, ReadPass
    PROVE  Inv'
  <1>i. Shape /\ TypeOK /\ Progress /\ Accounted
    BY DEF Inv
  <1>1. /\ Serving("read") /\ size' = size /\ nums' = nums /\ disk' = disk /\ list' = list
        /\ full' = full /\ tidy' = tidy
    BY DEF ReadPass
  <1>2. Shape' /\ Accounted'
    BY <1>1, <1>i, SameFiles
  <1>3. CASE ~(done < Least(req.n, size[req.file] - req.offset))
    <2>1. Return(done, got)
      BY <1>3 DEF ReadPass
    <2>2. req' = NoRequest /\ done' = 0 /\ Progress'
      BY <2>1, ReturnFacts
    <2>3. TypeOK'
      BY <2>2, <1>i, <1>1 DEF TypeOK, list
    <2> QED
      BY <2>2, <2>3, <1>2 DEF Inv
  <1>4. CASE done < Least(req.n, size[req.file] - req.offset)
    <2>1. PICK n : n = bytesToReadFromBlock(req.file, req.offset + done)
      OBVIOUS
    <2>2. done' = done + n /\ req' = req
      BY <1>4, <2>1 DEF ReadPass
    <2>3. req # NoRequest /\ req \in Requests /\ req.op = "read"
      BY <1>i, <1>1 DEF Serving, TypeOK
    <2>4. /\ req.file \in Files /\ req.offset \in Nat /\ req.n \in Nat /\ MaxSize[req.file] \in Nat
          /\ req.offset + req.n <= MaxSize[req.file]
      BY <2>3, RequestFacts
    <2>5. done \in Nat /\ size[req.file] \in Nat /\ size[req.file] <= MaxSize[req.file]
      BY <2>4, <1>i, FileFacts DEF Progress
    <2> DEFINE rest == Least(size[req.file], req.n + req.offset) - done
    <2>6. rest \in Nat /\ rest > 0 /\ done + rest <= MaxSize[req.file]
      BY <1>4, <2>4, <2>5 DEF Least
    <2>7. n = Least(bytesLeftInBlock(req.offset + done), rest)
      BY <2>1 DEF bytesToReadFromBlock
    <2> HIDE DEF rest
    <2>8. n \in Nat /\ n <= rest
      <3>1. req.offset + done \in Nat
        BY <2>4, <2>5
      <3> QED
        BY <3>1, <2>6, <2>7, PassLength
    <2>9. done' \in Nat /\ done' <= 2 * MaxSize[req'.file]
      BY <2>2, <2>4, <2>5, <2>6, <2>8
    <2>10. TypeOK'
      BY <2>2, <2>9, <1>i, <1>1 DEF TypeOK, list
    <2>11. Progress'
      BY <2>2, <2>3, <2>9 DEF Progress, Serving
    <2> QED
      BY <2>10, <2>11, <1>2 DEF Inv
  <1> QED
    BY <1>3, <1>4

\* A truncation to the size the file has.
LEMMA TruncateSameInv ==
    ASSUME Inv, TruncateSame
    PROVE  Inv'
  <1>i. Shape /\ TypeOK /\ Progress /\ Accounted
    BY DEF Inv
  <1>1. /\ Return(0, << >>) /\ size' = size /\ nums' = nums /\ disk' = disk /\ list' = list
        /\ full' = full /\ tidy' = tidy
    BY DEF TruncateSame
  <1>2. Shape' /\ Accounted'
    BY <1>1, <1>i, SameFiles
  <1>3. req' = NoRequest /\ done' = 0 /\ Progress'
    BY <1>1, ReturnFacts
  <1>4. TypeOK'
    BY <1>1, <1>3, <1>i DEF TypeOK, list
  <1> QED
    BY <1>2, <1>3, <1>4 DEF Inv

\* What a pass of a truncation that goes on leaves of the call.
LEMMA TruncateGoesOn ==
    ASSUME Inv, Serving("truncate"), Continue(0)
    PROVE  /\ req' = req /\ done' = done
           /\ Progress'
  <1>1. Progress /\ TypeOK
    BY DEF Inv
  <1>2. req' = req /\ done' = done /\ done \in Nat
    BY <1>1 DEF Continue, Progress
  <1>3. req' # NoRequest /\ req'.op = "truncate"
    BY <1>2 DEF Serving
  <1> QED
    BY <1>2, <1>3 DEF Progress, Serving

\* A pass of a truncation that makes the file longer.
LEMMA GrowInv ==
    ASSUME Inv, GrowPass
    PROVE  Inv'
  <1>i. Shape /\ TypeOK /\ Progress /\ Accounted
    BY DEF Inv
  <1>f. PICK f : f = req.file
    OBVIOUS
  <1>s. PICK s : s = size[f]
    OBVIOUS
  <1>n. PICK n : n = Least(bytesLeftInBlock(s), req.n - s)
    OBVIOUS
  <1>1. /\ Serving("truncate") /\ s < req.n /\ Insert(f, s)
        /\ Stores(writeNullBytes(bmapForAppend(f, s), s, n))
        /\ size' = [size EXCEPT ![f] = s + n] /\ Continue(0) /\ tidy' = tidy
    BY <1>f, <1>s, <1>n DEF GrowPass
  <1>2. req \in Requests
    BY <1>i, <1>1 DEF Serving, TypeOK
  <1>3. f \in Files /\ req.n \in Nat /\ req.n <= MaxSize[f] /\ MaxSize[f] \in Nat
    <2>1. /\ f \in Files /\ req.offset \in Nat /\ req.n \in Nat /\ MaxSize[f] \in Nat
          /\ req.offset + req.n <= MaxSize[f]
      BY <1>f, <1>2, RequestFacts
    <2> QED
      BY <2>1
  <1>4. s \in Nat /\ req.n - s \in Nat /\ req.n - s > 0
    BY <1>i, <1>s, <1>1, <1>3, FileFacts
  <1>5. n \in Nat /\ n > 0 /\ n <= bytesLeftInBlock(s) /\ n <= req.n - s
    BY <1>n, <1>4, PassLength
  <1>6. s + n <= req.n /\ s + n <= MaxSize[f] /\ s + n \in Nat
    BY <1>3, <1>4, <1>5
  <1>7. /\ Shape' /\ Accounted' /\ free' \subseteq Blocks /\ full' \subseteq Files
        /\ link' \in Blocks \union {0} /\ sound' \in BOOLEAN
        /\ \A g \in Files : /\ size'[g] \in 0..MaxSize[g]
                            /\ nums'[g] \in [Numbers(g) -> Blocks \union {0}]
        /\ bmapForAppend(f, s) \in Blocks \union {0}
    BY <1>i, <1>s, <1>1, <1>3, <1>5, <1>6, AppendStep
  <1>8. disk' \in [Blocks \union {0} -> [InBlock -> Bytes \union {Junk}]]
    <2>1. [i \in 1..n |-> 0] \in Seq(Bytes)
      BY <1>5 DEF Bytes
    <2> QED
      BY <2>1, <1>i, <1>1, <1>4, <1>7, PutType, StoredType DEF writeNullBytes
  <1>10. req' = req /\ done' = done /\ Progress'
    BY <1>1, TruncateGoesOn
  <1>11. TypeOK'
    BY <1>i, <1>1, <1>7, <1>8, <1>10 DEF TypeOK
  <1> QED
    BY <1>7, <1>10, <1>11 DEF Inv

\* A pass of a truncation that makes the file shorter.
LEMMA ShrinkInv ==
    ASSUME Inv, ShrinkPass
    PROVE  Inv'
  <1>i. Shape /\ TypeOK /\ Progress /\ Accounted
    BY DEF Inv
  <1>f. PICK f : f = req.file
    OBVIOUS
  <1>s. PICK s : s = size[f]
    OBVIOUS
  <1>u. PICK used : used = ((s - 1) % B) + 1
    OBVIOUS
  <1>l. PICK left : left = s - req.n
    OBVIOUS
  <1>1. /\ Serving("truncate") /\ s > req.n
        /\ left < used => /\ size' = [size EXCEPT ![f] = s - left]
                          /\ disk' = disk /\ list' = list /\ tidy' = tidy
        /\ ~(left < used) => /\ size' = [size EXCEPT ![f] = s - used]
                             /\ Freed(f, {(s - 1) \div B})
        /\ Continue(0) /\ nums' = nums /\ full' = full
    BY <1>f, <1>s, <1>u, <1>l DEF ShrinkPass, staysInBlock, B
  <1>2. req \in Requests
    BY <1>i, <1>1 DEF Serving, TypeOK
  <1>3. f \in Files /\ req.n \in Nat /\ MaxSize[f] \in Nat
    BY <1>f, <1>2, RequestFacts
  <1>4. s \in Nat /\ s <= MaxSize[f] /\ s > 0 /\ left \in 1..s /\ s - left = req.n
    BY <1>i, <1>s, <1>l, <1>1, <1>3, FileFacts
  <1>5. /\ used \in 1..s
        /\ left < used => NumOf(s - left) = NumOf(s)
        /\ left >= used => NumOf(s - left) < NumOf(s)
        /\ NumOf(s - used) = NumOf(s) - 1 /\ (s - 1) \div B = NumOf(s) - 1
    BY <1>u, <1>4, ShrinkNum
  <1>6. Count(f) = NumOf(s) /\ Count(f) \in Nat
    BY <1>i, <1>s, <1>3, FileFacts DEF Count
  <1>r. req' = req
    BY <1>1 DEF Continue
  <1>7. CASE left < used
    <2>1. s - left \in 0..MaxSize[f]
      BY <1>3, <1>4
    <2>2. /\ size' \in [Files -> Nat] /\ \A g \in Files : size'[g] \in 0..MaxSize[g]
          /\ Count(f)' = NumOf(s - left)
          /\ \A g \in Files \ {f} : Count(g)' = Count(g)
      BY <2>1, <1>i, <1>1, <1>3, <1>7, Resized
    <2>3. Count(f)' = Count(f)
      BY <2>2, <1>5, <1>6, <1>7
    <2>4. Accounted'
      BY <2>2, <2>3, <1>i, <1>1, <1>3, <1>6, <1>7, KeepAccounted
    <2>6. req' = req /\ done' = done /\ Progress'
      BY <1>1, TruncateGoesOn
    <2>7. Shape' /\ TypeOK'
      BY <2>2, <2>6, <1>i, <1>1, <1>7 DEF Shape, TypeOK, list
    <2> QED
      BY <2>4, <2>6, <2>7 DEF Inv
  <1>8. CASE ~(left < used)
    <2>1. s - used \in 0..MaxSize[f]
      BY <1>3, <1>4, <1>5
    <2>2. /\ size' \in [Files -> Nat] /\ \A g \in Files : size'[g] \in 0..MaxSize[g]
          /\ Count(f)' = NumOf(s - used)
          /\ \A g \in Files \ {f} : Count(g)' = Count(g)
      BY <2>1, <1>i, <1>1, <1>3, <1>8, Resized
    <2>3. Count(f) - 1 \in 0..Count(f) /\ (Count(f) - 1)..(Count(f) - 1) = {(s - 1) \div B}
      <3>1. NumOf(s - used) \in Nat
        BY <1>4, <1>5, NumFacts
      <3> QED
        BY <3>1, <1>5, <1>6
    <2>4. Count(f)' = Count(f) - 1
      BY <2>2, <1>5, <1>6
    <2>7. /\ Accounted' /\ free' \subseteq Blocks /\ link' \in Blocks \union {0}
          /\ sound' = sound /\ tidy' \in BOOLEAN
          /\ disk' \in [Blocks \union {0} -> [InBlock -> Bytes \union {Junk}]]
      BY <2>2, <2>3, <2>4, <1>i, <1>1, <1>3, <1>8, DropAccounted
    <2>8. req' = req /\ done' = done /\ Progress'
      BY <1>1, TruncateGoesOn
    <2>9. Shape' /\ TypeOK'
      BY <2>2, <2>7, <2>8, <1>i, <1>1 DEF Shape, TypeOK
    <2> QED
      BY <2>7, <2>8, <2>9 DEF Inv
  <1> QED
    BY <1>7, <1>8

\* A file without links is freed.
LEMMA DeleteInv ==
    ASSUME Inv, Delete
    PROVE  Inv'
  <1>i. Shape /\ TypeOK /\ Progress /\ Accounted
    BY DEF Inv
  <1>f. PICK f : f = req.file
    OBVIOUS
  <1>1. /\ Serving("delete") /\ Freed(f, 0..(Count(f) - 1)) /\ size' = [size EXCEPT ![f] = 0]
        /\ Return(0, << >>) /\ nums' = nums /\ full' = full
    BY <1>f DEF Delete, inodeBlocksFree, Count
  <1>2. req \in Requests
    BY <1>i, <1>1 DEF Serving, TypeOK
  <1>3. f \in Files /\ MaxSize[f] \in Nat
    BY <1>f, <1>2, RequestFacts
  <1>5. /\ size' \in [Files -> Nat] /\ \A g \in Files : size'[g] \in 0..MaxSize[g]
        /\ Count(f)' = NumOf(0)
        /\ \A g \in Files \ {f} : Count(g)' = Count(g)
    <2>1. 0 \in 0..MaxSize[f]
      BY <1>3
    <2> QED
      BY <2>1, <1>i, <1>1, <1>3, Resized
  <1>6. Count(f)' = 0 /\ 0 \in 0..Count(f)
    BY <1>i, <1>3, <1>5, NumFacts, FileFacts
  <1>8. /\ Accounted' /\ free' \subseteq Blocks /\ link' \in Blocks \union {0}
        /\ sound' = sound /\ tidy' \in BOOLEAN
        /\ disk' \in [Blocks \union {0} -> [InBlock -> Bytes \union {Junk}]]
    BY <1>i, <1>1, <1>3, <1>5, <1>6, DropAccounted
  <1>9. req' = NoRequest /\ done' = 0 /\ Progress'
    BY <1>1, ReturnFacts
  <1>10. Shape' /\ TypeOK'
    BY <1>i, <1>1, <1>5, <1>8, <1>9 DEF Shape, TypeOK
  <1> QED
    BY <1>8, <1>9, <1>10 DEF Inv

-----------------------------------------------------------------------------
(* The theorems.                                                           *)

\* Every call and every pass of its loop keeps the invariant.
LEMMA StepInv ==
    ASSUME Inv, [Next]_vars
    PROVE  Inv'
  <1>1. ASSUME NEW r \in Requests, Call(r)
        PROVE  Inv'
    BY <1>1, CallInv
  <1>2. CASE WritePass
    BY <1>2, WriteInv
  <1>3. CASE ReadPass
    BY <1>3, ReadInv
  <1>4. CASE TruncateSame
    BY <1>4, TruncateSameInv
  <1>5. CASE GrowPass
    BY <1>5, GrowInv
  <1>6. CASE ShrinkPass
    BY <1>6, ShrinkInv
  <1>7. CASE Delete
    BY <1>7, DeleteInv
  <1>8. CASE UNCHANGED vars
    BY <1>8 DEF Inv, vars, list, Shape, TypeOK, Progress, Accounted, Accounts, Count, Serving
  <1> QED
    BY <1>1, <1>2, <1>3, <1>4, <1>5, <1>6, <1>7, <1>8 DEF Next, Pass

\* The inductive invariant holds whatever calls are made.
LEMMA InvAlways == SafeSpec => []Inv
  <1>1. Init => Inv
    BY InitInv
  <1>2. Inv /\ [Next]_vars => Inv'
    BY StepInv
  <1> QED
    BY <1>1, <1>2, PTL DEF SafeSpec

\* Sizes, block numbers, bytes and the counts of the loops stay in range: no
\* pass of write, read or truncate runs past the numbers of the inode, also
\* when the disk is full and after the free list is lost.
THEOREM TypeCorrect == Spec => []TypeOK
  <1>1. Inv => TypeOK
    BY DEF Inv
  <1> QED
    BY <1>1, InvAlways, PTL DEF Spec

\* Until a block that was freed into a link is handed out, the loops of write,
\* truncate and inodeBlocksFree never put a block in two places, not even when
\* the disk was full and files were deleted then, and lose one only in a write
\* that crosses the end of its file, or when block 0 is freed.
THEOREM EveryBlockAccounted == Spec => []BlocksAccounted
  <1>1. Inv => BlocksAccounted
    <2> SUFFICES ASSUME Inv, sound
                 PROVE  BlocksAccounted
      BY DEF BlocksAccounted
    <2>1. Shape /\ TypeOK /\ Accounts
      BY DEF Inv, Accounted
    <2>2. \A f, g \in Files : \A i \in 0..(NumOf(size[f]) - 1), j \in 0..(NumOf(size[g]) - 1) :
             nums[f][i] = nums[g][j] => (f = g /\ i = j) \/ nums[f][i] = 0
      BY <2>1 DEF Accounts, Count
    <2>3. \A f \in Files : BlocksOf(f) = {nums[f][k] : k \in 0..(Count(f) - 1)}
      BY DEF BlocksOf, Count
    <2>4. \A f \in Files : BlocksOf(f) \intersect free = {}
      BY <2>1, <2>3 DEF Accounts
    <2>5. \A f \in Files : 0 \in BlocksOf(f) => f \in full
      BY <2>1, <2>3 DEF Accounts
    <2>6. ASSUME tidy
          PROVE  Blocks \subseteq free \union UNION {BlocksOf(f) : f \in Files}
      <3> SUFFICES ASSUME NEW b \in Blocks, b \notin free
                   PROVE  \E f \in Files : b \in BlocksOf(f)
        OBVIOUS
      <3> QED
        BY <2>1, <2>3, <2>6 DEF Accounts
    <2> QED
      BY <2>2, <2>4, <2>5, <2>6 DEF BlocksAccounted
  <1> QED
    BY <1>1, InvAlways, PTL DEF Spec
=============================================================================
