--------------------------- MODULE ByteFileProofs ---------------------------
(***************************************************************************)
(* The loops of read, write and truncate implement files of bytes, for     *)
(* every number of files and blocks and every block size.                  *)
(***************************************************************************)
EXTENDS FileDataProofs

Values == Bytes \union {Junk}

\* A file that never met a full disk has no block 0.
Whole ==
    \A f \in Files \ full : \A i \in 0..(Count(f) - 1) : nums[f][i] # 0

Larger(a, b) == IF a < b THEN b ELSE a

\* The size of a file after d of the n bytes of a write at an offset, if it was
\* length before: that; or the end of the bytes written, if this is the larger;
\* or, if the write starts over a shorter file, the number of bytes written; or,
\* if the code has lost track of it, any below their end.
Reaches(length, offset, n, d, s) ==
    \/ d = 0 /\ s = length
    \/ /\ offset <= length /\ s = Larger(length, offset + d)
       /\ n <= length \/ offset + d >= length
    \/ offset = 0 /\ s = d /\ n > length
    \/ /\ ~File!LeavesWhole(length, offset, n)
       /\ offset <= length /\ d > 0 /\ s \in 1..(offset + d - 1)

\* The file of a write r that has been through d bytes of its buffer, if it had
\* the bytes w before: these are in their places and the rest is as it was.
Written(r, w, d) ==
    /\ \A p \in 0..(size[r.file] - 1) :
          Byte(r.file, p) = IF p \in r.offset..(r.offset + d - 1)
                            THEN r.buf[p - r.offset + 1] ELSE w[p + 1]
    /\ Reaches(Len(w), r.offset, r.n, d, size[r.file])

\* A read has found the bytes of the file as far as it goes.  One of whole
\* blocks stops at the last, or at the end of the file.
ReadSoFar(r, w, d) ==
    /\ size[r.file] = Len(w)
    /\ \A p \in 0..(size[r.file] - 1) : Byte(r.file, p) = w[p + 1]
    /\ got \in Seq(Values) /\ Len(got) = d
    /\ \A i \in 1..d : r.offset + i <= Len(w) => got[i] = w[r.offset + i]
    /\ r.offset >= Len(w) => d = 0
    /\ r.offset % B = 0 /\ r.n % B = 0 =>
          d <= r.n /\ (d % B = 0 \/ d >= Len(w) - r.offset)

\* A truncation has the size on its way to the one asked for.
Truncated(r, w) ==
    /\ size[r.file] \in r.n..Len(w) \/ size[r.file] \in Len(w)..r.n
    /\ \A p \in 0..(size[r.file] - 1) :
          Byte(r.file, p) = IF p < Len(w) THEN w[p + 1] ELSE 0

\* What a call has done to a file that never met a full disk.
Served ==
    /\ was \in Seq(Values)
    /\ req = NoRequest => got = << >>
    /\ req # NoRequest /\ req.file \notin full =>
          /\ req.op = "write" => Written(req, was, done)
          /\ req.op = "read" => ReadSoFar(req, was, done)
          /\ req.op = "truncate" => Truncated(req, was)

\* The invariant behind the refinement, while the free list lists free blocks.
ByteInv == Inv /\ sound /\ Whole /\ Served

-----------------------------------------------------------------------------
(* A pass that puts bytes into a block.                                    *)

\* A pass of write or of a truncation that makes a file longer: n bytes at an
\* offset within one block, after which the size is m.
Puts(f, o, n, bytes, m) ==
    /\ Insert(f, o)
    /\ disk' = putInBlock(bmapForAppend(f, o), o, bytes)
    /\ size' = [size EXCEPT ![f] = m]

\* What such a pass is called with.
CanPut(f, o, n, bytes, m) ==
    /\ o \in 0..size[f] /\ n \in Nat /\ n > 0 /\ n <= bytesLeftInBlock(o)
    /\ bytes \in Seq(Bytes) /\ Len(bytes) = n
    /\ m \in 0..MaxSize[f]
    /\ o = size[f] => m = o + n
    /\ o < size[f] => NumOf(m) <= Count(f)

\* Two positions are in the same block if their quotients are the same, and
\* then their remainders are as far apart as they are.
LEMMA SameBlock ==
    ASSUME NEW o \in Nat, NEW p \in Nat, NEW n \in Nat, n <= bytesLeftInBlock(o)
    PROVE  /\ p \div B = o \div B => p - o = (p % B) - (o % B)
           /\ p \in o..(o + n - 1) => p \div B = o \div B
  <1>0. B \in Nat /\ B > 0
    BY FileDataAssumption DEF B
  <1> DEFINE q == o \div B
             r == p \div B
  <1>1. q \in Nat /\ o % B = o - B * q /\ B * q <= o /\ o < B * q + B
    BY DivFacts
  <1>2. r \in Nat /\ p % B = p - B * r /\ B * r <= p /\ p < B * r + B
    BY DivFacts
  <1>3. n <= B - (o - B * q)
    BY <1>1 DEF bytesLeftInBlock, B
  <1> HIDE DEF q, r
  <1>4. B * q \in Int /\ B * r \in Int
    BY <1>1, <1>2, Multiples
  <1>5. r = q => p - o = (p % B) - (o % B)
    BY <1>1, <1>2, <1>4
  <1>6. ASSUME p \in o..(o + n - 1)
        PROVE  r = q
    <2>1. B * q <= p /\ p < B * q + B
      BY <1>0, <1>1, <1>3, <1>4, <1>6
    <2> QED
      BY <2>1, <1>1, QuotientIs DEF r
  <1> QED
    BY <1>5, <1>6 DEF q, r

\* putInBlock leaves the other blocks alone.
LEMMA PutElsewhere ==
    ASSUME TypeOK, NEW block \in Blocks \union {0}, NEW o, NEW bytes
    PROVE  \A c \in (Blocks \union {0}) \ {block} : putInBlock(block, o, bytes)[c] = disk[c]
  <1> DEFINE a == o % B
             new == [i \in InBlock |-> IF i \in a..(a + Len(bytes) - 1)
                                       THEN bytes[i - a + 1] ELSE disk[block][i]]
  <1>1. disk \in [Blocks \union {0} -> [InBlock -> Bytes \union {Junk}]]
    BY DEF TypeOK
  <1>2. putInBlock(block, o, bytes) = [disk EXCEPT ![block] = new]
    BY <1>1 DEF putInBlock, B
  <1> HIDE DEF new
  <1> QED
    BY <1>1, <1>2

\* The bytes of the disk after putInBlock.
LEMMA PutByte ==
    ASSUME TypeOK, NEW block \in Blocks \union {0}, NEW o \in Nat, NEW n \in Nat, n > 0,
           n <= bytesLeftInBlock(o), NEW bytes \in Seq(Bytes), Len(bytes) = n,
           NEW p \in Nat
    PROVE  p \div B = o \div B =>
                 putInBlock(block, o, bytes)[block][p % B] =
                    IF p \in o..(o + n - 1) THEN bytes[p - o + 1] ELSE disk[block][p % B]
  <1> DEFINE a == o % B
             new == [i \in InBlock |-> IF i \in a..(a + Len(bytes) - 1)
                                       THEN bytes[i - a + 1] ELSE disk[block][i]]
             d == putInBlock(block, o, bytes)
  <1>1. disk \in [Blocks \union {0} -> [InBlock -> Bytes \union {Junk}]]
    BY DEF TypeOK
  <1>2. d = [disk EXCEPT ![block] = new]
    BY <1>1 DEF putInBlock, B
  <1> HIDE DEF d, new
  <1>3. d[block] = new
    BY <1>1, <1>2
  <1>4. p % B \in InBlock /\ p % B \in Int /\ o % B \in Int
    <2>1. p % B \in 0..(B - 1) /\ o % B \in 0..(B - 1) /\ B \in Nat
      BY DivFacts
    <2>2. InBlock = 0..(B - 1)
      BY DEF InBlock, B
    <2> QED
      BY <2>1, <2>2
  <1>5. ASSUME p \div B = o \div B
        PROVE  d[block][p % B] = IF p \in o..(o + n - 1) THEN bytes[p - o + 1] ELSE disk[block][p % B]
    <2>1. p - o = (p % B) - (o % B)
      BY <1>5, SameBlock
    <2> DEFINE b == p % B
    <2>2. new[b] = IF b \in a..(a + n - 1) THEN bytes[b - a + 1] ELSE disk[block][b]
      BY <1>4 DEF new
    <2>3. a \in Int /\ b \in Int /\ p - o = b - a
      BY <1>4, <2>1
    <2> HIDE DEF a, b
    <2>4. b \in a..(a + n - 1) <=> p \in o..(o + n - 1)
      BY <2>3
    <2>5. b - a + 1 = p - o + 1
      BY <2>3
    <2>6. new[b] = IF p \in o..(o + n - 1) THEN bytes[p - o + 1] ELSE disk[block][b]
      BY <2>2, <2>4, <2>5
    <2> QED
      BY <2>6, <1>3 DEF b
  <1> QED
    BY <1>5 DEF d

\* Positions below the size are in the blocks of the file.
LEMMA BlockOfPosition ==
    ASSUME NEW s \in Nat, NEW p \in 0..(s - 1)
    PROVE  p \div B \in 0..(NumOf(s) - 1) /\ p \in Nat
  <1>1. p \in Nat /\ p + 1 \in Nat /\ p + 1 > 0 /\ (p + 1) - 1 = p /\ p + 1 <= s
    OBVIOUS
  <1>2. p \div B \in Nat
    BY <1>1, DivFacts
  <1>3. NumOf(p + 1) = p \div B + 1
    BY <1>1, NumFacts
  <1>4. NumOf(p + 1) <= NumOf(s)
    BY <1>1, NumMono
  <1>5. NumOf(s) \in Nat
    BY NumFacts
  <1> QED
    BY <1>1, <1>2, <1>3, <1>4, <1>5

\* The blocks of the file: the pass appends one, or has its block already.
LEMMA PutsBlocks ==
    ASSUME Shape, TypeOK, NEW f \in Files, NEW o, NEW n, NEW bytes, NEW m,
           CanPut(f, o, n, bytes, m), Puts(f, o, n, bytes, m)
    PROVE  /\ \A g \in Files \ {f} : nums'[g] = nums[g] /\ Count(g)' = Count(g) /\ size'[g] = size[g]
           /\ size'[f] = m
           /\ \/ /\ Count(f) = o \div B /\ Count(f)' = Count(f) + 1
                 /\ o = size[f]
                 /\ nums'[f][o \div B] = blockAlloc /\ bmapForAppend(f, o) = blockAlloc
                 /\ \A i \in 0..(Count(f) - 1) : nums'[f][i] = nums[f][i]
                 /\ full' = IF free = {} THEN full \union {f} ELSE full
              \/ /\ nums' = nums /\ full' = full /\ Count(f)' <= Count(f) /\ Count(f)' \in Nat
                 /\ o \div B \in 0..(Count(f) - 1) /\ bmapForAppend(f, o) = nums[f][o \div B]
  <1>1. /\ size[f] \in Nat /\ Count(f) \in Nat /\ o \in Nat /\ o <= size[f]
        /\ n \in Nat /\ n > 0 /\ n <= bytesLeftInBlock(o) /\ m \in 0..MaxSize[f]
        /\ (o = size[f] => m = o + n) /\ (o < size[f] => NumOf(m) <= Count(f))
        /\ Count(f) = NumOf(size[f]) /\ m \in Nat
    <2>1. size[f] \in Nat /\ Count(f) \in Nat /\ Count(f) = NumOf(size[f]) /\ MaxSize[f] \in Nat
      BY FileFacts DEF Count
    <2> QED
      BY <2>1 DEF CanPut
  <1>2. Insert(f, o) /\ size' = [size EXCEPT ![f] = m]
    BY DEF Puts
  <1>3. size'[f] = m /\ \A g \in Files \ {f} : size'[g] = size[g]
    BY <1>2 DEF Shape
  <1>4. Count(f)' = NumOf(m) /\ \A g \in Files \ {f} : Count(g)' = Count(g)
    BY <1>3 DEF Count
  <1>5. CASE NeedsBlock(f, o)
    <2>1. o = size[f] /\ o % B = 0 /\ m = o + n
      BY <1>5, <1>1 DEF NeedsBlock, B
    <2>2. NumOf(o) = o \div B /\ NumOf(o + n) = o \div B + 1
      BY <2>1, <1>1, AppendNum
    <2>3. /\ nums' = [nums EXCEPT ![f][o \div B] = blockAlloc]
          /\ full' = IF free = {} THEN full \union {f} ELSE full
      BY <1>2, <1>5 DEF Insert, B
    <2>4. bmapForAppend(f, o) = blockAlloc
      BY <1>5 DEF bmapForAppend
    <2>5. o \div B \in Numbers(f)
      <3>1. o \div B \in 0..(NumOf(m) - 1)
        BY <2>1, <2>2, <1>1, DivFacts
      <3> QED
        BY <3>1, <1>1, IndexIn
    <2>6. /\ nums = [g \in Files |-> nums[g]] /\ nums[f] \in [Numbers(f) -> Blocks \union {0}]
      BY FileFacts DEF Shape
    <2>7. /\ \A g \in Files \ {f} : nums'[g] = nums[g]
          /\ nums'[f] = [nums[f] EXCEPT ![o \div B] = blockAlloc]
      BY <2>3, <2>6
    <2>8. /\ nums'[f][o \div B] = blockAlloc
          /\ \A i \in Numbers(f) \ {o \div B} : nums'[f][i] = nums[f][i]
      BY <2>5, <2>6, <2>7
    <2>9. \A i \in 0..(Count(f) - 1) : i \in Numbers(f) \ {o \div B}
      BY <2>1, <2>2, <1>1, FileFacts
    <2>10. Count(f) = o \div B /\ Count(f)' = Count(f) + 1
      BY <2>1, <2>2, <1>1, <1>4
    <2> QED
      BY <2>1, <2>3, <2>4, <2>7, <2>8, <2>9, <2>10, <1>3, <1>4
  <1>6. CASE ~NeedsBlock(f, o)
    <2>1. nums' = nums /\ full' = full /\ bmapForAppend(f, o) = nums[f][o \div B]
      BY <1>2, <1>6 DEF Insert, bmapForAppend, B
    <2>2. NumOf(m) \in Nat
      BY <1>1, NumFacts
    <2>3. Count(f)' <= Count(f) /\ o \div B \in 0..(Count(f) - 1)
      <3>1. CASE o = size[f]
        <4>1. o % B # 0
          BY <3>1, <1>6 DEF NeedsBlock, B
        <4>2. NumOf(o) = o \div B + 1 /\ NumOf(o + n) = NumOf(o)
          BY <4>1, <1>1, AppendNum
        <4>3. o \div B \in Nat
          BY <1>1, DivFacts
        <4> QED
          BY <4>2, <4>3, <3>1, <1>1, <1>4
      <3>2. CASE o < size[f]
        <4>1. o \in 0..(size[f] - 1)
          BY <3>2, <1>1
        <4>2. o \div B \in 0..(NumOf(size[f]) - 1)
          BY <4>1, <1>1, BlockOfPosition
        <4> QED
          BY <4>2, <3>2, <1>1, <1>4
      <3> QED
        BY <3>1, <3>2, <1>1
    <2> QED
      BY <2>1, <2>2, <2>3, <1>3, <1>4
  <1> QED
    BY <1>5, <1>6

\* A file takes block 0 only when the disk is full.
LEMMA PutsWhole ==
    ASSUME Shape, TypeOK, Whole, NEW f \in Files, NEW o, NEW n, NEW bytes, NEW m,
           CanPut(f, o, n, bytes, m), Puts(f, o, n, bytes, m)
    PROVE  Whole' /\ full \subseteq full' /\ full' \subseteq full \union {f}
  <1> DEFINE K == o \div B
             Appends == /\ Count(f) = K /\ Count(f)' = Count(f) + 1
                        /\ o = size[f]
                        /\ nums'[f][K] = blockAlloc /\ bmapForAppend(f, o) = blockAlloc
                        /\ \A i \in 0..(Count(f) - 1) : nums'[f][i] = nums[f][i]
                        /\ full' = IF free = {} THEN full \union {f} ELSE full
             Stays == /\ nums' = nums /\ full' = full /\ Count(f)' <= Count(f) /\ Count(f)' \in Nat
                      /\ K \in 0..(Count(f) - 1) /\ bmapForAppend(f, o) = nums[f][K]
  <1>1. /\ \A g \in Files \ {f} : nums'[g] = nums[g] /\ Count(g)' = Count(g)
        /\ Appends \/ Stays
    BY PutsBlocks
  <1>2. Count(f) \in Nat /\ free \subseteq Blocks /\ 0 \notin Blocks
    BY FileFacts DEF TypeOK, Blocks
  <1>3. CASE Appends
    <2>1. f \notin full' => blockAlloc # 0
      BY <1>2, <1>3, AllocFacts
    <2>2. ASSUME NEW g \in Files \ full', NEW i \in 0..(Count(g)' - 1)
          PROVE  nums'[g][i] # 0
      <3>1. g \notin full
        BY <1>3
      <3>2. CASE g # f
        BY <3>1, <3>2, <2>2, <1>1 DEF Whole
      <3>3. CASE g = f /\ i = K
        BY <3>3, <2>1, <2>2, <1>3
      <3>4. CASE g = f /\ i # K
        <4>1. i \in 0..(Count(f) - 1)
          BY <3>4, <2>2, <1>2, <1>3
        <4> QED
          BY <4>1, <3>1, <3>4, <1>3 DEF Whole
      <3> QED
        BY <3>2, <3>3, <3>4
    <2> QED
      BY <2>2, <1>3 DEF Whole
  <1>4. CASE Stays
    <2>1. ASSUME NEW g \in Files \ full', NEW i \in 0..(Count(g)' - 1)
          PROVE  nums'[g][i] # 0
      <3>1. i \in 0..(Count(g) - 1)
        BY <2>1, <1>1, <1>2, <1>4
      <3> QED
        BY <3>1, <1>4 DEF Whole
    <2> QED
      BY <2>1, <1>4 DEF Whole
  <1> QED
    BY <1>1, <1>3, <1>4

\* The bytes of every file after the pass: those put are in their places, and
\* all others are as they were.
LEMMA PutsBytes ==
    ASSUME Shape, TypeOK, Accounts, Whole, Accounts', NEW f \in Files, NEW o, NEW n, NEW bytes, NEW m,
           CanPut(f, o, n, bytes, m), Puts(f, o, n, bytes, m)
    PROVE  /\ f \notin full' => \A p \in 0..(m - 1) :
                 Byte(f, p)' = IF p \in o..(o + n - 1) THEN bytes[p - o + 1] ELSE Byte(f, p)
           /\ \A g \in Files \ {f} : g \notin full' => \A p \in 0..(size[g] - 1) : Byte(g, p)' = Byte(g, p)
  <1> DEFINE K == o \div B
             block == bmapForAppend(f, o)
             Appends == /\ Count(f) = K /\ Count(f)' = Count(f) + 1
                        /\ o = size[f]
                        /\ nums'[f][K] = blockAlloc /\ block = blockAlloc
                        /\ \A i \in 0..(Count(f) - 1) : nums'[f][i] = nums[f][i]
                        /\ full' = IF free = {} THEN full \union {f} ELSE full
             Stays == /\ nums' = nums /\ full' = full /\ Count(f)' <= Count(f) /\ Count(f)' \in Nat
                      /\ K \in 0..(Count(f) - 1) /\ block = nums[f][K]
  <1>1. /\ \A g \in Files \ {f} : nums'[g] = nums[g] /\ Count(g)' = Count(g) /\ size'[g] = size[g]
        /\ size'[f] = m
        /\ Appends \/ Stays
    BY PutsBlocks
  <1>2. /\ \A g \in Files : Count(g) \in Nat /\ size[g] \in Nat
        /\ \A g \in Files : \A i \in 0..(Count(g) - 1) : nums[g][i] \in Blocks \union {0}
    BY FileFacts
  <1>w. Whole' /\ full \subseteq full'
    BY PutsWhole
  <1>3. /\ o \in Nat /\ o <= size[f] /\ n \in Nat /\ n > 0 /\ n <= bytesLeftInBlock(o)
        /\ bytes \in Seq(Bytes) /\ Len(bytes) = n /\ m \in Nat
        /\ o = size[f] => m = o + n
    <2>1. MaxSize[f] \in Nat
      BY FileFacts
    <2> QED
      BY <2>1, <1>2 DEF CanPut
  <1>4. block \in Blocks \union {0}
    <2>1. CASE Appends
      BY <2>1, AllocFacts DEF TypeOK
    <2>2. CASE Stays
      BY <2>2, <1>2
    <2> QED
      BY <2>1, <2>2, <1>1
  <1>5. disk' = putInBlock(block, o, bytes)
    BY DEF Puts
  <1> HIDE DEF block, K
  <1>6. \A c \in (Blocks \union {0}) \ {block} : disk'[c] = disk[c]
    BY <1>4, <1>5, PutElsewhere
  <1>7. ASSUME NEW p \in Nat, p \div B = o \div B
        PROVE  disk'[block][p % B] =
                  IF p \in o..(o + n - 1) THEN bytes[p - o + 1] ELSE disk[block][p % B]
    BY <1>3, <1>4, <1>5, <1>7, PutByte
  <1>8. Appends => K \in 0..(Count(f)' - 1)
    BY <1>2
  <1>9. ASSUME NEW g \in Files \ full', NEW i \in 0..(Count(g)' - 1), g # f \/ i # K
        PROVE  /\ i \in 0..(Count(g) - 1) /\ nums'[g][i] = nums[g][i]
               /\ disk'[nums[g][i]] = disk[nums[g][i]]
    <2>1. i \in 0..(Count(g) - 1) /\ nums'[g][i] = nums[g][i]
      <3>1. CASE g # f
        BY <3>1, <1>1, <1>9
      <3>2. CASE g = f /\ Appends
        <4>1. i \in 0..(Count(f) - 1)
          BY <3>2, <1>2, <1>9
        <4> QED
          BY <4>1, <3>2
      <3>3. CASE g = f /\ Stays
        BY <3>3, <1>2, <1>9
      <3> QED
        BY <3>1, <3>2, <3>3, <1>1
    <2>2. nums[g][i] # 0
      BY <2>1, <1>9, <1>w DEF Whole
    <2>3. nums[g][i] # block
      <3>1. CASE Appends
        <4>1. nums'[g][i] = nums'[f][K] => (g = f /\ i = K) \/ nums'[g][i] = 0
          BY <3>1, <1>8, <1>9 DEF Accounts
        <4> QED
          BY <4>1, <3>1, <2>1, <2>2, <1>9
      <3>2. CASE Stays
        <4>1. nums[g][i] = nums[f][K] => (g = f /\ i = K) \/ nums[g][i] = 0
          BY <3>2, <2>1 DEF Accounts
        <4> QED
          BY <4>1, <3>2, <2>2, <1>9
      <3> QED
        BY <3>1, <3>2, <1>1
    <2> QED
      BY <2>1, <2>3, <1>2, <1>6
  <1>10. ASSUME NEW g \in Files \ {f}, g \notin full', NEW p \in 0..(size[g] - 1)
         PROVE  Byte(g, p)' = Byte(g, p)
    <2>1. p \div B \in 0..(Count(g) - 1)
      BY <1>2, BlockOfPosition DEF Count
    <2>2. nums'[g][p \div B] = nums[g][p \div B] /\ disk'[nums[g][p \div B]] = disk[nums[g][p \div B]]
      BY <2>1, <1>1, <1>9, <1>10
    <2> QED
      BY <2>2 DEF Byte, B
  <1>11. ASSUME f \notin full', NEW p \in 0..(m - 1)
         PROVE  Byte(f, p)' = IF p \in o..(o + n - 1) THEN bytes[p - o + 1] ELSE Byte(f, p)
    <2>1. p \in Nat /\ p \div B \in 0..(Count(f)' - 1)
      BY <1>1, <1>3, BlockOfPosition DEF Count
    <2>2. CASE p \div B # K
      <3>1. nums'[f][p \div B] = nums[f][p \div B] /\ disk'[nums[f][p \div B]] = disk[nums[f][p \div B]]
        BY <2>1, <2>2, <1>9, <1>11
      <3>2. p \notin o..(o + n - 1)
        BY <2>1, <2>2, <1>3, SameBlock DEF K
      <3> QED
        BY <3>1, <3>2 DEF Byte, B
    <2>3. CASE p \div B = K
      <3>1. disk'[block][p % B] = IF p \in o..(o + n - 1) THEN bytes[p - o + 1] ELSE disk[block][p % B]
        BY <2>1, <2>3, <1>7 DEF K
      <3>2. nums'[f][K] = block
        BY <1>1
      <3>3. Byte(f, p)' = disk'[block][p % B]
        BY <3>2, <2>3 DEF Byte, B
      <3>4. CASE Appends
        <4>1. p \in o..(o + n - 1)
          <5>1. ~(p < o)
            <6>1. ASSUME p < o
                  PROVE  FALSE
              <7>1. p \in 0..(size[f] - 1)
                BY <6>1, <3>4, <2>1, <1>3
              <7>2. p \div B \in 0..(Count(f) - 1)
                BY <7>1, <1>2, BlockOfPosition DEF Count
              <7> QED
                BY <7>2, <3>4, <2>3, <1>2
            <6> QED
              BY <6>1
          <5> QED
            BY <5>1, <3>4, <2>1, <1>3, <1>11
        <4> QED
          BY <4>1, <3>1, <3>3
      <3>5. CASE Stays
        <4>1. Byte(f, p) = disk[block][p % B]
          BY <3>5, <2>3 DEF Byte, B
        <4> QED
          BY <4>1, <3>1, <3>3
      <3> QED
        BY <3>4, <3>5, <1>1
    <2> QED
      BY <2>2, <2>3
  <1> QED
    BY <1>10, <1>11

-----------------------------------------------------------------------------
(* The size of a file that is written.                                     *)

\* A pass takes the size on.  If it starts below the end and the write is no
\* longer than the file, it crosses the end only in the middle of a block.
LEMMA ReachesOn ==
    ASSUME NEW L \in Nat, NEW F \in Nat, NEW N \in Nat, NEW d \in Nat, NEW n \in Nat, n > 0,
           d + n <= N, n <= bytesLeftInBlock(F + d), NEW s \in Nat, F + d <= s,
           Reaches(L, F, N, d, s),
           NEW m, m = IF F + d = s THEN s + n ELSE IF d <= s /\ s < N THEN n ELSE s
    PROVE  Reaches(L, F, N, d + n, m)
  <1>1. CASE F + d = s
    <2>1. m = s + n
      BY <1>1
    <2>2. \/ F <= L /\ F + d >= L
          \/ F = 0 /\ s = d /\ N > L
      BY <1>1 DEF Reaches, Larger
    <2> QED
      BY <2>1, <2>2, <1>1 DEF Reaches, Larger
  <1>2. CASE F + d < s /\ N > L
    <2>1. d = 0 /\ s = L
      BY <1>2 DEF Reaches, Larger
    <2>2. m = n
      BY <1>2, <2>1
    <2>3. CASE F = 0
      BY <2>1, <2>2, <2>3, <1>2 DEF Reaches
    <2>4. CASE F # 0
      <3>1. ~File!LeavesWhole(L, F, N)
        BY <2>1, <2>4, <1>2 DEF File!LeavesWhole
      <3> QED
        BY <3>1, <2>1, <2>2, <2>4, <1>2 DEF Reaches
    <2> QED
      BY <2>3, <2>4
  <1>3. CASE F + d < s /\ N <= L
    <2>1. s = L
      BY <1>3 DEF Reaches, Larger
    <2>2. m = L
      BY <1>3, <2>1
    <2>3. CASE F + d + n <= L
      BY <2>2, <2>3 DEF Reaches, Larger
    <2>4. CASE F + d + n > L
      <3>1. L % B # 0
        BY <2>1, <2>4, <1>3, WithinNum
      <3>2. ~File!LeavesWhole(L, F, N)
        BY <3>1, <2>1, <2>4, <1>3 DEF File!LeavesWhole, B
      <3> QED
        BY <3>2, <2>1, <2>2, <2>4, <1>3 DEF Reaches
    <2> QED
      BY <2>3, <2>4
  <1> QED
    BY <1>1, <1>2, <1>3

\* The size when the buffer has been written.
LEMMA ReachesEnd ==
    ASSUME NEW L \in Nat, NEW F \in Nat, NEW N \in Nat, N > 0, NEW s \in Nat, Reaches(L, F, N, N, s)
    PROVE  /\ F <= L /\ s \in 1..Larger(L, F + N)
           /\ File!LeavesWhole(L, F, N) => s = Larger(L, F + N)
  BY DEF Reaches, Larger

\* The size when bmap refuses.
LEMMA ReachesRefused ==
    ASSUME NEW L \in Nat, NEW F \in Nat, NEW N \in Nat, NEW d \in Nat, NEW s \in Nat,
           F + d > s, Reaches(L, F, N, d, s)
    PROVE  \/ d = 0 /\ s = L /\ F > L
           \/ /\ ~File!LeavesWhole(L, F, N) /\ F <= L /\ d > 0 /\ s \in 1..(F + d - 1)
  BY DEF Reaches, Larger

-----------------------------------------------------------------------------
(* Bytes as sequences.                                                     *)

\* A sequence is the function of its elements.
LEMMA SeqIs ==
    ASSUME NEW S, NEW x \in Seq(S), NEW l, l = Len(x)
    PROVE  x = [i \in 1..l |-> x[i]]
  OBVIOUS

\* A function on the first n numbers is a sequence.
LEMMA FunIsSeq ==
    ASSUME NEW S, NEW n \in Nat, NEW x \in [1..n -> S]
    PROVE  x \in Seq(S) /\ Len(x) = n
  OBVIOUS

\* The n elements after the first d.
Slice(b, d, n) == SubSeq(b, d + 1, d + n)

\* They are that many.
LEMMA SliceFacts ==
    ASSUME NEW S, NEW b \in Seq(S), NEW d \in Nat, NEW n \in Nat, n > 0, d + n <= Len(b)
    PROVE  /\ Slice(b, d, n) \in Seq(S) /\ Len(Slice(b, d, n)) = n
           /\ \A i \in 1..n : Slice(b, d, n)[i] = b[d + i]
  <1>1. d + 1 \in Int /\ d + n \in Int /\ d + 1 <= d + n /\ d + n - (d + 1) + 1 = n
    OBVIOUS
  <1>2. \A i \in (d + 1)..(d + n) : b[i] \in S
    OBVIOUS
  <1>3. \A i \in 1..n : d + 1 + i - 1 = d + i
    OBVIOUS
  <1> QED
    BY <1>1, <1>2, <1>3, SubSeqProperties DEF Slice

\* A sequence that has the elements of another up to its length is a prefix.
LEMMA PrefixFacts ==
    ASSUME NEW S, NEW x \in Seq(S), NEW y \in Seq(S), Len(x) <= Len(y),
           \A i \in 1..Len(x) : x[i] = y[i]
    PROVE  File!IsPrefix(x, y)
  <1>1. SubSeq(x, 1, Len(x)) = [i \in 1..Len(x) |-> x[i]]
    OBVIOUS
  <1>2. SubSeq(y, 1, Len(x)) = [i \in 1..Len(x) |-> y[i]]
    OBVIOUS
  <1>3. SubSeq(x, 1, Len(x)) = SubSeq(y, 1, Len(x))
    BY <1>1, <1>2
  <1> QED
    BY <1>3 DEF File!IsPrefix

\* The bytes of a file once some of them are written over.
LEMMA OverlayFacts ==
    ASSUME NEW w \in Seq(Values), NEW F \in 0..Len(w), NEW buf \in Seq(Bytes),
           NEW x, x = File!Overlay(w, F, buf)
    PROVE  /\ x \in Seq(Values) /\ Len(x) = Larger(Len(w), F + Len(buf))
           /\ \A i \in 1..Len(x) : x[i] = IF i \in (F + 1)..(F + Len(buf)) THEN buf[i - F] ELSE w[i]
  <1> DEFINE u == SubSeq(w, 1, F)
             v == SubSeq(w, F + Len(buf) + 1, Len(w))
             L == Len(w)
             N == Len(buf)
  <1>1. L \in Nat /\ N \in Nat /\ F \in Nat /\ F <= L
    OBVIOUS
  <1>2. u \in Seq(Values) /\ Len(u) = F /\ \A i \in 1..F : u[i] = w[i]
    BY <1>1
  <1>3. /\ v \in Seq(Values) /\ Len(v) = IF F + N < L THEN L - (F + N) ELSE 0
        /\ \A i \in 1..Len(v) : v[i] = w[F + N + i]
    BY <1>1
  <1>4. buf \in Seq(Values)
    BY DEF Values
  <1>5. x = (u \o buf) \o v
    BY DEF File!Overlay
  <1> HIDE DEF u, v
  <1>6. /\ u \o buf \in Seq(Values) /\ Len(u \o buf) = F + N
        /\ \A i \in 1..(F + N) : (u \o buf)[i] = IF i <= F THEN u[i] ELSE buf[i - F]
    BY <1>1, <1>2, <1>4
  <1>y. PICK y : y = u \o buf
    OBVIOUS
  <1>s. /\ y \in Seq(Values) /\ Len(y) = F + N /\ x = y \o v
        /\ \A i \in 1..(F + N) : y[i] = IF i <= F THEN u[i] ELSE buf[i - F]
    BY <1>5, <1>6, <1>y
  <1>7. /\ x \in Seq(Values) /\ Len(x) = (F + N) + Len(v)
        /\ \A i \in 1..Len(x) : x[i] = IF i <= F + N THEN y[i] ELSE v[i - (F + N)]
    <2>1. /\ y \o v \in Seq(Values) /\ Len(y \o v) = Len(y) + Len(v)
          /\ \A i \in 1..(Len(y) + Len(v)) : (y \o v)[i] = IF i <= Len(y) THEN y[i] ELSE v[i - Len(y)]
      BY <1>3, <1>s, ConcatProperties
    <2> QED
      BY <2>1, <1>s
  <1>v. Len(v) \in Nat
    BY <1>3
  <1>8. Len(x) = Larger(L, F + N)
    <2>1. CASE F + N < L
      <3>1. Len(v) = L - (F + N)
        BY <2>1, <1>3
      <3>2. Len(x) = L
        BY <3>1, <1>1, <1>7
      <3> QED
        BY <3>2, <2>1, <1>1 DEF Larger
    <2>2. CASE ~(F + N < L)
      <3>1. Len(v) = 0
        BY <2>2, <1>3
      <3>2. Len(x) = F + N
        BY <3>1, <1>1, <1>7
      <3> QED
        BY <3>2, <2>2, <1>1 DEF Larger
    <2> QED
      BY <2>1, <2>2
  <1>9. ASSUME NEW i \in 1..Len(x)
        PROVE  x[i] = IF i \in (F + 1)..(F + N) THEN buf[i - F] ELSE w[i]
    <2>1. CASE i <= F
      BY <2>1, <1>1, <1>2, <1>s, <1>7
    <2>2. CASE i > F /\ i <= F + N
      BY <2>2, <1>1, <1>s, <1>7
    <2>3. CASE i > F + N
      <3>1. x[i] = v[i - (F + N)] /\ i - (F + N) \in 1..Len(v)
        BY <2>3, <1>1, <1>v, <1>7
      <3>2. v[i - (F + N)] = w[F + N + (i - (F + N))] /\ F + N + (i - (F + N)) = i
        BY <3>1, <1>1, <1>3
      <3> QED
        BY <3>1, <3>2, <2>3, <1>1
    <2> QED
      BY <2>1, <2>2, <2>3, <1>1
  <1> QED
    BY <1>7, <1>8, <1>9

\* c has the bytes of an overlay as far as the size s goes, the first d of the
\* buffer among them.
PartOf(w, F, buf, d, s, c) ==
    /\ w \in Seq(Values) /\ F \in 0..Len(w) /\ buf \in Seq(Bytes)
    /\ d \in 0..Len(buf) /\ s \in 1..Larger(Len(w), F + Len(buf))
    /\ d = Len(buf) \/ s < F + d
    /\ c = [i \in 1..s |-> c[i]]
    /\ \A p \in 0..(s - 1) : c[p + 1] = IF p \in F..(F + d - 1) THEN buf[p - F + 1] ELSE w[p + 1]

\* Then c is the first part of the overlay.
LEMMA OverlayPart ==
    ASSUME NEW w, NEW F, NEW buf, NEW d, NEW s, NEW c, PartOf(w, F, buf, d, s, c)
    PROVE  /\ c = SubSeq(File!Overlay(w, F, buf), 1, s)
           /\ s \in 1..Len(File!Overlay(w, F, buf))
           /\ s = Larger(Len(w), F + Len(buf)) => c = File!Overlay(w, F, buf)
  <1>0. /\ w \in Seq(Values) /\ F \in 0..Len(w) /\ buf \in Seq(Bytes)
        /\ d \in 0..Len(buf) /\ s \in 1..Larger(Len(w), F + Len(buf))
        /\ d = Len(buf) \/ s < F + d
        /\ c = [i \in 1..s |-> c[i]]
        /\ \A p \in 0..(s - 1) : c[p + 1] = IF p \in F..(F + d - 1) THEN buf[p - F + 1] ELSE w[p + 1]
    BY DEF PartOf
  <1>x. PICK x : x = File!Overlay(w, F, buf)
    OBVIOUS
  <1>1. /\ x \in Seq(Values) /\ Len(x) = Larger(Len(w), F + Len(buf))
        /\ \A i \in 1..Len(x) : x[i] = IF i \in (F + 1)..(F + Len(buf)) THEN buf[i - F] ELSE w[i]
    BY <1>0, <1>x, OverlayFacts
  <1>2. Len(x) \in Nat /\ Len(w) \in Nat /\ Len(buf) \in Nat /\ F \in Nat /\ d \in Nat /\ s \in 1..Len(x)
    BY <1>0, <1>1
  <1>3. ASSUME NEW i \in 1..s
        PROVE  c[i] = x[i]
    <2>1. i - 1 \in 0..(s - 1) /\ (i - 1) + 1 = i /\ (i - 1) - F + 1 = i - F /\ i \in 1..Len(x)
      BY <1>2
    <2>2. c[i] = IF i - 1 \in F..(F + d - 1) THEN buf[i - F] ELSE w[i]
      BY <2>1, <1>0
    <2>3. x[i] = IF i \in (F + 1)..(F + Len(buf)) THEN buf[i - F] ELSE w[i]
      BY <2>1, <1>1
    <2>4. i - 1 \in F..(F + d - 1) <=> i \in (F + 1)..(F + Len(buf))
      BY <1>0, <1>2
    <2> QED
      BY <2>2, <2>3, <2>4
  <1>4. c = [i \in 1..s |-> x[i]]
    BY <1>0, <1>3
  <1>5. SubSeq(x, 1, s) = [i \in 1..s |-> x[i]]
    BY <1>1, <1>2
  <1>6. x = [i \in 1..Len(x) |-> x[i]]
    BY <1>1, SeqIs
  <1> QED
    BY <1>x, <1>1, <1>2, <1>4, <1>5, <1>6

\* The bytes of a file are a sequence.
LEMMA ContentFacts ==
    ASSUME Shape, TypeOK, NEW f \in Files
    PROVE  /\ Content(f) \in Seq(Values) /\ Len(Content(f)) = size[f] /\ size[f] \in Nat
           /\ \A p \in 0..(size[f] - 1) : Content(f)[p + 1] = Byte(f, p)
           /\ \A p \in 0..(size[f] - 1) : Byte(f, p) \in Values
  <1>1. size[f] \in Nat /\ \A k \in 0..(Count(f) - 1) : nums[f][k] \in Blocks \union {0}
    BY FileFacts
  <1>2. disk \in [Blocks \union {0} -> [InBlock -> Values]]
    BY DEF TypeOK, Values
  <1>3. ASSUME NEW p \in 0..(size[f] - 1)
        PROVE  Byte(f, p) \in Values
    <2>1. p \in Nat /\ p \div B \in 0..(Count(f) - 1)
      BY <1>1, BlockOfPosition DEF Count
    <2>2. p % B \in InBlock
      BY <2>1, DivFacts DEF InBlock, B
    <2>3. nums[f][p \div B] \in Blocks \union {0}
      BY <2>1, <1>1
    <2>4. disk[nums[f][p \div B]][p % B] \in Values
      BY <2>2, <2>3, <1>2
    <2> QED
      BY <2>4 DEF Byte, B
  <1>4. Content(f) = [i \in 1..size[f] |-> Byte(f, i - 1)]
    BY DEF Content
  <1>5. \A i \in 1..size[f] : Byte(f, i - 1) \in Values
    BY <1>1, <1>3
  <1>6. \A p \in 0..(size[f] - 1) : p + 1 \in 1..size[f] /\ (p + 1) - 1 = p
    BY <1>1
  <1>7. Content(f) \in Seq(Values) /\ Len(Content(f)) = size[f]
    BY <1>1, <1>4, <1>5
  <1> QED
    BY <1>1, <1>3, <1>4, <1>6, <1>7

-----------------------------------------------------------------------------
(* What a pass does to files.                                              *)

\* A pass leaves the free list a list and the other files alone, and only its
\* own may meet a full disk.
OthersKept ==
    /\ sound /\ sound'
    /\ full \subseteq full' /\ full' \subseteq full \union {req.file}
    /\ \A g \in Files \ {req.file} : g \notin full' => Content(g)' = Content(g)

\* The files stay as they are.
LEMMA SameBytes ==
    ASSUME size' = size, nums' = nums, disk' = disk, full' = full, sound, sound' = sound
    PROVE  /\ \A g \in Files : Content(g)' = Content(g)
           /\ Whole => Whole'
           /\ OthersKept
  <1>1. \A g \in Files : Content(g)' = Content(g)
    BY DEF Content, Byte
  <1>2. Whole => Whole'
    BY DEF Whole, Count
  <1> QED
    BY <1>1, <1>2 DEF OthersKept

\* The blocks at some positions of a file hold junk.
Junked(f, positions) ==
    disk' = [b \in DOMAIN disk |-> IF \E k \in positions : nums[f][k] = b
                                   THEN [o \in InBlock |-> Junk] ELSE disk[b]]

\* Blocks that are freed hold junk.
LEMMA FreedJunks ==
    ASSUME NEW f, NEW positions, Freed(f, positions)
    PROVE  Junked(f, positions)
  BY DEF Freed, Junked

\* Blocks that are freed take no bytes from a file.
LEMMA FreedBytes ==
    ASSUME Shape, TypeOK, Whole, Accounts, nums' = nums, full' = full,
           \A g \in Files : size'[g] \in Nat /\ size'[g] <= size[g],
           NEW f \in Files, NEW positions, Junked(f, positions),
           \A k \in positions : k \in 0..(Count(f) - 1) /\ k \notin 0..(Count(f)' - 1)
    PROVE  /\ Whole'
           /\ \A g \in Files \ full : \A p \in 0..(size'[g] - 1) : Byte(g, p)' = Byte(g, p)
           /\ \A g \in Files \ full : size'[g] = size[g] => Content(g)' = Content(g)
  <1>1. \A g \in Files : Count(g) \in Nat /\ size[g] \in Nat
                         /\ \A k \in 0..(Count(g) - 1) : nums[g][k] \in Blocks \union {0}
    BY FileFacts
  <1>2. \A g \in Files : Count(g)' = NumOf(size'[g]) /\ Count(g)' \in Nat /\ Count(g)' <= Count(g)
    <2>1. \A g \in Files : Count(g)' = NumOf(size'[g])
      BY DEF Count
    <2>2. ASSUME NEW g \in Files
          PROVE  NumOf(size'[g]) \in Nat /\ NumOf(size'[g]) <= NumOf(size[g])
      BY <1>1, <2>2, NumFacts, NumMono
    <2> QED
      BY <2>1, <2>2 DEF Count
  <1>3. Whole'
    <2>1. ASSUME NEW g \in Files \ full', NEW i \in 0..(Count(g)' - 1)
          PROVE  nums'[g][i] # 0
      <3>1. i \in 0..(Count(g) - 1)
        BY <2>1, <1>1, <1>2
      <3> QED
        BY <3>1, <2>1 DEF Whole
    <2> QED
      BY <2>1 DEF Whole
  <1>4. ASSUME NEW g \in Files \ full, NEW p \in 0..(size'[g] - 1)
        PROVE  Byte(g, p)' = Byte(g, p)
    <2> DEFINE k == p \div B
    <2>1. k \in 0..(NumOf(size'[g]) - 1)
      BY BlockOfPosition
    <2>2. k \in 0..(Count(g)' - 1) /\ k \in 0..(Count(g) - 1)
      BY <2>1, <1>1, <1>2
    <2> HIDE DEF k
    <2>3. nums[g][k] # 0 /\ nums[g][k] \in Blocks \union {0}
      BY <2>2, <1>1, <1>4 DEF Whole
    <2>4. ASSUME NEW j \in positions, nums[f][j] = nums[g][k]
          PROVE  FALSE
      <3>1. j \in 0..(Count(f) - 1) /\ j \notin 0..(Count(f)' - 1)
        OBVIOUS
      <3>2. f = g /\ j = k
        BY <3>1, <2>2, <2>3, <2>4 DEF Accounts
      <3> QED
        BY <3>1, <3>2, <2>2
    <2>5. disk'[nums[g][k]] = disk[nums[g][k]]
      BY <2>3, <2>4 DEF Junked, TypeOK
    <2>6. nums'[g][k] = nums[g][k] /\ disk'[nums[g][k]] = disk[nums[g][k]]
      BY <2>5
    <2> QED
      BY <2>6 DEF Byte, B, k
  <1>5. ASSUME NEW g \in Files \ full, size'[g] = size[g]
        PROVE  Content(g)' = Content(g)
    <2>1. \A i \in 1..size[g] : i - 1 \in 0..(size'[g] - 1)
      BY <1>1, <1>5
    <2>2. \A i \in 1..size[g] : Byte(g, i - 1)' = Byte(g, i - 1)
      BY <2>1, <1>4
    <2> QED
      BY <2>2, <1>5 DEF Content
  <1> QED
    BY <1>3, <1>4, <1>5

\* What the call r does to the bytes w of its file, by the time it returns.
DoesWrite(r, w) ==
    LET whole == File!Overlay(w, r.offset, r.buf)
        keeps == File!LeavesWhole(Len(w), r.offset, r.n)
    IN  \/ r.offset > Len(w) /\ Content(r.file)' = w /\ ret' = File!Answer(-1, << >>)
        \/ /\ r.offset <= Len(w) /\ keeps
           /\ Content(r.file)' = whole /\ ret' = File!Answer(r.n, << >>)
        \/ /\ r.offset <= Len(w) /\ ~keeps
           /\ \E k \in 1..Len(whole) : Content(r.file)' = SubSeq(whole, 1, k)
           /\ \E c \in 1..r.n : ret' = File!Answer(c, << >>)

\* A pass goes on with its call, or returns.
GoesOn(r, w) == req' = r /\ was' = w /\ ret' = ret
Returns      == req' = NoRequest /\ was' = << >> /\ got' = << >>

\* What a pass of a write is called with.
LEMMA WriteFacts ==
    ASSUME ByteInv, Serving("write"), NEW r, r = req
    PROVE  /\ r \in Requests /\ r # NoRequest /\ r.op = "write"
           /\ r.file \in Files /\ r.offset \in Nat /\ r.n \in Nat /\ r.n > 0
           /\ r.offset + r.n <= MaxSize[r.file] /\ MaxSize[r.file] \in Nat
           /\ r.buf \in Seq(Bytes) /\ Len(r.buf) = r.n
           /\ done \in Nat /\ done < r.n
           /\ size[r.file] \in Nat /\ was \in Seq(Values)
           /\ r.file \notin full => Written(r, was, done)
  <1>i. Shape /\ TypeOK /\ Progress /\ Served
    BY DEF ByteInv, Inv
  <1>1. r \in Requests /\ r # NoRequest /\ r.op = "write"
    BY <1>i DEF Serving, TypeOK
  <1>2. /\ r.file \in Files /\ r.offset \in Nat /\ r.n \in Nat /\ r.n > 0
        /\ r.offset + r.n <= MaxSize[r.file] /\ MaxSize[r.file] \in Nat
        /\ r.buf \in Seq(Bytes) /\ Len(r.buf) = r.n
    BY <1>1, RequestFacts
  <1>3. done \in Nat /\ done < r.n
    BY <1>i DEF Progress
  <1>4. size[r.file] \in Nat
    BY <1>i, <1>2, FileFacts
  <1>5. was \in Seq(Values) /\ (r.file \notin full => Written(r, was, done))
    BY <1>i, <1>1 DEF Served
  <1> QED
    BY <1>1, <1>2, <1>3, <1>4, <1>5

\* The bytes of the next state, as a sequence.
LEMMA NextContent ==
    ASSUME NEW f, size'[f] \in Nat
    PROVE  /\ Content(f)' = [i \in 1..size'[f] |-> Content(f)'[i]]
           /\ \A p \in 0..(size'[f] - 1) : Content(f)'[p + 1] = Byte(f, p)'
  <1>1. Content(f)' = [i \in 1..size'[f] |-> Byte(f, i - 1)']
    BY DEF Content
  <1>2. \A p \in 0..(size'[f] - 1) : p + 1 \in 1..size'[f] /\ (p + 1) - 1 = p
    OBVIOUS
  <1> QED
    BY <1>1, <1>2

\* A write that bmap refuses.
LEMMA RefusedWrite ==
    ASSUME ByteInv, WritePass, NEW r, r = req, NEW w, w = was, ~bmapAppends(r.file, r.offset + done)
    PROVE  /\ Whole' /\ OthersKept /\ Returns
           /\ r.file \notin full' => DoesWrite(r, w)
  <1> DEFINE f == r.file
             F == r.offset
             d == done
  <1>i. Shape /\ TypeOK /\ Whole /\ sound
    BY DEF ByteInv, Inv
  <1>s. Serving("write")
    BY DEF WritePass
  <1>1. /\ Return(IF d = 0 THEN -1 ELSE d, << >>)
        /\ size' = size /\ nums' = nums /\ disk' = disk /\ full' = full /\ sound' = sound
    BY DEF WritePass, list
  <1>2. Whole' /\ OthersKept /\ \A g \in Files : Content(g)' = Content(g)
    BY <1>1, <1>i, SameBytes
  <1>3. Returns /\ ret' = File!Answer(IF d = 0 THEN -1 ELSE d, << >>)
    BY <1>1 DEF Return, Returns, File!Answer
  <1>4. ASSUME f \notin full'
        PROVE  DoesWrite(r, w)
    <2>1. /\ f \in Files /\ F \in Nat /\ r.n \in Nat /\ r.n > 0
          /\ r.buf \in Seq(Bytes) /\ Len(r.buf) = r.n
          /\ d \in Nat /\ d < r.n
          /\ size[f] \in Nat /\ w \in Seq(Values)
          /\ Written(r, w, d)
      BY <1>4, <1>1, <1>s, WriteFacts
    <2>2. F + d > size[f] /\ Len(w) \in Nat
      BY <2>1 DEF bmapAppends
    <2>3. \/ d = 0 /\ size[f] = Len(w) /\ F > Len(w)
          \/ /\ ~File!LeavesWhole(Len(w), F, r.n) /\ F <= Len(w) /\ d > 0 /\ size[f] \in 1..(F + d - 1)
      BY <2>1, <2>2, ReachesRefused DEF Written
    <2>4. /\ Content(f) = [i \in 1..size[f] |-> Content(f)[i]]
          /\ \A p \in 0..(size[f] - 1) : Content(f)[p + 1] = Byte(f, p)
      <3>1. Content(f) \in Seq(Values) /\ Len(Content(f)) = size[f]
        BY <2>1, <1>i, ContentFacts
      <3>2. Content(f) = [i \in 1..size[f] |-> Content(f)[i]]
        BY <3>1, SeqIs
      <3>3. \A p \in 0..(size[f] - 1) : Content(f)[p + 1] = Byte(f, p)
        BY <2>1, <1>i, ContentFacts
      <3> QED
        BY <3>2, <3>3
    <2>5. \A p \in 0..(size[f] - 1) :
             Content(f)[p + 1] = IF p \in F..(F + d - 1) THEN r.buf[p - F + 1] ELSE w[p + 1]
      BY <2>1, <2>4 DEF Written
    <2>6. CASE d = 0 /\ size[f] = Len(w) /\ F > Len(w)
      <3>1. ASSUME NEW i \in 1..Len(w)
            PROVE  Content(f)[i] = w[i]
        <4>1. i - 1 \in 0..(size[f] - 1) /\ (i - 1) + 1 = i /\ i - 1 \notin F..(F + d - 1)
          BY <2>1, <2>2, <2>6
        <4> QED
          BY <4>1, <2>5
      <3>2. w = [i \in 1..Len(w) |-> w[i]]
        BY <2>1, SeqIs
      <3>3. Content(f) = w
        BY <3>1, <3>2, <2>4, <2>6
      <3> QED
        BY <3>3, <2>1, <2>6, <1>2, <1>3 DEF DoesWrite
    <2>7. CASE ~File!LeavesWhole(Len(w), F, r.n) /\ F <= Len(w) /\ d > 0 /\ size[f] \in 1..(F + d - 1)
      <3>1. /\ F \in 0..Len(w) /\ d \in 0..Len(r.buf) /\ size[f] < F + d
            /\ size[f] \in 1..Larger(Len(w), F + Len(r.buf))
        <4>1. /\ F \in Nat /\ d \in Nat /\ d < r.n /\ r.n \in Nat /\ Len(w) \in Nat
              /\ size[f] \in 1..(F + d - 1)
          BY <2>1, <2>2, <2>7
        <4>2. F + r.n <= Larger(Len(w), F + r.n) /\ Larger(Len(w), F + r.n) \in Nat
          BY <4>1 DEF Larger
        <4>3. F \in 0..Len(w) /\ Len(r.buf) = r.n
          BY <4>1, <2>1, <2>7
        <4>4. d \in 0..r.n /\ size[f] < F + d /\ size[f] \in 1..Larger(Len(w), F + r.n)
          BY <4>1, <4>2
        <4> QED
          BY <4>3, <4>4
      <3>2. /\ Content(f) = SubSeq(File!Overlay(w, F, r.buf), 1, size[f])
            /\ size[f] \in 1..Len(File!Overlay(w, F, r.buf))
        <4>1. PartOf(w, F, r.buf, d, size[f], Content(f))
          BY <3>1, <2>1, <2>4, <2>5 DEF PartOf
        <4> QED
          BY <4>1, OverlayPart
      <3>3. Content(f)' = Content(f) /\ ret' = File!Answer(d, << >>) /\ d \in 1..r.n
        BY <2>1, <2>7, <1>2, <1>3
      <3> QED
        BY <3>2, <3>3, <2>7 DEF DoesWrite
    <2> QED
      BY <2>3, <2>6, <2>7
  <1> QED
    BY <1>2, <1>3, <1>4

\* A pass that puts bytes into a block leaves the other files alone.
LEMMA PutsOthers ==
    ASSUME ByteInv, Inv', sound', NEW f \in Files, f = req.file, NEW o, NEW n, NEW bytes, NEW m,
           CanPut(f, o, n, bytes, m), Puts(f, o, n, bytes, m)
    PROVE  /\ Whole' /\ OthersKept /\ size'[f] = m
           /\ f \notin full' => \A p \in 0..(m - 1) :
                 Byte(f, p)' = IF p \in o..(o + n - 1) THEN bytes[p - o + 1] ELSE Byte(f, p)
  <1>i. Shape /\ TypeOK /\ Accounts /\ Whole /\ Accounts'
    BY DEF ByteInv, Inv, Accounted
  <1>1. Whole' /\ full \subseteq full' /\ full' \subseteq full \union {f}
    BY <1>i, PutsWhole
  <1>2. size'[f] = m /\ \A g \in Files \ {f} : size'[g] = size[g]
    BY <1>i, PutsBlocks
  <1>3. /\ f \notin full' => \A p \in 0..(m - 1) :
              Byte(f, p)' = IF p \in o..(o + n - 1) THEN bytes[p - o + 1] ELSE Byte(f, p)
        /\ \A g \in Files \ {f} : g \notin full' => \A p \in 0..(size[g] - 1) : Byte(g, p)' = Byte(g, p)
    BY <1>i, PutsBytes
  <1>4. ASSUME NEW g \in Files \ {f}, g \notin full'
        PROVE  Content(g)' = Content(g)
    <2>1. size[g] \in Nat
      BY <1>i, FileFacts
    <2>2. \A i \in 1..size[g] : i - 1 \in 0..(size[g] - 1)
      BY <2>1
    <2>3. \A i \in 1..size[g] : Byte(g, i - 1)' = Byte(g, i - 1)
      BY <2>2, <1>3, <1>4
    <2> QED
      BY <2>3, <1>2 DEF Content
  <1> QED
    BY <1>1, <1>2, <1>3, <1>4 DEF OthersKept, ByteInv

\* A pass of a write that bmap does not refuse.
LEMMA WrittenOn ==
    ASSUME ByteInv, Inv', sound', WritePass, NEW r, r = req, NEW w, w = was, NEW d, d = done,
           bmapAppends(r.file, r.offset + d),
           NEW n, n = Least(bytesLeftInBlock(r.offset + d), r.n - d)
    PROVE  /\ Whole' /\ OthersKept /\ size'[r.file] \in Nat
           /\ n \in Nat /\ n > 0 /\ d + n <= r.n
           /\ r.file \notin full' => Written(r, w, d + n)'
  <1>fo. PICK f, F, o, N : f = r.file /\ F = r.offset /\ o = F + d /\ N = r.n
    OBVIOUS
  <1>m. PICK m : m = sizeAfterWrite(f, o, n)
    OBVIOUS
  <1>b. PICK bytes : bytes = Slice(r.buf, d, n)
    OBVIOUS
  <1>i. Shape /\ TypeOK /\ Progress /\ Accounts /\ Whole
    BY DEF ByteInv, Inv, Accounted
  <1>s. Serving("write")
    BY DEF WritePass
  <1>1. /\ f \in Files /\ F \in Nat /\ N \in Nat /\ N > 0
        /\ F + N <= MaxSize[f] /\ MaxSize[f] \in Nat
        /\ r.buf \in Seq(Bytes) /\ Len(r.buf) = N
        /\ d \in Nat /\ d < N /\ size[f] \in Nat /\ w \in Seq(Values)
        /\ f \notin full => Written(r, w, d)
    BY <1>fo, <1>s, WriteFacts
  <1>2. o \in Nat /\ N - d \in Nat /\ N - d > 0
    BY <1>fo, <1>1
  <1>3. n \in Nat /\ n > 0 /\ n <= bytesLeftInBlock(o) /\ n <= N - d
    BY <1>fo, <1>2, PassLength
  <1>a. /\ F \in Nat /\ N \in Nat /\ d \in Nat /\ n \in Nat /\ o \in Nat /\ o = F + d /\ n > 0
        /\ d + n <= N /\ o + n <= MaxSize[f] /\ MaxSize[f] \in Nat
    <2>1. /\ F \in Nat /\ N \in Nat /\ d \in Nat /\ n \in Nat /\ o \in Nat /\ o = F + d /\ n > 0
          /\ n <= N - d /\ F + N <= MaxSize[f] /\ MaxSize[f] \in Nat
      BY <1>fo, <1>1, <1>2, <1>3
    <2>2. \A x \in Nat : F + N <= x => o + n <= x
      BY <2>1
    <2>3. d + n <= N
      BY <2>1
    <2> QED
      BY <2>1, <2>2, <2>3
  <1>4. o <= size[f]
    BY <1>fo DEF bmapAppends
  <1>5. m = IF o = size[f] THEN size[f] + n ELSE IF d <= size[f] /\ size[f] < N THEN n ELSE size[f]
    BY <1>m, <1>fo DEF sizeAfterWrite
  <1>6. bytes \in Seq(Bytes) /\ Len(bytes) = n /\ \A i \in 1..n : bytes[i] = r.buf[d + i]
    <2>b. PICK b : b = r.buf
      OBVIOUS
    <2>1. b \in Seq(Bytes) /\ d + n <= Len(b)
      BY <2>b, <1>1, <1>a
    <2>2. /\ Slice(b, d, n) \in Seq(Bytes) /\ Len(Slice(b, d, n)) = n
          /\ \A i \in 1..n : Slice(b, d, n)[i] = b[d + i]
      BY <2>1, <1>a, SliceFacts
    <2> QED
      BY <2>2, <2>b, <1>b
  <1>7. CanPut(f, o, n, bytes, m)
    <2>1. m \in 0..MaxSize[f] /\ (o = size[f] => m = o + n) /\ (o < size[f] => NumOf(m) <= Count(f))
      <3>1. CASE o = size[f]
        <4>1. m = o + n /\ ~(o < size[f])
          <5>1. m = o + n
            BY <3>1, <1>5
          <5> QED
            BY <5>1, <3>1, <1>a
        <4>2. m \in 0..MaxSize[f]
          BY <4>1, <1>a
        <4> QED
          BY <4>1, <4>2
      <3>2. CASE o < size[f]
        <4>1. m \in 0..MaxSize[f] /\ NumOf(m) <= Count(f)
          BY <3>2, <1>i, <1>s, <1>fo, <1>m, WriteWithin
        <4> QED
          BY <4>1, <3>2, <1>1, <1>2
      <3> QED
        BY <3>1, <3>2, <1>1, <1>2, <1>4
    <2>2. o \in 0..size[f]
      BY <1>1, <1>2, <1>4
    <2> QED
      BY <2>1, <2>2, <1>3, <1>6 DEF CanPut
  <1>8. Puts(f, o, n, bytes, m)
    BY <1>fo, <1>m, <1>b DEF WritePass, Puts, Slice, Stores
  <1>9. /\ Whole' /\ OthersKept /\ size'[f] = m
        /\ f \notin full' => \A p \in 0..(m - 1) :
              Byte(f, p)' = IF p \in o..(o + n - 1) THEN bytes[p - o + 1] ELSE Byte(f, p)
    <2>1. f \in Files /\ f = req.file
      BY <1>fo, <1>1
    <2> QED
      BY <2>1, <1>7, <1>8, PutsOthers
  <1>10. m \in Nat
    BY <1>1, <1>3, <1>5
  <1>11. ASSUME f \notin full'
         PROVE  Written(r, w, d + n)'
    <2>1. f \notin full
      BY <1>9, <1>11 DEF OthersKept
    <2>2. /\ \A p \in 0..(size[f] - 1) :
                Byte(f, p) = IF p \in F..(F + d - 1) THEN r.buf[p - F + 1] ELSE w[p + 1]
          /\ Reaches(Len(w), F, N, d, size[f])
      BY <2>1, <1>1, <1>fo DEF Written
    <2>3. ASSUME NEW p \in 0..(m - 1)
          PROVE  Byte(f, p)' = IF p \in F..(F + (d + n) - 1) THEN r.buf[p - F + 1] ELSE w[p + 1]
      <3>1. CASE p \in o..(o + n - 1)
        <4>1. p - o + 1 \in 1..n /\ d + (p - o + 1) = p - F + 1 /\ p \in F..(F + (d + n) - 1)
          BY <3>1, <1>a
        <4> QED
          BY <4>1, <3>1, <1>6, <1>9, <1>11
      <3>2. CASE p \notin o..(o + n - 1)
        <4>1. p \in 0..(size[f] - 1)
          <5>1. size[f] \in Nat /\ p \in Nat /\ p < m
            BY <1>1, <1>10
          <5>2. m <= size[f] \/ m <= o + n
            BY <5>1, <1>a, <1>4, <1>5
          <5>3. o \in Nat /\ n \in Nat /\ m \in Nat
            BY <1>a, <1>10
          <5>4. p < o + n => p < o
            BY <5>1, <5>3, <3>2
          <5>5. p < size[f]
            BY <5>1, <5>2, <5>3, <5>4, <1>4
          <5> QED
            BY <5>1, <5>5
        <4>2. p \in F..(F + d - 1) <=> p \in F..(F + (d + n) - 1)
          BY <3>2, <1>a, <1>10
        <4> QED
          BY <4>1, <4>2, <3>2, <2>2, <1>9, <1>11
      <3> QED
        BY <3>1, <3>2
    <2>4. Reaches(Len(w), F, N, d + n, m)
      <3>1. Len(w) \in Nat /\ d + n <= N /\ n <= bytesLeftInBlock(F + d) /\ F + d <= size[f]
        BY <1>fo, <1>1, <1>3, <1>4
      <3>2. m = IF F + d = size[f] THEN size[f] + n
                ELSE IF d <= size[f] /\ size[f] < N THEN n ELSE size[f]
        BY <1>fo, <1>5
      <3> QED
        BY <3>1, <3>2, <2>2, <1>1, <1>3, ReachesOn
    <2> QED
      BY <2>3, <2>4, <1>fo, <1>9 DEF Written
  <1> QED
    BY <1>fo, <1>1, <1>3, <1>9, <1>10, <1>11

\* Between calls there is nothing to show.
LEMMA ReturnServed ==
    ASSUME Returns
    PROVE  Served'
  BY DEF Returns, Served

\* A write whose last byte is in its place.
LEMMA WriteEnds ==
    ASSUME NEW r, NEW w \in Seq(Values), r.offset \in Nat, r.n \in Nat, r.n > 0,
           r.buf \in Seq(Bytes), Len(r.buf) = r.n, size'[r.file] \in Nat,
           Written(r, w, r.n)', ret' = File!Answer(r.n, << >>)
    PROVE  DoesWrite(r, w)
  <1> DEFINE f == r.file
             F == r.offset
             N == r.n
             L == Len(w)
             whole == File!Overlay(w, F, r.buf)
  <1>1. /\ \A p \in 0..(size'[f] - 1) :
              Byte(f, p)' = IF p \in F..(F + N - 1) THEN r.buf[p - F + 1] ELSE w[p + 1]
        /\ Reaches(L, F, N, N, size'[f])
    BY DEF Written
  <1>2. L \in Nat
    OBVIOUS
  <1>3. /\ F <= L /\ size'[f] \in 1..Larger(L, F + N)
        /\ File!LeavesWhole(L, F, N) => size'[f] = Larger(L, F + N)
    BY <1>1, <1>2, ReachesEnd
  <1>4. /\ Content(f)' = [i \in 1..size'[f] |-> Content(f)'[i]]
        /\ \A p \in 0..(size'[f] - 1) : Content(f)'[p + 1] = Byte(f, p)'
    BY NextContent
  <1>5. PartOf(w, F, r.buf, N, size'[f], Content(f)')
    <2>1. F \in 0..L /\ N \in 0..Len(r.buf) /\ N = Len(r.buf)
      BY <1>2, <1>3
    <2>2. \A p \in 0..(size'[f] - 1) :
             Content(f)'[p + 1] = IF p \in F..(F + N - 1) THEN r.buf[p - F + 1] ELSE w[p + 1]
      <3>1. ASSUME NEW p \in 0..(size'[f] - 1)
            PROVE  Content(f)'[p + 1] = IF p \in F..(F + N - 1) THEN r.buf[p - F + 1] ELSE w[p + 1]
        <4>1. Content(f)'[p + 1] = Byte(f, p)'
          BY <1>4
        <4>2. Byte(f, p)' = IF p \in F..(F + N - 1) THEN r.buf[p - F + 1] ELSE w[p + 1]
          BY <1>1
        <4> QED
          BY <4>1, <4>2
      <3> QED
        BY <3>1
    <2> QED
      BY <2>1, <2>2, <1>3, <1>4 DEF PartOf
  <1>6. /\ Content(f)' = SubSeq(whole, 1, size'[f])
        /\ size'[f] \in 1..Len(whole)
        /\ size'[f] = Larger(L, F + N) => Content(f)' = whole
    BY <1>5, OverlayPart
  <1>7. N \in 1..r.n
    OBVIOUS
  <1> HIDE DEF whole
  <1>8. CASE File!LeavesWhole(L, F, N)
    BY <1>8, <1>3, <1>6 DEF DoesWrite, whole
  <1>9. CASE ~File!LeavesWhole(L, F, N)
    BY <1>9, <1>3, <1>6, <1>7 DEF DoesWrite, whole
  <1> QED
    BY <1>8, <1>9

\* A pass of a write.
LEMMA WriteServes ==
    ASSUME ByteInv, Inv', sound', WritePass, NEW r, r = req, NEW w, w = was
    PROVE  /\ Whole' /\ OthersKept /\ Served'
           /\ GoesOn(r, w) \/ (Returns /\ (r.file \notin full' => DoesWrite(r, w)))
  <1>d. PICK d : d = done
    OBVIOUS
  <1>n. PICK n : n = Least(bytesLeftInBlock(r.offset + d), r.n - d)
    OBVIOUS
  <1>s. Serving("write")
    BY DEF WritePass
  <1>1. CASE ~bmapAppends(r.file, r.offset + d)
    <2>1. /\ Whole' /\ OthersKept /\ Returns
          /\ r.file \notin full' => DoesWrite(r, w)
      BY <1>1, <1>d, RefusedWrite
    <2> QED
      BY <2>1, ReturnServed
  <1>2. CASE bmapAppends(r.file, r.offset + d)
    <2>1. /\ Whole' /\ OthersKept /\ size'[r.file] \in Nat
          /\ n \in Nat /\ n > 0 /\ d + n <= r.n
          /\ r.file \notin full' => Written(r, w, d + n)'
      BY <1>2, <1>d, <1>n, WrittenOn
    <2>2. /\ d + n < r.n => Continue(n)
          /\ ~(d + n < r.n) => Return(r.n, << >>)
      BY <1>2, <1>d, <1>n DEF WritePass
    <2>3. /\ r # NoRequest /\ r.op = "write" /\ r.n \in Nat /\ r.n > 0 /\ r.offset \in Nat
          /\ d \in Nat /\ w \in Seq(Values) /\ r.buf \in Seq(Bytes) /\ Len(r.buf) = r.n
      BY <1>s, <1>d, WriteFacts
    <2>4. CASE d + n < r.n
      <3>1. req' = r /\ was' = w /\ ret' = ret /\ done' = d + n
        BY <2>2, <2>4, <1>d DEF Continue
      <3>2. r.file \notin full' => Written(req, was, done)'
        BY <3>1, <2>1 DEF Written
      <3>3. Served'
        BY <3>1, <3>2, <2>3 DEF Served
      <3> QED
        BY <3>1, <3>3, <2>1 DEF GoesOn
    <2>5. CASE ~(d + n < r.n)
      <3>1. d + n = r.n
        <4>1. d \in Nat /\ n \in Nat /\ r.n \in Nat /\ d + n <= r.n
          BY <2>1, <2>3
        <4> QED
          BY <4>1, <2>5
      <3>2. Returns /\ ret' = File!Answer(r.n, << >>)
        BY <2>2, <2>5 DEF Return, Returns, File!Answer
      <3>3. r.file \notin full' => DoesWrite(r, w)
        BY <3>1, <3>2, <2>1, <2>3, WriteEnds
      <3> QED
        BY <3>2, <3>3, <2>1, ReturnServed
    <2> QED
      BY <2>4, <2>5
  <1> QED
    BY <1>1, <1>2

-----------------------------------------------------------------------------
(* Reads.                                                                  *)

\* Whole blocks.
LEMMA WholeBlocks ==
    ASSUME NEW a \in Nat, NEW b \in Nat, a % B = 0, b % B = 0
    PROVE  /\ (a + b) % B = 0 /\ (a + B) % B = 0
           /\ a < b => a + B <= b
  <1>p. PICK p : p = a \div B
    OBVIOUS
  <1>q. PICK q : q = b \div B
    OBVIOUS
  <1>1. /\ p \in Nat /\ q \in Nat /\ B \in Nat /\ B > 0
        /\ a % B = a - B * p /\ b % B = b - B * q
    BY <1>p, <1>q, DivFacts
  <1>2. B * p \in Int /\ B * q \in Int /\ B * (p + 1) \in Int /\ B * (p + q) \in Int
    BY <1>1, Multiples
  <1>3. a = B * p /\ b = B * q
    BY <1>1, <1>2
  <1>4. B * (p + q) = a + b /\ B * (p + 1) = a + B
    BY <1>1, <1>3
  <1>5. (a + b) \div B = p + q /\ (a + B) \div B = p + 1
    <2>1. a + b \in Nat /\ a + B \in Nat /\ p + q \in Int /\ p + 1 \in Int
      BY <1>1
    <2>2. /\ B * (p + q) <= a + b /\ a + b < B * (p + q) + B
          /\ B * (p + 1) <= a + B /\ a + B < B * (p + 1) + B
      BY <1>1, <1>4
    <2> QED
      BY <2>1, <2>2, QuotientIs
  <1>6. (a + b) % B = 0 /\ (a + B) % B = 0
    <2>1. a + b \in Nat /\ a + B \in Nat
      BY <1>1
    <2>2. /\ (a + b) % B = (a + b) - B * ((a + b) \div B)
          /\ (a + B) % B = (a + B) - B * ((a + B) \div B)
      BY <2>1, DivFacts
    <2>3. (a + b) % B = (a + b) - B * (p + q) /\ (a + B) % B = (a + B) - B * (p + 1)
      BY <2>2, <1>5
    <2> QED
      BY <2>1, <2>3, <1>4
  <1>7. ASSUME a < b
        PROVE  a + B <= b
    <2>1. B * p < B * q
      BY <1>3, <1>7
    <2>2. B * p + B <= B * q
      BY <2>1, <1>1, Multiples
    <2> QED
      BY <2>2, <1>3
  <1> QED
    BY <1>6, <1>7

\* A pass of a read of whole blocks takes a whole block, or the rest of the
\* file, or what is left of the blocks asked for.
LEMMA ReadsBlocks ==
    ASSUME NEW L \in Nat, NEW F \in Nat, NEW N \in Nat, NEW d \in Nat, d < N, d < L - F,
           F % B = 0, N % B = 0, d % B = 0,
           NEW n, n = Least(bytesLeftInBlock(F + d), Least(L, N + F) - d)
    PROVE  d + n <= N /\ ((d + n) % B = 0 \/ d + n >= L - F)
  <1>1. (F + d) % B = 0 /\ (d + B) % B = 0 /\ d + B <= N /\ (N + F) % B = 0
    BY WholeBlocks
  <1>2. B \in Nat /\ B > 0
    BY FileDataAssumption DEF B
  <1>3. bytesLeftInBlock(F + d) = B
    BY <1>1, <1>2 DEF bytesLeftInBlock, B
  <1>4. n = B \/ (n = L - d /\ n < B + 1) \/ (n = N + F - d /\ n < B + 1)
    BY <1>2, <1>3 DEF Least
  <1>5. CASE n = B
    BY <1>5, <1>1
  <1>6. CASE n = L - d /\ n < B + 1
    BY <1>6, <1>1, <1>2
  <1>7. CASE n = N + F - d /\ n < B + 1
    <2>1. d + n = N + F
      BY <1>7
    <2> QED
      BY <2>1, <1>1, <1>2, <1>7
  <1> QED
    BY <1>4, <1>5, <1>6, <1>7

\* The n bytes that a read takes from the block of an offset.
BytesFrom(f, o, n) == [i \in 1..n |-> disk[nums[f][o \div B]][(o % B) + i - 1]]

\* Below the size they are the bytes of the file.
LEMMA BlockBytes ==
    ASSUME Shape, TypeOK, NEW f \in Files, NEW o \in Nat, o < size[f],
           NEW n \in Nat, n <= bytesLeftInBlock(o)
    PROVE  /\ BytesFrom(f, o, n) \in Seq(Values) /\ Len(BytesFrom(f, o, n)) = n
           /\ \A i \in 1..n : BytesFrom(f, o, n)[i] = Byte(f, o + i - 1)
  <1> DEFINE bytes == BytesFrom(f, o, n)
  <1>k. PICK block : block = nums[f][o \div B]
    OBVIOUS
  <1>a. PICK a : a = o % B
    OBVIOUS
  <1>1. /\ size[f] \in Nat /\ Count(f) = NumOf(size[f])
        /\ \A k \in 0..(Count(f) - 1) : nums[f][k] \in Blocks \union {0}
    BY FileFacts DEF Count
  <1>2. o \in 0..(size[f] - 1)
    BY <1>1
  <1>3. block \in Blocks \union {0}
    BY <1>k, <1>1, <1>2, BlockOfPosition
  <1>4. disk[block] \in [InBlock -> Values]
    BY <1>3 DEF TypeOK, Values
  <1>5. a \in 0..(B - 1) /\ B \in Nat /\ n <= B - a /\ InBlock = 0..(B - 1)
    BY <1>a, DivFacts DEF bytesLeftInBlock, InBlock, B
  <1>6. ASSUME NEW i \in 1..n
        PROVE  a + i - 1 \in InBlock
    BY <1>5
  <1>7. bytes = [i \in 1..n |-> disk[block][a + i - 1]]
    BY <1>k, <1>a DEF BytesFrom
  <1> HIDE DEF bytes
  <1>8. \A i \in 1..n : disk[block][a + i - 1] \in Values
    BY <1>4, <1>6
  <1>9. bytes \in Seq(Values) /\ Len(bytes) = n
    <2>1. bytes \in [1..n -> Values]
      BY <1>7, <1>8
    <2> QED
      BY <2>1, FunIsSeq
  <1>10. ASSUME NEW i \in 1..n
         PROVE  bytes[i] = Byte(f, o + i - 1)
    <2>p. PICK p : p = o + i - 1
      OBVIOUS
    <2>1. p \in Nat /\ p \in o..(o + n - 1) /\ p - o = i - 1
      BY <2>p
    <2>2. p \div B = o \div B /\ p - o = (p % B) - (o % B)
      BY <2>1, SameBlock
    <2>3. p % B \in Int
      BY <2>1, DivFacts
    <2>4. p % B = a + i - 1
      BY <2>1, <2>2, <2>3, <1>a, <1>5
    <2>5. Byte(f, p) = disk[block][p % B]
      BY <2>2, <1>k DEF Byte, B
    <2> QED
      BY <2>4, <2>5, <2>p, <1>7
  <1> QED
    BY <1>9, <1>10 DEF bytes

\* A read that returns has left the file as it was.
DoesRead(r, w) ==
    LET last  == IF r.offset + r.n < Len(w) THEN r.offset + r.n ELSE Len(w)
        asked == SubSeq(w, r.offset + 1, last)
    IN  /\ Content(r.file)' = w
        /\ ret'.count = Len(ret'.bytes)
        /\ File!IsPrefix(asked, ret'.bytes)
        /\ asked = << >> => ret'.count = 0
        /\ r.offset % BLOCK_SIZE = 0 /\ r.n % BLOCK_SIZE = 0 => ret'.count <= r.n

\* What a pass of a read is called with.
LEMMA ReadFacts ==
    ASSUME ByteInv, Serving("read"), NEW r, r = req
    PROVE  /\ r # NoRequest /\ r.op = "read"
           /\ r.file \in Files /\ r.offset \in Nat /\ r.n \in Nat /\ r.n > 0
           /\ done \in Nat /\ size[r.file] \in Nat /\ was \in Seq(Values)
           /\ r.file \notin full => ReadSoFar(r, was, done)
  <1>i. Shape /\ TypeOK /\ Progress /\ Served
    BY DEF ByteInv, Inv
  <1>1. r \in Requests /\ r # NoRequest /\ r.op = "read"
    BY <1>i DEF Serving, TypeOK
  <1>2. r.file \in Files /\ r.offset \in Nat /\ r.n \in Nat /\ r.n > 0
    BY <1>1, RequestFacts
  <1>3. done \in Nat
    BY <1>i DEF Progress
  <1>4. size[r.file] \in Nat
    BY <1>i, <1>2, FileFacts
  <1>5. was \in Seq(Values) /\ (r.file \notin full => ReadSoFar(r, was, done))
    BY <1>i, <1>1 DEF Served
  <1> QED
    BY <1>1, <1>2, <1>3, <1>4, <1>5

\* A pass that reads n bytes from a block.
Takes(r, d, n, bytes) ==
    /\ d < Least(r.n, size[r.file] - r.offset)
    /\ n = Least(bytesLeftInBlock(r.offset + d), Least(size[r.file], r.n + r.offset) - d)
    /\ bytes = BytesFrom(r.file, r.offset + d, n)
    /\ got' = got \o bytes
    /\ size' = size /\ nums' = nums /\ disk' = disk

\* How many that are.
LEMMA ReadLength ==
    ASSUME NEW L \in Nat, NEW F \in Nat, NEW N \in Nat, NEW d \in Nat, d < Least(N, L - F),
           NEW n, n = Least(bytesLeftInBlock(F + d), Least(L, N + F) - d)
    PROVE  /\ n \in Nat /\ n > 0 /\ n <= bytesLeftInBlock(F + d)
           /\ d < N /\ d < L - F
  <1>1. d < N /\ d < L - F
    BY DEF Least
  <1>2. Least(L, N + F) - d \in Nat /\ Least(L, N + F) - d > 0
    BY <1>1 DEF Least
  <1>3. F + d \in Nat
    OBVIOUS
  <1> QED
    BY <1>1, <1>2, <1>3, PassLength

\* A pass takes a read on.
LEMMA ReadOn ==
    ASSUME Shape, TypeOK, NEW r, NEW w \in Seq(Values), NEW d \in Nat,
           r.file \in Files, r.offset \in Nat, r.n \in Nat,
           ReadSoFar(r, w, d), NEW n, NEW bytes, Takes(r, d, n, bytes)
    PROVE  ReadSoFar(r, w, d + n)'
  <1>fo. PICK f, F, N, L, o : f = r.file /\ F = r.offset /\ N = r.n /\ L = Len(w) /\ o = F + d
    OBVIOUS
  <1>1. /\ size[f] = L
        /\ \A p \in 0..(L - 1) : Byte(f, p) = w[p + 1]
        /\ got \in Seq(Values) /\ Len(got) = d
        /\ \A i \in 1..d : F + i <= L => got[i] = w[F + i]
        /\ F % B = 0 /\ N % B = 0 => d <= N /\ (d % B = 0 \/ d >= L - F)
    BY <1>fo DEF ReadSoFar
  <1>2. /\ f \in Files /\ F \in Nat /\ N \in Nat /\ L \in Nat /\ o \in Nat /\ d \in Nat
        /\ o = F + d
    BY <1>fo
  <1>4. /\ d < Least(N, L - F) /\ n = Least(bytesLeftInBlock(F + d), Least(L, N + F) - d)
    BY <1>fo, <1>1 DEF Takes
  <1>3. n \in Nat /\ n > 0 /\ n <= bytesLeftInBlock(o) /\ d < N /\ d < L - F
    <2>1. n \in Nat /\ n > 0 /\ n <= bytesLeftInBlock(F + d) /\ d < N /\ d < L - F
      <3>1. F \in Nat /\ N \in Nat /\ L \in Nat /\ d \in Nat
        BY <1>2
      <3> QED
        BY <3>1, <1>4, ReadLength, SMTT(20)
    <2> QED
      BY <2>1, <1>2
  <1>5. n \in Nat /\ n > 0 /\ n <= bytesLeftInBlock(o)
    BY <1>3
  <1>6. bytes = BytesFrom(f, o, n)
    BY <1>fo DEF Takes
  <1>7. o < size[f]
    BY <1>1, <1>2, <1>3
  <1>8. /\ bytes \in Seq(Values) /\ Len(bytes) = n
        /\ \A i \in 1..n : bytes[i] = Byte(f, o + i - 1)
    BY <1>2, <1>5, <1>6, <1>7, BlockBytes
  <1>9. /\ got' \in Seq(Values) /\ Len(got') = d + n
        /\ \A i \in 1..(d + n) : got'[i] = IF i <= d THEN got[i] ELSE bytes[i - d]
    <2>1. /\ got \o bytes \in Seq(Values) /\ Len(got \o bytes) = Len(got) + Len(bytes)
          /\ \A i \in 1..(Len(got) + Len(bytes)) :
                (got \o bytes)[i] = IF i <= Len(got) THEN got[i] ELSE bytes[i - Len(got)]
      BY <1>1, <1>8, ConcatProperties
    <2>2. got' = got \o bytes
      BY DEF Takes
    <2> QED
      BY <2>1, <2>2, <1>1, <1>8
  <1>10. ASSUME NEW i \in 1..(d + n), F + i <= L
         PROVE  got'[i] = w[F + i]
    <2>1. CASE i <= d
      BY <2>1, <1>1, <1>2, <1>9, <1>10
    <2>2. CASE i > d
      <3>1. /\ i - d \in 1..n /\ o + (i - d) - 1 = F + i - 1
            /\ F + i - 1 \in 0..(L - 1) /\ (F + i - 1) + 1 = F + i
        BY <2>2, <1>2, <1>5, <1>10
      <3>2. got'[i] = bytes[i - d]
        BY <2>2, <1>2, <1>5, <1>9
      <3>3. bytes[i - d] = Byte(f, F + i - 1)
        BY <3>1, <1>8
      <3>4. Byte(f, F + i - 1) = w[F + i]
        BY <3>1, <1>1
      <3> QED
        BY <3>2, <3>3, <3>4
    <2> QED
      BY <2>1, <2>2, <1>2, <1>5
  <1>11. F % B = 0 /\ N % B = 0 => d + n <= N /\ ((d + n) % B = 0 \/ d + n >= L - F)
    <2>1. ASSUME F % B = 0, N % B = 0
          PROVE  d + n <= N /\ ((d + n) % B = 0 \/ d + n >= L - F)
      <3>1. d % B = 0
        BY <2>1, <1>1, <1>2, <1>3
      <3> QED
        BY <3>1, <2>1, <1>2, <1>3, <1>4, ReadsBlocks
    <2> QED
      BY <2>1
  <1>12. \A p \in 0..(L - 1) : Byte(f, p)' = w[p + 1]
    BY <1>1 DEF Byte, Takes
  <1>13. ~(F >= L)
    BY <1>2, <1>3
  <1> QED
    <2>1. size'[f] = L
      BY <1>1 DEF Takes
    <2> QED
      BY <2>1, <1>fo, <1>9, <1>10, <1>11, <1>12, <1>13 DEF ReadSoFar

\* A read that is through.
LEMMA ReadEnds ==
    ASSUME Shape, TypeOK, NEW r, NEW w \in Seq(Values), NEW d \in Nat,
           r.file \in Files, r.offset \in Nat, r.n \in Nat, r.n > 0,
           ReadSoFar(r, w, d), ~(d < Least(r.n, size[r.file] - r.offset)),
           Content(r.file)' = Content(r.file), ret' = File!Answer(d, got)
    PROVE  DoesRead(r, w)
  <1>fo. PICK f, F, N, L : f = r.file /\ F = r.offset /\ N = r.n /\ L = Len(w)
    OBVIOUS
  <1>1. /\ size[f] = L
        /\ \A p \in 0..(L - 1) : Byte(f, p) = w[p + 1]
        /\ got \in Seq(Values) /\ Len(got) = d
        /\ \A i \in 1..d : F + i <= L => got[i] = w[F + i]
        /\ F >= L => d = 0
        /\ F % B = 0 /\ N % B = 0 => d <= N
    BY <1>fo DEF ReadSoFar
  <1>2. f \in Files /\ F \in Nat /\ N \in Nat /\ N > 0 /\ L \in Nat
    BY <1>fo
  <1>3. Content(f) = w
    <2>1. /\ Content(f) \in Seq(Values) /\ Len(Content(f)) = L
          /\ \A p \in 0..(L - 1) : Content(f)[p + 1] = Byte(f, p)
      BY <1>1, <1>2, ContentFacts
    <2>2. ASSUME NEW i \in 1..L
          PROVE  Content(f)[i] = w[i]
      <3>1. i - 1 \in 0..(L - 1) /\ (i - 1) + 1 = i
        BY <1>2
      <3> QED
        BY <3>1, <2>1, <1>1
    <2>3. Content(f) = [i \in 1..L |-> Content(f)[i]]
      BY <2>1, SeqIs
    <2>4. w = [i \in 1..L |-> w[i]]
      BY <1>fo, SeqIs
    <2> QED
      BY <2>2, <2>3, <2>4
  <1>l. PICK last : last = IF F + N < L THEN F + N ELSE L
    OBVIOUS
  <1>a. PICK asked : asked = SubSeq(w, F + 1, last)
    OBVIOUS
  <1>4. File!IsPrefix(asked, got) /\ (asked = << >> => d = 0)
    <2>1. CASE F >= L
      <3>1. last \in Int /\ last < F + 1
        BY <2>1, <1>2, <1>l
      <3>2. asked = << >>
        BY <3>1, <1>2, <1>a, SubSeqEmpty
      <3>3. asked \in Seq(Values) /\ Len(asked) = 0
        BY <3>2
      <3>4. File!IsPrefix(asked, got)
        <4>1. Len(asked) <= Len(got) /\ \A i \in 1..Len(asked) : asked[i] = got[i]
          BY <3>3, <1>1
        <4> QED
          BY <4>1, <3>3, <1>1, PrefixFacts
      <3> QED
        BY <3>4, <2>1, <1>1
    <2>2. CASE F < L
      <3>k. PICK k : k = last - F
        OBVIOUS
      <3>1. k \in Nat /\ k > 0 /\ F + k = last /\ F + k <= L /\ k <= d
        <4>1. k = Least(N, L - F) /\ k \in Nat /\ k > 0 /\ F + k = last /\ F + k <= L
          BY <3>k, <2>2, <1>2, <1>l DEF Least
        <4>2. ~(d < k)
          BY <4>1, <1>fo, <1>1
        <4> QED
          BY <4>1, <4>2
      <3>2. asked = Slice(w, F, k)
        BY <3>1, <1>a DEF Slice
      <3>3. asked \in Seq(Values) /\ Len(asked) = k /\ \A i \in 1..k : asked[i] = w[F + i]
        <4>1. F \in Nat /\ k \in Nat /\ k > 0 /\ F + k <= Len(w)
          BY <3>1, <1>fo, <1>2
        <4>2. /\ Slice(w, F, k) \in Seq(Values) /\ Len(Slice(w, F, k)) = k
              /\ \A i \in 1..k : Slice(w, F, k)[i] = w[F + i]
          BY <4>1, SliceFacts
        <4> QED
          BY <4>2, <3>2
      <3>4. \A i \in 1..k : i \in 1..d /\ F + i <= L
        BY <3>1, <1>2
      <3>5. \A i \in 1..k : asked[i] = got[i]
        BY <3>3, <3>4, <1>1
      <3>6. File!IsPrefix(asked, got)
        BY <3>1, <3>3, <3>5, <1>1, PrefixFacts
      <3>7. asked # << >>
        BY <3>1, <3>3
      <3> QED
        BY <3>6, <3>7
    <2> QED
      BY <2>1, <2>2, <1>2
  <1>5. ret'.count = d /\ ret'.bytes = got
    BY DEF File!Answer
  <1> QED
    BY <1>fo, <1>l, <1>a, <1>1, <1>3, <1>4, <1>5 DEF DoesRead, B

\* A pass of a read.
LEMMA ReadServes ==
    ASSUME ByteInv, ReadPass, NEW r, r = req, NEW w, w = was
    PROVE  /\ Whole' /\ OthersKept /\ Served' /\ full' = full
           /\ GoesOn(r, w) \/ (Returns /\ (r.file \notin full' => DoesRead(r, w)))
  <1>d. PICK d : d = done
    OBVIOUS
  <1>n. PICK n : n = bytesToReadFromBlock(r.file, r.offset + d)
    OBVIOUS
  <1>b. PICK bytes : bytes = BytesFrom(r.file, r.offset + d, n)
    OBVIOUS
  <1>i. Shape /\ TypeOK /\ Whole /\ sound
    BY DEF ByteInv, Inv
  <1>1. Serving("read") /\ size' = size /\ nums' = nums /\ disk' = disk /\ full' = full /\ sound' = sound
    BY DEF ReadPass, list
  <1>2. Whole' /\ OthersKept /\ \A g \in Files : Content(g)' = Content(g)
    BY <1>1, <1>i, SameBytes
  <1>3. /\ r # NoRequest /\ r.op = "read"
        /\ r.file \in Files /\ r.offset \in Nat /\ r.n \in Nat /\ r.n > 0
        /\ d \in Nat /\ size[r.file] \in Nat /\ w \in Seq(Values)
        /\ r.file \notin full => ReadSoFar(r, w, d)
    BY <1>1, <1>d, ReadFacts
  <1>4. CASE d < Least(r.n, size[r.file] - r.offset)
    <2>1. /\ done' = d + n /\ got' = got \o bytes
          /\ req' = r /\ ret' = ret /\ was' = w
      BY <1>4, <1>d, <1>n, <1>b DEF ReadPass, BytesFrom, B
    <2>2. Takes(r, d, n, bytes)
      BY <2>1, <1>1, <1>4, <1>d, <1>n, <1>b DEF Takes, bytesToReadFromBlock
    <2>3. r.file \notin full' => ReadSoFar(r, w, d + n)'
      BY <2>2, <1>i, <1>1, <1>3, ReadOn
    <2>4. r.file \notin full' => ReadSoFar(req, was, done)'
      BY <2>1, <2>3 DEF ReadSoFar
    <2>5. Served'
      BY <2>1, <2>4, <1>3 DEF Served
    <2> QED
      BY <2>1, <2>5, <1>1, <1>2 DEF GoesOn
  <1>5. CASE ~(d < Least(r.n, size[r.file] - r.offset))
    <2>1. Return(d, got)
      BY <1>5, <1>d DEF ReadPass
    <2>2. Returns /\ ret' = File!Answer(d, got)
      BY <2>1 DEF Return, Returns, File!Answer
    <2>3. r.file \notin full' => DoesRead(r, w)
      BY <2>2, <1>i, <1>1, <1>2, <1>3, <1>5, ReadEnds
    <2> QED
      BY <2>2, <2>3, <1>1, <1>2, ReturnServed
  <1> QED
    BY <1>4, <1>5

-----------------------------------------------------------------------------
(* Truncations and deletions.                                              *)

\* What a truncation, or a deletion, has done when it returns.
DoesTruncate(r, w) ==
    /\ Content(r.file)' = [i \in 1..r.n |-> IF i <= Len(w) THEN w[i] ELSE 0]
    /\ ret' = File!Answer(0, << >>)

DoesDelete(r, w) == Content(r.file)' = << >> /\ ret' = File!Answer(0, << >>)

\* What a pass of a truncation is called with.
LEMMA TruncateFacts ==
    ASSUME ByteInv, Serving("truncate"), NEW r, r = req
    PROVE  /\ r # NoRequest /\ r.op = "truncate"
           /\ r.file \in Files /\ r.n \in Nat /\ r.n <= MaxSize[r.file] /\ MaxSize[r.file] \in Nat
           /\ done \in Nat /\ size[r.file] \in Nat /\ was \in Seq(Values)
           /\ r.file \notin full => Truncated(r, was)
  <1>i. Shape /\ TypeOK /\ Progress /\ Served
    BY DEF ByteInv, Inv
  <1>1. r \in Requests /\ r # NoRequest /\ r.op = "truncate"
    BY <1>i DEF Serving, TypeOK
  <1>2. r.file \in Files /\ r.n \in Nat /\ r.n <= MaxSize[r.file] /\ MaxSize[r.file] \in Nat
    <2>1. /\ r.file \in Files /\ r.n \in Nat /\ r.offset \in Nat
          /\ r.offset + r.n <= MaxSize[r.file] /\ MaxSize[r.file] \in Nat
      BY <1>1, RequestFacts
    <2> QED
      BY <2>1
  <1>3. done \in Nat
    BY <1>i DEF Progress
  <1>4. size[r.file] \in Nat
    BY <1>i, <1>2, FileFacts
  <1>5. was \in Seq(Values) /\ (r.file \notin full => Truncated(r, was))
    BY <1>i, <1>1 DEF Served
  <1> QED
    BY <1>1, <1>2, <1>3, <1>4, <1>5

\* A truncation that has not come to its size goes on.
LEMMA TruncateOn ==
    ASSUME ByteInv, Serving("truncate"), NEW r, r = req, NEW w, w = was, Continue(0),
           r.file \notin full' => Truncated(r, w)'
    PROVE  Served' /\ GoesOn(r, w)
  <1>1. req' = r /\ was' = w /\ ret' = ret
    BY DEF Continue
  <1>2. r # NoRequest /\ r.op = "truncate" /\ w \in Seq(Values)
    BY TruncateFacts
  <1>3. r.file \notin full' => Truncated(req, was)'
    BY <1>1 DEF Truncated
  <1>4. Served'
    BY <1>1, <1>2, <1>3 DEF Served
  <1> QED
    BY <1>1, <1>4 DEF GoesOn

\* A truncation of a file that has the size.
LEMMA SameServes ==
    ASSUME ByteInv, TruncateSame, NEW r, r = req, NEW w, w = was
    PROVE  /\ Whole' /\ OthersKept /\ Served'
           /\ Returns /\ (r.file \notin full' => DoesTruncate(r, w))
  <1>i. Shape /\ TypeOK /\ Whole /\ sound
    BY DEF ByteInv, Inv
  <1>1. /\ Serving("truncate") /\ size[r.file] = r.n /\ Return(0, << >>)
        /\ size' = size /\ nums' = nums /\ disk' = disk /\ full' = full /\ sound' = sound
    BY DEF TruncateSame, list
  <1>2. Whole' /\ OthersKept /\ \A g \in Files : Content(g)' = Content(g)
    BY <1>1, <1>i, SameBytes
  <1>3. Returns /\ ret' = File!Answer(0, << >>)
    BY <1>1 DEF Return, Returns, File!Answer
  <1>4. /\ r.file \in Files /\ r.n \in Nat /\ w \in Seq(Values)
        /\ r.file \notin full => Truncated(r, w)
    BY <1>1, TruncateFacts
  <1>5. ASSUME r.file \notin full'
        PROVE  Content(r.file) = [i \in 1..r.n |-> IF i <= Len(w) THEN w[i] ELSE 0]
    <2>1. \A p \in 0..(r.n - 1) : Byte(r.file, p) = IF p < Len(w) THEN w[p + 1] ELSE 0
      BY <1>1, <1>4, <1>5 DEF Truncated
    <2>2. ASSUME NEW i \in 1..r.n
          PROVE  Byte(r.file, i - 1) = IF i <= Len(w) THEN w[i] ELSE 0
      <3>1. i - 1 \in 0..(r.n - 1) /\ (i - 1) + 1 = i /\ (i - 1 < Len(w) <=> i <= Len(w))
        BY <1>4
      <3> QED
        BY <3>1, <2>1
    <2> QED
      BY <2>2, <1>1 DEF Content
  <1>6. r.file \notin full' => DoesTruncate(r, w)
    BY <1>2, <1>3, <1>4, <1>5 DEF DoesTruncate
  <1> QED
    BY <1>2, <1>3, <1>6, ReturnServed

\* A pass that makes a file longer.
LEMMA GrowServes ==
    ASSUME ByteInv, Inv', sound', GrowPass, NEW r, r = req, NEW w, w = was
    PROVE  Whole' /\ OthersKept /\ Served' /\ GoesOn(r, w)
  <1>f. PICK f, N, L : f = r.file /\ N = r.n /\ L = Len(w)
    OBVIOUS
  <1>s. PICK s : s = size[f]
    OBVIOUS
  <1>n. PICK n : n = Least(bytesLeftInBlock(s), N - s)
    OBVIOUS
  <1>b. PICK bytes : bytes = [i \in 1..n |-> 0]
    OBVIOUS
  <1>1. /\ Serving("truncate") /\ s < N /\ Continue(0) /\ Insert(f, s)
        /\ Stores(writeNullBytes(bmapForAppend(f, s), s, n))
        /\ size' = [size EXCEPT ![f] = s + n]
    BY <1>f, <1>s, <1>n DEF GrowPass
  <1>2. /\ f \in Files /\ N \in Nat /\ N <= MaxSize[f] /\ MaxSize[f] \in Nat
        /\ s \in Nat /\ w \in Seq(Values) /\ L \in Nat
        /\ f \notin full => Truncated(r, w)
    BY <1>f, <1>s, <1>1, TruncateFacts
  <1>3. n \in Nat /\ n > 0 /\ n <= bytesLeftInBlock(s) /\ n <= N - s
    <2>1. N - s \in Nat /\ N - s > 0
      BY <1>1, <1>2
    <2> QED
      BY <2>1, <1>n, <1>2, PassLength
  <1>4. bytes \in Seq(Bytes) /\ Len(bytes) = n /\ \A i \in 1..n : bytes[i] = 0
    <2>1. bytes \in [1..n -> Bytes] /\ \A i \in 1..n : bytes[i] = 0
      BY <1>b DEF Bytes
    <2> QED
      BY <2>1, <1>3, FunIsSeq
  <1>5. s + n \in 0..MaxSize[f] /\ s + n <= N
    BY <1>2, <1>3
  <1>m. PICK m : m = s + n
    OBVIOUS
  <1>6. CanPut(f, s, n, bytes, m)
    <2>1. s \in 0..size[f] /\ ~(s < size[f])
      BY <1>s, <1>2
    <2> QED
      BY <2>1, <1>m, <1>3, <1>4, <1>5 DEF CanPut
  <1>7. Puts(f, s, n, bytes, m)
    BY <1>m, <1>1, <1>b DEF Puts, writeNullBytes, Stores
  <1>8. /\ Whole' /\ OthersKept /\ size'[f] = m
        /\ f \notin full' => \A p \in 0..(m - 1) :
              Byte(f, p)' = IF p \in s..(s + n - 1) THEN bytes[p - s + 1] ELSE Byte(f, p)
    BY <1>f, <1>2, <1>6, <1>7, PutsOthers
  <1>9. ASSUME f \notin full'
        PROVE  Truncated(r, w)'
    <2>1. f \notin full
      BY <1>8, <1>9 DEF OthersKept
    <2>2. /\ s \in N..L \/ s \in L..N
          /\ \A p \in 0..(s - 1) : Byte(f, p) = IF p < L THEN w[p + 1] ELSE 0
      BY <2>1, <1>f, <1>s, <1>2 DEF Truncated
    <2>3. L <= s /\ m \in L..N /\ m = s + n
      BY <2>2, <1>m, <1>1, <1>2, <1>3, <1>5
    <2>4. ASSUME NEW p \in 0..(m - 1)
          PROVE  Byte(f, p)' = IF p < L THEN w[p + 1] ELSE 0
      <3>1. CASE p < s
        <4>1. p \in 0..(s - 1) /\ p \notin s..(s + n - 1)
          BY <3>1, <1>m, <1>2, <1>3
        <4> QED
          BY <4>1, <2>2, <1>8, <1>9
      <3>2. CASE ~(p < s)
        <4>1. p \in s..(s + n - 1) /\ ~(p < L) /\ p - s + 1 \in 1..n
          BY <3>2, <2>3, <1>2, <1>3
        <4> QED
          BY <4>1, <1>4, <1>8, <1>9
      <3> QED
        BY <3>1, <3>2
    <2>5. /\ size'[f] \in L..N
          /\ \A p \in 0..(size'[f] - 1) : Byte(f, p)' = IF p < L THEN w[p + 1] ELSE 0
      BY <2>3, <2>4, <1>8
    <2> QED
      BY <2>5, <1>f DEF Truncated
  <1>10. Served' /\ GoesOn(r, w)
    BY <1>f, <1>1, <1>9, TruncateOn
  <1> QED
    BY <1>8, <1>10

\* A pass that makes a file shorter.
LEMMA ShrinkServes ==
    ASSUME ByteInv, Inv', sound', ShrinkPass, NEW r, r = req, NEW w, w = was
    PROVE  Whole' /\ OthersKept /\ Served' /\ GoesOn(r, w)
  <1>f. PICK f, N, L : f = r.file /\ N = r.n /\ L = Len(w)
    OBVIOUS
  <1>s. PICK s : s = size[f]
    OBVIOUS
  <1>u. PICK used : used = ((s - 1) % B) + 1
    OBVIOUS
  <1>l. PICK left : left = s - N
    OBVIOUS
  <1>i. Shape /\ TypeOK /\ Whole /\ Accounts /\ sound
    BY DEF ByteInv, Inv, Accounted
  <1>1. /\ Serving("truncate") /\ s > N
        /\ left < used => size' = [size EXCEPT ![f] = s - left] /\ disk' = disk
        /\ ~(left < used) => /\ size' = [size EXCEPT ![f] = s - used]
                             /\ Freed(f, {(s - 1) \div B})
        /\ Continue(0) /\ nums' = nums /\ full' = full
    BY <1>f, <1>s, <1>u, <1>l DEF ShrinkPass, staysInBlock, B
  <1>2. /\ f \in Files /\ N \in Nat /\ s \in Nat /\ w \in Seq(Values) /\ L \in Nat
        /\ f \notin full => Truncated(r, w)
    BY <1>f, <1>s, <1>1, TruncateFacts
  <1>3. s > 0 /\ left \in 1..s /\ s - left = N
    BY <1>l, <1>1, <1>2
  <1>4. used \in 1..s /\ NumOf(s - used) = NumOf(s) - 1 /\ (s - 1) \div B = NumOf(s) - 1
    BY <1>u, <1>2, <1>3, ShrinkNum
  <1>5. PICK m, positions :
            /\ m \in N..s /\ size' = [size EXCEPT ![f] = m] /\ Junked(f, positions)
            /\ positions = {} \/ (positions = {NumOf(s) - 1} /\ NumOf(m) = NumOf(s) - 1)
    <2>1. CASE left < used
      <3>1. Junked(f, {})
        BY <2>1, <1>1, <1>i DEF Junked, TypeOK
      <3>2. N \in N..s /\ size' = [size EXCEPT ![f] = N]
        BY <2>1, <1>1, <1>2, <1>3
      <3> QED
        BY <3>1, <3>2
    <2>2. CASE ~(left < used)
      <3>1. s - used \in N..s
        BY <2>2, <1>2, <1>3, <1>4
      <3>2. Junked(f, {NumOf(s) - 1})
        <4>1. Freed(f, {NumOf(s) - 1})
          BY <2>2, <1>1, <1>4
        <4> QED
          BY <4>1, FreedJunks
      <3> QED
        BY <3>1, <3>2, <2>2, <1>1, <1>4
    <2> QED
      BY <2>1, <2>2
  <1>6. size'[f] = m /\ m \in Nat /\ m <= s /\ \A g \in Files \ {f} : size'[g] = size[g] /\ size[g] \in Nat
    BY <1>i, <1>2, <1>5 DEF Shape
  <1>7. \A g \in Files : size'[g] \in Nat /\ size'[g] <= size[g]
    BY <1>s, <1>6
  <1>p. \A k \in positions : k \in 0..(Count(f) - 1) /\ k \notin 0..(Count(f)' - 1)
    <2>1. Count(f) = NumOf(s) /\ Count(f) \in Nat /\ Count(f)' = NumOf(m) /\ NumOf(m) \in Nat
      BY <1>s, <1>i, <1>2, <1>6, FileFacts, NumFacts DEF Count
    <2> QED
      BY <2>1, <1>5
  <1>8. /\ Whole'
        /\ \A g \in Files \ full : \A p \in 0..(size'[g] - 1) : Byte(g, p)' = Byte(g, p)
        /\ \A g \in Files \ full : size'[g] = size[g] => Content(g)' = Content(g)
    BY <1>i, <1>p, <1>1, <1>2, <1>5, <1>7, FreedBytes
  <1>9. OthersKept
    BY <1>f, <1>i, <1>1, <1>6, <1>8 DEF OthersKept
  <1>10. ASSUME f \notin full'
         PROVE  Truncated(r, w)'
    <2>1. /\ s \in N..L \/ s \in L..N
          /\ \A p \in 0..(s - 1) : Byte(f, p) = IF p < L THEN w[p + 1] ELSE 0
      BY <1>10, <1>f, <1>s, <1>1, <1>2 DEF Truncated
    <2>2. m \in N..L
      <3>1. s <= L /\ m \in N..s
        BY <2>1, <1>1, <1>2, <1>5
      <3> QED
        BY <3>1, <1>2, <1>6
    <2>3. ASSUME NEW p \in 0..(m - 1)
          PROVE  Byte(f, p)' = IF p < L THEN w[p + 1] ELSE 0
      <3>1. p \in 0..(s - 1)
        BY <1>2, <1>6
      <3>2. Byte(f, p)' = Byte(f, p)
        BY <1>1, <1>2, <1>6, <1>8, <1>10
      <3> QED
        BY <3>1, <3>2, <2>1
    <2>4. /\ size'[f] \in N..L
          /\ \A p \in 0..(size'[f] - 1) : Byte(f, p)' = IF p < L THEN w[p + 1] ELSE 0
      BY <2>2, <2>3, <1>6
    <2> QED
      BY <2>4, <1>f DEF Truncated
  <1>11. Served' /\ GoesOn(r, w)
    BY <1>f, <1>1, <1>10, TruncateOn
  <1> QED
    BY <1>8, <1>9, <1>11

\* A file is deleted.
LEMMA DeleteServes ==
    ASSUME ByteInv, Inv', sound', Delete, NEW r, r = req, NEW w, w = was
    PROVE  /\ Whole' /\ OthersKept /\ Served'
           /\ Returns /\ (r.file \notin full' => DoesDelete(r, w))
  <1>f. PICK f : f = r.file
    OBVIOUS
  <1>i. Shape /\ TypeOK /\ Whole /\ Accounts /\ sound
    BY DEF ByteInv, Inv, Accounted
  <1>1. /\ Serving("delete") /\ Freed(f, 0..(Count(f) - 1)) /\ size' = [size EXCEPT ![f] = 0]
        /\ Return(0, << >>) /\ nums' = nums /\ full' = full
    BY <1>f DEF Delete, inodeBlocksFree, Count
  <1>2. f \in Files
    BY <1>f, <1>i, <1>1, RequestFacts DEF Serving, TypeOK
  <1>3. size'[f] = 0 /\ size[f] \in Nat /\ \A g \in Files \ {f} : size'[g] = size[g] /\ size[g] \in Nat
    BY <1>i, <1>1, <1>2 DEF Shape
  <1>4. \A g \in Files : size'[g] \in Nat /\ size'[g] <= size[g]
    BY <1>3
  <1>5. /\ Whole'
        /\ \A g \in Files \ full : size'[g] = size[g] => Content(g)' = Content(g)
    <2>p. PICK positions : positions = 0..(Count(f) - 1)
      OBVIOUS
    <2>1. Junked(f, positions)
      BY <2>p, <1>1, FreedJunks
    <2>2. Count(f)' = 0
      BY <1>3, NumFacts DEF Count
    <2>3. \A k \in positions : k \in 0..(Count(f) - 1) /\ k \notin 0..(Count(f)' - 1)
      BY <2>p, <2>2
    <2> QED
      BY <2>1, <2>3, <1>i, <1>1, <1>2, <1>4, FreedBytes
  <1>6. OthersKept
    BY <1>f, <1>i, <1>1, <1>3, <1>5 DEF OthersKept
  <1>7. Returns /\ ret' = File!Answer(0, << >>)
    BY <1>1 DEF Return, Returns, File!Answer
  <1>8. Content(f)' = << >>
    BY <1>3 DEF Content
  <1>9. DoesDelete(r, w)
    BY <1>f, <1>7, <1>8 DEF DoesDelete
  <1> QED
    BY <1>5, <1>6, <1>7, <1>9, ReturnServed

-----------------------------------------------------------------------------
(* The steps as ByteFile sees them.                                        *)

\* The files of ByteFile.
Image == [f \in Files |-> Abstract(f)]

\* A call begins.
LEMMA CallServes ==
    ASSUME ByteInv, NEW r \in Requests, Call(r)
    PROVE  Whole' /\ Served' /\ File!Call
  <1>i. Shape /\ TypeOK /\ Progress /\ Whole /\ Served /\ sound
    BY DEF ByteInv, Inv
  <1>w. PICK w : w = Content(r.file)
    OBVIOUS
  <1>1. /\ req = NoRequest /\ req' = r /\ was' = w /\ ret' = File!Answer(0, << >>)
        /\ size' = size /\ nums' = nums /\ disk' = disk /\ full' = full /\ done' = done /\ got' = got
        /\ sound' = sound
    BY <1>w DEF Call, File!Answer, list
  <1>2. Whole' /\ \A g \in Files : Content(g)' = Content(g)
    BY <1>1, <1>i, SameBytes
  <1>3. /\ r.file \in Files /\ r.offset \in Nat /\ r.n \in Nat
    BY RequestFacts
  <1>4. /\ w \in Seq(Values) /\ Len(w) = size[r.file] /\ size[r.file] \in Nat
        /\ \A p \in 0..(size[r.file] - 1) : Byte(r.file, p) = w[p + 1]
    BY <1>w, <1>i, <1>3, ContentFacts
  <1>5. done = 0 /\ got = << >>
    BY <1>i, <1>1 DEF Progress, Served
  <1>6. /\ size'[r.file] = Len(w)
        /\ \A p \in 0..(size'[r.file] - 1) : Byte(r.file, p)' = w[p + 1]
    BY <1>1, <1>4 DEF Byte
  <1>7. Written(r, w, 0)'
    <2>1. \A p \in 0..(size'[r.file] - 1) : p \notin r.offset..(r.offset + 0 - 1)
      BY <1>3, <1>4, <1>6
    <2>2. Reaches(Len(w), r.offset, r.n, 0, size'[r.file])
      BY <1>6 DEF Reaches
    <2> QED
      BY <2>1, <2>2, <1>6 DEF Written
  <1>8. ReadSoFar(r, w, 0)'
    <2>1. got' \in Seq(Values) /\ Len(got') = 0
      BY <1>1, <1>5
    <2>2. 0 % B = 0 /\ 0 <= r.n
      BY <1>3, FileDataAssumption DEF B
    <2> QED
      BY <2>1, <2>2, <1>6 DEF ReadSoFar
  <1>9. Truncated(r, w)'
    <2>1. size'[r.file] \in r.n..Len(w) \/ size'[r.file] \in Len(w)..r.n
      BY <1>3, <1>4, <1>6
    <2>2. \A p \in 0..(size'[r.file] - 1) : p < Len(w)
      BY <1>4, <1>6
    <2> QED
      BY <2>1, <2>2, <1>6 DEF Truncated
  <1>10. Served'
    <2>1. Written(req, was, done)' /\ ReadSoFar(req, was, done)' /\ Truncated(req, was)'
      BY <1>1, <1>5, <1>7, <1>8, <1>9 DEF Written, ReadSoFar, Truncated
    <2>2. was' \in Seq(Values) /\ got' = << >>
      BY <1>1, <1>4, <1>5
    <2> QED
      BY <2>1, <2>2 DEF Served
  <1>11. Image' = Image
    <2>1. ASSUME NEW g \in Files
          PROVE  Abstract(g)' = Abstract(g)
      <3>1. Abstract(g) = IF g \in full THEN Unknown ELSE Content(g)
        BY <1>i, <1>1 DEF Abstract
      <3>2. Abstract(g)' = IF g \in full THEN Unknown
                           ELSE IF r # NoRequest /\ r.file = g THEN w ELSE Content(g)
        BY <1>i, <1>1, <1>2 DEF Abstract
      <3> QED
        BY <3>1, <3>2, <1>w
    <2> QED
      BY <2>1 DEF Image
  <1>12. File!Call
    BY <1>1, <1>11 DEF File!Call, Image, File!Answer
  <1> QED
    BY <1>2, <1>10, <1>12

\* What a pass shows of the files.
LEMMA ImageStep ==
    ASSUME NEW r, r = req, r # NoRequest, r.file \in Files, NEW w, w = was, OthersKept,
           GoesOn(r, w) \/ Returns
    PROVE  /\ Image[r.file] = IF r.file \in full THEN Unknown ELSE w
           /\ Image' = [Image EXCEPT ![r.file] =
                           IF r.file \in full' THEN Unknown
                           ELSE IF req' = NoRequest THEN Content(r.file)' ELSE w]
  <1>f. PICK f : f = r.file
    OBVIOUS
  <1>x. PICK x : x = IF f \in full' THEN Unknown ELSE IF req' = NoRequest THEN Content(f)' ELSE w
    OBVIOUS
  <1>1. f \in Files /\ req = r /\ was = w /\ ((req' = r /\ was' = w) \/ req' = NoRequest)
    BY <1>f DEF GoesOn, Returns
  <1>2. Abstract(f) = IF f \in full THEN Unknown ELSE w
    BY <1>f, <1>1 DEF Abstract, OthersKept
  <1>3. Abstract(f)' = x
    BY <1>f, <1>x, <1>1 DEF Abstract, OthersKept
  <1>4. ASSUME NEW g \in Files \ {f}
        PROVE  Abstract(g)' = Abstract(g)
    <2>1. /\ g \in full' <=> g \in full
          /\ g \notin full' => Content(g)' = Content(g)
      BY <1>f, <1>4 DEF OthersKept
    <2>2. Abstract(g) = IF g \in full THEN Unknown ELSE Content(g)
      BY <1>f, <1>1, <1>4 DEF Abstract, OthersKept
    <2>3. Abstract(g)' = IF g \in full' THEN Unknown ELSE Content(g)'
      BY <1>f, <1>1, <1>4 DEF Abstract, OthersKept
    <2> QED
      BY <2>1, <2>2, <2>3
  <1>5. Image' = [Image EXCEPT ![f] = x]
    BY <1>1, <1>3, <1>4 DEF Image
  <1> QED
    BY <1>f, <1>x, <1>1, <1>2, <1>5 DEF Image

\* A step of ByteFile, or none.
Simulates == [File!Next]_(File!vars)

\* A pass of a call that has met a full disk, or goes on.
LEMMA PassMaps ==
    ASSUME NEW r, r = req, r # NoRequest, r.file \in Files, NEW w, w = was, OthersKept,
           GoesOn(r, w) \/ Returns, r.file \in full' \/ GoesOn(r, w),
           r.op # "read" \/ full' = full
    PROVE  Simulates
  <1>1. /\ Image[r.file] = IF r.file \in full THEN Unknown ELSE w
        /\ Image' = [Image EXCEPT ![r.file] =
                        IF r.file \in full' THEN Unknown
                        ELSE IF req' = NoRequest THEN Content(r.file)' ELSE w]
    BY ImageStep
  <1>2. CASE r.file \in full'
    <2>1. Image' = [Image EXCEPT ![r.file] = Unknown]
      BY <1>1, <1>2
    <2>2. r.op # "read" \/ Image[r.file] = Unknown
      BY <1>1, <1>2
    <2>3. req' \in {r, NoRequest}
      BY DEF GoesOn, Returns
    <2>4. File!MeetFullDisk
      BY <2>1, <2>2, <2>3 DEF File!MeetFullDisk, File!Becomes, Image
    <2> QED
      BY <2>4 DEF Simulates, File!Next
  <1>3. CASE r.file \notin full'
    <2>1. req' = r /\ ret' = ret /\ r.file \notin full
      BY <1>3 DEF GoesOn, OthersKept
    <2>2. Image[r.file] = w /\ Image' = [Image EXCEPT ![r.file] = w]
      BY <2>1, <1>1, <1>3
    <2>3. Image' = Image
      BY <2>2 DEF Image
    <2> QED
      BY <2>1, <2>3 DEF Simulates, File!vars, Image
  <1> QED
    BY <1>2, <1>3

\* A call that returns, on a file that never met a full disk.
LEMMA ReturnMaps ==
    ASSUME NEW r, r = req, r # NoRequest, r.file \in Files, NEW w, w = was, w \in Seq(Values),
           OthersKept, Returns, r.file \notin full'
    PROVE  /\ Image[r.file] = w /\ w # Unknown
           /\ Image' = [Image EXCEPT ![r.file] = Content(r.file)']
           /\ Content(r.file)' = w => Image' = Image
  <1>1. /\ Image[r.file] = IF r.file \in full THEN Unknown ELSE w
        /\ Image' = [Image EXCEPT ![r.file] =
                        IF r.file \in full' THEN Unknown
                        ELSE IF req' = NoRequest THEN Content(r.file)' ELSE w]
    BY ImageStep
  <1>2. r.file \notin full /\ req' = NoRequest
    BY DEF OthersKept, Returns
  <1>3. w # Unknown
    BY UnknownAssumption DEF Values
  <1>4. Image[r.file] = w /\ Image' = [Image EXCEPT ![r.file] = Content(r.file)']
    BY <1>1, <1>2
  <1>5. Content(r.file)' = w => Image' = Image
    BY <1>4 DEF Image
  <1> QED
    BY <1>3, <1>4, <1>5

\* A write that returns is a Write of ByteFile.
LEMMA WriteMaps ==
    ASSUME NEW r, r = req, r # NoRequest, r.op = "write", r.file \in Files, r.offset \in Nat,
           NEW w, w = was, w \in Seq(Values), OthersKept, Returns, r.file \notin full', DoesWrite(r, w)
    PROVE  Simulates
  <1> DEFINE whole == File!Overlay(w, r.offset, r.buf)
             keeps == File!LeavesWhole(Len(w), r.offset, r.n)
  <1>1. /\ Image[r.file] = w /\ w # Unknown
        /\ Image' = [Image EXCEPT ![r.file] = Content(r.file)']
        /\ Content(r.file)' = w => Image' = Image
    BY ReturnMaps
  <1>2. Len(w) \in Nat
    OBVIOUS
  <1>3. File!Serve("write")
    BY <1>1 DEF File!Serve, Image, Returns
  <1>4. IF r.offset > Len(w) THEN Image' = Image /\ ret' = File!Answer(-1, << >>)
        ELSE IF keeps
        THEN Image' = [Image EXCEPT ![r.file] = whole] /\ ret' = File!Answer(r.n, << >>)
        ELSE /\ \E k \in 1..Len(whole) : Image' = [Image EXCEPT ![r.file] = SubSeq(whole, 1, k)]
             /\ ret' \in {File!Answer(n, << >>) : n \in 1..r.n}
    <2> HIDE DEF whole, keeps
    <2>1. \/ r.offset > Len(w) /\ Content(r.file)' = w /\ ret' = File!Answer(-1, << >>)
          \/ /\ r.offset <= Len(w) /\ keeps
             /\ Content(r.file)' = whole /\ ret' = File!Answer(r.n, << >>)
          \/ /\ r.offset <= Len(w) /\ ~keeps
             /\ \E k \in 1..Len(whole) : Content(r.file)' = SubSeq(whole, 1, k)
             /\ \E c \in 1..r.n : ret' = File!Answer(c, << >>)
      BY DEF DoesWrite, whole, keeps
    <2>2. r.offset <= Len(w) <=> ~(r.offset > Len(w))
      BY <1>2
    <2> QED
      BY <2>1, <2>2, <1>1
  <1>5. File!Write
    BY <1>1, <1>3, <1>4 DEF File!Write, File!Becomes, Image
  <1> QED
    BY <1>5 DEF Simulates, File!Next

\* A read that returns is a Read of ByteFile.
LEMMA ReadMaps ==
    ASSUME NEW r, r = req, r # NoRequest, r.op = "read", r.file \in Files,
           NEW w, w = was, w \in Seq(Values), OthersKept, Returns, r.file \notin full', DoesRead(r, w)
    PROVE  Simulates
  <1>1. /\ Image[r.file] = w /\ w # Unknown
        /\ Content(r.file)' = w => Image' = Image
    BY ReturnMaps
  <1>2. Image' = Image
    BY <1>1 DEF DoesRead
  <1>3. File!Serve("read")
    BY <1>1 DEF File!Serve, Image, Returns
  <1>4. [f \in Files |-> Abstract(f)][req.file] = w
    BY <1>1 DEF Image
  <1>5. File!Read
    <2>2. UNCHANGED [f \in Files |-> Abstract(f)]
      BY <1>2 DEF Image
    <2>3. LET old   == [f \in Files |-> Abstract(f)][req.file]
              last  == IF req.offset + req.n < Len(old) THEN req.offset + req.n ELSE Len(old)
              asked == SubSeq(old, req.offset + 1, last)
          IN  /\ ret'.count = Len(ret'.bytes)
              /\ File!IsPrefix(asked, ret'.bytes)
              /\ asked = << >> => ret'.count = 0
              /\ req.offset % BLOCK_SIZE = 0 /\ req.n % BLOCK_SIZE = 0 => ret'.count <= req.n
      BY <1>4 DEF DoesRead
    <2> QED
      BY <2>2, <2>3, <1>3 DEF File!Read
  <1> QED
    BY <1>5 DEF Simulates, File!Next

\* A truncation that returns is a Truncate of ByteFile.
LEMMA TruncateMaps ==
    ASSUME NEW r, r = req, r # NoRequest, r.op = "truncate", r.file \in Files,
           NEW w, w = was, w \in Seq(Values), OthersKept, Returns, r.file \notin full', DoesTruncate(r, w)
    PROVE  Simulates
  <1>1. /\ Image[r.file] = w /\ w # Unknown
        /\ Image' = [Image EXCEPT ![r.file] = Content(r.file)']
    BY ReturnMaps
  <1>2. File!Serve("truncate")
    BY <1>1 DEF File!Serve, Image, Returns
  <1>3. /\ Image' = [Image EXCEPT ![r.file] = [i \in 1..r.n |-> IF i <= Len(w) THEN w[i] ELSE 0]]
        /\ ret' = File!Answer(0, << >>)
    BY <1>1 DEF DoesTruncate
  <1>5. File!Truncate
    BY <1>1, <1>2, <1>3 DEF File!Truncate, File!Becomes, Image
  <1> QED
    BY <1>5 DEF Simulates, File!Next

\* A deletion that returns is a Delete of ByteFile.
LEMMA DeleteMaps ==
    ASSUME NEW r, r = req, r # NoRequest, r.op = "delete", r.file \in Files,
           NEW w, w = was, w \in Seq(Values), OthersKept, Returns, r.file \notin full', DoesDelete(r, w)
    PROVE  Simulates
  <1>1. /\ Image[r.file] = w /\ w # Unknown
        /\ Image' = [Image EXCEPT ![r.file] = Content(r.file)']
    BY ReturnMaps
  <1>2. File!Serve("delete")
    BY <1>1 DEF File!Serve, Image, Returns
  <1>3. Image' = [Image EXCEPT ![r.file] = << >>] /\ ret' = File!Answer(0, << >>)
    BY <1>1 DEF DoesDelete
  <1>5. File!Delete
    BY <1>2, <1>3 DEF File!Delete, File!Becomes, Image
  <1> QED
    BY <1>5 DEF Simulates, File!Next

\* The invariant, until a block that was freed into a link is handed out.
UntilLost == Inv /\ (sound => Whole /\ Served)

\* The first state.
LEMMA FirstState ==
    ASSUME Init
    PROVE  UntilLost /\ File!Init
  <1>1. Inv
    BY InitInv
  <1>2. \A f \in Files : size[f] = 0 /\ Count(f) = 0
    BY NumFacts DEF Init, Count
  <1>3. Whole
    BY <1>2 DEF Whole
  <1>4. Served
    BY DEF Init, Served
  <1>5. \A f \in Files : Content(f) = << >>
    BY <1>2 DEF Content
  <1>6. Image = [f \in Files |-> << >>]
    <2>1. \A f \in Files : Abstract(f) = << >>
      BY <1>5 DEF Init, Abstract
    <2> QED
      BY <2>1 DEF Image
  <1>7. File!Init
    BY <1>6 DEF Init, File!Init, File!Answer, Image
  <1> QED
    BY <1>1, <1>3, <1>4, <1>7 DEF UntilLost

\* Every step that keeps the free list a list keeps the invariant and is a step
\* of ByteFile, or shows nothing.
LEMMA SoundStep ==
    ASSUME ByteInv, [Next]_vars, sound'
    PROVE  Whole' /\ Served' /\ Simulates
  <1>r. PICK r, w : r = req /\ w = was
    OBVIOUS
  <1>i. Inv /\ Shape /\ TypeOK /\ Whole /\ Served
    BY DEF ByteInv, Inv
  <1>I. Inv'
    BY <1>i, StepInv
  <1>w. w \in Seq(Values)
    BY <1>r, <1>i DEF Served
  <1>1. ASSUME NEW c \in Requests, Call(c)
        PROVE  Whole' /\ Served' /\ Simulates
    <2>1. Whole' /\ Served' /\ File!Call
      BY <1>1, CallServes
    <2> QED
      BY <2>1 DEF Simulates, File!Next
  <1>2. ASSUME NEW op, Serving(op)
        PROVE  r # NoRequest /\ r \in Requests /\ r.op = op /\ r.file \in Files /\ r.offset \in Nat
    <2>1. r # NoRequest /\ r \in Requests /\ r.op = op
      BY <1>2, <1>r, <1>i DEF Serving, TypeOK
    <2> QED
      BY <2>1, RequestFacts
  <1>3. CASE WritePass
    <2>1. r # NoRequest /\ r.op = "write" /\ r.file \in Files /\ r.offset \in Nat
      BY <1>2, <1>3 DEF WritePass
    <2>2. /\ Whole' /\ OthersKept /\ Served'
          /\ GoesOn(r, w) \/ (Returns /\ (r.file \notin full' => DoesWrite(r, w)))
      BY <1>3, <1>r, <1>I, WriteServes
    <2>3. CASE r.file \in full' \/ GoesOn(r, w)
      <3>1. Simulates
        BY <2>1, <2>2, <2>3, <1>r, PassMaps
      <3> QED
        BY <3>1, <2>2
    <2>4. CASE r.file \notin full' /\ ~GoesOn(r, w)
      <3>1. Simulates
        BY <2>1, <2>2, <2>4, <1>r, <1>w, WriteMaps
      <3> QED
        BY <3>1, <2>2
    <2> QED
      BY <2>3, <2>4
  <1>4. CASE ReadPass
    <2>1. r # NoRequest /\ r.op = "read" /\ r.file \in Files
      BY <1>2, <1>4 DEF ReadPass
    <2>2. /\ Whole' /\ OthersKept /\ Served' /\ full' = full
          /\ GoesOn(r, w) \/ (Returns /\ (r.file \notin full' => DoesRead(r, w)))
      BY <1>4, <1>r, ReadServes
    <2>3. CASE r.file \in full' \/ GoesOn(r, w)
      <3>1. Simulates
        BY <2>1, <2>2, <2>3, <1>r, PassMaps
      <3> QED
        BY <3>1, <2>2
    <2>4. CASE r.file \notin full' /\ ~GoesOn(r, w)
      <3>1. Simulates
        BY <2>1, <2>2, <2>4, <1>r, <1>w, ReadMaps
      <3> QED
        BY <3>1, <2>2
    <2> QED
      BY <2>3, <2>4
  <1>5. CASE TruncateSame
    <2>1. r # NoRequest /\ r.op = "truncate" /\ r.file \in Files
      BY <1>2, <1>5 DEF TruncateSame
    <2>2. /\ Whole' /\ OthersKept /\ Served'
          /\ Returns /\ (r.file \notin full' => DoesTruncate(r, w))
      BY <1>5, <1>r, SameServes
    <2>3. CASE r.file \in full'
      <3>1. Simulates
        BY <2>1, <2>2, <2>3, <1>r, PassMaps
      <3> QED
        BY <3>1, <2>2
    <2>4. CASE r.file \notin full'
      <3>1. Simulates
        BY <2>1, <2>2, <2>4, <1>r, <1>w, TruncateMaps
      <3> QED
        BY <3>1, <2>2
    <2> QED
      BY <2>3, <2>4
  <1>6. CASE GrowPass \/ ShrinkPass
    <2>1. r # NoRequest /\ r.op = "truncate" /\ r.file \in Files
      BY <1>2, <1>6 DEF GrowPass, ShrinkPass
    <2>2. Whole' /\ OthersKept /\ Served' /\ GoesOn(r, w)
      BY <1>6, <1>r, <1>I, GrowServes, ShrinkServes
    <2>3. Simulates
      BY <2>1, <2>2, <1>r, PassMaps
    <2> QED
      BY <2>2, <2>3
  <1>7. CASE Delete
    <2>1. r # NoRequest /\ r.op = "delete" /\ r.file \in Files
      BY <1>2, <1>7 DEF Delete
    <2>2. /\ Whole' /\ OthersKept /\ Served'
          /\ Returns /\ (r.file \notin full' => DoesDelete(r, w))
      BY <1>7, <1>r, <1>I, DeleteServes
    <2>3. CASE r.file \in full'
      <3>1. Simulates
        BY <2>1, <2>2, <2>3, <1>r, PassMaps
      <3> QED
        BY <3>1, <2>2
    <2>4. CASE r.file \notin full'
      <3>1. Simulates
        BY <2>1, <2>2, <2>4, <1>r, <1>w, DeleteMaps
      <3> QED
        BY <3>1, <2>2
    <2> QED
      BY <2>3, <2>4
  <1>8. CASE UNCHANGED vars
    <2>1. Whole'
      BY <1>8, <1>i DEF vars, Whole, Count
    <2>2. Served'
      BY <1>8, <1>i DEF vars, Served, Written, ReadSoFar, Truncated, Byte
    <2>3. Image' = Image
      BY <1>8 DEF vars, list, Image, Abstract, Content, Byte
    <2>4. req' = req /\ ret' = ret
      BY <1>8 DEF vars
    <2> QED
      BY <2>1, <2>2, <2>3, <2>4 DEF Simulates, File!vars, Image
  <1> QED
    BY <1>1, <1>3, <1>4, <1>5, <1>6, <1>7, <1>8 DEF Next, Pass

\* Without a free list every file is Unknown, and every step is one of ByteFile.
LEMMA LostStep ==
    ASSUME Inv, [Next]_vars, ~sound'
    PROVE  Simulates
  <1>i. TypeOK
    BY DEF Inv
  <1>1. Image' = [f \in Files |-> Unknown]
    BY DEF Image, Abstract
  <1>2. ~sound => Image = [f \in Files |-> Unknown]
    BY DEF Image, Abstract
  <1>3. ASSUME NEW c \in Requests, Call(c)
        PROVE  Simulates
    <2>1. req = NoRequest /\ req' = c /\ ret' = File!Answer(0, << >>) /\ sound' = sound
      BY <1>3 DEF Call, File!Answer, list
    <2>2. Image' = Image
      BY <2>1, <1>1, <1>2
    <2>3. File!Call
      BY <2>1, <2>2 DEF File!Call, Image, File!Answer
    <2> QED
      BY <2>3 DEF Simulates, File!Next
  <1>4. CASE Pass
    <2>1. req # NoRequest /\ req.file \in Files
      <3>1. req # NoRequest
        BY <1>4 DEF Pass, WritePass, ReadPass, TruncateSame, GrowPass, ShrinkPass, Delete, Serving
      <3> QED
        BY <3>1, <1>i, RequestFacts DEF TypeOK
    <2>2. req' \in {req, NoRequest}
      BY <1>4 DEF Pass, WritePass, ReadPass, TruncateSame, GrowPass, ShrinkPass, Delete, Continue, Return
    <2>3. CASE ~sound
      <3>1. Image' = [Image EXCEPT ![req.file] = Unknown] /\ Image[req.file] = Unknown
        BY <2>1, <2>3, <1>1, <1>2
      <3>2. File!MeetFullDisk
        BY <3>1, <2>1, <2>2 DEF File!MeetFullDisk, File!Becomes, Image
      <3> QED
        BY <3>2 DEF Simulates, File!Next
    <2>4. CASE sound
      <3>1. WritePass \/ GrowPass
        BY <2>4, <1>4 DEF Pass, ReadPass, TruncateSame, ShrinkPass, Delete, Freed, list
      <3>2. req.op \in {"write", "truncate"}
        BY <3>1 DEF WritePass, GrowPass, Serving
      <3>3. File!LoseFreeList
        BY <3>2, <2>1, <2>2, <1>1 DEF File!LoseFreeList, Image
      <3> QED
        BY <3>3 DEF Simulates, File!Next
    <2> QED
      BY <2>3, <2>4
  <1>5. CASE UNCHANGED vars
    <2>1. Image' = Image
      <3>1. sound' = sound
        BY <1>5 DEF vars, list
      <3> QED
        BY <3>1, <1>1, <1>2
    <2>2. req' = req /\ ret' = ret
      BY <1>5 DEF vars
    <2> QED
      BY <2>1, <2>2 DEF Simulates, File!vars, Image
  <1> QED
    BY <1>3, <1>4, <1>5 DEF Next

\* A free list that is none never becomes one.
LEMMA SoundBefore ==
    ASSUME [Next]_vars, sound'
    PROVE  sound
  <1>1. ASSUME NEW f, NEW offset, Insert(f, offset)
        PROVE  sound
    BY <1>1 DEF Insert, list
  <1>2. ASSUME NEW c, Call(c)
        PROVE  sound
    BY <1>2 DEF Call, list
  <1>3. CASE WritePass
    BY <1>1, <1>3 DEF WritePass, list
  <1>4. CASE GrowPass
    BY <1>1, <1>4 DEF GrowPass
  <1>5. CASE ReadPass \/ TruncateSame \/ UNCHANGED vars
    BY <1>5 DEF ReadPass, TruncateSame, vars, list
  <1>6. CASE ShrinkPass \/ Delete
    BY <1>6 DEF ShrinkPass, Delete, Freed, list
  <1> QED
    BY <1>2, <1>3, <1>4, <1>5, <1>6 DEF Next, Pass

\* Every step keeps the invariant and is a step of ByteFile, or shows nothing.
LEMMA StepMaps ==
    ASSUME UntilLost, [Next]_vars
    PROVE  UntilLost' /\ Simulates
  <1>1. Inv /\ Inv'
    BY StepInv DEF UntilLost
  <1>2. CASE sound'
    <2>1. ByteInv
      BY <1>2, SoundBefore DEF UntilLost, ByteInv
    <2> QED
      BY <2>1, <1>1, <1>2, SoundStep DEF UntilLost
  <1>3. CASE ~sound'
    BY <1>1, <1>3, LostStep DEF UntilLost
  <1> QED
    BY <1>2, <1>3

\* The loops of write, read and truncate implement ByteFile.  Seen from
\* outside, and until a block that was freed into a link is handed out, each
\* call on a file that never met a full disk happens at once, when it returns,
\* and does to the bytes of its own file, and of no other, what ByteFile says,
\* however the bytes lie in blocks and whatever was in these blocks before.
THEOREM ImplementsByteFile == Spec => RefinesByteFile
  <1>1. Init => UntilLost /\ File!Init
    BY FirstState
  <1>2. UntilLost /\ [Next]_vars => UntilLost' /\ Simulates
    BY StepMaps
  <1> QED
    BY <1>1, <1>2, PTL DEF Spec, SafeSpec, RefinesByteFile, File!Spec, Simulates
=============================================================================
