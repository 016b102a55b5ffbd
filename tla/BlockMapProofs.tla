--------------------------- MODULE BlockMapProofs ---------------------------
(***************************************************************************)
(* What calculateOffset and the test for new index blocks compute, for     *)
(* every number of addresses in an index block: every position has a way   *)
(* of its own, an index block is made for exactly the first position below *)
(* it, and the sizes at which a shrinking file frees others are known.     *)
(***************************************************************************)
EXTENDS BlockMap, TLAPS

D == DIRECT_BLOCK_LIMIT
W == BLOCK_ADDRESSES_PER_BLOCK

\* The ways there are: a direct number, or as many slots as the number is
\* above the direct ones.
IsDirect(w) == \E k \in 0..D : w = Way(k, << >>)
IsSingle(w) == \E a \in Slots : w = Way(D + 1, <<a>>)
IsDouble(w) == \E a, b \in Slots : w = Way(D + 2, <<a, b>>)
IsTriple(w) == \E a, b, c \in Slots : w = Way(D + 3, <<a, b, c>>)

IsWay(w) == IsDirect(w) \/ IsSingle(w) \/ IsDouble(w) \/ IsTriple(w)

\* The place in the file of the block at the end of a way.
Place(w) ==
    CASE Len(w.slots) = 0 -> w.number
      [] Len(w.slots) = 1 -> D + 1 + w.slots[1]
      [] Len(w.slots) = 2 -> SINGLE_INDIRECT_LIMIT + 1 + (w.slots[1] * W + w.slots[2])
      [] Len(w.slots) = 3 -> DOUBLE_INDIRECT_LIMIT + 1
                                + (w.slots[1] * (W * W) + (w.slots[2] * W + w.slots[3]))

\* The positions a file can have.
Mapped(offset) == offset \in Nat /\ offset \div BLOCK_SIZE <= TRIPLE_INDIRECT_LIMIT

\* Two ways lead through the same c-th index block.
Shares(v, w, c) ==
    /\ v.number = w.number
    /\ \A j \in 1..(c - 1) : v.slots[j] = w.slots[j]

-----------------------------------------------------------------------------
(* Numbers of one, two and three digits.                                   *)

LEMMA SizeFacts ==
    /\ D \in Nat /\ W \in Nat /\ W > 0 /\ W * W \in Nat /\ W * W > 0
    /\ W * W * W \in Nat /\ W * W * W = W * (W * W)
    /\ BLOCK_SIZE \in Nat /\ BLOCK_SIZE > 0
    /\ Slots = 0..(W - 1)
    /\ SINGLE_INDIRECT_LIMIT = D + W
    /\ DOUBLE_INDIRECT_LIMIT = D + W + W * W
    /\ TRIPLE_INDIRECT_LIMIT = D + W + W * W + W * (W * W)
    /\ SINGLE_INDIRECT_LIMIT \in Nat /\ DOUBLE_INDIRECT_LIMIT \in Nat
  <1>1. /\ D \in Nat /\ W \in Nat /\ W > 0 /\ BLOCK_SIZE \in Nat /\ BLOCK_SIZE > 0
        /\ Slots = 0..(W - 1)
    BY BlockMapAssumption DEF D, W, Slots
  <1>2. W * W \in Nat /\ W * W > 0
    BY <1>1
  <1>3. W * W * W \in Nat /\ W * W * W = W * (W * W)
    BY <1>1, <1>2
  <1> QED
    BY <1>1, <1>2, <1>3 DEF SINGLE_INDIRECT_LIMIT, DOUBLE_INDIRECT_LIMIT,
         TRIPLE_INDIRECT_LIMIT, D, W

\* Division by a width, with the multiple as a term of its own.
LEMMA Division ==
    ASSUME NEW m \in Nat, m > 0, NEW x \in Nat
    PROVE  /\ x \div m \in Nat /\ (x \div m) * m \in Nat
           /\ (x \div m) * m <= x /\ x < (x \div m) * m + m
  <1>1. x \div m \in Nat
    OBVIOUS
  <1>2. m * (x \div m) <= x
    OBVIOUS
  <1>3. x < m * (x \div m) + m
    OBVIOUS
  <1>4. m * (x \div m) = (x \div m) * m /\ (x \div m) * m \in Nat
    BY <1>1
  <1> QED
    BY <1>1, <1>2, <1>3, <1>4

\* A quotient is below a bound if the number is below that many widths.
LEMMA QuotientBelow ==
    ASSUME NEW m \in Nat, m > 0, NEW n \in Nat, NEW x \in Nat, x < n * m
    PROVE  x \div m < n
  <1>1. x \div m \in Nat /\ (x \div m) * m <= x
    BY Division
  <1>2. SUFFICES ASSUME x \div m >= n PROVE FALSE
    BY <1>1
  <1>3. ASSUME NEW q \in Nat, q >= n PROVE q * m >= n * m
    BY <1>3
  <1>4. (x \div m) * m >= n * m
    BY <1>1, <1>2, <1>3
  <1>5. (x \div m) * m \in Int /\ n * m \in Int
    BY <1>1
  <1> QED
    BY <1>1, <1>4, <1>5

\* The multiples of a width.
LEMMA Multiples ==
    ASSUME NEW m \in Nat, m > 0, NEW a \in Nat, NEW b \in Nat
    PROVE  /\ a * m \in Nat /\ b * m \in Nat
           /\ a < b => a * m + m <= b * m
           /\ a > 0 => a * m >= m
           /\ 0 * m = 0
  <1>1. a * m \in Nat /\ b * m \in Nat /\ 0 * m = 0
    OBVIOUS
  <1>2. ASSUME a < b PROVE a * m + m <= b * m
    <2>1. PICK d \in Nat : b = a + 1 + d
      <3>1. b - a - 1 \in Nat /\ b = a + 1 + (b - a - 1)
        BY <1>2
      <3> QED
        BY <3>1
    <2>2. b * m = a * m + m + d * m /\ d * m \in Nat
      BY <2>1
    <2> QED
      BY <2>2, <1>1
  <1>3. ASSUME a > 0 PROVE a * m >= m
    BY <1>3
  <1> QED
    BY <1>1, <1>2, <1>3

-----------------------------------------------------------------------------
(* The way to a position.                                                  *)

LEMMA WayFields ==
    ASSUME NEW n, NEW s
    PROVE  Way(n, s).number = n /\ Way(n, s).slots = s
  BY DEF Way

LEMMA PlaceOf ==
    /\ \A k : Place(Way(k, << >>)) = k
    /\ \A a : Place(Way(D + 1, <<a>>)) = D + 1 + a
    /\ \A a, b : Place(Way(D + 2, <<a, b>>)) = SINGLE_INDIRECT_LIMIT + 1 + (a * W + b)
    /\ \A a, b, c : Place(Way(D + 3, <<a, b, c>>)) =
          DOUBLE_INDIRECT_LIMIT + 1 + (a * (W * W) + (b * W + c))
  BY DEF Place, Way

\* Two digits are left of a number below the square of the width.
LEMMA TwoDigits ==
    ASSUME NEW x \in Nat, x < W * W
    PROVE  /\ x \div W \in Slots /\ x - (x \div W) * W \in Slots
           /\ (x \div W) * W \in Nat
  <1>1. /\ x \div W \in Nat /\ (x \div W) * W \in Nat
        /\ (x \div W) * W <= x /\ x < (x \div W) * W + W
    BY Division, SizeFacts
  <1>2. x \div W < W
    BY QuotientBelow, SizeFacts
  <1> QED
    BY <1>1, <1>2, SizeFacts

\* Three are left of one below its cube.
LEMMA ThreeDigits ==
    ASSUME NEW x \in Nat, x < W * (W * W),
           NEW a, a = x \div (W * W),
           NEW b, b = (x - a * (W * W)) \div W,
           NEW c, c = x - (a * (W * W) + b * W)
    PROVE  /\ a \in Slots /\ b \in Slots /\ c \in Slots
           /\ x = a * (W * W) + (b * W + c)
  <1>1. W * W \in Nat /\ W * W > 0 /\ W \in Nat /\ Slots = 0..(W - 1)
    BY SizeFacts
  <1>2. /\ a \in Nat /\ a * (W * W) \in Nat
        /\ a * (W * W) <= x /\ x < a * (W * W) + W * W
    BY Division, <1>1
  <1>3. a < W
    BY QuotientBelow, <1>1
  <1>4. PICK r : r = x - a * (W * W)
    OBVIOUS
  <1>5. r \in Nat /\ r < W * W
    BY <1>1, <1>2, <1>4
  <1>6. /\ r \div W \in Slots /\ r - (r \div W) * W \in Slots
        /\ (r \div W) * W \in Nat
    BY TwoDigits, <1>5
  <1>7. b \in Slots /\ r - b * W \in Slots /\ b * W \in Nat
    BY <1>4, <1>6
  <1>8. c = r - b * W
    BY <1>1, <1>2, <1>4, <1>7
  <1>9. x = a * (W * W) + (b * W + c)
    BY <1>1, <1>2, <1>4, <1>7, <1>8
  <1>10. a \in Slots
    BY <1>1, <1>2, <1>3
  <1> QED
    BY <1>7, <1>8, <1>9, <1>10

\* The four ranges of calculateOffset.
LEMMA WayCases ==
    ASSUME NEW offset, Mapped(offset),
           NEW k, k = offset \div BLOCK_SIZE
    PROVE  /\ k \in Nat
           /\ k <= D => calculateOffset(offset) = Way(k, << >>)
           /\ k \in (D + 1)..(D + W) =>
                 calculateOffset(offset) = Way(D + 1, <<k - (D + 1)>>)
           /\ k \in (D + W + 1)..(D + W + W * W) =>
                 LET x == k - (D + W + 1)
                     a == x \div W
                 IN  calculateOffset(offset) = Way(D + 2, <<a, x - a * W>>)
           /\ k \in (D + W + W * W + 1)..(D + W + W * W + W * (W * W)) =>
                 LET x == k - (D + W + W * W + 1)
                     a == x \div (W * W)
                     b == (x - a * (W * W)) \div W
                 IN  calculateOffset(offset) =
                        Way(D + 3, <<a, b, x - (a * (W * W) + b * W)>>)
  <1>1. k \in Nat
    BY Division, SizeFacts DEF Mapped
  <1>2. /\ DIRECT_BLOCK_LIMIT = D /\ BLOCK_ADDRESSES_PER_BLOCK = W
        /\ SINGLE_INDIRECT_LIMIT = D + W
        /\ DOUBLE_INDIRECT_LIMIT = D + W + W * W
        /\ TRIPLE_INDIRECT_LIMIT = D + W + W * W + W * (W * W)
        /\ D \in Nat /\ W \in Nat /\ W > 0 /\ W * W \in Nat
    BY SizeFacts DEF D, W
  <1>3. ASSUME k <= D PROVE calculateOffset(offset) = Way(k, << >>)
    <2>1. /\ k <= DIRECT_BLOCK_LIMIT
          /\ k \notin (DIRECT_BLOCK_LIMIT + 1)..SINGLE_INDIRECT_LIMIT
          /\ k \notin (SINGLE_INDIRECT_LIMIT + 1)..DOUBLE_INDIRECT_LIMIT
          /\ k \notin (DOUBLE_INDIRECT_LIMIT + 1)..TRIPLE_INDIRECT_LIMIT
      BY <1>1, <1>2, <1>3
    <2> QED
      BY <2>1, ZenonT(30) DEF calculateOffset
  <1>4. k \in (D + 1)..(D + W) =>
                 calculateOffset(offset) = Way(D + 1, <<k - (D + 1)>>)
    BY <1>1, <1>2 DEF calculateOffset
  <1>5. ASSUME k \in (D + W + 1)..(D + W + W * W)
        PROVE  LET x == k - (D + W + 1)
                   a == x \div W
               IN  calculateOffset(offset) = Way(D + 2, <<a, x - a * W>>)
    BY <1>1, <1>2, <1>5 DEF calculateOffset
  <1>6. ASSUME k \in (D + W + W * W + 1)..(D + W + W * W + W * (W * W))
        PROVE  LET x == k - (D + W + W * W + 1)
                   a == x \div (W * W)
                   b == (x - a * (W * W)) \div W
               IN  calculateOffset(offset) =
                      Way(D + 3, <<a, b, x - (a * (W * W) + b * W)>>)
    BY <1>1, <1>2, <1>6 DEF calculateOffset
  <1> QED
    BY <1>1, <1>3, <1>4, <1>5, <1>6

\* For every position a file can have, calculateOffset gives a number of the
\* inode and slots within the index blocks, and the place these stand for is
\* that of the block asked for: bmap goes neither outside an index block nor,
\* for two blocks of a file, the same way.
THEOREM WaysAreSound ==
    ASSUME NEW offset, Mapped(offset)
    PROVE  /\ IsWay(calculateOffset(offset))
           /\ Place(calculateOffset(offset)) = offset \div BLOCK_SIZE
  <1>1. PICK k : k = offset \div BLOCK_SIZE
    OBVIOUS
  <1>2. /\ D \in Nat /\ W \in Nat /\ W > 0 /\ W * W \in Nat /\ W * (W * W) \in Nat
        /\ Slots = 0..(W - 1)
        /\ SINGLE_INDIRECT_LIMIT = D + W
        /\ DOUBLE_INDIRECT_LIMIT = D + W + W * W
    BY SizeFacts
  <1>3. k \in Nat /\ k <= D + W + W * W + W * (W * W)
    BY <1>1, WayCases, SizeFacts DEF Mapped
  <1>4. CASE k <= D
    <2>1. calculateOffset(offset) = Way(k, << >>)
      BY <1>1, <1>4, WayCases, Zenon
    <2>2. k \in 0..D
      BY <1>2, <1>3, <1>4
    <2> QED
      BY <1>1, <2>1, <2>2, PlaceOf DEF IsWay, IsDirect
  <1>5. CASE k \in (D + 1)..(D + W)
    <2>1. calculateOffset(offset) = Way(D + 1, <<k - (D + 1)>>)
      BY <1>1, <1>5, WayCases
    <2>2. k - (D + 1) \in Slots /\ D + 1 + (k - (D + 1)) = k
      BY <1>2, <1>3, <1>5
    <2> QED
      BY <1>1, <2>1, <2>2, PlaceOf DEF IsWay, IsSingle
  <1>6. CASE k \in (D + W + 1)..(D + W + W * W)
    <2>1. PICK x : x = k - (D + W + 1)
      OBVIOUS
    <2>2. PICK a : a = x \div W
      OBVIOUS
    <2>3. x \in Nat /\ x < W * W /\ k = D + W + 1 + x
      BY <1>2, <1>3, <1>6, <2>1
    <2>4. a \in Slots /\ x - a * W \in Slots /\ a * W \in Nat
      BY <2>2, <2>3, TwoDigits
    <2>5. calculateOffset(offset) = Way(D + 2, <<a, x - a * W>>)
      BY <1>1, <1>6, <2>1, <2>2, WayCases
    <2>6. a * W + (x - a * W) = x
      BY <2>3, <2>4
    <2>7. Place(calculateOffset(offset)) = k
      BY <1>2, <2>3, <2>5, <2>6, PlaceOf
    <2> QED
      BY <1>1, <2>4, <2>5, <2>7 DEF IsWay, IsDouble
  <1>7. CASE k \in (D + W + W * W + 1)..(D + W + W * W + W * (W * W))
    <2>1. PICK x : x = k - (D + W + W * W + 1)
      OBVIOUS
    <2>2. PICK a : a = x \div (W * W)
      OBVIOUS
    <2>3. PICK b : b = (x - a * (W * W)) \div W
      OBVIOUS
    <2>4. PICK c : c = x - (a * (W * W) + b * W)
      OBVIOUS
    <2>5. x \in Nat /\ x < W * (W * W) /\ k = D + W + W * W + 1 + x
      BY <1>2, <1>3, <1>7, <2>1
    <2>6. /\ a \in Slots /\ b \in Slots /\ c \in Slots
          /\ x = a * (W * W) + (b * W + c)
      BY <2>2, <2>3, <2>4, <2>5, ThreeDigits
    <2>7. calculateOffset(offset) = Way(D + 3, <<a, b, c>>)
      BY <1>1, <1>7, <2>1, <2>2, <2>3, <2>4, WayCases
    <2>8. Place(calculateOffset(offset)) = D + W + W * W + 1 + x
      BY <1>2, <2>6, <2>7, PlaceOf
    <2> QED
      BY <1>1, <2>5, <2>6, <2>7, <2>8 DEF IsWay, IsTriple
  <1> QED
    BY <1>2, <1>3, <1>4, <1>5, <1>6, <1>7

-----------------------------------------------------------------------------
(* The position at the end of a way.                                       *)

LEMMA QuotientIs ==
    ASSUME NEW m \in Nat, m > 0, NEW q \in Nat, NEW r \in 0..(m - 1)
    PROVE  (q * m + r) \div m = q /\ q * m + r \in Nat /\ q * m \in Nat
  <1>1. q * m \in Nat
    OBVIOUS
  <1>2. PICK x \in Nat : x = q * m + r
    BY <1>1
  <1>3. /\ x \div m \in Nat /\ (x \div m) * m \in Nat
        /\ (x \div m) * m <= x /\ x < (x \div m) * m + m
    BY <1>2, Division
  <1>4. ~(x \div m < q)
    BY <1>1, <1>2, <1>3, Multiples
  <1>5. ~(q < x \div m)
    BY <1>1, <1>2, <1>3, Multiples
  <1> QED
    BY <1>1, <1>2, <1>3, <1>4, <1>5

\* Digits stay below the next power of the width.
LEMMA DigitsBelow ==
    ASSUME NEW a \in Slots, NEW b \in Slots, NEW c \in Slots
    PROVE  /\ b * W \in Nat /\ b * W + c \in 0..(W * W - 1)
           /\ a * (W * W) \in Nat
           /\ a * (W * W) + (b * W + c) \in 0..(W * (W * W) - 1)
  <1>1. /\ W \in Nat /\ W > 0 /\ W * W \in Nat /\ W * W > 0 /\ W * (W * W) \in Nat
        /\ a \in Nat /\ a < W /\ b \in Nat /\ b < W /\ c \in Nat /\ c < W
    BY SizeFacts
  <1>2. b * W \in Nat /\ b * W + W <= W * W
    BY <1>1, Multiples
  <1>3. a * (W * W) \in Nat /\ a * (W * W) + W * W <= W * (W * W)
    BY <1>1, Multiples
  <1> QED
    BY <1>1, <1>2, <1>3

\* Every way is the way to a position.
LEMMA WayBack ==
    ASSUME NEW w, IsWay(w)
    PROVE  /\ Place(w) \in Nat
           /\ Mapped(Place(w) * BLOCK_SIZE)
           /\ (Place(w) * BLOCK_SIZE) \div BLOCK_SIZE = Place(w)
           /\ calculateOffset(Place(w) * BLOCK_SIZE) = w
  <1>1. /\ D \in Nat /\ W \in Nat /\ W > 0 /\ W * W \in Nat /\ W * W > 0
        /\ W * (W * W) \in Nat
        /\ BLOCK_SIZE \in Nat /\ BLOCK_SIZE > 0
        /\ Slots = 0..(W - 1)
        /\ SINGLE_INDIRECT_LIMIT = D + W
        /\ DOUBLE_INDIRECT_LIMIT = D + W + W * W
        /\ TRIPLE_INDIRECT_LIMIT = D + W + W * W + W * (W * W)
    BY SizeFacts
  <1>2. ASSUME NEW k \in Nat, k <= TRIPLE_INDIRECT_LIMIT
        PROVE  Mapped(k * BLOCK_SIZE) /\ (k * BLOCK_SIZE) \div BLOCK_SIZE = k
    <2>1. /\ (k * BLOCK_SIZE + 0) \div BLOCK_SIZE = k
          /\ k * BLOCK_SIZE \in Nat
      BY <1>1, QuotientIs
    <2>2. k * BLOCK_SIZE + 0 = k * BLOCK_SIZE
      BY <2>1
    <2> QED
      BY <1>2, <2>1, <2>2 DEF Mapped
  <1>3. CASE IsDirect(w)
    <2>1. PICK k \in 0..D : w = Way(k, << >>)
      BY <1>3 DEF IsDirect
    <2>2. Place(w) = k /\ k \in Nat /\ k <= D /\ k <= TRIPLE_INDIRECT_LIMIT
      BY <1>1, <2>1, PlaceOf
    <2> QED
      BY <1>2, <2>1, <2>2, WayCases
  <1>4. CASE IsSingle(w)
    <2>1. PICK a \in Slots : w = Way(D + 1, <<a>>)
      BY <1>4 DEF IsSingle
    <2>2. PICK k : k = D + 1 + a
      OBVIOUS
    <2>3. /\ Place(w) = k /\ k \in Nat /\ k \in (D + 1)..(D + W) /\ k - (D + 1) = a
          /\ k <= TRIPLE_INDIRECT_LIMIT
      BY <1>1, <2>1, <2>2, PlaceOf
    <2>4. calculateOffset(k * BLOCK_SIZE) = Way(D + 1, <<a>>)
      BY <1>2, <2>3, WayCases
    <2> QED
      BY <1>2, <2>1, <2>3, <2>4
  <1>5. CASE IsDouble(w)
    <2>1. PICK a, b \in Slots : w = Way(D + 2, <<a, b>>)
      BY <1>5 DEF IsDouble
    <2>2. PICK x : x = a * W + b
      OBVIOUS
    <2>3. /\ x \in 0..(W * W - 1) /\ a * W \in Nat /\ x - a * W = b /\ x \div W = a
      <3>1. a * W \in Nat /\ a * W + b \in 0..(W * W - 1)
        BY DigitsBelow
      <3>2. a \in Nat /\ b \in 0..(W - 1)
        BY <1>1
      <3>3. (a * W + b) \div W = a
        BY <1>1, <3>2, QuotientIs
      <3> QED
        BY <2>2, <3>1, <3>2, <3>3
    <2>4. PICK k : k = D + W + 1 + x
      OBVIOUS
    <2>5. Place(w) = k
      BY <1>1, <2>1, <2>2, <2>4, PlaceOf
    <2>6. /\ k \in Nat /\ k \in (D + W + 1)..(D + W + W * W) /\ k - (D + W + 1) = x
          /\ k <= TRIPLE_INDIRECT_LIMIT
      BY <1>1, <2>3, <2>4
    <2>7. Mapped(k * BLOCK_SIZE) /\ k = (k * BLOCK_SIZE) \div BLOCK_SIZE
      BY <1>2, <2>6
    <2>8. calculateOffset(k * BLOCK_SIZE) = Way(D + 2, <<x \div W, x - (x \div W) * W>>)
      BY <2>6, <2>7, WayCases
    <2> QED
      BY <2>1, <2>3, <2>5, <2>6, <2>7, <2>8
  <1>6. CASE IsTriple(w)
    <2>1. PICK a, b, c \in Slots : w = Way(D + 3, <<a, b, c>>)
      BY <1>6 DEF IsTriple
    <2>2. PICK y : y = b * W + c
      OBVIOUS
    <2>3. PICK x : x = a * (W * W) + y
      OBVIOUS
    <2>4. /\ y \in 0..(W * W - 1) /\ b * W \in Nat /\ a * (W * W) \in Nat
          /\ x \in 0..(W * (W * W) - 1) /\ a \in Nat /\ b \in Nat /\ c \in 0..(W - 1)
      BY <1>1, <2>2, <2>3, DigitsBelow
    <2>5. x \div (W * W) = a
      BY <1>1, <2>3, <2>4, QuotientIs
    <2>6. x - a * (W * W) = y /\ y \div W = b
      BY <1>1, <2>2, <2>3, <2>4, QuotientIs
    <2>7. x - (a * (W * W) + b * W) = c
      BY <1>1, <2>2, <2>3, <2>4
    <2>8. PICK k : k = D + W + W * W + 1 + x
      OBVIOUS
    <2>9. Place(w) = k
      BY <1>1, <2>1, <2>2, <2>3, <2>8, PlaceOf
    <2>10. /\ k \in Nat /\ k \in (D + W + W * W + 1)..(D + W + W * W + W * (W * W))
           /\ k - (D + W + W * W + 1) = x
           /\ k <= TRIPLE_INDIRECT_LIMIT
      BY <1>1, <2>4, <2>8
    <2>11. Mapped(k * BLOCK_SIZE) /\ k = (k * BLOCK_SIZE) \div BLOCK_SIZE
      BY <1>2, <2>10
    <2>12. calculateOffset(k * BLOCK_SIZE) = Way(D + 3, <<a, b, c>>)
      BY <2>5, <2>6, <2>7, <2>10, <2>11, WayCases
    <2> QED
      BY <2>1, <2>9, <2>10, <2>11, <2>12
  <1> QED
    BY <1>3, <1>4, <1>5, <1>6 DEF IsWay

-----------------------------------------------------------------------------
(* Index blocks.                                                           *)

\* The slots of a way.
LEMMA WaySlots ==
    ASSUME NEW w, IsWay(w)
    PROVE  w.slots \in Seq(Nat) /\ Len(w.slots) \in 0..3
  <1>1. Slots \subseteq Nat
    BY SizeFacts
  <1>2. ASSUME NEW k \in 0..D, w = Way(k, << >>)
        PROVE  w.slots \in Seq(Nat) /\ Len(w.slots) \in 0..3
    BY <1>2 DEF Way
  <1>3. ASSUME NEW a \in Slots, w = Way(D + 1, <<a>>)
        PROVE  w.slots \in Seq(Nat) /\ Len(w.slots) \in 0..3
    <2>1. a \in Nat /\ w.slots = <<a>>
      BY <1>1, <1>3 DEF Way
    <2> QED
      BY <2>1
  <1>4. ASSUME NEW a \in Slots, NEW b \in Slots, w = Way(D + 2, <<a, b>>)
        PROVE  w.slots \in Seq(Nat) /\ Len(w.slots) \in 0..3
    <2>1. a \in Nat /\ b \in Nat /\ w.slots = <<a, b>>
      BY <1>1, <1>4 DEF Way
    <2> QED
      BY <2>1
  <1>5. ASSUME NEW a \in Slots, NEW b \in Slots, NEW c \in Slots, w = Way(D + 3, <<a, b, c>>)
        PROVE  w.slots \in Seq(Nat) /\ Len(w.slots) \in 0..3
    <2>1. a \in Nat /\ b \in Nat /\ c \in Nat /\ w.slots = <<a, b, c>>
      BY <1>1, <1>5 DEF Way
    <2> QED
      BY <2>1
  <1> QED
    BY <1>2, <1>3, <1>4, <1>5 DEF IsWay, IsDirect, IsSingle, IsDouble, IsTriple

\* The number a way starts from tells how many slots it has.
LEMMA WayByNumber ==
    ASSUME NEW w, IsWay(w)
    PROVE  /\ w.number = D + 1 => IsSingle(w)
           /\ w.number = D + 2 => IsDouble(w)
           /\ w.number = D + 3 => IsTriple(w)
  <1>1. CASE IsDirect(w)
    <2>1. PICK k \in 0..D : w = Way(k, << >>)
      BY <1>1 DEF IsDirect
    <2>2. w.number = k
      BY <2>1, WayFields
    <2>3. k # D + 1 /\ k # D + 2 /\ k # D + 3
      BY SizeFacts
    <2> QED
      BY <2>2, <2>3
  <1>2. ASSUME IsSingle(w) PROVE w.number = D + 1
    <2>1. PICK a \in Slots : w = Way(D + 1, <<a>>)
      BY <1>2 DEF IsSingle
    <2> QED
      BY <2>1, WayFields
  <1>3. ASSUME IsDouble(w) PROVE w.number = D + 2
    <2>1. PICK a, b \in Slots : w = Way(D + 2, <<a, b>>)
      BY <1>3 DEF IsDouble
    <2> QED
      BY <2>1, WayFields
  <1>4. ASSUME IsTriple(w) PROVE w.number = D + 3
    <2>1. PICK a, b, c \in Slots : w = Way(D + 3, <<a, b, c>>)
      BY <1>4 DEF IsTriple
    <2> QED
      BY <2>1, WayFields
  <1>5. D + 1 # D + 2 /\ D + 1 # D + 3 /\ D + 2 # D + 3
    BY SizeFacts
  <1> QED
    BY <1>1, <1>2, <1>3, <1>4, <1>5 DEF IsWay

\* The test that allocateAllNeededBlocks and freeNeededBlocks make: from the
\* c-th slot on all are 0.
LEMMA FirstOnly ==
    ASSUME NEW slots \in Seq(Nat), Len(slots) \in 1..3, NEW c \in 1..Len(slots)
    PROVE  /\ c >= firstOnlyForThis(slots) <=> \A j \in c..Len(slots) : slots[j] = 0
           /\ firstOnlyForThis(slots) \in 1..(Len(slots) + 1)
  <1> DEFINE First(d) == /\ \A j \in d..Len(slots) : slots[j] = 0
                         /\ d > 1 => slots[d - 1] # 0
  <1>1. Len(slots) \in Nat
    OBVIOUS
  <1>2. \E d \in 1..(Len(slots) + 1) : First(d)
    <2>1. CASE Len(slots) = 1
      <3>1. First(1) \/ First(2)
        BY <2>1
      <3> QED
        BY <2>1, <3>1
    <2>2. CASE Len(slots) = 2
      <3>1. First(1) \/ First(2) \/ First(3)
        BY <2>2
      <3> QED
        BY <2>2, <3>1
    <2>3. CASE Len(slots) = 3
      <3>1. First(1) \/ First(2) \/ First(3) \/ First(4)
        BY <2>3
      <3> QED
        BY <2>3, <3>1
    <2> QED
      BY <2>1, <2>2, <2>3
  <1>3. PICK d \in 1..(Len(slots) + 1) : d = firstOnlyForThis(slots) /\ First(d)
    <2>1. firstOnlyForThis(slots) = CHOOSE d \in 1..(Len(slots) + 1) : First(d)
      BY DEF firstOnlyForThis
    <2> HIDE DEF First
    <2> QED
      BY <1>2, <2>1
  <1>4. ASSUME c >= d PROVE \A j \in c..Len(slots) : slots[j] = 0
    BY <1>1, <1>3, <1>4
  <1>5. ASSUME c < d PROVE ~(\A j \in c..Len(slots) : slots[j] = 0)
    <2>1. d - 1 \in c..Len(slots) /\ slots[d - 1] # 0
      BY <1>1, <1>3, <1>5
    <2> QED
      BY <2>1
  <1> QED
    BY <1>1, <1>3, <1>4, <1>5

\* If the slots from the c-th on are 0, no way through the c-th index block
\* ends before this one.
LEMMA NoneBefore ==
    ASSUME NEW v, IsWay(v), NEW w, IsWay(w),
           NEW c \in 1..Len(w.slots), Shares(v, w, c),
           \A j \in c..Len(w.slots) : w.slots[j] = 0
    PROVE  Place(w) <= Place(v)
  <1>1. /\ D \in Nat /\ W \in Nat /\ W > 0 /\ W * W \in Nat /\ W * W > 0
        /\ Slots = 0..(W - 1)
        /\ SINGLE_INDIRECT_LIMIT \in Nat /\ DOUBLE_INDIRECT_LIMIT \in Nat
    BY SizeFacts
  <1>2. CASE IsSingle(w)
    <2>1. PICK a \in Slots : w = Way(D + 1, <<a>>)
      BY <1>2 DEF IsSingle
    <2>2. v.number = D + 1
      BY <2>1, WayFields DEF Shares
    <2>3. PICK e \in Slots : v = Way(D + 1, <<e>>)
      BY <2>2, WayByNumber DEF IsSingle
    <2>4. a = 0
      BY <2>1, WayFields
    <2> QED
      BY <1>1, <2>1, <2>3, <2>4, PlaceOf
  <1>3. CASE IsDouble(w)
    <2>1. PICK a, b \in Slots : w = Way(D + 2, <<a, b>>)
      BY <1>3 DEF IsDouble
    <2>2. v.number = D + 2
      BY <2>1, WayFields DEF Shares
    <2>3. PICK e, f \in Slots : v = Way(D + 2, <<e, f>>)
      BY <2>2, WayByNumber DEF IsDouble
    <2>4. /\ w.slots = <<a, b>> /\ v.slots = <<e, f>> /\ Len(w.slots) = 2
      BY <2>1, <2>3, WayFields
    <2>5. b = 0 /\ (a = 0 \/ a = e)
      <3>1. CASE c = 1
        BY <2>4, <3>1
      <3>2. CASE c = 2
        BY <2>4, <3>2 DEF Shares
      <3> QED
        BY <2>4, <3>1, <3>2
    <2>6. a * W + b <= e * W + f /\ a * W + b \in Nat /\ e * W + f \in Nat
      <3>1. e * W \in Nat /\ 0 * W = 0
        BY <1>1
      <3> QED
        BY <1>1, <2>5, <3>1
    <2> QED
      BY <1>1, <2>1, <2>3, <2>6, PlaceOf
  <1>4. CASE IsTriple(w)
    <2>1. PICK a, b, d \in Slots : w = Way(D + 3, <<a, b, d>>)
      BY <1>4 DEF IsTriple
    <2>2. v.number = D + 3
      BY <2>1, WayFields DEF Shares
    <2>3. PICK e, f, g \in Slots : v = Way(D + 3, <<e, f, g>>)
      BY <2>2, WayByNumber DEF IsTriple
    <2>4. /\ w.slots = <<a, b, d>> /\ v.slots = <<e, f, g>> /\ Len(w.slots) = 3
      BY <2>1, <2>3, WayFields
    <2>5. d = 0 /\ (a = 0 \/ a = e) /\ (b = 0 \/ (a = e /\ b = f))
      <3>1. CASE c = 1
        BY <2>4, <3>1
      <3>2. CASE c = 2
        BY <2>4, <3>2 DEF Shares
      <3>3. CASE c = 3
        BY <2>4, <3>3 DEF Shares
      <3> QED
        BY <2>4, <3>1, <3>2, <3>3
    <2>6. e * (W * W) \in Nat /\ f * W \in Nat /\ 0 * W = 0 /\ 0 * (W * W) = 0
      BY <1>1, DigitsBelow
    <2>7. a * (W * W) \in Nat /\ a * (W * W) <= e * (W * W)
      BY <1>1, <2>5, <2>6
    <2>8. b * W \in Nat /\ b * W <= f * W
      BY <1>1, <2>5, <2>6
    <2>9. a * (W * W) + (b * W + d) <= e * (W * W) + (f * W + g)
      BY <1>1, <2>5, <2>6, <2>7, <2>8
    <2>10. /\ Place(w) = DOUBLE_INDIRECT_LIMIT + 1 + (a * (W * W) + (b * W + d))
           /\ Place(v) = DOUBLE_INDIRECT_LIMIT + 1 + (e * (W * W) + (f * W + g))
      BY <2>1, <2>3, PlaceOf
    <2> QED
      BY <1>1, <2>5, <2>6, <2>7, <2>8, <2>9, <2>10
  <1>5. CASE IsDirect(w)
    BY <1>5, WayFields DEF IsDirect
  <1> QED
    BY <1>2, <1>3, <1>4, <1>5 DEF IsWay

\* If one of them is not 0, the way with 0 in their place is one that ends
\* before this one.
LEMMA OneBefore ==
    ASSUME NEW w, IsWay(w), NEW c \in 1..Len(w.slots),
           NEW i \in c..Len(w.slots), w.slots[i] # 0
    PROVE  \E v : IsWay(v) /\ Shares(v, w, c) /\ Place(v) < Place(w)
  <1>1. /\ D \in Nat /\ W \in Nat /\ W > 0 /\ W * W \in Nat /\ W * W > 0
        /\ Slots = 0..(W - 1) /\ 0 \in Slots
        /\ SINGLE_INDIRECT_LIMIT \in Nat /\ DOUBLE_INDIRECT_LIMIT \in Nat
    BY SizeFacts
  <1>2. CASE IsSingle(w)
    <2>1. PICK a \in Slots : w = Way(D + 1, <<a>>)
      BY <1>2 DEF IsSingle
    <2>2. a # 0 /\ c = 1
      BY <2>1, WayFields
    <2>3. PICK v : v = Way(D + 1, <<0>>)
      OBVIOUS
    <2>4. Shares(v, w, c)
      BY <2>1, <2>2, <2>3, WayFields DEF Shares
    <2>5. Place(v) < Place(w)
      BY <1>1, <2>1, <2>2, <2>3, PlaceOf
    <2>6. IsWay(v)
      BY <1>1, <2>3 DEF IsWay, IsSingle
    <2> QED
      BY <2>4, <2>5, <2>6
  <1>3. CASE IsDouble(w)
    <2>1. PICK a, b \in Slots : w = Way(D + 2, <<a, b>>)
      BY <1>3 DEF IsDouble
    <2>2. PICK e \in Slots : e = IF c = 1 THEN 0 ELSE a
      BY <1>1
    <2>3. PICK v : v = Way(D + 2, <<e, 0>>)
      OBVIOUS
    <2>4. w.slots = <<a, b>> /\ v.slots = <<e, 0>> /\ w.number = v.number
      BY <2>1, <2>3, WayFields
    <2>5. Shares(v, w, c)
      BY <2>2, <2>4 DEF Shares
    <2>6. (e = a /\ b # 0) \/ (e = 0 /\ (a # 0 \/ b # 0))
      BY <2>2, <2>4
    <2>7. a * W \in Nat /\ e * W \in Nat /\ 0 * W = 0 /\ (a # 0 => a * W > 0)
      BY <1>1
    <2>8. e * W + 0 < a * W + b
      BY <1>1, <2>6, <2>7
    <2>9. /\ Place(w) = SINGLE_INDIRECT_LIMIT + 1 + (a * W + b)
          /\ Place(v) = SINGLE_INDIRECT_LIMIT + 1 + (e * W + 0)
      BY <2>1, <2>3, PlaceOf
    <2>10. Place(v) < Place(w)
      BY <1>1, <2>7, <2>8, <2>9
    <2>11. IsWay(v)
      BY <1>1, <2>3 DEF IsWay, IsDouble
    <2> QED
      BY <2>5, <2>10, <2>11
  <1>4. CASE IsTriple(w)
    <2>1. PICK a, b, d \in Slots : w = Way(D + 3, <<a, b, d>>)
      BY <1>4 DEF IsTriple
    <2>2. PICK e \in Slots : e = IF c = 1 THEN 0 ELSE a
      BY <1>1
    <2>3. PICK f \in Slots : f = IF c <= 2 THEN 0 ELSE b
      BY <1>1
    <2>4. PICK v : v = Way(D + 3, <<e, f, 0>>)
      OBVIOUS
    <2>5. w.slots = <<a, b, d>> /\ v.slots = <<e, f, 0>> /\ w.number = v.number
      BY <2>1, <2>4, WayFields
    <2>6. Shares(v, w, c)
      BY <2>2, <2>3, <2>5 DEF Shares
    <2>7. /\ e = a \/ e = 0
          /\ f = b \/ f = 0
          /\ d # 0 \/ (b # 0 /\ f = 0) \/ (a # 0 /\ e = 0)
      <3>1. c \in 1..3 /\ i \in c..3 /\ (i = 1 => a # 0) /\ (i = 2 => b # 0)
            /\ (i = 3 => d # 0)
        BY <2>5
      <3> QED
        BY <2>2, <2>3, <3>1
    <2>8. /\ a * (W * W) \in Nat /\ e * (W * W) \in Nat /\ 0 * (W * W) = 0
          /\ a # 0 => a * (W * W) > 0
      BY <1>1, Multiples
    <2>9. b * W \in Nat /\ f * W \in Nat /\ 0 * W = 0 /\ (b # 0 => b * W > 0)
      BY <1>1, Multiples
    <2>10. e * (W * W) + (f * W + 0) < a * (W * W) + (b * W + d)
      BY <1>1, <2>7, <2>8, <2>9
    <2>11. /\ Place(w) = DOUBLE_INDIRECT_LIMIT + 1 + (a * (W * W) + (b * W + d))
           /\ Place(v) = DOUBLE_INDIRECT_LIMIT + 1 + (e * (W * W) + (f * W + 0))
      BY <2>1, <2>4, PlaceOf
    <2>12. Place(v) < Place(w)
      BY <1>1, <2>8, <2>9, <2>10, <2>11
    <2>13. IsWay(v)
      BY <1>1, <2>4 DEF IsWay, IsTriple
    <2> QED
      BY <2>6, <2>12, <2>13
  <1>5. CASE IsDirect(w)
    BY <1>5, WayFields DEF IsDirect
  <1> QED
    BY <1>2, <1>3, <1>4, <1>5 DEF IsWay

\* Appending allocates the c-th index block on its way, and a removal that
\* looks at this way frees it, exactly if no earlier block of the file is
\* reached through it: no index block is missing when a block is appended, and
\* none is made twice.
THEOREM MadeForTheFirst ==
    ASSUME NEW offset, Mapped(offset),
           NEW c \in 1..Len(calculateOffset(offset).slots)
    PROVE  c >= firstOnlyForThis(calculateOffset(offset).slots)
              <=> \A o \in Nat :
                     o \div BLOCK_SIZE < offset \div BLOCK_SIZE =>
                        ~Shares(calculateOffset(o), calculateOffset(offset), c)
  <1>1. PICK w : w = calculateOffset(offset)
    OBVIOUS
  <1>2. IsWay(w) /\ Place(w) = offset \div BLOCK_SIZE /\ c \in 1..Len(w.slots)
    BY <1>1, WaysAreSound
  <1>3. w.slots \in Seq(Nat) /\ Len(w.slots) \in 1..3
    BY <1>2, WaySlots
  <1>4. c >= firstOnlyForThis(w.slots) <=> \A j \in c..Len(w.slots) : w.slots[j] = 0
    BY <1>2, <1>3, FirstOnly
  <1>5. ASSUME \A j \in c..Len(w.slots) : w.slots[j] = 0,
               NEW o \in Nat, o \div BLOCK_SIZE < offset \div BLOCK_SIZE,
               Shares(calculateOffset(o), w, c)
        PROVE  FALSE
    <2>1. Mapped(o)
      <3>1. o \div BLOCK_SIZE \in Nat /\ offset \div BLOCK_SIZE \in Nat
        BY SizeFacts, Division DEF Mapped
      <3>2. TRIPLE_INDIRECT_LIMIT \in Nat
        BY SizeFacts
      <3> QED
        BY <1>5, <3>1, <3>2 DEF Mapped
    <2>2. IsWay(calculateOffset(o)) /\ Place(calculateOffset(o)) = o \div BLOCK_SIZE
      BY <2>1, WaysAreSound
    <2>3. Place(w) <= Place(calculateOffset(o))
      BY <1>2, <1>5, <2>2, NoneBefore
    <2>4. o \div BLOCK_SIZE \in Nat /\ offset \div BLOCK_SIZE \in Nat
      BY SizeFacts, Division DEF Mapped
    <2> QED
      BY <1>2, <1>5, <2>2, <2>3, <2>4
  <1>6. ASSUME NEW i \in c..Len(w.slots), w.slots[i] # 0
        PROVE  \E o \in Nat : /\ o \div BLOCK_SIZE < offset \div BLOCK_SIZE
                              /\ Shares(calculateOffset(o), w, c)
    <2>1. PICK v : IsWay(v) /\ Shares(v, w, c) /\ Place(v) < Place(w)
      BY <1>2, <1>6, OneBefore
    <2>2. PICK o : o = Place(v) * BLOCK_SIZE
      OBVIOUS
    <2>3. /\ Mapped(o) /\ o \div BLOCK_SIZE = Place(v) /\ calculateOffset(o) = v
      BY <2>1, <2>2, WayBack
    <2> QED
      BY <1>2, <2>1, <2>3 DEF Mapped
  <1> QED
    BY <1>1, <1>4, <1>5, <1>6

-----------------------------------------------------------------------------
(* What a removal frees.                                                   *)

\* The block is the first one below some index block.
HeadOfIndexBlock(k) == \E m \in Nat : k = D + 1 + m * W

\* The last slot of a way is 0 exactly if its block is the first below an
\* index block.
LEMMA LastSlot ==
    ASSUME NEW w, IsWay(w)
    PROVE  HeadOfIndexBlock(Place(w))
              <=> w.slots # << >> /\ w.slots[Len(w.slots)] = 0
  <1>1. /\ D \in Nat /\ W \in Nat /\ W > 0 /\ W * W \in Nat /\ Slots = 0..(W - 1)
        /\ SINGLE_INDIRECT_LIMIT = D + W
        /\ DOUBLE_INDIRECT_LIMIT = D + W + W * W
    BY SizeFacts
  <1>2. ASSUME NEW n \in Nat, NEW r \in Slots, Place(w) = D + 1 + (n * W + r)
        PROVE  HeadOfIndexBlock(Place(w)) <=> r = 0
    <2>1. ASSUME r = 0 PROVE HeadOfIndexBlock(Place(w))
      <3>1. Place(w) = D + 1 + n * W
        BY <1>1, <1>2, <2>1
      <3> QED
        BY <3>1 DEF HeadOfIndexBlock
    <2>2. ASSUME NEW m \in Nat, Place(w) = D + 1 + m * W PROVE r = 0
      <3>1. n * W \in Nat /\ m * W \in Nat
        BY <1>1
      <3>2. m * W = n * W + r
        BY <1>1, <1>2, <2>2, <3>1
      <3>3. ~(n < m)
        <4>1. n < m => n * W + W <= m * W
          BY <1>1, Multiples
        <4> QED
          BY <1>1, <3>1, <3>2, <4>1
      <3>4. ~(m < n)
        <4>1. m < n => m * W + W <= n * W
          BY <1>1, Multiples
        <4> QED
          BY <1>1, <3>1, <3>2, <4>1
      <3> QED
        BY <1>1, <3>1, <3>2, <3>3, <3>4
    <2> QED
      BY <2>1, <2>2 DEF HeadOfIndexBlock
  <1>3. CASE IsDirect(w)
    <2>1. PICK k \in 0..D : w = Way(k, << >>)
      BY <1>3 DEF IsDirect
    <2>2. w.slots = << >> /\ Place(w) = k
      BY <2>1, WayFields, PlaceOf
    <2>3. ASSUME NEW m \in Nat PROVE k # D + 1 + m * W
      <3>1. m * W \in Nat
        BY <1>1
      <3> QED
        BY <1>1, <3>1
    <2> QED
      BY <2>2, <2>3 DEF HeadOfIndexBlock
  <1>4. CASE IsSingle(w)
    <2>1. PICK a \in Slots : w = Way(D + 1, <<a>>)
      BY <1>4 DEF IsSingle
    <2>2. w.slots = <<a>> /\ Place(w) = D + 1 + a
      BY <2>1, WayFields, PlaceOf
    <2>3. Place(w) = D + 1 + (0 * W + a) /\ 0 \in Nat
      BY <1>1, <2>2
    <2>4. HeadOfIndexBlock(Place(w)) <=> a = 0
      BY <1>2, <2>3
    <2> QED
      BY <2>2, <2>4
  <1>5. CASE IsDouble(w)
    <2>1. PICK a, b \in Slots : w = Way(D + 2, <<a, b>>)
      BY <1>5 DEF IsDouble
    <2>2. w.slots = <<a, b>> /\ Place(w) = D + W + 1 + (a * W + b)
      BY <1>1, <2>1, WayFields, PlaceOf
    <2>3. a * W \in Nat /\ (a + 1) * W = a * W + W /\ a + 1 \in Nat
      BY <1>1
    <2>4. Place(w) = D + 1 + ((a + 1) * W + b)
      BY <1>1, <2>2, <2>3
    <2>5. HeadOfIndexBlock(Place(w)) <=> b = 0
      BY <1>2, <2>3, <2>4
    <2> QED
      BY <2>2, <2>5
  <1>6. CASE IsTriple(w)
    <2>1. PICK a, b, c \in Slots : w = Way(D + 3, <<a, b, c>>)
      BY <1>6 DEF IsTriple
    <2>2. /\ w.slots = <<a, b, c>>
          /\ Place(w) = D + W + W * W + 1 + (a * (W * W) + (b * W + c))
      BY <1>1, <2>1, WayFields, PlaceOf
    <2>3. PICK n : n = a * W + b + W + 1
      OBVIOUS
    <2>4. a \in Nat /\ b \in Nat /\ a * W \in Nat
      BY <1>1
    <2>5. /\ n \in Nat /\ a * (W * W) \in Nat /\ b * W \in Nat
          /\ n * W = a * (W * W) + b * W + W * W + W
      <3>1. a * (W * W) = (a * W) * W
        BY <1>1, <2>4
      <3>2. ASSUME NEW x \in Nat PROVE (x + b + W + 1) * W = x * W + b * W + W * W + W
        BY <1>1, <2>4
      <3> QED
        BY <1>1, <2>3, <2>4, <3>1, <3>2
    <2>6. Place(w) = D + 1 + (n * W + c)
      BY <1>1, <2>2, <2>5
    <2>7. HeadOfIndexBlock(Place(w)) <=> c = 0
      BY <1>2, <2>5, <2>6
    <2> QED
      BY <2>2, <2>7
  <1> QED
    BY <1>3, <1>4, <1>5, <1>6 DEF IsWay

\* Index blocks are made for a block exactly if it is the first below one;
\* the lowest of them is among these.
LEMMA MadeIffHead ==
    ASSUME NEW offset, Mapped(offset),
           NEW w, w = calculateOffset(offset)
    PROVE  /\ HeadOfIndexBlock(offset \div BLOCK_SIZE) =>
                 /\ w.slots # << >> /\ w.slots[Len(w.slots)] = 0
                 /\ <<w.number, SubSeq(w.slots, 1, Len(w.slots) - 1)>> \in MadeFor(offset)
           /\ ~HeadOfIndexBlock(offset \div BLOCK_SIZE) => MadeFor(offset) = {}
  <1>1. IsWay(w) /\ Place(w) = offset \div BLOCK_SIZE
    BY WaysAreSound
  <1>2. MadeFor(offset) = {<<w.number, SubSeq(w.slots, 1, c - 1)>> :
                              c \in firstOnlyForThis(w.slots)..Len(w.slots)}
    BY DEF MadeFor
  <1>3. CASE w.slots = << >>
    <2>1. firstOnlyForThis(w.slots) = 1
      BY <1>3 DEF firstOnlyForThis
    <2>2. Len(w.slots) = 0
      BY <1>3
    <2> QED
      BY <1>1, <1>2, <1>3, <2>1, <2>2, LastSlot
  <1>4. CASE w.slots # << >>
    <2>1. w.slots \in Seq(Nat) /\ Len(w.slots) \in 1..3
      <3>1. w.slots \in Seq(Nat) /\ Len(w.slots) \in 0..3
        BY <1>1, WaySlots
      <3> QED
        BY <1>4, <3>1
    <2>2. PICK l \in 1..3 : l = Len(w.slots)
      BY <2>1
    <2>3. \A c \in 1..l : c >= firstOnlyForThis(w.slots)
                             <=> \A j \in c..l : w.slots[j] = 0
      BY <2>1, <2>2, FirstOnly
    <2>4. firstOnlyForThis(w.slots) \in 1..(l + 1)
      <3>1. 1 \in 1..l
        OBVIOUS
      <3> QED
        BY <2>1, <2>2, <3>1, FirstOnly
    <2>5. l >= firstOnlyForThis(w.slots) <=> w.slots[l] = 0
      BY <2>3
    <2> QED
      BY <1>1, <1>2, <1>4, <2>2, <2>4, <2>5, LastSlot
  <1> QED
    BY <1>3, <1>4

\* The slots above the c-th.
LEMMA Prefix ==
    ASSUME NEW slots \in Seq(Nat), NEW l \in Nat, l = Len(slots), NEW c \in 1..l
    PROVE  /\ Len(SubSeq(slots, 1, c - 1)) = c - 1
           /\ \A j \in 1..(c - 1) : SubSeq(slots, 1, c - 1)[j] = slots[j]
  <1>1. c - 1 \in 0..l /\ 1..(c - 1) \subseteq 1..l
    OBVIOUS
  <1> QED
    BY <1>1

\* A way is known by its number and slots.
LEMMA SameWay ==
    ASSUME NEW v, IsWay(v), NEW w, IsWay(w), v.number = w.number,
           v.slots # << >>, w.slots # << >>,
           v.slots[Len(v.slots)] = 0, w.slots[Len(w.slots)] = 0
    PROVE  /\ Len(v.slots) = Len(w.slots)
           /\ (\A j \in 1..(Len(w.slots) - 1) : v.slots[j] = w.slots[j]) => v = w
  <1>1. CASE IsDirect(w)
    BY <1>1, WayFields DEF IsDirect
  <1>2. CASE IsSingle(w)
    <2>1. PICK a \in Slots : w = Way(D + 1, <<a>>)
      BY <1>2 DEF IsSingle
    <2>2. PICK e \in Slots : v = Way(D + 1, <<e>>)
      <3>1. v.number = D + 1
        BY <2>1, WayFields
      <3>2. IsSingle(v)
        BY <3>1, WayByNumber
      <3> QED
        BY <3>2 DEF IsSingle
    <2>3. w.slots = <<a>> /\ v.slots = <<e>>
      BY <2>1, <2>2, WayFields
    <2>4. a = 0 /\ e = 0
      BY <2>3
    <2> QED
      BY <2>1, <2>2, <2>3, <2>4
  <1>3. CASE IsDouble(w)
    <2>1. PICK a, b \in Slots : w = Way(D + 2, <<a, b>>)
      BY <1>3 DEF IsDouble
    <2>2. PICK e, f \in Slots : v = Way(D + 2, <<e, f>>)
      <3>1. v.number = D + 2
        BY <2>1, WayFields
      <3>2. IsDouble(v)
        BY <3>1, WayByNumber
      <3> QED
        BY <3>2 DEF IsDouble
    <2>3. w.slots = <<a, b>> /\ v.slots = <<e, f>>
      BY <2>1, <2>2, WayFields
    <2>4. b = 0 /\ f = 0 /\ Len(w.slots) = 2 /\ Len(v.slots) = 2
      BY <2>3
    <2>5. ASSUME \A j \in 1..(Len(w.slots) - 1) : v.slots[j] = w.slots[j] PROVE e = a
      BY <2>3, <2>4, <2>5
    <2> QED
      BY <2>1, <2>2, <2>4, <2>5
  <1>4. CASE IsTriple(w)
    <2>1. PICK a, b, c \in Slots : w = Way(D + 3, <<a, b, c>>)
      BY <1>4 DEF IsTriple
    <2>2. PICK e, f, g \in Slots : v = Way(D + 3, <<e, f, g>>)
      <3>1. v.number = D + 3
        BY <2>1, WayFields
      <3>2. IsTriple(v)
        BY <3>1, WayByNumber
      <3> QED
        BY <3>2 DEF IsTriple
    <2>3. w.slots = <<a, b, c>> /\ v.slots = <<e, f, g>>
      BY <2>1, <2>2, WayFields
    <2>4. c = 0 /\ g = 0 /\ Len(w.slots) = 3 /\ Len(v.slots) = 3
      BY <2>3
    <2>5. ASSUME \A j \in 1..(Len(w.slots) - 1) : v.slots[j] = w.slots[j]
          PROVE  e = a /\ f = b
      BY <2>3, <2>4, <2>5
    <2> QED
      BY <2>1, <2>2, <2>4, <2>5
  <1> QED
    BY <1>1, <1>2, <1>3, <1>4 DEF IsWay

\* freeDataBlockInINode looks at the way to the size, and the block it takes
\* off is at the last byte.  For every size of a file the index blocks it
\* frees are those made for that block, except when the size is at the head of
\* a block and that block, or the one taken off, is the first below an index
\* block: then they never are.
THEOREM WhenShrinkingGoesAstray ==
    ASSUME NEW s, Mapped(s), s > 0
    PROVE  MadeFor(s) # MadeFor(s - 1)
              <=> /\ s % BLOCK_SIZE = 0
                  /\ \/ HeadOfIndexBlock(s \div BLOCK_SIZE)
                     \/ HeadOfIndexBlock(s \div BLOCK_SIZE - 1)
  <1>1. PICK q : q = s \div BLOCK_SIZE
    OBVIOUS
  <1>2. PICK p : p = (s - 1) \div BLOCK_SIZE
    OBVIOUS
  <1>3. s \in Nat /\ s - 1 \in Nat /\ BLOCK_SIZE \in Nat /\ BLOCK_SIZE > 0
    BY SizeFacts DEF Mapped
  <1>4. /\ q \in Nat /\ q * BLOCK_SIZE \in Nat
        /\ q * BLOCK_SIZE <= s /\ s < q * BLOCK_SIZE + BLOCK_SIZE
    BY <1>1, <1>3, Division
  <1>5. /\ p \in Nat /\ p * BLOCK_SIZE \in Nat
        /\ p * BLOCK_SIZE <= s - 1 /\ s - 1 < p * BLOCK_SIZE + BLOCK_SIZE
    BY <1>2, <1>3, Division
  <1>6. p <= q
    <2>1. q < p => q * BLOCK_SIZE + BLOCK_SIZE <= p * BLOCK_SIZE
      BY <1>3, <1>4, <1>5, Multiples
    <2> QED
      BY <1>3, <1>4, <1>5, <2>1
  <1>7. Mapped(s - 1)
    <2>1. TRIPLE_INDIRECT_LIMIT \in Nat /\ q <= TRIPLE_INDIRECT_LIMIT
      BY <1>1, SizeFacts DEF Mapped
    <2> QED
      BY <1>2, <1>3, <1>4, <1>5, <1>6, <2>1 DEF Mapped
  <1>8. CASE s % BLOCK_SIZE # 0
    <2>1. s # q * BLOCK_SIZE
      BY <1>1, <1>3, <1>4, <1>8
    <2>2. p < q => p * BLOCK_SIZE + BLOCK_SIZE <= q * BLOCK_SIZE
      BY <1>3, <1>4, <1>5, Multiples
    <2>3. p = q
      BY <1>3, <1>4, <1>5, <1>6, <2>1, <2>2
    <2>4. calculateOffset(s) = calculateOffset(s - 1)
      BY <1>1, <1>2, <2>3 DEF calculateOffset
    <2>5. MadeFor(s) = MadeFor(s - 1)
      BY <2>4 DEF MadeFor
    <2> QED
      BY <1>8, <2>5
  <1>9. CASE s % BLOCK_SIZE = 0
    <2>1. s = q * BLOCK_SIZE
      BY <1>1, <1>3, <1>4, <1>9
    <2>2. p = q - 1
      <3>1. q > 0
        BY <1>3, <1>4, <2>1, Multiples
      <3>2. q - 1 \in Nat /\ (q - 1) * BLOCK_SIZE = q * BLOCK_SIZE - BLOCK_SIZE
        BY <1>3, <1>4, <3>1
      <3>3. p < q - 1 => p * BLOCK_SIZE + BLOCK_SIZE <= (q - 1) * BLOCK_SIZE
        BY <1>3, <1>5, <3>2, Multiples
      <3>4. p # q
        BY <1>3, <1>4, <1>5, <2>1
      <3> QED
        BY <1>3, <1>4, <1>5, <1>6, <2>1, <3>2, <3>3, <3>4
    <2>3. PICK w : w = calculateOffset(s)
      OBVIOUS
    <2>4. PICK v : v = calculateOffset(s - 1)
      OBVIOUS
    <2>5. IsWay(w) /\ IsWay(v) /\ Place(w) = q /\ Place(v) = p
      BY <1>1, <1>2, <1>7, <2>3, <2>4, WaysAreSound
    <2>6. v # w
      BY <1>4, <2>2, <2>5
    <2>7. ASSUME HeadOfIndexBlock(q), HeadOfIndexBlock(p), MadeFor(s) = MadeFor(s - 1)
          PROVE  FALSE
      <3>1. /\ w.slots # << >> /\ w.slots[Len(w.slots)] = 0
            /\ <<w.number, SubSeq(w.slots, 1, Len(w.slots) - 1)>> \in MadeFor(s)
        BY <1>1, <2>3, <2>7, MadeIffHead
      <3>2. v.slots # << >> /\ v.slots[Len(v.slots)] = 0
        BY <1>2, <1>7, <2>4, <2>7, MadeIffHead
      <3>3. PICK c \in firstOnlyForThis(v.slots)..Len(v.slots) :
               <<w.number, SubSeq(w.slots, 1, Len(w.slots) - 1)>> =
                  <<v.number, SubSeq(v.slots, 1, c - 1)>>
        BY <2>4, <2>7, <3>1 DEF MadeFor
      <3>4. v.number = w.number /\ SubSeq(w.slots, 1, Len(w.slots) - 1) = SubSeq(v.slots, 1, c - 1)
        BY <3>3
      <3>5. /\ v.slots \in Seq(Nat) /\ w.slots \in Seq(Nat)
            /\ Len(v.slots) \in 1..3 /\ Len(w.slots) \in 1..3
        <4>1. /\ v.slots \in Seq(Nat) /\ w.slots \in Seq(Nat)
              /\ Len(v.slots) \in 0..3 /\ Len(w.slots) \in 0..3
          BY <2>5, WaySlots
        <4> QED
          BY <3>1, <3>2, <4>1
      <3>6. firstOnlyForThis(v.slots) \in 1..(Len(v.slots) + 1)
        <4>1. 1 \in 1..Len(v.slots)
          BY <3>5
        <4> QED
          BY <3>5, <4>1, FirstOnly
      <3>7. c \in 1..Len(v.slots)
        BY <3>5, <3>6
      <3>8. c = Len(w.slots)
        <4>1. Len(SubSeq(w.slots, 1, Len(w.slots) - 1)) = Len(w.slots) - 1
          BY <3>5, Prefix
        <4>2. Len(SubSeq(v.slots, 1, c - 1)) = c - 1
          BY <3>5, <3>7, Prefix
        <4>3. Len(w.slots) - 1 = c - 1
          BY <3>4, <4>1, <4>2
        <4> QED
          BY <3>5, <3>7, <4>3
      <3>9. Len(v.slots) = Len(w.slots)
        BY <2>5, <3>1, <3>2, <3>4, SameWay
      <3>10. ASSUME NEW j \in 1..(Len(w.slots) - 1) PROVE v.slots[j] = w.slots[j]
        <4>1. SubSeq(w.slots, 1, Len(w.slots) - 1)[j] = w.slots[j]
          BY <3>5, Prefix
        <4>2. SubSeq(v.slots, 1, c - 1)[j] = v.slots[j]
          BY <3>5, <3>7, <3>8, Prefix
        <4> QED
          BY <3>4, <4>1, <4>2
      <3> QED
        BY <2>5, <2>6, <3>1, <3>2, <3>4, <3>10, SameWay
    <2>8. HeadOfIndexBlock(q) => MadeFor(s) # {}
      BY <1>1, MadeIffHead
    <2>9. HeadOfIndexBlock(p) => MadeFor(s - 1) # {}
      BY <1>2, <1>7, MadeIffHead
    <2>10. ~HeadOfIndexBlock(q) => MadeFor(s) = {}
      BY <1>1, MadeIffHead
    <2>11. ~HeadOfIndexBlock(p) => MadeFor(s - 1) = {}
      BY <1>2, <1>7, MadeIffHead
    <2>12. MadeFor(s) # MadeFor(s - 1) <=> HeadOfIndexBlock(q) \/ HeadOfIndexBlock(p)
      BY <2>7, <2>8, <2>9, <2>10, <2>11
    <2> QED
      BY <1>1, <1>9, <2>2, <2>12
  <1> QED
    BY <1>8, <1>9
=============================================================================
