-------------------------- MODULE INodeCacheProofs --------------------------
(***************************************************************************)
(* The cache of inodes hands out the latest version of every inode, writes *)
(* it back before it forgets it, and loses no buffer, for every number of  *)
(* buffers, handles and inodes.                                            *)
(***************************************************************************)
EXTENDS INodeCache, FiniteSetTheorems, FunctionTheorems, SequenceTheorems, TLAPS

\* The handles that refer to a buffer.
Holders(b) == {h \in Handles : held[h].buffer = b}

\* A buffer that hashLookup can find.
Cached(b) == b \in ToSet(hashQ[getHash(node[b].ino)])

Content(n) == [links |-> n.links, ver |-> n.ver]

\* A buffer that nobody has changed agrees with the disk while someone refers
\* to it, and afterwards for as long as iget trusts it.
Clean ==
    \A b \in Buffers :
        /\ node[b].ref = 0 => ~node[b].changed
        /\ Cached(b) /\ ~node[b].changed /\ (node[b].ref > 0 \/ node[b].links # 0) =>
              disk[node[b].ino].used /\ Content(node[b]) = Content(disk[node[b].ino])

\* The link count of an inode is the number of its names, and one more for a
\* directory; the root has no name and its count stays 0.
LinksCount ==
    /\ \A i \in INodes \ {ROOT} : disk[i].used =>
          latest[i].links = names[i] + (IF i \in dirs THEN 1 ELSE 0)
    /\ disk[ROOT].used /\ disk[ROOT].links = 0 /\ latest[ROOT].links = 0

\* The inductive invariant.
Inv ==
    /\ TypeOK /\ FreeListExact /\ OneCopy /\ HoldersSeeLatest /\ WrittenBack
    /\ FreedWhenUnreachable /\ Clean /\ LinksCount

-----------------------------------------------------------------------------
(* Sequences without repetition.                                           *)

\* The elements of a sequence, by position.
LEMMA InSeq ==
    ASSUME NEW S, NEW s \in Seq(S)
    PROVE  /\ Len(s) \in Nat /\ DOMAIN s = 1..Len(s)
           /\ \A k \in 1..Len(s) : s[k] \in ToSet(s) /\ s[k] \in S
           /\ \A x \in ToSet(s) : \E k \in 1..Len(s) : s[k] = x
           /\ ToSet(s) \subseteq S
  BY DEF ToSet

\* What is left of a sequence without one of its elements.
LEMMA RemoveFacts ==
    ASSUME NEW S, NEW s \in Seq(S), IsInjective(s), NEW b
    PROVE  /\ RemoveFirst(s, b) \in Seq(S)
           /\ IsInjective(RemoveFirst(s, b))
           /\ ToSet(RemoveFirst(s, b)) = ToSet(s) \ {b}
  <1>0. Len(s) \in Nat /\ DOMAIN s = 1..Len(s)
    BY InSeq
  <1>1. CASE ~\E i \in 1..Len(s) : s[i] = b
    <2>1. RemoveFirst(s, b) = s
      BY <1>1 DEF RemoveFirst
    <2>2. b \notin ToSet(s)
      BY <1>1, InSeq
    <2> QED
      BY <2>1, <2>2
  <1>2. ASSUME NEW p \in 1..Len(s), s[p] = b
        PROVE  /\ RemoveFirst(s, b) \in Seq(S)
               /\ IsInjective(RemoveFirst(s, b))
               /\ ToSet(RemoveFirst(s, b)) = ToSet(s) \ {b}
    <2> DEFINE I == {i \in 1..Len(s) : s[i] = b}
               t == RemoveFirst(s, b)
               n == Len(s) - 1
    <2>1. I = {p}
      BY <1>0, <1>2 DEF IsInjective
    <2>2. Min(I) = p
      <3>1. p \in Int /\ p <= p
        OBVIOUS
      <3> HIDE DEF I
      <3> QED
        BY <2>1, <3>1 DEF Min
    <2>3. t = SubSeq(s, 1, p - 1) \o SubSeq(s, p + 1, Len(s))
      BY <1>2, <2>1, <2>2 DEF RemoveFirst, RemoveAt, SelectInSeq
    <2>4. /\ t \in Seq(S) /\ Len(t) = n /\ n \in Nat
          /\ \A k \in 1..n : t[k] = IF k < p THEN s[k] ELSE s[k + 1]
      <3>1. SubSeq(s, 1, p - 1) \in Seq(S) /\ Len(SubSeq(s, 1, p - 1)) = p - 1
            /\ \A k \in 1..(p - 1) : SubSeq(s, 1, p - 1)[k] = s[k]
        BY <1>0, SubSeqProperties
      <3>2. SubSeq(s, p + 1, Len(s)) \in Seq(S) /\ Len(SubSeq(s, p + 1, Len(s))) = Len(s) - p
            /\ \A k \in 1..(Len(s) - p) : SubSeq(s, p + 1, Len(s))[k] = s[p + k]
        <4>1. \A k \in (p + 1)..Len(s) : s[k] \in S
          BY <1>0, InSeq
        <4>2. /\ SubSeq(s, p + 1, Len(s)) \in Seq(S)
              /\ Len(SubSeq(s, p + 1, Len(s))) =
                    IF p + 1 <= Len(s) THEN Len(s) - (p + 1) + 1 ELSE 0
              /\ \A k \in 1..(Len(s) - (p + 1) + 1) :
                    SubSeq(s, p + 1, Len(s))[k] = s[(p + 1) + k - 1]
          BY <4>1, <1>0, SubSeqProperties
        <4>3. /\ (IF p + 1 <= Len(s) THEN Len(s) - (p + 1) + 1 ELSE 0) = Len(s) - p
              /\ Len(s) - (p + 1) + 1 = Len(s) - p
          <5>1. p \in Int /\ Len(s) \in Int /\ p <= Len(s)
            BY <1>0
          <5>2. CASE p = Len(s)
            BY <5>1, <5>2
          <5>3. CASE p + 1 <= Len(s)
            BY <5>1, <5>3
          <5> QED
            BY <5>1, <5>2, <5>3
        <4>4. \A k \in 1..(Len(s) - p) : (p + 1) + k - 1 = p + k
          BY <1>0
        <4> QED
          BY <4>2, <4>3, <4>4
      <3> DEFINE u == SubSeq(s, 1, p - 1)
                 v == SubSeq(s, p + 1, Len(s))
      <3> HIDE DEF t, u, v
      <3>3. t = u \o v /\ u \in Seq(S) /\ v \in Seq(S) /\ Len(u) = p - 1 /\ Len(v) = Len(s) - p
            /\ (\A k \in 1..(p - 1) : u[k] = s[k])
            /\ (\A k \in 1..(Len(s) - p) : v[k] = s[p + k])
        BY <2>3, <3>1, <3>2 DEF u, v
      <3>4. t \in Seq(S) /\ Len(t) = Len(u) + Len(v)
            /\ \A k \in 1..(Len(u) + Len(v)) : t[k] = IF k <= Len(u) THEN u[k] ELSE v[k - Len(u)]
        BY <3>3, ConcatProperties
      <3>5. ASSUME NEW k \in 1..n
            PROVE  t[k] = IF k < p THEN s[k] ELSE s[k + 1]
        <4>1. CASE k < p
          BY <4>1, <3>3, <3>4, <1>0
        <4>2. CASE ~(k < p)
          <5>1. k - (p - 1) \in 1..(Len(s) - p) /\ p + (k - (p - 1)) = k + 1 /\ ~(k <= p - 1)
            BY <4>2, <1>0
          <5>2. t[k] = v[k - (p - 1)]
            BY <5>1, <3>3, <3>4, <1>0
          <5> QED
            BY <4>2, <5>1, <5>2, <3>3
        <4> QED
          BY <4>1, <4>2
      <3> QED
        BY <3>3, <3>4, <3>5, <1>0
    <2> HIDE DEF t, n
    <2>n. n = Len(s) - 1 /\ p \in 1..(n + 1)
      BY <1>0 DEF n
    <2>d. DOMAIN t = 1..n
      BY <2>4
    <2>5. IsInjective(t)
      <3> SUFFICES ASSUME NEW j \in 1..n, NEW k \in 1..n, t[j] = t[k]
                   PROVE  j = k
        BY <2>d DEF IsInjective
      <3>1. \A x, y \in 1..Len(s) : s[x] = s[y] => x = y
        BY <1>0 DEF IsInjective
      <3> QED
        BY <3>1, <2>4, <2>n
    <2>6. ToSet(t) = ToSet(s) \ {b}
      <3>1. ASSUME NEW k \in 1..n
            PROVE  t[k] \in ToSet(s) /\ t[k] # b
        <4>1. \A x \in 1..Len(s) : s[x] \in ToSet(s) /\ (s[x] = b => x = p)
          BY <1>0, <1>2, InSeq DEF IsInjective
        <4> QED
          BY <4>1, <2>4, <2>n
      <3>2. ASSUME NEW x \in ToSet(s), x # b
            PROVE  x \in ToSet(t)
        <4>1. PICK m \in 1..Len(s) : s[m] = x
          BY InSeq
        <4>2. m # p
          BY <4>1, <3>2, <1>2
        <4>3. CASE m < p
          BY <4>3, <4>1, <2>4, <2>n, <2>d DEF ToSet
        <4>4. CASE m > p
          <5>1. m - 1 \in 1..n /\ ~(m - 1 < p) /\ (m - 1) + 1 = m
            BY <4>4, <2>n
          <5> QED
            BY <5>1, <4>1, <2>4, <2>d DEF ToSet
        <4> QED
          BY <4>2, <4>3, <4>4
      <3>3. ToSet(t) = {t[k] : k \in 1..n}
        BY <2>d DEF ToSet
      <3> QED
        BY <3>1, <3>2, <3>3
    <2> QED
      BY <2>4, <2>5, <2>6 DEF t
  <1> QED
    BY <1>1, <1>2

\* A sequence with one more element behind it.
LEMMA AppendFacts ==
    ASSUME NEW S, NEW s \in Seq(S), IsInjective(s), NEW b \in S, b \notin ToSet(s)
    PROVE  /\ Append(s, b) \in Seq(S)
           /\ IsInjective(Append(s, b))
           /\ ToSet(Append(s, b)) = ToSet(s) \union {b}
  <1> DEFINE t == Append(s, b)
  <1>0. /\ Len(s) \in Nat /\ DOMAIN s = 1..Len(s) /\ \A k \in 1..Len(s) : s[k] # b
        /\ \A x, y \in 1..Len(s) : s[x] = s[y] => x = y
        /\ ToSet(s) = {s[k] : k \in 1..Len(s)}
    BY InSeq DEF IsInjective, ToSet
  <1>1. /\ t \in Seq(S) /\ DOMAIN t = 1..(Len(s) + 1) /\ t[Len(s) + 1] = b
        /\ \A k \in 1..Len(s) : t[k] = s[k]
    OBVIOUS
  <1> HIDE DEF t
  <1>2. IsInjective(t)
    BY <1>0, <1>1 DEF IsInjective
  <1>3. ToSet(t) = ToSet(s) \union {b}
    <2>1. ToSet(t) = {t[k] : k \in 1..(Len(s) + 1)}
      BY <1>1 DEF ToSet
    <2>2. ASSUME NEW k \in 1..(Len(s) + 1)
          PROVE  t[k] \in ToSet(s) \union {b}
      BY <1>0, <1>1
    <2>3. ASSUME NEW x \in ToSet(s) \union {b}
          PROVE  \E k \in 1..(Len(s) + 1) : t[k] = x
      BY <1>0, <1>1
    <2> QED
      BY <2>1, <2>2, <2>3
  <1> QED
    BY <1>1, <1>2, <1>3 DEF t

\* A sequence with one more element before it.
LEMMA ConsFacts ==
    ASSUME NEW S, NEW s \in Seq(S), IsInjective(s), NEW b \in S, b \notin ToSet(s)
    PROVE  /\ <<b>> \o s \in Seq(S)
           /\ IsInjective(<<b>> \o s)
           /\ ToSet(<<b>> \o s) = ToSet(s) \union {b}
  <1> DEFINE t == <<b>> \o s
  <1>0. /\ Len(s) \in Nat /\ DOMAIN s = 1..Len(s) /\ \A k \in 1..Len(s) : s[k] # b
        /\ \A x, y \in 1..Len(s) : s[x] = s[y] => x = y
        /\ ToSet(s) = {s[k] : k \in 1..Len(s)}
    BY InSeq DEF IsInjective, ToSet
  <1>1. /\ t \in Seq(S) /\ DOMAIN t = 1..(Len(s) + 1) /\ t[1] = b
        /\ \A k \in 2..(Len(s) + 1) : t[k] = s[k - 1]
    OBVIOUS
  <1> HIDE DEF t
  <1>2. IsInjective(t)
    BY <1>0, <1>1 DEF IsInjective
  <1>3. ToSet(t) = ToSet(s) \union {b}
    <2>1. ToSet(t) = {t[k] : k \in 1..(Len(s) + 1)}
      BY <1>1 DEF ToSet
    <2>2. ASSUME NEW k \in 1..(Len(s) + 1)
          PROVE  t[k] \in ToSet(s) \union {b}
      <3>1. CASE k = 1
        BY <3>1, <1>1
      <3>2. CASE k # 1
        <4>1. k \in 2..(Len(s) + 1) /\ k - 1 \in 1..Len(s)
          BY <3>2, <1>0
        <4> QED
          BY <4>1, <1>0, <1>1
      <3> QED
        BY <3>1, <3>2
    <2>3. ASSUME NEW x \in ToSet(s)
          PROVE  \E k \in 1..(Len(s) + 1) : t[k] = x
      <3>1. PICK m \in 1..Len(s) : s[m] = x
        BY <1>0
      <3>2. m + 1 \in 1..(Len(s) + 1) /\ t[m + 1] = s[m]
        BY <1>0, <1>1
      <3> QED
        BY <3>1, <3>2
    <2>4. 1 \in 1..(Len(s) + 1) /\ t[1] = b
      BY <1>0, <1>1
    <2> QED
      BY <2>1, <2>2, <2>3, <2>4
  <1> QED
    BY <1>1, <1>2, <1>3 DEF t

\* The first element of a sequence and the others.
LEMMA TailFacts ==
    ASSUME NEW S, NEW s \in Seq(S), IsInjective(s), s # << >>
    PROVE  /\ Head(s) \in ToSet(s) /\ Head(s) \in S
           /\ Tail(s) \in Seq(S)
           /\ IsInjective(Tail(s))
           /\ ToSet(Tail(s)) = ToSet(s) \ {Head(s)}
  <1> DEFINE t == Tail(s)
  <1>0. /\ Len(s) \in Nat /\ Len(s) >= 1 /\ DOMAIN s = 1..Len(s) /\ Head(s) = s[1]
        /\ \A x, y \in 1..Len(s) : s[x] = s[y] => x = y
        /\ ToSet(s) = {s[k] : k \in 1..Len(s)}
    BY InSeq, EmptySeq DEF IsInjective, ToSet
  <1>1. /\ t \in Seq(S) /\ DOMAIN t = 1..(Len(s) - 1)
        /\ \A k \in 1..(Len(s) - 1) : t[k] = s[k + 1]
    BY <1>0
  <1> HIDE DEF t
  <1>2. IsInjective(t)
    BY <1>0, <1>1 DEF IsInjective
  <1>3. ToSet(t) = ToSet(s) \ {s[1]}
    <2>1. ToSet(t) = {t[k] : k \in 1..(Len(s) - 1)}
      BY <1>1 DEF ToSet
    <2>2. ASSUME NEW k \in 1..(Len(s) - 1)
          PROVE  t[k] \in ToSet(s) \ {s[1]}
      BY <1>0, <1>1
    <2>3. ASSUME NEW x \in ToSet(s) \ {s[1]}
          PROVE  \E k \in 1..(Len(s) - 1) : t[k] = x
      <3>1. PICK m \in 1..Len(s) : s[m] = x
        BY <1>0
      <3>2. m # 1
        BY <3>1
      <3>3. m - 1 \in 1..(Len(s) - 1) /\ t[m - 1] = s[m]
        BY <3>2, <1>0, <1>1
      <3> QED
        BY <3>1, <3>3
    <2> QED
      BY <2>1, <2>2, <2>3
  <1> QED
    BY <1>0, <1>1, <1>2, <1>3 DEF t

-----------------------------------------------------------------------------
(* What the invariant says of a buffer.                                    *)

\* An in-core inode whose reference count is any number.
AnyNode == [ino : INodes, ref : Nat, links : 0..3, ver : 0..MaxVersion, changed : BOOLEAN]

\* The numbers of the root and of the buffers' reference counts.
LEMMA Numbers ==
    /\ ROOT \in INodes /\ INodes \subseteq Int
    /\ Cardinality(Handles) \in Nat
    /\ 0 \in 0..MaxVersion
  BY CacheAssumption, FS_CardinalityType

\* Every inode has a queue.
LEMMA HashType ==
    ASSUME NEW i \in INodes
    PROVE  getHash(i) \in Queues
  <1>1. CASE i <= 16
    <2> DEFINE a == 2^(6 + i)
               b == 2^(16 - i)
    <2>1. i \in Int /\ a \in Int /\ b \in Int
      BY <1>1, Numbers
    <2> HIDE DEF a, b
    <2>2. i * a * b \in Int
      BY <2>1
    <2>3. (i * a * b) % 8 \in 0..7
      BY <2>2
    <2> QED
      BY <1>1, <2>3 DEF getHash, INODE_HASH_SIZE, Queues, a, b
  <1>2. CASE ~(i <= 16)
    <2>1. i > 16
      BY <1>2, Numbers
    <2> QED
      BY <1>2, <2>1, CacheAssumption DEF getHash
  <1> QED
    BY <1>1, <1>2

\* The types, buffer by buffer.
LEMMA Types ==
    ASSUME TypeOK
    PROVE  /\ node \in [Buffers -> AnyNode]
           /\ \A b \in Buffers : node[b].ref \in 0..Cardinality(Handles)
           /\ hashQ \in [Queues -> Seq(Buffers)] /\ DOMAIN hashQ = Queues
           /\ \A b \in Buffers : getHash(node[b].ino) \in Queues
           /\ \A q \in Queues : hashQ[q] \in Seq(Buffers) /\ ToSet(hashQ[q]) \subseteq Buffers
  <1>1. /\ node \in [Buffers -> AnyNode]
        /\ \A b \in Buffers : node[b].ref \in 0..Cardinality(Handles)
    BY Numbers DEF TypeOK, AnyNode
  <1>2. hashQ \in [Queues -> Seq(Buffers)] /\ DOMAIN hashQ = Queues
    BY DEF TypeOK, Queues
  <1>3. \A b \in Buffers : getHash(node[b].ino) \in Queues
    BY <1>1, HashType DEF AnyNode
  <1> QED
    BY <1>1, <1>2, <1>3, InSeq

\* The reference count of a buffer is 0 when no handle refers to it.
LEMMA HolderFacts ==
    ASSUME TypeOK, FreeListExact, OneCopy, HoldersSeeLatest
    PROVE  /\ \A b \in Buffers : /\ IsFiniteSet(Holders(b))
                                 /\ node[b].ref = Cardinality(Holders(b))
                                 /\ node[b].ref = 0 <=> Holders(b) = {}
                                 /\ node[b].ref > 0 => Cached(b)
           /\ \A h \in Handles : Refers(h) =>
                 /\ held[h].buffer \in Buffers
                 /\ node[held[h].buffer].ref > 0
                 /\ node[held[h].buffer].ino = held[h].ino
                 /\ Cached(held[h].buffer)
                 /\ Content(node[held[h].buffer]) = latest[held[h].ino]
  <1>1. ASSUME NEW b \in Buffers
        PROVE  /\ IsFiniteSet(Holders(b))
               /\ node[b].ref = Cardinality(Holders(b))
               /\ node[b].ref = 0 <=> Holders(b) = {}
               /\ node[b].ref > 0 => Cached(b)
    <2>1. IsFiniteSet(Holders(b))
      BY CacheAssumption, FS_Subset DEF Holders
    <2>2. node[b].ref = Cardinality(Holders(b))
      BY DEF FreeListExact, Holders
    <2>3. Cardinality(Holders(b)) = 0 <=> Holders(b) = {}
      BY <2>1, FS_EmptySet
    <2>4. node[b].ref > 0 => Cached(b)
      BY DEF OneCopy, Cached
    <2> QED
      BY <2>1, <2>2, <2>3, <2>4
  <1>2. ASSUME NEW h \in Handles, Refers(h)
        PROVE  /\ held[h].buffer \in Buffers
               /\ node[held[h].buffer].ref > 0
               /\ node[held[h].buffer].ino = held[h].ino
               /\ Cached(held[h].buffer)
               /\ Content(node[held[h].buffer]) = latest[held[h].ino]
    <2>1. held[h].buffer \in Buffers
      BY <1>2 DEF TypeOK, Refers
    <2>2. h \in Holders(held[h].buffer)
      BY DEF Holders
    <2>3. node[held[h].buffer].ref # 0 /\ node[held[h].buffer].ref \in Nat
      BY <2>1, <2>2, <1>1, Types DEF AnyNode
    <2>4. node[held[h].buffer].ref > 0
      BY <2>3
    <2>5. node[held[h].buffer].ino = held[h].ino
          /\ Content(node[held[h].buffer]) = latest[held[h].ino]
      BY <1>2 DEF HoldersSeeLatest, Content
    <2> QED
      BY <2>1, <2>4, <2>5, <1>1
  <1> QED
    BY <1>1, <1>2

\* Two buffers that hashLookup can find cache different inodes.
LEMMA CachedUnique ==
    ASSUME TypeOK, OneCopy, NEW b \in Buffers, NEW c \in Buffers, Cached(b), Cached(c),
           node[b].ino = node[c].ino
    PROVE  b = c
  BY Types DEF OneCopy, Cached

\* hashLookup finds the buffer that caches an inode, and only that.
LEMMA LookupFacts ==
    ASSUME TypeOK, OneCopy, NEW i \in INodes
    PROVE  /\ hashLookup(i) # None => /\ hashLookup(i) \in Buffers
                                      /\ Cached(hashLookup(i))
                                      /\ node[hashLookup(i)].ino = i
           /\ \A b \in Buffers : Cached(b) /\ node[b].ino = i => hashLookup(i) = b
  <1> DEFINE queue   == hashQ[getHash(i)]
             matches == {k \in DOMAIN queue : node[queue[k]].ino = i}
  <1>1. /\ getHash(i) \in Queues /\ queue \in Seq(Buffers) /\ DOMAIN queue = 1..Len(queue)
        /\ Len(queue) \in Nat /\ \A k \in DOMAIN queue : queue[k] \in ToSet(queue) /\ queue[k] \in Buffers
        /\ \A x \in ToSet(queue) : \E k \in DOMAIN queue : queue[k] = x
    BY HashType, Types, InSeq
  <1>2. /\ \A j, k \in DOMAIN queue : queue[j] = queue[k] => j = k
        /\ \A b, c \in ToSet(queue) : node[b].ino = node[c].ino => b = c
    BY <1>1, Types DEF OneCopy, IsInjective
  <1>3. hashLookup(i) = IF matches = {} THEN None ELSE queue[Min(matches)]
    BY DEF hashLookup
  <1> HIDE DEF queue
  <1>4. \A j, k \in matches : j = k
    BY <1>1, <1>2
  <1>5. ASSUME NEW k \in matches
        PROVE  hashLookup(i) = queue[k]
    <2>1. matches = {k} /\ k \in Int
      BY <1>1, <1>4
    <2>2. Min(matches) = k
      <3> HIDE DEF matches
      <3> QED
        BY <2>1 DEF Min
    <2> HIDE DEF matches
    <2> QED
      BY <2>1, <2>2, <1>3
  <1>6. ASSUME hashLookup(i) # None
        PROVE  /\ hashLookup(i) \in Buffers
               /\ Cached(hashLookup(i))
               /\ node[hashLookup(i)].ino = i
    <2>1. PICK k \in matches : TRUE
      BY <1>3, <1>6
    <2>2. hashLookup(i) = queue[k] /\ k \in DOMAIN queue /\ node[queue[k]].ino = i
      BY <2>1, <1>5
    <2>3. queue[k] \in ToSet(queue) /\ queue[k] \in Buffers
      BY <2>2, <1>1
    <2> QED
      BY <2>2, <2>3 DEF Cached, queue
  <1>7. ASSUME NEW b \in Buffers, Cached(b), node[b].ino = i
        PROVE  hashLookup(i) = b
    <2>1. b \in ToSet(queue)
      BY <1>7 DEF Cached, queue
    <2>2. PICK k \in DOMAIN queue : queue[k] = b
      BY <2>1, <1>1
    <2>3. k \in matches
      BY <2>2, <1>7
    <2> QED
      BY <2>2, <2>3, <1>5
  <1> QED
    BY <1>6, <1>7

-----------------------------------------------------------------------------
(* The initial state.                                                      *)

\* Every buffer is on the initial free list once.
LEMMA AllBuffersOnce ==
    /\ SetToSeq(Buffers) \in Seq(Buffers)
    /\ IsInjective(SetToSeq(Buffers))
    /\ ToSet(SetToSeq(Buffers)) = Buffers
  <1> DEFINE n == Cardinality(Buffers)
             s == SetToSeq(Buffers)
  <1>1. n \in Nat /\ ExistsBijection(1..n, Buffers)
    BY CacheAssumption, FS_CardinalityType
  <1>2. PICK f \in [1..n -> Buffers] : IsInjective(f)
    BY <1>1 DEF ExistsBijection, Bijection, Injection
  <1>3. s \in [1..n -> Buffers] /\ IsInjective(s)
    BY <1>2 DEF SetToSeq
  <1> HIDE DEF s
  <1>4. s \in Seq(Buffers)
    BY <1>1, <1>3
  <1>5. s \in Injection(1..n, Buffers)
    BY <1>3 DEF Injection
  <1>6. IsFiniteSet(1..n) /\ Cardinality(1..n) = n
    BY <1>1, FS_Interval
  <1>7. s \in Surjection(1..n, Buffers)
    BY <1>5, <1>6, CacheAssumption, FS_Injection
  <1>8. \A b \in Buffers : \E k \in 1..n : s[k] = b
    BY <1>7 DEF Surjection
  <1>9. ToSet(s) = {s[k] : k \in 1..n}
    BY <1>3 DEF ToSet
  <1>10. ToSet(s) = Buffers
    BY <1>3, <1>8, <1>9
  <1> QED
    BY <1>3, <1>4, <1>10 DEF s

\* The cache is empty and the root is the only inode.
LEMMA InitInv ==
    ASSUME Init
    PROVE  Inv
  <1>1. /\ node = [b \in Buffers |-> [ino |-> 0, ref |-> 0, links |-> 0, ver |-> 0, changed |-> FALSE]]
        /\ freeList = SetToSeq(Buffers)
        /\ hashQ = [q \in Queues |-> << >>]
        /\ disk = [i \in INodes |-> [used |-> i = ROOT, links |-> 0, ver |-> 0]]
        /\ held = [h \in Handles |-> NoRef]
        /\ latest = [i \in INodes |-> Free]
        /\ names = [i \in INodes |-> 0]
        /\ dirs = {ROOT}
    BY DEF Init, Queues
  <1>2. ROOT \in INodes /\ ROOT = 0 /\ 0 \in 0..MaxVersion /\ 0 \in 0..Cardinality(Handles)
    BY Numbers DEF ROOT
  <1>3. \A h \in Handles : held[h].buffer = None /\ ~Refers(h)
    BY <1>1 DEF Refers, NoRef
  <1>4. \A i \in INodes : HeldBy(i) = {}
    BY <1>3 DEF HeldBy
  <1>5. \A b \in Buffers : Holders(b) = {} /\ ~Cached(b) /\ node[b].ref = 0 /\ ~node[b].changed
    <2>1. \A b \in Buffers : Holders(b) = {} /\ node[b].ref = 0 /\ ~node[b].changed
      BY <1>1, <1>3, CacheAssumption DEF Holders
    <2>2. \A b \in Buffers : node[b].ino = ROOT
      BY <1>1, <1>2
    <2>3. getHash(ROOT) \in Queues
      BY <1>2, HashType
    <2>4. hashQ[getHash(ROOT)] = << >>
      BY <1>1, <2>3
    <2> QED
      BY <2>1, <2>2, <2>4 DEF Cached, ToSet
  <1>6. TypeOK
    <2>1. node \in [Buffers -> [ino : INodes, ref : 0..Cardinality(Handles), links : 0..3,
                                ver : 0..MaxVersion, changed : BOOLEAN]]
      BY <1>1, <1>2
    <2>2. freeList \in Seq(Buffers)
      BY <1>1, AllBuffersOnce
    <2>3. hashQ \in [Queues -> Seq(Buffers)]
      BY <1>1
    <2>4. disk \in [INodes -> [used : BOOLEAN, links : 0..3, ver : 0..MaxVersion]]
      BY <1>1, <1>2
    <2>5. held \in [Handles -> [buffer : Buffers \union {None}, ino : INodes]]
      BY <1>1, <1>2 DEF NoRef
    <2>6. latest \in [INodes -> Record] /\ names \in [INodes -> 0..2] /\ dirs \subseteq INodes
      BY <1>1, <1>2 DEF Free, Record
    <2> QED
      BY <2>1, <2>2, <2>3, <2>4, <2>5, <2>6 DEF TypeOK, Queues
  <1>7. FreeListExact
    <2>1. ToSet(freeList) = Buffers /\ IsInjective(freeList)
      BY <1>1, AllBuffersOnce
    <2>2. \A b \in Buffers : node[b].ref = Cardinality(Holders(b))
      BY <1>5, FS_EmptySet
    <2> QED
      BY <2>1, <2>2, <1>5 DEF FreeListExact, Holders
  <1>8. OneCopy
    <2>1. \A q \in DOMAIN hashQ : hashQ[q] = << >>
      BY <1>1
    <2>2. IsInjective(<< >>) /\ ToSet(<< >>) = {}
      BY DEF IsInjective, ToSet
    <2> QED
      BY <2>1, <2>2, <1>5 DEF OneCopy
  <1>9. HoldersSeeLatest
    BY <1>3 DEF HoldersSeeLatest
  <1>10. WrittenBack
    BY <1>1 DEF WrittenBack, Free
  <1>11. FreedWhenUnreachable
    <2>1. ASSUME NEW i \in INodes \ {ROOT}
          PROVE  ~disk[i].used /\ ~(names[i] > 0)
      <3>1. (i = ROOT) = FALSE
        OBVIOUS
      <3>2. disk[i] = [used |-> FALSE, links |-> 0, ver |-> 0]
        BY <3>1, <1>1, Zenon
      <3> QED
        BY <3>2, <1>1
    <2> QED
      BY <2>1, <1>4 DEF FreedWhenUnreachable
  <1>12. Clean
    BY <1>5 DEF Clean
  <1>13. LinksCount
    BY <1>1, <1>2 DEF LinksCount, Free
  <1> QED
    BY <1>6, <1>7, <1>8, <1>9, <1>10, <1>11, <1>12, <1>13 DEF Inv

-----------------------------------------------------------------------------
(* iget.                                                                   *)

\* What iget leaves behind when it returns buffer b, which is off the free list
\* and on the queue of its inode: the copy it found there, or the inode of the
\* disk, in the buffer that cached it or in one that was free.
Leaves(i, d, b, r) ==
    /\ b \in Buffers
    /\ r.node \in [Buffers -> AnyNode]
    /\ \A c \in Buffers \ {b} : r.node[c] = node[c]
    /\ r.node[b].ino = i
    /\ r.node[b].ref = node[b].ref + 1
    /\ r.node[b].changed = node[b].changed
    /\ r.freeList \in Seq(Buffers)
    /\ IsInjective(r.freeList)
    /\ ToSet(r.freeList) = ToSet(freeList) \ {b}
    /\ r.hashQ \in [Queues -> Seq(Buffers)]
    /\ \A q \in Queues :
          /\ IsInjective(r.hashQ[q])
          /\ \A c \in Buffers \ {b} : c \in ToSet(r.hashQ[q]) <=> c \in ToSet(hashQ[q])
          /\ b \in ToSet(r.hashQ[q]) <=> q = getHash(i)
    /\ \/ /\ Cached(b) /\ node[b].ino = i
          /\ node[b].links # 0 => Content(r.node[b]) = Content(node[b])
          /\ node[b].links = 0 => Content(r.node[b]) = Content(d[i])
       \/ /\ node[b].ref = 0 /\ \A c \in Buffers : Cached(c) => node[c].ino # i
          /\ Content(r.node[b]) = Content(d[i])

DiskType == [INodes -> [used : BOOLEAN, links : 0..3, ver : 0..MaxVersion]]

\* A buffer that caches the inode is found.
LEMMA HitEffect ==
    ASSUME TypeOK, FreeListExact, OneCopy, NEW i \in INodes, NEW d \in DiskType,
           NEW b \in Buffers, Cached(b), node[b].ino = i
    PROVE  Leaves(i, d, b, igetHit(b, i, d))
  <1> DEFINE r == igetHit(b, i, d)
             m == cachedINode(b, i, d)
  <1>1. /\ node \in [Buffers -> AnyNode] /\ freeList \in Seq(Buffers) /\ hashQ \in [Queues -> Seq(Buffers)]
        /\ DOMAIN hashQ = Queues /\ d[i] \in [used : BOOLEAN, links : 0..3, ver : 0..MaxVersion]
    BY Types DEF TypeOK, DiskType
  <1>2. /\ m \in AnyNode /\ m.ino = i /\ m.ref = node[b].ref /\ m.changed = node[b].changed
        /\ node[b].links # 0 => Content(m) = Content(node[b])
        /\ node[b].links = 0 => Content(m) = Content(d[i])
    <2>1. CASE node[b].links = 0
      <3>1. m = [node[b] EXCEPT !.ino = i, !.links = d[i].links, !.ver = d[i].ver]
        BY <2>1 DEF cachedINode, fetchInodeFromDisk
      <3>2. node[b] \in AnyNode
        BY <1>1
      <3> QED
        BY <2>1, <3>1, <3>2, <1>1 DEF AnyNode, Content
    <2>2. CASE node[b].links # 0
      BY <2>2, <1>1 DEF cachedINode
    <2> QED
      BY <2>1, <2>2
  <1>3. /\ r.node = [node EXCEPT ![b] = [m EXCEPT !.ref = @ + 1]] /\ r.hashQ = hashQ
        /\ r.freeList = IF node[b].ref = 0 THEN RemoveFirst(freeList, b) ELSE freeList
    BY DEF igetHit, freeListRemove
  <1> HIDE DEF m
  <1>4. /\ [m EXCEPT !.ref = @ + 1] \in AnyNode
        /\ [m EXCEPT !.ref = @ + 1].ref = m.ref + 1
        /\ [m EXCEPT !.ref = @ + 1].ino = i
        /\ [m EXCEPT !.ref = @ + 1].changed = m.changed
        /\ Content([m EXCEPT !.ref = @ + 1]) = Content(m)
    BY <1>2 DEF AnyNode, Content
  <1> HIDE DEF r
  <1>5. /\ r.node \in [Buffers -> AnyNode] /\ \A c \in Buffers \ {b} : r.node[c] = node[c]
        /\ r.node[b] = [m EXCEPT !.ref = @ + 1]
    BY <1>1, <1>3, <1>4
  <1>6. /\ r.freeList \in Seq(Buffers) /\ IsInjective(r.freeList)
        /\ ToSet(r.freeList) = ToSet(freeList) \ {b}
    <2>1. IsInjective(freeList) /\ (b \in ToSet(freeList) <=> node[b].ref = 0)
      BY DEF FreeListExact
    <2>2. CASE node[b].ref = 0
      BY <2>1, <2>2, <1>1, <1>3, RemoveFacts
    <2>3. CASE node[b].ref # 0
      BY <2>1, <2>3, <1>1, <1>3
    <2> QED
      BY <2>2, <2>3
  <1>7. ASSUME NEW q \in Queues
        PROVE  /\ IsInjective(hashQ[q])
               /\ b \in ToSet(hashQ[q]) <=> q = getHash(i)
    BY <1>1 DEF OneCopy, Cached
  <1>8. Leaves(i, d, b, r)
    BY <1>1, <1>2, <1>3, <1>4, <1>5, <1>6, <1>7 DEF Leaves
  <1> QED
    BY <1>8 DEF r

\* No buffer caches the inode: the first free one is given up for it.
LEMMA MissEffect ==
    ASSUME TypeOK, FreeListExact, OneCopy, NEW i \in INodes, NEW d \in DiskType,
           hashLookup(i) = None, freeList # << >>
    PROVE  Leaves(i, d, Head(freeList), igetMiss(i, d))
  <1> DEFINE b == Head(freeList)
             r == igetMiss(i, d)
             m == [fetchInodeFromDisk(node[b], i, d) EXCEPT !.ref = @ + 1]
             old == removeFromHashQ(b)
             qi == getHash(i)
  <1>1. /\ node \in [Buffers -> AnyNode] /\ freeList \in Seq(Buffers) /\ hashQ \in [Queues -> Seq(Buffers)]
        /\ DOMAIN hashQ = Queues /\ d[i] \in [used : BOOLEAN, links : 0..3, ver : 0..MaxVersion]
        /\ qi \in Queues
    BY Types, HashType DEF TypeOK, DiskType
  <1>2. /\ b \in Buffers /\ node[b].ref = 0 /\ Tail(freeList) \in Seq(Buffers)
        /\ IsInjective(Tail(freeList)) /\ ToSet(Tail(freeList)) = ToSet(freeList) \ {b}
    BY <1>1, TailFacts DEF FreeListExact
  <1>3. \A c \in Buffers : Cached(c) => node[c].ino # i
    BY CacheAssumption, LookupFacts
  <1>4. /\ r.node = [node EXCEPT ![b] = m] /\ r.freeList = Tail(freeList)
        /\ r.hashQ = [old EXCEPT ![qi] = <<b>> \o @]
    BY DEF igetMiss, updateInHashQ
  <1>5. /\ m \in AnyNode /\ m.ino = i /\ m.ref = node[b].ref + 1 /\ m.changed = node[b].changed
        /\ Content(m) = Content(d[i])
    <2> DEFINE p == [node[b] EXCEPT !.ino = i, !.links = d[i].links, !.ver = d[i].ver]
    <2>1. m = [p EXCEPT !.ref = @ + 1]
      BY DEF fetchInodeFromDisk
    <2>2. node[b] \in AnyNode
      BY <1>1, <1>2
    <2> HIDE DEF b, m
    <2>3. /\ p \in AnyNode /\ p.ino = i /\ p.ref = node[b].ref /\ p.changed = node[b].changed
          /\ Content(p) = Content(d[i])
      BY <2>2, <1>1 DEF AnyNode, Content
    <2> HIDE DEF p
    <2> QED
      BY <2>1, <2>3 DEF AnyNode, Content
  <1> HIDE DEF b, m, r, qi
  <1>6. /\ r.node \in [Buffers -> AnyNode] /\ \A c \in Buffers \ {b} : r.node[c] = node[c]
        /\ r.node[b] = m
    BY <1>1, <1>2, <1>4, <1>5
  <1>7. ASSUME NEW q \in Queues
        PROVE  /\ old[q] \in Seq(Buffers) /\ IsInjective(old[q])
               /\ ToSet(old[q]) = ToSet(hashQ[q]) \ {b}
    <2>1. hashQ[q] \in Seq(Buffers) /\ IsInjective(hashQ[q])
          /\ \A c \in ToSet(hashQ[q]) : getHash(node[c].ino) = q
      BY <1>1 DEF OneCopy
    <2>2. ~(hashQ[q] # << >> /\ Head(hashQ[q]) = b /\ q # getHash(node[b].ino))
      BY <2>1, TailFacts
    <2>3. old[q] = RemoveFirst(hashQ[q], b)
      BY <2>2, <1>1 DEF removeFromHashQ
    <2> QED
      BY <2>1, <2>3, RemoveFacts
  <1>8. DOMAIN old = Queues
    BY <1>1 DEF removeFromHashQ
  <1> HIDE DEF old
  <1>9. /\ DOMAIN r.hashQ = Queues /\ r.hashQ[qi] = <<b>> \o old[qi]
        /\ \A q \in Queues \ {qi} : r.hashQ[q] = old[q]
        /\ r.hashQ = [q \in Queues |-> r.hashQ[q]]
    BY <1>1, <1>4, <1>8
  <1>10. ASSUME NEW q \in Queues
         PROVE  /\ r.hashQ[q] \in Seq(Buffers)
                /\ IsInjective(r.hashQ[q])
                /\ \A c \in Buffers \ {b} : c \in ToSet(r.hashQ[q]) <=> c \in ToSet(hashQ[q])
                /\ b \in ToSet(r.hashQ[q]) <=> q = qi
    <2>1. CASE q = qi
      <3>1. /\ <<b>> \o old[qi] \in Seq(Buffers) /\ IsInjective(<<b>> \o old[qi])
            /\ ToSet(<<b>> \o old[qi]) = ToSet(old[qi]) \union {b}
        <4>1. b \notin ToSet(old[qi]) /\ old[qi] \in Seq(Buffers) /\ IsInjective(old[qi])
          BY <1>1, <1>7
        <4> QED
          BY <4>1, <1>2, ConsFacts
      <3> QED
        BY <2>1, <3>1, <1>7, <1>9
    <2>2. CASE q # qi
      BY <2>2, <1>7, <1>9
    <2> QED
      BY <2>1, <2>2
  <1>11. r.hashQ \in [Queues -> Seq(Buffers)]
    BY <1>9, <1>10
  <1>12. Leaves(i, d, b, r)
    BY <1>2, <1>3, <1>4, <1>5, <1>6, <1>10, <1>11 DEF Leaves, qi
  <1> QED
    BY <1>12 DEF b, r

\* iget, whichever way it goes.
LEMMA IgetEffect ==
    ASSUME TypeOK, FreeListExact, OneCopy, NEW i \in INodes, NEW d \in DiskType, igetSucceeds(i)
    PROVE  Leaves(i, d, iget(i, d).buffer, iget(i, d))
  <1>1. CASE hashLookup(i) # None
    <2>1. iget(i, d) = igetHit(hashLookup(i), i, d)
      BY <1>1 DEF iget
    <2>2. igetHit(hashLookup(i), i, d).buffer = hashLookup(i)
      BY DEF igetHit
    <2>3. hashLookup(i) \in Buffers /\ Cached(hashLookup(i)) /\ node[hashLookup(i)].ino = i
      BY <1>1, LookupFacts
    <2>4. Leaves(i, d, hashLookup(i), igetHit(hashLookup(i), i, d))
      BY <2>3, HitEffect
    <2> QED
      BY <2>1, <2>2, <2>4
  <1>2. CASE hashLookup(i) = None
    <2>1. iget(i, d) = igetMiss(i, d)
      BY <1>2 DEF iget
    <2>2. igetMiss(i, d).buffer = Head(freeList)
      BY DEF igetMiss
    <2>3. Leaves(i, d, Head(freeList), igetMiss(i, d))
      BY <1>2, MissEffect DEF igetSucceeds
    <2> QED
      BY <2>1, <2>2, <2>3
  <1> QED
    BY <1>1, <1>2

\* The lists and the reference counts once a handle has got its buffer, whatever
\* its caller writes into the inode.
LEMMA AcquireKeepsLists ==
    ASSUME TypeOK, FreeListExact, OneCopy, HoldersSeeLatest,
           NEW h \in Handles, NEW i \in INodes, NEW d \in DiskType,
           ~Refers(h), igetSucceeds(i), Acquire(h, i, d),
           NEW b, b = iget(i, d).buffer,
           node' \in [Buffers -> AnyNode],
           \A c \in Buffers : node'[c].ino = iget(i, d).node[c].ino
                             /\ node'[c].ref = iget(i, d).node[c].ref
    PROVE  /\ FreeListExact' /\ OneCopy'
           /\ freeList' \in Seq(Buffers) /\ hashQ' \in [Queues -> Seq(Buffers)]
           /\ held' \in [Handles -> [buffer : Buffers \union {None}, ino : INodes]]
           /\ \A c \in Buffers : node'[c].ref \in 0..Cardinality(Handles)
           /\ b \in Buffers /\ held'[h] = [buffer |-> b, ino |-> i]
           /\ \A k \in Handles \ {h} : held'[k] = held[k]
           /\ \A c \in Buffers \ {b} : Cached(c)' => Cached(c)
           /\ Leaves(i, d, b, iget(i, d))
  <1> DEFINE r == iget(i, d)
  <1>1. Leaves(i, d, b, r)
    BY IgetEffect
  <1>2. /\ freeList' = r.freeList /\ hashQ' = r.hashQ
        /\ held' = [held EXCEPT ![h] = [buffer |-> b, ino |-> i]]
    BY DEF Acquire
  <1> HIDE DEF r
  <1>3. /\ b \in Buffers
        /\ \A c \in Buffers \ {b} : node'[c].ino = node[c].ino /\ node'[c].ref = node[c].ref
        /\ node'[b].ino = i /\ node'[b].ref = node[b].ref + 1
    BY <1>1 DEF Leaves, r
  <1>4. /\ freeList' \in Seq(Buffers) /\ IsInjective(freeList')
        /\ ToSet(freeList') = ToSet(freeList) \ {b}
        /\ hashQ' \in [Queues -> Seq(Buffers)]
        /\ \A q \in Queues :
             /\ IsInjective(hashQ'[q])
             /\ \A c \in Buffers \ {b} : c \in ToSet(hashQ'[q]) <=> c \in ToSet(hashQ[q])
             /\ b \in ToSet(hashQ'[q]) <=> q = getHash(i)
    BY <1>1, <1>2 DEF Leaves
  <1>5. /\ held' \in [Handles -> [buffer : Buffers \union {None}, ino : INodes]]
        /\ held'[h] = [buffer |-> b, ino |-> i]
        /\ \A k \in Handles \ {h} : held'[k] = held[k]
    BY <1>2, <1>3 DEF TypeOK
  <1>6. held[h].buffer = None
    BY DEF Refers
  <1>7. ASSUME NEW c \in Buffers
        PROVE  /\ node'[c].ref = Cardinality(Holders(c)')
               /\ node'[c].ref \in 0..Cardinality(Handles)
    <2>1. IsFiniteSet(Holders(c)) /\ node[c].ref = Cardinality(Holders(c)) /\ node[c].ref \in Nat
      BY HolderFacts, Types DEF AnyNode
    <2>2. h \notin Holders(c)
      BY <1>6, CacheAssumption DEF Holders
    <2>3. node'[c].ref = Cardinality(Holders(c)')
      <3>1. CASE c = b
        <4>1. Holders(c)' = Holders(c) \union {h}
          BY <3>1, <1>5 DEF Holders
        <4>2. Cardinality(Holders(c) \union {h}) = Cardinality(Holders(c)) + 1
          BY <2>1, <2>2, FS_AddElement
        <4> QED
          BY <3>1, <4>1, <4>2, <2>1, <1>3
      <3>2. CASE c # b
        <4>1. Holders(c)' = Holders(c)
          BY <3>2, <1>5, <2>2 DEF Holders
        <4> QED
          BY <3>2, <4>1, <2>1, <1>3
      <3> QED
        BY <3>1, <3>2
    <2>4. Holders(c)' \subseteq Handles
      BY DEF Holders
    <2>5. Cardinality(Holders(c)') \in Nat /\ Cardinality(Holders(c)') <= Cardinality(Handles)
      BY <2>4, CacheAssumption, FS_Subset, FS_CardinalityType
    <2> QED
      BY <2>3, <2>5, Numbers
  <1>8. FreeListExact'
    <2>1. ToSet(freeList') = {c \in Buffers : node'[c].ref = 0}
      <3>1. ToSet(freeList) = {c \in Buffers : node[c].ref = 0}
        BY DEF FreeListExact
      <3>2. node[b].ref \in Nat
        BY <1>3, Types DEF AnyNode
      <3> QED
        BY <3>1, <3>2, <1>3, <1>4
    <2> QED
      BY <2>1, <1>4, <1>7 DEF FreeListExact, Holders
  <1>9. /\ \A q \in Queues : \A c \in ToSet(hashQ[q]) : getHash(node[c].ino) = q
        /\ \A q \in Queues : ToSet(hashQ'[q]) \subseteq Buffers /\ ToSet(hashQ[q]) \subseteq Buffers
        /\ DOMAIN hashQ' = Queues
    BY <1>4, Types, InSeq DEF OneCopy
  <1>10. ASSUME NEW q \in Queues, NEW c \in ToSet(hashQ'[q])
         PROVE  getHash(node'[c].ino) = q
    BY <1>3, <1>4, <1>9
  <1>11. ASSUME NEW c \in Buffers \ {b}, Cached(c)
         PROVE  node[c].ino # i \/ (Cached(b) /\ node[b].ino = i)
    <2>1. \/ Cached(b) /\ node[b].ino = i
          \/ \A x \in Buffers : Cached(x) => node[x].ino # i
      BY <1>1 DEF Leaves
    <2> QED
      BY <2>1, <1>11
  <1>12. ASSUME NEW q \in Queues, NEW c \in ToSet(hashQ'[q]), NEW e \in ToSet(hashQ'[q]),
                node'[c].ino = node'[e].ino
         PROVE  c = e
    <2>1. ASSUME NEW x \in ToSet(hashQ'[q]), x # b, node'[x].ino = i
          PROVE  FALSE
      <3>1. x \in Buffers \ {b} /\ x \in ToSet(hashQ[q]) /\ node[x].ino = i
        BY <2>1, <1>3, <1>4, <1>9
      <3>2. Cached(x)
        BY <3>1, <1>9 DEF Cached
      <3>3. Cached(b) /\ node[b].ino = i
        BY <3>1, <3>2, <1>11
      <3> QED
        BY <3>1, <3>2, <3>3, <1>3, CachedUnique
    <2>2. CASE c = b \/ e = b
      BY <2>1, <2>2, <1>12, <1>3
    <2>3. CASE c # b /\ e # b
      <3>1. /\ c \in ToSet(hashQ[q]) /\ e \in ToSet(hashQ[q])
            /\ node[c].ino = node[e].ino
        BY <2>3, <1>3, <1>4, <1>9, <1>12
      <3> QED
        BY <3>1, Types DEF OneCopy
    <2> QED
      BY <2>2, <2>3
  <1>13. ASSUME NEW c \in Buffers, node'[c].ref > 0
         PROVE  c \in ToSet(hashQ'[getHash(node'[c].ino)])
    <2>1. CASE c = b
      BY <2>1, <1>3, <1>4, HashType
    <2>2. CASE c # b
      <3>1. c \in ToSet(hashQ[getHash(node[c].ino)])
        BY <2>2, <1>3, <1>13 DEF OneCopy
      <3> QED
        BY <2>2, <3>1, <1>3, <1>4, Types
    <2> QED
      BY <2>1, <2>2
  <1>14. OneCopy'
    BY <1>4, <1>9, <1>10, <1>12, <1>13 DEF OneCopy
  <1>15. \A c \in Buffers \ {b} : Cached(c)' => Cached(c)
    BY <1>3, <1>4, Types DEF Cached
  <1> QED
    BY <1>1, <1>3, <1>4, <1>5, <1>7, <1>8, <1>14, <1>15 DEF r

\* An inode is held if and only if a buffer with references caches it.
LEMMA HeldByBuffer ==
    ASSUME TypeOK, FreeListExact, OneCopy, HoldersSeeLatest,
           NEW b \in Buffers, Cached(b), NEW i, i = node[b].ino
    PROVE  HeldBy(i) = {} <=> node[b].ref = 0
  <1>1. ASSUME NEW h \in HeldBy(i)
        PROVE  node[b].ref > 0
    <2>1. h \in Handles /\ Refers(h) /\ held[h].ino = i
      BY DEF HeldBy
    <2>2. /\ held[h].buffer \in Buffers /\ node[held[h].buffer].ref > 0
          /\ node[held[h].buffer].ino = i /\ Cached(held[h].buffer)
      BY <2>1, HolderFacts
    <2>3. held[h].buffer = b
      BY <2>2, CachedUnique
    <2> QED
      BY <2>2, <2>3
  <1>2. ASSUME node[b].ref # 0
        PROVE  HeldBy(i) # {}
    <2>1. PICK h \in Handles : held[h].buffer = b
      BY <1>2, HolderFacts DEF Holders
    <2>2. Refers(h)
      BY <2>1, CacheAssumption DEF Refers
    <2>3. held[h].ino = i
      BY <2>1, <2>2, HolderFacts
    <2> QED
      BY <2>2, <2>3 DEF HeldBy
  <1> QED
    BY <1>1, <1>2

-----------------------------------------------------------------------------
(* The steps.                                                              *)

\* The type of the in-core inodes, from its parts.
LEMMA NodeType ==
    ASSUME NEW n \in [Buffers -> AnyNode], \A b \in Buffers : n[b].ref \in 0..Cardinality(Handles)
    PROVE  n \in [Buffers -> [ino : INodes, ref : 0..Cardinality(Handles), links : 0..3,
                              ver : 0..MaxVersion, changed : BOOLEAN]]
  BY DEF AnyNode

\* iget of an inode that is in use finds its latest version.
LEMMA IgetFindsLatest ==
    ASSUME Inv, NEW i \in INodes, disk[i].used, i = ROOT \/ names[i] > 0,
           i = ROOT => RootUnchanged,
           NEW b \in Buffers, NEW r, Leaves(i, disk, b, r)
    PROVE  Content(r.node[b]) = latest[i]
  <1>i. TypeOK /\ FreeListExact /\ OneCopy /\ HoldersSeeLatest /\ WrittenBack /\ Clean /\ LinksCount
    BY DEF Inv
  <1>1. HeldBy(i) = {} => Content(disk[i]) = latest[i]
    BY <1>i DEF WrittenBack, Content
  <1>2. CASE /\ Cached(b) /\ node[b].ino = i
             /\ node[b].links # 0 => Content(r.node[b]) = Content(node[b])
             /\ node[b].links = 0 => Content(r.node[b]) = Content(disk[i])
    <2>1. HeldBy(i) = {} <=> node[b].ref = 0
      BY <1>i, <1>2, HeldByBuffer
    <2>2. CASE node[b].ref = 0
      <3>1. node[b].links # 0 => Content(node[b]) = Content(disk[i])
        BY <2>2, <1>i, <1>2 DEF Clean
      <3> QED
        BY <3>1, <2>1, <2>2, <1>1, <1>2
    <2>3. CASE node[b].ref # 0
      <3>1. PICK k \in Handles : held[k].buffer = b
        BY <2>3, <1>i, HolderFacts DEF Holders
      <3>2. Refers(k)
        BY <3>1, CacheAssumption DEF Refers
      <3>3. Content(node[b]) = latest[i] /\ held[k].ino = i
        BY <3>1, <3>2, <1>i, <1>2, HolderFacts
      <3>4. CASE node[b].links # 0
        BY <3>3, <3>4, <1>2
      <3>5. CASE node[b].links = 0
        <4>1. latest[i].links = 0
          BY <3>3, <3>5 DEF Content
        <4>2. i = ROOT
          <5> SUFFICES ASSUME i # ROOT PROVE FALSE
            OBVIOUS
          <5>1. latest[i].links = names[i] + (IF i \in dirs THEN 1 ELSE 0) /\ names[i] > 0
            BY <1>i DEF LinksCount
          <5>2. names[i] \in 0..2
            BY <1>i DEF TypeOK
          <5> QED
            BY <4>1, <5>1, <5>2
        <4>3. ~node[b].changed
          BY <4>2, <3>1, <3>2, <3>3 DEF RootUnchanged, HeldBy
        <4>4. node[b].ref > 0
          BY <2>3, <1>i, Types DEF AnyNode
        <4>5. Content(node[b]) = Content(disk[i])
          BY <4>3, <4>4, <1>i, <1>2 DEF Clean
        <4> QED
          BY <4>5, <3>3, <3>5, <1>2
      <3> QED
        BY <3>4, <3>5
    <2> QED
      BY <2>2, <2>3
  <1>3. CASE /\ node[b].ref = 0 /\ \A c \in Buffers : Cached(c) => node[c].ino # i
             /\ Content(r.node[b]) = Content(disk[i])
    <2>1. HeldBy(i) = {}
      BY <1>3, <1>i, HolderFacts DEF HeldBy
    <2> QED
      BY <2>1, <1>1, <1>3
  <1> QED
    BY <1>2, <1>3 DEF Leaves

\* A handle is acquired.
LEMMA IgetInv ==
    ASSUME Inv, NEW h \in Handles, NEW i \in INodes, Iget(h, i)
    PROVE  Inv'
  <1> DEFINE r == iget(i, disk)
             b == r.buffer
  <1>i. /\ TypeOK /\ FreeListExact /\ OneCopy /\ HoldersSeeLatest /\ WrittenBack
        /\ FreedWhenUnreachable /\ Clean /\ LinksCount
    BY DEF Inv
  <1>1. /\ ~Refers(h) /\ (i = ROOT \/ names[i] > 0) /\ (i = ROOT => RootUnchanged)
        /\ igetSucceeds(i) /\ Acquire(h, i, disk) /\ node' = r.node
        /\ disk' = disk /\ latest' = latest /\ names' = names /\ dirs' = dirs
    BY DEF Iget
  <1>2. disk[i].used
    BY <1>i, <1>1 DEF LinksCount, FreedWhenUnreachable
  <1>3. disk \in DiskType
    BY <1>i DEF TypeOK, DiskType
  <1>4. Leaves(i, disk, b, r)
    BY <1>i, <1>1, <1>3, IgetEffect
  <1>5. /\ FreeListExact' /\ OneCopy'
        /\ freeList' \in Seq(Buffers) /\ hashQ' \in [Queues -> Seq(Buffers)]
        /\ held' \in [Handles -> [buffer : Buffers \union {None}, ino : INodes]]
        /\ \A c \in Buffers : node'[c].ref \in 0..Cardinality(Handles)
        /\ b \in Buffers /\ held'[h] = [buffer |-> b, ino |-> i]
        /\ \A k \in Handles \ {h} : held'[k] = held[k]
        /\ \A c \in Buffers \ {b} : Cached(c)' => Cached(c)
    <2>1. node' \in [Buffers -> AnyNode]
      BY <1>1, <1>4 DEF Leaves
    <2> QED
      BY <2>1, <1>i, <1>1, <1>3, AcquireKeepsLists
  <1>6. Content(r.node[b]) = latest[i]
    BY <1>1, <1>2, <1>4, <1>5, IgetFindsLatest
  <1> HIDE DEF r, b
  <1>7. /\ node' \in [Buffers -> AnyNode] /\ \A c \in Buffers \ {b} : node'[c] = node[c]
        /\ node'[b].ino = i /\ node'[b].ref = node[b].ref + 1 /\ node'[b].changed = node[b].changed
        /\ Content(node'[b]) = latest[i]
        /\ node[b].ref = 0 \/ node[b].ino = i
        /\ \/ Cached(b) /\ node[b].ino = i /\ node[b].links # 0 /\ Content(node'[b]) = Content(node[b])
           \/ Content(node'[b]) = Content(disk[i])
    BY <1>1, <1>4, <1>6 DEF Leaves
  <1>8. TypeOK'
    BY <1>i, <1>1, <1>5, <1>7, NodeType DEF TypeOK, Queues
  <1>9. HoldersSeeLatest'
    <2> SUFFICES ASSUME NEW k \in Handles, held'[k].buffer # None
                 PROVE  /\ node'[held'[k].buffer].ino = held'[k].ino
                        /\ Content(node'[held'[k].buffer]) = latest[held'[k].ino]
      BY <1>1 DEF HoldersSeeLatest, Refers, Content
    <2>1. CASE k = h
      BY <2>1, <1>5, <1>7
    <2>2. CASE k # h
      <3>1. held'[k] = held[k] /\ Refers(k)
        BY <2>2, <1>5 DEF Refers
      <3>2. /\ held[k].buffer \in Buffers /\ node[held[k].buffer].ref > 0
            /\ node[held[k].buffer].ino = held[k].ino
            /\ Content(node[held[k].buffer]) = latest[held[k].ino]
        BY <3>1, <1>i, HolderFacts
      <3> QED
        BY <3>1, <3>2, <1>7
    <2> QED
      BY <2>1, <2>2
  <1>10. \A j \in INodes : HeldBy(j)' = IF j = i THEN HeldBy(j) \union {h} ELSE HeldBy(j)
    <2>1. held'[h].buffer # None /\ held'[h].ino = i /\ held[h].buffer = None
      BY <1>1, <1>5, CacheAssumption DEF Refers
    <2> QED
      BY <2>1, <1>5 DEF HeldBy, Refers
  <1>11. WrittenBack'
    BY <1>i, <1>1, <1>10 DEF WrittenBack
  <1>12. FreedWhenUnreachable'
    BY <1>i, <1>1, <1>2, <1>10 DEF FreedWhenUnreachable
  <1>13. Clean'
    <2> SUFFICES ASSUME NEW c \in Buffers
                 PROVE  /\ node'[c].ref = 0 => ~node'[c].changed
                        /\ Cached(c)' /\ ~node'[c].changed /\ (node'[c].ref > 0 \/ node'[c].links # 0) =>
                              disk[node'[c].ino].used /\ Content(node'[c]) = Content(disk[node'[c].ino])
      BY <1>1 DEF Clean, Content
    <2>1. CASE c # b
      BY <2>1, <1>i, <1>5, <1>7 DEF Clean
    <2>2. CASE c = b
      <3>1. node[b].ref \in Nat /\ node'[b].ref # 0
        BY <1>i, <1>5, <1>7, Types DEF AnyNode
      <3>2. ASSUME Cached(b), node[b].ino = i, node[b].links # 0, ~node[b].changed
            PROVE  Content(node[b]) = Content(disk[i])
        BY <3>2, <1>i, <1>5 DEF Clean
      <3> QED
        BY <2>2, <3>1, <3>2, <1>2, <1>7
    <2> QED
      BY <2>1, <2>2
  <1>14. LinksCount'
    BY <1>i, <1>1 DEF LinksCount
  <1> QED
    BY <1>5, <1>8, <1>9, <1>11, <1>12, <1>13, <1>14 DEF Inv

\* An inode is taken into use, and its first handle acquired.
LEMMA CreateInv ==
    ASSUME Inv, NEW h \in Handles, NEW i \in INodes \ {ROOT}, NEW links \in {1, 2},
           Create(h, i, links)
    PROVE  Inv'
  <1> DEFINE d == [disk EXCEPT ![i] = [used |-> TRUE, links |-> 0, ver |-> 0]]
             r == iget(i, d)
             b == r.buffer
  <1>i. /\ TypeOK /\ FreeListExact /\ OneCopy /\ HoldersSeeLatest /\ WrittenBack
        /\ FreedWhenUnreachable /\ Clean /\ LinksCount
    BY DEF Inv
  <1>1. /\ ~Refers(h) /\ ~disk[i].used /\ igetSucceeds(i) /\ Acquire(h, i, d)
        /\ node' = [r.node EXCEPT ![b].links = links, ![b].changed = TRUE]
        /\ disk' = d
        /\ latest' = [latest EXCEPT ![i] = [links |-> links, ver |-> 0]]
        /\ names' = [names EXCEPT ![i] = 1]
        /\ dirs' = IF links = 2 THEN dirs \union {i} ELSE dirs \ {i}
    BY DEF Create
  <1>2. HeldBy(i) = {} /\ i \in INodes /\ i # ROOT
    BY <1>i, <1>1 DEF FreedWhenUnreachable
  <1>3. /\ d \in DiskType /\ d[i] = [used |-> TRUE, links |-> 0, ver |-> 0]
        /\ \A j \in INodes \ {i} : d[j] = disk[j]
    BY <1>i, Numbers DEF TypeOK, DiskType
  <1> HIDE DEF d
  <1>4. Leaves(i, d, b, r)
    BY <1>i, <1>1, <1>2, <1>3, IgetEffect
  <1>5. /\ b \in Buffers /\ r.node \in [Buffers -> AnyNode] /\ r.node[b].ino = i
        /\ r.node[b].ref = node[b].ref + 1 /\ \A c \in Buffers \ {b} : r.node[c] = node[c]
    BY <1>4 DEF Leaves
  <1> HIDE DEF r, b
  <1>6. /\ node' \in [Buffers -> AnyNode]
        /\ \A c \in Buffers \ {b} : node'[c] = r.node[c]
        /\ node'[b].ino = r.node[b].ino /\ node'[b].ref = r.node[b].ref
        /\ node'[b].links = links /\ node'[b].ver = r.node[b].ver /\ node'[b].changed
    <2>1. r.node[b] \in AnyNode /\ links \in 0..3
      BY <1>5
    <2>2. node' = [r.node EXCEPT ![b] = [r.node[b] EXCEPT !.links = links, !.changed = TRUE]]
      BY <1>1, <1>5
    <2>3. /\ [r.node[b] EXCEPT !.links = links, !.changed = TRUE] \in AnyNode
          /\ [r.node[b] EXCEPT !.links = links, !.changed = TRUE].ino = r.node[b].ino
          /\ [r.node[b] EXCEPT !.links = links, !.changed = TRUE].ref = r.node[b].ref
          /\ [r.node[b] EXCEPT !.links = links, !.changed = TRUE].links = links
          /\ [r.node[b] EXCEPT !.links = links, !.changed = TRUE].ver = r.node[b].ver
          /\ [r.node[b] EXCEPT !.links = links, !.changed = TRUE].changed
      BY <2>1 DEF AnyNode
    <2> QED
      BY <2>2, <2>3, <1>5
  <1>7. /\ FreeListExact' /\ OneCopy'
        /\ freeList' \in Seq(Buffers) /\ hashQ' \in [Queues -> Seq(Buffers)]
        /\ held' \in [Handles -> [buffer : Buffers \union {None}, ino : INodes]]
        /\ \A c \in Buffers : node'[c].ref \in 0..Cardinality(Handles)
        /\ held'[h] = [buffer |-> b, ino |-> i]
        /\ \A k \in Handles \ {h} : held'[k] = held[k]
        /\ \A c \in Buffers \ {b} : Cached(c)' => Cached(c)
    <2>1. \A c \in Buffers : node'[c].ino = r.node[c].ino /\ node'[c].ref = r.node[c].ref
      BY <1>6
    <2>2. \A c \in Buffers : /\ node'[c].ino = iget(i, d).node[c].ino
                             /\ node'[c].ref = iget(i, d).node[c].ref
      BY <2>1 DEF r
    <2>3. b = iget(i, d).buffer
      BY DEF r, b
    <2>4. node' \in [Buffers -> AnyNode]
      BY <1>6
    <2>5. ~Refers(h) /\ igetSucceeds(i) /\ Acquire(h, i, d) /\ i \in INodes /\ d \in DiskType
      BY <1>1, <1>2, <1>3
    <2>6. TypeOK /\ FreeListExact /\ OneCopy /\ HoldersSeeLatest
      BY <1>i
    <2> QED
      BY <2>2, <2>3, <2>4, <2>5, <2>6, AcquireKeepsLists
  <1>8. /\ node[b].ref = 0 /\ Content(r.node[b]) = Content(d[i])
        /\ \A c \in Buffers \ {b} : Cached(c) => node[c].ino # i
    <2>1. CASE /\ Cached(b) /\ node[b].ino = i
               /\ node[b].links = 0 => Content(r.node[b]) = Content(d[i])
      <3>1. node[b].ref = 0
        BY <2>1, <1>i, <1>2, <1>5, HeldByBuffer
      <3>2. node[b].links = 0
        BY <2>1, <3>1, <1>i, <1>1, <1>5 DEF Clean
      <3>3. \A c \in Buffers \ {b} : Cached(c) => node[c].ino # i
        BY <2>1, <1>i, <1>5, CachedUnique
      <3> QED
        BY <2>1, <3>1, <3>2, <3>3
    <2>2. CASE /\ node[b].ref = 0 /\ \A c \in Buffers : Cached(c) => node[c].ino # i
               /\ Content(r.node[b]) = Content(d[i])
      BY <2>2
    <2> QED
      BY <2>1, <2>2, <1>4 DEF Leaves
  <1>9. node'[b].ver = 0
    BY <1>3, <1>6, <1>8 DEF Content
  <1>10. /\ latest'[i] = [links |-> links, ver |-> 0] /\ \A j \in INodes \ {i} : latest'[j] = latest[j]
         /\ names'[i] = 1 /\ \A j \in INodes \ {i} : names'[j] = names[j]
         /\ latest' \in [INodes -> Record] /\ names' \in [INodes -> 0..2] /\ dirs' \subseteq INodes
         /\ (i \in dirs' <=> links = 2) /\ \A j \in INodes \ {i} : j \in dirs' <=> j \in dirs
    <2>1. [links |-> links, ver |-> 0] \in Record
      BY Numbers DEF Record
    <2>2. latest \in [INodes -> Record] /\ names \in [INodes -> 0..2] /\ dirs \subseteq INodes
      BY <1>i DEF TypeOK
    <2> QED
      BY <2>1, <2>2, <1>1, <1>2
  <1>11. TypeOK'
    BY <1>1, <1>3, <1>6, <1>7, <1>10, NodeType DEF TypeOK, Queues, DiskType
  <1>12. \A k \in Handles \ {h} : Refers(k) =>
            /\ held[k].buffer \in Buffers \ {b} /\ held[k].ino \in INodes \ {i}
            /\ node[held[k].buffer].ino = held[k].ino
            /\ Content(node[held[k].buffer]) = latest[held[k].ino]
    <2> SUFFICES ASSUME NEW k \in Handles \ {h}, Refers(k)
                 PROVE  /\ held[k].buffer \in Buffers \ {b} /\ held[k].ino \in INodes \ {i}
                        /\ node[held[k].buffer].ino = held[k].ino
                        /\ Content(node[held[k].buffer]) = latest[held[k].ino]
      OBVIOUS
    <2>1. /\ held[k].buffer \in Buffers /\ node[held[k].buffer].ref > 0
          /\ node[held[k].buffer].ino = held[k].ino
          /\ Content(node[held[k].buffer]) = latest[held[k].ino]
      BY <1>i, HolderFacts
    <2>2. held[k].ino \in INodes /\ held[k].ino # i
      BY <1>i, <1>2 DEF TypeOK, HeldBy
    <2> QED
      BY <2>1, <2>2, <1>8
  <1>13. HoldersSeeLatest'
    <2> SUFFICES ASSUME NEW k \in Handles, held'[k].buffer # None
                 PROVE  /\ node'[held'[k].buffer].ino = held'[k].ino
                        /\ Content(node'[held'[k].buffer]) = latest'[held'[k].ino]
      BY DEF HoldersSeeLatest, Refers, Content
    <2>1. CASE k = h
      BY <2>1, <1>5, <1>6, <1>7, <1>9, <1>10 DEF Content
    <2>2. CASE k # h
      <3>1. held'[k] = held[k] /\ Refers(k)
        BY <2>2, <1>7 DEF Refers
      <3> QED
        BY <2>2, <3>1, <1>5, <1>6, <1>10, <1>12
    <2> QED
      BY <2>1, <2>2
  <1>14. \A j \in INodes : HeldBy(j)' = IF j = i THEN {h} ELSE HeldBy(j)
    <2>1. held'[h].buffer # None /\ held'[h].ino = i /\ held[h].buffer = None
      BY <1>1, <1>5, <1>7, CacheAssumption DEF Refers
    <2> QED
      BY <2>1, <1>2, <1>7 DEF HeldBy, Refers
  <1>15. WrittenBack'
    <2> SUFFICES ASSUME NEW j \in INodes, disk'[j].used, HeldBy(j)' = {}
                 PROVE  Content(disk'[j]) = latest'[j]
      BY DEF WrittenBack, Content
    <2>1. j # i /\ HeldBy(j) = {}
      BY <1>14
    <2> QED
      BY <2>1, <1>i, <1>1, <1>3, <1>10 DEF WrittenBack, Content
  <1>16. FreedWhenUnreachable'
    BY <1>i, <1>1, <1>3, <1>10, <1>14 DEF FreedWhenUnreachable
  <1>17. Clean'
    <2> SUFFICES ASSUME NEW c \in Buffers
                 PROVE  /\ node'[c].ref = 0 => ~node'[c].changed
                        /\ Cached(c)' /\ ~node'[c].changed /\ (node'[c].ref > 0 \/ node'[c].links # 0) =>
                              disk'[node'[c].ino].used /\ Content(node'[c]) = Content(disk'[node'[c].ino])
      BY DEF Clean, Content
    <2>1. CASE c # b
      <3>1. node'[c] = node[c] /\ node[c].ino \in INodes /\ (Cached(c)' => Cached(c))
        BY <2>1, <1>i, <1>5, <1>6, <1>7, Types DEF AnyNode
      <3>2. Cached(c) => disk'[node[c].ino] = disk[node[c].ino]
        BY <2>1, <3>1, <1>1, <1>3, <1>8
      <3> QED
        BY <3>1, <3>2, <1>i DEF Clean
    <2>2. CASE c = b
      <3>1. node[b].ref \in Nat
        BY <1>i, <1>5, Types DEF AnyNode
      <3> QED
        BY <2>2, <3>1, <1>5, <1>6
    <2> QED
      BY <2>1, <2>2
  <1>18. LinksCount'
    <2>1. disk'[ROOT] = disk[ROOT] /\ latest'[ROOT] = latest[ROOT]
      BY <1>1, <1>2, <1>3, <1>10, Numbers
    <2>2. ASSUME NEW j \in INodes \ {ROOT}, disk'[j].used
          PROVE  latest'[j].links = names'[j] + (IF j \in dirs' THEN 1 ELSE 0)
      <3>1. CASE j = i
        BY <3>1, <1>10
      <3>2. CASE j # i
        BY <2>2, <3>2, <1>i, <1>1, <1>3, <1>10 DEF LinksCount
      <3> QED
        BY <3>1, <3>2
    <2> QED
      BY <2>1, <2>2, <1>i DEF LinksCount
  <1> QED
    BY <1>7, <1>11, <1>13, <1>15, <1>16, <1>17, <1>18 DEF Inv

\* A handle changes its inode to have L links and version V.
LEMMA ChangeInv ==
    ASSUME Inv, NEW h \in Handles, Refers(h), NEW b, b = held[h].buffer, NEW i, i = held[h].ino,
           NEW L \in 0..3, NEW V \in 0..MaxVersion,
           node' \in [Buffers -> AnyNode], \A c \in Buffers \ {b} : node'[c] = node[c],
           node'[b].ino = node[b].ino, node'[b].ref = node[b].ref,
           node'[b].links = L, node'[b].ver = V, node'[b].changed,
           latest' \in [INodes -> Record], latest'[i] = [links |-> L, ver |-> V],
           \A j \in INodes \ {i} : latest'[j] = latest[j],
           names' \in [INodes -> 0..2], \A j \in INodes \ {i} : names'[j] = names[j],
           i # ROOT => L = names'[i] + (IF i \in dirs THEN 1 ELSE 0),
           i = ROOT => L = 0,
           freeList' = freeList, hashQ' = hashQ, disk' = disk, held' = held, dirs' = dirs
    PROVE  Inv'
  <1>i. /\ TypeOK /\ FreeListExact /\ OneCopy /\ HoldersSeeLatest /\ WrittenBack
        /\ FreedWhenUnreachable /\ Clean /\ LinksCount
    BY DEF Inv
  <1>1. /\ b \in Buffers /\ node[b].ref > 0 /\ node[b].ino = i /\ Cached(b) /\ i \in INodes
        /\ node \in [Buffers -> AnyNode]
    BY <1>i, HolderFacts, Types DEF TypeOK
  <1>2. /\ node' \in [Buffers -> AnyNode] /\ \A c \in Buffers \ {b} : node'[c] = node[c]
        /\ node'[b].ino = i /\ node'[b].ref = node[b].ref
        /\ node'[b].links = L /\ node'[b].ver = V /\ node'[b].changed
    BY <1>1
  <1>3. \A c \in Buffers : node'[c].ino = node[c].ino /\ node'[c].ref = node[c].ref
    BY <1>1, <1>2
  <1>4. /\ latest' \in [INodes -> Record] /\ latest'[i] = [links |-> L, ver |-> V]
        /\ \A j \in INodes \ {i} : latest'[j] = latest[j]
    OBVIOUS
  <1>5. TypeOK'
    <2>1. \A c \in Buffers : node'[c].ref \in 0..Cardinality(Handles)
      BY <1>i, <1>3, Types
    <2> QED
      BY <2>1, <1>i, <1>2, <1>4, NodeType DEF TypeOK
  <1>6. FreeListExact'
    <2>1. /\ ToSet(freeList) = {c \in Buffers : node[c].ref = 0} /\ IsInjective(freeList)
          /\ \A c \in Buffers : node[c].ref = Cardinality(Holders(c))
      BY <1>i DEF FreeListExact, Holders
    <2>2. \A c \in Buffers : Holders(c)' = Holders(c)
      BY DEF Holders
    <2>3. {c \in Buffers : node'[c].ref = 0} = {c \in Buffers : node[c].ref = 0}
      BY <1>3
    <2>4. \A c \in Buffers : node'[c].ref = Cardinality(Holders(c)')
      BY <2>1, <2>2, <1>3
    <2> QED
      BY <2>1, <2>3, <2>4 DEF FreeListExact, Holders
  <1>7. OneCopy'
    <2>1. \A q \in Queues : ToSet(hashQ[q]) \subseteq Buffers
      BY <1>i, Types
    <2>2. DOMAIN hashQ = Queues
      BY <1>i, Types
    <2> QED
      BY <2>1, <2>2, <1>i, <1>3 DEF OneCopy
  <1>8. \A c \in Buffers : Cached(c)' <=> Cached(c)
    BY <1>3 DEF Cached
  <1>9. \A j \in INodes : HeldBy(j)' = HeldBy(j)
    BY DEF HeldBy, Refers
  <1>10. h \in HeldBy(i)
    BY DEF HeldBy
  <1>11. HoldersSeeLatest'
    <2> SUFFICES ASSUME NEW k \in Handles, Refers(k)
                 PROVE  /\ node'[held[k].buffer].ino = held[k].ino
                        /\ Content(node'[held[k].buffer]) = latest'[held[k].ino]
      BY DEF HoldersSeeLatest, Refers, Content
    <2>1. /\ held[k].buffer \in Buffers /\ node[held[k].buffer].ino = held[k].ino
          /\ Cached(held[k].buffer) /\ held[k].ino \in INodes
          /\ Content(node[held[k].buffer]) = latest[held[k].ino]
      BY <1>i, HolderFacts DEF TypeOK
    <2>2. CASE held[k].ino = i
      <3>1. held[k].buffer = b
        BY <2>1, <2>2, <1>i, <1>1, CachedUnique
      <3> QED
        BY <2>2, <3>1, <1>2, <1>4 DEF Content
    <2>3. CASE held[k].ino # i
      BY <2>1, <2>3, <1>1, <1>2, <1>4
    <2> QED
      BY <2>2, <2>3
  <1>12. WrittenBack'
    <2> SUFFICES ASSUME NEW j \in INodes, disk[j].used, HeldBy(j) = {}
                 PROVE  Content(disk[j]) = latest'[j]
      BY <1>9 DEF WrittenBack, Content
    <2> QED
      BY <1>i, <1>4, <1>10 DEF WrittenBack, Content
  <1>13. FreedWhenUnreachable'
    <2>1. i # ROOT => disk[i].used
      BY <1>i, <1>1, <1>10 DEF FreedWhenUnreachable
    <2> QED
      BY <2>1, <1>i, <1>9, <1>10 DEF FreedWhenUnreachable
  <1>14. Clean'
    <2> SUFFICES ASSUME NEW c \in Buffers
                 PROVE  /\ node'[c].ref = 0 => ~node'[c].changed
                        /\ Cached(c)' /\ ~node'[c].changed /\ (node'[c].ref > 0 \/ node'[c].links # 0) =>
                              disk[node'[c].ino].used /\ Content(node'[c]) = Content(disk[node'[c].ino])
      BY DEF Clean, Content
    <2>1. CASE c # b
      BY <2>1, <1>i, <1>2, <1>8 DEF Clean
    <2>2. CASE c = b
      BY <2>2, <1>1, <1>2
    <2> QED
      BY <2>1, <2>2
  <1>15. LinksCount'
    <2>1. ASSUME NEW j \in INodes \ {ROOT}, disk[j].used
          PROVE  latest'[j].links = names'[j] + (IF j \in dirs THEN 1 ELSE 0)
      <3>1. CASE j = i
        BY <3>1, <2>1, <1>4
      <3>2. CASE j # i
        BY <2>1, <3>2, <1>i, <1>4 DEF LinksCount
      <3> QED
        BY <3>1, <3>2
    <2>2. latest'[ROOT].links = 0
      BY <1>i, <1>4, Numbers DEF LinksCount
    <2> QED
      BY <2>1, <2>2, <1>i DEF LinksCount
  <1> QED
    BY <1>5, <1>6, <1>7, <1>11, <1>12, <1>13, <1>14, <1>15 DEF Inv

\* What a handle knows before it changes its inode.
LEMMA HandleFacts ==
    ASSUME Inv, NEW h \in Handles, Refers(h), NEW b, b = held[h].buffer, NEW i, i = held[h].ino
    PROVE  /\ b \in Buffers /\ i \in INodes /\ node[b] \in AnyNode /\ node \in [Buffers -> AnyNode]
           /\ node[b].ref > 0 /\ node[b].ino = i /\ Cached(b)
           /\ latest[i] = [links |-> node[b].links, ver |-> node[b].ver]
           /\ latest[i] \in Record /\ latest \in [INodes -> Record]
           /\ names[i] \in 0..2 /\ names \in [INodes -> 0..2] /\ disk[i].used
           /\ i # ROOT => node[b].links = names[i] + (IF i \in dirs THEN 1 ELSE 0)
           /\ i = ROOT => node[b].links = 0
  <1>i. TypeOK /\ FreeListExact /\ OneCopy /\ HoldersSeeLatest /\ FreedWhenUnreachable /\ LinksCount
    BY DEF Inv
  <1>1. /\ b \in Buffers /\ node[b].ref > 0 /\ node[b].ino = i /\ Cached(b)
        /\ Content(node[b]) = latest[i] /\ i \in INodes
    BY <1>i, HolderFacts DEF TypeOK
  <1>2. node[b] \in AnyNode /\ node \in [Buffers -> AnyNode]
    BY <1>1, <1>i, Types
  <1>3. /\ latest \in [INodes -> Record] /\ latest[i] \in Record
        /\ names \in [INodes -> 0..2] /\ names[i] \in 0..2
    BY <1>1, <1>i DEF TypeOK
  <1>4. latest[i] = [links |-> node[b].links, ver |-> node[b].ver]
    BY <1>1 DEF Content
  <1>5. disk[i].used
    <2>1. h \in HeldBy(i)
      BY DEF HeldBy
    <2> QED
      BY <2>1, <1>1, <1>i DEF FreedWhenUnreachable, LinksCount
  <1>6. /\ i # ROOT => latest[i].links = names[i] + (IF i \in dirs THEN 1 ELSE 0)
        /\ i = ROOT => latest[i].links = 0
    BY <1>1, <1>5, <1>i DEF LinksCount
  <1>7. latest[i].links = node[b].links
    BY <1>4
  <1> QED
    BY <1>1, <1>2, <1>3, <1>4, <1>5, <1>6, <1>7

\* A handle changes the contents of its inode.
LEMMA UpdateInv ==
    ASSUME Inv, NEW h \in Handles, Update(h)
    PROVE  Inv'
  <1> DEFINE b == held[h].buffer
             i == held[h].ino
             L == node[b].links
             V == node[b].ver + 1
  <1>1. /\ Refers(h) /\ node[b].ver < MaxVersion
        /\ node' = [node EXCEPT ![b].ver = @ + 1, ![b].changed = TRUE]
        /\ latest' = [latest EXCEPT ![i].ver = @ + 1]
        /\ freeList' = freeList /\ hashQ' = hashQ /\ disk' = disk /\ held' = held
        /\ names' = names /\ dirs' = dirs
    BY DEF Update
  <1>2. /\ b \in Buffers /\ i \in INodes /\ node[b] \in AnyNode /\ node \in [Buffers -> AnyNode]
        /\ latest[i] = [links |-> node[b].links, ver |-> node[b].ver]
        /\ latest \in [INodes -> Record] /\ names \in [INodes -> 0..2]
        /\ i # ROOT => L = names[i] + (IF i \in dirs THEN 1 ELSE 0)
        /\ i = ROOT => L = 0
    BY <1>1, HandleFacts
  <1> HIDE DEF b, i
  <1>3. L \in 0..3 /\ V \in 0..MaxVersion
    BY <1>1, <1>2, CacheAssumption DEF AnyNode
  <1>4. /\ node' \in [Buffers -> AnyNode] /\ \A c \in Buffers \ {b} : node'[c] = node[c]
        /\ node'[b].ino = node[b].ino /\ node'[b].ref = node[b].ref
        /\ node'[b].links = L /\ node'[b].ver = V /\ node'[b].changed
    <2> DEFINE m == [node[b] EXCEPT !.ver = V, !.changed = TRUE]
    <2>1. node' = [node EXCEPT ![b] = m]
      BY <1>1, <1>2
    <2>2. /\ m \in AnyNode /\ m.ino = node[b].ino /\ m.ref = node[b].ref
          /\ m.links = L /\ m.ver = V /\ m.changed
      BY <1>2, <1>3 DEF AnyNode
    <2> HIDE DEF m
    <2>3. /\ node' \in [Buffers -> AnyNode] /\ \A c \in Buffers \ {b} : node'[c] = node[c]
          /\ node'[b] = m
      BY <2>1, <2>2, <1>2
    <2> QED
      BY <2>2, <2>3
  <1>5. /\ latest' \in [INodes -> Record] /\ latest'[i] = [links |-> L, ver |-> V]
        /\ \A j \in INodes \ {i} : latest'[j] = latest[j]
    <2>1. latest' = [latest EXCEPT ![i] = [latest[i] EXCEPT !.ver = latest[i].ver + 1]]
      BY <1>1, <1>2
    <2>2. /\ [latest[i] EXCEPT !.ver = latest[i].ver + 1] = [links |-> L, ver |-> V]
          /\ [links |-> L, ver |-> V] \in Record
      BY <1>2, <1>3 DEF Record
    <2>3. latest' = [latest EXCEPT ![i] = [links |-> L, ver |-> V]]
      BY <2>1, <2>2
    <2> QED
      BY <2>2, <2>3, <1>2
  <1> HIDE DEF L, V
  <1> QED
    <2>1. /\ Refers(h) /\ b = held[h].buffer /\ i = held[h].ino
          /\ freeList' = freeList /\ hashQ' = hashQ /\ disk' = disk /\ held' = held /\ dirs' = dirs
      BY <1>1 DEF b, i
    <2>2. /\ names' \in [INodes -> 0..2] /\ \A j \in INodes \ {i} : names'[j] = names[j]
          /\ i # ROOT => L = names'[i] + (IF i \in dirs THEN 1 ELSE 0)
          /\ i = ROOT => L = 0
      BY <1>1, <1>2 DEF L
    <2> QED
      BY <2>1, <2>2, <1>3, <1>4, <1>5, ChangeInv

\* A handle gives its inode one name and one link more, or less.
Renames(h, by) ==
    /\ node' = [node EXCEPT ![held[h].buffer].links = @ + by, ![held[h].buffer].changed = TRUE]
    /\ latest' = [latest EXCEPT ![held[h].ino].links = @ + by]
    /\ names' = [names EXCEPT ![held[h].ino] = @ + by]

\* It keeps the invariant.
LEMMA NameInv ==
    ASSUME Inv, NEW h \in Handles, Refers(h), NEW b, b = held[h].buffer, NEW i, i = held[h].ino,
           i # ROOT, NEW by \in {-1, 1}, names[i] + by \in 0..2, Renames(h, by),
           freeList' = freeList, hashQ' = hashQ, disk' = disk, held' = held, dirs' = dirs
    PROVE  Inv'
  <1> DEFINE L == node[b].links + by
             V == node[b].ver
  <1>2. /\ b \in Buffers /\ i \in INodes /\ node[b] \in AnyNode /\ node \in [Buffers -> AnyNode]
        /\ latest[i] = [links |-> node[b].links, ver |-> node[b].ver]
        /\ latest \in [INodes -> Record] /\ names \in [INodes -> 0..2] /\ names[i] \in 0..2
        /\ node[b].links = names[i] + (IF i \in dirs THEN 1 ELSE 0)
    BY HandleFacts
  <1>3. L \in 0..3 /\ V \in 0..MaxVersion
    BY <1>2 DEF AnyNode
  <1>4. /\ node' \in [Buffers -> AnyNode] /\ \A c \in Buffers \ {b} : node'[c] = node[c]
        /\ node'[b].ino = node[b].ino /\ node'[b].ref = node[b].ref
        /\ node'[b].links = L /\ node'[b].ver = V /\ node'[b].changed
    <2> DEFINE m == [node[b] EXCEPT !.links = L, !.changed = TRUE]
    <2>1. node' = [node EXCEPT ![b] = m]
      BY <1>2 DEF Renames
    <2>2. /\ m \in AnyNode /\ m.ino = node[b].ino /\ m.ref = node[b].ref
          /\ m.links = L /\ m.ver = V /\ m.changed
      BY <1>2, <1>3 DEF AnyNode
    <2> HIDE DEF m
    <2>3. /\ node' \in [Buffers -> AnyNode] /\ \A c \in Buffers \ {b} : node'[c] = node[c]
          /\ node'[b] = m
      BY <2>1, <2>2, <1>2
    <2> QED
      BY <2>2, <2>3
  <1>5. /\ latest' \in [INodes -> Record] /\ latest'[i] = [links |-> L, ver |-> V]
        /\ \A j \in INodes \ {i} : latest'[j] = latest[j]
    <2>1. latest' = [latest EXCEPT ![i] = [latest[i] EXCEPT !.links = latest[i].links + by]]
      BY <1>2 DEF Renames
    <2>2. /\ [latest[i] EXCEPT !.links = latest[i].links + by] = [links |-> L, ver |-> V]
          /\ [links |-> L, ver |-> V] \in Record
      BY <1>2, <1>3 DEF Record
    <2>3. latest' = [latest EXCEPT ![i] = [links |-> L, ver |-> V]]
      BY <2>1, <2>2
    <2> QED
      BY <2>2, <2>3, <1>2
  <1>6. /\ names' \in [INodes -> 0..2] /\ \A j \in INodes \ {i} : names'[j] = names[j]
        /\ names'[i] = names[i] + by
    BY <1>2 DEF Renames
  <1>7. L = names'[i] + (IF i \in dirs THEN 1 ELSE 0)
    BY <1>2, <1>6
  <1> HIDE DEF L, V
  <1> QED
    BY <1>3, <1>4, <1>5, <1>6, <1>7, ChangeInv

\* renameFile gives the inode a second name.
LEMMA LinkInv ==
    ASSUME Inv, NEW h \in Handles, Link(h)
    PROVE  Inv'
  <1> DEFINE b == held[h].buffer
             i == held[h].ino
  <1>1. /\ Refers(h) /\ i # ROOT /\ names[i] = 1
        /\ node' = [node EXCEPT ![b].links = @ + 1, ![b].changed = TRUE]
        /\ latest' = [latest EXCEPT ![i].links = @ + 1]
        /\ names' = [names EXCEPT ![i] = 2]
        /\ freeList' = freeList /\ hashQ' = hashQ /\ disk' = disk /\ held' = held /\ dirs' = dirs
    BY DEF Link
  <1>2. names' = [names EXCEPT ![i] = @ + 1] /\ names[i] + 1 \in 0..2
    BY <1>1
  <1>3. Renames(h, 1)
    BY <1>1, <1>2 DEF Renames
  <1> QED
    BY <1>1, <1>2, <1>3, NameInv

\* unlinkFileFromINode removes a name of the inode.
LEMMA UnlinkInv ==
    ASSUME Inv, NEW h \in Handles, Unlink(h)
    PROVE  Inv'
  <1> DEFINE b == held[h].buffer
             i == held[h].ino
  <1>1. /\ Refers(h) /\ i # ROOT /\ names[i] > 0
        /\ node' = [node EXCEPT ![b].links = @ - 1, ![b].changed = TRUE]
        /\ latest' = [latest EXCEPT ![i].links = @ - 1]
        /\ names' = [names EXCEPT ![i] = @ - 1]
        /\ freeList' = freeList /\ hashQ' = hashQ /\ disk' = disk /\ held' = held /\ dirs' = dirs
    BY DEF Unlink
  <1>2. /\ b \in Buffers /\ i \in INodes /\ node[b].links \in 0..3 /\ names[i] \in 0..2
        /\ latest[i].links \in 0..3
    <2>1. /\ b \in Buffers /\ i \in INodes /\ node[b] \in AnyNode
          /\ names[i] \in 0..2 /\ latest[i] \in Record
      BY <1>1, HandleFacts
    <2> QED
      BY <2>1 DEF AnyNode, Record
  <1>3. names[i] + (-1) \in 0..2
    BY <1>1, <1>2
  <1>4. /\ node' = [node EXCEPT ![b].links = @ + (-1), ![b].changed = TRUE]
        /\ latest' = [latest EXCEPT ![i].links = @ + (-1)]
        /\ names' = [names EXCEPT ![i] = @ + (-1)]
    <2>1. /\ node[b].links - 1 = node[b].links + (-1) /\ names[i] - 1 = names[i] + (-1)
          /\ latest[i].links - 1 = latest[i].links + (-1)
      BY <1>2
    <2> QED
      BY <2>1, <1>1
  <1>5. Renames(h, -1)
    BY <1>4 DEF Renames
  <1> QED
    BY <1>1, <1>3, <1>5, NameInv

\* A reference that is not the last one is given up.
LEMMA IputSharedInv ==
    ASSUME Inv, NEW h \in Handles, IputShared(h)
    PROVE  Inv'
  <1>b. PICK b : b = held[h].buffer
    OBVIOUS
  <1>n. PICK i : i = held[h].ino
    OBVIOUS
  <1>i. /\ TypeOK /\ FreeListExact /\ OneCopy /\ HoldersSeeLatest /\ WrittenBack
        /\ FreedWhenUnreachable /\ Clean /\ LinksCount
    BY DEF Inv
  <1>1. /\ Refers(h) /\ node[b].ref > 1
        /\ node' = [node EXCEPT ![b].ref = @ - 1]
        /\ held' = [held EXCEPT ![h] = NoRef]
        /\ freeList' = freeList /\ hashQ' = hashQ /\ disk' = disk
        /\ latest' = latest /\ names' = names /\ dirs' = dirs
    BY <1>b DEF IputShared
  <1>2. /\ b \in Buffers /\ i \in INodes /\ node[b] \in AnyNode /\ node \in [Buffers -> AnyNode]
        /\ node[b].ino = i /\ Cached(b)
    <2>1. Refers(h)
      BY <1>1
    <2>2. Cached(b)
      BY <2>1, <1>b, <1>i, HolderFacts
    <2>3. b \in Buffers /\ i \in INodes
      BY <2>1, <1>b, <1>n, HandleFacts
    <2>4. node[b] \in AnyNode
      BY <2>1, <1>b, <1>n, HandleFacts
    <2>5. node \in [Buffers -> AnyNode]
      BY <2>1, <1>b, <1>n, HandleFacts
    <2>6. node[b].ino = i
      BY <2>1, <1>b, <1>n, <1>i, HolderFacts
    <2> QED
      BY <2>2, <2>3, <2>4, <2>5, <2>6
  <1>3. /\ held' \in [Handles -> [buffer : Buffers \union {None}, ino : INodes]]
        /\ held'[h].buffer = None /\ held[h].buffer = b
        /\ \A k \in Handles \ {h} : held'[k] = held[k]
    BY <1>b, <1>i, <1>1, Numbers DEF TypeOK, NoRef
  <1>4. /\ node' \in [Buffers -> AnyNode] /\ \A c \in Buffers \ {b} : node'[c] = node[c]
        /\ node'[b].ref = node[b].ref - 1 /\ node'[b].ref > 0
        /\ node'[b].ino = node[b].ino /\ node'[b].changed = node[b].changed
        /\ node'[b].links = node[b].links /\ node'[b].ver = node[b].ver
    <2> DEFINE m == [node[b] EXCEPT !.ref = @ - 1]
    <2>1. /\ m \in AnyNode /\ m.ref = node[b].ref - 1 /\ m.ref > 0 /\ m.ino = node[b].ino
          /\ m.changed = node[b].changed /\ m.links = node[b].links /\ m.ver = node[b].ver
      BY <1>1, <1>2 DEF AnyNode
    <2>2. node' = [node EXCEPT ![b] = m]
      BY <1>1, <1>2
    <2> HIDE DEF m
    <2> QED
      BY <2>1, <2>2, <1>2
  <1>5. \A c \in Buffers : /\ node'[c].ino = node[c].ino /\ node'[c].changed = node[c].changed
                           /\ Content(node'[c]) = Content(node[c]) /\ node'[c].links = node[c].links
                           /\ (node'[c].ref = 0 <=> node[c].ref = 0)
                           /\ (node'[c].ref > 0 <=> node[c].ref > 0)
                           /\ node'[c].ref \in 0..Cardinality(Handles)
    <2>1. \A c \in Buffers : node[c].ref \in 0..Cardinality(Handles)
      BY <1>i, Types
    <2> QED
      BY <2>1, <1>1, <1>2, <1>4, Numbers DEF Content
  <1>6. ASSUME NEW c \in Buffers
        PROVE  node'[c].ref = Cardinality(Holders(c)')
    <2>1. IsFiniteSet(Holders(c)) /\ node[c].ref = Cardinality(Holders(c))
      BY <1>i, HolderFacts
    <2>2. CASE c = b
      <3>1. Holders(c)' = Holders(c) \ {h} /\ h \in Holders(c)
        BY <2>2, <1>2, <1>3, CacheAssumption DEF Holders
      <3>2. Cardinality(Holders(c) \ {h}) = Cardinality(Holders(c)) - 1
        BY <2>1, <3>1, FS_RemoveElement
      <3> QED
        BY <2>1, <2>2, <3>1, <3>2, <1>4
    <2>3. CASE c # b
      <3>1. Holders(c)' = Holders(c)
        BY <2>3, <1>3, CacheAssumption DEF Holders
      <3> QED
        BY <2>1, <2>3, <3>1, <1>4
    <2> QED
      BY <2>2, <2>3
  <1>7. TypeOK'
    BY <1>i, <1>1, <1>3, <1>4, <1>5, NodeType DEF TypeOK
  <1>8. FreeListExact'
    BY <1>i, <1>1, <1>5, <1>6 DEF FreeListExact, Holders
  <1>9. OneCopy'
    <2>1. DOMAIN hashQ = Queues /\ \A q \in Queues : ToSet(hashQ[q]) \subseteq Buffers
      BY <1>i, Types
    <2> QED
      BY <2>1, <1>i, <1>1, <1>5 DEF OneCopy
  <1>10. \A c \in Buffers : Cached(c)' <=> Cached(c)
    BY <1>1, <1>5 DEF Cached
  <1>11. HoldersSeeLatest'
    <2> SUFFICES ASSUME NEW k \in Handles, held'[k].buffer # None
                 PROVE  /\ node'[held'[k].buffer].ino = held'[k].ino
                        /\ Content(node'[held'[k].buffer]) = latest[held'[k].ino]
      BY <1>1 DEF HoldersSeeLatest, Refers, Content
    <2>1. held'[k] = held[k] /\ Refers(k)
      BY <1>3 DEF Refers
    <2> QED
      BY <2>1, <1>i, <1>5, HolderFacts
  <1>12. ASSUME NEW j \in INodes
         PROVE  HeldBy(j)' = {} <=> HeldBy(j) = {}
    <2>1. HeldBy(j)' \subseteq HeldBy(j)
      BY <1>3 DEF HeldBy, Refers
    <2>2. ASSUME NEW k \in HeldBy(j)
          PROVE  HeldBy(j)' # {}
      <3>1. k \in Handles /\ Refers(k) /\ held[k].ino = j
        BY <2>2 DEF HeldBy
      <3>2. CASE k # h
        BY <3>1, <3>2, <1>3 DEF HeldBy, Refers
      <3>3. CASE k = h
        <4>1. Holders(b)' # {}
          <5>1. Cardinality(Holders(b)') # 0
            BY <1>2, <1>4, <1>6
          <5> QED
            BY <5>1, FS_EmptySet
        <4>2. PICK m \in Handles : held'[m].buffer = b
          BY <4>1 DEF Holders
        <4>3. m # h /\ held'[m] = held[m]
          BY <4>2, <1>2, <1>3, CacheAssumption
        <4>4. Refers(m) /\ held[m].buffer = b
          BY <4>2, <4>3, <1>2, CacheAssumption DEF Refers
        <4>5. held[m].ino = j
          BY <4>4, <3>1, <3>3, <1>i, <1>3, HolderFacts
        <4> QED
          BY <4>3, <4>4, <4>5 DEF HeldBy, Refers
      <3> QED
        BY <3>2, <3>3
    <2> QED
      BY <2>1, <2>2
  <1>13. WrittenBack'
    BY <1>i, <1>1, <1>12 DEF WrittenBack
  <1>14. FreedWhenUnreachable'
    BY <1>i, <1>1, <1>12 DEF FreedWhenUnreachable
  <1>15. Clean'
    <2> SUFFICES ASSUME NEW c \in Buffers
                 PROVE  /\ node'[c].ref = 0 => ~node'[c].changed
                        /\ Cached(c)' /\ ~node'[c].changed /\ (node'[c].ref > 0 \/ node'[c].links # 0) =>
                              disk[node'[c].ino].used /\ Content(node'[c]) = Content(disk[node'[c].ino])
      BY <1>1 DEF Clean, Content
    <2> QED
      BY <1>i, <1>5, <1>10 DEF Clean
  <1>16. LinksCount'
    BY <1>i, <1>1 DEF LinksCount
  <1> QED
    BY <1>7, <1>8, <1>9, <1>11, <1>13, <1>14, <1>15, <1>16 DEF Inv

\* What the last iput leaves on the disk: the inode as its holder left it, or,
\* if it has no links, a free one.
LEMMA IputLastDisk ==
    ASSUME Inv, NEW h \in Handles, Refers(h), NEW b, b = held[h].buffer, NEW i, i = held[h].ino,
           NEW d, d = freeIfUnlinked(b, writeINodeToDisk(b, disk))
    PROVE  /\ d \in DiskType
           /\ \A j \in INodes \ {i} : d[j] = disk[j]
           /\ node[b].links = 0 /\ i # ROOT => ~d[i].used
           /\ node[b].links # 0 \/ i = ROOT => d[i].used /\ Content(d[i]) = Content(node[b])
  <1>i. TypeOK /\ FreeListExact /\ OneCopy /\ HoldersSeeLatest /\ Clean
    BY DEF Inv
  <1>1. /\ b \in Buffers /\ i \in INodes /\ node[b] \in AnyNode /\ disk[i].used
    BY HandleFacts
  <1>2. Cached(b) /\ node[b].ino = i /\ node[b].ref > 0
    BY <1>i, HolderFacts
  <1>3. disk \in DiskType /\ disk[i] \in [used : BOOLEAN, links : 0..3, ver : 0..MaxVersion]
    BY <1>i, <1>1 DEF TypeOK, DiskType
  <1> DEFINE w == writeINodeToDisk(b, disk)
  <1>4. /\ w \in DiskType /\ \A j \in INodes \ {i} : w[j] = disk[j]
        /\ w[i].used /\ Content(w[i]) = Content(node[b])
    <2>1. CASE node[b].changed
      <3> DEFINE m == [disk[i] EXCEPT !.links = node[b].links, !.ver = node[b].ver]
      <3>1. w = [disk EXCEPT ![i] = m]
        BY <2>1, <1>1, <1>2, <1>3 DEF writeINodeToDisk, DiskType
      <3>2. /\ m \in [used : BOOLEAN, links : 0..3, ver : 0..MaxVersion]
            /\ m.used = disk[i].used /\ Content(m) = Content(node[b])
        BY <1>1, <1>3 DEF AnyNode, Content
      <3> HIDE DEF m, w
      <3>3. w \in DiskType /\ w[i] = m /\ \A j \in INodes \ {i} : w[j] = disk[j]
        BY <3>1, <3>2, <1>1, <1>3 DEF DiskType
      <3> QED
        BY <3>2, <3>3, <1>1
    <2>2. CASE ~node[b].changed
      <3>1. w = disk
        BY <2>2 DEF writeINodeToDisk
      <3>2. Content(node[b]) = Content(disk[i])
        BY <2>2, <1>i, <1>1, <1>2 DEF Clean
      <3> QED
        BY <3>1, <3>2, <1>1, <1>3
    <2> QED
      BY <2>1, <2>2
  <1> HIDE DEF w
  <1>5. d = IF node[b].links = 0 /\ i # ROOT
            THEN [w EXCEPT ![i] = [used |-> FALSE, links |-> 0, ver |-> 0]] ELSE w
    BY <1>2 DEF freeIfUnlinked, w
  <1>6. CASE node[b].links = 0 /\ i # ROOT
    <2>1. d = [w EXCEPT ![i] = [used |-> FALSE, links |-> 0, ver |-> 0]]
      BY <1>5, <1>6
    <2>2. /\ d \in DiskType /\ d[i] = [used |-> FALSE, links |-> 0, ver |-> 0]
          /\ \A j \in INodes \ {i} : d[j] = w[j]
      BY <2>1, <1>1, <1>4, Numbers DEF DiskType
    <2>3. ~d[i].used
      BY <2>2
    <2> QED
      BY <2>2, <2>3, <1>4, <1>6
  <1>7. CASE ~(node[b].links = 0 /\ i # ROOT)
    <2>1. d = w
      BY <1>5, <1>7
    <2> QED
      BY <2>1, <1>4, <1>7
  <1> QED
    BY <1>6, <1>7

\* The last reference is given up.
LEMMA IputLastInv ==
    ASSUME Inv, NEW h \in Handles, IputLast(h)
    PROVE  Inv'
  <1>b. PICK b : b = held[h].buffer
    OBVIOUS
  <1>n. PICK i : i = held[h].ino
    OBVIOUS
  <1>i. /\ TypeOK /\ FreeListExact /\ OneCopy /\ HoldersSeeLatest /\ WrittenBack
        /\ FreedWhenUnreachable /\ Clean /\ LinksCount
    BY DEF Inv
  <1>1. /\ Refers(h) /\ node[b].ref = 1
        /\ node' = [node EXCEPT ![b].ref = 0, ![b].changed = FALSE]
        /\ disk' = freeIfUnlinked(b, writeINodeToDisk(b, disk))
        /\ freeList' = returnToFreeList(b)
        /\ held' = [held EXCEPT ![h] = NoRef]
        /\ latest' = IF disk'[node[b].ino].used THEN latest
                     ELSE [latest EXCEPT ![node[b].ino] = Free]
        /\ hashQ' = hashQ /\ names' = names /\ dirs' = dirs
    BY <1>b DEF IputLast
  <1>r. Refers(h)
    BY <1>1
  <1>2. /\ b \in Buffers /\ i \in INodes /\ node[b] \in AnyNode /\ node \in [Buffers -> AnyNode]
        /\ latest \in [INodes -> Record] /\ names[i] \in 0..2 /\ disk[i].used
        /\ i # ROOT => node[b].links = names[i] + (IF i \in dirs THEN 1 ELSE 0)
        /\ i = ROOT => node[b].links = 0
    <2>1. b \in Buffers /\ i \in INodes
      BY <1>b, <1>n, <1>r, HandleFacts
    <2>2. node[b] \in AnyNode
      BY <1>b, <1>n, <1>r, HandleFacts
    <2>3. node \in [Buffers -> AnyNode]
      BY <1>b, <1>n, <1>r, HandleFacts
    <2>4. latest \in [INodes -> Record] /\ names[i] \in 0..2
      BY <2>1, <1>i DEF TypeOK
    <2>5. disk[i].used
      BY <1>b, <1>n, <1>r, HandleFacts
    <2>6. Content(node[b]) = latest[i]
      BY <1>b, <1>n, <1>r, <1>i, HolderFacts
    <2>7. node[b].links = latest[i].links
      BY <2>6 DEF Content
    <2>8. /\ i # ROOT => latest[i].links = names[i] + (IF i \in dirs THEN 1 ELSE 0)
          /\ i = ROOT => latest[i].links = 0
      BY <2>1, <2>5, <1>i DEF LinksCount
    <2> QED
      BY <2>1, <2>2, <2>3, <2>4, <2>5, <2>7, <2>8
  <1>3. Cached(b) /\ node[b].ino = i /\ Content(node[b]) = latest[i]
    BY <1>b, <1>n, <1>r, <1>i, HolderFacts
  <1>4. /\ disk' \in DiskType
        /\ \A j \in INodes \ {i} : disk'[j] = disk[j]
        /\ node[b].links = 0 /\ i # ROOT => ~disk'[i].used
        /\ node[b].links # 0 \/ i = ROOT => disk'[i].used /\ Content(disk'[i]) = Content(node[b])
    <2>1. disk' = freeIfUnlinked(b, writeINodeToDisk(b, disk))
      BY <1>1
    <2> QED
      BY <2>1, <1>b, <1>n, <1>r, IputLastDisk
  <1>5. /\ held' \in [Handles -> [buffer : Buffers \union {None}, ino : INodes]]
        /\ held'[h].buffer = None /\ held[h].buffer = b
        /\ \A k \in Handles \ {h} : held'[k] = held[k]
    BY <1>b, <1>i, <1>1, Numbers DEF TypeOK, NoRef
  <1>6. /\ node' \in [Buffers -> AnyNode] /\ \A c \in Buffers \ {b} : node'[c] = node[c]
        /\ node'[b].ref = 0 /\ ~node'[b].changed /\ node'[b].ino = node[b].ino
        /\ node'[b].links = node[b].links /\ Content(node'[b]) = Content(node[b])
    <2> DEFINE m == [node[b] EXCEPT !.ref = 0, !.changed = FALSE]
    <2>1. /\ m \in AnyNode /\ m.ref = 0 /\ m.changed = FALSE /\ m.ino = node[b].ino
          /\ m.links = node[b].links /\ m.ver = node[b].ver
      BY <1>2 DEF AnyNode
    <2>2. node' = [node EXCEPT ![b] = m]
      BY <1>1, <1>2
    <2> HIDE DEF m
    <2> QED
      BY <2>1, <2>2, <1>2 DEF Content
  <1>7. freeList' = Append(freeList, b)
    <2>1. hashLookup(i) = b
      BY <1>i, <1>2, <1>3, LookupFacts
    <2> QED
      BY <2>1, <1>1, <1>2, <1>3, CacheAssumption DEF returnToFreeList, freeListInsert
  <1>8. /\ latest' \in [INodes -> Record] /\ \A j \in INodes \ {i} : latest'[j] = latest[j]
        /\ disk'[i].used => latest'[i] = latest[i]
    <2>1. Free \in Record
      BY Numbers DEF Free, Record
    <2>2. latest' = latest \/ (~disk'[i].used /\ latest' = [latest EXCEPT ![i] = Free])
      BY <1>1, <1>3
    <2> QED
      BY <2>1, <2>2, <1>2
  <1>9. ASSUME NEW c \in Buffers
        PROVE  /\ node'[c].ref = Cardinality(Holders(c)')
               /\ node'[c].ref \in 0..Cardinality(Handles)
               /\ c = b => Holders(c) = {h} /\ Holders(c)' = {}
    <2>1. /\ IsFiniteSet(Holders(c)) /\ node[c].ref = Cardinality(Holders(c))
          /\ node[c].ref \in 0..Cardinality(Handles)
      BY <1>i, HolderFacts, Types
    <2>2. CASE c = b
      <3>1. h \in Holders(c) /\ Cardinality(Holders(c)) = 1
        BY <2>1, <2>2, <1>1, <1>5 DEF Holders
      <3>2. PICK x : Holders(c) = {x}
        BY <2>1, <3>1, FS_Singleton
      <3>3. Holders(c) = {h}
        BY <3>1, <3>2
      <3>4. Holders(c)' = Holders(c) \ {h}
        BY <2>2, <1>2, <1>5, CacheAssumption DEF Holders
      <3>5. Holders(c)' = {}
        BY <3>3, <3>4
      <3>6. Cardinality(Holders(c)') = 0
        BY <3>5, FS_EmptySet
      <3> QED
        BY <2>2, <3>3, <3>5, <3>6, <1>6, Numbers
    <2>3. CASE c # b
      <3>1. Holders(c)' = Holders(c)
        BY <2>3, <1>5, CacheAssumption DEF Holders
      <3> QED
        BY <2>1, <2>3, <3>1, <1>6
    <2> QED
      BY <2>2, <2>3
  <1>10. /\ ToSet(freeList) = {c \in Buffers : node[c].ref = 0}
         /\ freeList' \in Seq(Buffers) /\ IsInjective(freeList')
         /\ ToSet(freeList') = ToSet(freeList) \union {b}
    <2>1. /\ freeList \in Seq(Buffers) /\ IsInjective(freeList)
          /\ ToSet(freeList) = {c \in Buffers : node[c].ref = 0}
      BY <1>i DEF TypeOK, FreeListExact
    <2>2. b \notin ToSet(freeList)
      BY <2>1, <1>1
    <2> QED
      BY <2>1, <2>2, <1>2, <1>7, AppendFacts
  <1>11. TypeOK'
    <2>1. hashQ' \in [Queues -> Seq(Buffers)] /\ names' \in [INodes -> 0..2]
          /\ dirs' \subseteq INodes
      BY <1>i, <1>1 DEF TypeOK
    <2> QED
      BY <2>1, <1>4, <1>5, <1>6, <1>8, <1>9, <1>10, NodeType DEF TypeOK, DiskType
  <1>12. FreeListExact'
    <2>1. ToSet(freeList') = {c \in Buffers : node'[c].ref = 0}
      BY <1>2, <1>6, <1>10
    <2> QED
      BY <2>1, <1>9, <1>10 DEF FreeListExact, Holders
  <1>13. OneCopy'
    <2>1. DOMAIN hashQ = Queues /\ \A q \in Queues : ToSet(hashQ[q]) \subseteq Buffers
      BY <1>i, Types
    <2>2. \A c \in Buffers : /\ node'[c].ino = node[c].ino
                             /\ node'[c].ref > 0 => node[c].ref > 0
      BY <1>6
    <2>3. hashQ' = hashQ
      BY <1>1
    <2> QED
      BY <2>1, <2>2, <2>3, <1>i DEF OneCopy
  <1>14. \A c \in Buffers : Cached(c)' <=> Cached(c)
    BY <1>1, <1>6 DEF Cached
  <1>15. ASSUME NEW k \in Handles, held'[k].buffer # None
         PROVE  /\ held'[k] = held[k] /\ Refers(k)
                /\ held[k].buffer \in Buffers \ {b} /\ held[k].ino \in INodes \ {i}
    <2>1. k # h /\ held'[k] = held[k] /\ Refers(k)
      BY <1>15, <1>5 DEF Refers
    <2>2. held[k].buffer \in Buffers /\ held[k].buffer # b
      BY <2>1, <1>i, <1>2, <1>9, HolderFacts DEF Holders
    <2>3. held[k].ino \in INodes /\ held[k].ino # i
      <3>1. node[held[k].buffer].ino = held[k].ino /\ Cached(held[k].buffer)
        BY <2>1, <1>i, HolderFacts
      <3>2. held[k].ino # i
        BY <3>1, <2>2, <1>i, <1>2, <1>3, CachedUnique
      <3> QED
        BY <3>2, <1>i DEF TypeOK
    <2> QED
      BY <2>1, <2>2, <2>3
  <1>16. HoldersSeeLatest'
    <2> SUFFICES ASSUME NEW k \in Handles, held'[k].buffer # None
                 PROVE  /\ node'[held'[k].buffer].ino = held'[k].ino
                        /\ Content(node'[held'[k].buffer]) = latest'[held'[k].ino]
      BY DEF HoldersSeeLatest, Refers, Content
    <2>1. /\ held'[k] = held[k] /\ Refers(k)
          /\ held[k].buffer \in Buffers \ {b} /\ held[k].ino \in INodes \ {i}
      BY <1>15
    <2>2. /\ node[held[k].buffer].ino = held[k].ino
          /\ Content(node[held[k].buffer]) = latest[held[k].ino]
      BY <2>1, <1>i, HolderFacts
    <2> QED
      BY <2>1, <2>2, <1>6, <1>8
  <1>17. /\ HeldBy(i)' = {}
         /\ \A j \in INodes \ {i} : HeldBy(j)' = HeldBy(j)
    <2>1. HeldBy(i)' = {}
      BY <1>15 DEF HeldBy, Refers
    <2>2. \A j \in INodes \ {i} : HeldBy(j)' = HeldBy(j)
      BY <1>n, <1>5 DEF HeldBy, Refers
    <2> QED
      BY <2>1, <2>2
  <1>18. WrittenBack'
    <2> SUFFICES ASSUME NEW j \in INodes, disk'[j].used, HeldBy(j)' = {}
                 PROVE  Content(disk'[j]) = latest'[j]
      BY DEF WrittenBack, Content
    <2>1. CASE j = i
      BY <2>1, <1>3, <1>4, <1>8
    <2>2. CASE j # i
      <3>1. HeldBy(j) = {} /\ disk'[j] = disk[j] /\ latest'[j] = latest[j]
        BY <2>2, <1>4, <1>8, <1>17
      <3> QED
        BY <3>1, <1>i DEF WrittenBack, Content
    <2> QED
      BY <2>1, <2>2
  <1>19. FreedWhenUnreachable'
    <2> SUFFICES ASSUME NEW j \in INodes \ {ROOT}
                 PROVE  /\ names[j] > 0 \/ HeldBy(j)' # {} => disk'[j].used
                        /\ disk'[j].used /\ j \notin dirs => names[j] > 0 \/ HeldBy(j)' # {}
      BY <1>1 DEF FreedWhenUnreachable
    <2>1. CASE j = i
      BY <2>1, <1>2, <1>4, <1>17
    <2>2. CASE j # i
      BY <2>2, <1>i, <1>4, <1>17 DEF FreedWhenUnreachable
    <2> QED
      BY <2>1, <2>2
  <1>20. Clean'
    <2> SUFFICES ASSUME NEW c \in Buffers
                 PROVE  /\ node'[c].ref = 0 => ~node'[c].changed
                        /\ Cached(c)' /\ ~node'[c].changed /\ (node'[c].ref > 0 \/ node'[c].links # 0) =>
                              disk'[node'[c].ino].used /\ Content(node'[c]) = Content(disk'[node'[c].ino])
      BY DEF Clean, Content
    <2>1. CASE c = b
      BY <2>1, <1>3, <1>4, <1>6
    <2>2. CASE c # b
      <3>1. node'[c] = node[c] /\ node[c].ino \in INodes
        BY <2>2, <1>2, <1>6 DEF AnyNode
      <3>2. Cached(c) => node[c].ino # i
        BY <2>2, <1>i, <1>2, <1>3, CachedUnique
      <3> QED
        BY <3>1, <3>2, <1>i, <1>4, <1>14 DEF Clean
    <2> QED
      BY <2>1, <2>2
  <1>21. LinksCount'
    <2>1. ASSUME NEW j \in INodes \ {ROOT}, disk'[j].used
          PROVE  latest'[j].links = names[j] + (IF j \in dirs THEN 1 ELSE 0)
      <3>1. disk[j].used /\ latest'[j] = latest[j]
        BY <2>1, <1>2, <1>4, <1>8
      <3> QED
        BY <3>1, <1>i DEF LinksCount
    <2>2. disk'[ROOT].used /\ disk'[ROOT].links = 0 /\ latest'[ROOT].links = 0
      <3>1. CASE i = ROOT
        <4>1. disk'[ROOT].used /\ Content(disk'[ROOT]) = Content(node[b]) /\ latest'[ROOT] = latest[ROOT]
          BY <3>1, <1>4, <1>8
        <4>2. node[b].links = 0
          BY <3>1, <1>2
        <4> QED
          BY <4>1, <4>2, <1>i DEF LinksCount, Content
      <3>2. CASE i # ROOT
        BY <3>2, <1>i, <1>4, <1>8, Numbers DEF LinksCount
      <3> QED
        BY <3>1, <3>2
    <2> QED
      BY <2>1, <2>2, <1>1 DEF LinksCount
  <1> QED
    BY <1>11, <1>12, <1>13, <1>16, <1>18, <1>19, <1>20, <1>21 DEF Inv

-----------------------------------------------------------------------------
(* The theorems.                                                           *)

\* A step that changes nothing keeps the invariant.
LEMMA StutterInv ==
    ASSUME Inv, UNCHANGED vars
    PROVE  Inv'
  BY DEF Inv, vars, TypeOK, FreeListExact, OneCopy, HoldersSeeLatest, WrittenBack,
         FreedWhenUnreachable, Clean, LinksCount, Refers, HeldBy, Cached, Content

\* Every call of iget, iput, createFile and the operations that change an
\* inode keeps the invariant.
LEMMA StepInv ==
    ASSUME Inv, [Next]_vars
    PROVE  Inv'
  <1>1. ASSUME NEW h \in Handles, NEW i \in INodes, Iget(h, i)
        PROVE  Inv'
    BY <1>1, IgetInv
  <1>2. ASSUME NEW h \in Handles, NEW i \in INodes \ {ROOT}, NEW links \in {1, 2}, Create(h, i, links)
        PROVE  Inv'
    BY <1>2, CreateInv
  <1>3. ASSUME NEW h \in Handles, Update(h)
        PROVE  Inv'
    BY <1>3, UpdateInv
  <1>4. ASSUME NEW h \in Handles, Link(h)
        PROVE  Inv'
    BY <1>4, LinkInv
  <1>5. ASSUME NEW h \in Handles, Unlink(h)
        PROVE  Inv'
    BY <1>5, UnlinkInv
  <1>6. ASSUME NEW h \in Handles, IputShared(h)
        PROVE  Inv'
    BY <1>6, IputSharedInv
  <1>7. ASSUME NEW h \in Handles, IputLast(h)
        PROVE  Inv'
    BY <1>7, IputLastInv
  <1>8. CASE UNCHANGED vars
    BY <1>8, StutterInv
  <1> QED
    BY <1>1, <1>2, <1>3, <1>4, <1>5, <1>6, <1>7, <1>8 DEF Next

\* The inductive invariant holds in every state the cache reaches.
LEMMA InvAlways == Spec => []Inv
  <1>1. Init => Inv
    BY InitInv
  <1>2. Inv /\ [Next]_vars => Inv'
    BY StepInv
  <1> QED
    BY <1>1, <1>2, PTL DEF Spec

\* Every field of the cache stays in its range: in particular a link count
\* never goes below 0 or above 3 and a reference count never above the number
\* of references there are, whatever the order of iget, iput and unlink.
THEOREM TypeCorrect == Spec => []TypeOK
  <1>1. Inv => TypeOK
    BY DEF Inv
  <1> QED
    BY <1>1, InvAlways, PTL

\* The free list holds exactly the buffers nobody refers to, each once, and
\* every reference count is the number of references: iput loses no buffer and
\* iget never takes one in use for another inode.
THEOREM FreeListIsExact == Spec => []FreeListExact
  <1>1. Inv => FreeListExact
    BY DEF Inv
  <1> QED
    BY <1>1, InvAlways, PTL

\* Although updateInHashQ repairs the head of one queue only, no queue ever
\* holds a buffer of another one: an inode is cached by one buffer, which
\* hashLookup finds as long as anybody refers to it.
THEOREM OneCopyCached == Spec => []OneCopy
  <1>1. Inv => OneCopy
    BY DEF Inv
  <1> QED
    BY <1>1, InvAlways, PTL

\* Whoever got an inode from iget sees the latest version of it, the reuse of
\* buffers and of inode numbers notwithstanding.
THEOREM HoldersSeeTheLatest == Spec => []HoldersSeeLatest
  <1>1. Inv => HoldersSeeLatest
    BY DEF Inv
  <1> QED
    BY <1>1, InvAlways, PTL

\* The last iput writes what any holder of the inode changed: no change is
\* lost when the buffer is reused.
THEOREM ChangesAreWrittenBack == Spec => []WrittenBack
  <1>1. Inv => WrittenBack
    BY DEF Inv
  <1> QED
    BY <1>1, InvAlways, PTL

\* iput frees the inode of a file exactly when its last name and its last
\* reference are gone.
THEOREM FreedExactlyWhenUnreachable == Spec => []FreedWhenUnreachable
  <1>1. Inv => FreedWhenUnreachable
    BY DEF Inv
  <1> QED
    BY <1>1, InvAlways, PTL
=============================================================================
