-------------------------- MODULE NamespaceProofs ---------------------------
(***************************************************************************)
(* Proofs about Namespace, for every number of names, inodes, handles and  *)
(* crashes.                                                                *)
(*                                                                         *)
(* The parts of the inductive invariant take the variables they are about  *)
(* as arguments, so that a lemma can say what one step does to one part,   *)
(* and the end of a call is a step of its own:  sl, sz and ds stand for    *)
(* slots, size and diskSize, td for todo, bf, nm, mv and dm for before,    *)
(* names, moved and damaged, lk, dl and us for links, diskLinks and used,  *)
(* and rf for the inodes that are Referenced.                              *)
(***************************************************************************)
EXTENDS Namespace, FiniteSetTheorems, SequenceTheorems, WellFoundedInduction, TLAPS

-----------------------------------------------------------------------------
(* What is left of a call.                                                 *)

\* A step of this kind, about this inode or this name, is left.
Left(td, what)         == \E k \in DOMAIN td : td[k].what = what
LeftFor(td, what, i)   == \E k \in DOMAIN td : td[k].what = what /\ td[k].ino = i
LeftNamed(td, what, n) == \E k \in DOMAIN td : td[k].what = what /\ td[k].name = n

\* The size is written before the next entry is removed.
WritesSize(td) ==
    \E k \in DOMAIN td : /\ td[k].what = "writeSize"
                         /\ \A l \in 1..(k - 1) : td[l].what # "remove"

\* The steps there are.
Kinds == {"add", "firstLink", "link", "writeSize", "writeLinks", "free", "open", "remove",
          "unlink", "shrink"}
Steps == [what : Kinds, name : Names \union {None}, ino : INodes \union {None}]
IsStep(d) ==
    /\ d \in Steps
    /\ d.what \in {"add", "open", "remove"} => d.name \in Names
    /\ d.what \in {"add", "open", "firstLink", "link", "writeLinks", "free", "unlink"} =>
          d.ino \in INodes

\* What may be left after a step h.
Follows(h, r, bf, dm) ==
    /\ h.what = "add" => /\ ~Left(r, "add") /\ ~Left(r, "shrink")
                         /\ ~LeftNamed(r, "remove", h.name)
                         /\ WritesSize(r)
    /\ h.what = "firstLink" => /\ ~LeftFor(r, "firstLink", h.ino)
                                /\ ~LeftFor(r, "link", h.ino)
                                /\ ~LeftFor(r, "unlink", h.ino)
                                /\ ~Left(r, "remove")
    /\ h.what = "link" => ~LeftFor(r, "link", h.ino)
    /\ h.what = "writeSize" => ~Left(r, "shrink")
    /\ h.what \in {"writeLinks", "free"} /\ h.ino \notin dm =>
          /\ ~LeftFor(r, "firstLink", h.ino)
          /\ ~LeftFor(r, "link", h.ino)
          /\ ~LeftFor(r, "unlink", h.ino)
    /\ h.what = "open" => r = << >>
    /\ h.what = "remove" =>
          /\ ~LeftNamed(r, "remove", h.name) /\ ~Left(r, "shrink") /\ ~Left(r, "unlink")
          /\ ~Left(r, "firstLink") /\ ~Left(r, "open")
          /\ WritesSize(r)
          /\ \A n \in Names : LeftNamed(r, "add", n) => n = h.name
          /\ bf[h.name] \notin dm => ~LeftFor(r, "link", bf[h.name])
          /\ \A n \in Names : LeftNamed(r, "remove", n) /\ bf[n] = bf[h.name] =>
                bf[n] \in dm \union {None}
    /\ h.what = "unlink" /\ h.ino \notin dm =>
          /\ ~LeftFor(r, "unlink", h.ino)
          /\ \A n \in Names : LeftNamed(r, "remove", n) => bf[n] # h.ino
    /\ h.what = "shrink" => ~Left(r, "shrink") /\ WritesSize(r)

Rest(td, k) == SubSeq(td, k + 1, Len(td))

\* The steps left are in the order in which the handlers take them.
Ordered(td, bf, dm) ==
    /\ td \in Seq(Steps)
    /\ \A k \in 1..Len(td) : IsStep(td[k]) /\ Follows(td[k], Rest(td, k), bf, dm)

-----------------------------------------------------------------------------
(* The directory.                                                          *)

FileEntries == [name : Names, ino : INodes]

\* The positions below e that hold a name.
At(sl, n, e) == {p \in Positions : p < e /\ sl[p].name = n}

\* How far the directory reaches, without the copy of a moved entry.
Extent(sz, td) == IF Left(td, "shrink") THEN sz - 1 ELSE sz

\* What the names lead to at this point of the call.
Current(td, bf, nm) ==
    [n \in Names |->
        IF bf[n] = nm[n] THEN nm[n]
        ELSE IF LeftNamed(td, "remove", n) THEN bf[n]
        ELSE IF LeftNamed(td, "add", n) THEN None
        ELSE nm[n]]

\* The first e entries are those of the files that the names lead to, and
\* perhaps more of damaged ones.
Lists(sl, e, leads, dm) ==
    /\ \A p \in Positions : p < e =>
          /\ sl[p] \in FileEntries
          /\ sl[p].ino \in dm \/ leads[sl[p].name] = sl[p].ino
    /\ \A n \in Names : leads[n] \notin dm \union {None} =>
          \E p \in Positions : At(sl, n, e) = {p} /\ sl[p].ino = leads[n]

\* The files whose entries the running call moves, adds or removes.
Changing(mv, bf, nm, dm) ==
    LET changed == {n \in Names : bf[n] # nm[n]}
    IN  mv \union dm \union {None} \union {nm[n] : n \in changed} \union {bf[n] : n \in changed}

\* An entry where the sizes in memory and on the disk differ is one of such
\* files, and its name leads to one; if the call does not change what the name
\* leads to, then the entry is on the disk and is the name's, or a damaged
\* file's.
Excess(d, onDisk, bf, nm, ch, dm) ==
    /\ d \in FileEntries
    /\ d.ino \in ch /\ nm[d.name] \in ch
    /\ bf[d.name] = nm[d.name] /\ nm[d.name] \notin dm =>
          onDisk /\ d.ino \in dm \union {nm[d.name]}

Differ(sl, e, ds, bf, nm, ch, dm) ==
    \A p \in Positions : (e <= p /\ p < ds) \/ (ds <= p /\ p < e) =>
        Excess(sl[p], p < ds, bf, nm, ch, dm)

\* The directory on the disk reaches a block that has been freed.
GaveUp(sz, ds) == sz < ds /\ sz % DIRECTORY_ENTRIES_IN_BLOCK = 0

\* What that block holds matters to nobody: the size is written next, or the
\* next entry.
DirInv(sl, sz, ds, td, bf, nm, mv, dm) ==
    LET e == Extent(sz, td)
    IN  /\ Lists(sl, e, Current(td, bf, nm), dm)
        /\ ~GaveUp(sz, ds) => Differ(sl, e, ds, bf, nm, Changing(mv, bf, nm, dm), dm)
        /\ e \in Nat /\ ds \in (e - 1)..(e + 1)
        /\ Left(td, "add") => ds >= e
        /\ ~WritesSize(td) => ds = e

\* What the steps that are left rely on.
RemoveInv(n, sl, e, td, bf, nm, dm) ==
    LeftNamed(td, "remove", n) =>
        /\ At(sl, n, e) # {}
        /\ nm[n] = None \/ LeftNamed(td, "add", n)
        /\ bf[n] = nm[n] => bf[n] \in dm \union {None}

AddInv(n, sl, e, td, bf, nm, dm) ==
    LeftNamed(td, "add", n) =>
        /\ nm[n] # None /\ LeftFor(td, "add", nm[n])
        /\ bf[n] = nm[n] => nm[n] \in dm
        /\ nm[n] \notin dm => IF LeftNamed(td, "remove", n) THEN bf[n] \notin dm \union {None}
                              ELSE At(sl, n, e) = {}

OpenInv(n, sl, e, td) ==
    LeftNamed(td, "open", n) => At(sl, n, e) # {} \/ LeftNamed(td, "add", n)

StepInv(sl, sz, td, bf, nm, dm) ==
    \A n \in Names :
        /\ RemoveInv(n, sl, Extent(sz, td), td, bf, nm, dm)
        /\ AddInv(n, sl, Extent(sz, td), td, bf, nm, dm)
        /\ OpenInv(n, sl, Extent(sz, td), td)

-----------------------------------------------------------------------------
(* Links.                                                                  *)

Named(i, nm) == \E n \in Names : nm[n] = i

\* The call is going to unlink a file.
ToUnlink(i, td, bf) ==
    \/ LeftFor(td, "unlink", i)
    \/ \E n \in Names : LeftNamed(td, "remove", n) /\ bf[n] = i

\* The call gives the file a name that it did not have.
Renamed(i, bf, nm) == \E n \in Names : nm[n] = i /\ bf[n] # i

One(b) == IF b THEN 1 ELSE 0

\* The link count in memory is the number of names, once the steps that are
\* left are done.
Counts(i, links_i, td, bf, nm) ==
    links_i = One(Named(i, nm)) + One(ToUnlink(i, td, bf)) - One(LeftFor(td, "link", i))

\* The count on the disk is 1, or the call is going to write it.
OnDisk(i, diskLinks_i, rf, td, bf, nm) ==
    \/ diskLinks_i = 1
    \/ /\ i \notin rf
       /\ LeftFor(td, "writeLinks", i) \/ ToUnlink(i, td, bf)
       /\ Renamed(i, bf, nm)

FileInv(i, links_i, diskLinks_i, us, rf, td, bf, nm) ==
    /\ links_i \in 0..2 /\ diskLinks_i \in 0..2
    /\ i \in us /\ ~LeftFor(td, "firstLink", i) => Counts(i, links_i, td, bf, nm)
    /\ LeftFor(td, "firstLink", i) => /\ Named(i, nm) /\ ~ToUnlink(i, td, bf)
                                       /\ ~LeftFor(td, "link", i)
    /\ LeftFor(td, "link", i) => Named(i, nm)
    /\ Named(i, nm) => i \in us /\ OnDisk(i, diskLinks_i, rf, td, bf, nm)
    /\ i \in rf => i \in us
    /\ i \in us => Named(i, nm) \/ i \in rf \/ LeftFor(td, "free", i) \/ ToUnlink(i, td, bf)
    /\ ToUnlink(i, td, bf) => i \in us
    /\ ToUnlink(i, td, bf) /\ Named(i, nm) => Renamed(i, bf, nm)
    /\ \A n, m \in Names : nm[n] = i /\ nm[m] = i => n = m
    /\ LeftFor(td, "unlink", i) => LeftFor(td, "writeLinks", i) /\ LeftFor(td, "free", i)

LinkInv(lk, dl, us, rf, td, bf, nm, dm) ==
    \A i \in INodes \ dm : FileInv(i, lk[i], dl[i], us, rf, td, bf, nm)

-----------------------------------------------------------------------------
(* How many entries there are.                                             *)

NamesIn(sl, e) == {sl[p].name : p \in {q \in Positions : q < e}}

\* An entry is going to be added for a name that has one.
AddsTwice(sl, e, td) ==
    \E n \in NamesIn(sl, e) : LeftNamed(td, "add", n) /\ ~LeftNamed(td, "remove", n)

\* Each crash leaves at most one entry more than there are names.
CountInv(sl, e, td, cr) ==
    e + One(AddsTwice(sl, e, td)) <= Cardinality(NamesIn(sl, e)) + cr

-----------------------------------------------------------------------------
(* The inductive invariant.                                                *)

References == {i \in INodes : Referenced(i)}

Types ==
    /\ slots \in [Positions -> Entries]
    /\ size \in 0..MaxSize
    /\ diskSize \in 0..MaxSize
    /\ links \in [INodes -> Int]
    /\ diskLinks \in [INodes -> Int]
    /\ used \subseteq INodes
    /\ fileTable \in [Fds -> INodes \union {None}]
    /\ leaked \subseteq INodes
    /\ names \in [Names -> INodes \union {None}]
    /\ before \in [Names -> INodes \union {None}]
    /\ moved \subseteq INodes
    /\ damaged \subseteq INodes
    /\ crashes \in 0..MaxCrashes

Consistent(sl, sz, ds, lk, dl, us, rf, td, bf, nm, mv, dm, cr) ==
    /\ Ordered(td, bf, dm)
    /\ DirInv(sl, sz, ds, td, bf, nm, mv, dm)
    /\ StepInv(sl, sz, td, bf, nm, dm)
    /\ LinkInv(lk, dl, us, rf, td, bf, nm, dm)
    /\ CountInv(sl, Extent(sz, td), td, cr)

Inv ==
    /\ Types
    /\ Idle => before = names /\ moved = {}
    /\ Consistent(slots, size, diskSize, links, diskLinks, used, References, todo,
                  before, names, moved, damaged, crashes)

-----------------------------------------------------------------------------
(* Sequences of steps.                                                     *)

\* A step, and the steps that follow it.
Then(h, r) == <<h>> \o r

\* What is left before a step h, if r is left after it.
BeforeStep(s, h, r) ==
    /\ \A w : Left(s, w) <=> h.what = w \/ Left(r, w)
    /\ \A w, i : LeftFor(s, w, i) <=> (h.what = w /\ h.ino = i) \/ LeftFor(r, w, i)
    /\ \A w, n : LeftNamed(s, w, n) <=> (h.what = w /\ h.name = n) \/ LeftNamed(r, w, n)
    /\ WritesSize(s) <=> h.what = "writeSize" \/ (h.what # "remove" /\ WritesSize(r))

\* Nothing is left.
NothingLeft(s) ==
    /\ \A w : ~Left(s, w)
    /\ \A w, i : ~LeftFor(s, w, i)
    /\ \A w, n : ~LeftNamed(s, w, n)
    /\ ~WritesSize(s)

\* A sequence that begins with h is one longer than the rest.
LEMMA ThenIsSeq ==
    ASSUME NEW h \in Steps, NEW r \in Seq(Steps)
    PROVE  /\ Then(h, r) \in Seq(Steps)
           /\ Len(Then(h, r)) = Len(r) + 1
           /\ Len(r) \in Nat
           /\ DOMAIN Then(h, r) = 1..(Len(r) + 1)
           /\ DOMAIN r = 1..Len(r)
           /\ Then(h, r)[1] = h
           /\ \A k \in 1..Len(r) : Then(h, r)[k + 1] = r[k]
           /\ Then(h, r) # << >>
           /\ Head(Then(h, r)) = h
           /\ Tail(Then(h, r)) = r
<1>1. <<h>> \in Seq(Steps) /\ Len(<<h>>) = 1 /\ <<h>>[1] = h
  OBVIOUS
<1>2. Len(r) \in Nat /\ DOMAIN r = 1..Len(r)
  OBVIOUS
<1>3. /\ <<h>> \o r \in Seq(Steps)
      /\ Len(<<h>> \o r) = Len(<<h>>) + Len(r)
      /\ \A i \in 1..(Len(<<h>>) + Len(r)) : (<<h>> \o r)[i] =
             IF i <= Len(<<h>>) THEN <<h>>[i] ELSE r[i - Len(<<h>>)]
  BY <1>1, ConcatProperties
<1> DEFINE s == Then(h, r)
<1>4. s \in Seq(Steps) /\ Len(s) = Len(r) + 1
  BY <1>1, <1>2, <1>3 DEF Then
<1>5. DOMAIN s = 1..(Len(r) + 1)
  BY <1>4
<1>6. s[1] = h
  BY <1>1, <1>2, <1>3 DEF Then
<1>7. \A k \in 1..Len(r) : s[k + 1] = r[k]
  BY <1>1, <1>2, <1>3 DEF Then
<1>8. s # << >>
  BY <1>2, <1>4
<1>9. Head(s) = h
  BY <1>4, <1>6, <1>8
<1>10. Tail(s) = r
  <2>1. Tail(s) \in Seq(Steps) /\ Len(Tail(s)) = Len(r)
    BY <1>2, <1>4, <1>8, HeadTailProperties
  <2>2. \A k \in 1..Len(r) : Tail(s)[k] = r[k]
    BY <1>2, <1>4, <1>7, <1>8, <2>1, HeadTailProperties
  <2> QED
    BY <2>1, <2>2, SeqEqual
<1> QED
  BY <1>2, <1>4, <1>5, <1>6, <1>7, <1>8, <1>9, <1>10

\* What is left of a call that has not ended begins with its next step.
LEMMA HeadThenTail ==
    ASSUME NEW s \in Seq(Steps), s # << >>
    PROVE  /\ Head(s) \in Steps
           /\ Tail(s) \in Seq(Steps)
           /\ s = Then(Head(s), Tail(s))
<1>1. Head(s) \in Steps /\ Tail(s) \in Seq(Steps)
  BY HeadTailProperties
<1>2. s = <<Head(s)>> \o Tail(s)
  <2>1. Len(s) \in Nat \ {0}
    OBVIOUS
  <2>2. s = SubSeq(s, 1, Len(s))
    BY SubSeqFull
  <2>3. SubSeq(s, 1, Len(s)) = <<s[1]>> \o SubSeq(s, 2, Len(s))
    BY <2>1, SubSeqRecursiveFirst
  <2>4. Tail(s) = SubSeq(s, 2, Len(s)) /\ Head(s) = s[1]
    BY TailIsSubSeq
  <2> QED
    BY <2>2, <2>3, <2>4
<1> QED
  BY <1>1, <1>2 DEF Then

\* What is left before a step is that step, and what is left after it.
LEMMA ThenLeaves ==
    ASSUME NEW h \in Steps, NEW r \in Seq(Steps)
    PROVE  BeforeStep(Then(h, r), h, r)
<1> DEFINE s == Then(h, r)
<1>1. /\ Len(r) \in Nat
      /\ DOMAIN s = 1..(Len(r) + 1)
      /\ DOMAIN r = 1..Len(r)
      /\ s[1] = h
      /\ \A k \in 1..Len(r) : s[k + 1] = r[k]
  BY ThenIsSeq
<1>2. \A k \in DOMAIN s : k = 1 \/ (k - 1 \in DOMAIN r /\ s[k] = r[k - 1])
  <2> SUFFICES ASSUME NEW k \in DOMAIN s, k # 1
               PROVE  k - 1 \in DOMAIN r /\ s[k] = r[k - 1]
    OBVIOUS
  <2>1. k \in 1..(Len(r) + 1) /\ k - 1 \in 1..Len(r) /\ (k - 1) + 1 = k
    BY <1>1
  <2> QED
    BY <1>1, <2>1
<1>3. \A k \in DOMAIN r : k + 1 \in DOMAIN s /\ s[k + 1] = r[k]
  BY <1>1
<1>4. 1 \in DOMAIN s /\ s[1] = h
  BY <1>1
<1>0. Len(r) \in Nat
  BY <1>1
<1> HIDE DEF s
<1>5. \A w : Left(s, w) <=> h.what = w \/ Left(r, w)
  BY <1>2, <1>3, <1>4 DEF Left
<1>6. \A w, i : LeftFor(s, w, i) <=> (h.what = w /\ h.ino = i) \/ LeftFor(r, w, i)
  BY <1>2, <1>3, <1>4 DEF LeftFor
<1>7. \A w, n : LeftNamed(s, w, n) <=> (h.what = w /\ h.name = n) \/ LeftNamed(r, w, n)
  BY <1>2, <1>3, <1>4 DEF LeftNamed
<1>8. WritesSize(s) => h.what = "writeSize" \/ (h.what # "remove" /\ WritesSize(r))
  <2>1. SUFFICES ASSUME WritesSize(s), h.what # "writeSize"
                 PROVE  h.what # "remove" /\ WritesSize(r)
    OBVIOUS
  <2>2. PICK k \in DOMAIN s : /\ s[k].what = "writeSize"
                              /\ \A l \in 1..(k - 1) : s[l].what # "remove"
    BY <2>1 DEF WritesSize
  <2>3. k # 1 /\ k - 1 \in DOMAIN r /\ r[k - 1].what = "writeSize"
    BY <1>2, <1>4, <2>1, <2>2
  <2>4. k \in 2..(Len(r) + 1)
    <3>1. k \in 1..(Len(r) + 1)
      BY <1>1
    <3>2. k # 1
      BY <2>3
    <3> QED
      BY <1>0, <3>1, <3>2
  <2>5. h.what # "remove"
    <3>1. 1 \in 1..(k - 1)
      BY <1>1, <2>4
    <3> QED
      BY <1>4, <2>2, <3>1
  <2>6. \A l \in 1..((k - 1) - 1) : r[l].what # "remove"
    <3> TAKE l \in 1..((k - 1) - 1)
    <3>1. l + 1 \in 1..(k - 1) /\ l \in DOMAIN r
      BY <1>1, <2>4
    <3> QED
      BY <1>3, <2>2, <3>1
  <2> QED
    BY <2>3, <2>5, <2>6 DEF WritesSize
<1>9. h.what = "writeSize" => WritesSize(s)
  <2>1. \A l \in 1..(1 - 1) : s[l].what # "remove"
    OBVIOUS
  <2> QED
    BY <1>4, <2>1 DEF WritesSize
<1>10. h.what # "remove" /\ WritesSize(r) => WritesSize(s)
  <2>1. SUFFICES ASSUME h.what # "remove", WritesSize(r)
                 PROVE  WritesSize(s)
    OBVIOUS
  <2>2. PICK k \in DOMAIN r : /\ r[k].what = "writeSize"
                              /\ \A l \in 1..(k - 1) : r[l].what # "remove"
    BY <2>1 DEF WritesSize
  <2>3. k + 1 \in DOMAIN s /\ s[k + 1].what = "writeSize" /\ k \in 1..Len(r)
    BY <1>1, <1>3, <2>2
  <2>4. k \in 1..Len(r)
    BY <2>3
  <2>5. \A l \in 1..((k + 1) - 1) : s[l].what # "remove"
    <3> TAKE l \in 1..((k + 1) - 1)
    <3>1. l = 1 \/ (l - 1 \in 1..(k - 1) /\ l \in 1..(Len(r) + 1) /\ l # 1)
      BY <1>0, <2>4
    <3>2. DOMAIN s = 1..(Len(r) + 1)
      BY <1>1
    <3> QED
      BY <1>2, <1>4, <2>1, <2>2, <3>1, <3>2
  <2> QED
    BY <2>3, <2>5 DEF WritesSize
<1> QED
  BY <1>5, <1>6, <1>7, <1>8, <1>9, <1>10 DEF BeforeStep, s

\* Nothing is left of a call that has ended.
LEMMA EmptyLeavesNothing == NothingLeft(<< >>)
  BY DEF NothingLeft, Left, LeftFor, LeftNamed, WritesSize

\* A sequence of steps is ordered if what follows the first one may follow it
\* and is ordered.
LEMMA OrderedThen ==
    ASSUME NEW h \in Steps, NEW r \in Seq(Steps), NEW bf, NEW dm
    PROVE  Ordered(Then(h, r), bf, dm) <=>
               IsStep(h) /\ Follows(h, r, bf, dm) /\ Ordered(r, bf, dm)
<1> DEFINE s == Then(h, r)
<1>1. /\ s \in Seq(Steps)
      /\ Len(s) = Len(r) + 1
      /\ Len(r) \in Nat
      /\ s[1] = h
      /\ \A k \in 1..Len(r) : s[k + 1] = r[k]
      /\ Tail(s) = r
      /\ s # << >>
  BY ThenIsSeq
<1>2. Rest(s, 1) = r
  BY <1>1, TailIsSubSeq DEF Rest
<1>3. \A k \in 1..Len(r) : Rest(s, k + 1) = Rest(r, k)
  <2> TAKE k \in 1..Len(r)
  <2>1. <<h>> \in Seq(Steps) /\ Len(<<h>>) = 1
    OBVIOUS
  <2>2. /\ (k + 1) + 1 \in (Len(<<h>>) + 1)..(Len(<<h>>) + Len(r) + 1)
        /\ Len(s) \in ((k + 1) + 1)..(Len(<<h>>) + Len(r))
           \/ (k + 1) + 1 > Len(s)
    BY <1>1, <2>1
  <2>3. Rest(s, k + 1) \in Seq(Steps) /\ Rest(r, k) \in Seq(Steps)
    BY <1>1, SubSeqProperties DEF Rest
  <2>4. /\ Len(Rest(s, k + 1)) = Len(r) - k
        /\ Len(Rest(r, k)) = Len(r) - k
    BY <1>1, SubSeqProperties DEF Rest
  <2>5. \A j \in 1..(Len(r) - k) : Rest(s, k + 1)[j] = Rest(r, k)[j]
    <3> TAKE j \in 1..(Len(r) - k)
    <3>1. Rest(s, k + 1)[j] = s[(k + 1) + j]
      <4>1. j \in 1..(Len(s) - ((k + 1) + 1) + 1)
        BY <1>1
      <4>2. (k + 1) + 1 + j - 1 = (k + 1) + j
        BY <1>1
      <4>3. (k + 1) + 1 \in 1..(Len(s) + 1) /\ Len(s) \in 0..Len(s)
        BY <1>1
      <4> QED
        BY <1>1, <4>1, <4>2, <4>3, SubSeqProperties DEF Rest
    <3>2. Rest(r, k)[j] = r[k + j]
      <4>1. j \in 1..(Len(r) - (k + 1) + 1) /\ (k + 1) + j - 1 = k + j
        BY <1>1
      <4> QED
        BY <1>1, <4>1, SubSeqProperties DEF Rest
    <3>3. k + j \in 1..Len(r) /\ (k + j) + 1 = (k + 1) + j
      BY <1>1
    <3> QED
      BY <1>1, <3>1, <3>2, <3>3
  <2> QED
    BY <2>3, <2>4, <2>5, SeqEqual
<1> HIDE DEF s
<1>4. ASSUME Ordered(s, bf, dm)
      PROVE  IsStep(h) /\ Follows(h, r, bf, dm) /\ Ordered(r, bf, dm)
  <2>1. \A k \in 1..Len(s) : IsStep(s[k]) /\ Follows(s[k], Rest(s, k), bf, dm)
    BY <1>4 DEF Ordered
  <2>2. 1 \in 1..Len(s)
    BY <1>1
  <2>3. \A k \in 1..Len(r) : IsStep(r[k]) /\ Follows(r[k], Rest(r, k), bf, dm)
    <3> TAKE k \in 1..Len(r)
    <3>1. k + 1 \in 1..Len(s)
      BY <1>1
    <3> QED
      BY <1>1, <1>3, <2>1, <3>1
  <2> QED
    BY <1>1, <1>2, <2>1, <2>2, <2>3 DEF Ordered
<1>5. ASSUME IsStep(h), Follows(h, r, bf, dm), Ordered(r, bf, dm)
      PROVE  Ordered(s, bf, dm)
  <2>1. \A k \in 1..Len(r) : IsStep(r[k]) /\ Follows(r[k], Rest(r, k), bf, dm)
    BY <1>5 DEF Ordered
  <2>2. \A k \in 1..Len(s) : IsStep(s[k]) /\ Follows(s[k], Rest(s, k), bf, dm)
    <3> TAKE k \in 1..Len(s)
    <3>1. CASE k = 1
      BY <1>1, <1>2, <1>5, <3>1
    <3>2. CASE k # 1
      <4>1. k - 1 \in 1..Len(r) /\ (k - 1) + 1 = k
        BY <1>1, <3>2
      <4> QED
        BY <1>1, <1>3, <2>1, <4>1
    <3> QED
      BY <3>1, <3>2
  <2> QED
    BY <1>1, <2>2 DEF Ordered
<1> QED
  BY <1>4, <1>5 DEF s

\* Nothing is ordered.
LEMMA EmptyIsOrdered ==
    ASSUME NEW bf, NEW dm
    PROVE  Ordered(<< >>, bf, dm)
<1>1. << >> \in Seq(Steps) /\ Len(<< >>) = 0
  OBVIOUS
<1> QED
  BY <1>1 DEF Ordered

-----------------------------------------------------------------------------
(* Positions, and what a lookup finds.                                     *)

\* The first position that holds a name, and the inode it leads to.
FirstAt(sl, n, e)  == CHOOSE p \in At(sl, n, e) : \A q \in At(sl, n, e) : p <= q
LookupIn(sl, e, n) == IF At(sl, n, e) = {} THEN None ELSE sl[FirstAt(sl, n, e)].ino

\* The directory has room for every name, and None is neither a name nor an inode.
LEMMA Sizes ==
    /\ MaxSize \in Nat /\ Cardinality(Names) \in Nat /\ MaxCrashes \in Nat
    /\ MaxSize = Cardinality(Names) + MaxCrashes
    /\ IsFiniteSet(Names)
    /\ None \notin Names /\ None \notin INodes
    /\ Positions = 0..(MaxSize - 1)
    /\ NoEntry \notin FileEntries
    /\ FileEntries \subseteq Entries
<1>1. Cardinality(Names) \in Nat /\ MaxCrashes \in Nat
  BY NamespaceAssumption, FS_CardinalityType
<1>2. None \notin Names /\ None \notin INodes /\ IsFiniteSet(Names)
  BY NamespaceAssumption
<1> QED
  BY <1>1, <1>2 DEF MaxSize, Positions, NoEntry, FileEntries, Entries

\* A nonempty set of numbers has a least one.
LEMMA LeastOf ==
    ASSUME NEW S, S \subseteq Nat, S # {}
    PROVE  \E b \in S : \A c \in S : b <= c
  <1> DEFINE R == OpToRel(<, Nat)
  <1>1. IsWellFoundedOn(R, Nat)
    BY NatLessThanWellFounded
  <1>2. \A a, b \in Nat : a < b => <<a, b>> \in R
    BY DEF OpToRel
  <1> HIDE DEF R
  <1>3. PICK b \in S : \A c \in S : ~(<<c, b>> \in R)
    BY <1>1, WFMin
  <1>4. ASSUME NEW c \in S
        PROVE  b <= c
    <2>1. b \in Nat /\ c \in Nat
      OBVIOUS
    <2>2. ~(c < b)
      <3>1. ~(<<c, b>> \in R)
        BY <1>3
      <3> QED
        BY <1>2, <2>1, <3>1, Zenon
    <2> QED
      BY <2>1, <2>2
  <1> QED
    BY <1>4, Zenon

\* A search finds a position of the name if there is one.
LEMMA FirstIsAt ==
    ASSUME NEW sl, NEW n, NEW e, At(sl, n, e) # {}
    PROVE  FirstAt(sl, n, e) \in At(sl, n, e)
<1>1. At(sl, n, e) \subseteq Nat
  <2>1. Positions \subseteq Nat
    BY Sizes
  <2> QED
    BY <2>1 DEF At
<1>2. \E p \in At(sl, n, e) : \A q \in At(sl, n, e) : p <= q
  BY <1>1, LeastOf
<1> QED
  BY <1>2 DEF FirstAt

\* A lookup finds the file the name leads to, unless a damaged one is about.
LEMMA LookupFinds ==
    ASSUME NEW sl, NEW e, NEW leads, NEW dm, Lists(sl, e, leads, dm), NEW n \in Names
    PROVE  /\ LookupIn(sl, e, n) \in INodes \union {None}
           /\ LookupIn(sl, e, n) = None <=> At(sl, n, e) = {}
           /\ leads[n] \notin dm \union {None} => LookupIn(sl, e, n) = leads[n]
           /\ LookupIn(sl, e, n) \notin dm \union {None} => leads[n] = LookupIn(sl, e, n)
<1> DEFINE p == FirstAt(sl, n, e)
<1>1. CASE At(sl, n, e) = {}
  <2>1. LookupIn(sl, e, n) = None
    BY <1>1 DEF LookupIn
  <2>2. leads[n] \in dm \union {None}
    <3>1. SUFFICES ASSUME leads[n] \notin dm \union {None}
                   PROVE  FALSE
      OBVIOUS
    <3>2. \E q \in Positions : At(sl, n, e) = {q} /\ sl[q].ino = leads[n]
      BY <3>1 DEF Lists
    <3> QED
      BY <1>1, <3>2
  <2> QED
    BY <1>1, <2>1, <2>2
<1>2. CASE At(sl, n, e) # {}
  <2>1. p \in At(sl, n, e)
    BY <1>2, FirstIsAt
  <2>2. p \in Positions /\ p < e /\ sl[p].name = n
    BY <2>1 DEF At
  <2> HIDE DEF p
  <2>3. sl[p] \in FileEntries /\ (sl[p].ino \in dm \/ leads[n] = sl[p].ino)
    BY <2>2 DEF Lists
  <2>4. LookupIn(sl, e, n) = sl[p].ino
    BY <1>2 DEF LookupIn, p
  <2>5. sl[p].ino \in INodes /\ sl[p].ino # None
    BY <2>3, Sizes DEF FileEntries
  <2>6. leads[n] \notin dm \union {None} => leads[n] = sl[p].ino
    <3>1. SUFFICES ASSUME leads[n] \notin dm \union {None}
                   PROVE  leads[n] = sl[p].ino
      OBVIOUS
    <3>2. PICK q \in Positions : At(sl, n, e) = {q} /\ sl[q].ino = leads[n]
      BY <3>1 DEF Lists
    <3> QED
      BY <2>1, <3>2
  <2> QED
    BY <1>2, <2>3, <2>4, <2>5, <2>6
<1> QED
  BY <1>1, <1>2

-----------------------------------------------------------------------------
(* Steps and the directory.                                                *)

\* The same entries are going to be added and removed.
SameChanges(s, r) ==
    /\ Left(s, "add") <=> Left(r, "add")
    /\ \A n : LeftNamed(s, "remove", n) <=> LeftNamed(r, "remove", n)
    /\ \A n : LeftNamed(s, "add", n) <=> LeftNamed(r, "add", n)

\* What a name leads to during a call.
LEMMA CurrentOf ==
    ASSUME NEW s, NEW bf, NEW nm, NEW n \in Names
    PROVE  Current(s, bf, nm)[n] =
               IF bf[n] = nm[n] THEN nm[n]
               ELSE IF LeftNamed(s, "remove", n) THEN bf[n]
               ELSE IF LeftNamed(s, "add", n) THEN None
               ELSE nm[n]
  BY DEF Current

\* The names lead to the same files if the same changes are left.
LEMMA CurrentStays ==
    ASSUME NEW s, NEW r, NEW bf, NEW nm, SameChanges(s, r)
    PROVE  Current(s, bf, nm) = Current(r, bf, nm)
  BY DEF Current, SameChanges

\* A step that changes neither the entries nor what is left of the changes.
LEMMA DirStays ==
    ASSUME NEW sl, NEW sz, NEW ds, NEW s, NEW bf, NEW nm, NEW mv, NEW dm, NEW sz2, NEW r,
           DirInv(sl, sz, ds, s, bf, nm, mv, dm),
           SameChanges(s, r), WritesSize(s) <=> WritesSize(r), Extent(sz, s) = Extent(sz2, r),
           GaveUp(sz, ds) => GaveUp(sz2, ds)
    PROVE  DirInv(sl, sz2, ds, r, bf, nm, mv, dm)
<1>1. Current(s, bf, nm) = Current(r, bf, nm)
  BY CurrentStays
<1>2. Left(s, "add") <=> Left(r, "add")
  BY DEF SameChanges
<1> QED
  BY <1>1, <1>2 DEF DirInv

\* Once the size is written there is no difference between the sizes.
LEMMA DirWritten ==
    ASSUME NEW sl, NEW sz, NEW ds, NEW s, NEW bf, NEW nm, NEW mv, NEW dm, NEW r,
           DirInv(sl, sz, ds, s, bf, nm, mv, dm),
           SameChanges(s, r), ~Left(s, "shrink"), ~Left(r, "shrink")
    PROVE  DirInv(sl, sz, sz, r, bf, nm, mv, dm)
<1>1. Current(s, bf, nm) = Current(r, bf, nm)
  BY CurrentStays
<1>2. Extent(sz, s) = sz /\ Extent(sz, r) = sz
  BY DEF Extent
<1>3. Lists(sl, sz, Current(r, bf, nm), dm) /\ sz \in Nat
  BY <1>1, <1>2 DEF DirInv
<1>4. \A ch : Differ(sl, sz, sz, bf, nm, ch, dm)
  <2>1. \A p \in Positions : ~(sz <= p /\ p < sz)
    BY <1>3, Sizes
  <2> QED
    BY <2>1 DEF Differ
<1>5. sz \in (sz - 1)..(sz + 1) /\ sz >= sz
  BY <1>3
<1> QED
  BY <1>2, <1>3, <1>4, <1>5 DEF DirInv

\* At the end of a call the sizes agree, and the names lead where they should.
LEMMA DirEnds ==
    ASSUME NEW sl, NEW sz, NEW ds, NEW s, NEW bf, NEW nm, NEW mv, NEW dm,
           nm \in [Names -> INodes \union {None}],
           DirInv(sl, sz, ds, s, bf, nm, mv, dm), NothingLeft(s)
    PROVE  /\ ds = sz /\ sz \in Nat
           /\ Extent(sz, s) = sz
           /\ Current(s, bf, nm) = nm
           /\ Lists(sl, sz, nm, dm)
           /\ DirInv(sl, sz, ds, s, nm, nm, {}, dm)
<1>1. Extent(sz, s) = sz
  BY DEF NothingLeft, Extent
<1>2. Current(s, bf, nm) = nm /\ Current(s, nm, nm) = nm
  BY DEF NothingLeft, Current
<1>3. ds = sz /\ sz \in Nat /\ Lists(sl, sz, nm, dm)
  BY <1>1, <1>2 DEF DirInv, NothingLeft
<1>4. \A ch : Differ(sl, sz, ds, nm, nm, ch, dm)
  <2>1. \A p \in Positions : ~(sz <= p /\ p < ds) /\ ~(ds <= p /\ p < sz)
    BY <1>3, Sizes
  <2> QED
    BY <2>1 DEF Differ
<1>5. sz \in (sz - 1)..(sz + 1) /\ sz >= sz
  BY <1>3
<1> QED
  BY <1>1, <1>2, <1>3, <1>4, <1>5 DEF DirInv

\* Between calls: a directory of the right size and entries.
LEMMA DirBegins ==
    ASSUME NEW sl, NEW sz, NEW s, NEW bf, NEW nm, NEW dm,
           ~Left(s, "shrink"), sz \in Nat, Lists(sl, sz, Current(s, bf, nm), dm)
    PROVE  DirInv(sl, sz, sz, s, bf, nm, {}, dm)
<1>1. Extent(sz, s) = sz
  BY DEF Extent
<1>2. \A ch : Differ(sl, sz, sz, bf, nm, ch, dm)
  <2>1. \A p \in Positions : ~(sz <= p /\ p < sz)
    BY Sizes
  <2> QED
    BY <2>1 DEF Differ
<1>3. sz \in (sz - 1)..(sz + 1) /\ sz >= sz
  OBVIOUS
<1> QED
  BY <1>1, <1>2, <1>3 DEF DirInv

\* The files that the running call is about.
LEMMA ChangingHas ==
    ASSUME NEW mv, NEW bf, NEW nm, NEW dm
    PROVE  /\ None \in Changing(mv, bf, nm, dm)
           /\ \A i \in mv : i \in Changing(mv, bf, nm, dm)
           /\ \A i \in dm : i \in Changing(mv, bf, nm, dm)
           /\ \A n \in Names : bf[n] # nm[n] => /\ bf[n] \in Changing(mv, bf, nm, dm)
                                                /\ nm[n] \in Changing(mv, bf, nm, dm)
  BY DEF Changing

-----------------------------------------------------------------------------
(* An entry is added.                                                      *)

\* The entries after d is written at p.
Puts(sl2, sl, p, d) ==
    /\ p \in Positions
    /\ sl2[p] = d
    /\ \A q \in Positions : q # p => sl2[q] = sl[q]

\* A position is updated.
LEMMA UpdatePuts ==
    ASSUME NEW sl \in [Positions -> Entries], NEW p \in Positions, NEW d \in FileEntries
    PROVE  /\ [sl EXCEPT ![p] = d] \in [Positions -> Entries]
           /\ Puts([sl EXCEPT ![p] = d], sl, p, d)
<1>1. d \in Entries
  BY Sizes
<1> QED
  BY <1>1 DEF Puts

\* Where the names are after an entry is added at the end.
AddsAt(sl2, sl, sz, d) ==
    \A m : /\ m = d.name => At(sl2, m, sz + 1) = At(sl, m, sz) \union {sz}
           /\ m # d.name => At(sl2, m, sz + 1) = At(sl, m, sz)

\* The name has one position more, the other names those they had.
LEMMA AtAfterAdd ==
    ASSUME NEW sl, NEW sl2, NEW sz \in Nat, NEW d, Puts(sl2, sl, sz, d)
    PROVE  AddsAt(sl2, sl, sz, d)
<1>1. Positions \subseteq Int
  BY Sizes
<1>2. \A q \in Positions : q < sz + 1 <=> q < sz \/ q = sz
  BY <1>1
<1>3. \A q \in Positions : q < sz => q # sz
  BY <1>1
<1>4. ASSUME NEW m, NEW q
      PROVE  q \in At(sl2, m, sz + 1) <=> q \in At(sl, m, sz) \/ (m = d.name /\ q = sz)
  <2>1. CASE q = sz
    BY <1>1, <1>2, <1>3, <2>1 DEF At, Puts
  <2>2. CASE q # sz
    BY <1>1, <1>2, <1>3, <2>2 DEF At, Puts
  <2> QED
    BY <2>1, <2>2
<1> QED
  BY <1>4 DEF AddsAt

\* A new entry is listed, and those before it still are.
LEMMA ListsAfterAdd ==
    ASSUME NEW sl, NEW sl2, NEW sz \in Nat, NEW d \in FileEntries, Puts(sl2, sl, sz, d),
           NEW c, NEW c2, NEW dm, Lists(sl, sz, c, dm),
           c[d.name] \in dm \union {None},
           c2[d.name] = d.ino,
           \A m \in Names : m # d.name => c2[m] = c[m],
           d.ino \notin dm => At(sl, d.name, sz) = {}
    PROVE  Lists(sl2, sz + 1, c2, dm)
<1>0. AddsAt(sl2, sl, sz, d)
  BY AtAfterAdd
<1>1. Positions \subseteq Int
  BY Sizes
<1>2. d.name \in Names /\ d.ino \in INodes
  BY DEF FileEntries
<1>3. ASSUME NEW p \in Positions, p < sz + 1
      PROVE  /\ sl2[p] \in FileEntries
             /\ sl2[p].ino \in dm \/ c2[sl2[p].name] = sl2[p].ino
  <2>1. CASE p = sz
    BY <2>1 DEF Puts
  <2>2. CASE p # sz
    <3>1. p < sz /\ sl2[p] = sl[p]
      BY <1>1, <1>3, <2>2 DEF Puts
    <3>2. sl[p] \in FileEntries /\ (sl[p].ino \in dm \/ c[sl[p].name] = sl[p].ino)
      BY <3>1 DEF Lists
    <3>3. sl[p].name \in Names /\ sl[p].ino # None
      BY <3>2, Sizes DEF FileEntries
    <3>4. CASE sl[p].name = d.name
      <4>1. sl[p].ino \in dm
        BY <3>2, <3>3, <3>4
      <4> QED
        BY <3>1, <3>2, <4>1
    <3>5. CASE sl[p].name # d.name
      BY <3>1, <3>2, <3>3, <3>5
    <3> QED
      BY <3>4, <3>5
  <2> QED
    BY <2>1, <2>2
<1>4. ASSUME NEW n \in Names, c2[n] \notin dm \union {None}
      PROVE  \E p \in Positions : At(sl2, n, sz + 1) = {p} /\ sl2[p].ino = c2[n]
  <2>1. CASE n = d.name
    <3>1. At(sl2, n, sz + 1) = {sz}
      <4>1. At(sl2, n, sz + 1) = At(sl, n, sz) \union {sz}
        BY <1>0, <2>1 DEF AddsAt
      <4>2. At(sl, n, sz) = {}
        BY <1>4, <2>1
      <4> QED
        BY <4>1, <4>2
    <3> QED
      BY <2>1, <3>1 DEF Puts
  <2>2. CASE n # d.name
    <3>1. At(sl2, n, sz + 1) = At(sl, n, sz)
      BY <1>0, <2>2 DEF AddsAt
    <3>2. PICK p \in Positions : At(sl, n, sz) = {p} /\ sl[p].ino = c[n]
      BY <1>4, <2>2 DEF Lists
    <3>3. p < sz
      BY <3>2 DEF At
    <3>4. sl2[p] = sl[p]
      BY <1>1, <3>3 DEF Puts
    <3> QED
      BY <2>2, <3>1, <3>2, <3>4
  <2> QED
    BY <2>1, <2>2
<1> QED
  BY <1>3, <1>4 DEF Lists

\* What the invariant says of an entry that is about to be added.
Adds(s, h, r, sl, sz, bf, nm, dm) ==
    /\ h.name \in Names /\ h.ino \in INodes
    /\ nm[h.name] = h.ino
    /\ bf[h.name] = h.ino => h.ino \in dm
    /\ h.ino \notin dm => At(sl, h.name, sz) = {}
    /\ ~Left(s, "shrink") /\ ~Left(r, "shrink") /\ ~Left(r, "add") /\ Left(s, "add")
    /\ WritesSize(r)
    /\ \A m : ~LeftNamed(r, "add", m)
    /\ \A m : LeftNamed(s, "add", m) <=> m = h.name
    /\ \A m : LeftNamed(s, "remove", m) <=> LeftNamed(r, "remove", m)
    /\ ~LeftNamed(s, "remove", h.name)
    /\ \A m : LeftNamed(s, "open", m) <=> LeftNamed(r, "open", m)

\* A step that is left of an inode or a name is left.
LEMMA LeftAtAll ==
    ASSUME NEW s, NEW w
    PROVE  /\ \A n : LeftNamed(s, w, n) => Left(s, w)
           /\ \A i : LeftFor(s, w, i) => Left(s, w)
  BY DEF LeftNamed, LeftFor, Left

\* It is the entry of the name that is going to lead to its file.
LEMMA AddFacts ==
    ASSUME NEW s, NEW h, NEW r, NEW sl, NEW sz, NEW bf, NEW nm, NEW dm,
           BeforeStep(s, h, r), h.what = "add", IsStep(h), Follows(h, r, bf, dm),
           StepInv(sl, sz, s, bf, nm, dm)
    PROVE  Adds(s, h, r, sl, sz, bf, nm, dm)
<1>1. h.name \in Names /\ h.ino \in INodes
  BY DEF IsStep
<1>2. /\ ~Left(r, "add") /\ ~Left(r, "shrink") /\ ~LeftNamed(r, "remove", h.name)
      /\ WritesSize(r)
  BY DEF Follows
<1>3. ~Left(s, "shrink") /\ Left(s, "add")
  BY <1>2 DEF BeforeStep
<1>4. \A m : ~LeftNamed(r, "add", m)
  BY <1>2, LeftAtAll
<1>5. \A m : LeftNamed(s, "add", m) <=> m = h.name
  BY <1>4 DEF BeforeStep
<1>6. \A m : LeftNamed(s, "remove", m) <=> LeftNamed(r, "remove", m)
  BY DEF BeforeStep
<1>7. \A m : LeftNamed(s, "open", m) <=> LeftNamed(r, "open", m)
  BY DEF BeforeStep
<1>8. AddInv(h.name, sl, Extent(sz, s), s, bf, nm, dm)
  BY <1>1 DEF StepInv
<1>9. Extent(sz, s) = sz
  BY <1>3 DEF Extent
<1>10. /\ LeftFor(s, "add", nm[h.name])
       /\ bf[h.name] = nm[h.name] => nm[h.name] \in dm
       /\ nm[h.name] \notin dm => At(sl, h.name, sz) = {}
  BY <1>2, <1>5, <1>6, <1>8, <1>9 DEF AddInv
<1>11. nm[h.name] = h.ino
  <2>1. ~LeftFor(r, "add", nm[h.name])
    BY <1>2, LeftAtAll
  <2> QED
    BY <1>10, <2>1 DEF BeforeStep
<1> QED
  BY <1>1, <1>2, <1>3, <1>4, <1>5, <1>6, <1>7, <1>10, <1>11 DEF Adds

\* The directory after an entry is added.
LEMMA DirAfterAdd ==
    ASSUME NEW s, NEW h, NEW r, NEW sl, NEW sl2, NEW sz \in Nat, NEW ds \in Nat,
           NEW bf, NEW nm, NEW mv, NEW dm, NEW d,
           Adds(s, h, r, sl, sz, bf, nm, dm),
           d = [name |-> h.name, ino |-> h.ino],
           Puts(sl2, sl, sz, d),
           DirInv(sl, sz, ds, s, bf, nm, mv, dm)
    PROVE  DirInv(sl2, sz + 1, ds, r, bf, nm, mv, dm)
<1> DEFINE c == Current(s, bf, nm)
           c2 == Current(r, bf, nm)
           ch == Changing(mv, bf, nm, dm)
<1>1. Extent(sz, s) = sz /\ Extent(sz + 1, r) = sz + 1
  BY DEF Adds, Extent
<1>2. d \in FileEntries /\ d.name = h.name /\ d.ino = h.ino
  BY DEF Adds, FileEntries
<1>3. /\ Lists(sl, sz, c, dm)
      /\ ds \in sz..(sz + 1)
  BY <1>1 DEF DirInv, Adds
<1>4. /\ nm[h.name] = h.ino
      /\ bf[h.name] = h.ino => h.ino \in dm
      /\ h.name \in Names
  BY DEF Adds
<1>5. c[h.name] \in dm \union {None} /\ c2[h.name] = h.ino
  <2>1. ~LeftNamed(s, "remove", h.name) /\ LeftNamed(s, "add", h.name)
    BY DEF Adds
  <2>2. ~LeftNamed(r, "remove", h.name) /\ ~LeftNamed(r, "add", h.name)
    BY DEF Adds
  <2>3. c[h.name] = IF bf[h.name] = nm[h.name] THEN nm[h.name] ELSE None
    BY <1>4, <2>1, CurrentOf
  <2>4. c2[h.name] = nm[h.name]
    BY <1>4, <2>2, CurrentOf
  <2> QED
    BY <1>4, <2>3, <2>4
<1>6. \A m \in Names : m # h.name => c2[m] = c[m]
  <2> SUFFICES ASSUME NEW m \in Names, m # h.name
               PROVE  c2[m] = c[m]
    OBVIOUS
  <2>1. /\ ~LeftNamed(s, "add", m) /\ ~LeftNamed(r, "add", m)
        /\ LeftNamed(s, "remove", m) <=> LeftNamed(r, "remove", m)
    BY DEF Adds
  <2> QED
    BY <2>1, CurrentOf
<1>7. d.ino \notin dm => At(sl, d.name, sz) = {}
  BY <1>2 DEF Adds
<1> HIDE DEF c, c2, ch
<1>8. Lists(sl2, sz + 1, c2, dm)
  BY <1>2, <1>3, <1>5, <1>6, <1>7, ListsAfterAdd
<1>9. Differ(sl2, sz + 1, ds, bf, nm, ch, dm)
  <2> SUFFICES ASSUME NEW p \in Positions,
                      (sz + 1 <= p /\ p < ds) \/ (ds <= p /\ p < sz + 1)
               PROVE  Excess(sl2[p], p < ds, bf, nm, ch, dm)
    BY DEF Differ
  <2>1. p = sz /\ ds = sz
    BY <1>3, Sizes
  <2>2. sl2[p] = d
    BY <2>1 DEF Puts
  <2>3. h.ino \in ch
    <3>1. CASE bf[h.name] = h.ino
      BY <1>4, <3>1, ChangingHas DEF ch
    <3>2. CASE bf[h.name] # h.ino
      BY <1>4, <3>2, ChangingHas DEF ch
    <3> QED
      BY <3>1, <3>2
  <2> QED
    BY <1>2, <1>4, <2>2, <2>3 DEF Excess
<1>10. sz + 1 \in Nat /\ ds \in ((sz + 1) - 1)..((sz + 1) + 1)
  BY <1>3
<1>11. ~Left(r, "add") /\ WritesSize(r)
  BY DEF Adds
<1> QED
  BY <1>1, <1>8, <1>9, <1>10, <1>11 DEF DirInv, c2, ch

\* What the steps left rely on after an entry is added.
LEMMA StepsAfterAdd ==
    ASSUME NEW s, NEW h, NEW r, NEW sl, NEW sl2, NEW sz \in Nat,
           NEW bf, NEW nm, NEW dm, NEW d,
           Adds(s, h, r, sl, sz, bf, nm, dm),
           d = [name |-> h.name, ino |-> h.ino],
           Puts(sl2, sl, sz, d),
           StepInv(sl, sz, s, bf, nm, dm)
    PROVE  StepInv(sl2, sz + 1, r, bf, nm, dm)
<1>1. Extent(sz, s) = sz /\ Extent(sz + 1, r) = sz + 1
  BY DEF Adds, Extent
<1>2. AddsAt(sl2, sl, sz, d) /\ d.name = h.name
  BY AtAfterAdd
<1>3. ASSUME NEW n \in Names
      PROVE  /\ RemoveInv(n, sl2, sz + 1, r, bf, nm, dm)
             /\ AddInv(n, sl2, sz + 1, r, bf, nm, dm)
             /\ OpenInv(n, sl2, sz + 1, r)
  <2>1. RemoveInv(n, sl, sz, s, bf, nm, dm) /\ OpenInv(n, sl, sz, s)
    BY <1>1 DEF StepInv
  <2>2. At(sl, n, sz) # {} => At(sl2, n, sz + 1) # {}
    BY <1>2 DEF AddsAt
  <2>3. n = h.name => At(sl2, n, sz + 1) # {}
    BY <1>2 DEF AddsAt
  <2>4. /\ ~LeftNamed(r, "add", n)
        /\ LeftNamed(s, "add", n) <=> n = h.name
        /\ LeftNamed(s, "remove", n) <=> LeftNamed(r, "remove", n)
        /\ LeftNamed(s, "open", n) <=> LeftNamed(r, "open", n)
        /\ n = h.name => ~LeftNamed(s, "remove", n)
    BY DEF Adds
  <2>5. RemoveInv(n, sl2, sz + 1, r, bf, nm, dm)
    BY <2>1, <2>2, <2>4 DEF RemoveInv
  <2>6. AddInv(n, sl2, sz + 1, r, bf, nm, dm)
    BY <2>4 DEF AddInv
  <2>7. OpenInv(n, sl2, sz + 1, r)
    BY <2>1, <2>2, <2>3, <2>4 DEF OpenInv
  <2> QED
    BY <2>5, <2>6, <2>7
<1> QED
  BY <1>1, <1>3 DEF StepInv

\* The names that have entries are a finite number of names.
LEMMA NamesInFinite ==
    ASSUME NEW sl, NEW e, NEW leads, NEW dm, Lists(sl, e, leads, dm)
    PROVE  /\ NamesIn(sl, e) \subseteq Names
           /\ IsFiniteSet(NamesIn(sl, e))
           /\ Cardinality(NamesIn(sl, e)) \in Nat
           /\ Cardinality(NamesIn(sl, e)) <= Cardinality(Names)
           /\ \A n : n \in NamesIn(sl, e) <=> At(sl, n, e) # {}
<1>1. NamesIn(sl, e) \subseteq Names
  <2> SUFFICES ASSUME NEW p \in Positions, p < e
               PROVE  sl[p].name \in Names
    BY DEF NamesIn
  <2>1. sl[p] \in FileEntries
    BY DEF Lists
  <2> QED
    BY <2>1 DEF FileEntries
<1>2. /\ IsFiniteSet(NamesIn(sl, e))
      /\ Cardinality(NamesIn(sl, e)) <= Cardinality(Names)
  BY <1>1, Sizes, FS_Subset
<1>3. Cardinality(NamesIn(sl, e)) \in Nat
  BY <1>2, FS_CardinalityType
<1>4. \A n : n \in NamesIn(sl, e) <=> At(sl, n, e) # {}
  BY DEF NamesIn, At
<1> QED
  BY <1>1, <1>2, <1>3, <1>4

\* There is room for an entry that is about to be added, and the directory
\* stays within its bound.
LEMMA CountAfterAdd ==
    ASSUME NEW s, NEW h, NEW r, NEW sl, NEW sz \in Nat,
           NEW bf, NEW nm, NEW dm, NEW c, NEW cr \in 0..MaxCrashes,
           Adds(s, h, r, sl, sz, bf, nm, dm),
           Lists(sl, sz, c, dm),
           CountInv(sl, sz, s, cr)
    PROVE  /\ sz \in Positions /\ sz + 1 \in 0..MaxSize
           /\ \A sl2, c2, d : Puts(sl2, sl, sz, d) /\ d = [name |-> h.name, ino |-> h.ino]
                              /\ Lists(sl2, sz + 1, c2, dm) =>
                 CountInv(sl2, sz + 1, r, cr)
<1> DEFINE N == NamesIn(sl, sz)
           C == Cardinality(N)
           n == h.name
<1>1. /\ N \subseteq Names /\ IsFiniteSet(N) /\ C \in Nat /\ C <= Cardinality(Names)
      /\ \A k : k \in N <=> At(sl, k, sz) # {}
  BY NamesInFinite
<1>2. n \in Names
  BY DEF Adds
<1>3. AddsTwice(sl, sz, s) <=> n \in N
  <2>1. \A m : LeftNamed(s, "add", m) <=> m = h.name
    BY DEF Adds
  <2>2. ~LeftNamed(s, "remove", h.name)
    BY DEF Adds
  <2> QED
    BY <2>1, <2>2 DEF AddsTwice
<1> HIDE DEF N
<1>4. sz + (IF n \in N THEN 1 ELSE 0) <= C + cr
  BY <1>3 DEF CountInv, One, N
<1>5. n \notin N => C + 1 <= Cardinality(Names)
  <2>1. SUFFICES ASSUME n \notin N
                 PROVE  C + 1 <= Cardinality(Names)
    OBVIOUS
  <2>2. Cardinality(N \union {n}) = C + 1
    BY <1>1, <2>1, FS_AddElement
  <2>3. N \union {n} \subseteq Names
    BY <1>1, <1>2
  <2>4. Cardinality(N \union {n}) <= Cardinality(Names)
    BY <2>3, Sizes, FS_Subset
  <2> QED
    BY <2>2, <2>4
<1>6. sz + 1 <= MaxSize
  <2>1. /\ MaxSize = Cardinality(Names) + MaxCrashes
        /\ Cardinality(Names) \in Nat /\ MaxCrashes \in Nat
    BY Sizes
  <2>2. C \in Nat /\ C <= Cardinality(Names)
    BY <1>1
  <2> HIDE DEF C
  <2>3. CASE n \in N
    BY <1>4, <2>1, <2>2, <2>3
  <2>4. CASE n \notin N
    BY <1>4, <1>5, <2>1, <2>2, <2>4
  <2> QED
    BY <2>3, <2>4
<1>7. sz \in Positions /\ sz + 1 \in 0..MaxSize
  BY <1>6, Sizes
<1>8. ASSUME NEW sl2, NEW c2, NEW d, Puts(sl2, sl, sz, d), d = [name |-> h.name, ino |-> h.ino],
             Lists(sl2, sz + 1, c2, dm)
      PROVE  CountInv(sl2, sz + 1, r, cr)
  <2>1. AddsAt(sl2, sl, sz, d) /\ d.name = n
    BY <1>8, AtAfterAdd
  <2>2. \A k : k \in NamesIn(sl2, sz + 1) <=> At(sl2, k, sz + 1) # {}
    BY <1>8, NamesInFinite
  <2>3. NamesIn(sl2, sz + 1) = N \union {n}
    <3>1. ASSUME NEW k
          PROVE  k \in NamesIn(sl2, sz + 1) <=> k \in N \/ k = n
      BY <1>1, <2>1, <2>2 DEF AddsAt
    <3> QED
      BY <3>1
  <2>4. Cardinality(N \union {n}) = IF n \in N THEN C ELSE C + 1
    BY <1>1, FS_AddElement
  <2>5. ~AddsTwice(sl2, sz + 1, r)
    BY DEF AddsTwice, Adds
  <2>6. C \in Nat /\ Cardinality(NamesIn(sl2, sz + 1)) = IF n \in N THEN C ELSE C + 1
    BY <1>1, <2>3, <2>4
  <2> HIDE DEF C, n
  <2>7. (sz + 1) + 0 <= Cardinality(NamesIn(sl2, sz + 1)) + cr
    <3>1. CASE n \in N
      BY <1>4, <2>6, <3>1
    <3>2. CASE n \notin N
      BY <1>4, <2>6, <3>2
    <3> QED
      BY <3>1, <3>2
  <2> QED
    BY <2>5, <2>7 DEF CountInv, One
<1> QED
  BY <1>7, <1>8

-----------------------------------------------------------------------------
(* An entry is removed.                                                    *)

\* What is left once unlinkFileFromINode has overwritten the entry.
Unlinks(s2, j, r) ==
    /\ \A w : Left(s2, w) <=> w \in {"unlink", "writeLinks", "free", "shrink"} \/ Left(r, w)
    /\ \A w : \A i \in INodes :
          LeftFor(s2, w, i) <=> (w \in {"unlink", "writeLinks", "free"} /\ i = j) \/ LeftFor(r, w, i)
    /\ \A w : \A n \in Names : LeftNamed(s2, w, n) <=> LeftNamed(r, w, n)
    /\ WritesSize(s2) <=> WritesSize(r)

\* What the invariant says of an entry that is about to be removed.
Removes(s, x, s2, sl, sz, bf, nm, dm) ==
    /\ x \in Names /\ At(sl, x, sz) # {}
    /\ ~Left(s, "shrink") /\ Left(s2, "shrink")
    /\ ~WritesSize(s) /\ WritesSize(s2)
    /\ Left(s, "add") <=> Left(s2, "add")
    /\ \A m \in Names : LeftNamed(s, "add", m) <=> LeftNamed(s2, "add", m)
    /\ \A m \in Names : LeftNamed(s2, "add", m) => m = x
    /\ \A m \in Names : m # x => (LeftNamed(s, "remove", m) <=> LeftNamed(s2, "remove", m))
    /\ LeftNamed(s, "remove", x) /\ ~LeftNamed(s2, "remove", x)
    /\ \A m \in Names : ~LeftNamed(s2, "open", m)
    /\ \A i \in INodes : LeftFor(s, "add", i) <=> LeftFor(s2, "add", i)
    /\ bf[x] = nm[x] => bf[x] \in dm \union {None}
    /\ nm[x] = None \/ LeftNamed(s2, "add", x)

\* It is the entry of a name that does not lead to a file until one is added.
LEMMA RemoveFacts ==
    ASSUME NEW s, NEW h, NEW r, NEW s2, NEW j, NEW sl, NEW sz, NEW bf, NEW nm, NEW dm,
           BeforeStep(s, h, r), h.what = "remove", IsStep(h), Follows(h, r, bf, dm),
           Unlinks(s2, j, r),
           StepInv(sl, sz, s, bf, nm, dm)
    PROVE  Removes(s, h.name, s2, sl, sz, bf, nm, dm)
<1> DEFINE x == h.name
<1>1. x \in Names
  BY DEF IsStep
<1>2. /\ ~LeftNamed(r, "remove", x) /\ ~Left(r, "shrink")
      /\ ~Left(r, "open")
      /\ WritesSize(r)
      /\ \A n \in Names : LeftNamed(r, "add", n) => n = x
  BY DEF Follows
<1>3. ~Left(s, "shrink") /\ Left(s2, "shrink") /\ ~WritesSize(s) /\ WritesSize(s2)
  BY <1>2 DEF BeforeStep, Unlinks
<1>4. (Left(s, "add") <=> Left(r, "add")) /\ (Left(s2, "add") <=> Left(r, "add"))
  <2>1. Left(s, "add") <=> Left(r, "add")
    BY DEF BeforeStep
  <2>2. Left(s2, "add") <=> Left(r, "add")
    <3>1. "add" \notin {"unlink", "writeLinks", "free", "shrink"}
      OBVIOUS
    <3>2. \A w : w \notin {"unlink", "writeLinks", "free", "shrink"} => (Left(s2, w) <=> Left(r, w))
      BY DEF Unlinks
    <3> QED
      BY <3>1, <3>2, Zenon
  <2> QED
    BY <2>1, <2>2
<1>5. \A m \in Names : /\ LeftNamed(s, "add", m) <=> LeftNamed(r, "add", m)
                       /\ LeftNamed(s2, "add", m) <=> LeftNamed(r, "add", m)
  BY DEF BeforeStep, Unlinks
<1>6. \A m \in Names : /\ m # x => (LeftNamed(s, "remove", m) <=> LeftNamed(r, "remove", m))
                       /\ LeftNamed(s2, "remove", m) <=> LeftNamed(r, "remove", m)
  BY DEF BeforeStep, Unlinks
<1>7. LeftNamed(s, "remove", x)
  BY DEF BeforeStep
<1>8. \A m \in Names : ~LeftNamed(s2, "open", m)
  <2>1. \A m \in Names : ~LeftNamed(r, "open", m)
    BY <1>2, LeftAtAll
  <2> QED
    BY <2>1 DEF Unlinks
<1>9. \A i \in INodes : /\ LeftFor(s, "add", i) <=> LeftFor(r, "add", i)
                        /\ LeftFor(s2, "add", i) <=> LeftFor(r, "add", i)
  BY DEF BeforeStep, Unlinks
<1>10. Extent(sz, s) = sz
  BY <1>3 DEF Extent
<1>11. RemoveInv(x, sl, sz, s, bf, nm, dm)
  BY <1>1, <1>10 DEF StepInv
<1> HIDE DEF x
<1>12. /\ At(sl, x, sz) # {}
       /\ nm[x] = None \/ LeftNamed(s, "add", x)
       /\ bf[x] = nm[x] => bf[x] \in dm \union {None}
  BY <1>7, <1>11 DEF RemoveInv
<1>13. Removes(s, x, s2, sl, sz, bf, nm, dm)
  BY <1>1, <1>2, <1>3, <1>4, <1>5, <1>6, <1>7, <1>8, <1>9, <1>12 DEF Removes
<1> QED
  BY <1>13 DEF x

\* Where the names are after the last entry is written over that of x.
RemovesAt(sl2, sl, sz, p, x) ==
    /\ \A m : m # x /\ sz - 1 \notin At(sl, m, sz) => At(sl2, m, sz - 1) = At(sl, m, sz)
    /\ \A m : m # x /\ sz - 1 \in At(sl, m, sz) =>
          At(sl2, m, sz - 1) = (At(sl, m, sz) \ {sz - 1}) \union {p}
    /\ At(sl, x, sz) = {p} => At(sl2, x, sz - 1) = {}

\* The other names have as many positions as before.
LEMMA AtAfterRemove ==
    ASSUME NEW sl, NEW sl2, NEW sz \in 0..MaxSize, NEW x, NEW p \in At(sl, x, sz),
           Puts(sl2, sl, p, sl[sz - 1])
    PROVE  RemovesAt(sl2, sl, sz, p, x)
<1>1. Positions = 0..(MaxSize - 1) /\ MaxSize \in Nat
  BY Sizes
<1>2. p \in Positions /\ p < sz /\ sl[p].name = x /\ sl2[p] = sl[sz - 1]
      /\ \A q \in Positions : q # p => sl2[q] = sl[q]
  BY DEF At, Puts
<1>3. sz - 1 \in Positions /\ p <= sz - 1 /\ sz - 1 < sz
  BY <1>1, <1>2
<1>4. ASSUME NEW m, m # x, NEW q
      PROVE  q \in At(sl2, m, sz - 1) <=>
                 (q \in At(sl, m, sz) /\ q # sz - 1) \/ (sz - 1 \in At(sl, m, sz) /\ q = p)
  <2>1. CASE q \notin Positions
    BY <1>2, <2>1 DEF At
  <2>2. CASE q \in Positions /\ q = p
    <3>1. q \notin At(sl, m, sz)
      BY <1>2, <1>4, <2>2 DEF At
    <3>2. q \in At(sl2, m, sz - 1) <=> p < sz - 1 /\ sl[sz - 1].name = m
      BY <1>2, <2>2 DEF At
    <3>3. sz - 1 \in At(sl, m, sz) <=> sl[sz - 1].name = m
      BY <1>3 DEF At
    <3>4. sl[sz - 1].name = m => p < sz - 1
      BY <1>1, <1>2, <1>3, <1>4
    <3> QED
      BY <2>2, <3>1, <3>2, <3>3, <3>4
  <2>3. CASE q \in Positions /\ q # p
    <3>1. sl2[q] = sl[q]
      BY <1>2, <2>3
    <3>2. q < sz - 1 <=> q < sz /\ q # sz - 1
      BY <1>1, <2>3
    <3> QED
      BY <2>3, <3>1, <3>2 DEF At
  <2> QED
    BY <2>1, <2>2, <2>3
<1>5. ASSUME NEW m, m # x, sz - 1 \notin At(sl, m, sz)
      PROVE  At(sl2, m, sz - 1) = At(sl, m, sz)
  BY <1>4, <1>5
<1>6. ASSUME NEW m, m # x, sz - 1 \in At(sl, m, sz)
      PROVE  At(sl2, m, sz - 1) = (At(sl, m, sz) \ {sz - 1}) \union {p}
  BY <1>4, <1>6
<1>7. ASSUME At(sl, x, sz) = {p}, NEW q \in At(sl2, x, sz - 1)
      PROVE  FALSE
  <2>1. q \in Positions /\ q < sz - 1 /\ sl2[q].name = x
    BY <1>7 DEF At
  <2>2. CASE q = p
    <3>1. sl[sz - 1].name = x
      BY <1>2, <2>1, <2>2
    <3>2. sz - 1 \in At(sl, x, sz)
      BY <1>3, <3>1 DEF At
    <3>3. p = sz - 1
      BY <1>7, <3>2
    <3> QED
      BY <1>1, <2>1, <2>2, <3>3
  <2>3. CASE q # p
    <3>1. sl[q].name = x /\ q < sz
      BY <1>1, <1>2, <2>1, <2>3
    <3>2. q \in At(sl, x, sz)
      BY <2>1, <3>1 DEF At
    <3> QED
      BY <1>7, <2>3, <3>2
  <2> QED
    BY <2>2, <2>3
<1>8. At(sl, x, sz) = {p} => At(sl2, x, sz - 1) = {}
  BY <1>7
<1> QED
  BY <1>5, <1>6, <1>8 DEF RemovesAt

\* The entries that remain after a removal are listed.
LEMMA ListsAfterRemove ==
    ASSUME NEW sl, NEW sl2, NEW sz \in 0..MaxSize, NEW x \in Names, NEW p \in At(sl, x, sz),
           Puts(sl2, sl, p, sl[sz - 1]),
           NEW c, NEW c2, NEW dm, Lists(sl, sz, c, dm),
           c2[x] \in dm \union {None},
           \A m \in Names : m # x => c2[m] = c[m]
    PROVE  Lists(sl2, sz - 1, c2, dm)
<1>0. RemovesAt(sl2, sl, sz, p, x)
  BY AtAfterRemove
<1>1. Positions = 0..(MaxSize - 1) /\ MaxSize \in Nat
  BY Sizes
<1>2. p \in Positions /\ p < sz /\ sl[p].name = x /\ sl2[p] = sl[sz - 1]
      /\ \A q \in Positions : q # p => sl2[q] = sl[q]
  BY DEF At, Puts
<1>3. sz - 1 \in Positions /\ p <= sz - 1 /\ sz - 1 < sz
  BY <1>1, <1>2
<1>4. ASSUME NEW q \in Positions, q < sz - 1
      PROVE  /\ sl2[q] \in FileEntries
             /\ sl2[q].ino \in dm \/ c2[sl2[q].name] = sl2[q].ino
  <2>1. PICK o \in Positions : o < sz /\ o # p /\ sl2[q] = sl[o]
    <3>1. CASE q = p
      <4>1. sz - 1 # p
        BY <1>1, <1>4, <3>1
      <4> QED
        BY <1>2, <1>3, <3>1, <4>1
    <3>2. CASE q # p
      <4>1. q < sz
        BY <1>1, <1>4
      <4> QED
        BY <1>2, <3>2, <4>1
    <3> QED
      BY <3>1, <3>2
  <2>2. sl[o] \in FileEntries /\ (sl[o].ino \in dm \/ c[sl[o].name] = sl[o].ino)
    BY <2>1 DEF Lists
  <2>3. sl[o].name \in Names /\ sl[o].ino # None
    BY <2>2, Sizes DEF FileEntries
  <2>4. sl[o].name = x => sl[o].ino \in dm
    <3>1. SUFFICES ASSUME sl[o].name = x, sl[o].ino \notin dm
                   PROVE  FALSE
      OBVIOUS
    <3>2. c[x] \notin dm \union {None}
      BY <2>2, <2>3, <3>1
    <3>3. PICK q2 \in Positions : At(sl, x, sz) = {q2} /\ sl[q2].ino = c[x]
      BY <3>2 DEF Lists
    <3>4. o \in At(sl, x, sz)
      BY <2>1, <3>1 DEF At
    <3> QED
      BY <2>1, <3>3, <3>4
  <2> QED
    BY <2>1, <2>2, <2>3, <2>4
<1>5. ASSUME NEW n \in Names, c2[n] \notin dm \union {None}
      PROVE  \E q \in Positions : At(sl2, n, sz - 1) = {q} /\ sl2[q].ino = c2[n]
  <2>1. n # x /\ c2[n] = c[n]
    BY <1>5
  <2>2. PICK o \in Positions : At(sl, n, sz) = {o} /\ sl[o].ino = c[n]
    BY <1>5, <2>1 DEF Lists
  <2>3. sl[o].name = n
    BY <2>2 DEF At
  <2>4. o # p
    BY <1>2, <2>1, <2>3
  <2>5. CASE o = sz - 1
    <3>1. At(sl2, n, sz - 1) = {p}
      BY <1>0, <2>1, <2>2, <2>5 DEF RemovesAt
    <3> QED
      BY <1>2, <2>1, <2>2, <2>5, <3>1
  <2>6. CASE o # sz - 1
    <3>1. At(sl2, n, sz - 1) = {o}
      BY <1>0, <2>1, <2>2, <2>6 DEF RemovesAt
    <3> QED
      BY <1>2, <2>1, <2>2, <2>4, <3>1
  <2> QED
    BY <2>5, <2>6
<1> QED
  BY <1>4, <1>5 DEF Lists

\* The directory after an entry is removed.
LEMMA DirAfterRemove ==
    ASSUME NEW s, NEW x, NEW s2, NEW sl, NEW sl2, NEW sz \in 0..MaxSize, NEW ds,
           NEW bf, NEW nm, NEW mv, NEW dm, NEW p \in At(sl, x, sz),
           Removes(s, x, s2, sl, sz, bf, nm, dm),
           Puts(sl2, sl, p, sl[sz - 1]),
           DirInv(sl, sz, ds, s, bf, nm, mv, dm)
    PROVE  DirInv(sl2, sz, ds, s2, bf, nm, mv \union {sl[sz - 1].ino}, dm)
<1> DEFINE c == Current(s, bf, nm)
           c2 == Current(s2, bf, nm)
           ch == Changing(mv \union {sl[sz - 1].ino}, bf, nm, dm)
           d == sl[sz - 1]
<1>1. Extent(sz, s) = sz /\ Extent(sz, s2) = sz - 1
  BY DEF Removes, Extent
<1>2. Lists(sl, sz, c, dm) /\ ds = sz
  BY <1>1 DEF DirInv, Removes
<1>3. x \in Names
  BY DEF Removes
<1>4. Positions = 0..(MaxSize - 1) /\ MaxSize \in Nat
  BY Sizes
<1>5. p \in Positions /\ p < sz
  BY DEF At
<1>6. sz - 1 \in Positions /\ sz - 1 < sz /\ sz - 1 \in Nat
  BY <1>4, <1>5
<1>7. c2[x] \in dm \union {None}
  <2>1. ~LeftNamed(s2, "remove", x)
    BY DEF Removes
  <2>2. bf[x] = nm[x] => bf[x] \in dm \union {None}
    BY DEF Removes
  <2>3. nm[x] = None \/ LeftNamed(s2, "add", x)
    BY DEF Removes
  <2> QED
    BY <1>3, <2>1, <2>2, <2>3, CurrentOf
<1>8. \A m \in Names : m # x => c2[m] = c[m]
  <2> SUFFICES ASSUME NEW m \in Names, m # x
               PROVE  c2[m] = c[m]
    OBVIOUS
  <2>1. /\ LeftNamed(s, "add", m) <=> LeftNamed(s2, "add", m)
        /\ LeftNamed(s, "remove", m) <=> LeftNamed(s2, "remove", m)
    BY DEF Removes
  <2> QED
    BY <2>1, CurrentOf
<1>9. d \in FileEntries /\ (d.ino \in dm \/ c[d.name] = d.ino)
  BY <1>2, <1>6 DEF Lists
<1>10. \A m \in Names : bf[m] = nm[m] => c[m] = nm[m]
  BY CurrentOf
<1> HIDE DEF c, c2, ch, d
<1>11. Lists(sl2, sz - 1, c2, dm)
  BY <1>2, <1>3, <1>7, <1>8, ListsAfterRemove
<1>12. sl2[sz - 1] = d
  BY <1>6 DEF Puts, d
<1>13. Excess(d, TRUE, bf, nm, ch, dm)
  <2> DEFINE y == d.name
  <2>1. y \in Names /\ d.ino \in INodes /\ d.ino # None
    BY <1>9, Sizes DEF FileEntries
  <2>2. /\ d.ino \in ch
        /\ bf[y] # nm[y] => nm[y] \in ch
        /\ nm[y] \in dm \union {None} => nm[y] \in ch
    BY <2>1, ChangingHas DEF ch, d
  <2>3. ASSUME bf[y] = nm[y], nm[y] \notin dm \union {None}
        PROVE  d.ino = nm[y]
    <3>1. c[y] = nm[y]
      BY <1>10, <2>1, <2>3
    <3>2. PICK q \in Positions : At(sl, y, sz) = {q} /\ sl[q].ino = c[y]
      BY <1>2, <2>1, <2>3, <3>1 DEF Lists
    <3>3. sz - 1 \in At(sl, y, sz)
      BY <1>6 DEF At, d
    <3> QED
      BY <3>1, <3>2, <3>3 DEF d
  <2>4. nm[y] \in ch
    BY <2>2, <2>3
  <2>5. bf[y] = nm[y] => d.ino \in dm \/ d.ino = nm[y]
    BY <1>9, <1>10, <2>1
  <2> QED
    BY <1>9, <2>2, <2>4, <2>5 DEF Excess
<1>14. Differ(sl2, sz - 1, ds, bf, nm, ch, dm)
  <2> SUFFICES ASSUME NEW q \in Positions,
                      (sz - 1 <= q /\ q < ds) \/ (ds <= q /\ q < sz - 1)
               PROVE  Excess(sl2[q], q < ds, bf, nm, ch, dm)
    BY DEF Differ
  <2>1. q = sz - 1 /\ (q < ds) = TRUE
    BY <1>2, <1>4
  <2> QED
    BY <1>12, <1>13, <2>1
<1>15. ds \in ((sz - 1) - 1)..((sz - 1) + 1) /\ ds >= sz - 1
  BY <1>2, <1>6
<1>16. WritesSize(s2)
  BY DEF Removes
<1> QED
  BY <1>1, <1>6, <1>11, <1>14, <1>15, <1>16 DEF DirInv, c2, ch

\* What the steps left rely on after an entry is removed.
LEMMA StepsAfterRemove ==
    ASSUME NEW s, NEW x, NEW s2, NEW sl, NEW sl2, NEW sz \in 0..MaxSize,
           NEW bf, NEW nm, NEW dm, NEW p \in At(sl, x, sz),
           nm \in [Names -> INodes \union {None}],
           Removes(s, x, s2, sl, sz, bf, nm, dm),
           Puts(sl2, sl, p, sl[sz - 1]),
           Lists(sl, sz, Current(s, bf, nm), dm),
           StepInv(sl, sz, s, bf, nm, dm)
    PROVE  StepInv(sl2, sz, s2, bf, nm, dm)
<1>1. Extent(sz, s) = sz /\ Extent(sz, s2) = sz - 1
  BY DEF Removes, Extent
<1>2. RemovesAt(sl2, sl, sz, p, x)
  BY AtAfterRemove
<1>3. x \in Names
  BY DEF Removes
<1>4. ASSUME NEW n \in Names
      PROVE  RemoveInv(n, sl2, sz - 1, s2, bf, nm, dm)
  <2>1. SUFFICES ASSUME LeftNamed(s2, "remove", n)
                 PROVE  /\ At(sl2, n, sz - 1) # {}
                        /\ nm[n] = None \/ LeftNamed(s2, "add", n)
                        /\ bf[n] = nm[n] => bf[n] \in dm \union {None}
    BY DEF RemoveInv
  <2>2. n # x /\ LeftNamed(s, "remove", n) /\ (LeftNamed(s, "add", n) <=> LeftNamed(s2, "add", n))
    BY <2>1 DEF Removes
  <2>3. RemoveInv(n, sl, sz, s, bf, nm, dm)
    BY <1>1 DEF StepInv
  <2>4. At(sl2, n, sz - 1) # {}
    <3>1. At(sl, n, sz) # {}
      BY <2>2, <2>3 DEF RemoveInv
    <3>2. CASE sz - 1 \in At(sl, n, sz)
      BY <1>2, <2>2, <3>2 DEF RemovesAt
    <3>3. CASE sz - 1 \notin At(sl, n, sz)
      BY <1>2, <2>2, <3>1, <3>3 DEF RemovesAt
    <3> QED
      BY <3>2, <3>3
  <2> QED
    BY <2>2, <2>3, <2>4 DEF RemoveInv
<1>5. ASSUME NEW n \in Names
      PROVE  AddInv(n, sl2, sz - 1, s2, bf, nm, dm)
  <2>1. SUFFICES ASSUME LeftNamed(s2, "add", n)
                 PROVE  /\ nm[n] # None /\ LeftFor(s2, "add", nm[n])
                        /\ bf[n] = nm[n] => nm[n] \in dm
                        /\ nm[n] \notin dm => ~LeftNamed(s2, "remove", n) /\ At(sl2, n, sz - 1) = {}
    BY DEF AddInv
  <2>2. n = x /\ LeftNamed(s, "add", n) /\ LeftNamed(s, "remove", n) /\ ~LeftNamed(s2, "remove", n)
    BY <2>1 DEF Removes
  <2>3. AddInv(n, sl, sz, s, bf, nm, dm)
    BY <1>1 DEF StepInv
  <2>4. /\ nm[n] # None /\ LeftFor(s, "add", nm[n])
        /\ bf[n] = nm[n] => nm[n] \in dm
        /\ nm[n] \notin dm => bf[n] \notin dm \union {None}
    BY <2>2, <2>3 DEF AddInv
  <2>5. LeftFor(s2, "add", nm[n])
    <3>1. nm[n] \in INodes
      BY <2>4
    <3> QED
      BY <2>4, <3>1 DEF Removes
  <2>6. nm[n] \notin dm => At(sl2, n, sz - 1) = {}
    <3>1. SUFFICES ASSUME nm[n] \notin dm
                   PROVE  At(sl2, n, sz - 1) = {}
      OBVIOUS
    <3>2. bf[n] # nm[n] /\ bf[n] \notin dm \union {None}
      BY <2>4, <3>1
    <3>3. Current(s, bf, nm)[n] = bf[n]
      BY <2>2, <3>2, CurrentOf
    <3>4. PICK q \in Positions : At(sl, n, sz) = {q}
      BY <3>2, <3>3 DEF Lists
    <3>5. At(sl, x, sz) = {p}
      BY <2>2, <3>4
    <3> QED
      BY <1>2, <2>2, <3>5 DEF RemovesAt
  <2> QED
    BY <2>2, <2>4, <2>5, <2>6
<1>6. ASSUME NEW n \in Names
      PROVE  OpenInv(n, sl2, sz - 1, s2)
  BY DEF OpenInv, Removes
<1> QED
  BY <1>1, <1>4, <1>5, <1>6 DEF StepInv

\* A removal takes away one entry and at most one name.
LEMMA CountAfterRemove ==
    ASSUME NEW s, NEW x, NEW s2, NEW sl, NEW sl2, NEW sz \in 0..MaxSize,
           NEW bf, NEW nm, NEW dm, NEW p \in At(sl, x, sz), NEW c, NEW c2, NEW cr \in Nat,
           Removes(s, x, s2, sl, sz, bf, nm, dm),
           Puts(sl2, sl, p, sl[sz - 1]),
           Lists(sl, sz, c, dm), Lists(sl2, sz - 1, c2, dm),
           CountInv(sl, sz, s, cr)
    PROVE  CountInv(sl2, sz - 1, s2, cr)
<1> DEFINE N == NamesIn(sl, sz)
           M == NamesIn(sl2, sz - 1)
<1>1. /\ IsFiniteSet(N) /\ Cardinality(N) \in Nat
      /\ \A k : k \in N <=> At(sl, k, sz) # {}
  BY NamesInFinite
<1>2. /\ IsFiniteSet(M) /\ Cardinality(M) \in Nat
      /\ \A k : k \in M <=> At(sl2, k, sz - 1) # {}
  BY NamesInFinite
<1>3. RemovesAt(sl2, sl, sz, p, x)
  BY AtAfterRemove
<1>4. sz + 0 <= Cardinality(N) + cr
  <2>1. ~AddsTwice(sl, sz, s)
    <3>1. SUFFICES ASSUME NEW n \in NamesIn(sl, sz), LeftNamed(s, "add", n),
                          ~LeftNamed(s, "remove", n)
                   PROVE  FALSE
      BY DEF AddsTwice
    <3>2. n \in Names
      BY NamesInFinite
    <3> QED
      BY <3>1, <3>2 DEF Removes
  <2> QED
    BY <2>1 DEF CountInv, One
<1> HIDE DEF N, M
<1>5. N \ {x} \subseteq M
  <2> SUFFICES ASSUME NEW k \in N, k # x
               PROVE  k \in M
    OBVIOUS
  <2>1. At(sl, k, sz) # {}
    BY <1>1
  <2>2. At(sl2, k, sz - 1) # {}
    <3>1. CASE sz - 1 \in At(sl, k, sz)
      BY <1>3, <3>1 DEF RemovesAt
    <3>2. CASE sz - 1 \notin At(sl, k, sz)
      BY <1>3, <2>1, <3>2 DEF RemovesAt
    <3> QED
      BY <3>1, <3>2
  <2> QED
    BY <1>2, <2>2
<1>6. Cardinality(N \ {x}) >= Cardinality(N) - 1 /\ Cardinality(N \ {x}) \in Int
  <2>1. Cardinality(N \ {x}) = IF x \in N THEN Cardinality(N) - 1 ELSE Cardinality(N)
    BY <1>1, FS_RemoveElement
  <2> QED
    BY <1>1, <2>1
<1>7. Cardinality(M) >= Cardinality(N) - 1
  <2>1. Cardinality(N \ {x}) <= Cardinality(M)
    BY <1>2, <1>5, FS_Subset
  <2> QED
    BY <1>1, <1>2, <1>6, <2>1
<1>8. CASE x \in M
  <2>1. N \subseteq M
    BY <1>5, <1>8
  <2>2. Cardinality(N) <= Cardinality(M)
    BY <1>2, <2>1, FS_Subset
  <2>3. sz - 1 + 1 <= Cardinality(M) + cr /\ sz - 1 + 0 <= Cardinality(M) + cr
    BY <1>1, <1>2, <1>4, <2>2, Sizes
  <2> QED
    BY <2>3 DEF CountInv, One, M
<1>9. CASE x \notin M
  <2>1. ~AddsTwice(sl2, sz - 1, s2)
    <3>1. SUFFICES ASSUME NEW n \in NamesIn(sl2, sz - 1), LeftNamed(s2, "add", n)
                   PROVE  FALSE
      BY DEF AddsTwice
    <3>2. n \in Names
      BY NamesInFinite
    <3>3. n = x
      BY <3>1, <3>2 DEF Removes
    <3> QED
      BY <1>9, <3>3 DEF M
  <2>2. sz - 1 + 0 <= Cardinality(M) + cr
    BY <1>1, <1>2, <1>4, <1>7, Sizes
  <2> QED
    BY <2>1, <2>2 DEF CountInv, One, M
<1> QED
  BY <1>8, <1>9

-----------------------------------------------------------------------------
(* Steps that leave the entries alone.                                     *)

\* What the steps left rely on stays true.
LEMMA StepsStay ==
    ASSUME NEW sl, NEW sz, NEW s, NEW bf, NEW nm, NEW dm, NEW sz2, NEW r,
           StepInv(sl, sz, s, bf, nm, dm),
           SameChanges(s, r), Extent(sz, s) = Extent(sz2, r),
           \A i : LeftFor(s, "add", i) <=> LeftFor(r, "add", i),
           \A n : LeftNamed(r, "open", n) => LeftNamed(s, "open", n)
    PROVE  StepInv(sl, sz2, r, bf, nm, dm)
<1> DEFINE e == Extent(sz, s)
<1>1. ASSUME NEW n \in Names
      PROVE  /\ RemoveInv(n, sl, e, r, bf, nm, dm)
             /\ AddInv(n, sl, e, r, bf, nm, dm)
             /\ OpenInv(n, sl, e, r)
  <2>1. /\ RemoveInv(n, sl, e, s, bf, nm, dm)
        /\ AddInv(n, sl, e, s, bf, nm, dm)
        /\ OpenInv(n, sl, e, s)
    BY DEF StepInv
  <2>2. /\ LeftNamed(s, "remove", n) <=> LeftNamed(r, "remove", n)
        /\ LeftNamed(s, "add", n) <=> LeftNamed(r, "add", n)
    BY DEF SameChanges
  <2> HIDE DEF e
  <2>3. RemoveInv(n, sl, e, r, bf, nm, dm)
    BY <2>1, <2>2 DEF RemoveInv
  <2>4. AddInv(n, sl, e, r, bf, nm, dm)
    BY <2>1, <2>2 DEF AddInv
  <2>5. OpenInv(n, sl, e, r)
    BY <2>1, <2>2 DEF OpenInv
  <2> QED
    BY <2>3, <2>4, <2>5
<1> QED
  BY <1>1 DEF StepInv

\* Nothing is relied on at the end of a call.
LEMMA StepsEnd ==
    ASSUME NEW sl, NEW sz, NEW s, NEW bf, NEW nm, NEW dm, NothingLeft(s)
    PROVE  StepInv(sl, sz, s, bf, nm, dm)
  BY DEF StepInv, RemoveInv, AddInv, OpenInv, NothingLeft

\* There are as many entries and names as before.
LEMMA CountStays ==
    ASSUME NEW sl, NEW e, NEW s, NEW cr, NEW r, CountInv(sl, e, s, cr), SameChanges(s, r)
    PROVE  CountInv(sl, e, r, cr)
<1>1. AddsTwice(sl, e, s) <=> AddsTwice(sl, e, r)
  BY DEF AddsTwice, SameChanges
<1> QED
  BY <1>1 DEF CountInv, One

\* A step that neither adds nor removes an entry, nor changes the size.
LEMMA QuietStep ==
    ASSUME NEW s, NEW h, NEW r, BeforeStep(s, h, r), h.what \notin {"add", "remove"}
    PROVE  /\ SameChanges(s, r)
           /\ \A i : LeftFor(s, "add", i) <=> LeftFor(r, "add", i)
           /\ \A n : LeftNamed(r, "open", n) => LeftNamed(s, "open", n)
           /\ h.what # "writeSize" => (WritesSize(s) <=> WritesSize(r))
           /\ h.what # "shrink" => (Left(s, "shrink") <=> Left(r, "shrink"))
<1>1. SameChanges(s, r)
  BY DEF BeforeStep, SameChanges
<1> QED
  BY <1>1 DEF BeforeStep

-----------------------------------------------------------------------------
(* Steps and the links.                                                    *)

\* The steps left are the same for a file.
SameFor(i, s, r, bf) ==
    /\ \A w \in {"firstLink", "link", "unlink", "writeLinks", "free"} :
          LeftFor(s, w, i) <=> LeftFor(r, w, i)
    /\ ToUnlink(i, s, bf) <=> ToUnlink(i, r, bf)

\* A step that is not about a file.
LEMMA FileStays ==
    ASSUME NEW i, NEW lk, NEW dl, NEW us, NEW us2, NEW rf, NEW s, NEW r, NEW bf, NEW nm,
           FileInv(i, lk, dl, us, rf, s, bf, nm), SameFor(i, s, r, bf),
           i \in us <=> i \in us2
    PROVE  FileInv(i, lk, dl, us2, rf, r, bf, nm)
<1>1. /\ LeftFor(s, "firstLink", i) <=> LeftFor(r, "firstLink", i)
      /\ LeftFor(s, "link", i) <=> LeftFor(r, "link", i)
      /\ LeftFor(s, "unlink", i) <=> LeftFor(r, "unlink", i)
      /\ LeftFor(s, "writeLinks", i) <=> LeftFor(r, "writeLinks", i)
      /\ LeftFor(s, "free", i) <=> LeftFor(r, "free", i)
      /\ ToUnlink(i, s, bf) <=> ToUnlink(i, r, bf)
  BY DEF SameFor
<1>2. Counts(i, lk, s, bf, nm) <=> Counts(i, lk, r, bf, nm)
  BY <1>1 DEF Counts, One
<1>3. OnDisk(i, dl, rf, s, bf, nm) <=> OnDisk(i, dl, rf, r, bf, nm)
  BY <1>1 DEF OnDisk
<1> QED
  BY <1>1, <1>2, <1>3 DEF FileInv

\* A step of another file, or of none, is not about a file.
LEMMA OtherFileStays ==
    ASSUME NEW i, NEW s, NEW h, NEW r, NEW bf, BeforeStep(s, h, r), h.what # "remove",
           h.ino # i \/ h.what \notin {"firstLink", "link", "unlink", "writeLinks", "free"}
    PROVE  SameFor(i, s, r, bf)
<1>1. \A w \in {"firstLink", "link", "unlink", "writeLinks", "free"} :
          LeftFor(s, w, i) <=> LeftFor(r, w, i)
  BY DEF BeforeStep
<1>2. \A n : LeftNamed(s, "remove", n) <=> LeftNamed(r, "remove", n)
  BY DEF BeforeStep
<1> QED
  BY <1>1, <1>2 DEF SameFor, ToUnlink

\* The steps left for the file of a step that has one.
LEMMA OwnFile ==
    ASSUME NEW s, NEW h, NEW r, NEW bf, BeforeStep(s, h, r), h.what # "remove"
    PROVE  /\ \A w : w # h.what => (LeftFor(s, w, h.ino) <=> LeftFor(r, w, h.ino))
           /\ LeftFor(s, h.what, h.ino)
           /\ ToUnlink(h.ino, s, bf) <=> h.what = "unlink" \/ ToUnlink(h.ino, r, bf)
<1>1. \A n : LeftNamed(s, "remove", n) <=> LeftNamed(r, "remove", n)
  BY DEF BeforeStep
<1>2. \A w : LeftFor(s, w, h.ino) <=> h.what = w \/ LeftFor(r, w, h.ino)
  BY DEF BeforeStep
<1>3. ToUnlink(h.ino, s, bf) <=> h.what = "unlink" \/ ToUnlink(h.ino, r, bf)
  BY <1>1, <1>2 DEF ToUnlink
<1> QED
  BY <1>2, <1>3

\* The count of links for each of the cases.
LEMMA CountsAre ==
    ASSUME NEW i, NEW lk, NEW s, NEW bf, NEW nm
    PROVE  Counts(i, lk, s, bf, nm) <=>
              /\ Named(i, nm) /\ ToUnlink(i, s, bf) /\ LeftFor(s, "link", i) => lk = 1
              /\ Named(i, nm) /\ ToUnlink(i, s, bf) /\ ~LeftFor(s, "link", i) => lk = 2
              /\ Named(i, nm) /\ ~ToUnlink(i, s, bf) /\ LeftFor(s, "link", i) => lk = 0
              /\ Named(i, nm) /\ ~ToUnlink(i, s, bf) /\ ~LeftFor(s, "link", i) => lk = 1
              /\ ~Named(i, nm) /\ ToUnlink(i, s, bf) /\ LeftFor(s, "link", i) => lk = 0
              /\ ~Named(i, nm) /\ ToUnlink(i, s, bf) /\ ~LeftFor(s, "link", i) => lk = 1
              /\ ~Named(i, nm) /\ ~ToUnlink(i, s, bf) /\ LeftFor(s, "link", i) => lk = -1
              /\ ~Named(i, nm) /\ ~ToUnlink(i, s, bf) /\ ~LeftFor(s, "link", i) => lk = 0
  BY DEF Counts, One

\* A file has at most two links.
LEMMA OneFits == 1 \in 0..2
  OBVIOUS

\* createFile sets the count of a file that has one name.
LEMMA FirstLinkStep ==
    ASSUME NEW s, NEW h, NEW r, NEW i, NEW lk, NEW dl, NEW us, NEW rf, NEW bf, NEW nm, NEW dm,
           BeforeStep(s, h, r), h.what = "firstLink", h.ino = i, Follows(h, r, bf, dm),
           FileInv(i, lk, dl, us, rf, s, bf, nm)
    PROVE  FileInv(i, 1, dl, us, rf, r, bf, nm)
<1>1. /\ \A w : w # "firstLink" => (LeftFor(s, w, i) <=> LeftFor(r, w, i))
      /\ LeftFor(s, "firstLink", i)
      /\ ToUnlink(i, s, bf) <=> ToUnlink(i, r, bf)
  BY OwnFile
<1>2. ~LeftFor(r, "firstLink", i) /\ ~LeftFor(r, "link", i) /\ ~LeftFor(r, "unlink", i)
  BY DEF Follows
<1>3. Named(i, nm) /\ ~ToUnlink(i, s, bf)
  BY <1>1 DEF FileInv
<1>4. Counts(i, 1, r, bf, nm)
  BY <1>1, <1>2, <1>3, CountsAre
<1>5. OnDisk(i, dl, rf, s, bf, nm) => OnDisk(i, dl, rf, r, bf, nm)
  BY <1>1 DEF OnDisk
<1>6. (LeftFor(s, "free", i) <=> LeftFor(r, "free", i)) /\ 1 \in 0..2
  <2>1. "free" # "firstLink"
    BY Zenon
  <2>2. 1 \in 0..2
    BY OneFits, Zenon
  <2> QED
    BY <1>1, <2>1, <2>2, Zenon
<1>7. ~ToUnlink(i, r, bf)
  BY <1>1, <1>3
<1> QED
  BY <1>2, <1>3, <1>4, <1>5, <1>6, <1>7 DEF FileInv

\* linkINode counts the name that renameFile has added.
LEMMA LinkStep ==
    ASSUME NEW s, NEW h, NEW r, NEW i, NEW lk, NEW dl, NEW us, NEW rf, NEW bf, NEW nm, NEW dm,
           BeforeStep(s, h, r), h.what = "link", h.ino = i, Follows(h, r, bf, dm),
           FileInv(i, lk, dl, us, rf, s, bf, nm)
    PROVE  FileInv(i, lk + 1, dl, us, rf, r, bf, nm)
<1>1. /\ \A w : w # "link" => (LeftFor(s, w, i) <=> LeftFor(r, w, i))
      /\ LeftFor(s, "link", i)
      /\ ToUnlink(i, s, bf) <=> ToUnlink(i, r, bf)
  BY OwnFile
<1>2. ~LeftFor(r, "link", i)
  BY DEF Follows
<1>3. Named(i, nm) /\ i \in us /\ ~LeftFor(s, "firstLink", i)
  BY <1>1 DEF FileInv
<1>4. Counts(i, lk, s, bf, nm)
  BY <1>3 DEF FileInv
<1>5. lk = IF ToUnlink(i, r, bf) THEN 1 ELSE 0
  BY <1>1, <1>3, <1>4, CountsAre
<1>6. Counts(i, lk + 1, r, bf, nm) /\ lk + 1 \in 0..2
  <2>1. lk + 1 = IF ToUnlink(i, r, bf) THEN 2 ELSE 1
    BY <1>5
  <2>2. Counts(i, lk + 1, r, bf, nm)
    BY <1>2, <1>3, <2>1, CountsAre
  <2> QED
    BY <2>1, <2>2
<1>7. OnDisk(i, dl, rf, s, bf, nm) => OnDisk(i, dl, rf, r, bf, nm)
  BY <1>1 DEF OnDisk
<1> QED
  BY <1>1, <1>2, <1>3, <1>6, <1>7 DEF FileInv

\* unlinkFileFromINode counts the name that it has removed.
LEMMA UnlinkStep ==
    ASSUME NEW s, NEW h, NEW r, NEW i, NEW lk, NEW dl, NEW us, NEW rf, NEW bf, NEW nm, NEW dm,
           BeforeStep(s, h, r), h.what = "unlink", h.ino = i, i \notin dm, Follows(h, r, bf, dm),
           FileInv(i, lk, dl, us, rf, s, bf, nm)
    PROVE  FileInv(i, lk - 1, dl, us, rf, r, bf, nm)
<1>1. /\ \A w : w # "unlink" => (LeftFor(s, w, i) <=> LeftFor(r, w, i))
      /\ LeftFor(s, "unlink", i)
      /\ ToUnlink(i, s, bf)
  BY OwnFile
<1>2. ~ToUnlink(i, r, bf) /\ ~LeftFor(r, "unlink", i)
  BY DEF Follows, ToUnlink
<1>3. i \in us /\ ~LeftFor(s, "firstLink", i)
  BY <1>1 DEF FileInv
<1>4. Counts(i, lk, s, bf, nm)
  BY <1>3 DEF FileInv
<1>5. LeftFor(s, "link", i) => Named(i, nm)
  BY DEF FileInv
<1>6. /\ Named(i, nm) => lk = IF LeftFor(s, "link", i) THEN 1 ELSE 2
      /\ ~Named(i, nm) => lk = 1
  BY <1>1, <1>4, <1>5, CountsAre
<1>7. LeftFor(s, "link", i) <=> LeftFor(r, "link", i)
  BY <1>1
<1>8. Counts(i, lk - 1, r, bf, nm) /\ lk - 1 \in 0..2
  BY <1>2, <1>5, <1>6, <1>7, CountsAre
<1>9. LeftFor(s, "writeLinks", i) /\ LeftFor(s, "free", i)
  BY <1>1 DEF FileInv
<1>10. LeftFor(r, "writeLinks", i) /\ LeftFor(r, "free", i)
  BY <1>1, <1>9
<1>11. OnDisk(i, dl, rf, s, bf, nm) => OnDisk(i, dl, rf, r, bf, nm)
  BY <1>1, <1>10 DEF OnDisk
<1>12. LeftFor(s, "firstLink", i) <=> LeftFor(r, "firstLink", i)
  BY <1>1
<1> QED
  BY <1>2, <1>3, <1>5, <1>7, <1>8, <1>10, <1>11, <1>12 DEF FileInv

\* iput writes the count of a file nobody else refers to.
LEMMA WriteLinksStep ==
    ASSUME NEW s, NEW h, NEW r, NEW i, NEW lk, NEW dl, NEW us, NEW rf, NEW bf, NEW nm, NEW dm,
           BeforeStep(s, h, r), h.what = "writeLinks", h.ino = i, i \notin dm,
           Follows(h, r, bf, dm), FileInv(i, lk, dl, us, rf, s, bf, nm)
    PROVE  FileInv(i, lk, IF i \notin rf THEN lk ELSE dl, us, rf, r, bf, nm)
<1> DEFINE dl2 == IF i \notin rf THEN lk ELSE dl
<1>1. /\ \A w : w # "writeLinks" => (LeftFor(s, w, i) <=> LeftFor(r, w, i))
      /\ ToUnlink(i, s, bf) <=> ToUnlink(i, r, bf)
  BY OwnFile
<1>2. ~LeftFor(r, "firstLink", i) /\ ~LeftFor(r, "link", i) /\ ~LeftFor(r, "unlink", i)
  BY DEF Follows
<1>3. ~LeftFor(s, "firstLink", i) /\ ~LeftFor(s, "link", i) /\ ~LeftFor(s, "unlink", i)
  BY <1>1, <1>2
<1>4. i \in us => Counts(i, lk, s, bf, nm)
  BY <1>3 DEF FileInv
<1>5. Counts(i, lk, s, bf, nm) <=> Counts(i, lk, r, bf, nm)
  BY <1>1, <1>2, <1>3, CountsAre
<1>6. dl2 \in 0..2 /\ lk \in 0..2 /\ dl \in 0..2
  BY DEF FileInv
<1>7. Named(i, nm) => OnDisk(i, dl2, rf, r, bf, nm)
  <2>1. SUFFICES ASSUME Named(i, nm)
                 PROVE  OnDisk(i, dl2, rf, r, bf, nm)
    OBVIOUS
  <2>2. i \in us /\ OnDisk(i, dl, rf, s, bf, nm)
    BY <2>1 DEF FileInv
  <2>3. CASE i \in rf
    BY <2>2, <2>3 DEF OnDisk
  <2>4. CASE i \notin rf /\ ToUnlink(i, s, bf)
    <3>1. Renamed(i, bf, nm)
      BY <2>1, <2>4 DEF FileInv
    <3> QED
      BY <1>1, <2>4, <3>1 DEF OnDisk
  <2>5. CASE i \notin rf /\ ~ToUnlink(i, s, bf)
    <3>1. lk = 1
      BY <1>3, <1>4, <2>1, <2>2, <2>5, CountsAre
    <3> QED
      BY <2>5, <3>1 DEF OnDisk
  <2> QED
    BY <2>3, <2>4, <2>5
<1>8. LeftFor(s, "free", i) <=> LeftFor(r, "free", i)
  BY <1>1
<1> HIDE DEF dl2
<1>9. FileInv(i, lk, dl2, us, rf, r, bf, nm)
  BY <1>1, <1>2, <1>4, <1>5, <1>6, <1>7, <1>8 DEF FileInv
<1> QED
  BY <1>9 DEF dl2

\* iput frees the inode of a file that nobody refers to and that has no link.
LEMMA FreeStep ==
    ASSUME NEW s, NEW h, NEW r, NEW i, NEW lk, NEW dl, NEW us, NEW us2, NEW rf,
           NEW bf, NEW nm, NEW dm,
           BeforeStep(s, h, r), h.what = "free", h.ino = i, i \notin dm,
           Follows(h, r, bf, dm), FileInv(i, lk, dl, us, rf, s, bf, nm),
           i \in us2 <=> i \in us /\ ~(i \notin rf /\ lk = 0)
    PROVE  FileInv(i, lk, dl, us2, rf, r, bf, nm)
<1>1. /\ \A w : w # "free" => (LeftFor(s, w, i) <=> LeftFor(r, w, i))
      /\ ToUnlink(i, s, bf) <=> ToUnlink(i, r, bf)
  BY OwnFile
<1>2. ~LeftFor(r, "firstLink", i) /\ ~LeftFor(r, "link", i) /\ ~LeftFor(r, "unlink", i)
  BY DEF Follows
<1>3. ~LeftFor(s, "firstLink", i) /\ ~LeftFor(s, "link", i) /\ ~LeftFor(s, "unlink", i)
  BY <1>1, <1>2
<1>4. i \in us => Counts(i, lk, s, bf, nm)
  BY <1>3 DEF FileInv
<1>5. Counts(i, lk, s, bf, nm) <=> Counts(i, lk, r, bf, nm)
  BY <1>1, <1>2, <1>3, CountsAre
<1>6. i \in us => (lk = 0 <=> ~Named(i, nm) /\ ~ToUnlink(i, s, bf))
  <2>1. SUFFICES ASSUME i \in us
                 PROVE  lk = 0 <=> ~Named(i, nm) /\ ~ToUnlink(i, s, bf)
    OBVIOUS
  <2>2. Counts(i, lk, s, bf, nm)
    BY <1>4, <2>1
  <2>3. ~Named(i, nm) /\ ~ToUnlink(i, s, bf) => lk = 0
    BY <1>3, <2>2, CountsAre
  <2>4. Named(i, nm) \/ ToUnlink(i, s, bf) => lk \in {1, 2}
    BY <1>3, <2>2, CountsAre
  <2> QED
    BY <2>3, <2>4
<1>7. OnDisk(i, dl, rf, s, bf, nm) <=> OnDisk(i, dl, rf, r, bf, nm)
  BY <1>1 DEF OnDisk
<1>8. Named(i, nm) => i \in us2
  BY <1>6 DEF FileInv
<1>9. i \in rf => i \in us2
  BY DEF FileInv
<1>10. ToUnlink(i, r, bf) => i \in us2
  BY <1>1, <1>6 DEF FileInv
<1>11. i \in us2 => Named(i, nm) \/ i \in rf \/ ToUnlink(i, r, bf)
  BY <1>1, <1>6
<1> QED
  BY <1>1, <1>2, <1>4, <1>5, <1>7, <1>8, <1>9, <1>10, <1>11 DEF FileInv

\* The end of a call, and the opening of a named file.
LEMMA FileEnds ==
    ASSUME NEW i, NEW lk, NEW dl, NEW us, NEW rf, NEW rf2, NEW s, NEW bf, NEW nm,
           FileInv(i, lk, dl, us, rf, s, bf, nm), NothingLeft(s),
           i \in rf => i \in rf2,
           i \in rf2 => i \in rf \/ Named(i, nm)
    PROVE  /\ FileInv(i, lk, dl, us, rf2, s, nm, nm)
           /\ FileInv(i, lk, dl, us, rf2, s, bf, nm)
           /\ i \in us => lk = IF Named(i, nm) THEN 1 ELSE 0
           /\ Named(i, nm) => dl = 1
<1>1. /\ \A w : ~LeftFor(s, w, i)
      /\ ~ToUnlink(i, s, bf) /\ ~ToUnlink(i, s, nm)
  BY DEF NothingLeft, ToUnlink
<1>2. i \in us => Counts(i, lk, s, bf, nm)
  BY <1>1 DEF FileInv
<1>3. i \in us => lk = IF Named(i, nm) THEN 1 ELSE 0
  BY <1>1, <1>2, CountsAre
<1>4. Counts(i, lk, s, bf, nm) <=> Counts(i, lk, s, nm, nm)
  BY <1>1, CountsAre
<1>5. Named(i, nm) => dl = 1
  BY <1>1 DEF OnDisk, FileInv
<1>6. Named(i, nm) => OnDisk(i, dl, rf2, s, bf, nm) /\ OnDisk(i, dl, rf2, s, nm, nm)
  BY <1>5 DEF OnDisk
<1> QED
  BY <1>1, <1>2, <1>3, <1>4, <1>5, <1>6 DEF FileInv

\* The links after an entry is removed: the file that a lookup finds is the
\* one the name led to.
LEMMA LinksAfterRemove ==
    ASSUME NEW s, NEW h, NEW r, NEW s2, NEW j, NEW i \in INodes, NEW lk, NEW dl, NEW us, NEW rf,
           NEW bf, NEW nm, NEW dm,
           BeforeStep(s, h, r), h.what = "remove", h.name \in Names, Follows(h, r, bf, dm),
           Unlinks(s2, j, r),
           i \notin dm,
           j = i <=> bf[h.name] = i,
           FileInv(i, lk, dl, us, rf, s, bf, nm)
    PROVE  FileInv(i, lk, dl, us, rf, s2, bf, nm)
<1>1. /\ \A w : w # "remove" => (LeftFor(s, w, i) <=> LeftFor(r, w, i))
      /\ \A n \in Names : LeftNamed(s, "remove", n) <=> n = h.name \/ LeftNamed(r, "remove", n)
  BY DEF BeforeStep
<1>2. ~LeftFor(r, "unlink", i) /\ ~LeftFor(r, "firstLink", i)
  <2>1. ~Left(r, "unlink") /\ ~Left(r, "firstLink")
    BY DEF Follows
  <2> QED
    BY <2>1, LeftAtAll
<1>3. /\ LeftFor(s2, "unlink", i) <=> i = j
      /\ LeftFor(s2, "writeLinks", i) <=> i = j \/ LeftFor(r, "writeLinks", i)
      /\ LeftFor(s2, "free", i) <=> i = j \/ LeftFor(r, "free", i)
      /\ LeftFor(s2, "link", i) <=> LeftFor(r, "link", i)
      /\ ~LeftFor(s2, "firstLink", i)
  BY <1>2 DEF Unlinks
<1>4. \A n \in Names : LeftNamed(s2, "remove", n) <=> LeftNamed(r, "remove", n)
  BY DEF Unlinks
<1>5. ToUnlink(i, s, bf) <=> bf[h.name] = i \/ \E n \in Names : LeftNamed(r, "remove", n) /\ bf[n] = i
  BY <1>1, <1>2 DEF ToUnlink
<1>6. ToUnlink(i, s2, bf) <=> i = j \/ \E n \in Names : LeftNamed(r, "remove", n) /\ bf[n] = i
  BY <1>3, <1>4 DEF ToUnlink
<1>7. ToUnlink(i, s, bf) <=> ToUnlink(i, s2, bf)
  BY <1>5, <1>6
<1>8. LeftFor(s, "link", i) <=> LeftFor(s2, "link", i)
  BY <1>1, <1>3
<1>9. Counts(i, lk, s, bf, nm) <=> Counts(i, lk, s2, bf, nm)
  BY <1>7, <1>8, CountsAre
<1>10. ~LeftFor(s, "firstLink", i)
  BY <1>1, <1>2
<1>11. LeftFor(s, "writeLinks", i) => LeftFor(s2, "writeLinks", i)
  BY <1>1, <1>3
<1>12. LeftFor(s, "free", i) => LeftFor(s2, "free", i)
  BY <1>1, <1>3
<1>13. OnDisk(i, dl, rf, s, bf, nm) => OnDisk(i, dl, rf, s2, bf, nm)
  BY <1>7, <1>11 DEF OnDisk
<1>14. LeftFor(s2, "unlink", i) => LeftFor(s2, "writeLinks", i) /\ LeftFor(s2, "free", i)
  BY <1>3
<1> QED
  BY <1>3, <1>7, <1>8, <1>9, <1>10, <1>12, <1>13, <1>14 DEF FileInv

-----------------------------------------------------------------------------
(* The next step of a call.                                                *)

\* The next step, and what is left after it.
LEMMA NextStep ==
    ASSUME NEW td, NEW bf, NEW dm, Ordered(td, bf, dm), td # << >>
    PROVE  /\ Head(td) \in Steps /\ Tail(td) \in Seq(Steps)
           /\ BeforeStep(td, Head(td), Tail(td))
           /\ IsStep(Head(td))
           /\ Follows(Head(td), Tail(td), bf, dm)
           /\ Ordered(Tail(td), bf, dm)
<1>1. td \in Seq(Steps)
  BY DEF Ordered
<1>2. Head(td) \in Steps /\ Tail(td) \in Seq(Steps) /\ td = Then(Head(td), Tail(td))
  BY <1>1, HeadThenTail
<1>3. BeforeStep(td, Head(td), Tail(td))
  BY <1>2, ThenLeaves
<1>4. IsStep(Head(td)) /\ Follows(Head(td), Tail(td), bf, dm) /\ Ordered(Tail(td), bf, dm)
  BY <1>2, OrderedThen
<1> QED
  BY <1>2, <1>3, <1>4

\* A step that does not touch the directory leaves what is said of it.
LEMMA DirUntouched ==
    ASSUME NEW s, NEW h, NEW r, NEW sl, NEW sz, NEW ds, NEW bf, NEW nm, NEW mv, NEW dm, NEW cr,
           BeforeStep(s, h, r), h.what \notin {"add", "remove", "shrink", "writeSize"},
           DirInv(sl, sz, ds, s, bf, nm, mv, dm),
           StepInv(sl, sz, s, bf, nm, dm),
           CountInv(sl, Extent(sz, s), s, cr)
    PROVE  /\ DirInv(sl, sz, ds, r, bf, nm, mv, dm)
           /\ StepInv(sl, sz, r, bf, nm, dm)
           /\ CountInv(sl, Extent(sz, r), r, cr)
<1>1. /\ SameChanges(s, r)
      /\ \A i : LeftFor(s, "add", i) <=> LeftFor(r, "add", i)
      /\ \A n : LeftNamed(r, "open", n) => LeftNamed(s, "open", n)
      /\ WritesSize(s) <=> WritesSize(r)
      /\ Left(s, "shrink") <=> Left(r, "shrink")
  BY QuietStep
<1>2. Extent(sz, s) = Extent(sz, r)
  BY <1>1 DEF Extent
<1>3. DirInv(sl, sz, ds, r, bf, nm, mv, dm)
  BY <1>1, <1>2, DirStays
<1>4. StepInv(sl, sz, r, bf, nm, dm)
  BY <1>1, <1>2, StepsStay
<1>5. CountInv(sl, Extent(sz, r), r, cr)
  BY <1>1, <1>2, CountStays
<1> QED
  BY <1>3, <1>4, <1>5

\* A step that changes the links of at most one file leaves what is said of
\* the others.
LEMMA LinksOfOne ==
    ASSUME NEW s, NEW h, NEW r, NEW lk, NEW dl, NEW us, NEW rf, NEW bf, NEW nm, NEW dm,
           NEW lk2, NEW dl2, NEW us2,
           BeforeStep(s, h, r), h.what # "remove",
           LinkInv(lk, dl, us, rf, s, bf, nm, dm),
           \A i \in INodes : i # h.ino => lk2[i] = lk[i] /\ dl2[i] = dl[i] /\ (i \in us <=> i \in us2),
           h.ino \in INodes \ dm =>
               FileInv(h.ino, lk2[h.ino], dl2[h.ino], us2, rf, r, bf, nm)
    PROVE  LinkInv(lk2, dl2, us2, rf, r, bf, nm, dm)
<1> SUFFICES ASSUME NEW i \in INodes \ dm
             PROVE  FileInv(i, lk2[i], dl2[i], us2, rf, r, bf, nm)
  BY DEF LinkInv
<1>1. CASE i = h.ino
  BY <1>1
<1>2. CASE i # h.ino
  <2>1. FileInv(i, lk[i], dl[i], us, rf, s, bf, nm)
    BY DEF LinkInv
  <2>2. SameFor(i, s, r, bf)
    BY <1>2, OtherFileStays
  <2>3. lk2[i] = lk[i] /\ dl2[i] = dl[i] /\ (i \in us <=> i \in us2)
    BY <1>2
  <2>4. FileInv(i, lk[i], dl[i], us2, rf, r, bf, nm)
    BY <2>1, <2>2, <2>3, FileStays
  <2> QED
    BY <2>3, <2>4
<1> QED
  BY <1>1, <1>2

\* A step that changes no links.
LEMMA LinksUntouched ==
    ASSUME NEW s, NEW h, NEW r, NEW lk, NEW dl, NEW us, NEW rf, NEW bf, NEW nm, NEW dm,
           BeforeStep(s, h, r), h.what \in {"add", "writeSize", "shrink", "open"},
           LinkInv(lk, dl, us, rf, s, bf, nm, dm)
    PROVE  LinkInv(lk, dl, us, rf, r, bf, nm, dm)
<1> SUFFICES ASSUME NEW i \in INodes \ dm
             PROVE  FileInv(i, lk[i], dl[i], us, rf, r, bf, nm)
  BY DEF LinkInv
<1>1. FileInv(i, lk[i], dl[i], us, rf, s, bf, nm)
  BY DEF LinkInv
<1>2. /\ h.what # "remove"
      /\ h.what \notin {"firstLink", "link", "unlink", "writeLinks", "free"}
  OBVIOUS
<1>3. SameFor(i, s, r, bf)
  BY <1>2, OtherFileStays
<1> QED
  BY <1>1, <1>3, FileStays

\* The end of a call.
LEMMA Ends ==
    ASSUME NEW sl, NEW sz, NEW ds, NEW lk, NEW dl, NEW us, NEW rf, NEW bf, NEW nm, NEW mv,
           NEW dm, NEW cr,
           nm \in [Names -> INodes \union {None}],
           Consistent(sl, sz, ds, lk, dl, us, rf, << >>, bf, nm, mv, dm, cr)
    PROVE  Consistent(sl, sz, ds, lk, dl, us, rf, << >>, nm, nm, {}, dm, cr)
<1>1. NothingLeft(<< >>)
  BY EmptyLeavesNothing
<1>2. DirInv(sl, sz, ds, << >>, nm, nm, {}, dm)
  BY <1>1, DirEnds DEF Consistent
<1>3. StepInv(sl, sz, << >>, nm, nm, dm)
  BY <1>1, StepsEnd
<1>4. Ordered(<< >>, nm, dm)
  BY EmptyIsOrdered
<1>5. LinkInv(lk, dl, us, rf, << >>, nm, nm, dm)
  <2> SUFFICES ASSUME NEW i \in INodes \ dm
               PROVE  FileInv(i, lk[i], dl[i], us, rf, << >>, nm, nm)
    BY DEF LinkInv
  <2>1. FileInv(i, lk[i], dl[i], us, rf, << >>, bf, nm)
    BY DEF LinkInv, Consistent
  <2> QED
    BY <1>1, <2>1, FileEnds
<1> QED
  BY <1>2, <1>3, <1>4, <1>5 DEF Consistent

-----------------------------------------------------------------------------
(* The steps of the calls.                                                 *)

\* Steps put together.
Joined(s, t) == s \o t

\* One step before others.
LEMMA JoinOne ==
    ASSUME NEW a \in Steps, NEW t \in Seq(Steps)
    PROVE  Joined(<<a>>, t) = Then(a, t)
  BY DEF Then, Joined

\* Two steps before others.
LEMMA JoinTwo ==
    ASSUME NEW a \in Steps, NEW b \in Steps, NEW t \in Seq(Steps)
    PROVE  Joined(<<a, b>>, t) = Then(a, Then(b, t))
<1>1. <<a>> \in Seq(Steps) /\ <<b>> \in Seq(Steps) /\ <<a, b>> \in Seq(Steps)
  OBVIOUS
<1>2. <<a, b>> = <<a>> \o <<b>>
  <2>1. Len(<<a>>) = 1 /\ Len(<<b>>) = 1 /\ Len(<<a, b>>) = 2
    OBVIOUS
  <2>2. /\ <<a>> \o <<b>> \in Seq(Steps)
        /\ Len(<<a>> \o <<b>>) = 2
        /\ (<<a>> \o <<b>>)[1] = a /\ (<<a>> \o <<b>>)[2] = b
    BY <1>1, <2>1, ConcatProperties
  <2>3. \A k \in 1..2 : <<a, b>>[k] = (<<a>> \o <<b>>)[k]
    BY <2>2
  <2> QED
    BY <1>1, <2>1, <2>2, <2>3, SeqEqual
<1>3. (<<a>> \o <<b>>) \o t = <<a>> \o (<<b>> \o t)
  BY <1>1, ConcatAssociative
<1> QED
  BY <1>2, <1>3, Zenon DEF Joined, Then

\* Nothing before others.
LEMMA JoinNothing ==
    ASSUME NEW t \in Seq(Steps)
    PROVE  Joined(<< >>, t) = t /\ Joined(t, << >>) = t
  BY ConcatEmptySeq DEF Joined

\* The order of putting together does not matter.
LEMMA JoinAssoc ==
    ASSUME NEW s \in Seq(Steps), NEW t \in Seq(Steps), NEW u \in Seq(Steps)
    PROVE  Joined(Joined(s, t), u) = Joined(s, Joined(t, u))
  BY ConcatAssociative DEF Joined

\* Steps put together are steps.
LEMMA JoinIsSeq ==
    ASSUME NEW s \in Seq(Steps), NEW t \in Seq(Steps)
    PROVE  Joined(s, t) \in Seq(Steps)
  BY ConcatProperties DEF Joined

\* Sequences of few steps.
LEMMA Few ==
    /\ << >> \in Seq(Steps)
    /\ \A a \in Steps : <<a>> \in Seq(Steps)
    /\ \A a, b \in Steps : <<a, b>> \in Seq(Steps)
    /\ \A a \in Steps : \A t \in Seq(Steps) : Then(a, t) \in Seq(Steps)
<1>1. \A a \in Steps : \A t \in Seq(Steps) : Then(a, t) \in Seq(Steps)
  BY ThenIsSeq
<1> QED
  BY <1>1

\* What a removal puts before the steps that are left.
LEMMA UnlinkSteps ==
    ASSUME NEW j \in INodes, NEW r \in Seq(Steps)
    PROVE  unlinkFileFromINode(j) \o r =
               Then(Do("unlink", None, j), Then(Do("writeLinks", None, j),
                    Then(Do("free", None, j), Then(Do("shrink", None, None), r))))
<1> DEFINE a == Do("unlink", None, j)
           b == Do("writeLinks", None, j)
           c == Do("free", None, j)
           d == Do("shrink", None, None)
<1>1. a \in Steps /\ b \in Steps /\ c \in Steps /\ d \in Steps
  BY DEF Do, Steps, Kinds
<1>2. unlinkFileFromINode(j) \o r = Joined(Joined(Joined(<<a>>, <<b, c>>), <<d>>), r)
  BY DEF unlinkFileFromINode, IputFile, Joined
<1> HIDE DEF a, b, c, d
<1>3. <<a>> \in Seq(Steps) /\ <<b, c>> \in Seq(Steps) /\ <<d>> \in Seq(Steps)
  BY <1>1, Few, Zenon
<1>4. Then(d, r) \in Seq(Steps) /\ Then(b, Then(c, Then(d, r))) \in Seq(Steps)
  BY <1>1, Few, Zenon
<1>5. Joined(Joined(Joined(<<a>>, <<b, c>>), <<d>>), r)
        = Joined(Joined(<<a>>, <<b, c>>), Joined(<<d>>, r))
  <2>1. Joined(<<a>>, <<b, c>>) \in Seq(Steps)
    BY <1>3, JoinIsSeq, Zenon
  <2> QED
    BY <1>3, <2>1, JoinAssoc, ZenonT(40)
<1>6. Joined(<<d>>, r) = Then(d, r)
  BY <1>1, JoinOne, ZenonT(40)
<1>7. Joined(Joined(<<a>>, <<b, c>>), Then(d, r)) = Joined(<<a>>, Joined(<<b, c>>, Then(d, r)))
  <2> DEFINE A == <<a>>
             B == <<b, c>>
             D == Then(d, r)
  <2>1. A \in Seq(Steps) /\ B \in Seq(Steps) /\ D \in Seq(Steps)
    BY <1>3, <1>4
  <2> HIDE DEF A, B, D
  <2>2. Joined(Joined(A, B), D) = Joined(A, Joined(B, D))
    BY <2>1, JoinAssoc
  <2> QED
    BY <2>2 DEF A, B, D
<1>8. Joined(<<b, c>>, Then(d, r)) = Then(b, Then(c, Then(d, r)))
  BY <1>1, <1>4, JoinTwo, ZenonT(40)
<1>9. Joined(<<a>>, Then(b, Then(c, Then(d, r)))) = Then(a, Then(b, Then(c, Then(d, r))))
  BY <1>1, <1>4, JoinOne, ZenonT(40)
<1>10. unlinkFileFromINode(j) \o r = Then(a, Then(b, Then(c, Then(d, r))))
  BY <1>2, <1>5, <1>6, <1>7, <1>8, <1>9, Zenon
<1> QED
  BY <1>10 DEF a, b, c, d

\* The steps that a removal puts first are left, and may be taken in their order.
LEMMA UnlinksInOrder ==
    ASSUME NEW j \in INodes, NEW r \in Seq(Steps), NEW h, NEW bf, NEW dm,
           h.what = "remove", h.name \in Names, Follows(h, r, bf, dm), Ordered(r, bf, dm),
           j \notin dm => bf[h.name] = j
    PROVE  /\ Unlinks(unlinkFileFromINode(j) \o r, j, r)
           /\ Ordered(unlinkFileFromINode(j) \o r, bf, dm)
<1> DEFINE a == Do("unlink", None, j)
           b == Do("writeLinks", None, j)
           c == Do("free", None, j)
           d == Do("shrink", None, None)
           s4 == Then(d, r)
           s3 == Then(c, s4)
           s2 == Then(b, s3)
           s1 == Then(a, s2)
<1>1. a \in Steps /\ b \in Steps /\ c \in Steps /\ d \in Steps
  BY DEF Do, Steps, Kinds
<1>2. /\ a.what = "unlink" /\ a.name = None /\ a.ino = j
      /\ b.what = "writeLinks" /\ b.name = None /\ b.ino = j
      /\ c.what = "free" /\ c.name = None /\ c.ino = j
      /\ d.what = "shrink" /\ d.name = None /\ d.ino = None
  BY DEF Do
<1>3. IsStep(a) /\ IsStep(b) /\ IsStep(c) /\ IsStep(d)
  BY <1>1, <1>2 DEF IsStep
<1>4. unlinkFileFromINode(j) \o r = s1
  BY UnlinkSteps
<1> HIDE DEF a, b, c, d
<1>5. s4 \in Seq(Steps) /\ BeforeStep(s4, d, r)
  BY <1>1, ThenLeaves, Few
<1> HIDE DEF s4
<1>6. s3 \in Seq(Steps) /\ BeforeStep(s3, c, s4)
  BY <1>1, <1>5, ThenLeaves, Few
<1> HIDE DEF s3
<1>7. s2 \in Seq(Steps) /\ BeforeStep(s2, b, s3)
  BY <1>1, <1>6, ThenLeaves, Few
<1> HIDE DEF s2
<1>8. s1 \in Seq(Steps) /\ BeforeStep(s1, a, s2)
  BY <1>1, <1>7, ThenLeaves, Few
<1> HIDE DEF s1
<1>9. None \notin Names /\ None \notin INodes
  BY Sizes
<1>10. \A w : Left(s1, w) <=> w \in {"unlink", "writeLinks", "free", "shrink"} \/ Left(r, w)
  <2>1. \A w : Left(s4, w) <=> w = "shrink" \/ Left(r, w)
    BY <1>2, <1>5 DEF BeforeStep
  <2>2. \A w : Left(s3, w) <=> w = "free" \/ Left(s4, w)
    BY <1>2, <1>6 DEF BeforeStep
  <2>3. \A w : Left(s2, w) <=> w = "writeLinks" \/ Left(s3, w)
    BY <1>2, <1>7 DEF BeforeStep
  <2>4. \A w : Left(s1, w) <=> w = "unlink" \/ Left(s2, w)
    BY <1>2, <1>8 DEF BeforeStep
  <2> QED
    BY <2>1, <2>2, <2>3, <2>4
<1>11. \A i \in INodes : \A w :
          /\ LeftFor(s4, w, i) <=> LeftFor(r, w, i)
          /\ LeftFor(s3, w, i) <=> (w = "free" /\ i = j) \/ LeftFor(s4, w, i)
          /\ LeftFor(s2, w, i) <=> (w = "writeLinks" /\ i = j) \/ LeftFor(s3, w, i)
          /\ LeftFor(s1, w, i) <=> (w = "unlink" /\ i = j) \/ LeftFor(s2, w, i)
  <2> TAKE i \in INodes
  <2> TAKE w
  <2>1. LeftFor(s4, w, i) <=> LeftFor(r, w, i)
    BY <1>2, <1>5, <1>9 DEF BeforeStep
  <2>2. LeftFor(s3, w, i) <=> (w = "free" /\ i = j) \/ LeftFor(s4, w, i)
    BY <1>2, <1>6 DEF BeforeStep
  <2>3. LeftFor(s2, w, i) <=> (w = "writeLinks" /\ i = j) \/ LeftFor(s3, w, i)
    BY <1>2, <1>7 DEF BeforeStep
  <2>4. LeftFor(s1, w, i) <=> (w = "unlink" /\ i = j) \/ LeftFor(s2, w, i)
    BY <1>2, <1>8 DEF BeforeStep
  <2> QED
    BY <2>1, <2>2, <2>3, <2>4
<1>12. \A w : \A i \in INodes :
          LeftFor(s1, w, i) <=> (w \in {"unlink", "writeLinks", "free"} /\ i = j) \/ LeftFor(r, w, i)
  BY <1>11
<1>13. \A n \in Names : \A w :
          /\ LeftNamed(s4, w, n) <=> LeftNamed(r, w, n)
          /\ LeftNamed(s3, w, n) <=> LeftNamed(r, w, n)
          /\ LeftNamed(s2, w, n) <=> LeftNamed(r, w, n)
          /\ LeftNamed(s1, w, n) <=> LeftNamed(r, w, n)
  <2> TAKE n \in Names
  <2> TAKE w
  <2>1. LeftNamed(s4, w, n) <=> LeftNamed(r, w, n)
    BY <1>2, <1>5, <1>9 DEF BeforeStep
  <2>2. LeftNamed(s3, w, n) <=> LeftNamed(s4, w, n)
    BY <1>2, <1>6, <1>9 DEF BeforeStep
  <2>3. LeftNamed(s2, w, n) <=> LeftNamed(s3, w, n)
    BY <1>2, <1>7, <1>9 DEF BeforeStep
  <2>4. LeftNamed(s1, w, n) <=> LeftNamed(s2, w, n)
    BY <1>2, <1>8, <1>9 DEF BeforeStep
  <2> QED
    BY <2>1, <2>2, <2>3, <2>4
<1>14. WritesSize(s1) <=> WritesSize(r)
  <2>1. WritesSize(s4) <=> WritesSize(r)
    BY <1>2, <1>5 DEF BeforeStep
  <2>2. WritesSize(s3) <=> WritesSize(s4)
    BY <1>2, <1>6 DEF BeforeStep
  <2>3. WritesSize(s2) <=> WritesSize(s3)
    BY <1>2, <1>7 DEF BeforeStep
  <2>4. WritesSize(s1) <=> WritesSize(s2)
    BY <1>2, <1>8 DEF BeforeStep
  <2> QED
    BY <2>1, <2>2, <2>3, <2>4
<1>15. Unlinks(s1, j, r)
  BY <1>10, <1>12, <1>13, <1>14 DEF Unlinks
<1>16. /\ ~Left(r, "shrink") /\ ~Left(r, "unlink") /\ ~Left(r, "firstLink")
       /\ WritesSize(r)
       /\ bf[h.name] \notin dm => ~LeftFor(r, "link", bf[h.name])
       /\ \A n \in Names : LeftNamed(r, "remove", n) /\ bf[n] = bf[h.name] =>
             bf[n] \in dm \union {None}
  BY DEF Follows
<1>17. ~LeftFor(r, "unlink", j) /\ ~LeftFor(r, "firstLink", j)
  BY <1>16, LeftAtAll
<1>18. j \notin dm => ~LeftFor(r, "link", j)
  BY <1>16
<1>19. Follows(d, r, bf, dm)
  BY <1>2, <1>16 DEF Follows
<1>20. Follows(c, s4, bf, dm)
  <2>1. ~LeftFor(s4, "unlink", j) /\ ~LeftFor(s4, "firstLink", j)
        /\ (j \notin dm => ~LeftFor(s4, "link", j))
    BY <1>11, <1>17, <1>18
  <2> QED
    BY <1>2, <2>1 DEF Follows
<1>21. Follows(b, s3, bf, dm)
  <2>1. ~LeftFor(s3, "unlink", j) /\ ~LeftFor(s3, "firstLink", j)
        /\ (j \notin dm => ~LeftFor(s3, "link", j))
    BY <1>11, <1>17, <1>18
  <2> QED
    BY <1>2, <2>1 DEF Follows
<1>22. Follows(a, s2, bf, dm)
  <2>1. ~LeftFor(s2, "unlink", j)
    BY <1>11, <1>17
  <2>2. ASSUME NEW n \in Names, j \notin dm, LeftNamed(s2, "remove", n)
        PROVE  bf[n] # j
    BY <1>9, <1>13, <1>16, <2>2
  <2> QED
    BY <1>2, <2>1, <2>2 DEF Follows
<1>23. Ordered(s4, bf, dm)
  BY <1>1, <1>3, <1>19, OrderedThen DEF s4
<1>24. Ordered(s3, bf, dm)
  BY <1>1, <1>3, <1>5, <1>20, <1>23, OrderedThen DEF s3
<1>25. Ordered(s2, bf, dm)
  BY <1>1, <1>3, <1>6, <1>21, <1>24, OrderedThen DEF s2
<1>26. Ordered(s1, bf, dm)
  BY <1>1, <1>3, <1>7, <1>22, <1>25, OrderedThen DEF s1
<1> QED
  BY <1>4, <1>15, <1>26

-----------------------------------------------------------------------------
(* Every kind of step keeps the invariant, but for the end of the call.    *)

movedNow == IF Is("remove") THEN moved \union {getLastEntry.ino} ELSE moved

\* The variables after a step, and the history before it.
TypesAfter ==
    /\ slots' \in [Positions -> Entries]
    /\ size' \in 0..MaxSize
    /\ diskSize' \in 0..MaxSize
    /\ links' \in [INodes -> Int]
    /\ diskLinks' \in [INodes -> Int]
    /\ used' \subseteq INodes
    /\ fileTable' \in [Fds -> INodes \union {None}]
    /\ leaked' \subseteq INodes
    /\ movedNow \subseteq INodes

ConsistentAfter ==
    Consistent(slots', size', diskSize', links', diskLinks', used', References', todo',
               before, names, movedNow, damaged, crashes)

\* What there is before a step.
LEMMA BeforeAStep ==
    ASSUME Inv, todo # << >>
    PROVE  /\ Types
           /\ Head(todo) \in Steps /\ Tail(todo) \in Seq(Steps)
           /\ BeforeStep(todo, Head(todo), Tail(todo))
           /\ IsStep(Head(todo))
           /\ Follows(Head(todo), Tail(todo), before, damaged)
           /\ Ordered(Tail(todo), before, damaged)
           /\ DirInv(slots, size, diskSize, todo, before, names, moved, damaged)
           /\ StepInv(slots, size, todo, before, names, damaged)
           /\ LinkInv(links, diskLinks, used, References, todo, before, names, damaged)
           /\ CountInv(slots, Extent(size, todo), todo, crashes)
<1>1. Ordered(todo, before, damaged)
  BY DEF Inv, Consistent
<1>2. /\ Head(todo) \in Steps /\ Tail(todo) \in Seq(Steps)
      /\ BeforeStep(todo, Head(todo), Tail(todo))
      /\ IsStep(Head(todo))
      /\ Follows(Head(todo), Tail(todo), before, damaged)
      /\ Ordered(Tail(todo), before, damaged)
  BY <1>1, NextStep
<1> QED
  BY <1>2 DEF Inv, Consistent

\* The same references.
LEMMA SameReferences ==
    ASSUME UNCHANGED memory
    PROVE  References' = References
  BY DEF memory, References, Referenced

\* "writeSize".
LEMMA WriteSizeKeeps ==
    ASSUME Inv, Step, Is("writeSize")
    PROVE  TypesAfter /\ ConsistentAfter
<1> DEFINE h == Head(todo)
           r == Tail(todo)
<1>1. todo # << >> /\ h.what = "writeSize"
  BY DEF Is
<1>2. /\ todo' = r /\ slots' = slots /\ size' = size /\ diskSize' = size
      /\ links' = links /\ diskLinks' = diskLinks /\ used' = used /\ UNCHANGED memory
      /\ movedNow = moved
  BY <1>1 DEF Step, Is, movedNow
<1>3. References' = References
  BY <1>2, SameReferences
<1>4. /\ Types
      /\ BeforeStep(todo, h, r)
      /\ Follows(h, r, before, damaged)
      /\ Ordered(r, before, damaged)
      /\ DirInv(slots, size, diskSize, todo, before, names, moved, damaged)
      /\ StepInv(slots, size, todo, before, names, damaged)
      /\ LinkInv(links, diskLinks, used, References, todo, before, names, damaged)
      /\ CountInv(slots, Extent(size, todo), todo, crashes)
  BY <1>1, BeforeAStep
<1> HIDE DEF h, r
<1>5. TypesAfter
  BY <1>2, <1>4 DEF Types, TypesAfter, memory
<1>6. ~Left(r, "shrink")
  BY <1>1, <1>4 DEF Follows
<1>7. /\ SameChanges(todo, r)
      /\ \A i : LeftFor(todo, "add", i) <=> LeftFor(r, "add", i)
      /\ \A n : LeftNamed(r, "open", n) => LeftNamed(todo, "open", n)
      /\ Left(todo, "shrink") <=> Left(r, "shrink")
  BY <1>1, <1>4, QuietStep
<1>8. Extent(size, todo) = Extent(size, r)
  BY <1>7 DEF Extent
<1>9. DirInv(slots, size, size, r, before, names, moved, damaged)
  BY <1>4, <1>6, <1>7, DirWritten
<1>10. StepInv(slots, size, r, before, names, damaged)
  BY <1>4, <1>7, <1>8, StepsStay
<1>11. CountInv(slots, Extent(size, r), r, crashes)
  BY <1>4, <1>7, <1>8, CountStays
<1>12. LinkInv(links, diskLinks, used, References, r, before, names, damaged)
  BY <1>1, <1>4, LinksUntouched
<1> QED
  BY <1>2, <1>3, <1>4, <1>5, <1>9, <1>10, <1>11, <1>12 DEF ConsistentAfter, Consistent

\* The block of the entry at e may be lost once the directory in memory ends
\* there, if it was alone in it.
LEMMA BlockLost ==
    ASSUME NEW sl, NEW sl2, NEW e \in Nat, NEW ds, NEW r, NEW bf, NEW nm, NEW mv, NEW dm, NEW cr,
           ~Left(r, "shrink"), e % DIRECTORY_ENTRIES_IN_BLOCK = 0,
           \A p \in Positions : p # e => sl2[p] = sl[p],
           DirInv(sl, e, ds, r, bf, nm, mv, dm),
           StepInv(sl, e, r, bf, nm, dm),
           CountInv(sl, Extent(e, r), r, cr)
    PROVE  /\ DirInv(sl2, e, ds, r, bf, nm, mv, dm)
           /\ StepInv(sl2, e, r, bf, nm, dm)
           /\ CountInv(sl2, Extent(e, r), r, cr)
<1>1. Extent(e, r) = e
  BY DEF Extent
<1>2. \A p \in Positions : p \in Int /\ (p < e => sl2[p] = sl[p])
  BY Sizes
<1>3. \A n : At(sl2, n, e) = At(sl, n, e)
  BY <1>2 DEF At
<1>4. NamesIn(sl2, e) = NamesIn(sl, e)
  BY <1>2 DEF NamesIn
<1>5. DirInv(sl2, e, ds, r, bf, nm, mv, dm)
  <2> DEFINE c  == Current(r, bf, nm)
             ch == Changing(mv, bf, nm, dm)
  <2>1. /\ Lists(sl, e, c, dm) /\ ds \in (e - 1)..(e + 1)
        /\ ~GaveUp(e, ds) => Differ(sl, e, ds, bf, nm, ch, dm)
    BY <1>1 DEF DirInv
  <2> HIDE DEF c, ch
  <2>2. Lists(sl2, e, c, dm)
    <3>1. ASSUME NEW p \in Positions, p < e
          PROVE  sl2[p] \in FileEntries /\ (sl2[p].ino \in dm \/ c[sl2[p].name] = sl2[p].ino)
      BY <1>2, <2>1, <3>1 DEF Lists
    <3>2. ASSUME NEW n \in Names, c[n] \notin dm \union {None}
          PROVE  \E p \in Positions : At(sl2, n, e) = {p} /\ sl2[p].ino = c[n]
      <4>1. PICK p \in Positions : At(sl, n, e) = {p} /\ sl[p].ino = c[n]
        BY <2>1, <3>2 DEF Lists
      <4>2. p < e
        BY <4>1 DEF At
      <4> QED
        BY <1>2, <1>3, <4>1, <4>2
    <3> QED
      BY <3>1, <3>2 DEF Lists
  <2>3. ASSUME ~GaveUp(e, ds)
        PROVE  Differ(sl2, e, ds, bf, nm, ch, dm)
    <3>1. ds <= e
      BY <2>1, <2>3 DEF GaveUp
    <3>2. \A p \in Positions : (e <= p /\ p < ds) \/ (ds <= p /\ p < e) => sl2[p] = sl[p]
      BY <1>2, <2>1, <3>1
    <3> QED
      BY <2>1, <2>3, <3>2 DEF Differ
  <2> QED
    BY <1>1, <2>2, <2>3 DEF DirInv, c, ch
<1>6. StepInv(sl2, e, r, bf, nm, dm)
  <2>1. ASSUME NEW n \in Names
        PROVE  /\ RemoveInv(n, sl2, e, r, bf, nm, dm)
               /\ AddInv(n, sl2, e, r, bf, nm, dm)
               /\ OpenInv(n, sl2, e, r)
    <3>1. /\ RemoveInv(n, sl, e, r, bf, nm, dm)
          /\ AddInv(n, sl, e, r, bf, nm, dm)
          /\ OpenInv(n, sl, e, r)
      BY <1>1 DEF StepInv
    <3> QED
      BY <1>3, <3>1 DEF RemoveInv, AddInv, OpenInv
  <2> QED
    BY <1>1, <2>1 DEF StepInv
<1>7. CountInv(sl2, e, r, cr)
  BY <1>1, <1>4 DEF CountInv, AddsTwice
<1> QED
  BY <1>1, <1>5, <1>6, <1>7

\* "shrink".
LEMMA ShrinkKeeps ==
    ASSUME Inv, Step, Is("shrink")
    PROVE  TypesAfter /\ ConsistentAfter
<1> DEFINE h == Head(todo)
           r == Tail(todo)
<1>1. todo # << >> /\ h.what = "shrink"
  BY DEF Is
<1>2. /\ todo' = r /\ slots' \in truncateINode /\ size' = size - 1 /\ diskSize' = diskSize
      /\ links' = links /\ diskLinks' = diskLinks /\ used' = used /\ UNCHANGED memory
      /\ movedNow = moved
  BY <1>1 DEF Step, Is, movedNow
<1>3. References' = References
  BY <1>2, SameReferences
<1>4. /\ Types
      /\ BeforeStep(todo, h, r)
      /\ Follows(h, r, before, damaged)
      /\ Ordered(r, before, damaged)
      /\ DirInv(slots, size, diskSize, todo, before, names, moved, damaged)
      /\ StepInv(slots, size, todo, before, names, damaged)
      /\ LinkInv(links, diskLinks, used, References, todo, before, names, damaged)
      /\ CountInv(slots, Extent(size, todo), todo, crashes)
  BY <1>1, BeforeAStep
<1> HIDE DEF h, r
<1>6. ~Left(r, "shrink") /\ WritesSize(r)
  BY <1>1, <1>4 DEF Follows
<1>7. /\ SameChanges(todo, r)
      /\ \A i : LeftFor(todo, "add", i) <=> LeftFor(r, "add", i)
      /\ \A n : LeftNamed(r, "open", n) => LeftNamed(todo, "open", n)
      /\ WritesSize(todo) <=> WritesSize(r)
  BY <1>1, <1>4, QuietStep
<1>8. Extent(size, todo) = size - 1 /\ Extent(size - 1, r) = size - 1
  BY <1>1, <1>4, <1>6 DEF Extent, BeforeStep
<1>5. size - 1 \in Nat /\ size - 1 \in 0..MaxSize /\ diskSize \in 0..MaxSize /\ size \in Int
  <2>1. size - 1 \in Nat
    BY <1>4, <1>8 DEF DirInv
  <2> QED
    BY <1>4, <2>1, Sizes DEF Types
<1>13. ~GaveUp(size, diskSize)
  <2>1. diskSize \in ((size - 1) - 1)..((size - 1) + 1)
    BY <1>4, <1>8 DEF DirInv
  <2> QED
    BY <1>5, <2>1 DEF GaveUp
<1>14. /\ slots' \in [Positions -> Entries]
       /\ \/ slots' = slots
          \/ /\ (size - 1) % DIRECTORY_ENTRIES_IN_BLOCK = 0
             /\ \A p \in Positions : p # size - 1 => slots'[p] = slots[p]
  <2>1. slots \in [Positions -> Entries] /\ NoEntry \in Entries
    BY <1>4 DEF Types, Entries
  <2>2. \/ slots' = slots
        \/ /\ (size - 1) % DIRECTORY_ENTRIES_IN_BLOCK = 0
           /\ slots' = [slots EXCEPT ![size - 1] = NoEntry]
    BY <1>2 DEF truncateINode
  <2> QED
    BY <2>1, <2>2
<1>15. TypesAfter
  BY <1>2, <1>4, <1>5, <1>14 DEF Types, TypesAfter, memory
<1>9. DirInv(slots, size - 1, diskSize, r, before, names, moved, damaged)
  BY <1>4, <1>7, <1>8, <1>13, DirStays
<1>10. StepInv(slots, size - 1, r, before, names, damaged)
  BY <1>4, <1>7, <1>8, StepsStay
<1>11. CountInv(slots, Extent(size - 1, r), r, crashes)
  BY <1>4, <1>7, <1>8, CountStays
<1>16. /\ DirInv(slots', size - 1, diskSize, r, before, names, moved, damaged)
       /\ StepInv(slots', size - 1, r, before, names, damaged)
       /\ CountInv(slots', Extent(size - 1, r), r, crashes)
  <2>1. CASE slots' = slots
    BY <1>9, <1>10, <1>11, <2>1
  <2>2. CASE /\ (size - 1) % DIRECTORY_ENTRIES_IN_BLOCK = 0
             /\ \A p \in Positions : p # size - 1 => slots'[p] = slots[p]
    BY <1>5, <1>6, <1>9, <1>10, <1>11, <2>2, BlockLost
  <2> QED
    BY <1>14, <2>1, <2>2
<1>12. LinkInv(links, diskLinks, used, References, r, before, names, damaged)
  BY <1>1, <1>4, LinksUntouched
<1> QED
  BY <1>2, <1>3, <1>4, <1>12, <1>15, <1>16 DEF ConsistentAfter, Consistent

\* The steps that change only the links of their file, or free its inode.
LinkKinds == {"firstLink", "link", "unlink", "writeLinks", "free"}

\* Such a step keeps the invariant if it does so for its file.
LEMMA LinkKindsKeep ==
    ASSUME Inv, Step, todo # << >>, Head(todo).what \in LinkKinds,
           links' \in [INodes -> Int], diskLinks' \in [INodes -> Int], used' \subseteq INodes,
           \A i \in INodes : i # Head(todo).ino =>
               links'[i] = links[i] /\ diskLinks'[i] = diskLinks[i] /\ (i \in used <=> i \in used'),
           Head(todo).ino \in INodes \ damaged =>
               FileInv(Head(todo).ino, links'[Head(todo).ino], diskLinks'[Head(todo).ino],
                       used', References, Tail(todo), before, names)
    PROVE  TypesAfter /\ ConsistentAfter
<1> DEFINE h == Head(todo)
           r == Tail(todo)
<1>1. h.what \notin {"add", "remove", "shrink", "writeSize", "open"}
  BY DEF LinkKinds
<1>2. /\ todo' = r /\ slots' = slots /\ size' = size /\ diskSize' = diskSize
      /\ UNCHANGED memory
      /\ movedNow = moved
  BY <1>1 DEF Step, Is, movedNow
<1>3. References' = References
  BY <1>2, SameReferences
<1>4. /\ Types
      /\ BeforeStep(todo, h, r)
      /\ Ordered(r, before, damaged)
      /\ DirInv(slots, size, diskSize, todo, before, names, moved, damaged)
      /\ StepInv(slots, size, todo, before, names, damaged)
      /\ LinkInv(links, diskLinks, used, References, todo, before, names, damaged)
      /\ CountInv(slots, Extent(size, todo), todo, crashes)
  BY BeforeAStep
<1>5. /\ \A i \in INodes : i # h.ino => /\ links'[i] = links[i] /\ diskLinks'[i] = diskLinks[i]
                                        /\ (i \in used <=> i \in used')
      /\ h.ino \in INodes \ damaged =>
             FileInv(h.ino, links'[h.ino], diskLinks'[h.ino], used', References, r, before, names)
  OBVIOUS
<1>6. TypesAfter
  BY <1>2, <1>4 DEF Types, TypesAfter, memory
<1> HIDE DEF h, r
<1>7. /\ DirInv(slots, size, diskSize, r, before, names, moved, damaged)
      /\ StepInv(slots, size, r, before, names, damaged)
      /\ CountInv(slots, Extent(size, r), r, crashes)
  <2>1. h.what \notin {"add", "remove", "shrink", "writeSize"}
    BY <1>1
  <2> QED
    BY <1>4, <2>1, DirUntouched
<1>8. h.what # "remove"
  BY <1>1
<1>9. LinkInv(links', diskLinks', used', References, r, before, names, damaged)
  BY <1>4, <1>5, <1>8, LinksOfOne
<1> QED
  BY <1>2, <1>3, <1>4, <1>6, <1>7, <1>9 DEF ConsistentAfter, Consistent

\* What the link counts are before such a step.
LEMMA BeforeALinkStep ==
    ASSUME Inv, todo # << >>, Head(todo).what \in LinkKinds
    PROVE  /\ links \in [INodes -> Int] /\ diskLinks \in [INodes -> Int] /\ used \subseteq INodes
           /\ Head(todo).ino \in INodes
           /\ BeforeStep(todo, Head(todo), Tail(todo))
           /\ Follows(Head(todo), Tail(todo), before, damaged)
           /\ Head(todo).ino \notin damaged =>
                 FileInv(Head(todo).ino, links[Head(todo).ino], diskLinks[Head(todo).ino],
                         used, References, todo, before, names)
<1>1. /\ Types
      /\ IsStep(Head(todo))
      /\ BeforeStep(todo, Head(todo), Tail(todo))
      /\ Follows(Head(todo), Tail(todo), before, damaged)
      /\ LinkInv(links, diskLinks, used, References, todo, before, names, damaged)
  BY BeforeAStep
<1>2. Head(todo).ino \in INodes
  BY <1>1 DEF IsStep, LinkKinds
<1>3. links \in [INodes -> Int] /\ diskLinks \in [INodes -> Int] /\ used \subseteq INodes
  BY <1>1 DEF Types
<1> QED
  BY <1>1, <1>2, <1>3 DEF LinkInv

\* Link counts are numbers.
LEMMA UpdateToOne ==
    ASSUME NEW f \in [INodes -> Int], NEW i \in INodes
    PROVE  [f EXCEPT ![i] = 1] \in [INodes -> Int]
  OBVIOUS

\* "firstLink".
LEMMA FirstLinkKeeps ==
    ASSUME Inv, Step, Is("firstLink")
    PROVE  TypesAfter /\ ConsistentAfter
<1> DEFINE h == Head(todo)
           r == Tail(todo)
           i == h.ino
<1>1. todo # << >> /\ h.what = "firstLink" /\ h.what \in LinkKinds
  BY DEF Is, LinkKinds
<1>2. links' = [links EXCEPT ![i] = 1] /\ diskLinks' = diskLinks /\ used' = used
  BY <1>1 DEF Step, Is
<1>3. /\ links \in [INodes -> Int] /\ diskLinks \in [INodes -> Int] /\ used \subseteq INodes
      /\ i \in INodes
      /\ BeforeStep(todo, h, r)
      /\ Follows(h, r, before, damaged)
      /\ i \notin damaged =>
            FileInv(i, links[i], diskLinks[i], used, References, todo, before, names)
  BY <1>1, BeforeALinkStep
<1> HIDE DEF h, r, i
<1>4. links' \in [INodes -> Int] /\ links'[i] = 1 /\ \A k \in INodes : k # i => links'[k] = links[k]
  <2>1. links' = [links EXCEPT ![i] = 1] /\ links \in [INodes -> Int] /\ i \in INodes
    BY <1>2, <1>3
  <2>2. links' \in [INodes -> Int]
    <3>1. [links EXCEPT ![i] = 1] \in [INodes -> Int]
      BY <2>1, UpdateToOne, Zenon
    <3> QED
      BY <2>1, <3>1
  <2>3. links'[i] = 1
    BY <2>1
  <2>4. \A k \in INodes : k # i => links'[k] = links[k]
    BY <2>1
  <2> QED
    BY <2>2, <2>3, <2>4
<1>5. i \notin damaged =>
          FileInv(i, links'[i], diskLinks'[i], used', References, r, before, names)
  <2>1. SUFFICES ASSUME i \notin damaged
                 PROVE  FileInv(i, 1, diskLinks[i], used, References, r, before, names)
    BY <1>2, <1>4
  <2>2. FileInv(i, links[i], diskLinks[i], used, References, todo, before, names) /\ h.ino = i
    BY <1>3, <2>1 DEF i
  <2> QED
    BY <1>1, <1>3, <2>2, FirstLinkStep
<1> QED
  BY <1>1, <1>2, <1>3, <1>4, <1>5, LinkKindsKeep DEF h, r, i

\* "link".
LEMMA LinkKeeps ==
    ASSUME Inv, Step, Is("link")
    PROVE  TypesAfter /\ ConsistentAfter
<1> DEFINE h == Head(todo)
           r == Tail(todo)
           i == h.ino
<1>1. todo # << >> /\ h.what = "link" /\ h.what \in LinkKinds
  BY DEF Is, LinkKinds
<1>2. links' = [links EXCEPT ![i] = @ + 1] /\ diskLinks' = diskLinks /\ used' = used
  BY <1>1 DEF Step, Is
<1>3. /\ links \in [INodes -> Int] /\ diskLinks \in [INodes -> Int] /\ used \subseteq INodes
      /\ i \in INodes
      /\ BeforeStep(todo, h, r)
      /\ Follows(h, r, before, damaged)
      /\ i \notin damaged =>
            FileInv(i, links[i], diskLinks[i], used, References, todo, before, names)
  BY <1>1, BeforeALinkStep
<1> HIDE DEF h, r, i
<1>4. /\ links' \in [INodes -> Int] /\ links'[i] = links[i] + 1
      /\ \A k \in INodes : k # i => links'[k] = links[k]
  BY <1>2, <1>3
<1>5. i \notin damaged =>
          FileInv(i, links'[i], diskLinks'[i], used', References, r, before, names)
  <2>1. SUFFICES ASSUME i \notin damaged
                 PROVE  FileInv(i, links[i] + 1, diskLinks[i], used, References, r, before, names)
    BY <1>2, <1>4
  <2>2. FileInv(i, links[i], diskLinks[i], used, References, todo, before, names) /\ h.ino = i
    BY <1>3, <2>1 DEF i
  <2> QED
    BY <1>1, <1>3, <2>2, LinkStep
<1> QED
  BY <1>1, <1>2, <1>3, <1>4, <1>5, LinkKindsKeep DEF h, r, i

\* "unlink".
LEMMA UnlinkKeeps ==
    ASSUME Inv, Step, Is("unlink")
    PROVE  TypesAfter /\ ConsistentAfter
<1> DEFINE h == Head(todo)
           r == Tail(todo)
           i == h.ino
<1>1. todo # << >> /\ h.what = "unlink" /\ h.what \in LinkKinds
  BY DEF Is, LinkKinds
<1>2. links' = [links EXCEPT ![i] = @ - 1] /\ diskLinks' = diskLinks /\ used' = used
  BY <1>1 DEF Step, Is
<1>3. /\ links \in [INodes -> Int] /\ diskLinks \in [INodes -> Int] /\ used \subseteq INodes
      /\ i \in INodes
      /\ BeforeStep(todo, h, r)
      /\ Follows(h, r, before, damaged)
      /\ i \notin damaged =>
            FileInv(i, links[i], diskLinks[i], used, References, todo, before, names)
  BY <1>1, BeforeALinkStep
<1> HIDE DEF h, r, i
<1>4. /\ links' \in [INodes -> Int] /\ links'[i] = links[i] - 1
      /\ \A k \in INodes : k # i => links'[k] = links[k]
  BY <1>2, <1>3
<1>5. i \notin damaged =>
          FileInv(i, links'[i], diskLinks'[i], used', References, r, before, names)
  <2>1. SUFFICES ASSUME i \notin damaged
                 PROVE  FileInv(i, links[i] - 1, diskLinks[i], used, References, r, before, names)
    BY <1>2, <1>4
  <2>2. FileInv(i, links[i], diskLinks[i], used, References, todo, before, names) /\ h.ino = i
    BY <1>3, <2>1 DEF i
  <2> QED
    BY <1>1, <1>3, <2>1, <2>2, UnlinkStep
<1> QED
  BY <1>1, <1>2, <1>3, <1>4, <1>5, LinkKindsKeep DEF h, r, i

\* "writeLinks".
LEMMA WriteLinksKeeps ==
    ASSUME Inv, Step, Is("writeLinks")
    PROVE  TypesAfter /\ ConsistentAfter
<1> DEFINE h == Head(todo)
           r == Tail(todo)
           i == h.ino
<1>1. todo # << >> /\ h.what = "writeLinks" /\ h.what \in LinkKinds
  BY DEF Is, LinkKinds
<1>2. /\ links' = links /\ used' = used
      /\ diskLinks' = IF ~Referenced(i) THEN [diskLinks EXCEPT ![i] = links[i]] ELSE diskLinks
  BY <1>1 DEF Step, Is
<1>3. /\ links \in [INodes -> Int] /\ diskLinks \in [INodes -> Int] /\ used \subseteq INodes
      /\ i \in INodes
      /\ BeforeStep(todo, h, r)
      /\ Follows(h, r, before, damaged)
      /\ i \notin damaged =>
            FileInv(i, links[i], diskLinks[i], used, References, todo, before, names)
  BY <1>1, BeforeALinkStep
<1> HIDE DEF h, r, i
<1>4. Referenced(i) <=> i \in References
  BY <1>3 DEF References
<1>5. /\ diskLinks' \in [INodes -> Int]
      /\ diskLinks'[i] = IF i \notin References THEN links[i] ELSE diskLinks[i]
      /\ \A k \in INodes : k # i => diskLinks'[k] = diskLinks[k]
  <2>1. CASE i \in References
    BY <1>2, <1>3, <1>4, <2>1
  <2>2. CASE i \notin References
    <3>1. diskLinks' = [diskLinks EXCEPT ![i] = links[i]] /\ links[i] \in Int
      BY <1>2, <1>3, <1>4, <2>2
    <3> QED
      BY <1>3, <2>2, <3>1
  <2> QED
    BY <2>1, <2>2
<1>6. i \notin damaged =>
          FileInv(i, links'[i], diskLinks'[i], used', References, r, before, names)
  <2>1. SUFFICES ASSUME i \notin damaged
                 PROVE  FileInv(i, links[i], IF i \notin References THEN links[i] ELSE diskLinks[i],
                                used, References, r, before, names)
    BY <1>2, <1>5
  <2>2. FileInv(i, links[i], diskLinks[i], used, References, todo, before, names) /\ h.ino = i
    BY <1>3, <2>1 DEF i
  <2> QED
    BY <1>1, <1>3, <2>1, <2>2, WriteLinksStep
<1> QED
  BY <1>1, <1>2, <1>3, <1>5, <1>6, LinkKindsKeep DEF h, r, i

\* "free".
LEMMA FreeKeeps ==
    ASSUME Inv, Step, Is("free")
    PROVE  TypesAfter /\ ConsistentAfter
<1> DEFINE h == Head(todo)
           r == Tail(todo)
           i == h.ino
<1>1. todo # << >> /\ h.what = "free" /\ h.what \in LinkKinds
  BY DEF Is, LinkKinds
<1>2. /\ links' = links /\ diskLinks' = diskLinks
      /\ used' = IF ~Referenced(i) /\ links[i] = 0 THEN used \ {i} ELSE used
  BY <1>1 DEF Step, Is
<1>3. /\ links \in [INodes -> Int] /\ diskLinks \in [INodes -> Int] /\ used \subseteq INodes
      /\ i \in INodes
      /\ BeforeStep(todo, h, r)
      /\ Follows(h, r, before, damaged)
      /\ i \notin damaged =>
            FileInv(i, links[i], diskLinks[i], used, References, todo, before, names)
  BY <1>1, BeforeALinkStep
<1> HIDE DEF h, r, i
<1>4. Referenced(i) <=> i \in References
  BY <1>3 DEF References
<1>5. /\ used' \subseteq INodes
      /\ i \in used' <=> i \in used /\ ~(i \notin References /\ links[i] = 0)
      /\ \A k \in INodes : k # i => (k \in used <=> k \in used')
  BY <1>2, <1>3, <1>4
<1>6. i \notin damaged =>
          FileInv(i, links'[i], diskLinks'[i], used', References, r, before, names)
  <2>1. SUFFICES ASSUME i \notin damaged
                 PROVE  FileInv(i, links[i], diskLinks[i], used', References, r, before, names)
    BY <1>2
  <2>2. FileInv(i, links[i], diskLinks[i], used, References, todo, before, names) /\ h.ino = i
    BY <1>3, <2>1 DEF i
  <2> QED
    BY <1>1, <1>3, <1>5, <2>1, <2>2, FreeStep
<1> QED
  BY <1>1, <1>2, <1>3, <1>5, <1>6, LinkKindsKeep DEF h, r, i

\* The model's lookup is that of the lemmas.
LEMMA LookupIs ==
    ASSUME NEW n
    PROVE  /\ \A e : Holding(n, e) = At(slots, n, e)
           /\ searchINodeDirectoryEntries(n) = FirstAt(slots, n, size)
           /\ Lookup(n) = LookupIn(slots, size, n)
<1>1. \A e : Holding(n, e) = At(slots, n, e)
  BY DEF Holding, At
<1>2. searchINodeDirectoryEntries(n) = FirstAt(slots, n, size)
  BY <1>1 DEF searchINodeDirectoryEntries, FirstAt
<1> QED
  BY <1>1, <1>2 DEF Lookup, LookupIn

\* "add".
LEMMA AddKeeps ==
    ASSUME Inv, Step, Is("add")
    PROVE  TypesAfter /\ ConsistentAfter
<1> DEFINE h == Head(todo)
           r == Tail(todo)
           d == [name |-> h.name, ino |-> h.ino]
<1>1. todo # << >> /\ h.what = "add"
  BY DEF Is
<1>2. /\ todo' = r /\ slots' = [slots EXCEPT ![size] = d] /\ size' = size + 1 /\ diskSize' = diskSize
      /\ links' = links /\ diskLinks' = diskLinks /\ used' = used /\ UNCHANGED memory
      /\ movedNow = moved
  BY <1>1 DEF Step, Is, movedNow, addDirectoryEntry
<1>3. References' = References
  BY <1>2, SameReferences
<1>4. /\ Types
      /\ BeforeStep(todo, h, r)
      /\ IsStep(h)
      /\ Follows(h, r, before, damaged)
      /\ Ordered(r, before, damaged)
      /\ DirInv(slots, size, diskSize, todo, before, names, moved, damaged)
      /\ StepInv(slots, size, todo, before, names, damaged)
      /\ LinkInv(links, diskLinks, used, References, todo, before, names, damaged)
      /\ CountInv(slots, Extent(size, todo), todo, crashes)
  BY <1>1, BeforeAStep
<1> HIDE DEF h, r
<1>5. Adds(todo, h, r, slots, size, before, names, damaged)
  BY <1>1, <1>4, AddFacts
<1>6. /\ slots \in [Positions -> Entries] /\ size \in 0..MaxSize /\ diskSize \in 0..MaxSize
      /\ crashes \in 0..MaxCrashes
  BY <1>4 DEF Types
<1>7. size \in Nat /\ diskSize \in Nat
  BY <1>6, Sizes
<1>8. Extent(size, todo) = size /\ Extent(size + 1, r) = size + 1
  BY <1>5 DEF Adds, Extent
<1>9. Lists(slots, size, Current(todo, before, names), damaged)
  BY <1>4, <1>8 DEF DirInv
<1>10. CountInv(slots, size, todo, crashes)
  BY <1>4, <1>8
<1>11. /\ size \in Positions /\ size + 1 \in 0..MaxSize
       /\ \A sl2, c2, e : Puts(sl2, slots, size, e) /\ e = [name |-> h.name, ino |-> h.ino]
                          /\ Lists(sl2, size + 1, c2, damaged) =>
             CountInv(sl2, size + 1, r, crashes)
  BY <1>5, <1>6, <1>7, <1>9, <1>10, CountAfterAdd
<1>12. d \in FileEntries
  BY <1>5 DEF Adds, FileEntries
<1>13. d = [name |-> h.name, ino |-> h.ino]
  OBVIOUS
<1> HIDE DEF d
<1>14. slots' \in [Positions -> Entries] /\ Puts(slots', slots, size, d)
  BY <1>2, <1>6, <1>11, <1>12, UpdatePuts
<1>15. TypesAfter
  BY <1>2, <1>4, <1>11, <1>14 DEF Types, TypesAfter, memory
<1>16. DirInv(slots', size + 1, diskSize, r, before, names, moved, damaged)
  BY <1>4, <1>5, <1>7, <1>13, <1>14, DirAfterAdd
<1>17. StepInv(slots', size + 1, r, before, names, damaged)
  BY <1>4, <1>5, <1>7, <1>13, <1>14, StepsAfterAdd
<1>18. CountInv(slots', size + 1, r, crashes)
  <2>1. Lists(slots', size + 1, Current(r, before, names), damaged)
    BY <1>8, <1>16 DEF DirInv
  <2> QED
    BY <1>11, <1>13, <1>14, <2>1
<1>19. LinkInv(links, diskLinks, used, References, r, before, names, damaged)
  BY <1>1, <1>4, LinksUntouched
<1> QED
  BY <1>2, <1>3, <1>4, <1>8, <1>15, <1>16, <1>17, <1>18, <1>19 DEF ConsistentAfter, Consistent

\* "remove".
LEMMA RemoveKeeps ==
    ASSUME Inv, Step, Is("remove")
    PROVE  TypesAfter /\ ConsistentAfter
<1> DEFINE h == Head(todo)
           r == Tail(todo)
           x == h.name
           p == FirstAt(slots, x, size)
           j == slots[p].ino
           s2 == unlinkFileFromINode(j) \o r
           d == slots[size - 1]
           c == Current(todo, before, names)
<1>1. todo # << >> /\ h.what = "remove"
  BY DEF Is
<1>2. /\ todo' = unlinkFileFromINode(Lookup(x)) \o r /\ slots' = overwriteEntry(x)
      /\ size' = size /\ diskSize' = diskSize
      /\ links' = links /\ diskLinks' = diskLinks /\ used' = used /\ UNCHANGED memory
      /\ movedNow = moved \union {d.ino}
  BY <1>1 DEF Step, Is, movedNow, getLastEntry
<1>3. References' = References
  BY <1>2, SameReferences
<1>4. /\ Types
      /\ r \in Seq(Steps)
      /\ BeforeStep(todo, h, r)
      /\ IsStep(h)
      /\ Follows(h, r, before, damaged)
      /\ Ordered(r, before, damaged)
      /\ DirInv(slots, size, diskSize, todo, before, names, moved, damaged)
      /\ StepInv(slots, size, todo, before, names, damaged)
      /\ LinkInv(links, diskLinks, used, References, todo, before, names, damaged)
      /\ CountInv(slots, Extent(size, todo), todo, crashes)
  BY <1>1, BeforeAStep
<1> HIDE DEF h, r
<1>5. x \in Names /\ ~Left(todo, "shrink")
  <2>1. ~Left(r, "shrink")
    BY <1>1, <1>4 DEF Follows
  <2> QED
    BY <1>1, <1>4, <2>1 DEF IsStep, BeforeStep
<1>6. Extent(size, todo) = size
  BY <1>5 DEF Extent
<1>7. Lists(slots, size, c, damaged) /\ CountInv(slots, size, todo, crashes)
  BY <1>4, <1>6 DEF DirInv
<1>8. /\ slots \in [Positions -> Entries] /\ size \in 0..MaxSize /\ diskSize \in 0..MaxSize
      /\ crashes \in 0..MaxCrashes /\ names \in [Names -> INodes \union {None}]
      /\ crashes \in Nat
  BY <1>4, Sizes DEF Types
<1>9. LeftNamed(todo, "remove", x) /\ RemoveInv(x, slots, size, todo, before, names, damaged)
  BY <1>1, <1>4, <1>5, <1>6 DEF BeforeStep, StepInv
<1>10. /\ At(slots, x, size) # {}
       /\ before[x] = names[x] => before[x] \in damaged \union {None}
  BY <1>9 DEF RemoveInv
<1>11. p \in At(slots, x, size) /\ p \in Positions /\ p < size
  <2>1. p \in At(slots, x, size)
    BY <1>10, FirstIsAt
  <2> QED
    BY <2>1 DEF At
<1>12. Lookup(x) = j /\ searchINodeDirectoryEntries(x) = p /\ LookupIn(slots, size, x) = j
  BY <1>10, LookupIs DEF LookupIn
<1>13. /\ j \in INodes
       /\ c[x] \notin damaged \union {None} => j = c[x]
       /\ j \notin damaged => c[x] = j
  <2>1. /\ LookupIn(slots, size, x) \in INodes \union {None}
        /\ LookupIn(slots, size, x) = None <=> At(slots, x, size) = {}
        /\ c[x] \notin damaged \union {None} => LookupIn(slots, size, x) = c[x]
        /\ LookupIn(slots, size, x) \notin damaged \union {None} => c[x] = LookupIn(slots, size, x)
    BY <1>5, <1>7, LookupFinds
  <2> QED
    BY <1>10, <1>12, <2>1
<1>14. c[x] = before[x]
  BY <1>5, <1>9, CurrentOf
<1>15. size - 1 \in Positions /\ size - 1 < size
  BY <1>8, <1>11, Sizes
<1>16. d \in FileEntries
  BY <1>7, <1>15 DEF Lists
<1>17. slots' = [slots EXCEPT ![p] = d]
  <2>1. d # NoEntry
    BY <1>16, Sizes
  <2> QED
    BY <1>2, <1>12, <2>1 DEF overwriteEntry, getLastEntry
<1> HIDE DEF d, p
<1>18. slots' \in [Positions -> Entries] /\ Puts(slots', slots, p, d)
  BY <1>8, <1>11, <1>16, <1>17, UpdatePuts
<1>19. Puts(slots', slots, p, slots[size - 1]) /\ d = slots[size - 1]
  BY <1>18 DEF d
<1>20. j \notin damaged => before[x] = j
  BY <1>13, <1>14
<1> HIDE DEF j
<1>21. Unlinks(s2, j, r) /\ Ordered(s2, before, damaged)
  BY <1>1, <1>4, <1>5, <1>13, <1>20, UnlinksInOrder
<1>22. todo' = s2
  BY <1>2, <1>12
<1> HIDE DEF s2
<1>23. Removes(todo, x, s2, slots, size, before, names, damaged)
  BY <1>1, <1>4, <1>21, RemoveFacts
<1>24. Extent(size, s2) = size - 1
  BY <1>23 DEF Removes, Extent
<1> HIDE DEF x
<1>25. DirInv(slots', size, diskSize, s2, before, names, moved \union {slots[size - 1].ino}, damaged)
  BY <1>4, <1>8, <1>11, <1>19, <1>23, DirAfterRemove
<1>26. StepInv(slots', size, s2, before, names, damaged)
  BY <1>4, <1>7, <1>8, <1>11, <1>19, <1>23, StepsAfterRemove DEF c
<1>27. CountInv(slots', size - 1, s2, crashes)
  <2>1. Lists(slots', size - 1, Current(s2, before, names), damaged)
    BY <1>24, <1>25 DEF DirInv
  <2> QED
    BY <1>7, <1>8, <1>11, <1>19, <1>23, <2>1, CountAfterRemove
<1>28. LinkInv(links, diskLinks, used, References, s2, before, names, damaged)
  <2> SUFFICES ASSUME NEW i \in INodes \ damaged
               PROVE  FileInv(i, links[i], diskLinks[i], used, References, s2, before, names)
    BY DEF LinkInv
  <2>1. FileInv(i, links[i], diskLinks[i], used, References, todo, before, names)
    BY <1>4 DEF LinkInv
  <2>2. j = i <=> before[x] = i
    <3>1. i \notin damaged \union {None}
      BY Sizes
    <3> QED
      BY <1>13, <1>14, <3>1
  <2>3. h.name \in Names /\ (j = i <=> before[h.name] = i)
    BY <1>5, <2>2 DEF x
  <2> QED
    BY <1>1, <1>4, <1>21, <2>1, <2>3, LinksAfterRemove
<1>29. TypesAfter
  <2>1. d.ino \in INodes
    BY <1>16 DEF FileEntries
  <2>2. movedNow \subseteq INodes
    BY <1>2, <1>4, <2>1 DEF Types
  <2> QED
    BY <1>2, <1>4, <1>18, <2>2 DEF Types, TypesAfter, memory
<1> QED
  BY <1>2, <1>3, <1>19, <1>21, <1>22, <1>24, <1>25, <1>26, <1>27, <1>28, <1>29
     DEF ConsistentAfter, Consistent

\* openFile adds a reference, in the table or leaked.
LEMMA OpenRefers ==
    ASSUME fileTable \in [Fds -> INodes \union {None}], leaked \subseteq INodes,
           NEW i \in INodes, openFile(i)
    PROVE  /\ fileTable' \in [Fds -> INodes \union {None}]
           /\ leaked' \subseteq INodes
           /\ References' = References \union {i}
<1>1. CASE FreeFds # {}
  <2> DEFINE f == createAndGetFileDescriptor
  <2>1. FreeFds \subseteq Nat
    BY NamespaceAssumption DEF FreeFds, Fds
  <2>2. \E fd \in FreeFds : \A other \in FreeFds : fd <= other
    BY <1>1, <2>1, LeastOf
  <2>3. f \in FreeFds
    BY <2>2 DEF createAndGetFileDescriptor
  <2>4. f \in Fds /\ fileTable[f] = None
    BY <2>3 DEF FreeFds
  <2>5. fileTable' = [fileTable EXCEPT ![f] = i] /\ leaked' = leaked
    BY <1>1 DEF openFile
  <2> HIDE DEF f
  <2>6. /\ fileTable' \in [Fds -> INodes \union {None}]
        /\ fileTable'[f] = i
        /\ \A fd \in Fds : fd # f => fileTable'[fd] = fileTable[fd]
    BY <2>4, <2>5
  <2>7. ASSUME NEW k \in INodes
        PROVE  Referenced(k)' <=> Referenced(k) \/ k = i
    <3>1. k # None
      BY Sizes
    <3> QED
      BY <2>4, <2>5, <2>6, <3>1 DEF Referenced
  <2>8. References' = References \union {i}
    BY <2>7 DEF References
  <2> QED
    BY <2>5, <2>6, <2>8
<1>2. CASE FreeFds = {}
  <2>1. leaked' = leaked \union {i} /\ fileTable' = fileTable
    BY <1>2 DEF openFile
  <2>2. ASSUME NEW k \in INodes
        PROVE  Referenced(k)' <=> Referenced(k) \/ k = i
    BY <2>1 DEF Referenced
  <2>3. References' = References \union {i}
    BY <2>2 DEF References
  <2> QED
    BY <2>1, <2>3
<1> QED
  BY <1>1, <1>2

\* Between calls a file that a lookup finds is named, unless it is damaged.
LEMMA LinksAfterOpen ==
    ASSUME NEW lk, NEW dl, NEW us, NEW rf, NEW s, NEW bf, NEW nm, NEW dm, NEW k, NEW n \in Names,
           NothingLeft(s), LinkInv(lk, dl, us, rf, s, bf, nm, dm),
           k \notin dm => nm[n] = k
    PROVE  LinkInv(lk, dl, us, rf \union {k}, s, bf, nm, dm)
<1> SUFFICES ASSUME NEW i \in INodes \ dm
             PROVE  FileInv(i, lk[i], dl[i], us, rf \union {k}, s, bf, nm)
  BY DEF LinkInv
<1>1. FileInv(i, lk[i], dl[i], us, rf, s, bf, nm)
  BY DEF LinkInv
<1>2. i \in rf \union {k} => i \in rf \/ Named(i, nm)
  BY DEF Named
<1>3. i \in rf => i \in rf \union {k}
  OBVIOUS
<1> QED
  BY <1>1, <1>2, <1>3, FileEnds

\* "open".
LEMMA OpenKeeps ==
    ASSUME Inv, Step, Is("open")
    PROVE  TypesAfter /\ ConsistentAfter
<1> DEFINE h == Head(todo)
           r == Tail(todo)
           n == h.name
           k == Lookup(n)
           c == Current(todo, before, names)
<1>1. todo # << >> /\ h.what = "open"
  BY DEF Is
<1>2. /\ todo' = r /\ slots' = slots /\ size' = size /\ diskSize' = diskSize
      /\ links' = links /\ diskLinks' = diskLinks /\ used' = used
      /\ openFile(k)
      /\ movedNow = moved
  BY <1>1 DEF Step, Is, movedNow
<1>4. /\ Types
      /\ BeforeStep(todo, h, r)
      /\ IsStep(h)
      /\ Follows(h, r, before, damaged)
      /\ Ordered(r, before, damaged)
      /\ DirInv(slots, size, diskSize, todo, before, names, moved, damaged)
      /\ StepInv(slots, size, todo, before, names, damaged)
      /\ LinkInv(links, diskLinks, used, References, todo, before, names, damaged)
      /\ CountInv(slots, Extent(size, todo), todo, crashes)
  BY <1>1, BeforeAStep
<1> HIDE DEF h, r
<1>5. n \in Names /\ r = << >>
  BY <1>1, <1>4 DEF IsStep, Follows
<1>6. NothingLeft(r)
  BY <1>5, EmptyLeavesNothing
<1>7. /\ ~Left(todo, "shrink")
      /\ LeftNamed(todo, "open", n)
      /\ ~LeftNamed(todo, "add", n)
      /\ ~LeftNamed(todo, "remove", n)
  BY <1>1, <1>4, <1>6 DEF BeforeStep, NothingLeft
<1>8. Extent(size, todo) = size
  BY <1>7 DEF Extent
<1>9. At(slots, n, size) # {}
  <2>1. OpenInv(n, slots, size, todo)
    BY <1>4, <1>5, <1>8 DEF StepInv
  <2> QED
    BY <1>7, <2>1 DEF OpenInv
<1>10. Lists(slots, size, c, damaged)
  BY <1>4, <1>8 DEF DirInv
<1>11. c[n] = names[n]
  BY <1>5, <1>7, CurrentOf
<1>12. k = LookupIn(slots, size, n)
  BY LookupIs
<1>13. k \in INodes /\ (k \notin damaged => names[n] = k)
  <2>1. /\ LookupIn(slots, size, n) \in INodes \union {None}
        /\ LookupIn(slots, size, n) = None <=> At(slots, n, size) = {}
        /\ LookupIn(slots, size, n) \notin damaged \union {None} => c[n] = LookupIn(slots, size, n)
    BY <1>5, <1>10, LookupFinds
  <2> QED
    BY <1>9, <1>11, <1>12, <2>1
<1> HIDE DEF k, c
<1>14. /\ fileTable' \in [Fds -> INodes \union {None}]
       /\ leaked' \subseteq INodes
       /\ References' = References \union {k}
  BY <1>2, <1>4, <1>13, OpenRefers DEF Types
<1>15. TypesAfter
  BY <1>2, <1>4, <1>14 DEF Types, TypesAfter
<1>16. /\ DirInv(slots, size, diskSize, r, before, names, moved, damaged)
       /\ StepInv(slots, size, r, before, names, damaged)
       /\ CountInv(slots, Extent(size, r), r, crashes)
  <2>1. h.what \notin {"add", "remove", "shrink", "writeSize"}
    BY <1>1
  <2> QED
    BY <1>4, <2>1, DirUntouched
<1>17. LinkInv(links, diskLinks, used, References, r, before, names, damaged)
  BY <1>1, <1>4, LinksUntouched
<1>18. LinkInv(links, diskLinks, used, References', r, before, names, damaged)
  BY <1>5, <1>6, <1>13, <1>14, <1>17, LinksAfterOpen
<1> QED
  BY <1>2, <1>4, <1>15, <1>16, <1>18 DEF ConsistentAfter, Consistent

\* Every step keeps the invariant.
LEMMA StepKeeps ==
    ASSUME Inv, Step
    PROVE  Inv'
<1>1. todo # << >>
  BY DEF Step
<1>2. Head(todo).what \in Kinds
  <2>1. Head(todo) \in Steps
    BY <1>1, BeforeAStep
  <2> QED
    BY <2>1 DEF Steps
<1>3. TypesAfter /\ ConsistentAfter
  <2>1. CASE Is("add")
    BY <2>1, AddKeeps
  <2>2. CASE Is("firstLink")
    BY <2>2, FirstLinkKeeps
  <2>3. CASE Is("link")
    BY <2>3, LinkKeeps
  <2>4. CASE Is("writeSize")
    BY <2>4, WriteSizeKeeps
  <2>5. CASE Is("writeLinks")
    BY <2>5, WriteLinksKeeps
  <2>6. CASE Is("free")
    BY <2>6, FreeKeeps
  <2>7. CASE Is("open")
    BY <2>7, OpenKeeps
  <2>8. CASE Is("remove")
    BY <2>8, RemoveKeeps
  <2>9. CASE Is("unlink")
    BY <2>9, UnlinkKeeps
  <2>10. CASE Is("shrink")
    BY <2>10, ShrinkKeeps
  <2> QED
    BY <1>1, <1>2, <2>1, <2>2, <2>3, <2>4, <2>5, <2>6, <2>7, <2>8, <2>9, <2>10 DEF Kinds, Is
<1>4. /\ moved' = IF todo' = << >> THEN {} ELSE movedNow
      /\ before' = IF todo' = << >> THEN names ELSE before
      /\ names' = names /\ damaged' = damaged /\ crashes' = crashes
  BY DEF Step, movedNow, history
<1>5. Types
  BY DEF Inv
<1>6. Types'
  BY <1>3, <1>4, <1>5 DEF Types, TypesAfter
<1>7. Idle' => before' = names' /\ moved' = {}
  BY <1>4 DEF Idle
<1>8. Consistent(slots', size', diskSize', links', diskLinks', used', References', todo',
                 before', names', moved', damaged', crashes')
  <2>1. CASE todo' = << >>
    <3>1. Consistent(slots', size', diskSize', links', diskLinks', used', References', << >>,
                     before, names, movedNow, damaged, crashes)
      BY <1>3, <2>1 DEF ConsistentAfter
    <3>2. names \in [Names -> INodes \union {None}]
      BY <1>5 DEF Types
    <3>3. Consistent(slots', size', diskSize', links', diskLinks', used', References', << >>,
                     names, names, {}, damaged, crashes)
      BY <3>1, <3>2, Ends
    <3> QED
      BY <1>4, <2>1, <3>3
  <2>2. CASE todo' # << >>
    BY <1>3, <1>4, <2>2 DEF ConsistentAfter
  <2> QED
    BY <2>1, <2>2
<1> QED
  BY <1>6, <1>7, <1>8 DEF Inv

-----------------------------------------------------------------------------
(* The beginnings of the calls.                                            *)

\* Four parts of a call put together.
LEMMA JoinFour ==
    ASSUME NEW s \in Seq(Steps), NEW t \in Seq(Steps), NEW u \in Seq(Steps), NEW v \in Seq(Steps)
    PROVE  Joined(Joined(Joined(s, t), u), v) = Joined(s, Joined(t, Joined(u, v)))
<1>1. Joined(s, t) \in Seq(Steps) /\ Joined(u, v) \in Seq(Steps)
  BY JoinIsSeq
<1>2. Joined(Joined(Joined(s, t), u), v) = Joined(Joined(s, t), Joined(u, v))
  BY <1>1, JoinAssoc
<1>3. Joined(Joined(s, t), Joined(u, v)) = Joined(s, Joined(t, Joined(u, v)))
  BY <1>1, JoinAssoc
<1> QED
  BY <1>2, <1>3

\* createSteps, step by step.
LEMMA CreateSteps ==
    ASSUME NEW n \in Names, NEW i \in INodes
    PROVE  createSteps(n, i) =
               Then(Do("add", n, i), Then(Do("firstLink", None, i),
               Then(Do("writeSize", None, None), Then(Do("writeLinks", None, i),
               Then(Do("free", None, i), Then(Do("open", n, i), << >>))))))
<1> DEFINE a == Do("add", n, i)
           b == Do("firstLink", None, i)
           c == Do("writeSize", None, None)
           d == Do("writeLinks", None, i)
           e == Do("free", None, i)
           f == Do("open", n, i)
<1>1. a \in Steps /\ b \in Steps /\ c \in Steps /\ d \in Steps /\ e \in Steps /\ f \in Steps
  BY DEF Do, Steps, Kinds
<1>2. createSteps(n, i) = Joined(Joined(Joined(<<a, b>>, <<c>>), <<d, e>>), <<f>>)
  BY DEF createSteps, IputParent, IputFile, Joined
<1> HIDE DEF a, b, c, d, e, f
<1>3. /\ <<a, b>> \in Seq(Steps) /\ <<c>> \in Seq(Steps)
      /\ <<d, e>> \in Seq(Steps) /\ <<f>> \in Seq(Steps) /\ << >> \in Seq(Steps)
  BY <1>1, Few, Zenon
<1>4. createSteps(n, i) = Joined(<<a, b>>, Joined(<<c>>, Joined(<<d, e>>, <<f>>)))
  <2> DEFINE A == <<a, b>>
             C == <<c>>
             D == <<d, e>>
             F == <<f>>
  <2>1. /\ A \in Seq(Steps) /\ C \in Seq(Steps) /\ D \in Seq(Steps) /\ F \in Seq(Steps)
        /\ createSteps(n, i) = Joined(Joined(Joined(A, C), D), F)
    BY <1>2, <1>3
  <2> HIDE DEF A, C, D, F
  <2>2. Joined(Joined(Joined(A, C), D), F) = Joined(A, Joined(C, Joined(D, F)))
    BY <2>1, JoinFour
  <2>3. createSteps(n, i) = Joined(A, Joined(C, Joined(D, F)))
    BY <2>1, <2>2
  <2> QED
    BY <2>3 DEF A, C, D, F
<1>5. <<f>> = Then(f, << >>)
  <2>1. Joined(<<f>>, << >>) = Then(f, << >>)
    BY <1>1, <1>3, JoinOne, ZenonT(40)
  <2>2. Joined(<<f>>, << >>) = <<f>>
    BY <1>3, JoinNothing, ZenonT(40)
  <2> QED
    BY <2>1, <2>2, Zenon
<1>6. Joined(<<d, e>>, <<f>>) = Then(d, Then(e, <<f>>))
  BY <1>1, <1>3, JoinTwo, ZenonT(40)
<1>7. Then(d, Then(e, <<f>>)) \in Seq(Steps)
  BY <1>1, <1>3, Few, Zenon
<1>8. Joined(<<c>>, Then(d, Then(e, <<f>>))) = Then(c, Then(d, Then(e, <<f>>)))
  BY <1>1, <1>7, JoinOne, ZenonT(40)
<1>9. Then(c, Then(d, Then(e, <<f>>))) \in Seq(Steps)
  BY <1>1, <1>7, Few, Zenon
<1>10. Joined(<<a, b>>, Then(c, Then(d, Then(e, <<f>>))))
         = Then(a, Then(b, Then(c, Then(d, Then(e, <<f>>)))))
  BY <1>1, <1>9, JoinTwo, ZenonT(40)
<1>11. createSteps(n, i) = Then(a, Then(b, Then(c, Then(d, Then(e, Then(f, << >>))))))
  BY <1>4, <1>5, <1>6, <1>8, <1>10, Zenon
<1> QED
  BY <1>11 DEF a, b, c, d, e, f

\* IputFile, step by step.
LEMMA IputSteps ==
    ASSUME NEW i \in INodes
    PROVE  IputFile(i) = Then(Do("writeLinks", None, i), Then(Do("free", None, i), << >>))
<1> DEFINE d == Do("writeLinks", None, i)
           e == Do("free", None, i)
<1>1. d \in Steps /\ e \in Steps
  BY DEF Do, Steps, Kinds
<1>2. IputFile(i) = <<d, e>>
  BY DEF IputFile
<1> HIDE DEF d, e
<1>3. <<d, e>> \in Seq(Steps) /\ << >> \in Seq(Steps)
  BY <1>1, Few, Zenon
<1>4. Joined(<<d, e>>, << >>) = Then(d, Then(e, << >>))
  BY <1>1, <1>3, JoinTwo, ZenonT(40)
<1>5. Joined(<<d, e>>, << >>) = <<d, e>>
  BY <1>3, JoinNothing, ZenonT(40)
<1>6. IputFile(i) = Then(d, Then(e, << >>))
  BY <1>2, <1>4, <1>5, Zenon
<1> QED
  BY <1>6 DEF d, e

\* Unlink's steps, one by one.
LEMMA RemovalSteps ==
    ASSUME NEW n \in Names
    PROVE  <<Do("remove", n, None)>> \o IputParent =
               Then(Do("remove", n, None), Then(Do("writeSize", None, None), << >>))
<1> DEFINE d == Do("remove", n, None)
           e == Do("writeSize", None, None)
<1>1. d \in Steps /\ e \in Steps
  BY DEF Do, Steps, Kinds
<1>2. <<d>> \o IputParent = Joined(<<d>>, <<e>>)
  BY DEF IputParent, Joined
<1> HIDE DEF d, e
<1>3. <<d>> \in Seq(Steps) /\ <<e>> \in Seq(Steps) /\ << >> \in Seq(Steps)
  BY <1>1, Few, Zenon
<1>4. Joined(<<d>>, <<e>>) = Then(d, <<e>>)
  BY <1>1, <1>3, JoinOne, ZenonT(40)
<1>5. <<e>> = Then(e, << >>)
  <2>1. Joined(<<e>>, << >>) = Then(e, << >>)
    BY <1>1, <1>3, JoinOne, ZenonT(40)
  <2>2. Joined(<<e>>, << >>) = <<e>>
    BY <1>3, JoinNothing, ZenonT(40)
  <2> QED
    BY <2>1, <2>2, Zenon
<1>6. <<d>> \o IputParent = Then(d, Then(e, << >>))
  BY <1>2, <1>4, <1>5, Zenon
<1> QED
  BY <1>6 DEF d, e

\* What renameFile does once the destination is removed.
renames(n, m, k) ==
    Then(Do("add", m, k), Then(Do("link", None, k),
    Then(Do("writeSize", None, None), Then(Do("writeLinks", None, k),
    Then(Do("free", None, k), Then(Do("remove", n, None),
    Then(Do("writeSize", None, None), << >>)))))))

\* renameSteps, step by step.
LEMMA RenameSteps ==
    ASSUME NEW n \in Names, NEW m \in Names, Lookup(n) \in INodes
    PROVE  renameSteps(n, m) =
               IF Lookup(m) = None THEN renames(n, m, Lookup(n))
               ELSE Then(Do("remove", m, None), renames(n, m, Lookup(n)))
<1> DEFINE k == Lookup(n)
           a == Do("add", m, k)
           b == Do("link", None, k)
           c == Do("writeSize", None, None)
           d == Do("writeLinks", None, k)
           e == Do("free", None, k)
           f == Do("remove", n, None)
           g == Do("remove", m, None)
           X == IF Lookup(m) = None THEN << >> ELSE <<g>>
<1>1. /\ a \in Steps /\ b \in Steps /\ c \in Steps /\ d \in Steps
      /\ e \in Steps /\ f \in Steps /\ g \in Steps
  BY DEF Do, Steps, Kinds
<1>2. renameSteps(n, m) =
          Joined(Joined(Joined(Joined(Joined(X, <<a, b>>), <<c>>), <<d, e>>), <<f>>), <<c>>)
  BY DEF renameSteps, IputParent, IputFile, Joined
<1>3. renames(n, m, k) =
          Then(a, Then(b, Then(c, Then(d, Then(e, Then(f, Then(c, << >>)))))))
  BY DEF renames
<1>4. (Lookup(m) = None => X = << >>) /\ (Lookup(m) # None => X = <<g>>)
  OBVIOUS
<1> HIDE DEF a, b, c, d, e, f, g, X
<1>5. /\ <<a, b>> \in Seq(Steps) /\ <<c>> \in Seq(Steps) /\ <<d, e>> \in Seq(Steps)
      /\ <<f>> \in Seq(Steps) /\ <<g>> \in Seq(Steps) /\ << >> \in Seq(Steps)
  BY <1>1, Few, Zenon
<1>6. X \in Seq(Steps)
  BY <1>4, <1>5, Zenon
<1>7. <<c>> = Then(c, << >>)
  <2>1. Joined(<<c>>, << >>) = Then(c, << >>)
    BY <1>1, <1>5, JoinOne, ZenonT(40)
  <2>2. Joined(<<c>>, << >>) = <<c>>
    BY <1>5, JoinNothing, ZenonT(40)
  <2> QED
    BY <2>1, <2>2, Zenon
<1>8. Joined(X, <<a, b>>) \in Seq(Steps)
  BY <1>5, <1>6, JoinIsSeq, Zenon
<1>9. Joined(Joined(X, <<a, b>>), <<c>>) \in Seq(Steps)
  BY <1>5, <1>8, JoinIsSeq, Zenon
<1>10. Joined(<<f>>, <<c>>) = Then(f, <<c>>) /\ Then(f, <<c>>) \in Seq(Steps)
  BY <1>1, <1>5, JoinOne, Few, ZenonT(40)
<1>11. renameSteps(n, m) =
          Joined(Joined(Joined(X, <<a, b>>), <<c>>), Joined(<<d, e>>, Then(f, <<c>>)))
  <2>1. Joined(Joined(Joined(Joined(Joined(X, <<a, b>>), <<c>>), <<d, e>>), <<f>>), <<c>>)
          = Joined(Joined(Joined(X, <<a, b>>), <<c>>), Joined(<<d, e>>, Joined(<<f>>, <<c>>)))
    <3> DEFINE A == Joined(Joined(X, <<a, b>>), <<c>>)
               D == <<d, e>>
               F == <<f>>
               C == <<c>>
    <3>1. A \in Seq(Steps) /\ C \in Seq(Steps) /\ D \in Seq(Steps) /\ F \in Seq(Steps)
      BY <1>5, <1>9
    <3> HIDE DEF A, C, D, F
    <3>2. Joined(Joined(Joined(A, D), F), C) = Joined(A, Joined(D, Joined(F, C)))
      BY <3>1, JoinFour
    <3> QED
      BY <3>2 DEF A, C, D, F
  <2> QED
    BY <1>2, <1>10, <2>1, Zenon
<1>12. /\ Joined(<<d, e>>, Then(f, <<c>>)) = Then(d, Then(e, Then(f, <<c>>)))
       /\ Then(d, Then(e, Then(f, <<c>>))) \in Seq(Steps)
  <2>1. Joined(<<d, e>>, Then(f, <<c>>)) = Then(d, Then(e, Then(f, <<c>>)))
    BY <1>1, <1>10, JoinTwo, ZenonT(40)
  <2>2. Then(d, Then(e, Then(f, <<c>>))) \in Seq(Steps)
    BY <1>1, <1>10, Few, Zenon
  <2> QED
    BY <2>1, <2>2
<1> DEFINE v == Then(d, Then(e, Then(f, <<c>>)))
<1>13. v \in Seq(Steps)
  BY <1>12
<1>14. renameSteps(n, m) = Joined(Joined(Joined(X, <<a, b>>), <<c>>), v)
  BY <1>11, <1>12, Zenon
<1> HIDE DEF v
<1>15. Joined(Joined(Joined(X, <<a, b>>), <<c>>), v) = Joined(X, Joined(<<a, b>>, Joined(<<c>>, v)))
  <2> DEFINE A == <<a, b>>
             C == <<c>>
  <2>1. A \in Seq(Steps) /\ C \in Seq(Steps)
    BY <1>5
  <2> HIDE DEF A, C
  <2>2. Joined(Joined(Joined(X, A), C), v) = Joined(X, Joined(A, Joined(C, v)))
    BY <1>6, <1>13, <2>1, JoinFour
  <2> QED
    BY <2>2 DEF A, C
<1>16. Joined(<<c>>, v) = Then(c, v) /\ Then(c, v) \in Seq(Steps)
  BY <1>1, <1>13, JoinOne, Few, ZenonT(40)
<1>17. Joined(<<a, b>>, Then(c, v)) = Then(a, Then(b, Then(c, v)))
  BY <1>1, <1>16, JoinTwo, ZenonT(40)
<1>18. Then(a, Then(b, Then(c, v))) \in Seq(Steps)
  BY <1>1, <1>16, Few, Zenon
<1>19. Then(a, Then(b, Then(c, v))) = renames(n, m, k)
  BY <1>3, <1>7, Zenon DEF v
<1>20. renameSteps(n, m) = Joined(X, renames(n, m, k)) /\ renames(n, m, k) \in Seq(Steps)
  BY <1>14, <1>15, <1>16, <1>17, <1>18, <1>19, Zenon
<1>21. CASE Lookup(m) = None
  <2>1. renameSteps(n, m) = renames(n, m, k)
    BY <1>4, <1>20, <1>21, JoinNothing, ZenonT(40)
  <2> QED
    BY <1>21, <2>1
<1>22. CASE Lookup(m) # None
  <2>1. renameSteps(n, m) = Then(g, renames(n, m, k))
    BY <1>1, <1>4, <1>20, <1>22, JoinOne, ZenonT(40)
  <2> QED
    BY <1>22, <2>1 DEF g
<1> QED
  BY <1>21, <1>22

\* The kinds of the steps left.
OnlyKinds(s, W) == \A w : Left(s, w) => w \in W

\* No step of a kind is left.
NotLeft(s, w) ==
    /\ ~Left(s, w)
    /\ \A i : ~LeftFor(s, w, i)
    /\ \A n : ~LeftNamed(s, w, n)

\* No step of another kind is left.
LEMMA OtherKinds ==
    ASSUME NEW s, NEW W, OnlyKinds(s, W), NEW w, w \notin W
    PROVE  NotLeft(s, w)
  BY LeftAtAll DEF OnlyKinds, NotLeft

\* What is left of a create: an entry to add, and a file to link and open.
CreateLeaves(s, n, i) ==
    /\ \A w \in {"shrink", "remove", "link", "unlink"} : NotLeft(s, w)
    /\ \A m \in Names : LeftNamed(s, "add", m) <=> m = n
    /\ \A k : LeftFor(s, "add", k) <=> k = i
    /\ \A k : LeftFor(s, "firstLink", k) <=> k = i
    /\ \A k : LeftFor(s, "writeLinks", k) <=> k = i
    /\ \A k : LeftFor(s, "free", k) <=> k = i
    /\ \A m \in Names : LeftNamed(s, "open", m) <=> m = n

\* The steps of a create are in order.
LEMMA CreateInOrder ==
    ASSUME NEW n \in Names, NEW i \in INodes, NEW bf, NEW dm
    PROVE  CreateLeaves(createSteps(n, i), n, i) /\ Ordered(createSteps(n, i), bf, dm)
<1> DEFINE a == Do("add", n, i)
           b == Do("firstLink", None, i)
           c == Do("writeSize", None, None)
           d == Do("writeLinks", None, i)
           e == Do("free", None, i)
           f == Do("open", n, i)
           sf == Then(f, << >>)
           se == Then(e, sf)
           sd == Then(d, se)
           sc == Then(c, sd)
           sb == Then(b, sc)
           sa == Then(a, sb)
<1>1. a \in Steps /\ b \in Steps /\ c \in Steps /\ d \in Steps /\ e \in Steps /\ f \in Steps
  BY DEF Do, Steps, Kinds
<1>2. /\ a.what = "add" /\ a.name = n /\ a.ino = i
      /\ b.what = "firstLink" /\ b.name = None /\ b.ino = i
      /\ c.what = "writeSize" /\ c.name = None /\ c.ino = None
      /\ d.what = "writeLinks" /\ d.name = None /\ d.ino = i
      /\ e.what = "free" /\ e.name = None /\ e.ino = i
      /\ f.what = "open" /\ f.name = n /\ f.ino = i
  BY DEF Do
<1>3. IsStep(a) /\ IsStep(b) /\ IsStep(c) /\ IsStep(d) /\ IsStep(e) /\ IsStep(f)
  BY <1>1, <1>2 DEF IsStep
<1>4. createSteps(n, i) = sa
  BY CreateSteps
<1> HIDE DEF a, b, c, d, e, f
<1>5. << >> \in Seq(Steps) /\ NothingLeft(<< >>) /\ Ordered(<< >>, bf, dm)
  BY Few, EmptyLeavesNothing, EmptyIsOrdered
<1>6. sf \in Seq(Steps) /\ BeforeStep(sf, f, << >>)
  BY <1>1, <1>5, ThenLeaves, Few
<1>7. Ordered(sf, bf, dm)
  <2>1. Follows(f, << >>, bf, dm)
    BY <1>2 DEF Follows
  <2> QED
    BY <1>1, <1>3, <1>5, <2>1, OrderedThen
<1> HIDE DEF sf
<1>8. OnlyKinds(sf, {"open"})
  BY <1>2, <1>5, <1>6 DEF OnlyKinds, BeforeStep, NothingLeft
<1>9. se \in Seq(Steps) /\ BeforeStep(se, e, sf)
  BY <1>1, <1>6, ThenLeaves, Few
<1>10. Ordered(se, bf, dm)
  <2>1. NotLeft(sf, "firstLink") /\ NotLeft(sf, "link") /\ NotLeft(sf, "unlink")
    BY <1>8, OtherKinds
  <2>2. Follows(e, sf, bf, dm)
    BY <1>2, <2>1 DEF Follows, NotLeft
  <2> QED
    BY <1>1, <1>3, <1>6, <1>7, <2>2, OrderedThen
<1> HIDE DEF se
<1>11. OnlyKinds(se, {"open", "free"})
  BY <1>2, <1>8, <1>9 DEF OnlyKinds, BeforeStep
<1>12. sd \in Seq(Steps) /\ BeforeStep(sd, d, se)
  BY <1>1, <1>9, ThenLeaves, Few
<1>13. Ordered(sd, bf, dm)
  <2>1. NotLeft(se, "firstLink") /\ NotLeft(se, "link") /\ NotLeft(se, "unlink")
    BY <1>11, OtherKinds
  <2>2. Follows(d, se, bf, dm)
    BY <1>2, <2>1 DEF Follows, NotLeft
  <2> QED
    BY <1>1, <1>3, <1>9, <1>10, <2>2, OrderedThen
<1> HIDE DEF sd
<1>14. OnlyKinds(sd, {"open", "free", "writeLinks"})
  BY <1>2, <1>11, <1>12 DEF OnlyKinds, BeforeStep
<1>15. sc \in Seq(Steps) /\ BeforeStep(sc, c, sd)
  BY <1>1, <1>12, ThenLeaves, Few
<1>16. Ordered(sc, bf, dm)
  <2>1. NotLeft(sd, "shrink")
    BY <1>14, OtherKinds
  <2>2. Follows(c, sd, bf, dm)
    BY <1>2, <2>1 DEF Follows, NotLeft
  <2> QED
    BY <1>1, <1>3, <1>12, <1>13, <2>2, OrderedThen
<1> HIDE DEF sc
<1>17. OnlyKinds(sc, {"open", "free", "writeLinks", "writeSize"})
  BY <1>2, <1>14, <1>15 DEF OnlyKinds, BeforeStep
<1>18. sb \in Seq(Steps) /\ BeforeStep(sb, b, sc)
  BY <1>1, <1>15, ThenLeaves, Few
<1>19. Ordered(sb, bf, dm)
  <2>1. /\ NotLeft(sc, "firstLink") /\ NotLeft(sc, "link") /\ NotLeft(sc, "unlink")
        /\ NotLeft(sc, "remove")
    BY <1>17, OtherKinds
  <2>2. Follows(b, sc, bf, dm)
    BY <1>2, <2>1 DEF Follows, NotLeft
  <2> QED
    BY <1>1, <1>3, <1>15, <1>16, <2>2, OrderedThen
<1> HIDE DEF sb
<1>20. OnlyKinds(sb, {"open", "free", "writeLinks", "writeSize", "firstLink"})
  BY <1>2, <1>17, <1>18 DEF OnlyKinds, BeforeStep
<1>21. sa \in Seq(Steps) /\ BeforeStep(sa, a, sb)
  BY <1>1, <1>18, ThenLeaves, Few
<1>22. Ordered(sa, bf, dm)
  <2>1. NotLeft(sb, "add") /\ NotLeft(sb, "shrink") /\ NotLeft(sb, "remove")
    BY <1>20, OtherKinds
  <2>2. WritesSize(sc)
    BY <1>2, <1>15 DEF BeforeStep
  <2>3. WritesSize(sb)
    BY <1>2, <1>18, <2>2 DEF BeforeStep
  <2>4. Follows(a, sb, bf, dm)
    BY <1>2, <2>1, <2>3 DEF Follows, NotLeft
  <2> QED
    BY <1>1, <1>3, <1>18, <1>19, <2>4, OrderedThen
<1> HIDE DEF sa
<1>23. OnlyKinds(sa, {"open", "free", "writeLinks", "writeSize", "firstLink", "add"})
  BY <1>2, <1>20, <1>21 DEF OnlyKinds, BeforeStep
<1>24. \A w \in {"shrink", "remove", "link", "unlink"} : NotLeft(sa, w)
  <2> TAKE w \in {"shrink", "remove", "link", "unlink"}
  <2>1. w \notin {"open", "free", "writeLinks", "writeSize", "firstLink", "add"}
    OBVIOUS
  <2> QED
    BY <1>23, <2>1, OtherKinds
<1>25. \A m : LeftNamed(sa, "add", m) <=> m = n
  <2>1. NotLeft(sb, "add")
    BY <1>20, OtherKinds
  <2> QED
    BY <1>2, <1>21, <2>1 DEF BeforeStep, NotLeft
<1>26. \A k : LeftFor(sa, "add", k) <=> k = i
  <2>1. NotLeft(sb, "add")
    BY <1>20, OtherKinds
  <2> QED
    BY <1>2, <1>21, <2>1 DEF BeforeStep, NotLeft
<1>27. \A k : LeftFor(sa, "firstLink", k) <=> k = i
  <2>1. NotLeft(sc, "firstLink")
    BY <1>17, OtherKinds
  <2>2. \A k : LeftFor(sb, "firstLink", k) <=> k = i
    BY <1>2, <1>18, <2>1 DEF BeforeStep, NotLeft
  <2> QED
    BY <1>2, <1>21, <2>2 DEF BeforeStep
<1>28. \A k : LeftFor(sa, "writeLinks", k) <=> k = i
  <2>1. NotLeft(se, "writeLinks")
    BY <1>11, OtherKinds
  <2>2. \A k : LeftFor(sd, "writeLinks", k) <=> k = i
    BY <1>2, <1>12, <2>1 DEF BeforeStep, NotLeft
  <2>3. \A k : LeftFor(sc, "writeLinks", k) <=> k = i
    BY <1>2, <1>15, <2>2 DEF BeforeStep
  <2>4. \A k : LeftFor(sb, "writeLinks", k) <=> k = i
    BY <1>2, <1>18, <2>3 DEF BeforeStep
  <2> QED
    BY <1>2, <1>21, <2>4 DEF BeforeStep
<1>29. \A k : LeftFor(sa, "free", k) <=> k = i
  <2>1. NotLeft(sf, "free")
    BY <1>8, OtherKinds
  <2>2. \A k : LeftFor(se, "free", k) <=> k = i
    BY <1>2, <1>9, <2>1 DEF BeforeStep, NotLeft
  <2>3. \A k : LeftFor(sd, "free", k) <=> k = i
    BY <1>2, <1>12, <2>2 DEF BeforeStep
  <2>4. \A k : LeftFor(sc, "free", k) <=> k = i
    BY <1>2, <1>15, <2>3 DEF BeforeStep
  <2>5. \A k : LeftFor(sb, "free", k) <=> k = i
    BY <1>2, <1>18, <2>4 DEF BeforeStep
  <2> QED
    BY <1>2, <1>21, <2>5 DEF BeforeStep
<1>30. \A m : LeftNamed(sa, "open", m) <=> m = n
  <2>1. \A m : LeftNamed(sf, "open", m) <=> m = n
    BY <1>2, <1>5, <1>6 DEF BeforeStep, NothingLeft
  <2>2. \A m : LeftNamed(se, "open", m) <=> m = n
    BY <1>2, <1>9, <2>1 DEF BeforeStep
  <2>3. \A m : LeftNamed(sd, "open", m) <=> m = n
    BY <1>2, <1>12, <2>2 DEF BeforeStep
  <2>4. \A m : LeftNamed(sc, "open", m) <=> m = n
    BY <1>2, <1>15, <2>3 DEF BeforeStep
  <2>5. \A m : LeftNamed(sb, "open", m) <=> m = n
    BY <1>2, <1>18, <2>4 DEF BeforeStep
  <2> QED
    BY <1>2, <1>21, <2>5 DEF BeforeStep
<1>31. CreateLeaves(sa, n, i)
  BY <1>24, <1>25, <1>26, <1>27, <1>28, <1>29, <1>30 DEF CreateLeaves
<1> QED
  BY <1>4, <1>22, <1>31

\* What is left when a reference to a file is given up.
IputLeaves(s, k) ==
    /\ \A w \in {"shrink", "remove", "add", "open", "firstLink", "link", "unlink"} : NotLeft(s, w)
    /\ \A i : LeftFor(s, "writeLinks", i) <=> i = k
    /\ \A i : LeftFor(s, "free", i) <=> i = k

\* These steps are in order.
LEMMA IputInOrder ==
    ASSUME NEW k \in INodes, NEW bf, NEW dm
    PROVE  IputLeaves(IputFile(k), k) /\ Ordered(IputFile(k), bf, dm)
<1> DEFINE d == Do("writeLinks", None, k)
           e == Do("free", None, k)
           se == Then(e, << >>)
           sd == Then(d, se)
<1>1. d \in Steps /\ e \in Steps
  BY DEF Do, Steps, Kinds
<1>2. /\ d.what = "writeLinks" /\ d.name = None /\ d.ino = k
      /\ e.what = "free" /\ e.name = None /\ e.ino = k
  BY DEF Do
<1>3. IsStep(d) /\ IsStep(e)
  BY <1>1, <1>2 DEF IsStep
<1>4. IputFile(k) = sd
  BY IputSteps
<1> HIDE DEF d, e
<1>5. << >> \in Seq(Steps) /\ NothingLeft(<< >>) /\ Ordered(<< >>, bf, dm)
  BY Few, EmptyLeavesNothing, EmptyIsOrdered
<1>6. se \in Seq(Steps) /\ BeforeStep(se, e, << >>)
  BY <1>1, <1>5, ThenLeaves, Few
<1>7. Ordered(se, bf, dm)
  <2>1. Follows(e, << >>, bf, dm)
    BY <1>2, <1>5 DEF Follows, NothingLeft
  <2> QED
    BY <1>1, <1>3, <1>5, <2>1, OrderedThen
<1> HIDE DEF se
<1>8. OnlyKinds(se, {"free"})
  BY <1>2, <1>5, <1>6 DEF OnlyKinds, BeforeStep, NothingLeft
<1>9. sd \in Seq(Steps) /\ BeforeStep(sd, d, se)
  BY <1>1, <1>6, ThenLeaves, Few
<1>10. Ordered(sd, bf, dm)
  <2>1. NotLeft(se, "firstLink") /\ NotLeft(se, "link") /\ NotLeft(se, "unlink")
    BY <1>8, OtherKinds
  <2>2. Follows(d, se, bf, dm)
    BY <1>2, <2>1 DEF Follows, NotLeft
  <2> QED
    BY <1>1, <1>3, <1>6, <1>7, <2>2, OrderedThen
<1> HIDE DEF sd
<1>11. OnlyKinds(sd, {"free", "writeLinks"})
  BY <1>2, <1>8, <1>9 DEF OnlyKinds, BeforeStep
<1>12. \A w \in {"shrink", "remove", "add", "open", "firstLink", "link", "unlink"} : NotLeft(sd, w)
  <2> TAKE w \in {"shrink", "remove", "add", "open", "firstLink", "link", "unlink"}
  <2>1. w \notin {"free", "writeLinks"}
    OBVIOUS
  <2> QED
    BY <1>11, <2>1, OtherKinds
<1>13. \A i : LeftFor(sd, "writeLinks", i) <=> i = k
  <2>1. NotLeft(se, "writeLinks")
    BY <1>8, OtherKinds
  <2> QED
    BY <1>2, <1>9, <2>1 DEF BeforeStep, NotLeft
<1>14. \A i : LeftFor(sd, "free", i) <=> i = k
  <2>1. \A i : LeftFor(se, "free", i) <=> i = k
    BY <1>2, <1>5, <1>6 DEF BeforeStep, NothingLeft
  <2> QED
    BY <1>2, <1>9, <2>1 DEF BeforeStep
<1>15. IputLeaves(sd, k)
  BY <1>12, <1>13, <1>14 DEF IputLeaves
<1> QED
  BY <1>4, <1>10, <1>15

\* What is left of the removal of a name.
RemovalLeaves(s, n) ==
    /\ OnlyKinds(s, {"remove", "writeSize"})
    /\ \A x : LeftNamed(s, "remove", x) <=> x = n

\* These steps are in order.
LEMMA RemovalInOrder ==
    ASSUME NEW n \in Names, NEW bf, NEW dm
    PROVE  LET s == Then(Do("remove", n, None), Then(Do("writeSize", None, None), << >>))
           IN  s \in Seq(Steps) /\ RemovalLeaves(s, n) /\ Ordered(s, bf, dm)
<1> DEFINE d == Do("remove", n, None)
           e == Do("writeSize", None, None)
           se == Then(e, << >>)
           sd == Then(d, se)
<1>1. d \in Steps /\ e \in Steps
  BY DEF Do, Steps, Kinds
<1>2. /\ d.what = "remove" /\ d.name = n /\ d.ino = None
      /\ e.what = "writeSize" /\ e.name = None /\ e.ino = None
  BY DEF Do
<1>3. IsStep(d) /\ IsStep(e)
  BY <1>1, <1>2 DEF IsStep
<1> SUFFICES sd \in Seq(Steps) /\ RemovalLeaves(sd, n) /\ Ordered(sd, bf, dm)
  OBVIOUS
<1> HIDE DEF d, e
<1>5. << >> \in Seq(Steps) /\ NothingLeft(<< >>) /\ Ordered(<< >>, bf, dm)
  BY Few, EmptyLeavesNothing, EmptyIsOrdered
<1>6. se \in Seq(Steps) /\ BeforeStep(se, e, << >>)
  BY <1>1, <1>5, ThenLeaves, Few
<1>4. WritesSize(se)
  BY <1>2, <1>6 DEF BeforeStep
<1>7. Ordered(se, bf, dm)
  <2>1. Follows(e, << >>, bf, dm)
    BY <1>2, <1>5 DEF Follows, NothingLeft
  <2> QED
    BY <1>1, <1>3, <1>5, <2>1, OrderedThen
<1> HIDE DEF se
<1>8. OnlyKinds(se, {"writeSize"})
  BY <1>2, <1>5, <1>6 DEF OnlyKinds, BeforeStep, NothingLeft
<1>9. sd \in Seq(Steps) /\ BeforeStep(sd, d, se)
  BY <1>1, <1>6, ThenLeaves, Few
<1>10. NotLeft(se, "remove")
  BY <1>8, OtherKinds
<1>11. Ordered(sd, bf, dm)
  <2>1. /\ NotLeft(se, "shrink") /\ NotLeft(se, "unlink") /\ NotLeft(se, "firstLink")
        /\ NotLeft(se, "open") /\ NotLeft(se, "add") /\ NotLeft(se, "link")
    BY <1>8, OtherKinds
  <2>2. Follows(d, se, bf, dm)
    BY <1>2, <1>4, <1>10, <2>1 DEF Follows, NotLeft
  <2> QED
    BY <1>1, <1>3, <1>6, <1>7, <2>2, OrderedThen
<1> HIDE DEF sd
<1>12. OnlyKinds(sd, {"remove", "writeSize"})
  BY <1>2, <1>8, <1>9 DEF OnlyKinds, BeforeStep
<1>13. \A x : LeftNamed(sd, "remove", x) <=> x = n
  BY <1>2, <1>9, <1>10 DEF BeforeStep, NotLeft
<1> QED
  BY <1>9, <1>11, <1>12, <1>13 DEF RemovalLeaves

\* What is left of a rename: first, perhaps, a removal of the destination.
RenameLeaves(s, n, m, k, both) ==
    /\ \A w \in {"shrink", "open", "firstLink", "unlink"} : NotLeft(s, w)
    /\ \A x : LeftNamed(s, "add", x) <=> x = m
    /\ \A i : LeftFor(s, "add", i) <=> i = k
    /\ \A i : LeftFor(s, "link", i) <=> i = k
    /\ \A x : LeftNamed(s, "remove", x) <=> x = n \/ (both /\ x = m)

\* The steps after that removal are in order.
LEMMA RenameInOrder ==
    ASSUME NEW n \in Names, NEW m \in Names, n # m, NEW k \in INodes, NEW bf, NEW dm
    PROVE  /\ renames(n, m, k) \in Seq(Steps)
           /\ RenameLeaves(renames(n, m, k), n, m, k, FALSE)
           /\ WritesSize(renames(n, m, k))
           /\ Ordered(renames(n, m, k), bf, dm)
<1> DEFINE a == Do("add", m, k)
           b == Do("link", None, k)
           c == Do("writeSize", None, None)
           d == Do("writeLinks", None, k)
           e == Do("free", None, k)
           sf == Then(Do("remove", n, None), Then(c, << >>))
           se == Then(e, sf)
           sd == Then(d, se)
           sc == Then(c, sd)
           sb == Then(b, sc)
           sa == Then(a, sb)
<1>1. a \in Steps /\ b \in Steps /\ c \in Steps /\ d \in Steps /\ e \in Steps
  BY DEF Do, Steps, Kinds
<1>2. /\ a.what = "add" /\ a.name = m /\ a.ino = k
      /\ b.what = "link" /\ b.name = None /\ b.ino = k
      /\ c.what = "writeSize" /\ c.name = None /\ c.ino = None
      /\ d.what = "writeLinks" /\ d.name = None /\ d.ino = k
      /\ e.what = "free" /\ e.name = None /\ e.ino = k
  BY DEF Do
<1>3. IsStep(a) /\ IsStep(b) /\ IsStep(c) /\ IsStep(d) /\ IsStep(e)
  BY <1>1, <1>2 DEF IsStep
<1>4. renames(n, m, k) = sa
  BY DEF renames
<1>5. sf \in Seq(Steps) /\ RemovalLeaves(sf, n) /\ Ordered(sf, bf, dm)
  BY RemovalInOrder
<1> HIDE DEF a, b, c, d, e, sf
<1>6. OnlyKinds(sf, {"remove", "writeSize"}) /\ \A x : LeftNamed(sf, "remove", x) <=> x = n
  BY <1>5 DEF RemovalLeaves
<1>7. se \in Seq(Steps) /\ BeforeStep(se, e, sf)
  BY <1>1, <1>5, ThenLeaves, Few
<1>8. Ordered(se, bf, dm)
  <2>1. NotLeft(sf, "firstLink") /\ NotLeft(sf, "link") /\ NotLeft(sf, "unlink")
    BY <1>6, OtherKinds
  <2>2. Follows(e, sf, bf, dm)
    BY <1>2, <2>1 DEF Follows, NotLeft
  <2> QED
    BY <1>1, <1>3, <1>5, <2>2, OrderedThen
<1> HIDE DEF se
<1>9. /\ OnlyKinds(se, {"remove", "writeSize", "free"})
      /\ \A x : LeftNamed(se, "remove", x) <=> x = n
  BY <1>2, <1>6, <1>7 DEF OnlyKinds, BeforeStep
<1>10. sd \in Seq(Steps) /\ BeforeStep(sd, d, se)
  BY <1>1, <1>7, ThenLeaves, Few
<1>11. Ordered(sd, bf, dm)
  <2>1. NotLeft(se, "firstLink") /\ NotLeft(se, "link") /\ NotLeft(se, "unlink")
    BY <1>9, OtherKinds
  <2>2. Follows(d, se, bf, dm)
    BY <1>2, <2>1 DEF Follows, NotLeft
  <2> QED
    BY <1>1, <1>3, <1>7, <1>8, <2>2, OrderedThen
<1> HIDE DEF sd
<1>12. /\ OnlyKinds(sd, {"remove", "writeSize", "free", "writeLinks"})
       /\ \A x : LeftNamed(sd, "remove", x) <=> x = n
  BY <1>2, <1>9, <1>10 DEF OnlyKinds, BeforeStep
<1>13. sc \in Seq(Steps) /\ BeforeStep(sc, c, sd)
  BY <1>1, <1>10, ThenLeaves, Few
<1>14. Ordered(sc, bf, dm)
  <2>1. NotLeft(sd, "shrink")
    BY <1>12, OtherKinds
  <2>2. Follows(c, sd, bf, dm)
    BY <1>2, <2>1 DEF Follows, NotLeft
  <2> QED
    BY <1>1, <1>3, <1>10, <1>11, <2>2, OrderedThen
<1> HIDE DEF sc
<1>15. OnlyKinds(sc, {"remove", "writeSize", "free", "writeLinks"})
  BY <1>2, <1>12, <1>13 DEF OnlyKinds, BeforeStep
<1>16. \A x : LeftNamed(sc, "remove", x) <=> x = n
  BY <1>2, <1>12, <1>13 DEF BeforeStep
<1>17. sb \in Seq(Steps) /\ BeforeStep(sb, b, sc)
  BY <1>1, <1>13, ThenLeaves, Few
<1>18. NotLeft(sc, "link")
  BY <1>15, OtherKinds
<1>19. Ordered(sb, bf, dm)
  <2>1. Follows(b, sc, bf, dm)
    BY <1>2, <1>18 DEF Follows, NotLeft
  <2> QED
    BY <1>1, <1>3, <1>13, <1>14, <2>1, OrderedThen
<1> HIDE DEF sb
<1>20. OnlyKinds(sb, {"remove", "writeSize", "free", "writeLinks", "link"})
  BY <1>2, <1>15, <1>17 DEF OnlyKinds, BeforeStep
<1>21. \A x : LeftNamed(sb, "remove", x) <=> x = n
  BY <1>2, <1>16, <1>17 DEF BeforeStep
<1>22. \A i : LeftFor(sb, "link", i) <=> i = k
  BY <1>2, <1>17, <1>18 DEF BeforeStep, NotLeft
<1>23. sa \in Seq(Steps) /\ BeforeStep(sa, a, sb)
  BY <1>1, <1>17, ThenLeaves, Few
<1>24. WritesSize(sc) /\ WritesSize(sb) /\ WritesSize(sa)
  <2>1. WritesSize(sc)
    BY <1>2, <1>13 DEF BeforeStep
  <2>2. WritesSize(sb)
    BY <1>2, <1>17, <2>1 DEF BeforeStep
  <2>3. WritesSize(sa)
    BY <1>2, <1>23, <2>2 DEF BeforeStep
  <2> QED
    BY <2>1, <2>2, <2>3
<1>25. NotLeft(sb, "add")
  BY <1>20, OtherKinds
<1>26. Ordered(sa, bf, dm)
  <2>1. NotLeft(sb, "shrink")
    BY <1>20, OtherKinds
  <2>2. Follows(a, sb, bf, dm)
    BY <1>2, <1>21, <1>24, <1>25, <2>1 DEF Follows, NotLeft
  <2> QED
    BY <1>1, <1>3, <1>17, <1>19, <2>2, OrderedThen
<1> HIDE DEF sa
<1>27. OnlyKinds(sa, {"remove", "writeSize", "free", "writeLinks", "link", "add"})
  BY <1>2, <1>20, <1>23 DEF OnlyKinds, BeforeStep
<1>28. \A w \in {"shrink", "open", "firstLink", "unlink"} : NotLeft(sa, w)
  <2> TAKE w \in {"shrink", "open", "firstLink", "unlink"}
  <2>1. w \notin {"remove", "writeSize", "free", "writeLinks", "link", "add"}
    OBVIOUS
  <2> QED
    BY <1>27, <2>1, OtherKinds
<1>29. (\A x : LeftNamed(sa, "add", x) <=> x = m) /\ (\A i : LeftFor(sa, "add", i) <=> i = k)
  BY <1>2, <1>23, <1>25 DEF BeforeStep, NotLeft
<1>30. \A i : LeftFor(sa, "link", i) <=> i = k
  BY <1>2, <1>22, <1>23 DEF BeforeStep
<1>31. \A x : LeftNamed(sa, "remove", x) <=> x = n
  BY <1>2, <1>21, <1>23 DEF BeforeStep
<1>32. RenameLeaves(sa, n, m, k, FALSE)
  BY <1>28, <1>29, <1>30, <1>31 DEF RenameLeaves
<1> QED
  BY <1>4, <1>23, <1>24, <1>26, <1>32

\* And the removal of the destination may come first, if the two names do not
\* lead to one file that is not damaged.
LEMMA ReplaceInOrder ==
    ASSUME NEW n \in Names, NEW m \in Names, n # m, NEW k \in INodes, NEW bf, NEW dm,
           bf[m] = k => k \in dm,
           bf[n] = bf[m] => bf[n] \in dm \union {None}
    PROVE  LET s == Then(Do("remove", m, None), renames(n, m, k))
           IN  RenameLeaves(s, n, m, k, TRUE) /\ Ordered(s, bf, dm)
<1> DEFINE h == Do("remove", m, None)
           r == renames(n, m, k)
           s == Then(h, r)
<1>1. h \in Steps
  BY DEF Do, Steps, Kinds
<1>2. h.what = "remove" /\ h.name = m /\ h.ino = None
  BY DEF Do
<1>3. IsStep(h)
  BY <1>1, <1>2 DEF IsStep
<1> SUFFICES RenameLeaves(s, n, m, k, TRUE) /\ Ordered(s, bf, dm)
  OBVIOUS
<1> HIDE DEF h
<1>4. r \in Seq(Steps) /\ RenameLeaves(r, n, m, k, FALSE) /\ WritesSize(r) /\ Ordered(r, bf, dm)
  BY RenameInOrder
<1> HIDE DEF r
<1>5. BeforeStep(s, h, r)
  BY <1>1, <1>4, ThenLeaves
<1>6. NotLeft(r, "shrink") /\ NotLeft(r, "open") /\ NotLeft(r, "firstLink") /\ NotLeft(r, "unlink")
  BY <1>4 DEF RenameLeaves
<1>7. /\ \A x : LeftNamed(r, "add", x) <=> x = m
      /\ \A i : LeftFor(r, "add", i) <=> i = k
      /\ \A i : LeftFor(r, "link", i) <=> i = k
      /\ \A x : LeftNamed(r, "remove", x) <=> x = n
  BY <1>4 DEF RenameLeaves
<1>8. Follows(h, r, bf, dm)
  <2>1. ~LeftNamed(r, "remove", m)
    BY <1>7
  <2>2. bf[m] \notin dm => ~LeftFor(r, "link", bf[m])
    BY <1>7
  <2>3. \A x \in Names : LeftNamed(r, "remove", x) /\ bf[x] = bf[m] => bf[x] \in dm \union {None}
    BY <1>7
  <2> QED
    BY <1>2, <1>4, <1>6, <1>7, <2>1, <2>2, <2>3 DEF Follows, NotLeft
<1>9. Ordered(s, bf, dm)
  BY <1>1, <1>3, <1>4, <1>8, OrderedThen
<1> HIDE DEF s
<1>10. NotLeft(s, "shrink") /\ NotLeft(s, "open") /\ NotLeft(s, "firstLink") /\ NotLeft(s, "unlink")
  BY <1>2, <1>5, <1>6 DEF BeforeStep, NotLeft
<1>11. /\ \A x : LeftNamed(s, "add", x) <=> x = m
       /\ \A i : LeftFor(s, "add", i) <=> i = k
       /\ \A i : LeftFor(s, "link", i) <=> i = k
  BY <1>2, <1>5, <1>7 DEF BeforeStep
<1>12. \A x : LeftNamed(s, "remove", x) <=> x = n \/ x = m
  BY <1>2, <1>5, <1>7 DEF BeforeStep
<1> QED
  BY <1>9, <1>10, <1>11, <1>12 DEF RenameLeaves

-----------------------------------------------------------------------------
(* What is true between calls, and when one begins.                        *)

\* A file between calls.
IdleFile(i, lk, dl, us, rf, nm) ==
    /\ lk \in 0..2 /\ dl \in 0..2
    /\ i \in us /\ Named(i, nm) => lk = 1
    /\ i \in us /\ ~Named(i, nm) => lk = 0
    /\ Named(i, nm) => i \in us /\ dl = 1
    /\ i \in rf => i \in us
    /\ i \in us => Named(i, nm) \/ i \in rf
    /\ \A n, m \in Names : nm[n] = i /\ nm[m] = i => n = m

\* At the end of a call the invariant says that of a file.
LEMMA FileIsIdle ==
    ASSUME NEW i, NEW lk, NEW dl, NEW us, NEW rf, NEW s, NEW bf, NEW nm,
           FileInv(i, lk, dl, us, rf, s, bf, nm), NothingLeft(s)
    PROVE  IdleFile(i, lk, dl, us, rf, nm)
<1>1. /\ i \in us => lk = IF Named(i, nm) THEN 1 ELSE 0
      /\ Named(i, nm) => dl = 1
  BY FileEnds
<1>2. ~LeftFor(s, "free", i) /\ ~ToUnlink(i, s, bf)
  BY DEF NothingLeft, ToUnlink
<1>3. /\ lk \in 0..2 /\ dl \in 0..2
      /\ Named(i, nm) => i \in us
      /\ i \in rf => i \in us
      /\ i \in us => Named(i, nm) \/ i \in rf
      /\ \A n, m \in Names : nm[n] = i /\ nm[m] = i => n = m
  BY <1>2 DEF FileInv
<1> QED
  BY <1>1, <1>3 DEF IdleFile

\* A call begins that does not change the names of a file: the references to
\* it are the same, or the call gives one up.
LEMMA FileUnchanged ==
    ASSUME NEW i, NEW lk, NEW dl, NEW us, NEW us2, NEW rf, NEW rf2, NEW s, NEW bf, NEW nm,
           IdleFile(i, lk, dl, us, rf, bf),
           ~LeftFor(s, "firstLink", i), ~LeftFor(s, "link", i), ~LeftFor(s, "unlink", i),
           ~ToUnlink(i, s, bf),
           \A x \in Names : nm[x] = i <=> bf[x] = i,
           i \in us <=> i \in us2,
           i \in rf2 => i \in rf,
           i \in rf => i \in rf2 \/ LeftFor(s, "free", i)
    PROVE  FileInv(i, lk, dl, us2, rf2, s, bf, nm)
<1>1. Named(i, nm) <=> Named(i, bf)
  BY DEF Named
<1>2. i \in us2 => Counts(i, lk, s, bf, nm)
  BY <1>1, CountsAre DEF IdleFile
<1>3. Named(i, nm) => OnDisk(i, dl, rf2, s, bf, nm)
  BY <1>1 DEF IdleFile, OnDisk
<1> QED
  BY <1>1, <1>2, <1>3 DEF IdleFile, FileInv

\* A call begins that takes the name of a file away.
LEMMA FileUnlinked ==
    ASSUME NEW i, NEW lk, NEW dl, NEW us, NEW rf, NEW s, NEW bf, NEW nm, NEW z \in Names,
           IdleFile(i, lk, dl, us, rf, bf),
           ~LeftFor(s, "firstLink", i), ~LeftFor(s, "link", i), ~LeftFor(s, "unlink", i),
           LeftNamed(s, "remove", z), bf[z] = i,
           \A x \in Names : nm[x] = i <=> bf[x] = i /\ x # z
    PROVE  FileInv(i, lk, dl, us, rf, s, bf, nm)
<1>1. Named(i, bf)
  BY DEF Named
<1>2. i \in us /\ lk = 1 /\ dl = 1
  BY <1>1 DEF IdleFile
<1>3. ~Named(i, nm)
  BY DEF IdleFile, Named
<1>4. ToUnlink(i, s, bf)
  BY DEF ToUnlink
<1>5. Counts(i, lk, s, bf, nm)
  BY <1>2, <1>3, <1>4, CountsAre
<1>6. \A x, y \in Names : nm[x] = i /\ nm[y] = i => x = y
  BY <1>3 DEF Named
<1>7. (i \in rf => i \in us) /\ lk \in 0..2 /\ dl \in 0..2
  BY DEF IdleFile
<1> QED
  BY <1>2, <1>3, <1>4, <1>5, <1>6, <1>7 DEF FileInv

\* A call begins that gives a file another name.
LEMMA FileRenamed ==
    ASSUME NEW i, NEW lk, NEW dl, NEW us, NEW rf, NEW s, NEW bf, NEW nm,
           NEW n \in Names, NEW m \in Names, n # m,
           IdleFile(i, lk, dl, us, rf, bf),
           ~LeftFor(s, "firstLink", i), LeftFor(s, "link", i), ~LeftFor(s, "unlink", i),
           LeftNamed(s, "remove", n), bf[n] = i, nm[m] = i, nm[n] # i,
           \A x \in Names : x # n /\ x # m => nm[x] = bf[x]
    PROVE  FileInv(i, lk, dl, us, rf, s, bf, nm)
<1>1. Named(i, bf) /\ Named(i, nm)
  BY DEF Named
<1>2. i \in us /\ lk = 1 /\ dl = 1
  BY <1>1 DEF IdleFile
<1>3. ToUnlink(i, s, bf)
  BY DEF ToUnlink
<1>4. Counts(i, lk, s, bf, nm)
  BY <1>1, <1>2, <1>3, CountsAre
<1>5. \A x \in Names : bf[x] = i => x = n
  BY DEF IdleFile
<1>6. \A x, y \in Names : nm[x] = i /\ nm[y] = i => x = y
  BY <1>5
<1>7. (i \in rf => i \in us) /\ lk \in 0..2 /\ dl \in 0..2
  BY DEF IdleFile
<1>8. Renamed(i, bf, nm)
  BY <1>5 DEF Renamed
<1>9. OnDisk(i, dl, rf, s, bf, nm)
  BY <1>2 DEF OnDisk
<1> QED
  BY <1>1, <1>2, <1>3, <1>4, <1>6, <1>7, <1>8, <1>9 DEF FileInv

\* A call begins that makes a file: getNewINode has written its inode.
LEMMA FileCreated ==
    ASSUME NEW i, NEW lk, NEW dl, NEW us, NEW us2, NEW rf, NEW s, NEW bf, NEW nm, NEW n \in Names,
           IdleFile(i, lk, dl, us, rf, bf), i \notin us, i \in us2,
           LeftFor(s, "firstLink", i), ~LeftFor(s, "link", i), ~LeftFor(s, "unlink", i),
           LeftFor(s, "writeLinks", i),
           \A x \in Names : ~LeftNamed(s, "remove", x),
           nm[n] = i,
           \A x \in Names : x # n => nm[x] = bf[x]
    PROVE  FileInv(i, lk, 0, us2, rf, s, bf, nm)
<1>1. ~Named(i, bf) /\ i \notin rf /\ lk \in 0..2
  BY DEF IdleFile
<1>2. Named(i, nm) /\ \A x \in Names : nm[x] = i => x = n
  BY <1>1 DEF Named
<1>3. ~ToUnlink(i, s, bf)
  BY DEF ToUnlink
<1>4. Renamed(i, bf, nm)
  BY <1>1 DEF Renamed, Named
<1>5. OnDisk(i, 0, rf, s, bf, nm)
  BY <1>1, <1>4 DEF OnDisk
<1>6. 0 \in 0..2
  OBVIOUS
<1> QED
  BY <1>1, <1>2, <1>3, <1>5, <1>6 DEF FileInv

\* The directory between calls.
IdleDir(sl, sz, ds, nm, dm, cr) ==
    /\ ds = sz /\ sz \in Nat
    /\ Lists(sl, sz, nm, dm)
    /\ CountInv(sl, sz, << >>, cr)

IdleFiles(lk, dl, us, rf, nm, dm) ==
    \A i \in INodes \ dm : IdleFile(i, lk[i], dl[i], us, rf, nm)

\* What the invariant says between calls.
LEMMA BetweenCalls ==
    ASSUME NEW sl, NEW sz, NEW ds, NEW lk, NEW dl, NEW us, NEW rf, NEW bf, NEW nm, NEW mv,
           NEW dm, NEW cr,
           nm \in [Names -> INodes \union {None}],
           Consistent(sl, sz, ds, lk, dl, us, rf, << >>, bf, nm, mv, dm, cr)
    PROVE  IdleDir(sl, sz, ds, nm, dm, cr) /\ IdleFiles(lk, dl, us, rf, nm, dm)
<1> DEFINE s == << >>
<1>1. NothingLeft(s)
  BY EmptyLeavesNothing
<1>2. /\ DirInv(sl, sz, ds, s, bf, nm, mv, dm)
      /\ LinkInv(lk, dl, us, rf, s, bf, nm, dm)
      /\ CountInv(sl, Extent(sz, s), s, cr)
  BY DEF Consistent
<1>3. IdleDir(sl, sz, ds, nm, dm, cr)
  <2> HIDE DEF s
  <2>1. ds = sz /\ sz \in Nat /\ Extent(sz, s) = sz /\ Lists(sl, sz, nm, dm)
    BY <1>1, <1>2, DirEnds
  <2>2. CountInv(sl, sz, s, cr)
    BY <1>2, <2>1
  <2> QED
    BY <2>1, <2>2 DEF IdleDir, s
<1>4. ASSUME NEW i \in INodes \ dm
      PROVE  IdleFile(i, lk[i], dl[i], us, rf, nm)
  <2> HIDE DEF s
  <2>1. FileInv(i, lk[i], dl[i], us, rf, s, bf, nm)
    BY <1>2 DEF LinkInv
  <2> QED
    BY <1>1, <2>1, FileIsIdle
<1> QED
  BY <1>3, <1>4 DEF IdleFiles

\* The entries are those of the files that the names lead to, though a name
\* without an entry leads elsewhere, and more files are damaged.
LEMMA ListsStill ==
    ASSUME NEW sl, NEW e, NEW c, NEW c2, NEW dm, NEW dm2, Lists(sl, e, c, dm), dm \subseteq dm2,
           \A x \in Names : c2[x] = c[x] \/ (c2[x] \in dm2 \union {None} /\ At(sl, x, e) = {})
    PROVE  Lists(sl, e, c2, dm2)
<1>1. ASSUME NEW p \in Positions, p < e
      PROVE  sl[p] \in FileEntries /\ (sl[p].ino \in dm2 \/ c2[sl[p].name] = sl[p].ino)
  <2>1. sl[p] \in FileEntries /\ (sl[p].ino \in dm \/ c[sl[p].name] = sl[p].ino)
    BY <1>1 DEF Lists
  <2>2. sl[p].name \in Names
    BY <2>1 DEF FileEntries
  <2>3. p \in At(sl, sl[p].name, e)
    BY <1>1 DEF At
  <2>4. c2[sl[p].name] = c[sl[p].name]
    BY <2>2, <2>3
  <2> QED
    BY <2>1, <2>4
<1>2. ASSUME NEW x \in Names, c2[x] \notin dm2 \union {None}
      PROVE  \E p \in Positions : At(sl, x, e) = {p} /\ sl[p].ino = c2[x]
  BY <1>2 DEF Lists
<1> QED
  BY <1>1, <1>2 DEF Lists

\* A call begins with the directory as it is.
LEMMA DirCallBegins ==
    ASSUME NEW sl, NEW sz, NEW ds, NEW bf, NEW nm, NEW dm, NEW dm2, NEW cr, NEW s,
           IdleDir(sl, sz, ds, bf, dm, cr), dm \subseteq dm2, ~Left(s, "shrink"),
           \A x \in Names : \/ Current(s, bf, nm)[x] = bf[x]
                            \/ Current(s, bf, nm)[x] \in dm2 \union {None} /\ At(sl, x, sz) = {},
           \A x \in Names : LeftNamed(s, "add", x) => At(sl, x, sz) = {} \/ LeftNamed(s, "remove", x)
    PROVE  /\ Extent(sz, s) = sz
           /\ DirInv(sl, sz, ds, s, bf, nm, {}, dm2)
           /\ CountInv(sl, sz, s, cr)
<1>1. ds = sz /\ sz \in Nat /\ Lists(sl, sz, bf, dm) /\ CountInv(sl, sz, << >>, cr)
  BY DEF IdleDir
<1>2. Lists(sl, sz, Current(s, bf, nm), dm2)
  BY <1>1, ListsStill
<1>3. DirInv(sl, sz, ds, s, bf, nm, {}, dm2)
  BY <1>1, <1>2, DirBegins
<1>4. /\ NamesIn(sl, sz) \subseteq Names
      /\ \A n : n \in NamesIn(sl, sz) <=> At(sl, n, sz) # {}
  BY <1>1, NamesInFinite
<1>5. ~AddsTwice(sl, sz, s)
  BY <1>4 DEF AddsTwice
<1>6. ~AddsTwice(sl, sz, << >>)
  BY EmptyLeavesNothing DEF AddsTwice, NothingLeft
<1>7. CountInv(sl, sz, s, cr)
  BY <1>1, <1>5, <1>6 DEF CountInv, One
<1>8. Extent(sz, s) = sz
  BY DEF Extent
<1> QED
  BY <1>3, <1>7, <1>8

\* A call begins that gives up a reference to a file.
LEMMA IputBegins ==
    ASSUME NEW sl, NEW sz, NEW ds, NEW lk, NEW dl, NEW us, NEW rf, NEW rf2, NEW nm, NEW dm, NEW cr,
           NEW k \in INodes,
           nm \in [Names -> INodes \union {None}],
           IdleDir(sl, sz, ds, nm, dm, cr), IdleFiles(lk, dl, us, rf, nm, dm),
           rf2 \subseteq rf, rf \subseteq rf2 \union {k}
    PROVE  Consistent(sl, sz, ds, lk, dl, us, rf2, IputFile(k), nm, nm, {}, dm, cr)
<1> DEFINE s == IputFile(k)
<1>1. IputLeaves(s, k) /\ Ordered(s, nm, dm)
  BY IputInOrder
<1> HIDE DEF s
<1>2. /\ NotLeft(s, "shrink") /\ NotLeft(s, "remove") /\ NotLeft(s, "add") /\ NotLeft(s, "open")
      /\ NotLeft(s, "firstLink") /\ NotLeft(s, "link") /\ NotLeft(s, "unlink")
      /\ \A i : LeftFor(s, "free", i) <=> i = k
  BY <1>1 DEF IputLeaves
<1>3. \A x \in Names : Current(s, nm, nm)[x] = nm[x]
  BY CurrentOf
<1>4. \A x \in Names : ~LeftNamed(s, "add", x) /\ ~LeftNamed(s, "remove", x) /\ ~LeftNamed(s, "open", x)
  BY <1>2 DEF NotLeft
<1>5. ~Left(s, "shrink")
  BY <1>2 DEF NotLeft
<1>6. /\ Extent(sz, s) = sz
      /\ DirInv(sl, sz, ds, s, nm, nm, {}, dm)
      /\ CountInv(sl, sz, s, cr)
  <2>1. dm \subseteq dm
    OBVIOUS
  <2> QED
    BY <1>3, <1>4, <1>5, <2>1, DirCallBegins
<1>7. StepInv(sl, sz, s, nm, nm, dm)
  BY <1>4 DEF StepInv, RemoveInv, AddInv, OpenInv
<1>8. ASSUME NEW i \in INodes \ dm
      PROVE  FileInv(i, lk[i], dl[i], us, rf2, s, nm, nm)
  <2>1. IdleFile(i, lk[i], dl[i], us, rf, nm)
    BY DEF IdleFiles
  <2>2. ~LeftFor(s, "firstLink", i) /\ ~LeftFor(s, "link", i) /\ ~LeftFor(s, "unlink", i)
    BY <1>2 DEF NotLeft
  <2>3. ~ToUnlink(i, s, nm)
    BY <1>4, <2>2 DEF ToUnlink
  <2>4. i \in rf => i \in rf2 \/ LeftFor(s, "free", i)
    BY <1>2
  <2> QED
    BY <2>1, <2>2, <2>3, <2>4, FileUnchanged
<1>9. LinkInv(lk, dl, us, rf2, s, nm, nm, dm)
  BY <1>8 DEF LinkInv
<1> QED
  BY <1>1, <1>6, <1>7, <1>9 DEF Consistent, s

\* An unlink begins.
LEMMA UnlinkBegins ==
    ASSUME NEW sl, NEW sz, NEW ds, NEW lk, NEW dl, NEW us, NEW rf, NEW bf, NEW nm, NEW dm, NEW cr,
           NEW n \in Names,
           IdleDir(sl, sz, ds, bf, dm, cr), IdleFiles(lk, dl, us, rf, bf, dm),
           At(sl, n, sz) # {},
           nm[n] = None, \A x \in Names : x # n => nm[x] = bf[x]
    PROVE  Consistent(sl, sz, ds, lk, dl, us, rf, <<Do("remove", n, None)>> \o IputParent,
                      bf, nm, {}, dm, cr)
<1> DEFINE s == <<Do("remove", n, None)>> \o IputParent
<1>1. RemovalLeaves(s, n) /\ Ordered(s, bf, dm)
  BY RemovalSteps, RemovalInOrder
<1> HIDE DEF s
<1>2. /\ NotLeft(s, "shrink") /\ NotLeft(s, "add") /\ NotLeft(s, "open")
      /\ NotLeft(s, "firstLink") /\ NotLeft(s, "link") /\ NotLeft(s, "unlink")
  <2>1. OnlyKinds(s, {"remove", "writeSize"})
    BY <1>1 DEF RemovalLeaves
  <2> QED
    BY <2>1, OtherKinds
<1>3. \A x : LeftNamed(s, "remove", x) <=> x = n
  BY <1>1 DEF RemovalLeaves
<1>4. \A x \in Names : ~LeftNamed(s, "add", x) /\ ~LeftNamed(s, "open", x)
  BY <1>2 DEF NotLeft
<1>5. ~Left(s, "shrink")
  BY <1>2 DEF NotLeft
<1>6. \A x \in Names : Current(s, bf, nm)[x] = bf[x]
  BY <1>3, CurrentOf
<1>7. /\ Extent(sz, s) = sz
      /\ DirInv(sl, sz, ds, s, bf, nm, {}, dm)
      /\ CountInv(sl, sz, s, cr)
  <2>1. dm \subseteq dm
    OBVIOUS
  <2> QED
    BY <1>4, <1>5, <1>6, <2>1, DirCallBegins
<1>8. StepInv(sl, sz, s, bf, nm, dm)
  <2>1. \A x \in Names : RemoveInv(x, sl, sz, s, bf, nm, dm)
    BY <1>3 DEF RemoveInv
  <2>2. \A x \in Names : AddInv(x, sl, sz, s, bf, nm, dm) /\ OpenInv(x, sl, sz, s)
    BY <1>4 DEF AddInv, OpenInv
  <2> QED
    BY <1>7, <2>1, <2>2 DEF StepInv
<1>9. ASSUME NEW i \in INodes \ dm
      PROVE  FileInv(i, lk[i], dl[i], us, rf, s, bf, nm)
  <2>1. IdleFile(i, lk[i], dl[i], us, rf, bf)
    BY DEF IdleFiles
  <2>2. ~LeftFor(s, "firstLink", i) /\ ~LeftFor(s, "link", i) /\ ~LeftFor(s, "unlink", i)
    BY <1>2 DEF NotLeft
  <2>3. i # None
    BY Sizes
  <2>4. CASE bf[n] = i
    <3>1. \A x \in Names : nm[x] = i <=> bf[x] = i /\ x # n
      BY <2>3
    <3> QED
      BY <1>3, <2>1, <2>2, <2>4, <3>1, FileUnlinked
  <2>5. CASE bf[n] # i
    <3>1. \A x \in Names : nm[x] = i <=> bf[x] = i
      BY <2>3, <2>5
    <3>2. ~ToUnlink(i, s, bf)
      BY <1>3, <2>2, <2>5 DEF ToUnlink
    <3> QED
      BY <2>1, <2>2, <3>1, <3>2, FileUnchanged
  <2> QED
    BY <2>4, <2>5
<1>10. LinkInv(lk, dl, us, rf, s, bf, nm, dm)
  BY <1>9 DEF LinkInv
<1> QED
  BY <1>1, <1>7, <1>8, <1>10 DEF Consistent, s

\* A create begins, for a name that has no entry and an inode that is free.
LEMMA CreateBegins ==
    ASSUME NEW sl, NEW sz, NEW ds, NEW lk, NEW dl, NEW dl2, NEW us, NEW us2, NEW rf,
           NEW bf, NEW nm, NEW dm, NEW cr, NEW n \in Names, NEW k \in INodes,
           IdleDir(sl, sz, ds, bf, dm, cr), IdleFiles(lk, dl, us, rf, bf, dm),
           At(sl, n, sz) = {}, bf[n] \in dm \union {None},
           k \notin us, us2 = us \union {k},
           dl2[k] = 0, \A i \in INodes : i # k => dl2[i] = dl[i],
           nm[n] = k, \A x \in Names : x # n => nm[x] = bf[x]
    PROVE  Consistent(sl, sz, ds, lk, dl2, us2, rf, createSteps(n, k), bf, nm, {}, dm, cr)
<1> DEFINE s == createSteps(n, k)
<1>1. CreateLeaves(s, n, k) /\ Ordered(s, bf, dm)
  BY CreateInOrder
<1> HIDE DEF s
<1>2. NotLeft(s, "shrink") /\ NotLeft(s, "remove") /\ NotLeft(s, "link") /\ NotLeft(s, "unlink")
  BY <1>1 DEF CreateLeaves
<1>3. /\ \A x \in Names : LeftNamed(s, "add", x) <=> x = n
      /\ \A x \in Names : LeftNamed(s, "open", x) <=> x = n
      /\ \A i : LeftFor(s, "add", i) <=> i = k
      /\ \A i : LeftFor(s, "firstLink", i) <=> i = k
      /\ \A i : LeftFor(s, "writeLinks", i) <=> i = k
  BY <1>1 DEF CreateLeaves
<1>4. ~Left(s, "shrink") /\ \A x \in Names : ~LeftNamed(s, "remove", x)
  BY <1>2 DEF NotLeft
<1>5. k # None /\ (bf[n] = k => k \in dm)
  BY Sizes
<1>6. \A x \in Names : \/ Current(s, bf, nm)[x] = bf[x]
                       \/ Current(s, bf, nm)[x] \in dm \union {None} /\ At(sl, x, sz) = {}
  <2>1. ASSUME NEW x \in Names, x # n
        PROVE  Current(s, bf, nm)[x] = bf[x]
    BY <2>1, CurrentOf
  <2>2. Current(s, bf, nm)[n] = bf[n] \/ Current(s, bf, nm)[n] = None
    BY <1>3, <1>4, CurrentOf
  <2> QED
    BY <2>1, <2>2
<1>7. /\ Extent(sz, s) = sz
      /\ DirInv(sl, sz, ds, s, bf, nm, {}, dm)
      /\ CountInv(sl, sz, s, cr)
  <2>1. dm \subseteq dm
    OBVIOUS
  <2>2. \A x \in Names : LeftNamed(s, "add", x) => At(sl, x, sz) = {} \/ LeftNamed(s, "remove", x)
    BY <1>3
  <2> QED
    BY <1>4, <1>6, <2>1, <2>2, DirCallBegins
<1>8. StepInv(sl, sz, s, bf, nm, dm)
  <2>1. \A x \in Names : RemoveInv(x, sl, sz, s, bf, nm, dm)
    BY <1>4 DEF RemoveInv
  <2>2. \A x \in Names : AddInv(x, sl, sz, s, bf, nm, dm)
    BY <1>3, <1>4, <1>5 DEF AddInv
  <2>3. \A x \in Names : OpenInv(x, sl, sz, s)
    BY <1>3 DEF OpenInv
  <2> QED
    BY <1>7, <2>1, <2>2, <2>3 DEF StepInv
<1>9. ASSUME NEW i \in INodes \ dm
      PROVE  FileInv(i, lk[i], dl2[i], us2, rf, s, bf, nm)
  <2>1. IdleFile(i, lk[i], dl[i], us, rf, bf)
    BY DEF IdleFiles
  <2>2. ~LeftFor(s, "link", i) /\ ~LeftFor(s, "unlink", i)
    BY <1>2 DEF NotLeft
  <2>3. CASE i = k
    <3>1. FileInv(k, lk[k], 0, us2, rf, s, bf, nm)
      <4>1. IdleFile(k, lk[k], dl[k], us, rf, bf) /\ ~LeftFor(s, "link", k) /\ ~LeftFor(s, "unlink", k)
        BY <2>1, <2>2, <2>3
      <4>2. LeftFor(s, "firstLink", k) /\ LeftFor(s, "writeLinks", k) /\ k \in us2
        BY <1>3
      <4> QED
        BY <1>4, <4>1, <4>2, FileCreated
    <3> QED
      BY <2>3, <3>1
  <2>4. CASE i # k
    <3>1. i # None /\ bf[n] # i
      BY Sizes
    <3>2. \A x \in Names : nm[x] = i <=> bf[x] = i
      BY <2>4, <3>1
    <3>3. ~ToUnlink(i, s, bf)
      BY <1>4, <2>2 DEF ToUnlink
    <3>4. ~LeftFor(s, "firstLink", i) /\ dl2[i] = dl[i] /\ (i \in us <=> i \in us2)
      BY <1>3, <2>4
    <3> QED
      BY <2>1, <2>2, <3>2, <3>3, <3>4, FileUnchanged
  <2> QED
    BY <2>3, <2>4
<1>10. LinkInv(lk, dl2, us2, rf, s, bf, nm, dm)
  BY <1>9 DEF LinkInv
<1> QED
  BY <1>1, <1>7, <1>8, <1>10 DEF Consistent, s

\* A rename begins.  k is the file, and j what the new name leads to.
LEMMA RenameBegins ==
    ASSUME NEW sl, NEW sz, NEW ds, NEW lk, NEW dl, NEW us, NEW rf, NEW bf, NEW nm, NEW dm, NEW dm2,
           NEW cr, NEW n \in Names, NEW m \in Names, n # m, NEW k \in INodes, NEW j, NEW s,
           bf \in [Names -> INodes \union {None}],
           IdleDir(sl, sz, ds, bf, dm, cr), IdleFiles(lk, dl, us, rf, bf, dm),
           k = LookupIn(sl, sz, n), j = LookupIn(sl, sz, m),
           dm \subseteq dm2, dm2 \subseteq dm \union {k}, j \in dm => k \in dm2,
           nm[n] = None, nm[m] = k, \A x \in Names : x # n /\ x # m => nm[x] = bf[x],
           j = None => s = renames(n, m, k),
           j # None => s = Then(Do("remove", m, None), renames(n, m, k))
    PROVE  Consistent(sl, sz, ds, lk, dl, us, rf, s, bf, nm, {}, dm2, cr)
<1> DEFINE both == j # None
<1>1. k # None /\ None \notin INodes
  BY Sizes
<1>2. /\ At(sl, n, sz) # {} /\ (At(sl, m, sz) = {} <=> j = None)
      /\ k \notin dm => bf[n] = k
      /\ bf[n] \notin dm \union {None} => bf[n] = k
      /\ bf[m] \notin dm \union {None} => bf[m] = j
      /\ j \notin dm \union {None} => bf[m] = j
  <2>1. Lists(sl, sz, bf, dm)
    BY DEF IdleDir
  <2>2. /\ k = None <=> At(sl, n, sz) = {}
        /\ bf[n] \notin dm \union {None} => k = bf[n]
        /\ k \notin dm \union {None} => bf[n] = k
    BY <2>1, LookupFinds
  <2>3. /\ j = None <=> At(sl, m, sz) = {}
        /\ bf[m] \notin dm \union {None} => j = bf[m]
        /\ j \notin dm \union {None} => bf[m] = j
    BY <2>1, LookupFinds
  <2> QED
    BY <1>1, <2>2, <2>3
<1>3. \A i \in INodes \ dm : \A x, y \in Names : bf[x] = i /\ bf[y] = i => x = y
  BY DEF IdleFiles, IdleFile
<1>4. bf[m] = k => k \in dm2
  BY <1>2, <1>3
<1>5. bf[n] = bf[m] => bf[n] \in dm2 \union {None}
  <2>1. bf[n] \in INodes \union {None}
    OBVIOUS
  <2> QED
    BY <1>3, <2>1
<1>6. k \notin dm2 /\ both => bf[m] \notin dm2 \union {None}
  <2> SUFFICES ASSUME k \notin dm2, both
               PROVE  bf[m] \notin dm2 \union {None}
    OBVIOUS
  <2>1. j \notin dm \union {None}
    OBVIOUS
  <2> QED
    BY <1>2, <2>1
<1>7. RenameLeaves(s, n, m, k, both) /\ Ordered(s, bf, dm2)
  <2>1. CASE j = None
    <3>1. RenameLeaves(s, n, m, k, FALSE) /\ Ordered(s, bf, dm2)
      BY <2>1, RenameInOrder
    <3> QED
      BY <2>1, <3>1
  <2>2. CASE j # None
    <3>1. RenameLeaves(s, n, m, k, TRUE) /\ Ordered(s, bf, dm2)
      BY <1>4, <1>5, <2>2, ReplaceInOrder
    <3> QED
      BY <2>2, <3>1
  <2> QED
    BY <2>1, <2>2
<1> HIDE DEF both
<1>8. NotLeft(s, "shrink") /\ NotLeft(s, "open") /\ NotLeft(s, "firstLink") /\ NotLeft(s, "unlink")
  BY <1>7 DEF RenameLeaves
<1>9. /\ \A x : LeftNamed(s, "add", x) <=> x = m
      /\ \A i : LeftFor(s, "add", i) <=> i = k
      /\ \A i : LeftFor(s, "link", i) <=> i = k
      /\ \A x : LeftNamed(s, "remove", x) <=> x = n \/ (both /\ x = m)
  BY <1>7 DEF RenameLeaves
<1>10. ~Left(s, "shrink") /\ \A x \in Names : ~LeftNamed(s, "open", x)
  BY <1>8 DEF NotLeft
<1>11. both <=> At(sl, m, sz) # {}
  BY <1>2 DEF both
<1>12. \A x \in Names : \/ Current(s, bf, nm)[x] = bf[x]
                        \/ Current(s, bf, nm)[x] \in dm2 \union {None} /\ At(sl, x, sz) = {}
  <2>1. ASSUME NEW x \in Names, x # n, x # m
        PROVE  Current(s, bf, nm)[x] = bf[x]
    BY <2>1, CurrentOf
  <2>2. Current(s, bf, nm)[n] = bf[n]
    BY <1>9, CurrentOf
  <2>3. Current(s, bf, nm)[m] = bf[m] \/ (Current(s, bf, nm)[m] = None /\ ~both)
    BY <1>9, CurrentOf
  <2> QED
    BY <1>11, <2>1, <2>2, <2>3
<1>13. /\ Extent(sz, s) = sz
       /\ DirInv(sl, sz, ds, s, bf, nm, {}, dm2)
       /\ CountInv(sl, sz, s, cr)
  <2>1. \A x \in Names : LeftNamed(s, "add", x) => At(sl, x, sz) = {} \/ LeftNamed(s, "remove", x)
    BY <1>9, <1>11
  <2> QED
    BY <1>10, <1>12, <2>1, DirCallBegins
<1>14. StepInv(sl, sz, s, bf, nm, dm2)
  <2>1. ASSUME NEW x \in Names
        PROVE  RemoveInv(x, sl, sz, s, bf, nm, dm2)
    <3>1. CASE x = n
      BY <1>2, <1>9, <3>1 DEF RemoveInv
    <3>2. CASE x = m
      BY <1>4, <1>9, <1>11, <3>2 DEF RemoveInv
    <3>3. CASE x # n /\ x # m
      BY <1>9, <3>3 DEF RemoveInv
    <3> QED
      BY <3>1, <3>2, <3>3
  <2>2. ASSUME NEW x \in Names
        PROVE  AddInv(x, sl, sz, s, bf, nm, dm2)
    <3>1. CASE x = m
      <4>1. nm[m] # None /\ LeftFor(s, "add", nm[m]) /\ (bf[m] = nm[m] => nm[m] \in dm2)
        BY <1>1, <1>4, <1>9
      <4>2. nm[m] \notin dm2 => IF LeftNamed(s, "remove", m) THEN bf[m] \notin dm2 \union {None}
                                ELSE At(sl, m, sz) = {}
        BY <1>6, <1>9, <1>11
      <4> QED
        BY <3>1, <4>1, <4>2 DEF AddInv
    <3>2. CASE x # m
      BY <1>9, <3>2 DEF AddInv
    <3> QED
      BY <3>1, <3>2
  <2>3. \A x \in Names : OpenInv(x, sl, sz, s)
    BY <1>10 DEF OpenInv
  <2> QED
    BY <1>13, <2>1, <2>2, <2>3 DEF StepInv
<1>15. ASSUME NEW i \in INodes \ dm2
       PROVE  FileInv(i, lk[i], dl[i], us, rf, s, bf, nm)
  <2>1. IdleFile(i, lk[i], dl[i], us, rf, bf) /\ i \notin dm /\ i # None
    BY <1>1 DEF IdleFiles
  <2>2. ~LeftFor(s, "firstLink", i) /\ ~LeftFor(s, "unlink", i)
    BY <1>8 DEF NotLeft
  <2>3. CASE i = k
    <3>1. bf[n] = i /\ nm[m] = i /\ nm[n] # i
      BY <1>2, <2>1, <2>3
    <3>2. LeftFor(s, "link", i) /\ LeftNamed(s, "remove", n)
      BY <1>9, <2>3
    <3> QED
      BY <2>1, <2>2, <3>1, <3>2, FileRenamed
  <2>4. CASE i # k /\ bf[m] = i
    <3>1. bf[n] # i
      BY <1>2, <2>1, <2>4
    <3>2. both
      BY <1>2, <1>11, <2>1, <2>4
    <3>3. \A x \in Names : nm[x] = i <=> bf[x] = i /\ x # m
      BY <2>1, <2>4, <3>1
    <3>4. ~LeftFor(s, "link", i) /\ LeftNamed(s, "remove", m)
      BY <1>9, <2>4, <3>2
    <3> QED
      BY <2>1, <2>2, <2>4, <3>3, <3>4, FileUnlinked
  <2>5. CASE i # k /\ bf[m] # i
    <3>1. bf[n] # i
      BY <1>2, <2>1, <2>5
    <3>2. \A x \in Names : nm[x] = i <=> bf[x] = i
      BY <2>1, <2>5, <3>1
    <3>3. ~ToUnlink(i, s, bf)
      BY <1>9, <2>2, <2>5, <3>1 DEF ToUnlink
    <3>4. ~LeftFor(s, "link", i)
      BY <1>9, <2>5
    <3> QED
      BY <2>1, <2>2, <3>2, <3>3, <3>4, FileUnchanged
  <2> QED
    BY <2>3, <2>4, <2>5
<1>16. LinkInv(lk, dl, us, rf, s, bf, nm, dm2)
  BY <1>15 DEF LinkInv
<1> QED
  BY <1>7, <1>13, <1>14, <1>16 DEF Consistent

-----------------------------------------------------------------------------
(* The calls.                                                              *)

\* What the invariant says when a call begins.
LEMMA AtIdle ==
    ASSUME Inv, Idle
    PROVE  /\ Types /\ todo = << >> /\ before = names /\ moved = {}
           /\ IdleDir(slots, size, diskSize, names, damaged, crashes)
           /\ IdleFiles(links, diskLinks, used, References, names, damaged)
           /\ Consistent(slots, size, diskSize, links, diskLinks, used, References, << >>,
                         names, names, {}, damaged, crashes)
<1>1. Types /\ todo = << >> /\ before = names /\ moved = {}
  BY DEF Inv, Idle
<1>2. Consistent(slots, size, diskSize, links, diskLinks, used, References, << >>,
                 names, names, {}, damaged, crashes)
  BY <1>1 DEF Inv
<1>3. names \in [Names -> INodes \union {None}]
  BY <1>1 DEF Types
<1> QED
  BY <1>1, <1>2, <1>3, BetweenCalls

\* What a lookup tells between calls.
LEMMA LookupBetweenCalls ==
    ASSUME Inv, Idle, NEW n \in Names
    PROVE  /\ Lookup(n) = LookupIn(slots, size, n)
           /\ Lookup(n) \in INodes \union {None}
           /\ Lookup(n) = None <=> At(slots, n, size) = {}
           /\ names[n] \notin damaged \union {None} => Lookup(n) = names[n]
           /\ Lookup(n) \notin damaged \union {None} => names[n] = Lookup(n)
<1>1. Lists(slots, size, names, damaged)
  BY AtIdle DEF IdleDir
<1> QED
  BY <1>1, LookupIs, LookupFinds

\* Create keeps the invariant.
LEMMA CreateKeeps ==
    ASSUME Inv, NEW n \in Names, NEW i \in INodes, Create(n, i)
    PROVE  Inv'
<1>1. Idle /\ Lookup(n) = None /\ i \notin used
  BY DEF Create
<1>2. /\ Types
      /\ IdleDir(slots, size, diskSize, names, damaged, crashes)
      /\ IdleFiles(links, diskLinks, used, References, names, damaged)
  BY <1>1, AtIdle
<1>3. /\ used' = used \union {i}
      /\ diskLinks' = [diskLinks EXCEPT ![i] = 0]
      /\ before' = names
      /\ names' = [names EXCEPT ![n] = i]
      /\ todo' = createSteps(n, i)
      /\ moved' = {}
      /\ slots' = slots /\ size' = size /\ diskSize' = diskSize /\ links' = links
      /\ fileTable' = fileTable /\ leaked' = leaked /\ damaged' = damaged /\ crashes' = crashes
  BY DEF Create, Begin, memory, history
<1>4. /\ diskLinks \in [INodes -> Int] /\ used \subseteq INodes
      /\ names \in [Names -> INodes \union {None}]
  BY <1>2 DEF Types
<1>5. /\ diskLinks' \in [INodes -> Int] /\ used' \subseteq INodes
      /\ names' \in [Names -> INodes \union {None}]
  <2>1. diskLinks' \in [INodes -> Int]
    BY <1>3, <1>4
  <2> QED
    BY <1>3, <1>4, <2>1
<1>6. Types'
  BY <1>2, <1>3, <1>4, <1>5 DEF Types
<1>7. References' = References
  BY <1>3, SameReferences DEF memory
<1>8. /\ diskLinks'[i] = 0 /\ \A k \in INodes : k # i => diskLinks'[k] = diskLinks[k]
      /\ names'[n] = i /\ \A x \in Names : x # n => names'[x] = names[x]
  BY <1>3, <1>4
<1>9. At(slots, n, size) = {} /\ names[n] \in damaged \union {None}
  <2>1. names[n] \notin damaged \union {None} => names[n] = None
    BY <1>1, LookupBetweenCalls
  <2> QED
    BY <1>1, <2>1, LookupBetweenCalls
<1>10. Consistent(slots, size, diskSize, links, diskLinks', used', References, createSteps(n, i),
                  names, names', {}, damaged, crashes)
  <2>1. used' = used \union {i}
    BY <1>3
  <2> QED
    BY <1>1, <1>2, <1>8, <1>9, <2>1, CreateBegins
<1>11. todo' # << >>
  <2>1. LeftNamed(todo', "add", n)
    BY <1>3, CreateInOrder DEF CreateLeaves
  <2> QED
    BY <2>1, EmptyLeavesNothing DEF NothingLeft
<1> QED
  BY <1>3, <1>6, <1>7, <1>10, <1>11 DEF Inv, Idle

\* The end of a call that has begun to give up a reference to a file.
LEMMA GivesUp ==
    ASSUME Inv, Idle, NEW k \in INodes,
           fileTable' \in [Fds -> INodes \union {None}],
           References' \subseteq References, References \subseteq References' \union {k},
           Begin(names, IputFile(k)),
           UNCHANGED <<slots, size, diskSize, links, diskLinks, used, leaked, history>>
    PROVE  Inv'
<1>1. /\ Types
      /\ IdleDir(slots, size, diskSize, names, damaged, crashes)
      /\ IdleFiles(links, diskLinks, used, References, names, damaged)
  BY AtIdle
<1>2. /\ before' = names /\ names' = names /\ todo' = IputFile(k) /\ moved' = {}
      /\ slots' = slots /\ size' = size /\ diskSize' = diskSize /\ links' = links
      /\ diskLinks' = diskLinks /\ used' = used
      /\ leaked' = leaked /\ damaged' = damaged /\ crashes' = crashes
  BY DEF Begin, history
<1>3. Types'
  BY <1>1, <1>2 DEF Types
<1>4. names \in [Names -> INodes \union {None}]
  BY <1>1 DEF Types
<1>5. Consistent(slots, size, diskSize, links, diskLinks, used, References', IputFile(k),
                 names, names, {}, damaged, crashes)
  BY <1>1, <1>4, IputBegins
<1> QED
  BY <1>2, <1>3, <1>5 DEF Inv

\* GetAttr keeps the invariant.
LEMMA GetAttrKeeps ==
    ASSUME Inv, NEW n \in Names, GetAttr(n)
    PROVE  Inv'
<1>1. Idle /\ Lookup(n) \in damaged /\ Types
  BY AtIdle DEF GetAttr
<1>2. Lookup(n) \in INodes
  BY <1>1 DEF Types
<1>3. fileTable' = fileTable /\ leaked' = leaked
  BY DEF GetAttr, memory
<1>4. References' = References /\ fileTable' \in [Fds -> INodes \union {None}]
  BY <1>1, <1>3, SameReferences DEF memory, Types
<1>5. /\ Begin(names, IputFile(Lookup(n)))
      /\ UNCHANGED <<slots, size, diskSize, links, diskLinks, used, leaked, history>>
  BY <1>3 DEF GetAttr
<1> QED
  BY <1>1, <1>2, <1>4, <1>5, GivesUp

\* Close keeps the invariant.
LEMMA CloseKeeps ==
    ASSUME Inv, NEW fd \in Fds, Close(fd)
    PROVE  Inv'
<1>1. Idle /\ Types
  BY AtIdle DEF Close
<1>2. fileTable \in [Fds -> INodes \union {None}]
  BY <1>1 DEF Types
<1>3. PICK k : k = fileTable[fd]
  OBVIOUS
<1>4. k \in INodes
  BY <1>2, <1>3 DEF Close
<1>5. fileTable' = [fileTable EXCEPT ![fd] = None] /\ leaked' = leaked
  BY DEF Close
<1>6. fileTable' \in [Fds -> INodes \union {None}]
  BY <1>2, <1>5
<1>7. References' \subseteq References
  <2> SUFFICES ASSUME NEW i \in INodes, Referenced(i)'
               PROVE  Referenced(i)
    BY DEF References
  <2>1. i # None
    BY Sizes
  <2> QED
    BY <1>2, <1>5, <2>1 DEF Referenced
<1>8. References \subseteq References' \union {k}
  <2> SUFFICES ASSUME NEW i \in INodes, Referenced(i), i # k
               PROVE  Referenced(i)'
    BY DEF References
  <2> QED
    BY <1>2, <1>3, <1>5 DEF Referenced
<1>9. /\ Begin(names, IputFile(k))
      /\ UNCHANGED <<slots, size, diskSize, links, diskLinks, used, leaked, history>>
  BY <1>3 DEF Close
<1> QED
  BY <1>1, <1>4, <1>6, <1>7, <1>8, <1>9, GivesUp

\* Open keeps the invariant.
LEMMA OpenCallKeeps ==
    ASSUME Inv, NEW n \in Names, Open(n)
    PROVE  Inv'
<1>1. /\ Idle /\ Lookup(n) # None /\ openFile(Lookup(n))
      /\ slots' = slots /\ size' = size /\ diskSize' = diskSize /\ links' = links
      /\ diskLinks' = diskLinks /\ used' = used /\ todo' = todo /\ names' = names
      /\ before' = before /\ moved' = moved /\ damaged' = damaged /\ crashes' = crashes
  BY DEF Open, history
<1>2. /\ Types /\ todo = << >> /\ before = names /\ moved = {}
      /\ Consistent(slots, size, diskSize, links, diskLinks, used, References, << >>,
                    names, names, {}, damaged, crashes)
  BY <1>1, AtIdle
<1>3. PICK k : k = Lookup(n)
  OBVIOUS
<1>4. k \in INodes /\ (k \notin damaged => names[n] = k)
  BY <1>1, <1>3, LookupBetweenCalls
<1>5. /\ fileTable' \in [Fds -> INodes \union {None}]
      /\ leaked' \subseteq INodes
      /\ References' = References \union {k}
  <2>1. fileTable \in [Fds -> INodes \union {None}] /\ leaked \subseteq INodes
    BY <1>2 DEF Types
  <2> QED
    BY <1>1, <1>3, <1>4, <2>1, OpenRefers
<1>6. Types'
  BY <1>1, <1>2, <1>5 DEF Types
<1>7. Consistent(slots, size, diskSize, links, diskLinks, used, References \union {k}, << >>,
                 names, names, {}, damaged, crashes)
  <2> DEFINE s == << >>
  <2>1. NothingLeft(s) /\ LinkInv(links, diskLinks, used, References, s, names, names, damaged)
    BY <1>2, EmptyLeavesNothing DEF Consistent
  <2> HIDE DEF s
  <2>2. LinkInv(links, diskLinks, used, References \union {k}, s, names, names, damaged)
    BY <1>4, <2>1, LinksAfterOpen
  <2> QED
    BY <1>2, <2>2 DEF Consistent, s
<1> QED
  BY <1>1, <1>2, <1>5, <1>6, <1>7 DEF Inv

\* Unlink keeps the invariant.
LEMMA UnlinkCallKeeps ==
    ASSUME Inv, NEW n \in Names, Unlink(n)
    PROVE  Inv'
<1>1. Idle /\ Lookup(n) # None
  BY DEF Unlink
<1>2. /\ Types
      /\ IdleDir(slots, size, diskSize, names, damaged, crashes)
      /\ IdleFiles(links, diskLinks, used, References, names, damaged)
  BY <1>1, AtIdle
<1>3. /\ before' = names
      /\ names' = [names EXCEPT ![n] = None]
      /\ todo' = <<Do("remove", n, None)>> \o IputParent
      /\ moved' = {}
      /\ slots' = slots /\ size' = size /\ diskSize' = diskSize /\ links' = links
      /\ diskLinks' = diskLinks /\ used' = used
      /\ fileTable' = fileTable /\ leaked' = leaked /\ damaged' = damaged /\ crashes' = crashes
  BY DEF Unlink, Begin, memory, history
<1>4. names \in [Names -> INodes \union {None}]
  BY <1>2 DEF Types
<1>5. names' \in [Names -> INodes \union {None}]
  BY <1>3, <1>4
<1>6. Types'
  BY <1>2, <1>3, <1>4, <1>5 DEF Types
<1>7. References' = References
  BY <1>3, SameReferences DEF memory
<1>8. names'[n] = None /\ \A x \in Names : x # n => names'[x] = names[x]
  BY <1>3, <1>4
<1>9. At(slots, n, size) # {}
  BY <1>1, LookupBetweenCalls
<1>10. Consistent(slots, size, diskSize, links, diskLinks, used, References,
                  <<Do("remove", n, None)>> \o IputParent, names, names', {}, damaged, crashes)
  BY <1>2, <1>8, <1>9, UnlinkBegins
<1>11. todo' # << >>
  <2>1. RemovalLeaves(todo', n)
    BY <1>3, RemovalSteps, RemovalInOrder
  <2>2. LeftNamed(todo', "remove", n)
    BY <2>1 DEF RemovalLeaves
  <2> QED
    BY <2>2, EmptyLeavesNothing DEF NothingLeft
<1>12. Consistent(slots, size, diskSize, links, diskLinks, used, References, todo',
                  names, names', {}, damaged, crashes)
  BY <1>3, <1>10, Zenon
<1> QED
  BY <1>3, <1>6, <1>7, <1>11, <1>12 DEF Inv, Idle

\* Rename keeps the invariant.
LEMMA RenameKeeps ==
    ASSUME Inv, NEW n \in Names, NEW m \in Names, Rename(n, m)
    PROVE  Inv'
<1>1. Idle /\ Lookup(n) # None /\ n # m
  BY DEF Rename
<1>2. /\ Types
      /\ IdleDir(slots, size, diskSize, names, damaged, crashes)
      /\ IdleFiles(links, diskLinks, used, References, names, damaged)
  BY <1>1, AtIdle
<1>3. PICK k : k = Lookup(n)
  OBVIOUS
<1>4. PICK j : j = Lookup(m)
  OBVIOUS
<1>5. k \in INodes /\ k = LookupIn(slots, size, n) /\ j = LookupIn(slots, size, m)
  BY <1>1, <1>3, <1>4, LookupBetweenCalls
<1>6. /\ before' = names
      /\ names' = [names EXCEPT ![n] = None, ![m] = k]
      /\ todo' = renameSteps(n, m)
      /\ moved' = {}
      /\ slots' = slots /\ size' = size /\ diskSize' = diskSize /\ links' = links
      /\ diskLinks' = diskLinks /\ used' = used
      /\ fileTable' = fileTable /\ leaked' = leaked /\ crashes' = crashes
  BY <1>3 DEF Rename, Begin, memory
<1>7. damaged' = IF j \in damaged THEN damaged \union {k} ELSE damaged
  BY <1>3, <1>4 DEF Rename
<1>8. names \in [Names -> INodes \union {None}] /\ damaged \subseteq INodes
  BY <1>2 DEF Types
<1>9. names' \in [Names -> INodes \union {None}] /\ damaged' \subseteq INodes
  <2>1. damaged' \subseteq INodes
    BY <1>5, <1>7, <1>8
  <2>2. names' \in [Names -> INodes \union {None}]
    BY <1>5, <1>6, <1>8
  <2> QED
    BY <2>1, <2>2
<1>10. Types'
  BY <1>2, <1>6, <1>8, <1>9 DEF Types
<1>11. References' = References
  BY <1>6, SameReferences DEF memory
<1>12. /\ names'[n] = None /\ names'[m] = k
       /\ \A x \in Names : x # n /\ x # m => names'[x] = names[x]
  BY <1>1, <1>6, <1>8
<1>13. /\ damaged \subseteq damaged' /\ damaged' \subseteq damaged \union {k}
       /\ j \in damaged => k \in damaged'
  BY <1>7
<1>14. /\ j = None => todo' = renames(n, m, k)
       /\ j # None => todo' = Then(Do("remove", m, None), renames(n, m, k))
  <2>1. renameSteps(n, m) = IF j = None THEN renames(n, m, k)
                            ELSE Then(Do("remove", m, None), renames(n, m, k))
    BY <1>3, <1>4, <1>5, RenameSteps
  <2> QED
    BY <1>6, <2>1
<1>15. Consistent(slots, size, diskSize, links, diskLinks, used, References, todo',
                  names, names', {}, damaged', crashes)
  BY <1>1, <1>2, <1>5, <1>8, <1>12, <1>13, <1>14, RenameBegins
<1>16. todo' # << >>
  <2>1. renames(n, m, k) \in Seq(Steps) /\ renames(n, m, k) # << >>
    <3>1. /\ renames(n, m, k) \in Seq(Steps)
          /\ RenameLeaves(renames(n, m, k), n, m, k, FALSE)
      BY <1>1, <1>5, RenameInOrder
    <3>2. LeftNamed(renames(n, m, k), "add", m)
      BY <3>1 DEF RenameLeaves
    <3> QED
      BY <3>1, <3>2, EmptyLeavesNothing DEF NothingLeft
  <2>2. Then(Do("remove", m, None), renames(n, m, k)) # << >>
    <3>1. Do("remove", m, None) \in Steps
      BY DEF Do, Steps, Kinds
    <3> QED
      BY <2>1, <3>1, ThenIsSeq
  <2> QED
    BY <1>14, <2>1, <2>2
<1> QED
  BY <1>6, <1>10, <1>11, <1>15, <1>16 DEF Inv, Idle

-----------------------------------------------------------------------------
(* A crash.                                                                *)

\* Between calls the invariant is no more than what is true then.
LEMMA AllIsWell ==
    ASSUME NEW sl, NEW sz, NEW ds, NEW lk, NEW dl, NEW us, NEW rf, NEW nm, NEW dm, NEW cr,
           nm \in [Names -> INodes \union {None}],
           IdleDir(sl, sz, ds, nm, dm, cr), IdleFiles(lk, dl, us, rf, nm, dm)
    PROVE  Consistent(sl, sz, ds, lk, dl, us, rf, << >>, nm, nm, {}, dm, cr)
<1> DEFINE s == << >>
<1>1. NothingLeft(s) /\ Ordered(s, nm, dm)
  BY EmptyLeavesNothing, EmptyIsOrdered
<1> HIDE DEF s
<1>2. /\ Extent(sz, s) = sz
      /\ DirInv(sl, sz, ds, s, nm, nm, {}, dm)
      /\ CountInv(sl, sz, s, cr)
  <2>1. dm \subseteq dm
    OBVIOUS
  <2>2. ~Left(s, "shrink") /\ \A x \in Names : ~LeftNamed(s, "add", x)
    BY <1>1 DEF NothingLeft
  <2>3. \A x \in Names : Current(s, nm, nm)[x] = nm[x]
    BY CurrentOf
  <2> QED
    BY <2>1, <2>2, <2>3, DirCallBegins
<1>3. StepInv(sl, sz, s, nm, nm, dm)
  BY <1>1, StepsEnd
<1>4. ASSUME NEW i \in INodes \ dm
      PROVE  FileInv(i, lk[i], dl[i], us, rf, s, nm, nm)
  <2>1. IdleFile(i, lk[i], dl[i], us, rf, nm)
    BY DEF IdleFiles
  <2>2. ~LeftFor(s, "firstLink", i) /\ ~LeftFor(s, "link", i) /\ ~LeftFor(s, "unlink", i)
    BY <1>1 DEF NothingLeft
  <2>3. ~ToUnlink(i, s, nm)
    BY <1>1 DEF ToUnlink, NothingLeft
  <2> QED
    BY <2>1, <2>2, <2>3, FileUnchanged
<1>5. LinkInv(lk, dl, us, rf, s, nm, nm, dm)
  BY <1>4 DEF LinkInv
<1> QED
  BY <1>1, <1>2, <1>3, <1>5 DEF Consistent, s

\* These are damaged if the machine stops: what the call is about, and what is
\* open without a name.
Loses(bad, mv, bf, nm, dm, rf, td) ==
    /\ None \notin bad
    /\ \A i \in Changing(mv, bf, nm, dm) : i \in bad \union {None}
    /\ \A i \in rf : Named(i, nm) \/ i \in bad
    /\ \A w, i : LeftFor(td, w, i) => i \in bad \union {None}

\* An entry on the disk is the only one of its name, which leads to its file
\* before and after the call.
SoleEntry(p, sl, ds, bf, nm) ==
    LET y == sl[p].name
    IN  /\ y \in Names
        /\ nm[y] = sl[p].ino /\ bf[y] = sl[p].ino
        /\ At(sl, y, ds) = {p}

\* That is so of the entries of the files that are not damaged.
LEMMA SparedEntry ==
    ASSUME NEW sl, NEW sz, NEW ds, NEW td, NEW bf, NEW nm, NEW mv, NEW dm, NEW rf, NEW bad,
           DirInv(sl, sz, ds, td, bf, nm, mv, dm), ~GaveUp(sz, ds),
           Loses(bad, mv, bf, nm, dm, rf, td),
           NEW p \in Positions, p < ds
    PROVE  sl[p] \in FileEntries /\ (sl[p].ino \notin bad => SoleEntry(p, sl, ds, bf, nm))
<1> DEFINE e  == Extent(sz, td)
           ch == Changing(mv, bf, nm, dm)
           c  == Current(td, bf, nm)
           y  == sl[p].name
           i  == sl[p].ino
<1>1. /\ Lists(sl, e, c, dm) /\ Differ(sl, e, ds, bf, nm, ch, dm)
      /\ e \in Nat /\ ds \in (e - 1)..(e + 1)
  BY DEF DirInv
<1>2. None \notin INodes /\ p \in Int
  BY Sizes
<1>3. /\ \A x \in ch : x \in bad \union {None}
      /\ \A x \in dm : x \in ch
      /\ \A x \in Names : bf[x] # nm[x] => bf[x] \in ch /\ nm[x] \in ch
  BY ChangingHas DEF Loses
<1> HIDE DEF e, ch, c
<1>4. CASE p < e
  <2>1. sl[p] \in FileEntries /\ (i \in dm \/ c[y] = i)
    BY <1>1, <1>4 DEF Lists
  <2>2. y \in Names /\ i \in INodes /\ i # None
    BY <1>2, <2>1 DEF FileEntries
  <2>3. ASSUME i \notin bad
        PROVE  SoleEntry(p, sl, ds, bf, nm)
    <3>1. i \notin dm /\ i \notin ch /\ c[y] = i
      BY <1>3, <2>1, <2>2, <2>3
    <3>2. nm[y] = i /\ bf[y] = i
      <4>1. c[y] = nm[y] \/ c[y] = bf[y] \/ c[y] = None
        BY <2>2, CurrentOf DEF c
      <4>2. bf[y] = nm[y]
        BY <1>3, <2>2, <3>1, <4>1
      <4>3. c[y] = nm[y]
        BY <2>2, <4>2, CurrentOf DEF c
      <4> QED
        BY <3>1, <4>2, <4>3
    <3>3. At(sl, y, e) = {p}
      <4>1. c[y] \notin dm \union {None}
        BY <2>2, <3>1
      <4>2. \E q \in Positions : At(sl, y, e) = {q}
        BY <1>1, <2>2, <4>1 DEF Lists
      <4>3. p \in At(sl, y, e)
        BY <1>4 DEF At
      <4> QED
        BY <4>2, <4>3
    <3>4. ASSUME NEW q \in At(sl, y, ds)
          PROVE  q = p
      <4>1. q \in Positions /\ q < ds /\ sl[q].name = y /\ q \in Int
        BY Sizes DEF At
      <4>2. CASE q < e
        BY <3>3, <4>1, <4>2 DEF At
      <4>3. CASE e <= q
        <5>1. nm[sl[q].name] \in ch
          BY <1>1, <4>1, <4>3 DEF Differ, Excess
        <5> QED
          BY <3>1, <3>2, <4>1, <5>1
      <4> QED
        BY <1>1, <4>1, <4>2, <4>3
    <3>5. p \in At(sl, y, ds)
      BY DEF At
    <3>6. At(sl, y, ds) = {p}
      BY <3>4, <3>5
    <3> QED
      BY <2>2, <3>2, <3>6 DEF SoleEntry
  <2> QED
    BY <2>1, <2>3
<1>5. CASE e <= p
  <2>1. sl[p] \in FileEntries /\ i \in ch
    BY <1>1, <1>5 DEF Differ, Excess
  <2>2. i # None
    BY <1>2, <2>1 DEF FileEntries
  <2> QED
    BY <1>3, <2>1, <2>2
<1> QED
  BY <1>1, <1>2, <1>4, <1>5

\* After the crash the names lead to what is on the disk.
LEMMA DirSurvives ==
    ASSUME NEW sl, NEW sz, NEW ds, NEW td, NEW bf, NEW nm, NEW mv, NEW dm, NEW rf, NEW bad, NEW nm2,
           DirInv(sl, sz, ds, td, bf, nm, mv, dm), ~GaveUp(sz, ds),
           Loses(bad, mv, bf, nm, dm, rf, td),
           \A n \in Names : nm2[n] = LookupIn(sl, ds, n)
    PROVE  Lists(sl, ds, nm2, bad)
<1>1. ASSUME NEW p \in Positions, p < ds
      PROVE  sl[p] \in FileEntries /\ (sl[p].ino \in bad \/ nm2[sl[p].name] = sl[p].ino)
  <2>1. sl[p] \in FileEntries /\ (sl[p].ino \notin bad => SoleEntry(p, sl, ds, bf, nm))
    BY <1>1, SparedEntry
  <2>2. ASSUME SoleEntry(p, sl, ds, bf, nm)
        PROVE  nm2[sl[p].name] = sl[p].ino
    <3>1. sl[p].name \in Names /\ At(sl, sl[p].name, ds) = {p}
      BY <2>2 DEF SoleEntry
    <3>2. FirstAt(sl, sl[p].name, ds) = p
      BY <3>1, FirstIsAt
    <3> QED
      BY <3>1, <3>2 DEF LookupIn
  <2> QED
    BY <2>1, <2>2
<1>2. ASSUME NEW n \in Names, nm2[n] \notin bad \union {None}
      PROVE  \E p \in Positions : At(sl, n, ds) = {p} /\ sl[p].ino = nm2[n]
  <2>1. At(sl, n, ds) # {} /\ nm2[n] = sl[FirstAt(sl, n, ds)].ino
    BY <1>2 DEF LookupIn
  <2>2. PICK p : p = FirstAt(sl, n, ds)
    OBVIOUS
  <2>3. p \in Positions /\ p < ds /\ sl[p].name = n
    BY <2>1, <2>2, FirstIsAt DEF At
  <2>4. SoleEntry(p, sl, ds, bf, nm)
    BY <1>2, <2>1, <2>2, <2>3, SparedEntry
  <2>5. At(sl, n, ds) = {p}
    BY <2>3, <2>4 DEF SoleEntry
  <2> QED
    BY <2>1, <2>2, <2>3, <2>5
<1> QED
  BY <1>1, <1>2 DEF Lists

\* And a name leads to any other file just if it did before.
LEMMA NameSurvives ==
    ASSUME NEW sl, NEW sz, NEW ds, NEW td, NEW bf, NEW nm, NEW mv, NEW dm, NEW rf, NEW bad, NEW nm2,
           DirInv(sl, sz, ds, td, bf, nm, mv, dm), ~GaveUp(sz, ds),
           Loses(bad, mv, bf, nm, dm, rf, td),
           \A n \in Names : nm2[n] = LookupIn(sl, ds, n),
           NEW i \in INodes \ bad, NEW x \in Names
    PROVE  nm2[x] = i <=> nm[x] = i
<1> DEFINE e  == Extent(sz, td)
           ch == Changing(mv, bf, nm, dm)
           c  == Current(td, bf, nm)
<1>1. /\ Lists(sl, e, c, dm) /\ Differ(sl, e, ds, bf, nm, ch, dm)
      /\ e \in Nat /\ ds \in (e - 1)..(e + 1)
  BY DEF DirInv
<1>2. i # None /\ i \notin ch /\ i \notin dm
  BY Sizes, ChangingHas DEF Loses
<1> HIDE DEF e, c
<1>3. ASSUME nm2[x] = i
      PROVE  nm[x] = i
  <2>1. At(sl, x, ds) # {} /\ i = sl[FirstAt(sl, x, ds)].ino
    BY <1>2, <1>3 DEF LookupIn
  <2>2. PICK p : p = FirstAt(sl, x, ds)
    OBVIOUS
  <2>3. p \in Positions /\ p < ds /\ sl[p].name = x /\ sl[p].ino = i
    BY <2>1, <2>2, FirstIsAt DEF At
  <2>4. SoleEntry(p, sl, ds, bf, nm)
    BY <2>3, SparedEntry
  <2> QED
    BY <2>3, <2>4 DEF SoleEntry
<1>4. ASSUME nm[x] = i
      PROVE  nm2[x] = i
  <2>1. bf[x] = nm[x]
    BY <1>2, <1>4, ChangingHas
  <2>2. c[x] = i
    BY <1>4, <2>1, CurrentOf DEF c
  <2>3. PICK p \in Positions : At(sl, x, e) = {p} /\ sl[p].ino = i
    BY <1>1, <1>2, <2>2 DEF Lists
  <2>4. p < e /\ sl[p].name = x /\ p \in Int
    BY <2>3, Sizes DEF At
  <2> HIDE DEF ch
  <2>5. p < ds
    <3>1. ~(ds <= p)
      <4>1. ds <= p => sl[p].ino \in ch
        BY <1>1, <2>4 DEF Differ, Excess
      <4> QED
        BY <1>2, <2>3, <4>1
    <3> QED
      BY <1>1, <2>4, <3>1
  <2>6. SoleEntry(p, sl, ds, bf, nm)
    BY <2>3, <2>5, SparedEntry
  <2>7. At(sl, x, ds) = {p}
    BY <2>4, <2>6 DEF SoleEntry
  <2>8. FirstAt(sl, x, ds) = p
    BY <2>7, FirstIsAt
  <2> QED
    BY <2>3, <2>7, <2>8 DEF LookupIn
<1> QED
  BY <1>3, <1>4

\* Its inode is in use, and linked, just if a name leads to it.
LEMMA FileSurvives ==
    ASSUME NEW sl, NEW sz, NEW ds, NEW lk, NEW dl, NEW us, NEW rf, NEW td, NEW bf, NEW nm, NEW mv,
           NEW dm, NEW bad, NEW nm2, NEW i \in INodes \ bad,
           StepInv(sl, sz, td, bf, nm, dm), Loses(bad, mv, bf, nm, dm, rf, td),
           FileInv(i, lk, dl, us, rf, td, bf, nm),
           \A x \in Names : nm2[x] = i <=> nm[x] = i
    PROVE  IdleFile(i, dl, dl, us, {}, nm2)
<1>1. i # None /\ i \notin Changing(mv, bf, nm, dm) /\ i \notin dm
  BY Sizes, ChangingHas DEF Loses
<1>2. \A x \in Names : bf[x] # nm[x] => bf[x] # i /\ nm[x] # i
  BY <1>1, ChangingHas
<1>3. \A w : ~LeftFor(td, w, i)
  BY <1>1 DEF Loses
<1>4. ~ToUnlink(i, td, bf)
  <2> SUFFICES ASSUME NEW n \in Names, LeftNamed(td, "remove", n), bf[n] = i
               PROVE  FALSE
    BY <1>3 DEF ToUnlink
  <2>1. bf[n] = nm[n] => bf[n] \in dm \union {None}
    BY DEF StepInv, RemoveInv
  <2> QED
    BY <1>1, <1>2, <2>1
<1>5. ~Renamed(i, bf, nm)
  BY <1>2 DEF Renamed
<1>6. Named(i, nm2) <=> Named(i, nm)
  BY DEF Named
<1>7. i \in rf => Named(i, nm)
  BY DEF Loses
<1>8. Named(i, nm) => i \in us /\ dl = 1
  BY <1>5 DEF FileInv, OnDisk
<1>9. i \in us => Named(i, nm)
  BY <1>3, <1>4, <1>7 DEF FileInv
<1>10. dl \in 0..2 /\ \A x, y \in Names : nm[x] = i /\ nm[y] = i => x = y
  BY DEF FileInv
<1> QED
  BY <1>6, <1>8, <1>9, <1>10 DEF IdleFile

\* One entry fewer has at most one name fewer.
LEMMA OneNameLess ==
    ASSUME NEW sl, NEW e \in Nat, NEW leads, NEW dm, Lists(sl, e - 1, leads, dm)
    PROVE  Cardinality(NamesIn(sl, e)) <= Cardinality(NamesIn(sl, e - 1)) + 1
<1> DEFINE S == NamesIn(sl, e - 1)
           T == S \union {sl[e - 1].name}
<1>1. IsFiniteSet(S) /\ Cardinality(S) \in Nat
  BY NamesInFinite
<1>2. NamesIn(sl, e) \subseteq T
  <2>1. \A q \in Positions : q < e => q < e - 1 \/ q = e - 1
    BY Sizes
  <2> QED
    BY <2>1 DEF NamesIn
<1> HIDE DEF S
<1>3. IsFiniteSet(T) /\ Cardinality(T) <= Cardinality(S) + 1 /\ Cardinality(T) \in Nat
  <2>1. /\ IsFiniteSet(T)
        /\ \/ Cardinality(T) = Cardinality(S)
           \/ Cardinality(T) = Cardinality(S) + 1
    BY <1>1, FS_AddElement
  <2> QED
    BY <1>1, <2>1
<1>4. Cardinality(NamesIn(sl, e)) <= Cardinality(T) /\ Cardinality(NamesIn(sl, e)) \in Nat
  <2>1. IsFiniteSet(NamesIn(sl, e)) /\ Cardinality(NamesIn(sl, e)) <= Cardinality(T)
    BY <1>2, <1>3, FS_Subset
  <2> QED
    BY <2>1, FS_CardinalityType
<1> QED
  BY <1>1, <1>3, <1>4 DEF S

\* A crash leaves at most one entry more than there are names.
LEMMA CountSurvives ==
    ASSUME NEW sl, NEW e \in Nat, NEW ds \in Nat, ds \in (e - 1)..(e + 1), NEW td, NEW cr \in Nat,
           NEW c, NEW dm, NEW nm2, NEW bad,
           Lists(sl, e, c, dm), Lists(sl, ds, nm2, bad), CountInv(sl, e, td, cr)
    PROVE  CountInv(sl, ds, << >>, cr + 1)
<1>1. /\ IsFiniteSet(NamesIn(sl, ds)) /\ Cardinality(NamesIn(sl, ds)) \in Nat
      /\ Cardinality(NamesIn(sl, e)) \in Nat
  BY NamesInFinite
<1>2. e <= Cardinality(NamesIn(sl, e)) + cr
  BY <1>1 DEF CountInv, One
<1>3. ds <= Cardinality(NamesIn(sl, ds)) + (cr + 1)
  <2>1. CASE ds = e
    BY <1>1, <1>2, <2>1
  <2>2. CASE ds = e + 1
    <3>1. NamesIn(sl, e) \subseteq NamesIn(sl, ds)
      BY <2>2, Sizes DEF NamesIn
    <3>2. Cardinality(NamesIn(sl, e)) <= Cardinality(NamesIn(sl, ds))
      BY <1>1, <3>1, FS_Subset
    <3> QED
      BY <1>1, <1>2, <2>2, <3>2
  <2>3. CASE ds = e - 1
    <3>1. Cardinality(NamesIn(sl, e)) <= Cardinality(NamesIn(sl, ds)) + 1
      BY <2>3, OneNameLess
    <3> QED
      BY <1>1, <1>2, <2>3, <3>1
  <2> QED
    BY <2>1, <2>2, <2>3
<1>4. ~AddsTwice(sl, ds, << >>)
  BY EmptyLeavesNothing DEF AddsTwice, NothingLeft
<1> QED
  BY <1>1, <1>3, <1>4 DEF CountInv, One

\* The machine stops, after any step of any call but one that freed the last
\* block of the directory.
LEMMA Restarts ==
    ASSUME NEW sl, NEW sz, NEW ds \in Nat, NEW lk, NEW dl, NEW us, NEW rf, NEW td, NEW bf, NEW nm,
           NEW mv, NEW dm, NEW cr \in Nat, NEW bad, NEW nm2,
           Consistent(sl, sz, ds, lk, dl, us, rf, td, bf, nm, mv, dm, cr), ~GaveUp(sz, ds),
           Loses(bad, mv, bf, nm, dm, rf, td),
           nm2 \in [Names -> INodes \union {None}],
           \A n \in Names : nm2[n] = LookupIn(sl, ds, n)
    PROVE  Consistent(sl, ds, ds, dl, dl, us, {}, << >>, nm2, nm2, {}, bad, cr + 1)
<1>1. /\ DirInv(sl, sz, ds, td, bf, nm, mv, dm)
      /\ StepInv(sl, sz, td, bf, nm, dm)
      /\ LinkInv(lk, dl, us, rf, td, bf, nm, dm)
      /\ CountInv(sl, Extent(sz, td), td, cr)
  BY DEF Consistent
<1>2. Lists(sl, ds, nm2, bad)
  BY <1>1, DirSurvives
<1>3. PICK e : e = Extent(sz, td)
  OBVIOUS
<1>4. /\ Lists(sl, e, Current(td, bf, nm), dm) /\ e \in Nat /\ ds \in (e - 1)..(e + 1)
      /\ CountInv(sl, e, td, cr)
  BY <1>1, <1>3 DEF DirInv
<1>5. CountInv(sl, ds, << >>, cr + 1)
  BY <1>2, <1>4, CountSurvives
<1>6. IdleDir(sl, ds, ds, nm2, bad, cr + 1)
  BY <1>2, <1>5 DEF IdleDir
<1>7. ASSUME NEW i \in INodes \ bad
      PROVE  IdleFile(i, dl[i], dl[i], us, {}, nm2)
  <2>1. i \notin dm
    BY Sizes, ChangingHas DEF Loses
  <2>2. FileInv(i, lk[i], dl[i], us, rf, td, bf, nm)
    BY <1>1, <2>1 DEF LinkInv
  <2>3. \A x \in Names : nm2[x] = i <=> nm[x] = i
    BY <1>1, NameSurvives
  <2> QED
    BY <1>1, <2>2, <2>3, FileSurvives
<1>8. IdleFiles(dl, dl, us, {}, nm2, bad)
  BY <1>7 DEF IdleFiles
<1> QED
  BY <1>6, <1>8, AllIsWell

\* Crash keeps the invariant, unless it leaves the directory with a free block.
LEMMA CrashKeeps ==
    ASSUME Inv, Crash, ~ReachesFreeBlock
    PROVE  Inv'
<1>0. ~GaveUp(size, diskSize)
  BY DEF ReachesFreeBlock, GaveUp
<1>1. /\ crashes < MaxCrashes /\ crashes' = crashes + 1
      /\ size' = diskSize /\ links' = diskLinks
      /\ fileTable' = [fd \in Fds |-> None] /\ leaked' = {}
      /\ damaged' = (damaged \union InFlight) \ {None}
      /\ before' = names' /\ todo' = << >> /\ moved' = {}
      /\ slots' = slots /\ diskSize' = diskSize /\ diskLinks' = diskLinks /\ used' = used
  BY DEF Crash
<1>2. Types /\ Consistent(slots, size, diskSize, links, diskLinks, used, References, todo,
                          before, names, moved, damaged, crashes)
  BY DEF Inv
<1>3. /\ diskSize \in Nat /\ crashes \in Nat /\ crashes \in 0..MaxCrashes
      /\ names \in [Names -> INodes \union {None}] /\ before \in [Names -> INodes \union {None}]
      /\ moved \subseteq INodes /\ damaged \subseteq INodes
      /\ MaxSize \in Nat /\ MaxCrashes \in Nat /\ None \notin INodes
  BY <1>2, Sizes DEF Types
<1>4. todo \in Seq(Steps)
  BY <1>2 DEF Consistent, Ordered
<1>5. \A n \in Names : names'[n] = LookupIn(slots, diskSize, n)
  <2> TAKE n \in Names
  <2>1. Holding(n, diskSize) = At(slots, n, diskSize)
    BY LookupIs
  <2>2. names'[n] = IF Holding(n, diskSize) = {} THEN None
                    ELSE slots[CHOOSE p \in Holding(n, diskSize) :
                                  \A q \in Holding(n, diskSize) : p <= q].ino
    BY DEF Crash
  <2> QED
    BY <2>1, <2>2 DEF LookupIn, FirstAt
<1>6. damaged' \subseteq INodes
  <2>1. InFlight \subseteq INodes \union {None}
    <3>1. \A k \in DOMAIN todo : todo[k].ino \in INodes \union {None}
      <4>1. \A k \in DOMAIN todo : todo[k] \in Steps
        BY <1>4
      <4> QED
        BY <4>1 DEF Steps
    <3> QED
      BY <1>3, <3>1 DEF InFlight
  <2> QED
    BY <1>1, <1>3, <2>1
<1>7. Loses(damaged', moved, before, names, damaged, References, todo)
  <2>1. None \notin damaged'
    BY <1>1
  <2>2. \A i \in Changing(moved, before, names, damaged) : i \in damaged' \union {None}
    <3>1. Changing(moved, before, names, damaged) \subseteq damaged \union InFlight \union {None}
      BY DEF Changing, InFlight
    <3> QED
      BY <1>1, <3>1
  <2>3. \A i \in References : Named(i, names) \/ i \in damaged'
    <3> SUFFICES ASSUME NEW i \in INodes, Referenced(i), ~Named(i, names)
                 PROVE  i \in damaged'
      BY DEF References
    <3>1. i \in InFlight
      BY DEF InFlight, Named
    <3> QED
      BY <1>1, <1>3, <3>1
  <2>4. ASSUME NEW w, NEW i, LeftFor(todo, w, i)
        PROVE  i \in damaged' \union {None}
    <3>1. i \in InFlight
      BY <2>4 DEF LeftFor, InFlight
    <3> QED
      BY <1>1, <3>1
  <2> QED
    BY <2>1, <2>2, <2>3, <2>4 DEF Loses
<1>8. names' \in [Names -> INodes \union {None}]
  <2>1. DirInv(slots, size, diskSize, todo, before, names, moved, damaged)
    BY <1>2 DEF Consistent
  <2>2. \A n \in Names : LookupIn(slots, diskSize, n) \in INodes \union {None}
    <3>1. PICK leads : leads = [n \in Names |-> LookupIn(slots, diskSize, n)]
      OBVIOUS
    <3>2. Lists(slots, diskSize, leads, damaged')
      <4>1. \A n \in Names : leads[n] = LookupIn(slots, diskSize, n)
        BY <3>1
      <4> QED
        BY <1>0, <1>7, <2>1, <4>1, DirSurvives
    <3> QED
      BY <3>2, LookupFinds
  <2>3. \A n \in Names : names'[n] \in INodes \union {None}
    BY <1>5, <2>2
  <2>4. names' = [n \in Names |-> names'[n]]
    BY DEF Crash
  <2> QED
    BY <2>3, <2>4
<1>9. Consistent(slots, diskSize, diskSize, diskLinks, diskLinks, used, {}, << >>,
                 names', names', {}, damaged', crashes + 1)
  BY <1>0, <1>2, <1>3, <1>5, <1>7, <1>8, Restarts
<1>10. References' = {}
  BY <1>1, <1>3 DEF References, Referenced
<1>11. crashes' \in 0..MaxCrashes
  BY <1>1, <1>3
<1>12. fileTable' \in [Fds -> INodes \union {None}]
  BY <1>1
<1>13. Types'
  BY <1>1, <1>2, <1>6, <1>8, <1>11, <1>12 DEF Types
<1> QED
  BY <1>1, <1>9, <1>10, <1>13 DEF Inv, Idle

-----------------------------------------------------------------------------
(* The invariant holds.                                                    *)

\* It holds of the empty directory that mkfs leaves.
LEMMA InitInv == Init => Inv
<1> SUFFICES ASSUME Init PROVE Inv
  OBVIOUS
<1>1. /\ size = 0 /\ diskSize = 0 /\ used = {} /\ leaked = {} /\ todo = << >>
      /\ before = names /\ moved = {} /\ damaged = {} /\ crashes = 0
      /\ slots = [p \in Positions |-> NoEntry]
      /\ links = [i \in INodes |-> 0] /\ diskLinks = [i \in INodes |-> 0]
      /\ fileTable = [fd \in Fds |-> None]
      /\ names = [n \in Names |-> None]
  BY DEF Init
<1>2. MaxSize \in Nat /\ MaxCrashes \in Nat /\ None \notin INodes
  BY Sizes
<1>3. names \in [Names -> INodes \union {None}] /\ \A n \in Names : names[n] = None
  BY <1>1
<1>4. Types
  <2>1. links \in [INodes -> Int] /\ diskLinks \in [INodes -> Int]
    BY <1>1
  <2>2. slots \in [Positions -> Entries]
    BY <1>1 DEF Entries
  <2>3. fileTable \in [Fds -> INodes \union {None}]
    BY <1>1
  <2>4. size \in 0..MaxSize /\ diskSize \in 0..MaxSize /\ crashes \in 0..MaxCrashes
    BY <1>1, <1>2
  <2> QED
    BY <1>1, <1>3, <2>1, <2>2, <2>3, <2>4 DEF Types
<1>5. References = {}
  BY <1>1, <1>2 DEF References, Referenced
<1>6. Lists(slots, 0, names, {})
  <2>1. \A p \in Positions : ~(p < 0)
    BY Sizes
  <2> QED
    BY <1>3, <2>1 DEF Lists
<1>7. CountInv(slots, 0, << >>, 0)
  <2>1. Cardinality(NamesIn(slots, 0)) \in Nat
    BY <1>6, NamesInFinite
  <2>2. ~AddsTwice(slots, 0, << >>)
    BY EmptyLeavesNothing DEF AddsTwice, NothingLeft
  <2> QED
    BY <2>1, <2>2 DEF CountInv, One
<1>8. IdleDir(slots, 0, 0, names, {}, 0)
  BY <1>6, <1>7 DEF IdleDir
<1>9. ASSUME NEW i \in INodes
      PROVE  IdleFile(i, links[i], diskLinks[i], {}, {}, names)
  <2>1. links[i] = 0 /\ diskLinks[i] = 0 /\ 0 \in 0..2
    BY <1>1
  <2>2. \A x \in Names : names[x] # i
    BY <1>2, <1>3
  <2> QED
    BY <2>1, <2>2 DEF IdleFile, Named
<1>10. IdleFiles(links, diskLinks, {}, {}, names, {})
  BY <1>9 DEF IdleFiles
<1>11. Consistent(slots, 0, 0, links, diskLinks, {}, {}, << >>, names, names, {}, {}, 0)
  BY <1>3, <1>8, <1>10, AllIsWell
<1> QED
  BY <1>1, <1>4, <1>5, <1>11 DEF Inv

\* It is kept by every step, by every call that begins, and by every crash that
\* does not leave the directory with a free block.
LEMMA NextKeeps == Inv /\ ~ruined' /\ [Next]_vars => Inv'
<1> SUFFICES ASSUME Inv, ~ruined', [Next]_vars
             PROVE  Inv'
  OBVIOUS
<1>1. CASE Step
  BY <1>1, StepKeeps
<1>2. ASSUME NEW n \in Names, NEW i \in INodes, Create(n, i)
      PROVE  Inv'
  BY <1>2, CreateKeeps
<1>3. ASSUME NEW n \in Names, GetAttr(n)
      PROVE  Inv'
  BY <1>3, GetAttrKeeps
<1>4. ASSUME NEW n \in Names, Open(n)
      PROVE  Inv'
  BY <1>4, OpenCallKeeps
<1>5. ASSUME NEW n \in Names, Unlink(n)
      PROVE  Inv'
  BY <1>5, UnlinkCallKeeps
<1>6. ASSUME NEW n \in Names, NEW m \in Names, Rename(n, m)
      PROVE  Inv'
  BY <1>6, RenameKeeps
<1>7. ASSUME NEW fd \in Fds, Close(fd)
      PROVE  Inv'
  BY <1>7, CloseKeeps
<1>8. CASE Crash
  <2>1. ~ReachesFreeBlock
    BY <1>8 DEF Crash
  <2> QED
    BY <1>8, <2>1, CrashKeeps
<1>9. CASE UNCHANGED vars
  <2>1. /\ slots' = slots /\ size' = size /\ diskSize' = diskSize /\ links' = links
        /\ diskLinks' = diskLinks /\ used' = used /\ fileTable' = fileTable /\ leaked' = leaked
        /\ todo' = todo /\ names' = names /\ before' = before /\ moved' = moved
        /\ damaged' = damaged /\ crashes' = crashes
    BY <1>9 DEF vars, memory, history
  <2>2. References' = References
    BY <2>1, SameReferences DEF memory
  <2> QED
    BY <2>1, <2>2 DEF Inv, Types, Idle
<1> QED
  BY <1>1, <1>2, <1>3, <1>4, <1>5, <1>6, <1>7, <1>8, <1>9 DEF Next

\* Nothing mends a directory that a crash left with a free block.
LEMMA RuinedForGood == ruined /\ [Next]_vars => ruined'
<1> SUFFICES ASSUME ruined, [Next]_vars
             PROVE  ruined'
  OBVIOUS
<1>1. CASE Crash
  BY <1>1 DEF Crash
<1>2. CASE UNCHANGED vars
  BY <1>2 DEF vars, history
<1>3. CASE Step
  BY <1>3 DEF Step, history
<1>4. ASSUME NEW n \in Names, NEW i \in INodes, Create(n, i)
      PROVE  ruined'
  BY <1>4 DEF Create, history
<1>5. ASSUME NEW n \in Names, GetAttr(n) \/ Open(n) \/ Unlink(n)
      PROVE  ruined'
  BY <1>5 DEF GetAttr, Open, Unlink, history
<1>6. ASSUME NEW n \in Names, NEW m \in Names, Rename(n, m)
      PROVE  ruined'
  BY <1>6 DEF Rename
<1>7. ASSUME NEW fd \in Fds, Close(fd)
      PROVE  ruined'
  BY <1>7 DEF Close, history
<1> QED
  BY <1>1, <1>2, <1>3, <1>4, <1>5, <1>6, <1>7 DEF Next

\* The inductive invariant holds in every reachable state that does not come
\* after such a crash.
THEOREM InvAlways == Spec => [](ruined \/ Inv)
<1>1. Init => ruined \/ Inv
  BY InitInv
<1>2. (ruined \/ Inv) /\ [Next]_vars => (ruined \/ Inv)'
  BY NextKeeps, RuinedForGood
<1> QED
  BY <1>1, <1>2, PTL DEF Spec

-----------------------------------------------------------------------------
(* What follows from it.                                                   *)

\* Every variable keeps its type, and the entries never outgrow the positions
\* there are for them: a crash costs at most one.  This, like the theorems that
\* follow, says nothing of a directory that a crash left with a free block.
THEOREM TypeCorrect == Spec => []TypeOK
<1>1. ASSUME Inv PROVE TypeOK
  <2>1. Types /\ LinkInv(links, diskLinks, used, References, todo, before, names, damaged)
    BY <1>1 DEF Inv, Consistent
  <2>2. \A i \in INodes \ damaged : links[i] \in 0..2 /\ diskLinks[i] \in 0..2
    BY <2>1 DEF LinkInv, FileInv
  <2> QED
    BY <2>1, <2>2 DEF Types, TypeOK
<1>2. ASSUME ruined PROVE TypeOK
  BY <1>2 DEF TypeOK
<1> QED
  BY <1>1, <1>2, InvAlways, PTL

\* Between calls a lookup finds each file under its name and nothing else, in
\* memory and on the disk, whatever was renamed, unlinked or lost in a crash:
\* what addDirectoryEntry and a search with forUnlink set leave in the
\* directory is what the names say.
THEOREM LookupIsExact == Spec => []LookupExact
<1>1. ASSUME Inv PROVE LookupExact
  <2> SUFFICES ASSUME Idle
               PROVE  /\ diskSize = size
                      /\ \A n \in Names :
                            IF names[n] = None THEN \A p \in Holding(n, size) : slots[p].ino \in damaged
                            ELSE \/ names[n] \in damaged
                                 \/ \E p \in Positions : /\ Holding(n, size) = {p}
                                                         /\ slots[p].ino = names[n]
    BY DEF LookupExact
  <2>1. diskSize = size /\ Lists(slots, size, names, damaged)
    BY <1>1, AtIdle DEF IdleDir
  <2>2. ASSUME NEW n \in Names
        PROVE  Holding(n, size) = At(slots, n, size)
    BY LookupIs
  <2>3. ASSUME NEW n \in Names, names[n] = None, NEW p \in Holding(n, size)
        PROVE  slots[p].ino \in damaged
    <3>1. p \in Positions /\ p < size /\ slots[p].name = n
      BY DEF Holding
    <3>2. slots[p] \in FileEntries /\ (slots[p].ino \in damaged \/ names[n] = slots[p].ino)
      BY <2>1, <3>1 DEF Lists
    <3>3. slots[p].ino # None
      BY <3>2, Sizes DEF FileEntries
    <3> QED
      BY <2>3, <3>2, <3>3
  <2>4. ASSUME NEW n \in Names, names[n] # None, names[n] \notin damaged
        PROVE  \E p \in Positions : Holding(n, size) = {p} /\ slots[p].ino = names[n]
    <3>1. \E p \in Positions : At(slots, n, size) = {p} /\ slots[p].ino = names[n]
      BY <2>1, <2>4 DEF Lists
    <3> QED
      BY <2>2, <3>1
  <2> QED
    BY <2>1, <2>3, <2>4
<1>2. ASSUME ruined PROVE LookupExact
  BY <1>2 DEF LookupExact
<1> QED
  BY <1>1, <1>2, InvAlways, PTL

\* An open file's inode is never freed, and between calls an inode is in use
\* just if a name or an open file leads to it: iput frees it when the last of
\* them goes, and not before.
THEOREM InUseExactlyIfReachable == Spec => []InUseIfReachable
<1>1. ASSUME Inv PROVE InUseIfReachable
  <2>1. ASSUME NEW i \in INodes \ damaged, Referenced(i)
        PROVE  i \in used
    <3>1. FileInv(i, links[i], diskLinks[i], used, References, todo, before, names)
      BY <1>1 DEF Inv, Consistent, LinkInv
    <3>2. i \in References
      BY <2>1 DEF References
    <3> QED
      BY <3>1, <3>2 DEF FileInv
  <2>2. ASSUME Idle
        PROVE  used \ damaged =
                   {i \in INodes : Referenced(i) \/ \E n \in Names : names[n] = i} \ damaged
    <3>1. used \subseteq INodes
      BY <1>1 DEF Inv, Types
    <3>2. ASSUME NEW i \in INodes \ damaged
          PROVE  i \in used <=> Referenced(i) \/ \E n \in Names : names[n] = i
      <4>1. IdleFile(i, links[i], diskLinks[i], used, References, names)
        BY <1>1, <2>2, AtIdle DEF IdleFiles
      <4>2. i \in References <=> Referenced(i)
        BY DEF References
      <4> QED
        BY <4>1, <4>2 DEF IdleFile, Named
    <3> QED
      BY <3>1, <3>2
  <2> QED
    BY <2>1, <2>2 DEF InUseIfReachable
<1>2. ASSUME ruined PROVE InUseIfReachable
  BY <1>2 DEF InUseIfReachable
<1> QED
  BY <1>1, <1>2, InvAlways, PTL

\* If the machine stopped now, after any write of any call but the freeing of the
\* directory's last block, every file the call is not about would still be found
\* under its name on the disk, and its inode be in use and linked: the order in
\* which addDirectoryEntry, a search with forUnlink set, iput and the parent's
\* iput write keeps the others safe.
THEOREM CrashSparesTheOthers == Spec => []CrashSparesOthers
<1>1. ASSUME Inv PROVE CrashSparesOthers
  <2> SUFFICES ASSUME ~ReachesFreeBlock,
                      NEW n \in Names, before[n] = names[n], names[n] \notin damaged
               PROVE  /\ \A p \in Holding(n, diskSize) : slots[p].ino \in damaged \union {names[n]}
                      /\ names[n] # None =>
                            /\ \E p \in Holding(n, diskSize) : slots[p].ino = names[n]
                            /\ names[n] \in used /\ diskLinks[names[n]] > 0
    BY DEF CrashSparesOthers
  <2> DEFINE e  == Extent(size, todo)
             ch == Changing(moved, before, names, damaged)
             c  == Current(todo, before, names)
  <2>1. /\ Lists(slots, e, c, damaged)
        /\ Differ(slots, e, diskSize, before, names, ch, damaged)
        /\ e \in Nat /\ diskSize \in (e - 1)..(e + 1)
    BY <1>1 DEF Inv, Consistent, DirInv, GaveUp, ReachesFreeBlock
  <2>2. c[n] = names[n]
    BY CurrentOf
  <2> HIDE DEF e, ch, c
  <2>3. \A p \in Positions : p \in Int
    BY Sizes
  <2>4. ASSUME NEW p \in Holding(n, diskSize)
        PROVE  slots[p].ino \in damaged \union {names[n]}
    <3>1. p \in Positions /\ p < diskSize /\ slots[p].name = n
      BY DEF Holding
    <3>2. CASE p < e
      BY <2>1, <2>2, <3>1, <3>2 DEF Lists
    <3>3. CASE e <= p
      BY <2>1, <3>1, <3>3 DEF Differ, Excess
    <3> QED
      BY <2>1, <2>3, <3>1, <3>2, <3>3
  <2>5. ASSUME names[n] # None
        PROVE  \E p \in Holding(n, diskSize) : slots[p].ino = names[n]
    <3>1. PICK p \in Positions : At(slots, n, e) = {p} /\ slots[p].ino = names[n]
      BY <2>1, <2>2, <2>5 DEF Lists
    <3>2. p < e /\ slots[p].name = n
      BY <3>1 DEF At
    <3>3. ~(diskSize <= p)
      <4>1. diskSize <= p => p < diskSize
        BY <2>1, <3>2 DEF Differ, Excess
      <4> QED
        BY <2>1, <2>3, <4>1
    <3>4. p < diskSize
      BY <2>1, <2>3, <3>3
    <3> QED
      BY <3>1, <3>2, <3>4 DEF Holding
  <2>6. ASSUME names[n] # None
        PROVE  names[n] \in used /\ diskLinks[names[n]] > 0
    <3>1. PICK i : i = names[n]
      OBVIOUS
    <3>2. i \in INodes \ damaged
      BY <1>1, <2>6, <3>1 DEF Inv, Types
    <3>3. FileInv(i, links[i], diskLinks[i], used, References, todo, before, names)
      BY <1>1, <3>2 DEF Inv, Consistent, LinkInv
    <3>4. Named(i, names)
      BY <3>1 DEF Named
    <3>5. ~Renamed(i, before, names)
      <4>1. \A x \in Names : names[x] = i => x = n
        BY <3>1, <3>3 DEF FileInv
      <4> QED
        BY <3>1, <4>1 DEF Renamed
    <3>6. i \in used /\ diskLinks[i] = 1
      BY <3>3, <3>4, <3>5 DEF FileInv, OnDisk
    <3> QED
      BY <3>1, <3>6
  <2> QED
    BY <2>4, <2>5, <2>6
<1>2. ASSUME ruined PROVE CrashSparesOthers
  BY <1>2 DEF CrashSparesOthers
<1> QED
  BY <1>1, <1>2, InvAlways, PTL

=============================================================================
