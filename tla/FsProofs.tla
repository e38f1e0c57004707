------------------------------ MODULE FsProofs ------------------------------
(***************************************************************************)
(* Proofs about Inode and Fs for any disk, any size of cache and tables,   *)
(* any processes and any paths.  The operators of Inode are shown to keep  *)
(* a good cache good and never to give a reference back; namei by          *)
(* induction along the path.  The inductive invariant of Fs joins that     *)
(* with an exact account of who names which file.                          *)
(*                                                                         *)
(* The second half proves that Fs implements FdSpec: that namei leads      *)
(* where the walk over the disk does, that readi returns the contents, and *)
(* that every system call is a step of the abstraction or changes nothing. *)
(***************************************************************************)
EXTENDS FsDescriptors, Induction, FiniteSetTheorems, FunctionTheorems, SequenceTheorems

\* Least is the least element of a set of naturals that is not empty.
LEMMA LeastProps ==
    ASSUME NEW S \in SUBSET Nat, S # {}
    PROVE  Least(S) \in S /\ \A k \in S : Least(S) <= k
<1>1. \E m \in S : \A k \in S : m <= k
  BY LeastExists
<1> QED
  BY <1>1 DEF Least

-----------------------------------------------------------------------------
(* The inode cache                                                          *)

\* A slot that was never taken is blank, one that is taken has an inode of its own,
\* and what it says of it comes from the disk.
CacheGood(ic) ==
    /\ ic \in [Slots -> CacheSlots]
    /\ \A i, j \in Slots :
          ic[i].ref > 0 /\ ic[j].ref > 0 /\ ic[i].inum = ic[j].inum => i = j
    /\ \A i \in Slots :
          /\ ic[i].ref = 0 => ic[i] = EmptySlot
          /\ ic[i].ref > 0 => ic[i].inum \in Inums
          /\ ~ic[i].valid => ic[i].type = "T_NONE"
          /\ ic[i].valid =>
               /\ bdev_ok(inode_blockno(ic[i].inum))
               /\ ic[i].type = dinode(ic[i].inum).type
               /\ ic[i].size = dinode(ic[i].inum).size
               /\ ic[i].addrs = dinode(ic[i].inum).addrs

\* No reference is given back and no taken slot goes to another inode.
Grown(old, new) ==
    \A i \in Slots :
      /\ old[i].ref <= new[i].ref
      /\ old[i].ref > 0 => new[i].inum = old[i].inum

\* What the operators of Inode return: a cache and a slot of it, or NULL.
Places == [ic : [Slots -> CacheSlots], ip : Slots \union {NULL}]

\* at is a cache that has grown from old, and a slot in it with a reference more.
Taken(old, at) ==
    /\ at \in Places
    /\ CacheGood(at.ic)
    /\ Grown(old, at.ic)
    /\ at.ip \in Slots => old[at.ip].ref < at.ic[at.ip].ref

\* A place is taken once its parts are as they should be.
LEMMA TakenPlace ==
    ASSUME NEW old, NEW new, CacheGood(new), Grown(old, new),
           NEW ip \in Slots \union {NULL}, ip \in Slots => old[ip].ref < new[ip].ref
    PROVE  Taken(old, [ic |-> new, ip |-> ip])
BY DEF Taken, Places, CacheGood

RootCached(ic) == \E i \in Slots : ic[i].ref > 0 /\ ic[i].inum = ROOT_INO

\* The slots are numbers, so none of them is NULL.
LEMMA SlotsProps == Slots \in SUBSET Nat /\ NULL \notin Slots
<1>1. NINODE \in Nat \ {0} /\ NULL \notin Nat
  BY FsAssumption
<1> QED
  BY <1>1 DEF Slots

\* Growing is transitive, and nothing has grown from itself.
LEMMA GrownTransitive ==
    ASSUME NEW a \in [Slots -> CacheSlots], NEW b \in [Slots -> CacheSlots],
           NEW c \in [Slots -> CacheSlots]
    PROVE  /\ Grown(a, a)
           /\ Grown(a, b) /\ Grown(b, c) => Grown(a, c)
<1>1. \A i \in Slots : a[i].ref \in Nat /\ b[i].ref \in Nat /\ c[i].ref \in Nat
  BY DEF CacheSlots
<1> QED
  BY <1>1 DEF Grown

\* A cache that has the root keeps it.
LEMMA RootStays ==
    ASSUME NEW a \in [Slots -> CacheSlots], NEW b \in [Slots -> CacheSlots],
           RootCached(a), Grown(a, b)
    PROVE  RootCached(b)
<1>1. \A i \in Slots : a[i].ref \in Nat /\ b[i].ref \in Nat
  BY DEF CacheSlots
<1> QED
  BY <1>1 DEF Grown, RootCached

\* iget takes a slot that has the inode, or a free one, or none when none is free.
LEMMA IgetTakes ==
    ASSUME NEW ic, CacheGood(ic), NEW inum \in Inums
    PROVE  LET got == iget(ic, inum)
           IN  /\ Taken(ic, got)
               /\ got.ip \in Slots => got.ic[got.ip].inum = inum
               /\ (\E i \in Slots : ic[i].ref > 0 /\ ic[i].inum = inum) => got.ip \in Slots
<1> DEFINE hits == {i \in Slots : ic[i].ref > 0 /\ ic[i].inum = inum}
           empty == {i \in Slots : ic[i].ref = 0}
           got == iget(ic, inum)
<1>1. hits \in SUBSET Nat /\ empty \in SUBSET Nat
  BY SlotsProps
<1>2. \A i \in Slots : ic[i] \in CacheSlots /\ ic[i].ref \in Nat
  BY DEF CacheGood, CacheSlots
<1>3. CASE hits # {}
  <2> DEFINE h == Least(hits)
             new == [ic EXCEPT ![h].ref = @ + 1]
  <2>1. h \in Slots /\ ic[h].ref > 0 /\ ic[h].inum = inum
    BY <1>1, <1>3, LeastProps
  <2>2. got = [ic |-> new, ip |-> h]
    BY <1>3 DEF iget
  <2> HIDE DEF h
  <2>3. new \in [Slots -> CacheSlots]
    BY <2>1, <1>2 DEF CacheGood, CacheSlots
  <2>4. \A i \in Slots : i # h => new[i] = ic[i]
    BY DEF CacheGood
  <2>5. /\ new[h].ref = ic[h].ref + 1 /\ new[h].inum = ic[h].inum /\ new[h].valid = ic[h].valid
        /\ new[h].type = ic[h].type /\ new[h].size = ic[h].size /\ new[h].addrs = ic[h].addrs
    BY <2>1, <1>2 DEF CacheGood, CacheSlots
  <2> HIDE DEF new
  <2>6. \A i \in Slots : /\ new[i].inum = ic[i].inum /\ ic[i].ref <= new[i].ref
                         /\ new[i].ref \in Nat /\ (new[i].ref > 0 <=> ic[i].ref > 0)
    BY <2>4, <2>5, <2>1, <1>2
  <2>7. CacheGood(new)
    BY <2>3, <2>4, <2>5, <2>6, <2>1, <1>2 DEF CacheGood
  <2>8. Grown(ic, new)
    BY <2>6 DEF Grown
  <2> QED
    BY <2>1, <2>2, <2>5, <2>7, <2>8, <1>2, TakenPlace
<1>4. CASE hits = {} /\ empty # {}
  <2> DEFINE e == Least(empty)
             new == [ic EXCEPT ![e] = [@ EXCEPT !.inum = inum, !.ref = 1, !.valid = FALSE]]
  <2>1. e \in Slots /\ ic[e].ref = 0
    BY <1>1, <1>4, LeastProps
  <2>2. got = [ic |-> new, ip |-> e]
    BY <1>4 DEF iget
  <2> HIDE DEF e
  <2>3. new \in [Slots -> CacheSlots]
    <3>1. [ic[e] EXCEPT !.inum = inum, !.ref = 1, !.valid = FALSE] \in CacheSlots
      BY <2>1, <1>2 DEF CacheSlots
    <3> QED
      BY <3>1, <2>1 DEF CacheGood
  <2>4. \A i \in Slots : i # e => new[i] = ic[i]
    BY DEF CacheGood
  <2>5. ic[e] = EmptySlot
    BY <2>1 DEF CacheGood
  <2>6. new[e].ref = 1 /\ new[e].inum = inum /\ new[e].valid = FALSE /\ new[e].type = "T_NONE"
    BY <2>1, <2>5, <1>2 DEF CacheGood, CacheSlots, EmptySlot
  <2> HIDE DEF new
  <2>7. \A i \in Slots : ic[i].ref > 0 => ic[i].inum # inum
    BY <1>4
  <2>8. CacheGood(new)
    BY <2>3, <2>4, <2>6, <2>7, <2>1, <1>2 DEF CacheGood
  <2>9. Grown(ic, new)
    BY <2>4, <2>6, <2>1, <1>2 DEF Grown
  <2> QED
    BY <2>1, <2>2, <2>6, <2>8, <2>9, <1>4, TakenPlace
<1>5. CASE hits = {} /\ empty = {}
  <2>1. got = [ic |-> ic, ip |-> NULL]
    BY <1>5 DEF iget
  <2>2. Grown(ic, ic)
    BY GrownTransitive DEF CacheGood
  <2> QED
    BY <2>1, <2>2, <1>5, SlotsProps, TakenPlace
<1> QED
  BY <1>3, <1>4, <1>5

\* ilock fills a slot and touches no reference.
LEMMA IlockFills ==
    ASSUME NEW ic, CacheGood(ic), NEW ip \in Slots \union {NULL},
           ip \in Slots => ic[ip].ref > 0
    PROVE  /\ CacheGood(ilock(ic, ip))
           /\ \A i \in Slots : /\ ilock(ic, ip)[i].ref = ic[i].ref
                               /\ ilock(ic, ip)[i].inum = ic[i].inum
<1> DEFINE dip == dinode(ic[ip].inum)
           new == [ic EXCEPT ![ip] = [@ EXCEPT !.type = dip.type, !.size = dip.size,
                                               !.addrs = dip.addrs, !.valid = TRUE]]
<1>1. CASE ilock(ic, ip) = ic
  BY <1>1
<1>2. CASE /\ ip # NULL /\ ~ic[ip].valid /\ bdev_ok(inode_blockno(ic[ip].inum))
  <2>1. ip \in Slots /\ ic[ip] \in CacheSlots /\ ic[ip].ref > 0
    BY <1>2 DEF CacheGood
  <2>2. ilock(ic, ip) = new
    BY <1>2 DEF ilock
  <2>3. ic[ip].inum \in Inums
    BY <2>1 DEF CacheGood
  <2>4. dip \in Dinodes
    BY <2>3, <1>2, DiskAssumption
  <2> HIDE DEF dip
  <2>5. [ic[ip] EXCEPT !.type = dip.type, !.size = dip.size,
                       !.addrs = dip.addrs, !.valid = TRUE] \in CacheSlots
    BY <2>1, <2>4 DEF CacheSlots, Dinodes
  <2>6. new \in [Slots -> CacheSlots]
    BY <2>1, <2>5 DEF CacheGood
  <2>7. \A i \in Slots : i # ip => new[i] = ic[i]
    BY DEF CacheGood
  <2>8. /\ new[ip].ref = ic[ip].ref /\ new[ip].inum = ic[ip].inum /\ new[ip].valid = TRUE
        /\ new[ip].type = dip.type /\ new[ip].size = dip.size /\ new[ip].addrs = dip.addrs
    BY <2>1 DEF CacheGood, CacheSlots
  <2> HIDE DEF new
  <2>9. \A i \in Slots : new[i].ref = ic[i].ref /\ new[i].inum = ic[i].inum
    BY <2>7, <2>8
  <2>10. CacheGood(new)
    BY <2>1, <2>3, <2>6, <2>7, <2>8, <2>9, <1>2 DEF CacheGood, dip
  <2> QED
    BY <2>2, <2>9, <2>10
<1> QED
  BY <1>1, <1>2 DEF ilock

\* readi returns -1 or the number of cells it copied, at most as many as were asked
\* for; and what it returns of one cell below the size is that cell.
LEMMA ReadiProps ==
    ASSUME NEW inode \in CacheSlots, NEW off \in Nat, NEW n \in Nat
    PROVE  LET got == readi(inode, off, n)
           IN  /\ got.r \in -1 .. n
               /\ got.r = -1 <=> inode.type = "T_NONE"
               /\ got.r > 0 => off + got.r <= inode.size
               /\ got.r = 1 => got.data[1] = Cell(inode, off) /\ Readable(inode, off)
<1> DEFINE want == IF off > inode.size THEN 0
                   ELSE IF off + n > inode.size THEN inode.size - off ELSE n
           S == {k \in 0 .. want : k = want \/ ~Readable(inode, off + k)}
           tot == Least(S)
           data == [k \in 1 .. tot |-> Cell(inode, off + k - 1)]
<1>1. inode.size \in Nat
  BY DEF CacheSlots
<1>2. want \in 0 .. n /\ (want > 0 => off + want <= inode.size)
  BY <1>1
<1> HIDE DEF want
<1>3. S \in SUBSET Nat /\ want \in S
  BY <1>2
<1>4. tot \in S /\ \A k \in S : tot <= k
  BY <1>3, LeastProps
<1>5. tot \in 0 .. n /\ tot <= want
  BY <1>2, <1>4
<1>6. tot = 1 => Readable(inode, off)
  <2>1. tot = 1 => 0 \notin S /\ 0 \in 0 .. want
    BY <1>4, <1>2
  <2> QED
    BY <2>1, <1>1
<1> HIDE DEF S, tot
<1>7. tot = 1 => data[1] = Cell(inode, off)
  BY <1>5
<1> HIDE DEF data
<1>8. readi(inode, off, n) = IF inode.type = "T_NONE" THEN [r |-> -1, data |-> <<>>]
                             ELSE [r |-> tot, data |-> data]
  BY DEF readi, want, S, tot, data
<1> QED
  BY <1>1, <1>2, <1>5, <1>6, <1>7, <1>8

\* What a readable dirent of a cached directory names is an inode.
LEMMA DirentInum ==
    ASSUME NEW ic, CacheGood(ic), NEW dp \in Slots, ic[dp].type = "T_DIR",
           NEW off \in 0 .. ic[dp].size - 1, Readable(ic[dp], off)
    PROVE  Cell(ic[dp], off).inum \in Inums \union {0}
<1> DEFINE dip == dinode(ic[dp].inum)
<1>1. ic[dp] \in CacheSlots
  BY DEF CacheGood
<1>2. ic[dp].valid
  BY DEF CacheGood
<1>3. ic[dp].ref # 0
  BY <1>2 DEF CacheGood, EmptySlot
<1>4. ic[dp].inum \in Inums
  BY <1>1, <1>3 DEF CacheGood, CacheSlots
<1>5. bdev_ok(inode_blockno(ic[dp].inum)) /\ dip.type = "T_DIR"
      /\ dip.size = ic[dp].size /\ dip.addrs = ic[dp].addrs
  BY <1>2 DEF CacheGood
<1> HIDE DEF dip
<1>6. Readable(dip, off) /\ Cell(dip, off) = Cell(ic[dp], off)
  BY <1>5 DEF Readable, Cell, bmap
<1> QED
  BY <1>4, <1>5, <1>6, DiskAssumption DEF dip

\* A search of a directory that finds the name takes a reference on what it found.
LEMMA DirlookupTakes ==
    ASSUME NEW ic, CacheGood(ic), NEW dp \in Slots, NEW name
    PROVE  Taken(ic, dirlookup(ic, dp, name))
<1> DEFINE read(off) == readi(ic[dp], off, 1)
           stop(r) == r.r # 1 \/ (r.data[1].inum # 0 /\ r.data[1].name = name)
           stops == {off \in 0 .. ic[dp].size - 1 : \E r \in {read(off)} : stop(r)}
           off1 == Least(stops)
<1>1. ic[dp] \in CacheSlots /\ ic[dp].size \in Nat
  BY DEF CacheGood, CacheSlots
<1>2. Taken(ic, [ic |-> ic, ip |-> NULL])
  BY GrownTransitive, SlotsProps DEF Taken, Places, CacheGood
<1>3. CASE ic[dp].type # "T_DIR" \/ stops = {}
  <2>1. dirlookup(ic, dp, name) = [ic |-> ic, ip |-> NULL]
    BY <1>3 DEF dirlookup
  <2> QED
    BY <1>2, <2>1
<1>4. CASE ic[dp].type = "T_DIR" /\ stops # {}
  <2>1. dirlookup(ic, dp, name) = IF read(off1).r # 1 THEN [ic |-> ic, ip |-> NULL]
                                  ELSE iget(ic, read(off1).data[1].inum)
    BY <1>4 DEF dirlookup
  <2>2. CASE read(off1).r # 1
    BY <2>1, <2>2, <1>2
  <2>3. CASE read(off1).r = 1
    <3>1. stops \in SUBSET Nat
      OBVIOUS
    <3>2. off1 \in stops
      BY <3>1, <1>4, LeastProps
    <3> HIDE DEF off1
    <3>3. off1 \in 0 .. ic[dp].size - 1 /\ off1 \in Nat /\ read(off1).data[1].inum # 0
      BY <3>2, <2>3
    <3>4. read(off1).data[1] = Cell(ic[dp], off1) /\ Readable(ic[dp], off1)
      BY <3>3, <1>1, <2>3, ReadiProps
    <3>5. read(off1).data[1].inum \in Inums
      BY <3>3, <3>4, <1>4, DirentInum
    <3> HIDE DEF read
    <3> QED
      BY <3>5, <2>1, <2>3, IgetTakes
  <2> QED
    BY <2>2, <2>3
<1> QED
  BY <1>3, <1>4

\* Taking a reference is transitive: a reference more than before growing is one more
\* than ever before.
LEMMA TakenTransitive ==
    ASSUME NEW a \in [Slots -> CacheSlots], NEW b \in [Slots -> CacheSlots],
           Grown(a, b), NEW at, Taken(b, at)
    PROVE  Taken(a, at)
<1>1. \A i \in Slots : a[i].ref \in Nat /\ b[i].ref \in Nat /\ at.ic[i].ref \in Nat
  BY DEF CacheSlots, CacheGood, Taken, Places
<1> QED
  BY <1>1, GrownTransitive DEF Taken, Places, CacheGood, Grown

\* One turn of namei's loop.
LEMMA NameiStepTakes ==
    ASSUME NEW old \in [Slots -> CacheSlots], NEW at, Taken(old, at), NEW name
    PROVE  /\ Taken(old, NameiStep(at, name))
           /\ Grown(at.ic, NameiStep(at, name).ic)
           /\ at.ip = NULL => NameiStep(at, name).ip = NULL
<1>1. CASE at.ip = NULL
  <2>1. NameiStep(at, name) = at
    BY <1>1 DEF NameiStep
  <2> QED
    BY <2>1, <1>1, GrownTransitive DEF Taken, Places, CacheGood
<1>2. CASE at.ip \in Slots
  <2> DEFINE ic == ilock(at.ic, at.ip)
  <2>1. CacheGood(at.ic) /\ Grown(old, at.ic) /\ at.ic \in [Slots -> CacheSlots]
    BY DEF Taken, Places, CacheGood
  <2>2. at.ic[at.ip].ref > 0
    BY <1>2, <2>1 DEF Taken, Places, CacheSlots
  <2>3. CacheGood(ic) /\ \A i \in Slots : ic[i].ref = at.ic[i].ref /\ ic[i].inum = at.ic[i].inum
    BY <1>2, <2>1, <2>2, IlockFills
  <2> HIDE DEF ic
  <2>4. ic \in [Slots -> CacheSlots]
    BY <2>3 DEF CacheGood
  <2>5. Grown(at.ic, ic)
    BY <2>3, <2>1 DEF Grown, CacheSlots
  <2>6. Taken(ic, NameiStep(at, name))
    <3>1. CASE ic[at.ip].type # "T_DIR"
      <4>1. NameiStep(at, name) = [ic |-> ic, ip |-> NULL]
        BY <3>1, <1>2, SlotsProps DEF NameiStep, ic
      <4>2. Grown(ic, ic)
        BY <2>4, GrownTransitive
      <4> QED
        BY <4>1, <4>2, <2>3, SlotsProps, TakenPlace
    <3>2. CASE ic[at.ip].type = "T_DIR"
      <4>1. NameiStep(at, name) = dirlookup(ic, at.ip, Elem[name])
        BY <3>2, <1>2, SlotsProps DEF NameiStep, ic
      <4> QED
        BY <4>1, <1>2, <2>3, DirlookupTakes
    <3> QED
      BY <3>1, <3>2
  <2>7. Grown(old, ic)
    BY <2>1, <2>4, <2>5, GrownTransitive
  <2>8. NameiStep(at, name).ic \in [Slots -> CacheSlots] /\ Grown(ic, NameiStep(at, name).ic)
    BY <2>6 DEF Taken, Places, CacheGood
  <2> QED
    BY <2>1, <2>4, <2>5, <2>6, <2>7, <2>8, <1>2, SlotsProps, TakenTransitive, GrownTransitive
<1> QED
  BY <1>1, <1>2 DEF Taken, Places

\* namei along the path, in a set that it does not leave.
NameiWalk(walk, Y, ic, path) ==
    /\ walk \in [0 .. Len(path) -> Y]
    /\ walk[0] = iget(ic, ROOT_INO)
    /\ \A k \in 1 .. Len(path) : walk[k] = NameiStep(walk[k - 1], path[k])
    /\ namei(ic, path) = walk[Len(path)]

\* The recursion of namei has a solution, which is the walk.
LEMMA NameiUnfolds ==
    ASSUME NEW ic, NEW path \in Seq(Names), NEW Y, iget(ic, ROOT_INO) \in Y,
           \A at \in Y, name \in Names : NameiStep(at, name) \in Y
    PROVE  \E walk : NameiWalk(walk, Y, ic, path)
<1> DEFINE n == Len(path)
           step(at, k) == IF k \in 1 .. n THEN NameiStep(at, path[k]) ELSE at
           G == [k \in Nat |-> [at \in Y |-> step(at, k)]]
           walk == CHOOSE walk : walk = [k \in 0 .. Len(path) |->
                     IF k = 0 THEN iget(ic, ROOT_INO) ELSE NameiStep(walk[k - 1], path[k])]
<1>1. n \in Nat /\ \A k \in 1 .. n : path[k] \in Names
  OBVIOUS
<1> HIDE DEF n
<1>2. \A at \in Y, k \in Nat : step(at, k) \in Y
  BY <1>1
<1>3. G \in StepsOn(Y)
  <2> HIDE DEF step
  <2> QED
    BY <1>2 DEF StepsOn
<1>4. PICK f : Unfolds(f, Y, iget(ic, ROOT_INO), G, n)
  <2> HIDE DEF G
  <2> QED
    BY <1>1, <1>3, RecursionExists
<1>5. ASSUME NEW k \in 1 .. n PROVE f[k] = NameiStep(f[k - 1], path[k])
  <2>1. k \in Nat /\ k - 1 \in 0 .. n
    BY <1>1
  <2>2. f[k - 1] \in Y /\ f[k] = G[k][f[k - 1]]
    BY <1>4, <2>1 DEF Unfolds
  <2> QED
    BY <2>1, <2>2
<1>6. f = [k \in 0 .. Len(path) |->
             IF k = 0 THEN iget(ic, ROOT_INO) ELSE NameiStep(f[k - 1], path[k])]
  BY <1>4, <1>5, <1>1 DEF n, Unfolds
<1>7. walk = [k \in 0 .. Len(path) |->
                IF k = 0 THEN iget(ic, ROOT_INO) ELSE NameiStep(walk[k - 1], path[k])]
  BY <1>6
<1>8. namei(ic, path) = walk[Len(path)]
  BY Zenon DEF namei
<1> HIDE DEF walk
<1>9. walk[0] = iget(ic, ROOT_INO) /\ \A k \in 1 .. n : walk[k] = NameiStep(walk[k - 1], path[k])
  BY <1>7, <1>1 DEF n
<1> DEFINE T == {k \in 0 .. n : walk[k] \in Y}
<1>10. 0 \in T
  BY <1>1, <1>9
<1>11. ASSUME NEW k \in 1 .. n, k - 1 \in T PROVE k \in T
  BY <1>1, <1>9, <1>11
<1>12. \A k \in 0 .. n : k \in T
  <2> HIDE DEF T
  <2> QED
    BY <1>1, <1>10, <1>11, SegmentInduction
<1>13. walk \in [0 .. n -> Y]
  <2>1. \A k \in 0 .. n : walk[k] \in Y
    BY <1>12
  <2>2. walk = [k \in 0 .. n |-> walk[k]]
    BY <1>7 DEF n
  <2> QED
    BY <2>1, <2>2
<1> QED
  BY <1>8, <1>9, <1>13 DEF NameiWalk, n

\* Induction along the path: what holds of the root and of each step from a place
\* where it holds, holds where the walk ends.
LEMMA NameiInduction ==
    ASSUME NEW ic, NEW path \in Seq(Names), NEW Y, iget(ic, ROOT_INO) \in Y,
           \A at \in Y, name \in Names : NameiStep(at, name) \in Y
    PROVE  namei(ic, path) \in Y
<1>1. PICK walk : NameiWalk(walk, Y, ic, path)
  BY NameiUnfolds
<1>2. Len(path) \in 0 .. Len(path)
  OBVIOUS
<1> QED
  BY <1>1, <1>2 DEF NameiWalk

\* A walk from the root takes a reference on what it finds, gives none back, and has
\* the root in the cache when it finds something.
LEMMA NameiTakes ==
    ASSUME NEW ic, CacheGood(ic), NEW path \in Seq(Names)
    PROVE  /\ Taken(ic, namei(ic, path))
           /\ namei(ic, path).ip # NULL => RootCached(namei(ic, path).ic)
<1> DEFINE start == iget(ic, ROOT_INO)
           Y == {at \in Places : /\ Taken(ic, at)
                                 /\ Grown(start.ic, at.ic)
                                 /\ start.ip = NULL => at.ip = NULL}
<1>1. ic \in [Slots -> CacheSlots] /\ ROOT_INO \in Inums
  BY FsAssumption DEF CacheGood
<1>2. Taken(ic, start) /\ (start.ip \in Slots => start.ic[start.ip].inum = ROOT_INO)
  BY <1>1, IgetTakes
<1>3. start.ic \in [Slots -> CacheSlots]
  BY <1>2 DEF Taken, Places
<1> HIDE DEF start
<1>4. start \in Y
  BY <1>2, <1>3, GrownTransitive DEF Taken
<1>5. ASSUME NEW at \in Y, NEW name PROVE NameiStep(at, name) \in Y
  <2>1. at.ic \in [Slots -> CacheSlots]
    BY DEF Places
  <2>2. /\ Taken(ic, NameiStep(at, name))
        /\ Grown(at.ic, NameiStep(at, name).ic)
        /\ at.ip = NULL => NameiStep(at, name).ip = NULL
    BY <1>1, NameiStepTakes
  <2>3. NameiStep(at, name) \in Places /\ NameiStep(at, name).ic \in [Slots -> CacheSlots]
    BY <2>2 DEF Taken, Places
  <2>4. Grown(start.ic, NameiStep(at, name).ic)
    BY <1>3, <2>1, <2>2, <2>3, GrownTransitive
  <2> QED
    BY <2>2, <2>3, <2>4
<1>6. namei(ic, path) \in Y
  <2> HIDE DEF Y
  <2> QED
    BY <1>4, <1>5, NameiInduction DEF start
<1>7. ASSUME namei(ic, path).ip # NULL PROVE RootCached(namei(ic, path).ic)
  <2> DEFINE got == namei(ic, path)
  <2>1. start.ip \in Slots /\ got.ic \in [Slots -> CacheSlots] /\ Grown(start.ic, got.ic)
    BY <1>2, <1>6, <1>7 DEF Taken, Places
  <2>2. start.ic[start.ip].ref > 0 /\ start.ic[start.ip].inum = ROOT_INO
    BY <1>1, <1>2, <1>3, <2>1 DEF Taken, CacheSlots
  <2> HIDE DEF got
  <2>3. RootCached(start.ic)
    BY <2>1, <2>2 DEF RootCached
  <2> QED
    BY <1>3, <2>1, <2>3, RootStays DEF got
<1> QED
  BY <1>6, <1>7

-----------------------------------------------------------------------------
(* The files                                                                *)

\* The file table and the descriptors are finite sets of numbers that NULL is not one of.
LEMMA TableProps ==
    /\ Files \in SUBSET Nat /\ NULL \notin Files /\ IsFiniteSet(Files)
    /\ Fds \in SUBSET Nat /\ NULL \notin Fds
    /\ KBUF \in Nat
<1>1. NFILE \in Nat \ {0} /\ NOFILE \in Nat \ {0} /\ KBUF \in Nat /\ NULL \notin Nat
  BY FsAssumption
<1>2. IsFiniteSet(0 .. NFILE - 1)
  BY <1>1, FS_Interval
<1> QED
  BY <1>1, <1>2 DEF Files, Fds

\* file_open leaves a cache that has grown. If it succeeds, the file was free and
\* is open at the start of a slot with a reference more, and the root is cached;
\* if it fails the table is as before.
LEMMA FileOpenProps ==
    ASSUME NEW ic, CacheGood(ic), NEW ft \in [Files -> FileEntries],
           NEW path \in Seq(Names), NEW omode
    PROVE  LET got == file_open(ic, ft, path, omode)
           IN  /\ CacheGood(got.ic) /\ Grown(ic, got.ic)
               /\ \/ got.f = NULL /\ got.ft = ft
                  \/ /\ got.f \in Files /\ ft[got.f].ref = 0
                     /\ got.ft \in [Files -> FileEntries]
                     /\ \A g \in Files : g # got.f => got.ft[g] = ft[g]
                     /\ \E ip \in Slots : /\ ic[ip].ref < got.ic[ip].ref
                                          /\ got.ft[got.f] = OpenedFile(ip)
                     /\ RootCached(got.ic)
<1> DEFINE n == namei(ic, path)
           f == Least(FreeFiles(ft))
<1>1. Taken(ic, n) /\ (n.ip # NULL => RootCached(n.ic))
  BY NameiTakes
<1> HIDE DEF n
<1>2. CASE n.ip = NULL \/ WriteMode(omode) \/ FreeFiles(ft) = {}
  <2>1. file_open(ic, ft, path, omode) = [ic |-> n.ic, ft |-> ft, f |-> NULL]
    BY <1>2 DEF file_open, n
  <2> QED
    BY <1>1, <2>1 DEF Taken
<1>3. CASE ~(n.ip = NULL \/ WriteMode(omode) \/ FreeFiles(ft) = {})
  <2>1. file_open(ic, ft, path, omode)
          = [ic |-> n.ic, ft |-> [ft EXCEPT ![f] = OpenedFile(n.ip)], f |-> f]
    BY <1>3 DEF file_open, n
  <2>2. FreeFiles(ft) \in SUBSET Nat
    BY TableProps DEF FreeFiles
  <2>3. f \in FreeFiles(ft)
    BY <1>3, <2>2, LeastProps
  <2>4. f \in Files /\ ft[f].ref = 0
    BY <2>3 DEF FreeFiles
  <2> HIDE DEF f
  <2>5. n.ip \in Slots
    BY <1>1, <1>3 DEF Taken, Places
  <2> DEFINE new == [ft EXCEPT ![f] = OpenedFile(n.ip)]
  <2>6. OpenedFile(n.ip) \in FileEntries
    BY <2>5 DEF OpenedFile, FileEntries
  <2>7. /\ new \in [Files -> FileEntries]
        /\ \A g \in Files : g # f => new[g] = ft[g]
        /\ new[f] = OpenedFile(n.ip)
    BY <2>4, <2>6
  <2> HIDE DEF new
  <2>8. file_open(ic, ft, path, omode) = [ic |-> n.ic, ft |-> new, f |-> f]
    BY <2>1 DEF new
  <2> QED
    BY <1>1, <1>3, <2>4, <2>5, <2>7, <2>8 DEF Taken
<1> QED
  BY <1>2, <1>3

\* What file_read leaves and returns, as far as the tables go.
ReadDone(got, ic, ft, f, n) ==
    /\ CacheGood(got.ic)
    /\ \A i \in Slots : got.ic[i].ref = ic[i].ref /\ got.ic[i].inum = ic[i].inum
    /\ got.r \in -1 .. n
    /\ got.ft \in [Files -> FileEntries]
    /\ \A g \in Files : g # f => got.ft[g] = ft[g]
    /\ got.ft[f].ref = ft[f].ref /\ got.ft[f].type = ft[f].type
    /\ got.ft[f].ip = ft[f].ip /\ got.ft[f].readable = ft[f].readable

\* Reading moves the offset of the one file forward and fills the slot it points to.
LEMMA FileReadProps ==
    ASSUME NEW ic, CacheGood(ic), NEW ft \in [Files -> FileEntries], NEW f \in Files,
           ft[f].readable, ft[f].type = "FD_INODE", ft[f].ip \in Slots,
           ic[ft[f].ip].ref > 0, NEW n \in Nat
    PROVE  ReadDone(file_read(ic, ft, f, n), ic, ft, f, n)
<1> DEFINE ip == ft[f].ip
           locked == ilock(ic, ip)
           got == readi(locked[ip], ft[f].off, n)
           res == file_read(ic, ft, f, n)
<1>1. /\ CacheGood(locked)
      /\ \A i \in Slots : locked[i].ref = ic[i].ref /\ locked[i].inum = ic[i].inum
  BY IlockFills
<1> HIDE DEF locked
<1>2. locked[ip] \in CacheSlots /\ ft[f].off \in Nat
  BY <1>1 DEF CacheGood, FileEntries
<1>3. got.r \in -1 .. n
  BY <1>2, ReadiProps
<1> HIDE DEF got
<1>4. file_read(ic, ft, f, n)
        = [ic |-> locked, r |-> got.r, data |-> got.data,
           ft |-> IF got.r > 0 THEN [ft EXCEPT ![f].off = @ + got.r] ELSE ft]
  BY DEF file_read, got, locked
<1>5. CASE got.r > 0
  <2> DEFINE new == [ft EXCEPT ![f].off = @ + got.r]
  <2>1. ft[f] \in FileEntries /\ ft[f].off + got.r \in Nat
    BY <1>2, <1>3, <1>5
  <2>2. [ft[f] EXCEPT !.off = @ + got.r] \in FileEntries
    BY <2>1 DEF FileEntries
  <2>3. /\ new \in [Files -> FileEntries]
        /\ \A g \in Files : g # f => new[g] = ft[g]
        /\ new[f].ref = ft[f].ref /\ new[f].type = ft[f].type
        /\ new[f].ip = ft[f].ip /\ new[f].readable = ft[f].readable
    BY <2>1, <2>2 DEF FileEntries
  <2> HIDE DEF new
  <2>4. res.ic = locked /\ res.r = got.r /\ res.ft = new
    BY <1>4, <1>5 DEF new
  <2> HIDE DEF res
  <2>5. ReadDone(res, ic, ft, f, n)
    BY <1>1, <1>3, <2>3, <2>4 DEF ReadDone
  <2> QED
    BY <2>5 DEF res
<1>6. CASE ~(got.r > 0)
  <2>1. res.ic = locked /\ res.r = got.r /\ res.ft = ft
    BY <1>4, <1>6
  <2> HIDE DEF res
  <2>2. ReadDone(res, ic, ft, f, n)
    BY <1>1, <1>3, <2>1 DEF ReadDone
  <2> QED
    BY <2>2 DEF res
<1> QED
  BY <1>5, <1>6

-----------------------------------------------------------------------------
(* The inductive invariant.                                                 *)

\* An entry is closed and nobody's, or it is open and exactly one descriptor's.
AccountInv ==
    \A f \in Files :
      \/ /\ ftable[f] = ClosedFile
         /\ \A p \in Procs, fd \in Fds : ofile[p][fd] # f
      \/ /\ ftable[f].ref = 1 /\ ftable[f].type = "FD_INODE" /\ ftable[f].readable
         /\ \E p \in Procs, fd \in Fds :
              /\ ofile[p][fd] = f
              /\ \A q \in Procs, e \in Fds : ofile[q][e] = f => q = p /\ e = fd

\* What an open file points to is a slot that is taken.
PointedInv ==
    \A f \in Files :
      ftable[f].ref > 0 => ftable[f].ip \in Slots /\ icache[ftable[f].ip].ref > 0

\* The root got its slot while fs_init ran its tests: with a cache that only grows
\* this is why namei never gets NULL for it.
IInv ==
    /\ TypeOK
    /\ CacheGood(icache)
    /\ RootCached(icache)
    /\ AccountInv
    /\ PointedInv
    /\ OpenFilesPinned
    /\ NoFault

\* Taking and filling a slot, as the tests do.
LEMMA TakenFilled ==
    ASSUME NEW ic, CacheGood(ic), NEW at, Taken(ic, at)
    PROVE  CacheGood(ilock(at.ic, at.ip))
<1>1. \A i \in Slots : ic[i].ref \in Nat /\ at.ic[i].ref \in Nat
  BY DEF Taken, CacheGood, CacheSlots
<1>2. CacheGood(at.ic) /\ at.ip \in Slots \union {NULL} /\ (at.ip \in Slots => at.ic[at.ip].ref > 0)
  BY <1>1 DEF Taken, Places
<1> QED
  BY <1>2, IlockFills

\* The tests of fs_init leave a good cache that has the root, and no open file.
LEMMA BootProps ==
    ASSUME NEW boot \in Boots
    PROVE  CacheGood(boot.ic) /\ RootCached(boot.ic) /\ boot.ft = [f \in Files |-> ClosedFile]
<1> DEFINE ic1 == InodeTest(inode_init)
           ic2 == NameiTest(ic1)
           closed == [f \in Files |-> ClosedFile]
           opened == file_open(ic2, closed, HelloPath, {})
           read == file_read(opened.ic, opened.ft, opened.f, KBUF)
<1>1. CacheGood(inode_init)
  <2>1. EmptySlot \in CacheSlots
    BY FsAssumption DEF EmptySlot, CacheSlots
  <2> QED
    BY <2>1 DEF CacheGood, inode_init, EmptySlot
<1>2. CacheGood(ic1)
  <2>1. Taken(inode_init, iget(inode_init, HELLO_INO))
    BY <1>1, IgetTakes, FsAssumption
  <2> QED
    BY <1>1, <2>1, TakenFilled DEF InodeTest
<1> HIDE DEF ic1
<1>3. HelloPath \in Seq(Names)
  BY FsAssumption
<1>4. CacheGood(ic2)
  <2>1. Taken(ic1, namei(ic1, HelloPath))
    BY <1>2, <1>3, NameiTakes
  <2> QED
    BY <1>2, <2>1, TakenFilled DEF NameiTest
<1> HIDE DEF ic2
<1>5. closed \in [Files -> FileEntries]
  BY DEF ClosedFile, FileEntries
<1>6. boot = IF opened.f = NULL THEN [ic |-> opened.ic, ft |-> opened.ft, r |-> -1]
             ELSE [ic |-> read.ic, r |-> read.r,
                   ft |-> IF read.r < 0 THEN read.ft ELSE file_close(read.ft, opened.f)]
  BY DEF Boots, ReadTest, OpenTest, ic1, ic2
<1> HIDE DEF closed
<1>7. /\ CacheGood(opened.ic) /\ Grown(ic2, opened.ic)
      /\ \/ opened.f = NULL /\ opened.ft = closed
         \/ /\ opened.f \in Files /\ closed[opened.f].ref = 0
            /\ opened.ft \in [Files -> FileEntries]
            /\ \A g \in Files : g # opened.f => opened.ft[g] = closed[g]
            /\ \E ip \in Slots : /\ ic2[ip].ref < opened.ic[ip].ref
                                 /\ opened.ft[opened.f] = OpenedFile(ip)
            /\ RootCached(opened.ic)
  BY <1>3, <1>4, <1>5, FileOpenProps
<1> HIDE DEF opened
<1>8. opened.f # NULL
  BY <1>6, BootAssumption
<1>9. PICK ip \in Slots : ic2[ip].ref < opened.ic[ip].ref /\ opened.ft[opened.f] = OpenedFile(ip)
  BY <1>7, <1>8
<1>10. opened.ic[ip].ref > 0
  BY <1>4, <1>7, <1>9 DEF CacheGood, CacheSlots
<1>11. /\ CacheGood(read.ic)
       /\ \A i \in Slots : read.ic[i].ref = opened.ic[i].ref /\ read.ic[i].inum = opened.ic[i].inum
       /\ read.ft \in [Files -> FileEntries]
       /\ \A g \in Files : g # opened.f => read.ft[g] = opened.ft[g]
       /\ read.ft[opened.f].ref = 1
       /\ read.r \in Int
  <2>1. /\ opened.f \in Files /\ opened.ft \in [Files -> FileEntries]
        /\ opened.ft[opened.f].readable /\ opened.ft[opened.f].type = "FD_INODE"
        /\ opened.ft[opened.f].ip = ip /\ opened.ft[opened.f].ref = 1
    BY <1>7, <1>8, <1>9 DEF OpenedFile
  <2>2. opened.ft[opened.f].ip \in Slots /\ opened.ic[opened.ft[opened.f].ip].ref > 0
    BY <2>1, <1>10
  <2>3. /\ CacheGood(read.ic)
        /\ \A i \in Slots : /\ read.ic[i].ref = opened.ic[i].ref
                            /\ read.ic[i].inum = opened.ic[i].inum
        /\ read.r \in -1 .. KBUF
        /\ read.ft \in [Files -> FileEntries]
        /\ \A g \in Files : g # opened.f => read.ft[g] = opened.ft[g]
        /\ read.ft[opened.f].ref = opened.ft[opened.f].ref
    <3>1. CacheGood(opened.ic) /\ KBUF \in Nat
      BY <1>7, TableProps
    <3>2. ReadDone(read, opened.ic, opened.ft, opened.f, KBUF)
      BY <2>1, <2>2, <3>1, FileReadProps
    <3> HIDE DEF read
    <3> QED
      BY <3>2 DEF ReadDone
  <2> HIDE DEF read
  <2> QED
    BY <2>1, <2>3, TableProps
<1> HIDE DEF read
<1>12. boot.ic = read.ic /\ boot.ft = file_close(read.ft, opened.f)
  BY <1>6, <1>8, <1>11, BootAssumption
<1>13. RootCached(read.ic)
  BY <1>7, <1>8, <1>11 DEF RootCached
<1>14. file_close(read.ft, opened.f) = [read.ft EXCEPT ![opened.f] = ClosedFile]
  BY <1>11 DEF file_close
<1>15. [read.ft EXCEPT ![opened.f] = ClosedFile] = [f \in Files |-> ClosedFile]
  BY <1>7, <1>8, <1>11 DEF closed
<1> QED
  BY <1>11, <1>12, <1>13, <1>14, <1>15

-----------------------------------------------------------------------------
(* The steps                                                                *)

\* With the root in the cache namei has somewhere to start.
LEMMA NoNullRoot ==
    ASSUME NEW ic, CacheGood(ic), RootCached(ic), NEW path
    PROVE  ~namei_faults(ic, path)
<1>1. iget(ic, ROOT_INO).ip \in Slots
  BY IgetTakes, FsAssumption DEF RootCached
<1> QED
  BY <1>1, SlotsProps DEF namei_faults

Pointing(ft, i) == {f \in Files : ft[f].ref > 0 /\ ft[f].ip = i}

\* The open files on an inode slot are finitely many, so that they can be counted.
LEMMA PointingFinite ==
    ASSUME NEW ft, NEW i
    PROVE  IsFiniteSet(Pointing(ft, i)) /\ Cardinality(Pointing(ft, i)) \in Nat
<1>1. Pointing(ft, i) \subseteq Files
  BY DEF Pointing
<1>2. IsFiniteSet(Pointing(ft, i))
  BY <1>1, TableProps, FS_Subset
<1> QED
  BY <1>2, FS_CardinalityType

\* The files stay as they are, or all that counts of them does.
LEMMA FilesStay ==
    ASSUME IInv, CacheGood(icache'), Grown(icache, icache'),
           ftable' \in [Files -> FileEntries], ofile' = ofile,
           \A f \in Files : \/ ftable'[f] = ftable[f]
                            \/ /\ ftable[f].ref > 0
                               /\ ftable'[f].ref = ftable[f].ref
                               /\ ftable'[f].type = ftable[f].type
                               /\ ftable'[f].ip = ftable[f].ip
                               /\ ftable'[f].readable = ftable[f].readable
    PROVE  RootCached(icache') /\ AccountInv' /\ PointedInv' /\ OpenFilesPinned'
<1>1. icache \in [Slots -> CacheSlots] /\ icache' \in [Slots -> CacheSlots]
  BY DEF CacheGood, IInv
<1>2. \A i \in Slots : icache[i].ref \in Nat /\ icache'[i].ref \in Nat
  BY <1>1 DEF CacheSlots
<1>3. \A f \in Files : ftable'[f].ref = ftable[f].ref /\ ftable'[f].ip = ftable[f].ip
  OBVIOUS
<1>4. RootCached(icache')
  BY <1>1, RootStays DEF IInv
<1>5. AccountInv'
  BY DEF IInv, AccountInv, ClosedFile
<1>6. PointedInv'
  BY <1>2, <1>3 DEF IInv, PointedInv, Grown
<1>7. OpenFilesPinned'
  <2>1. ASSUME NEW i \in Slots PROVE icache'[i].ref >= Cardinality(Pointing(ftable', i))
    <3>1. Pointing(ftable', i) = Pointing(ftable, i)
      BY <1>3 DEF Pointing
    <3>2. icache[i].ref >= Cardinality(Pointing(ftable, i))
      BY DEF IInv, OpenFilesPinned, Pointing
    <3> QED
      BY <1>2, <3>1, <3>2, PointingFinite DEF Grown
  <2> QED
    BY <2>1 DEF OpenFilesPinned, Pointing
<1> QED
  BY <1>4, <1>5, <1>6, <1>7

\* A call with a descriptor that is not open changes nothing but its result.
LEMMA BadFdKeeps ==
    ASSUME IInv, NEW p \in Procs, NEW op, NEW fd, sys_bad_fd(p, op, fd)
    PROVE  IInv'
BY DEF sys_bad_fd, Returns, IInv, TypeOK, RootCached, CacheGood, AccountInv, PointedInv,
       OpenFilesPinned, NoFault

\* sys_read moves the offset of one file and may read its inode into the cache.
LEMMA ReadKeeps ==
    ASSUME IInv, NEW p \in Procs, NEW fd \in Fds, NEW n \in Sizes, sys_read(p, fd, n)
    PROVE  IInv'
<1> DEFINE f == ofile[p][fd]
           m == IF n > KBUF THEN KBUF ELSE n
           read == file_read(icache, ftable, f, m)
<1>1. f \in Files /\ m \in Nat
  <2>1. f # NULL /\ f \in Files \union {NULL}
    BY DEF sys_read, IInv, TypeOK
  <2>2. m \in Nat
    <3>1. n \in Nat /\ KBUF \in Nat
      BY FsAssumption, TableProps
    <3> QED
      BY <3>1
  <2> QED
    BY <2>1, <2>2
<1>2. /\ icache' = read.ic /\ ftable' = read.ft /\ ofile' = ofile
      /\ fault' = fault /\ opens' = opens
      /\ last' = [proc |-> p, call |-> <<"read", fd, n>>, ret |-> read.r, data |-> read.data]
  BY DEF sys_read, Returns
<1>3. /\ ftable[f].ref = 1 /\ ftable[f].readable /\ ftable[f].type = "FD_INODE"
      /\ ftable[f].ip \in Slots /\ icache[ftable[f].ip].ref > 0
  BY <1>1 DEF IInv, AccountInv, PointedInv
<1>4. CacheGood(icache) /\ ftable \in [Files -> FileEntries]
  BY DEF IInv, TypeOK
<1> HIDE DEF f, m
<1>4a. ReadDone(read, icache, ftable, f, m)
  BY <1>1, <1>3, <1>4, FileReadProps
<1> HIDE DEF read
<1>5. /\ CacheGood(read.ic)
      /\ \A i \in Slots : read.ic[i].ref = icache[i].ref /\ read.ic[i].inum = icache[i].inum
      /\ read.r \in -1 .. m
      /\ read.ft \in [Files -> FileEntries]
      /\ \A g \in Files : g # f => read.ft[g] = ftable[g]
      /\ read.ft[f].ref = ftable[f].ref /\ read.ft[f].type = ftable[f].type
      /\ read.ft[f].ip = ftable[f].ip /\ read.ft[f].readable = ftable[f].readable
  BY <1>4a DEF ReadDone
<1>6. Grown(icache, icache')
  BY <1>2, <1>4, <1>5 DEF Grown, CacheGood, CacheSlots
<1>7. CacheGood(icache') /\ ftable' \in [Files -> FileEntries]
  BY <1>2, <1>5
<1>8. \A g \in Files : \/ ftable'[g] = ftable[g]
                       \/ /\ ftable[g].ref > 0
                          /\ ftable'[g].ref = ftable[g].ref
                          /\ ftable'[g].type = ftable[g].type
                          /\ ftable'[g].ip = ftable[g].ip
                          /\ ftable'[g].readable = ftable[g].readable
  <2> TAKE g \in Files
  <2>1. ftable' = read.ft
    BY <1>2
  <2>2. CASE g = f
    BY <2>1, <2>2, <1>3, <1>5
  <2>3. CASE g # f
    BY <2>1, <2>3, <1>5
  <2> QED
    BY <2>2, <2>3
<1>9. RootCached(icache') /\ AccountInv' /\ PointedInv' /\ OpenFilesPinned'
  BY <1>2, <1>6, <1>7, <1>8, FilesStay
<1>10. TypeOK'
  BY <1>1, <1>2, <1>5, <1>7 DEF IInv, TypeOK, CacheGood
<1> QED
  BY <1>2, <1>7, <1>9, <1>10 DEF IInv, NoFault

\* A close takes the entry's only reference, so the entry becomes blank.
LEMMA CloseKeeps ==
    ASSUME IInv, NEW p \in Procs, NEW fd \in Fds, sys_close(p, fd)
    PROVE  IInv'
<1> DEFINE f == ofile[p][fd]
<1>1. f \in Files
  BY DEF sys_close, IInv, TypeOK
<1>2. /\ icache' = icache /\ fault' = fault /\ opens' = opens
      /\ ofile' = [ofile EXCEPT ![p][fd] = NULL]
      /\ last' = [proc |-> p, call |-> <<"close", fd>>, ret |-> 0, data |-> <<>>]
  BY DEF sys_close, Returns
<1>3. ftable[f].ref = 1 /\ \A q \in Procs, e \in Fds : ofile[q][e] = f => q = p /\ e = fd
  BY <1>1 DEF IInv, AccountInv
<1>4. ftable' = [ftable EXCEPT ![f] = ClosedFile]
  BY <1>3 DEF sys_close, file_close
<1>5. /\ ftable' \in [Files -> FileEntries] /\ ftable'[f] = ClosedFile
      /\ \A g \in Files : g # f => ftable'[g] = ftable[g]
  <2>1. ClosedFile \in FileEntries
    BY DEF ClosedFile, FileEntries
  <2> QED
    BY <1>1, <1>4, <2>1 DEF IInv, TypeOK
<1>6. ofile \in [Procs -> [Fds -> Files \union {NULL}]]
  BY DEF IInv, TypeOK
<1>7. /\ ofile' \in [Procs -> [Fds -> Files \union {NULL}]]
      /\ \A q \in Procs, e \in Fds : ofile'[q][e] = IF q = p /\ e = fd THEN NULL ELSE ofile[q][e]
  BY <1>2, <1>6
<1> HIDE DEF f
<1>8. AccountInv'
  <2> SUFFICES ASSUME NEW g \in Files
               PROVE  \/ /\ ftable'[g] = ClosedFile
                         /\ \A q \in Procs, e \in Fds : ofile'[q][e] # g
                      \/ /\ ftable'[g].ref = 1 /\ ftable'[g].type = "FD_INODE" /\ ftable'[g].readable
                         /\ \E q \in Procs, e \in Fds :
                              /\ ofile'[q][e] = g
                              /\ \A r \in Procs, d \in Fds : ofile'[r][d] = g => r = q /\ d = e
    BY DEF AccountInv
  <2>1. CASE g = f
    BY <2>1, <1>3, <1>5, <1>7, TableProps
  <2>2. CASE g # f
    <3>1. \A q \in Procs, e \in Fds : ofile'[q][e] = g <=> ofile[q][e] = g
      BY <2>2, <1>7, TableProps DEF f
    <3>2. ftable'[g] = ftable[g]
      BY <2>2, <1>5
    <3> QED
      BY <3>1, <3>2 DEF IInv, AccountInv
  <2> QED
    BY <2>1, <2>2
<1>9. PointedInv'
  BY <1>2, <1>5 DEF IInv, PointedInv, ClosedFile
<1>10. OpenFilesPinned'
  <2>1. ASSUME NEW i \in Slots PROVE icache'[i].ref >= Cardinality(Pointing(ftable', i))
    <3>1. Pointing(ftable', i) \subseteq Pointing(ftable, i)
      BY <1>5 DEF Pointing, ClosedFile
    <3>2. Cardinality(Pointing(ftable', i)) <= Cardinality(Pointing(ftable, i))
      BY <3>1, PointingFinite, FS_Subset
    <3>3. icache[i].ref >= Cardinality(Pointing(ftable, i)) /\ icache[i].ref \in Nat
      BY DEF IInv, OpenFilesPinned, Pointing, CacheGood, CacheSlots
    <3> QED
      BY <1>2, <3>2, <3>3, PointingFinite
  <2> QED
    BY <2>1 DEF OpenFilesPinned, Pointing
<1>11. TypeOK'
  BY <1>2, <1>5, <1>7 DEF IInv, TypeOK
<1>12. CacheGood(icache') /\ RootCached(icache') /\ NoFault'
  BY <1>2 DEF IInv, NoFault
<1> QED
  BY <1>8, <1>9, <1>10, <1>11, <1>12 DEF IInv

\* An open either leaves the tables as they were, or joins the first free entry with
\* the first free descriptor.
LEMMA OpenKeeps ==
    ASSUME IInv, NEW p \in Procs, NEW path \in Paths, NEW omode, sys_open(p, path, omode)
    PROVE  IInv'
<1> DEFINE got == file_open(icache, ftable, path, omode)
           call == <<"open", path, omode>>
           fd == Least(FreeFds(p))
<1>1. /\ CacheGood(icache) /\ RootCached(icache) /\ path \in Seq(Names)
      /\ ftable \in [Files -> FileEntries]
      /\ ofile \in [Procs -> [Fds -> Files \union {NULL}]]
  BY FsAssumption DEF IInv, TypeOK
<1>2. /\ opens < MAX_OPENS /\ opens' = opens + 1
      /\ icache' = got.ic /\ fault' = namei_faults(icache, path)
      /\ \/ /\ got.f = NULL
            /\ UNCHANGED <<ftable, ofile>>
            /\ Returns(p, call, -1, <<>>)
         \/ /\ got.f # NULL
            /\ FreeFds(p) = {}
            /\ ftable' = file_close(got.ft, got.f)
            /\ UNCHANGED ofile
            /\ Returns(p, call, -1, <<>>)
         \/ /\ got.f # NULL
            /\ FreeFds(p) # {}
            /\ ftable' = got.ft
            /\ ofile' = [ofile EXCEPT ![p][fd] = got.f]
            /\ Returns(p, call, fd, <<>>)
  BY DEF sys_open
<1>3. /\ CacheGood(got.ic) /\ Grown(icache, got.ic)
      /\ \/ got.f = NULL /\ got.ft = ftable
         \/ /\ got.f \in Files /\ ftable[got.f].ref = 0
            /\ got.ft \in [Files -> FileEntries]
            /\ \A g \in Files : g # got.f => got.ft[g] = ftable[g]
            /\ \E ip \in Slots : /\ icache[ip].ref < got.ic[ip].ref
                                 /\ got.ft[got.f] = OpenedFile(ip)
            /\ RootCached(got.ic)
  BY <1>1, FileOpenProps
<1> HIDE DEF got
<1>4. fault' = FALSE
  BY <1>1, <1>2, NoNullRoot
<1>5. CacheGood(icache') /\ Grown(icache, icache')
  BY <1>2, <1>3
<1>6. opens' \in 0 .. MAX_OPENS
  <2>1. MAX_OPENS \in Nat
    BY FsAssumption
  <2>2. opens \in 0 .. MAX_OPENS
    BY DEF IInv, TypeOK
  <2> QED
    BY <1>2, <2>1, <2>2
<1>7. CASE UNCHANGED <<ftable, ofile>> /\ Returns(p, call, -1, <<>>)
  <2>1. RootCached(icache') /\ AccountInv' /\ PointedInv' /\ OpenFilesPinned'
    BY <1>1, <1>5, <1>7, FilesStay
  <2>2. TypeOK'
    <3>1. last'.proc = p /\ last'.ret = -1
      BY <1>7 DEF Returns
    <3>2. ftable' = ftable /\ ofile' = ofile
      BY <1>7
    <3>3. ftable' \in [Files -> FileEntries] /\ ofile' \in [Procs -> [Fds -> Files \union {NULL}]]
      BY <1>1, <3>2
    <3>4. icache' \in [Slots -> CacheSlots]
      BY <1>5 DEF CacheGood
    <3>5. last'.proc \in Procs \union {NULL} /\ last'.ret \in Int
      BY <3>1
    <3> QED
      BY <1>4, <1>6, <3>3, <3>4, <3>5 DEF TypeOK
  <2> QED
    BY <1>4, <1>5, <2>1, <2>2 DEF IInv, NoFault
<1>8. CASE /\ got.f # NULL
           /\ ftable' = file_close(got.ft, got.f)
           /\ UNCHANGED ofile
           /\ Returns(p, call, -1, <<>>)
  <2>1. ftable[got.f] = ClosedFile
    BY <1>3, <1>8 DEF IInv, AccountInv
  <2>2. got.ft[got.f].ref = 1
    <3>1. \E ip \in Slots : got.ft[got.f] = OpenedFile(ip)
      BY <1>3, <1>8
    <3> QED
      BY <3>1 DEF OpenedFile
  <2>3. ftable' = [got.ft EXCEPT ![got.f] = ClosedFile]
    BY <1>8, <2>2 DEF file_close
  <2>4. ftable' = ftable
    BY <1>1, <1>3, <1>8, <2>1, <2>3
  <2> QED
    BY <1>7, <1>8, <2>4
<1>9. CASE /\ got.f # NULL
           /\ FreeFds(p) # {}
           /\ ftable' = got.ft
           /\ ofile' = [ofile EXCEPT ![p][fd] = got.f]
           /\ Returns(p, call, fd, <<>>)
  <2>1. fd \in Fds /\ ofile[p][fd] = NULL
    <3>1. FreeFds(p) \in SUBSET Nat
      BY TableProps DEF FreeFds
    <3>2. fd \in FreeFds(p)
      BY <1>9, <3>1, LeastProps
    <3> QED
      BY <3>2 DEF FreeFds
  <2> DEFINE f == got.f
  <2>2. PICK ip \in Slots : icache[ip].ref < icache'[ip].ref /\ ftable'[f] = OpenedFile(ip)
    BY <1>2, <1>3, <1>9
  <2>3. /\ f \in Files /\ ftable[f].ref = 0 /\ RootCached(icache')
        /\ ftable' \in [Files -> FileEntries]
        /\ \A g \in Files : g # f => ftable'[g] = ftable[g]
    BY <1>2, <1>3, <1>9
  <2>4. /\ ofile' \in [Procs -> [Fds -> Files \union {NULL}]]
        /\ \A q \in Procs, e \in Fds : ofile'[q][e] = IF q = p /\ e = fd THEN f ELSE ofile[q][e]
    <3> HIDE DEF fd, f
    <3> QED
      BY <1>1, <1>9, <2>1, <2>3 DEF f
  <2>5. fd \in Int /\ last' = [proc |-> p, call |-> call, ret |-> fd, data |-> <<>>]
    BY <1>9, <2>1, TableProps DEF Returns
  <2> HIDE DEF fd, f
  <2>6. \A q \in Procs, e \in Fds : ofile[q][e] # f
    BY <2>3 DEF IInv, AccountInv
  <2>7. AccountInv'
    <3> SUFFICES ASSUME NEW g \in Files
                 PROVE  \/ /\ ftable'[g] = ClosedFile
                           /\ \A q \in Procs, e \in Fds : ofile'[q][e] # g
                        \/ /\ ftable'[g].ref = 1 /\ ftable'[g].type = "FD_INODE" /\ ftable'[g].readable
                           /\ \E q \in Procs, e \in Fds :
                                /\ ofile'[q][e] = g
                                /\ \A r \in Procs, d \in Fds : ofile'[r][d] = g => r = q /\ d = e
      BY DEF AccountInv
    <3>1. CASE g = f
      <4>1. \A q \in Procs, e \in Fds : ofile'[q][e] = f <=> q = p /\ e = fd
        BY <2>1, <2>4, <2>6
      <4> QED
        BY <3>1, <2>1, <2>2, <4>1 DEF OpenedFile
    <3>2. CASE g # f
      <4>1. \A q \in Procs, e \in Fds : ofile'[q][e] = g <=> ofile[q][e] = g
        BY <3>2, <2>1, <2>4, TableProps
      <4>2. ftable'[g] = ftable[g]
        BY <3>2, <2>3
      <4> QED
        BY <4>1, <4>2 DEF IInv, AccountInv
    <3> QED
      BY <3>1, <3>2
  <2>8. \A i \in Slots : icache[i].ref \in Nat /\ icache'[i].ref \in Nat
    BY <1>1, <1>5 DEF CacheGood, CacheSlots
  <2>9. PointedInv'
    BY <1>5, <2>2, <2>3, <2>8 DEF IInv, PointedInv, OpenedFile, Grown
  <2>10. OpenFilesPinned'
    <3>1. ASSUME NEW i \in Slots PROVE icache'[i].ref >= Cardinality(Pointing(ftable', i))
      <4>1. icache[i].ref >= Cardinality(Pointing(ftable, i))
        BY DEF IInv, OpenFilesPinned, Pointing
      <4>2. CASE i = ip
        <5>1. Pointing(ftable', i) = Pointing(ftable, i) \union {f} /\ f \notin Pointing(ftable, i)
          BY <2>2, <2>3, <4>2 DEF Pointing, OpenedFile
        <5>2. Cardinality(Pointing(ftable', i)) = Cardinality(Pointing(ftable, i)) + 1
          BY <5>1, PointingFinite, FS_AddElement
        <5> QED
          BY <2>2, <2>8, <4>1, <4>2, <5>2, PointingFinite
      <4>3. CASE i # ip
        <5>1. Pointing(ftable', i) = Pointing(ftable, i)
          BY <2>2, <2>3, <4>3 DEF Pointing, OpenedFile
        <5> QED
          BY <1>5, <2>8, <4>1, <5>1, PointingFinite DEF Grown
      <4> QED
        BY <4>2, <4>3
    <3> QED
      BY <3>1 DEF OpenFilesPinned, Pointing
  <2>11. TypeOK'
    BY <1>4, <1>5, <1>6, <2>3, <2>4, <2>5 DEF TypeOK, CacheGood
  <2> QED
    BY <1>4, <1>5, <2>3, <2>7, <2>9, <2>10, <2>11 DEF IInv, NoFault
<1> QED
  BY <1>2, <1>7, <1>8, <1>9

-----------------------------------------------------------------------------
(* The theorems                                                             *)

\* What the tests of fs_init leave behind satisfies the invariant.
LEMMA InitHolds == Init => IInv
<1> SUFFICES ASSUME Init PROVE IInv
  OBVIOUS
<1>1. CacheGood(icache) /\ RootCached(icache) /\ ftable = [f \in Files |-> ClosedFile]
  BY BootProps DEF Init
<1>2. /\ ofile = [p \in Procs |-> [fd \in Fds |-> NULL]] /\ fault = FALSE /\ opens = 0
      /\ last = [proc |-> NULL, call |-> <<>>, ret |-> 0, data |-> <<>>]
  BY DEF Init
<1>3. TypeOK
  <2>1. icache \in [Slots -> CacheSlots]
    BY <1>1 DEF CacheGood
  <2>2. ftable \in [Files -> FileEntries]
    BY <1>1 DEF ClosedFile, FileEntries
  <2>3. ofile \in [Procs -> [Fds -> Files \union {NULL}]]
    BY <1>2
  <2>4. opens \in 0 .. MAX_OPENS
    <3>1. MAX_OPENS \in Nat
      BY FsAssumption
    <3> QED
      BY <1>2, <3>1
  <2>5. fault \in BOOLEAN
    BY <1>2
  <2>6. last.proc = NULL /\ last.ret = 0
    BY <1>2
  <2>7. last.proc \in Procs \union {NULL} /\ last.ret \in Int
    BY <2>6
  <2> QED
    BY <2>1, <2>2, <2>3, <2>4, <2>5, <2>7 DEF TypeOK
<1>4. AccountInv
  BY <1>1, <1>2, TableProps DEF AccountInv
<1>5. PointedInv
  BY <1>1 DEF PointedInv, ClosedFile
<1>6. OpenFilesPinned
  <2>1. ASSUME NEW i \in Slots PROVE icache[i].ref >= Cardinality(Pointing(ftable, i))
    <3>1. Pointing(ftable, i) = {}
      BY <1>1 DEF Pointing, ClosedFile
    <3>2. Cardinality(Pointing(ftable, i)) = 0
      BY <3>1, FS_EmptySet
    <3> QED
      BY <1>1, <3>2 DEF CacheGood, CacheSlots
  <2> QED
    BY <2>1 DEF OpenFilesPinned, Pointing
<1> QED
  BY <1>1, <1>2, <1>3, <1>4, <1>5, <1>6 DEF IInv, NoFault

\* Every system call keeps the invariant.
LEMMA NextKeeps == IInv /\ [Next]_vars => IInv'
<1> SUFFICES ASSUME IInv, [Next]_vars PROVE IInv'
  OBVIOUS
<1>1. CASE UNCHANGED vars
  BY <1>1 DEF vars, IInv, TypeOK, RootCached, CacheGood, AccountInv, PointedInv,
              OpenFilesPinned, NoFault
<1>2. CASE Next
  <2>1. PICK p \in Procs :
          \/ \E path \in Paths, omode \in Omodes : sys_open(p, path, omode)
          \/ \E op \in {"read", "close"}, fd \in -1 .. NOFILE : sys_bad_fd(p, op, fd)
          \/ \E fd \in Fds, n \in Sizes : sys_read(p, fd, n)
          \/ \E fd \in Fds : sys_close(p, fd)
    BY <1>2 DEF Next
  <2>2. ASSUME NEW path \in Paths, NEW omode \in Omodes, sys_open(p, path, omode) PROVE IInv'
    BY <2>2, OpenKeeps
  <2>3. ASSUME NEW op \in {"read", "close"}, NEW fd \in -1 .. NOFILE, sys_bad_fd(p, op, fd)
        PROVE  IInv'
    BY <2>3, BadFdKeeps
  <2>4. ASSUME NEW fd \in Fds, NEW n \in Sizes, sys_read(p, fd, n) PROVE IInv'
    BY <2>4, ReadKeeps
  <2>5. ASSUME NEW fd \in Fds, sys_close(p, fd) PROVE IInv'
    BY <2>5, CloseKeeps
  <2> QED
    BY <2>1, <2>2, <2>3, <2>4, <2>5
<1> QED
  BY <1>1, <1>2

\* The invariant holds for any disk that fs_init can lay out, any cache and any tables.
THEOREM Invariance == Spec => []IInv
<1> QED
  BY InitHolds, NextKeeps, PTL DEF Spec

\* Type correctness of the inode cache, the file table and the descriptor tables.
THEOREM TypeCorrect == Spec => []TypeOK
<1>1. IInv => TypeOK
  BY DEF IInv
<1> QED
  BY <1>1, Invariance, PTL

\* Every entry of the file table counts exactly the descriptors that name it.
THEOREM TableExactHolds == Spec => []TableExact
<1>1. IInv => TableExact
  <2> SUFFICES ASSUME IInv, NEW f \in Files
               PROVE  /\ ftable[f].ref = Cardinality(Names2Fd(f))
                      /\ ftable[f].ref <= 1
                      /\ ftable[f].ref = 0 => ftable[f] = ClosedFile
    BY DEF TableExact
  <2>1. CASE ftable[f] = ClosedFile /\ \A p \in Procs, fd \in Fds : ofile[p][fd] # f
    <3>1. Names2Fd(f) = {}
      BY <2>1 DEF Names2Fd
    <3> QED
      BY <2>1, <3>1, FS_EmptySet DEF ClosedFile
  <2>2. CASE /\ ftable[f].ref = 1
             /\ \E p \in Procs, fd \in Fds :
                  /\ ofile[p][fd] = f
                  /\ \A q \in Procs, e \in Fds : ofile[q][e] = f => q = p /\ e = fd
    <3>1. PICK p \in Procs, fd \in Fds :
            /\ ofile[p][fd] = f
            /\ \A q \in Procs, e \in Fds : ofile[q][e] = f => q = p /\ e = fd
      BY <2>2
    <3>2. Names2Fd(f) = {<<p, fd>>}
      BY <3>1 DEF Names2Fd
    <3>3. Cardinality({<<p, fd>>}) = 1
      BY FS_Singleton
    <3> QED
      BY <2>2, <3>2, <3>3
  <2> QED
    BY <2>1, <2>2 DEF IInv, AccountInv
<1> QED
  BY <1>1, Invariance, PTL

\* The cache holds an inode once, as the disk has it, and nothing of one it has not read.
THEOREM CacheCoherentHolds == Spec => []CacheCoherent
<1>1. IInv => CacheCoherent
  BY DEF IInv, CacheGood, CacheCoherent
<1> QED
  BY <1>1, Invariance, PTL

\* No slot that an open file points to is ever given to another inode.
THEOREM OpenFilesPinnedHolds == Spec => []OpenFilesPinned
<1>1. IInv => OpenFilesPinned
  BY DEF IInv
<1> QED
  BY <1>1, Invariance, PTL

\* The unchecked result of iget(ROOT_INO) in namei is never NULL.
THEOREM NoFaultHolds == Spec => []NoFault
<1>1. IInv => NoFault
  BY DEF IInv
<1> QED
  BY <1>1, Invariance, PTL

-----------------------------------------------------------------------------
(* The contents of an inode                                                 *)

\* The sequence of the first m elements of a function.
Upto1(C, m) == [j \in 1 .. m |-> C[j]]

\* It is one.
LEMMA UptoProps ==
    ASSUME NEW Y, NEW C \in [Nat -> Y], NEW m \in Nat
    PROVE  /\ Upto1(C, m) \in Seq(Y)
           /\ Len(Upto1(C, m)) = m
           /\ \A j \in 1 .. m : Upto1(C, m)[j] = C[j]
<1>1. \A j \in 1 .. m : j \in Nat /\ C[j] \in Y
  OBVIOUS
<1> QED
  BY <1>1, IsASeq DEF Upto1

\* Blocks of one size laid one after the other.
LEMMA FlattenBlocks ==
    ASSUME NEW Y, NEW C \in [Nat -> Y], NEW b \in Nat \ {0}, NEW n \in Nat
    PROVE  FlattenSeq([i \in 1 .. n |-> [c \in 1 .. b |-> C[b * (i - 1) + c]]]) = Upto1(C, b * n)
<1> DEFINE B == [i \in 1 .. n |-> [c \in 1 .. b |-> C[b * (i - 1) + c]]]
           h == CHOOSE h : h = [i \in 1 .. Len(B) |-> IF i = 1 THEN B[i] ELSE h[i - 1] \o B[i]]
           g == [i \in 1 .. n |-> Upto1(C, b * i)]
<1>1. \A i \in 1 .. n, c \in 1 .. b : b * (i - 1) + c \in Nat
  OBVIOUS
<1>2. Len(B) = n
  OBVIOUS
<1>3. ASSUME NEW i \in 1 .. n
      PROVE  B[i] \in Seq(Y) /\ Len(B[i]) = b /\ \A c \in 1 .. b : B[i][c] = C[b * (i - 1) + c]
  <2> DEFINE D0(c) == C[b * (i - 1) + c]
  <2>1. B[i] = [c \in 1 .. b |-> D0(c)]
    OBVIOUS
  <2>2. \A c \in 1 .. b : D0(c) \in Y
    BY <1>1
  <2> HIDE DEF D0
  <2>3. [c \in 1 .. b |-> D0(c)] \in Seq(Y)
    BY <2>2, IsASeq
  <2> QED
    BY <2>1, <2>3 DEF D0
<1>4. CASE n = 0
  <2>1. B = << >> /\ FlattenSeq(B) = B
    BY <1>2, <1>4 DEF FlattenSeq
  <2>2. Upto1(C, b * n) = << >>
    BY <1>4 DEF Upto1
  <2> QED
    BY <2>1, <2>2
<1>5. CASE n # 0
  <2> HIDE DEF B
  <2>1. FlattenSeq(B) = h[n]
    BY <1>2, <1>5, Zenon DEF FlattenSeq
  <2>2. ASSUME NEW i \in 1 .. n PROVE b * i \in Nat /\ b * (i - 1) \in Nat /\ b * i = b * (i - 1) + b
    OBVIOUS
  <2>3. ASSUME NEW i \in 1 .. n, i # 1 PROVE Upto1(C, b * (i - 1)) \o B[i] = Upto1(C, b * i)
    <3> DEFINE s == Upto1(C, b * (i - 1))
               t == B[i]
               u == Upto1(C, b * i)
    <3>1. s \in Seq(Y) /\ Len(s) = b * (i - 1) /\ \A j \in 1 .. b * (i - 1) : s[j] = C[j]
      BY <2>2, UptoProps
    <3>2. u \in Seq(Y) /\ Len(u) = b * i /\ \A j \in 1 .. b * i : u[j] = C[j]
      BY <2>2, UptoProps
    <3>3. t \in Seq(Y) /\ Len(t) = b /\ \A c \in 1 .. b : t[c] = C[b * (i - 1) + c]
      BY <1>3
    <3> HIDE DEF s, t, u
    <3>4. /\ s \o t \in Seq(Y)
          /\ Len(s \o t) = Len(s) + Len(t)
          /\ \A j \in 1 .. Len(s) + Len(t) : (s \o t)[j] = IF j <= Len(s) THEN s[j] ELSE t[j - Len(s)]
      BY <3>1, <3>3, ConcatProperties
    <3>5. ASSUME NEW j \in 1 .. Len(s \o t) PROVE (s \o t)[j] = u[j]
      <4> DEFINE m == b * (i - 1)
      <4>1. m \in Nat /\ b * i = m + b /\ Len(s) = m /\ j \in 1 .. m + b /\ u[j] = C[j]
        BY <2>2, <3>1, <3>2, <3>3, <3>4
      <4>2. \A c \in 1 .. b : t[c] = C[m + c]
        BY <3>3
      <4> HIDE DEF m
      <4>3. CASE j <= m
        BY <4>1, <4>3, <3>1, <3>3, <3>4 DEF m
      <4>4. CASE j > m
        <5>1. j - m \in 1 .. b /\ m + (j - m) = j
          BY <4>1, <4>4
        <5>2. (s \o t)[j] = t[j - m]
          BY <4>1, <4>4, <3>3, <3>4
        <5> QED
          BY <4>1, <4>2, <5>1, <5>2
      <4> QED
        BY <4>1, <4>3, <4>4
    <3>6. s \o t = u
      BY <2>2, <3>1, <3>2, <3>3, <3>4, <3>5, SeqEqual
    <3> QED
      BY <3>6 DEF s, t, u
  <2>4. n >= 1 => Upto1(C, b * 1) = B[1]
    <3> SUFFICES ASSUME n >= 1 PROVE Upto1(C, b * 1) = B[1]
      OBVIOUS
    <3>1. /\ Upto1(C, b) \in Seq(Y) /\ Len(Upto1(C, b)) = b
          /\ \A j \in 1 .. b : Upto1(C, b)[j] = C[j]
      BY UptoProps
    <3>2. B[1] \in Seq(Y) /\ Len(B[1]) = b /\ \A c \in 1 .. b : B[1][c] = C[b * (1 - 1) + c]
      BY <1>3
    <3>3. \A c \in 1 .. b : b * (1 - 1) + c = c
      OBVIOUS
    <3>4. Upto1(C, b) = B[1]
      BY <3>1, <3>2, <3>3, SeqEqual
    <3>5. b * 1 = b
      OBVIOUS
    <3> QED
      BY <3>4, <3>5
  <2>5. g = [i \in 1 .. Len(B) |-> IF i = 1 THEN B[i] ELSE g[i - 1] \o B[i]]
    <3>1. ASSUME NEW i \in 1 .. n PROVE g[i] = IF i = 1 THEN B[i] ELSE g[i - 1] \o B[i]
      <4>1. CASE i = 1
        BY <4>1, <1>5, <2>4
      <4>2. CASE i # 1
        <5>1. i - 1 \in 1 .. n /\ g[i] = Upto1(C, b * i) /\ g[i - 1] = Upto1(C, b * (i - 1))
          BY <4>2
        <5> QED
          BY <4>2, <5>1, <2>3
      <4> QED
        BY <4>1, <4>2
    <3> QED
      BY <1>2, <3>1
  <2>6. h = [i \in 1 .. Len(B) |-> IF i = 1 THEN B[i] ELSE h[i - 1] \o B[i]]
    BY <2>5
  <2> HIDE DEF h
  <2> DEFINE T == {k \in 0 .. n : k = 0 \/ h[k] = Upto1(C, b * k)}
  <2>7. 0 \in T
    OBVIOUS
  <2>8. ASSUME NEW k \in 1 .. n, k - 1 \in T PROVE k \in T
    <3>1. h[k] = IF k = 1 THEN B[k] ELSE h[k - 1] \o B[k]
      BY <1>2, <2>6
    <3>2. CASE k = 1
      BY <3>1, <3>2, <1>5, <2>4
    <3>3. CASE k # 1
      <4>1. h[k - 1] = Upto1(C, b * (k - 1))
        BY <3>3, <2>8
      <4>2. h[k] = Upto1(C, b * k)
        BY <3>1, <3>3, <4>1, <2>3
      <4> QED
        BY <4>2
    <3> QED
      BY <3>2, <3>3
  <2> HIDE DEF T
  <2>9. \A k \in 0 .. n : k \in T
    BY <2>7, <2>8, SegmentInduction
  <2>10. n \in T
    BY <2>9
  <2> QED
    BY <1>5, <2>1, <2>10 DEF T, B
<1> QED
  BY <1>4, <1>5

\* What FsDescriptors calls the contents, in the terms of readi: the cells below the
\* size and before the first block that is missing, and nothing else.
Contents(d, n) ==
    /\ n \in 0 .. d.size
    /\ \A off \in 0 .. n - 1 : Readable(d, off)
    /\ n < d.size => ~Readable(d, n)

\* The cells of an inode from its start.
Cells(d) == [j \in Nat |-> Cell(d, j - 1)]

\* Flat is a sequence of cells as long as readi can go.
LEMMA FlatProps ==
    ASSUME NEW inum \in Inums, OnDisk(inum)
    PROVE  \E n \in Nat : Contents(dinode(inum), n) /\ Flat(inum) = Upto1(Cells(dinode(inum)), n)
<1> DEFINE d == dinode(inum)
           C == Cells(d)
           Y == {Cell(d, j - 1) : j \in Nat}
           missing == {bn \in 0 .. NDIRECT - 1 : d.addrs[bn] = 0 \/ d.addrs[bn] >= DISK_NBLOCKS}
           count == IF missing = {} THEN NDIRECT ELSE Least(missing)
           m == BSIZE * count
<1>1. d.size \in Nat /\ d.addrs \in [0 .. NDIRECT -> Nat]
  BY DiskAssumption DEF OnDisk, Dinodes
<1>2. BSIZE \in Nat \ {0} /\ NDIRECT \in Nat /\ DISK_NBLOCKS \in Nat
  BY FsAssumption
<1>3. C \in [Nat -> Y]
  BY DEF Cells
<1> HIDE DEF d
<1>4. /\ count \in 0 .. NDIRECT
      /\ \A bn \in 0 .. count - 1 : d.addrs[bn] # 0 /\ d.addrs[bn] < DISK_NBLOCKS
      /\ count < NDIRECT => d.addrs[count] = 0 \/ d.addrs[count] >= DISK_NBLOCKS
  <2>1. CASE missing = {}
    <3>1. \A bn \in 0 .. NDIRECT - 1 : ~(d.addrs[bn] = 0 \/ d.addrs[bn] >= DISK_NBLOCKS)
      BY <2>1
    <3>2. \A bn \in 0 .. NDIRECT - 1 : d.addrs[bn] \in Nat
      BY <1>1, <1>2
    <3>3. count = NDIRECT
      BY <2>1
    <3> HIDE DEF count, missing
    <3> QED
      BY <3>1, <3>2, <3>3, <1>2
  <2>2. CASE missing # {}
    <3>1. missing \in SUBSET Nat
      OBVIOUS
    <3>2. Least(missing) \in missing /\ \A bn \in missing : Least(missing) <= bn
      BY <2>2, <3>1, LeastProps
    <3>3. count \in missing /\ \A bn \in missing : count <= bn
      BY <2>2, <3>2
    <3> HIDE DEF count
    <3>4. count \in 0 .. NDIRECT - 1 /\ (d.addrs[count] = 0 \/ d.addrs[count] >= DISK_NBLOCKS)
      BY <3>3
    <3>5. ASSUME NEW bn \in 0 .. count - 1
          PROVE  d.addrs[bn] # 0 /\ d.addrs[bn] < DISK_NBLOCKS
      <4>1. bn \in 0 .. NDIRECT - 1 /\ ~(count <= bn) /\ d.addrs[bn] \in Nat
        BY <1>1, <1>2, <3>4
      <4>2. bn \notin missing
        BY <4>1, <3>3
      <4> QED
        BY <4>1, <4>2, <1>2
    <3> QED
      BY <1>2, <3>4, <3>5
  <2> QED
    BY <2>1, <2>2
<1> HIDE DEF count
<1>5. m \in Nat
  BY <1>2, <1>4
<1>6. ASSUME NEW off \in 0 .. m - 1 PROVE Readable(d, off)
  <2> DEFINE q == off \div BSIZE
  <2>1. off \in Nat /\ q \in Nat /\ off = BSIZE * q + (off % BSIZE) /\ (off % BSIZE) \in 0 .. BSIZE - 1
    <3>1. off \in Nat
      BY <1>5
    <3> HIDE DEF m
    <3> QED
      BY <3>1, <1>2, DivMod
  <2> HIDE DEF q
  <2>2. q < count
    <3>1. BSIZE * q < BSIZE * count
      <4>1. BSIZE * q \in Nat /\ off < m
        BY <2>1, <1>2, <1>5
      <4>2. off >= BSIZE * q
        BY <2>1, <4>1
      <4> QED
        BY <2>1, <4>1, <4>2, <1>5
    <3>2. ASSUME q >= count PROVE FALSE
      <4>1. BSIZE * q >= BSIZE * count
        BY <3>2, <2>1, <1>2, <1>4
      <4> QED
        BY <3>1, <4>1, <2>1, <1>2, <1>4
    <3> QED
      BY <3>2, <2>1, <1>4
  <2>3. q \in 0 .. count - 1 /\ q < NDIRECT /\ bmap(d, q) = d.addrs[q]
    BY <2>1, <2>2, <1>2, <1>4 DEF bmap
  <2> QED
    BY <2>3, <1>4 DEF Readable, bdev_ok, q
<1>7. ~Readable(d, m)
  <2>1. BSIZE * count + 0 = m /\ count \in Nat /\ 0 \in 0 .. BSIZE - 1
    BY <1>2, <1>4
  <2>2. m \div BSIZE = count
    <3> HIDE DEF m
    <3> QED
      BY <2>1, <1>2, DivUnique
  <2>3. CASE count < NDIRECT
    <3>1. bmap(d, count) = d.addrs[count] /\ d.addrs[count] \in Nat
      BY <2>3, <2>1, <1>1, <1>2 DEF bmap
    <3> QED
      BY <2>2, <2>3, <3>1, <1>2, <1>4 DEF Readable, bdev_ok
  <2>4. CASE ~(count < NDIRECT)
    BY <2>2, <2>4 DEF Readable, bmap
  <2> QED
    BY <2>3, <2>4
<1>8. FlattenSeq(Blocks(d)) = Upto1(C, m)
  <2>1. ASSUME NEW k \in 1 .. count, NEW c \in 1 .. BSIZE
        PROVE  Disk[d.addrs[k - 1]][c - 1] = C[BSIZE * (k - 1) + c]
    <3> DEFINE off == BSIZE * (k - 1) + (c - 1)
    <3>1. k - 1 \in Nat /\ c - 1 \in 0 .. BSIZE - 1 /\ k - 1 < NDIRECT
      BY <1>2, <1>4
    <3>2. BSIZE * (k - 1) \in Nat /\ BSIZE * (k - 1) + c \in Nat
      BY <3>1, <1>2
    <3>3. off = BSIZE * (k - 1) + c - 1
      BY <3>2
    <3>4. off \div BSIZE = k - 1 /\ off % BSIZE = c - 1
      BY <3>1, <1>2, DivUnique
    <3> HIDE DEF off
    <3>5. Cell(d, off) = Disk[d.addrs[k - 1]][c - 1]
      BY <3>1, <3>4 DEF Cell, bmap
    <3>6. C[BSIZE * (k - 1) + c] = Cell(d, off)
      BY <3>2, <3>3 DEF Cells
    <3> QED
      BY <3>5, <3>6
  <2>2. Blocks(d) = [k \in 1 .. count |-> [c \in 1 .. BSIZE |-> C[BSIZE * (k - 1) + c]]]
    <3>1. Blocks(d) = [k \in 1 .. count |-> [c \in 1 .. BSIZE |-> Disk[d.addrs[k - 1]][c - 1]]]
      BY DEF Blocks, count
    <3> HIDE DEF C
    <3> QED
      BY <3>1, <2>1
  <2>3. count \in Nat
    BY <1>2, <1>4
  <2> HIDE DEF C, Y
  <2> QED
    BY <2>2, <2>3, <1>2, <1>3, FlattenBlocks
<1> HIDE DEF m
<1>9. Len(Upto1(C, m)) = m /\ Upto1(C, m) \in Seq(Y) /\ \A j \in 1 .. m : Upto1(C, m)[j] = C[j]
  BY <1>3, <1>5, UptoProps
<1>10. Flat(inum) = IF d.size < m THEN SubSeq(Upto1(C, m), 1, d.size) ELSE Upto1(C, m)
  BY <1>8, <1>9 DEF Flat, d
<1>11. CASE d.size < m
  <2>1. SubSeq(Upto1(C, m), 1, d.size) = Upto1(C, d.size)
    BY <1>1, <1>5, <1>11 DEF Upto1
  <2>2. Contents(d, d.size)
    BY <1>1, <1>5, <1>6, <1>11 DEF Contents
  <2> QED
    BY <1>1, <1>10, <1>11, <2>1, <2>2 DEF d
<1>12. CASE ~(d.size < m)
  <2>1. Contents(d, m)
    BY <1>1, <1>5, <1>6, <1>7, <1>12 DEF Contents
  <2> QED
    BY <1>5, <1>10, <1>12, <2>1 DEF d
<1> QED
  BY <1>11, <1>12

-----------------------------------------------------------------------------
(* What the cache says of an inode                                          *)

\* A slot that has been through ilock says of its inode what the disk does.
Filled(slot, inum) ==
    /\ slot \in CacheSlots
    /\ slot.type = TypeOf(inum)
    /\ TypeOf(inum) # "T_NONE" =>
         slot.size = dinode(inum).size /\ slot.addrs = dinode(inum).addrs

\* The contents of the inode in terms of the slot.
LEMMA SlotContents ==
    ASSUME NEW inum \in Inums, NEW slot, Filled(slot, inum), TypeOf(inum) # "T_NONE"
    PROVE  \E n \in Nat :
             /\ Contents(slot, n)
             /\ Flat(inum) = Upto1(Cells(slot), n)
             /\ Len(Flat(inum)) = n /\ DOMAIN Flat(inum) = 1 .. n
             /\ \A k \in 1 .. n : Flat(inum)[k] = Cell(slot, k - 1)
<1> DEFINE d == dinode(inum)
           Y == {Cell(slot, j - 1) : j \in Nat}
<1>1. OnDisk(inum)
  BY DEF TypeOf
<1>2. PICK n \in Nat : Contents(d, n) /\ Flat(inum) = Upto1(Cells(d), n)
  BY <1>1, FlatProps
<1>3. slot.size = d.size /\ slot.addrs = d.addrs
  BY DEF Filled
<1> HIDE DEF d
<1>4. \A off \in Nat : (Readable(slot, off) <=> Readable(d, off)) /\ Cell(slot, off) = Cell(d, off)
  BY <1>3 DEF Readable, Cell, bmap
<1>5. \A off \in 0 .. n - 1 : off \in Nat
  OBVIOUS
<1>6. Contents(slot, n)
  BY <1>2, <1>3, <1>4, <1>5 DEF Contents
<1>7. Cells(slot) = Cells(d)
  <2>1. \A j \in Nat : Cell(slot, j - 1) = Cell(d, j - 1)
    BY <1>3 DEF Cell, bmap
  <2> QED
    BY <2>1 DEF Cells
<1>8. Cells(slot) \in [Nat -> Y] /\ \A k \in 1 .. n : Cells(slot)[k] = Cell(slot, k - 1)
  <2>1. Cells(slot) \in [Nat -> Y]
    BY DEF Cells
  <2>2. \A k \in Nat : Cells(slot)[k] = Cell(slot, k - 1)
    BY DEF Cells
  <2>3. \A k \in 1 .. n : k \in Nat
    OBVIOUS
  <2> QED
    BY <2>1, <2>2, <2>3
<1> HIDE DEF Y
<1>9. /\ Upto1(Cells(slot), n) \in Seq(Y) /\ Len(Upto1(Cells(slot), n)) = n
      /\ \A k \in 1 .. n : Upto1(Cells(slot), n)[k] = Cells(slot)[k]
  BY <1>8, UptoProps
<1>10. DOMAIN Upto1(Cells(slot), n) = 1 .. n
  BY DEF Upto1
<1> QED
  BY <1>2, <1>6, <1>7, <1>8, <1>9, <1>10

\* Where a read of n bytes from off ends.
ReadEnd(inum, off, n) == IF off + n < Len(Flat(inum)) THEN off + n ELSE Len(Flat(inum))

\* What it returns if the inode can be read.
Returned(got, inum, off, n) ==
    /\ got.r = ReadEnd(inum, off, n) - off
    /\ got.data = SubSeq(Flat(inum), off + 1, ReadEnd(inum, off, n))

\* readi returns the contents from the offset on.
LEMMA ReadiContents ==
    ASSUME NEW inum \in Inums, NEW slot, Filled(slot, inum), TypeOf(inum) # "T_NONE",
           NEW off \in 0 .. Len(Flat(inum)), NEW n \in Nat
    PROVE  Returned(readi(slot, off, n), inum, off, n)
<1> DEFINE want == IF off > slot.size THEN 0
                   ELSE IF off + n > slot.size THEN slot.size - off ELSE n
           ends == {k \in 0 .. want : k = want \/ ~Readable(slot, off + k)}
           tot == Least(ends)
           data == [k \in 1 .. tot |-> Cell(slot, off + k - 1)]
           upto == ReadEnd(inum, off, n)
<1>1. PICK m \in Nat :
        /\ Contents(slot, m)
        /\ Len(Flat(inum)) = m
        /\ \A k \in 1 .. m : Flat(inum)[k] = Cell(slot, k - 1)
  BY SlotContents
<1>2. slot.size \in Nat /\ m <= slot.size /\ off \in 0 .. m /\ slot.type # "T_NONE"
  BY <1>1 DEF Filled, CacheSlots, Contents
<1>3. want \in Nat /\ off + want <= slot.size /\ (off + want = slot.size \/ want = n) /\ want <= n
  BY <1>2
<1> HIDE DEF want
<1>4. tot \in ends /\ \A k \in ends : tot <= k
  <2>1. ends \in SUBSET Nat /\ want \in ends
    BY <1>3
  <2> HIDE DEF ends
  <2> QED
    BY <2>1, LeastProps
<1> HIDE DEF tot
<1>5. tot \in 0 .. want /\ (tot = want \/ ~Readable(slot, off + tot))
  BY <1>4
<1>6. \A k \in 0 .. want : ~Readable(slot, off + k) => tot <= k
  BY <1>4
<1> HIDE DEF ends
<1>7. off + tot = upto
  <2> USE DEF ReadEnd
  <2>1. off + tot <= m
    <3>1. SUFFICES ASSUME off + tot > m PROVE FALSE
      BY <1>2, <1>5
    <3>2. m < slot.size
      BY <3>1, <1>2, <1>3, <1>5
    <3>3. ~Readable(slot, m)
      BY <1>1, <3>2 DEF Contents
    <3>4. m - off \in 0 .. want /\ off + (m - off) = m /\ ~(tot <= m - off)
      BY <3>1, <1>2, <1>3, <1>5
    <3> QED
      BY <1>6, <3>3, <3>4
  <2>2. CASE tot = want
    BY <2>1, <2>2, <1>1, <1>2, <1>3
  <2>3. CASE tot # want
    <3>1. ~Readable(slot, off + tot) /\ off + tot \in Nat
      BY <2>3, <1>2, <1>3, <1>5
    <3>2. ~(off + tot \in 0 .. m - 1)
      BY <1>1, <3>1 DEF Contents
    <3>3. off + tot = m /\ tot < n
      BY <2>1, <2>3, <3>1, <3>2, <1>2, <1>3, <1>5
    <3> QED
      BY <3>3, <1>1, <1>2, <1>3, <1>5
  <2> QED
    BY <2>2, <2>3
<1>8. data = SubSeq(Flat(inum), off + 1, upto)
  <2>1. SubSeq(Flat(inum), off + 1, upto) = [k \in 1 .. tot |-> Flat(inum)[off + 1 + k - 1]]
    <3>1. upto - (off + 1) + 1 = tot
      BY <1>2, <1>3, <1>5, <1>7
    <3> HIDE DEF upto
    <3> QED
      BY <3>1, <1>2, <1>3, <1>5, <1>7
  <2>2. ASSUME NEW k \in 1 .. tot PROVE Flat(inum)[off + 1 + k - 1] = Cell(slot, off + k - 1)
    <3>1. off + tot <= m
      BY <1>1, <1>2, <1>3, <1>5, <1>7 DEF ReadEnd
    <3>2. off + k \in 1 .. m /\ off + 1 + k - 1 = off + k
      BY <1>1, <1>2, <1>3, <1>5, <3>1
    <3> QED
      BY <1>1, <3>2
  <2> QED
    BY <2>1, <2>2
<1> HIDE DEF data, upto
<1>9. readi(slot, off, n) = [r |-> tot, data |-> data]
  BY <1>2 DEF readi, want, ends, tot, data
<1>10. tot = upto - off
  BY <1>2, <1>3, <1>5, <1>7
<1>11. readi(slot, off, n).r = tot /\ readi(slot, off, n).data = data
  BY <1>9
<1> QED
  BY <1>8, <1>10, <1>11 DEF Returned, upto

\* What Child returns: an inode, or NULL if no dirent in use has the name.
LEMMA ChildProps ==
    ASSUME NEW dir \in Inums, NEW name
    PROVE  /\ Child(dir, name) \in Inums \union {NULL}
           /\ TypeOf(dir) # "T_DIR" => Child(dir, name) = NULL
           /\ TypeOf(dir) = "T_DIR" /\ Child(dir, name) = NULL =>
                {k \in DOMAIN Flat(dir) : Flat(dir)[k].inum # 0 /\ Flat(dir)[k].name = name} = {}
<1> DEFINE cells == Flat(dir)
           found == {k \in DOMAIN cells : cells[k].inum # 0 /\ cells[k].name = name}
<1>1. TypeOf(dir) # "T_DIR" \/ found = {} => Child(dir, name) = NULL
  BY DEF Child
<1>2. CASE TypeOf(dir) = "T_DIR" /\ found # {}
  <2>1. OnDisk(dir) /\ dinode(dir).type = "T_DIR"
    BY <1>2 DEF TypeOf
  <2>2. PICK n \in Nat : Contents(dinode(dir), n) /\ cells = Upto1(Cells(dinode(dir)), n)
    BY <2>1, FlatProps
  <2>3. DOMAIN cells = 1 .. n /\ \A k \in 1 .. n : cells[k] = Cell(dinode(dir), k - 1)
    <3>1. DOMAIN cells = 1 .. n /\ \A k \in 1 .. n : cells[k] = Cells(dinode(dir))[k]
      BY <2>2 DEF Upto1
    <3>2. \A k \in Nat : Cells(dinode(dir))[k] = Cell(dinode(dir), k - 1)
      BY DEF Cells
    <3>3. \A k \in 1 .. n : k \in Nat
      OBVIOUS
    <3> QED
      BY <3>1, <3>2, <3>3
  <2>4. Child(dir, name) = cells[Least(found)].inum
    BY <1>2 DEF Child
  <2> HIDE DEF cells
  <2>5. Least(found) \in found
    <3>1. found \in SUBSET Nat
      BY <2>3
    <3> QED
      BY <1>2, <3>1, LeastProps
  <2> DEFINE k == Least(found)
  <2>6. k \in 1 .. n /\ cells[k].inum # 0
    BY <2>3, <2>5
  <2> HIDE DEF k, found
  <2>7. k - 1 \in 0 .. dinode(dir).size - 1 /\ Readable(dinode(dir), k - 1)
    <3>1. dinode(dir).size \in Nat
      BY <2>1, DiskAssumption DEF OnDisk, Dinodes
    <3> QED
      BY <2>2, <2>6, <3>1 DEF Contents
  <2>8. Cell(dinode(dir), k - 1).inum \in Inums \union {0}
    BY <2>1, <2>7, DiskAssumption DEF OnDisk
  <2>9. Child(dir, name) \in Inums
    BY <2>3, <2>4, <2>6, <2>8 DEF k
  <2>10. Child(dir, name) # NULL
    BY <2>9, FsAssumption
  <2> QED
    BY <1>2, <2>9, <2>10
<1> QED
  BY <1>1, <1>2

\* Reading one cell of a directory that is cached.
LEMMA ReadOne ==
    ASSUME NEW slot \in CacheSlots, slot.type # "T_NONE", NEW off \in 0 .. slot.size - 1
    PROVE  /\ readi(slot, off, 1).r = 1 <=> Readable(slot, off)
           /\ Readable(slot, off) => readi(slot, off, 1).data[1] = Cell(slot, off)
<1>1. slot.size \in Nat /\ off \in Nat
  BY DEF CacheSlots
<1> DEFINE ends == {k \in 0 .. 1 : k = 1 \/ ~Readable(slot, off + k)}
           tot == Least(ends)
           data == [k \in 1 .. tot |-> Cell(slot, off + k - 1)]
<1>2. readi(slot, off, 1) = [r |-> tot, data |-> data]
  <2> DEFINE want == IF off > slot.size THEN 0
                     ELSE IF off + 1 > slot.size THEN slot.size - off ELSE 1
  <2>1. want = 1
    BY <1>1
  <2>2. readi(slot, off, 1) =
          LET t == Least({k \in 0 .. want : k = want \/ ~Readable(slot, off + k)})
          IN  [r |-> t, data |-> [k \in 1 .. t |-> Cell(slot, off + k - 1)]]
    BY DEF readi
  <2> HIDE DEF want
  <2> QED
    BY <2>1, <2>2
<1>3. tot \in ends /\ \A k \in ends : tot <= k
  <2>1. ends \in SUBSET Nat /\ 1 \in ends
    OBVIOUS
  <2> QED
    BY <2>1, LeastProps
<1> HIDE DEF tot
<1>4. tot = 1 <=> Readable(slot, off)
  <2>1. off + 0 = off
    BY <1>1
  <2> QED
    BY <1>1, <1>3, <2>1
<1>5. tot = 1 => data[1] = Cell(slot, off)
  BY <1>1
<1> HIDE DEF data, ends
<1> QED
  BY <1>2, <1>4, <1>5

\* A search finds the inode that the directory's contents name, and looks it up.
LEMMA DirlookupFinds ==
    ASSUME NEW ic, NEW dp, NEW inum \in Inums, Filled(ic[dp], inum), NEW name
    PROVE  dirlookup(ic, dp, name)
             = IF Child(inum, name) = NULL THEN [ic |-> ic, ip |-> NULL]
               ELSE iget(ic, Child(inum, name))
<1> DEFINE slot == ic[dp]
           read(off) == readi(slot, off, 1)
           stop(r) == r.r # 1 \/ (r.data[1].inum # 0 /\ r.data[1].name = name)
           stops == {off \in 0 .. slot.size - 1 : \E r \in {read(off)} : stop(r)}
           named(c) == c.inum # 0 /\ c.name = name
           bars == {off \in 0 .. slot.size - 1 : ~Readable(slot, off) \/ named(Cell(slot, off))}
           cells == Flat(inum)
           found == {k \in DOMAIN cells : cells[k].inum # 0 /\ cells[k].name = name}
<1>1. CASE slot.type # "T_DIR"
  <2>1. Child(inum, name) = NULL
    BY <1>1, ChildProps DEF Filled
  <2>2. dirlookup(ic, dp, name) = [ic |-> ic, ip |-> NULL]
    BY <1>1 DEF dirlookup
  <2> QED
    BY <2>1, <2>2
<1>2. CASE slot.type = "T_DIR"
  <2>1. slot \in CacheSlots /\ slot.size \in Nat /\ TypeOf(inum) = "T_DIR"
    BY <1>2 DEF Filled, CacheSlots
  <2>2. ASSUME NEW off \in 0 .. slot.size - 1
        PROVE  /\ stop(read(off)) <=> ~Readable(slot, off) \/ named(Cell(slot, off))
               /\ read(off).r = 1 <=> Readable(slot, off)
               /\ Readable(slot, off) => read(off).data[1] = Cell(slot, off)
    <3>1. /\ read(off).r = 1 <=> Readable(slot, off)
          /\ Readable(slot, off) => read(off).data[1] = Cell(slot, off)
      BY <1>2, <2>1, ReadOne
    <3> HIDE DEF read
    <3> QED
      BY <3>1
  <2>3. stops = bars
    <3> HIDE DEF read, stop, named
    <3> QED
      BY <2>2
  <2>4. dirlookup(ic, dp, name)
          = IF stops = {} THEN [ic |-> ic, ip |-> NULL]
            ELSE IF read(Least(stops)).r # 1 THEN [ic |-> ic, ip |-> NULL]
            ELSE iget(ic, read(Least(stops)).data[1].inum)
    BY <1>2 DEF dirlookup
  <2> HIDE DEF stops, read, stop
  <2>5. PICK n \in Nat :
          /\ Contents(slot, n) /\ DOMAIN cells = 1 .. n
          /\ \A k \in 1 .. n : cells[k] = Cell(slot, k - 1)
    <3>1. TypeOf(inum) # "T_NONE"
      BY <2>1
    <3> QED
      BY <3>1, SlotContents
  <2>6. found = {} <=> Child(inum, name) = NULL
    BY <2>1, ChildProps DEF Child
  <2>7. found # {} => Child(inum, name) = cells[Least(found)].inum
    BY <2>1 DEF Child
  <2> HIDE DEF cells
  <2>8. found \in SUBSET Nat /\ bars \in SUBSET Nat
    BY <2>1, <2>5
  <2>9. n <= slot.size /\ (n < slot.size => n \in bars) /\ \A off \in 0 .. n - 1 : Readable(slot, off)
    BY <2>1, <2>5 DEF Contents
  <2>10. ASSUME NEW k \in found PROVE k - 1 \in bars /\ k \in 1 .. n
    <3>1. k \in 1 .. n /\ named(Cell(slot, k - 1))
      BY <2>5
    <3> HIDE DEF named
    <3>2. k - 1 \in 0 .. slot.size - 1
      BY <2>1, <2>9, <3>1
    <3> QED
      BY <3>1, <3>2
  <2>11. ASSUME NEW off \in bars, off < n PROVE off + 1 \in found /\ Readable(slot, off)
    <3>1. off \in 0 .. n - 1 /\ off + 1 \in 1 .. n /\ off + 1 - 1 = off
      BY <2>1, <2>5, <2>11
    <3>2. Readable(slot, off) /\ named(Cell(slot, off))
      BY <2>9, <3>1
    <3> QED
      BY <2>5, <3>1, <3>2
  <2>12. bars # {} => Least(bars) \in bars /\ \A off \in bars : Least(bars) <= off
    BY <2>8, LeastProps
  <2>13. found # {} => Least(found) \in found /\ \A k \in found : Least(found) <= k
    BY <2>8, LeastProps
  <2> DEFINE b == Least(bars)
             f == Least(found)
  <2>14. CASE found = {}
    <3>1. CASE bars = {}
      BY <2>3, <2>4, <2>6, <2>14, <3>1
    <3>2. CASE bars # {}
      <4>1. b \in bars /\ \A off \in bars : b <= off
        BY <2>12, <3>2
      <4> HIDE DEF b
      <4>2. b \in 0 .. slot.size - 1 /\ ~(b < n)
        BY <2>11, <2>14, <4>1
      <4>3. b = n
        BY <2>1, <2>9, <4>1, <4>2
      <4>4. ~Readable(slot, b)
        <5>1. n < slot.size
          BY <2>1, <4>2, <4>3
        <5> QED
          BY <2>5, <4>3, <5>1 DEF Contents
      <4>5. read(b).r # 1
        BY <2>2, <4>2, <4>4
      <4> QED
        BY <2>3, <2>4, <2>6, <2>14, <3>2, <4>5 DEF b
    <3> QED
      BY <3>1, <3>2
  <2>15. CASE found # {}
    <3>1. f \in found /\ \A k \in found : f <= k
      BY <2>13, <2>15
    <3> HIDE DEF f
    <3>2. f - 1 \in bars /\ f \in 1 .. n
      BY <2>10, <3>1
    <3>3. b \in bars /\ \A off \in bars : b <= off
      BY <2>12, <3>2
    <3> HIDE DEF b
    <3>4. b < n /\ b \in 0 .. slot.size - 1
      BY <2>1, <3>2, <3>3
    <3>5. b + 1 \in found /\ Readable(slot, b)
      BY <2>11, <3>3, <3>4
    <3>6. f = b + 1
      BY <3>1, <3>2, <3>3, <3>4, <3>5
    <3>7. read(b).r = 1 /\ read(b).data[1] = Cell(slot, b)
      BY <2>2, <3>4, <3>5
    <3>8. cells[f] = Cell(slot, b)
      <4>1. f - 1 = b
        BY <3>4, <3>6
      <4> QED
        BY <2>5, <3>2, <4>1
    <3>9. dirlookup(ic, dp, name) = iget(ic, read(b).data[1].inum)
      BY <2>3, <2>4, <3>3, <3>7 DEF b
    <3>10. Child(inum, name) = cells[f].inum
      BY <2>7, <2>15 DEF f
    <3> QED
      BY <2>6, <2>15, <3>7, <3>8, <3>9, <3>10
  <2> QED
    BY <2>14, <2>15
<1> QED
  BY <1>1, <1>2

-----------------------------------------------------------------------------
(* The inodes that have been touched                                        *)

\* The inodes that a cache holds.
Known(ic) == {ic[i].inum : i \in {j \in Slots : ic[j].ref > 0}}

\* There are no more of them than slots, and as many when every slot is taken.
LEMMA KnownCount ==
    ASSUME NEW ic, CacheGood(ic)
    PROVE  /\ IsFiniteSet(Known(ic)) /\ Known(ic) \subseteq Inums
           /\ Cardinality(Known(ic)) \in Nat /\ Cardinality(Known(ic)) <= NINODE
           /\ (\A i \in Slots : ic[i].ref > 0) => Cardinality(Known(ic)) = NINODE
<1> DEFINE taken == {j \in Slots : ic[j].ref > 0}
           g == [i \in taken |-> ic[i].inum]
<1>1. IsFiniteSet(Slots) /\ Cardinality(Slots) = NINODE /\ NINODE \in Nat
  <2>1. NINODE \in Nat \ {0}
    BY FsAssumption
  <2>2. IsFiniteSet(0 .. NINODE - 1)
        /\ Cardinality(0 .. NINODE - 1) = IF 0 > NINODE - 1 THEN 0 ELSE NINODE - 1 - 0 + 1
    BY <2>1, FS_Interval
  <2> QED
    BY <2>1, <2>2 DEF Slots
<1>2. /\ IsFiniteSet(taken) /\ Cardinality(taken) <= NINODE
      /\ (\A i \in Slots : ic[i].ref > 0) => taken = Slots
  <2>1. taken \in SUBSET Slots
    OBVIOUS
  <2> QED
    BY <1>1, <2>1, FS_Subset
<1>3. g \in Bijection(taken, Known(ic))
  <2>1. g \in [taken -> Known(ic)]
    BY DEF Known
  <2>2. \A i, j \in taken : g[i] = g[j] => i = j
    BY DEF CacheGood
  <2>3. \A x \in Known(ic) : \E i \in taken : g[i] = x
    BY DEF Known
  <2> QED
    BY <2>1, <2>2, <2>3 DEF Bijection, Injection, Surjection, IsInjective
<1>4. IsFiniteSet(Known(ic)) /\ Cardinality(Known(ic)) = Cardinality(taken)
  <2>1. ExistsBijection(taken, Known(ic))
    BY <1>3 DEF ExistsBijection
  <2> QED
    BY <1>2, <2>1, FS_Bijection
<1>5. Known(ic) \subseteq Inums
  BY DEF Known, CacheGood
<1> HIDE DEF taken, g
<1> QED
  BY <1>1, <1>2, <1>4, <1>5, FS_CardinalityType

\* iget makes the inode known, or finds every slot taken by other inodes.
LEMMA IgetKnown ==
    ASSUME NEW ic, CacheGood(ic), NEW inum \in Inums
    PROVE  LET got == iget(ic, inum)
           IN  \/ /\ got.ip \in Slots /\ got.ic[got.ip].inum = inum
                  /\ Known(got.ic) = Known(ic) \union {inum}
               \/ /\ got.ip = NULL /\ got.ic = ic /\ inum \notin Known(ic)
                  /\ \A i \in Slots : ic[i].ref > 0
<1> DEFINE hits == {i \in Slots : ic[i].ref > 0 /\ ic[i].inum = inum}
           empty == {i \in Slots : ic[i].ref = 0}
           got == iget(ic, inum)
<1>1. hits \in SUBSET Nat /\ empty \in SUBSET Nat
  BY SlotsProps
<1>2. \A i \in Slots : ic[i] \in CacheSlots /\ ic[i].ref \in Nat
  BY DEF CacheGood, CacheSlots
<1>3. CASE hits # {}
  <2> DEFINE h == Least(hits)
             new == [ic EXCEPT ![h].ref = @ + 1]
  <2>1. h \in Slots /\ ic[h].ref > 0 /\ ic[h].inum = inum
    BY <1>1, <1>3, LeastProps
  <2>2. got = [ic |-> new, ip |-> h]
    BY <1>3 DEF iget
  <2> HIDE DEF h
  <2>3. \A i \in Slots : i # h => new[i] = ic[i]
    BY DEF CacheGood
  <2>4. new[h].ref = ic[h].ref + 1 /\ new[h].inum = ic[h].inum
    BY <2>1, <1>2 DEF CacheGood, CacheSlots
  <2> HIDE DEF new
  <2>5. \A i \in Slots : new[i].inum = ic[i].inum /\ (new[i].ref > 0 <=> ic[i].ref > 0)
    BY <2>1, <2>3, <2>4, <1>2
  <2>6. Known(new) = Known(ic) /\ inum \in Known(ic)
    BY <2>1, <2>5 DEF Known
  <2> QED
    BY <2>1, <2>2, <2>4, <2>6
<1>4. CASE hits = {} /\ empty # {}
  <2> DEFINE e == Least(empty)
             new == [ic EXCEPT ![e] = [@ EXCEPT !.inum = inum, !.ref = 1, !.valid = FALSE]]
  <2>1. e \in Slots /\ ic[e].ref = 0
    BY <1>1, <1>4, LeastProps
  <2>2. got = [ic |-> new, ip |-> e]
    BY <1>4 DEF iget
  <2> HIDE DEF e
  <2>3. \A i \in Slots : i # e => new[i] = ic[i]
    BY DEF CacheGood
  <2>4. new[e].ref = 1 /\ new[e].inum = inum
    BY <2>1, <1>2 DEF CacheGood, CacheSlots
  <2> HIDE DEF new
  <2>5. Known(new) = Known(ic) \union {inum}
    BY <2>1, <2>3, <2>4 DEF Known
  <2> QED
    BY <2>1, <2>2, <2>4, <2>5
<1>5. CASE hits = {} /\ empty = {}
  <2>1. got = [ic |-> ic, ip |-> NULL]
    BY <1>5 DEF iget
  <2>2. \A i \in Slots : ic[i].ref > 0
    BY <1>2, <1>5
  <2>3. inum \notin Known(ic)
    BY <1>5 DEF Known
  <2> QED
    BY <2>1, <2>2, <2>3
<1> QED
  BY <1>3, <1>4, <1>5

\* After ilock a slot says what the disk does, and the same inodes are known.
LEMMA IlockReads ==
    ASSUME NEW ic, CacheGood(ic), NEW ip \in Slots, ic[ip].ref > 0
    PROVE  /\ Filled(ilock(ic, ip)[ip], ic[ip].inum)
           /\ Known(ilock(ic, ip)) = Known(ic)
<1> DEFINE new == ilock(ic, ip)
           inum == ic[ip].inum
<1>1. /\ CacheGood(new)
      /\ \A i \in Slots : new[i].ref = ic[i].ref /\ new[i].inum = ic[i].inum
  BY IlockFills
<1>2. new[ip].valid <=> OnDisk(inum)
  <2>1. ic[ip] \in CacheSlots /\ ip # NULL
    BY SlotsProps DEF CacheGood
  <2>2. new[ip].valid => OnDisk(inum)
    <3> HIDE DEF new
    <3> QED
      BY <1>1 DEF CacheGood, OnDisk
  <2>3. CASE ic[ip].valid \/ ~OnDisk(inum)
    <3>1. new = ic
      BY <2>3 DEF ilock, OnDisk
    <3>2. ic[ip].valid => OnDisk(inum)
      BY DEF CacheGood, OnDisk
    <3> QED
      BY <2>1, <2>3, <3>1, <3>2 DEF CacheSlots
  <2>4. CASE ~ic[ip].valid /\ OnDisk(inum)
    <3> DEFINE dip == dinode(inum)
               slot == [ic[ip] EXCEPT !.type = dip.type, !.size = dip.size,
                                      !.addrs = dip.addrs, !.valid = TRUE]
    <3>1. new = [ic EXCEPT ![ip] = slot]
      BY <2>1, <2>4 DEF ilock, OnDisk
    <3>2. slot.valid = TRUE
      BY <2>1 DEF CacheSlots
    <3> HIDE DEF slot
    <3>3. new[ip] = slot
      BY <3>1 DEF CacheGood
    <3> QED
      BY <2>4, <3>2, <3>3
  <2> QED
    BY <2>3, <2>4
<1> HIDE DEF new
<1>3. Filled(new[ip], inum)
  <2>1. new[ip] \in CacheSlots
    BY <1>1 DEF CacheGood
  <2> QED
    BY <1>1, <1>2, <2>1 DEF CacheGood, Filled, TypeOf
<1>4. Known(new) = Known(ic)
  BY <1>1 DEF Known
<1> QED
  BY <1>3, <1>4 DEF new

-----------------------------------------------------------------------------
(* The walk along a path                                                    *)

\* One step of it.
Onward(inum, name) == IF inum = NULL THEN NULL ELSE Child(inum, Elem[name])

\* Walk starts at the root and goes from an inode to its child.
LEMMA WalkUnfolds ==
    ASSUME NEW path \in Seq(Names)
    PROVE  /\ Walk(path) \in [0 .. Len(path) -> Inums \union {NULL}]
           /\ Walk(path)[0] = ROOT_INO
           /\ \A k \in 1 .. Len(path) : Walk(path)[k] = Onward(Walk(path)[k - 1], path[k])
<1> DEFINE n == Len(path)
           Y == Inums \union {NULL}
           step(inum, k) == IF k \in 1 .. n THEN Onward(inum, path[k]) ELSE inum
           G == [k \in Nat |-> [inum \in Y |-> step(inum, k)]]
           at == CHOOSE at : at = [k \in 0 .. Len(path) |->
                   IF k = 0 THEN ROOT_INO
                   ELSE IF at[k - 1] = NULL THEN NULL ELSE Child(at[k - 1], Elem[path[k]])]
<1>1. n \in Nat
  OBVIOUS
<1> HIDE DEF n
<1>2. ASSUME NEW inum \in Y, NEW name PROVE Onward(inum, name) \in Y
  <2>1. CASE inum = NULL
    BY <2>1 DEF Onward
  <2>2. CASE inum # NULL
    <3>1. inum \in Inums
      BY <2>2
    <3>2. Child(inum, Elem[name]) \in Y
      BY <3>1, ChildProps
    <3> QED
      BY <2>2, <3>2 DEF Onward
  <2> QED
    BY <2>1, <2>2
<1>3. G \in StepsOn(Y)
  <2>1. \A inum \in Y, k \in Nat : step(inum, k) \in Y
    <3> HIDE DEF Y
    <3> QED
      BY <1>2
  <2> HIDE DEF step, Y
  <2> QED
    BY <2>1 DEF StepsOn
<1>4. PICK f : Unfolds(f, Y, ROOT_INO, G, n)
  <2>1. ROOT_INO \in Y
    BY FsAssumption
  <2> HIDE DEF G, Y
  <2> QED
    BY <1>1, <1>3, <2>1, RecursionExists
<1> HIDE DEF Y
<1>5. ASSUME NEW k \in 1 .. n PROVE f[k] = Onward(f[k - 1], path[k])
  <2>1. k \in Nat /\ k - 1 \in 0 .. n
    BY <1>1
  <2>2. f[k - 1] \in Y /\ f[k] = G[k][f[k - 1]]
    BY <1>4, <2>1 DEF Unfolds
  <2> QED
    BY <2>1, <2>2
<1>6. f = [k \in 0 .. Len(path) |->
             IF k = 0 THEN ROOT_INO
             ELSE IF f[k - 1] = NULL THEN NULL ELSE Child(f[k - 1], Elem[path[k]])]
  <2>1. f[0] = ROOT_INO /\ f = [k \in 0 .. n |-> f[k]]
    BY <1>4 DEF Unfolds
  <2>2. \A k \in 1 .. n : f[k] = IF f[k - 1] = NULL THEN NULL ELSE Child(f[k - 1], Elem[path[k]])
    BY <1>5 DEF Onward
  <2>3. \A k \in 0 .. n : k # 0 => k \in 1 .. n
    BY <1>1
  <2> QED
    BY <2>1, <2>2, <2>3 DEF n
<1>7. at = [k \in 0 .. Len(path) |->
              IF k = 0 THEN ROOT_INO
              ELSE IF at[k - 1] = NULL THEN NULL ELSE Child(at[k - 1], Elem[path[k]])]
  BY <1>6
<1>8. Walk(path) = at
  BY Zenon DEF Walk
<1> HIDE DEF at
<1>9. at[0] = ROOT_INO /\ \A k \in 1 .. n : at[k] = Onward(at[k - 1], path[k])
  <2>1. \A k \in 0 .. n : at[k] = IF k = 0 THEN ROOT_INO
                              ELSE IF at[k - 1] = NULL THEN NULL ELSE Child(at[k - 1], Elem[path[k]])
    BY <1>7 DEF n
  <2>2. 0 \in 0 .. n /\ \A k \in 1 .. n : k \in 0 .. n /\ k # 0
    BY <1>1
  <2> QED
    BY <2>1, <2>2 DEF Onward
<1> DEFINE T == {k \in 0 .. n : at[k] \in Y}
<1>10. 0 \in T
  BY <1>1, <1>9, FsAssumption DEF Y
<1>11. ASSUME NEW k \in 1 .. n, k - 1 \in T PROVE k \in T
  BY <1>1, <1>2, <1>9, <1>11
<1>12. \A k \in 0 .. n : k \in T
  <2> HIDE DEF T
  <2> QED
    BY <1>1, <1>10, <1>11, SegmentInduction
<1>13. at \in [0 .. n -> Y]
  <2>1. \A k \in 0 .. n : at[k] \in Y
    BY <1>12
  <2>2. at = [k \in 0 .. n |-> at[k]]
    BY <1>7 DEF n
  <2> QED
    BY <2>1, <2>2
<1> QED
  BY <1>8, <1>9, <1>13 DEF n, Y

\* Where namei is when the walk is at inum, having met the inodes of way: at a slot
\* that has it, or at its end as the walk is, or stopped by a full cache.
Follows(at, inum, old, way) ==
    \/ /\ at.ip \in Slots /\ inum # NULL /\ at.ic[at.ip].inum = inum
       /\ Known(at.ic) = old \union way
    \/ /\ at.ip = NULL /\ inum = NULL
       /\ Known(at.ic) = old \union way
    \/ /\ at.ip = NULL
       /\ old \subseteq Known(at.ic) /\ Known(at.ic) \subseteq old \union way
       /\ way \ Known(at.ic) # {}
       /\ \A i \in Slots : at.ic[i].ref > 0

\* iget leads to an inode in this sense.
LEMMA IgetFollows ==
    ASSUME NEW ic, CacheGood(ic), NEW old, NEW way, Known(ic) = old \union way, NEW inum \in Inums
    PROVE  Follows(iget(ic, inum), inum, old, way \union {inum})
<1> DEFINE got == iget(ic, inum)
<1>1. \/ /\ got.ip \in Slots /\ got.ic[got.ip].inum = inum
         /\ Known(got.ic) = Known(ic) \union {inum}
      \/ /\ got.ip = NULL /\ got.ic = ic /\ inum \notin Known(ic)
         /\ \A i \in Slots : ic[i].ref > 0
  BY IgetKnown
<1>2. inum # NULL
  BY FsAssumption
<1> HIDE DEF got
<1>3. Follows(got, inum, old, way \union {inum})
  BY <1>1, <1>2 DEF Follows
<1> QED
  BY <1>3 DEF got

\* A turn of namei's loop does what a step of the walk does.
LEMMA NameiFollows ==
    ASSUME NEW old, NEW way, NEW at \in Places, CacheGood(at.ic),
           at.ip \in Slots => at.ic[at.ip].ref > 0,
           NEW inum \in Inums \union {NULL}, Follows(at, inum, old, way), NEW name
    PROVE  Follows(NameiStep(at, name), Onward(inum, name), old,
                   way \union ({Onward(inum, name)} \ {NULL}))
<1> DEFINE next == Onward(inum, name)
<1>1. CASE at.ip \in Slots
  <2> DEFINE ic == ilock(at.ic, at.ip)
  <2>1. inum \in Inums /\ inum # NULL /\ at.ic[at.ip].inum = inum /\ Known(at.ic) = old \union way
    BY <1>1, SlotsProps DEF Follows
  <2>2. Filled(ic[at.ip], inum) /\ Known(ic) = old \union way
    BY <1>1, <2>1, IlockReads
  <2>3. CacheGood(ic)
    BY <1>1, IlockFills
  <2>4. next = Child(inum, Elem[name])
    BY <2>1 DEF Onward
  <2>5. next \in Inums \union {NULL} /\ (TypeOf(inum) # "T_DIR" => next = NULL)
    BY <2>1, <2>4, ChildProps
  <2>6. NameiStep(at, name) = IF ic[at.ip].type # "T_DIR" THEN [ic |-> ic, ip |-> NULL]
                              ELSE dirlookup(ic, at.ip, Elem[name])
    BY <1>1, SlotsProps DEF NameiStep
  <2> HIDE DEF ic
  <2> HIDE DEF next
  <2>7. dirlookup(ic, at.ip, Elem[name])
          = IF next = NULL THEN [ic |-> ic, ip |-> NULL] ELSE iget(ic, next)
    <3>1. dirlookup(ic, at.ip, Elem[name])
            = IF Child(inum, Elem[name]) = NULL THEN [ic |-> ic, ip |-> NULL]
              ELSE iget(ic, Child(inum, Elem[name]))
      BY <2>1, <2>2, DirlookupFinds
    <3> QED
      BY <2>4, <3>1
  <2>8. CASE next = NULL
    <3>1. NameiStep(at, name) = [ic |-> ic, ip |-> NULL]
      BY <2>6, <2>7, <2>8
    <3>2. Follows([ic |-> ic, ip |-> NULL], NULL, old, way)
      BY <2>2 DEF Follows
    <3>3. way \union ({next} \ {NULL}) = way
      BY <2>8
    <3> QED
      BY <2>8, <3>1, <3>2, <3>3 DEF next
  <2>9. CASE next # NULL
    <3>1. NameiStep(at, name) = iget(ic, next)
      BY <2>2, <2>5, <2>6, <2>7, <2>9 DEF Filled
    <3>2. next \in Inums
      BY <2>5, <2>9
    <3>3. Follows(iget(ic, next), next, old, way \union {next})
      BY <2>2, <2>3, <3>2, IgetFollows
    <3>4. way \union ({next} \ {NULL}) = way \union {next}
      BY <2>9
    <3> QED
      BY <3>1, <3>3, <3>4 DEF next
  <2> QED
    BY <2>8, <2>9
<1>2. CASE at.ip = NULL
  <2>1. NameiStep(at, name) = at
    BY <1>2 DEF NameiStep
  <2>2. CASE inum = NULL
    <3>1. next = NULL /\ way \union ({next} \ {NULL}) = way
      BY <2>2 DEF Onward
    <3> QED
      BY <2>1, <2>2, <3>1
  <2>3. CASE inum # NULL
    <3>1. /\ old \subseteq Known(at.ic) /\ Known(at.ic) \subseteq old \union way
          /\ way \ Known(at.ic) # {}
          /\ \A i \in Slots : at.ic[i].ref > 0
      BY <1>2, <2>3, SlotsProps DEF Follows
    <3> HIDE DEF next
    <3>2. Follows(at, next, old, way \union ({next} \ {NULL}))
      BY <1>2, <3>1 DEF Follows
    <3> QED
      BY <2>1, <3>2 DEF next
  <2> QED
    BY <2>2, <2>3
<1> QED
  BY <1>1, <1>2 DEF Places

\* Where namei ends, against where the walk does.
LEMMA NameiEnds ==
    ASSUME NEW ic, CacheGood(ic), NEW path \in Seq(Names)
    PROVE  Follows(namei(ic, path), Walk(path)[Len(path)], Known(ic), Way(path))
<1> DEFINE n == Len(path)
           Y == {at \in Places : Taken(ic, at)}
           at == Walk(path)
           way(k) == {at[j] : j \in 0 .. k} \ {NULL}
<1>1. ic \in [Slots -> CacheSlots] /\ ROOT_INO \in Inums /\ n \in Nat
  BY FsAssumption DEF CacheGood
<1>2. iget(ic, ROOT_INO) \in Y
  BY <1>1, IgetTakes DEF Taken
<1>3. ASSUME NEW b \in Y, NEW name PROVE NameiStep(b, name) \in Y
  <2>1. Taken(ic, NameiStep(b, name))
    BY <1>1, NameiStepTakes
  <2> QED
    BY <2>1 DEF Taken
<1>4. PICK walk : NameiWalk(walk, Y, ic, path)
  <2> HIDE DEF Y
  <2> QED
    BY <1>2, <1>3, NameiUnfolds
<1>5. /\ at \in [0 .. n -> Inums \union {NULL}] /\ at[0] = ROOT_INO
      /\ \A k \in 1 .. n : at[k] = Onward(at[k - 1], path[k])
  BY WalkUnfolds
<1>6. Way(path) = way(n)
  BY DEF Way
<1> HIDE DEF at, n
<1>7. way(0) = {ROOT_INO}
  <2>1. ROOT_INO # NULL
    BY <1>1, FsAssumption
  <2> QED
    BY <1>5, <2>1
<1>8. ASSUME NEW k \in 1 .. n PROVE way(k) = way(k - 1) \union ({at[k]} \ {NULL})
  <2>1. 0 .. k = (0 .. k - 1) \union {k}
    BY <1>1
  <2> QED
    BY <2>1
<1> HIDE DEF way
<1> DEFINE T == {k \in 0 .. n : Follows(walk[k], at[k], Known(ic), way(k))}
<1>9. 0 \in T
  <2>1. walk[0] = iget(ic, ROOT_INO)
    BY <1>4 DEF NameiWalk
  <2> DEFINE none == {}
  <2>2. Known(ic) = Known(ic) \union none /\ none \union {ROOT_INO} = {ROOT_INO}
    OBVIOUS
  <2> HIDE DEF none
  <2>3. Follows(iget(ic, ROOT_INO), ROOT_INO, Known(ic), none \union {ROOT_INO})
    BY <1>1, <2>2, IgetFollows
  <2>4. Follows(walk[0], at[0], Known(ic), way(0))
    BY <1>5, <1>7, <2>1, <2>2, <2>3
  <2> QED
    BY <1>1, <2>4
<1>10. ASSUME NEW k \in 1 .. n, k - 1 \in T PROVE k \in T
  <2> DEFINE b == walk[k - 1]
  <2>1. k - 1 \in 0 .. n /\ k \in 0 .. n
    BY <1>1
  <2>2. b \in Y /\ walk[k] = NameiStep(b, path[k])
    BY <1>4, <2>1 DEF NameiWalk, n
  <2>3. b \in Places /\ CacheGood(b.ic) /\ (b.ip \in Slots => b.ic[b.ip].ref > 0)
    <3>1. b \in Places /\ Taken(ic, b)
      BY <2>2
    <3>2. \A i \in Slots : ic[i].ref \in Nat /\ b.ic[i].ref \in Nat
      BY <1>1, <3>1 DEF Places, CacheSlots
    <3> HIDE DEF b
    <3> QED
      BY <3>1, <3>2 DEF Taken
  <2>4. at[k - 1] \in Inums \union {NULL} /\ at[k] = Onward(at[k - 1], path[k])
    BY <1>5, <2>1
  <2>5. Follows(b, at[k - 1], Known(ic), way(k - 1))
    BY <1>10
  <2> HIDE DEF b
  <2>6. Follows(NameiStep(b, path[k]), Onward(at[k - 1], path[k]), Known(ic),
                way(k - 1) \union ({Onward(at[k - 1], path[k])} \ {NULL}))
    BY <2>3, <2>4, <2>5, NameiFollows
  <2> QED
    BY <1>8, <2>1, <2>2, <2>4, <2>6
<1> HIDE DEF T
<1>11. n \in T
  <2>1. \A k \in 0 .. n : k \in T
    BY <1>1, <1>9, <1>10, SegmentInduction
  <2> QED
    BY <1>1, <2>1
<1>12. namei(ic, path) = walk[n]
  BY <1>4 DEF NameiWalk, n
<1> QED
  BY <1>6, <1>11, <1>12 DEF T, at, n

\* The inodes on a path are finitely many.
LEMMA WayFinite ==
    ASSUME NEW path \in Seq(Names)
    PROVE  IsFiniteSet(Way(path)) /\ Way(path) \subseteq Inums
<1> DEFINE n == Len(path)
           at == Walk(path)
           met == {at[k] : k \in 0 .. n}
<1>1. n \in Nat /\ at \in [0 .. n -> Inums \union {NULL}]
  BY WalkUnfolds
<1>2. IsFiniteSet(0 .. n)
  BY <1>1, FS_Interval
<1> HIDE DEF n, at
<1>3. at \in Surjection(0 .. n, met)
  BY <1>1 DEF Surjection
<1>4. IsFiniteSet(met)
  BY <1>2, <1>3, FS_Surjection
<1>5. IsFiniteSet(met \ {NULL})
  BY <1>4, FS_RemoveElement
<1>6. Way(path) = met \ {NULL} /\ met \subseteq Inums \union {NULL}
  BY <1>1 DEF Way, n, at
<1> QED
  BY <1>5, <1>6

\* namei succeeds where the walk leads to an inode and there is room for all on the way;
\* in any case what it has touched is on the way.
LEMMA NameiRoom ==
    ASSUME NEW ic, CacheGood(ic), NEW path \in Seq(Names)
    PROVE  LET n    == namei(ic, path)
               end  == Walk(path)[Len(path)]
               fits == Cardinality(Known(ic) \union Way(path)) <= NINODE
           IN  /\ n.ip # NULL <=> end # NULL /\ fits
               /\ n.ip # NULL => /\ n.ip \in Slots /\ n.ic[n.ip].inum = end
                                 /\ Known(n.ic) = Known(ic) \union Way(path)
               /\ \E touched \in SUBSET Way(path) :
                    /\ Known(n.ic) = Known(ic) \union touched
                    /\ Cardinality(Known(n.ic)) <= NINODE
                    /\ fits => touched = Way(path)
<1> DEFINE n == namei(ic, path)
           end == Walk(path)[Len(path)]
           way == Way(path)
           all == Known(ic) \union way
<1>1. CacheGood(n.ic)
  BY NameiTakes DEF Taken
<1>2. Follows(n, end, Known(ic), way)
  BY NameiEnds
<1>3. IsFiniteSet(way)
  BY WayFinite
<1>4. IsFiniteSet(all)
  BY <1>3, KnownCount, FS_Union
<1> HIDE DEF n, end, way
<1>5. Cardinality(Known(n.ic)) <= NINODE /\ Cardinality(Known(n.ic)) \in Nat /\ IsFiniteSet(Known(n.ic))
  BY <1>1, KnownCount
<1>6. NULL \notin Slots
  BY SlotsProps
<1>7. CASE /\ Known(n.ic) = all
           /\ \/ n.ip \in Slots /\ end # NULL /\ n.ic[n.ip].inum = end
              \/ n.ip = NULL /\ end = NULL
  <2> USE DEF n, end, way
  <2> QED
    BY <1>5, <1>6, <1>7
<1>8. CASE /\ n.ip = NULL
           /\ Known(ic) \subseteq Known(n.ic) /\ Known(n.ic) \subseteq all
           /\ way \ Known(n.ic) # {}
           /\ \A i \in Slots : n.ic[i].ref > 0
  <2>1. PICK x \in way : x \notin Known(n.ic)
    BY <1>8
  <2>2. Cardinality(Known(n.ic)) = NINODE /\ NINODE \in Nat
    BY <1>1, <1>5, <1>8, KnownCount
  <2>3. Cardinality(Known(n.ic) \union {x}) = NINODE + 1
    BY <1>5, <2>1, <2>2, FS_AddElement
  <2>4. Known(n.ic) \union {x} \in SUBSET all
    BY <1>8, <2>1
  <2>5. Cardinality(Known(n.ic) \union {x}) <= Cardinality(all) /\ Cardinality(all) \in Nat
    BY <1>4, <2>4, FS_Subset, FS_CardinalityType
  <2>6. ~(Cardinality(all) <= NINODE)
    BY <2>2, <2>3, <2>5
  <2> DEFINE touched == Known(n.ic) \ Known(ic)
  <2>7. touched \in SUBSET way /\ Known(n.ic) = Known(ic) \union touched
    BY <1>8
  <2> HIDE DEF touched
  <2> USE DEF n, end, way
  <2> QED
    BY <1>5, <1>8, <2>6, <2>7
<1>9. \/ /\ Known(n.ic) = all
         /\ \/ n.ip \in Slots /\ end # NULL /\ n.ic[n.ip].inum = end
            \/ n.ip = NULL /\ end = NULL
      \/ /\ n.ip = NULL
         /\ Known(ic) \subseteq Known(n.ic) /\ Known(n.ic) \subseteq all
         /\ way \ Known(n.ic) # {}
         /\ \A i \in Slots : n.ic[i].ref > 0
  BY <1>2 DEF Follows
<1> QED
  BY <1>7, <1>8, <1>9

-----------------------------------------------------------------------------
(* The descriptors                                                          *)

\* No offset is beyond the contents of its inode.
OffsetInv ==
    \A f \in Files :
      LET inum == icache[ftable[f].ip].inum
      IN  ftable[f].ref > 0 /\ TypeOf(inum) # "T_NONE" => ftable[f].off <= Len(Flat(inum))

ReadInv == IInv /\ OffsetInv

\* What a descriptor that names a file stands for.
OpenAs(p, fd) ==
    LET f    == ofile[p][fd]
        inum == icache[ftable[f].ip].inum
    IN  /\ f \in Files /\ ftable[f].ref = 1 /\ ftable[f].readable /\ ftable[f].type = "FD_INODE"
        /\ ftable[f].ip \in Slots /\ icache[ftable[f].ip].ref > 0
        /\ inum \in Inums
        /\ ftable[f].off \in Nat
        /\ TypeOf(inum) # "T_NONE" => ftable[f].off <= Len(Flat(inum))
        /\ AbsFds[p][fd] = [inode |-> inum, pos |-> ftable[f].off]
        /\ AbsFds[p][fd] # NULL
        /\ \A q \in Procs, e \in Fds : ofile[q][e] = f => q = p /\ e = fd

\* Every descriptor that is not NULL does.
LEMMA OpenDescriptor ==
    ASSUME ReadInv, NEW p \in Procs, NEW fd \in Fds, ofile[p][fd] # NULL
    PROVE  OpenAs(p, fd)
<1> DEFINE f == ofile[p][fd]
           inum == icache[ftable[f].ip].inum
<1>1. AbsFds[p][fd] = [inode |-> inum, pos |-> ftable[f].off]
  BY DEF AbsFds
<1>2. f \in Files /\ ftable[f] \in FileEntries
  BY DEF ReadInv, IInv, TypeOK
<1> HIDE DEF f
<1>3. /\ ftable[f].ref = 1 /\ ftable[f].readable /\ ftable[f].type = "FD_INODE"
      /\ \A q \in Procs, e \in Fds : ofile[q][e] = f => q = p /\ e = fd
  BY <1>2 DEF ReadInv, IInv, AccountInv, f
<1>4. ftable[f].ip \in Slots /\ icache[ftable[f].ip].ref > 0 /\ ftable[f].off \in Nat
  BY <1>2, <1>3 DEF ReadInv, IInv, PointedInv, FileEntries
<1>5. inum \in Inums
  BY <1>4 DEF ReadInv, IInv, CacheGood
<1>6. TypeOf(inum) # "T_NONE" => ftable[f].off <= Len(Flat(inum))
  BY <1>2, <1>3 DEF ReadInv, OffsetInv
<1> HIDE DEF inum
<1>7. AbsFds[p][fd] # NULL
  <2>1. [inode |-> inum, pos |-> ftable[f].off] \in [inode : Inums, pos : Nat]
    BY <1>4, <1>5
  <2> QED
    BY <1>1, <2>1, DescriptorAssumption
<1> QED
  BY <1>1, <1>2, <1>3, <1>4, <1>5, <1>6, <1>7 DEF OpenAs, inum, f

\* A descriptor is closed in the abstraction when it is in the table.
LEMMA ClosedDescriptor ==
    ASSUME ReadInv, NEW p \in Procs, NEW fd \in Fds
    PROVE  AbsFds[p][fd] = NULL <=> ofile[p][fd] = NULL
<1>1. ofile[p][fd] = NULL => AbsFds[p][fd] = NULL
  BY DEF AbsFds
<1>2. ASSUME ofile[p][fd] # NULL PROVE AbsFds[p][fd] # NULL
  <2>1. OpenAs(p, fd)
    BY <1>2, OpenDescriptor
  <2> QED
    BY <2>1 DEF OpenAs
<1> QED
  BY <1>1, <1>2

\* The descriptor keeps its meaning while its file and the slot of its inode are kept.
LEMMA KeptDescriptor ==
    ASSUME ReadInv, Grown(icache, icache'), NEW p \in Procs, NEW fd \in Fds,
           ofile'[p][fd] = ofile[p][fd],
           ofile[p][fd] # NULL => /\ ftable'[ofile[p][fd]].ip = ftable[ofile[p][fd]].ip
                                  /\ ftable'[ofile[p][fd]].off = ftable[ofile[p][fd]].off
    PROVE  AbsFds'[p][fd] = AbsFds[p][fd]
<1>1. CASE ofile[p][fd] = NULL
  BY <1>1 DEF AbsFds
<1>2. CASE ofile[p][fd] # NULL
  <2> DEFINE f == ofile[p][fd]
  <2>1. ftable[f].ip \in Slots /\ icache[ftable[f].ip].ref > 0
    <3>1. OpenAs(p, fd)
      BY <1>2, OpenDescriptor
    <3> QED
      BY <3>1 DEF OpenAs
  <2>2. icache'[ftable[f].ip].inum = icache[ftable[f].ip].inum
    BY <2>1 DEF Grown
  <2>3. AbsFds[p][fd] = [inode |-> icache[ftable[f].ip].inum, pos |-> ftable[f].off]
    BY <1>2 DEF AbsFds
  <2>4. AbsFds'[p][fd] = [inode |-> icache'[ftable'[f].ip].inum, pos |-> ftable'[f].off]
    BY <1>2 DEF AbsFds
  <2> QED
    BY <1>2, <2>2, <2>3, <2>4
<1> QED
  BY <1>1, <1>2

\* The abstraction is a table of tables, and is known by its entries.
LEMMA AbsShape ==
    /\ AbsFds = [p \in Procs |-> [fd \in Fds |-> AbsFds[p][fd]]]
    /\ AbsFds' = [p \in Procs |-> [fd \in Fds |-> AbsFds'[p][fd]]]
BY DEF AbsFds

\* All descriptors but one keep their meaning.
LEMMA OneDescriptor ==
    ASSUME NEW p \in Procs, NEW fd \in Fds, NEW v, AbsFds'[p][fd] = v,
           \A q \in Procs, e \in Fds : ~(q = p /\ e = fd) => AbsFds'[q][e] = AbsFds[q][e]
    PROVE  AbsFds' = [AbsFds EXCEPT ![p][fd] = v]
<1> DEFINE a == AbsFds
           b == AbsFds'
<1>1. a = [q \in Procs |-> [e \in Fds |-> a[q][e]]] /\ b = [q \in Procs |-> [e \in Fds |-> b[q][e]]]
  BY AbsShape
<1>2. b[p][fd] = v /\ \A q \in Procs, e \in Fds : ~(q = p /\ e = fd) => b[q][e] = a[q][e]
  OBVIOUS
<1> HIDE DEF a, b
<1> DEFINE row == [a[p] EXCEPT ![fd] = v]
<1>3. b[p] = row
  <2>1. a[p] = [e \in Fds |-> a[p][e]] /\ b[p] = [e \in Fds |-> b[p][e]]
    BY <1>1
  <2>2. row = [e \in Fds |-> IF e = fd THEN v ELSE a[p][e]]
    BY <2>1
  <2>3. \A e \in Fds : b[p][e] = IF e = fd THEN v ELSE a[p][e]
    BY <1>2
  <2> HIDE DEF row
  <2> QED
    BY <2>1, <2>2, <2>3
<1>4. ASSUME NEW q \in Procs, q # p PROVE b[q] = a[q]
  <2>1. a[q] = [e \in Fds |-> a[q][e]] /\ b[q] = [e \in Fds |-> b[q][e]]
    BY <1>1
  <2>2. \A e \in Fds : b[q][e] = a[q][e]
    BY <1>2, <1>4
  <2> QED
    BY <2>1, <2>2
<1>5. b = [a EXCEPT ![p] = row]
  <2>1. DOMAIN a = Procs /\ DOMAIN b = Procs
    BY <1>1
  <2>2. a = [q \in Procs |-> a[q]] /\ b = [q \in Procs |-> b[q]]
    BY <1>1
  <2> HIDE DEF row
  <2> QED
    BY <1>3, <1>4, <2>1, <2>2
<1>6. b = [a EXCEPT ![p][fd] = v]
  BY <1>5, Zenon DEF row
<1> QED
  BY <1>6 DEF a, b

\* Counting the open descriptors is counting the files in use.
LEMMA OpenCount ==
    ASSUME ReadInv
    PROVE  Cardinality(D!AllOpen) < NFILE <=> FreeFiles(ftable) # {}
<1> DEFINE open == D!AllOpen
           busy == Files \ FreeFiles(ftable)
           g == [w \in open |-> ofile[w[1]][w[2]]]
<1>1. open = {w \in Procs \X Fds : ofile[w[1]][w[2]] # NULL}
  <2>1. D!Numbers = Fds
    BY DEF D!Numbers, Fds
  <2>2. \A w \in Procs \X Fds : AbsFds[w[1]][w[2]] # NULL <=> ofile[w[1]][w[2]] # NULL
    BY ClosedDescriptor
  <2> QED
    BY <2>1, <2>2 DEF D!AllOpen
<1> HIDE DEF open
<1>2. \A w \in open : w[1] \in Procs /\ w[2] \in Fds /\ w = <<w[1], w[2]>>
  BY <1>1
<1>3. ASSUME NEW w \in open
      PROVE  /\ g[w] \in busy
             /\ \A v \in open : g[v] = g[w] => v = w
  <2> DEFINE p == w[1]
             fd == w[2]
  <2>1. p \in Procs /\ fd \in Fds /\ ofile[p][fd] # NULL /\ g[w] = ofile[p][fd]
    BY <1>1
  <2> HIDE DEF p, fd, g
  <2>2. /\ g[w] \in Files /\ ftable[g[w]].ref = 1
        /\ \A q \in Procs, e \in Fds : ofile[q][e] = g[w] => q = p /\ e = fd
    <3>1. /\ ofile[p][fd] \in Files /\ ftable[ofile[p][fd]].ref = 1
          /\ \A q \in Procs, e \in Fds : ofile[q][e] = ofile[p][fd] => q = p /\ e = fd
      <4>1. OpenAs(p, fd)
        BY <2>1, OpenDescriptor
      <4> QED
        BY <4>1 DEF OpenAs
    <3> QED
      BY <2>1, <3>1
  <2>3. g[w] \in busy
    BY <2>2 DEF FreeFiles
  <2>4. ASSUME NEW v \in open, g[v] = g[w] PROVE v = w
    <3>1. v = <<v[1], v[2]>> /\ w = <<w[1], w[2]>> /\ v[1] \in Procs /\ v[2] \in Fds
      BY <1>2
    <3>2. g[v] = ofile[v[1]][v[2]]
      BY DEF g
    <3>3. v[1] = p /\ v[2] = fd
      BY <2>2, <2>4, <3>1, <3>2
    <3> QED
      BY <3>1, <3>3 DEF p, fd
  <2> QED
    BY <2>3, <2>4
<1>4. ASSUME NEW f \in busy PROVE \E w \in open : g[w] = f
  <2>1. f \in Files /\ ftable[f].ref # 0
    BY DEF FreeFiles
  <2>2. PICK p \in Procs, fd \in Fds : ofile[p][fd] = f
    BY <2>1 DEF ReadInv, IInv, AccountInv, ClosedFile
  <2>3. <<p, fd>> \in open
    BY <1>1, <2>1, <2>2, TableProps
  <2> QED
    BY <2>2, <2>3
<1>5. g \in Bijection(open, busy)
  <2>1. g \in [open -> busy]
    BY <1>3
  <2> QED
    BY <1>3, <1>4, <2>1 DEF Bijection, Injection, Surjection, IsInjective
<1> HIDE DEF g
<1>6. IsFiniteSet(busy) /\ Cardinality(busy) <= NFILE /\ (Cardinality(busy) = NFILE <=> busy = Files)
  <2>1. IsFiniteSet(Files) /\ busy \in SUBSET Files
    BY TableProps
  <2>2. Cardinality(Files) = NFILE
    <3>1. NFILE \in Nat \ {0}
      BY FsAssumption
    <3>2. Cardinality(0 .. NFILE - 1) = IF 0 > NFILE - 1 THEN 0 ELSE NFILE - 1 - 0 + 1
      BY <3>1, FS_Interval
    <3> QED
      BY <3>1, <3>2 DEF Files
  <2> HIDE DEF busy
  <2> QED
    BY <2>1, <2>2, FS_Subset
<1>7. Cardinality(open) = Cardinality(busy)
  <2>1. g \in Injection(open, busy) /\ g \in Surjection(open, busy)
    BY <1>5 DEF Bijection
  <2> QED
    BY <1>6, <2>1, FS_Injection
<1>8. Cardinality(busy) \in Nat /\ NFILE \in Nat
  BY <1>6, FS_CardinalityType, FsAssumption
<1>9. busy = Files <=> FreeFiles(ftable) = {}
  BY DEF FreeFiles
<1> HIDE DEF busy
<1> QED
  BY <1>6, <1>7, <1>8, <1>9 DEF open

-----------------------------------------------------------------------------
(* The system calls as steps of FdSpec                                      *)

\* What the cache holds is what FdSpec calls known.
LEMMA ReferencedIs == Referenced = Known(icache) /\ Referenced' = Known(icache')
BY DEF Referenced, Known

\* The files that a call does not touch stay within their contents.
LEMMA OffsetsStay ==
    ASSUME ReadInv, CacheGood(icache'), Grown(icache, icache'), ftable' \in [Files -> FileEntries],
           NEW g, \A f \in Files \ {g} : ftable'[f] = ftable[f],
           LET inum == icache'[ftable'[g].ip].inum
           IN  ftable'[g].ref > 0 /\ TypeOf(inum) # "T_NONE" => ftable'[g].off <= Len(Flat(inum))
    PROVE  OffsetInv'
<1>1. ASSUME NEW f \in Files, f # g, ftable'[f].ref > 0, TypeOf(icache'[ftable'[f].ip].inum) # "T_NONE"
      PROVE  ftable'[f].off <= Len(Flat(icache'[ftable'[f].ip].inum))
  <2>1. ftable'[f] = ftable[f]
    BY <1>1
  <2>2. ftable[f].ip \in Slots /\ icache[ftable[f].ip].ref > 0
    BY <1>1, <2>1 DEF ReadInv, IInv, PointedInv
  <2>3. icache'[ftable[f].ip].inum = icache[ftable[f].ip].inum
    BY <2>2 DEF Grown
  <2> QED
    BY <1>1, <2>1, <2>3 DEF ReadInv, OffsetInv
<1>2. \A f \in Files :
        LET inum == icache'[ftable'[f].ip].inum
        IN  ftable'[f].ref > 0 /\ TypeOf(inum) # "T_NONE" => ftable'[f].off <= Len(Flat(inum))
  BY <1>1
<1> QED
  BY <1>2 DEF OffsetInv, TypeOf, OnDisk, Flat

\* A close takes the descriptor out of the abstraction.
LEMMA CloseCloses ==
    ASSUME ReadInv, NEW p \in Procs, NEW fd \in Fds, sys_close(p, fd)
    PROVE  D!Close(p, fd) /\ OffsetInv'
<1> DEFINE f == ofile[p][fd]
<1>1. /\ f # NULL /\ icache' = icache
      /\ ofile' = [ofile EXCEPT ![p][fd] = NULL]
      /\ ftable' = file_close(ftable, f)
      /\ last' = [proc |-> p, call |-> <<"close", fd>>, ret |-> 0, data |-> <<>>]
  BY DEF sys_close, Returns
<1>2. OpenAs(p, fd)
  BY <1>1, OpenDescriptor
<1>3. /\ f \in Files /\ ftable[f].ref = 1 /\ AbsFds[p][fd] # NULL
      /\ \A q \in Procs, e \in Fds : ofile[q][e] = f => q = p /\ e = fd
  BY <1>2 DEF OpenAs
<1>4. ftable' = [ftable EXCEPT ![f] = ClosedFile]
  BY <1>1, <1>3 DEF file_close
<1>5. /\ ftable' \in [Files -> FileEntries] /\ ftable'[f] = ClosedFile
      /\ \A g \in Files : g # f => ftable'[g] = ftable[g]
  <2>1. ClosedFile \in FileEntries
    BY DEF ClosedFile, FileEntries
  <2> QED
    BY <1>3, <1>4, <2>1 DEF ReadInv, IInv, TypeOK
<1>6. \A q \in Procs, e \in Fds : ofile'[q][e] = IF q = p /\ e = fd THEN NULL ELSE ofile[q][e]
  BY <1>1 DEF ReadInv, IInv, TypeOK
<1> HIDE DEF f
<1>7. CacheGood(icache) /\ Grown(icache, icache') /\ CacheGood(icache')
  BY <1>1, GrownTransitive DEF ReadInv, IInv, TypeOK
<1>8. AbsFds'[p][fd] = NULL
  BY <1>6 DEF AbsFds
<1>9. ASSUME NEW q \in Procs, NEW e \in Fds, ~(q = p /\ e = fd)
      PROVE  AbsFds'[q][e] = AbsFds[q][e]
  <2>1. ofile'[q][e] = ofile[q][e] /\ ofile[q][e] # f
    BY <1>3, <1>6, <1>9
  <2>2. ofile[q][e] # NULL => ofile[q][e] \in Files
    BY DEF ReadInv, IInv, TypeOK
  <2>3. ofile[q][e] # NULL => ftable'[ofile[q][e]] = ftable[ofile[q][e]]
    BY <1>5, <2>1, <2>2
  <2> QED
    BY <1>7, <2>1, <2>3, KeptDescriptor
<1>10. AbsFds' = [AbsFds EXCEPT ![p][fd] = NULL]
  BY <1>8, <1>9, OneDescriptor
<1>11. Referenced' = Referenced
  BY <1>1 DEF Referenced
<1>12. OffsetInv'
  <2>1. ftable'[f].ref = 0
    BY <1>5 DEF ClosedFile
  <2> QED
    BY <1>5, <1>7, <2>1, OffsetsStay
<1> QED
  BY <1>1, <1>3, <1>10, <1>11, <1>12 DEF D!Close, D!Return

\* A call with a descriptor that is not open is refused in the abstraction too.
LEMMA BadFdRefused ==
    ASSUME ReadInv, NEW p \in Procs, NEW op, NEW fd \in -1 .. NOFILE, sys_bad_fd(p, op, fd)
    PROVE  D!BadDescriptor(p, op, fd) /\ OffsetInv'
<1>1. /\ fd \in Fds => ofile[p][fd] = NULL
      /\ last' = [proc |-> p, call |-> <<op, fd>>, ret |-> -1, data |-> <<>>]
      /\ UNCHANGED <<icache, ftable, ofile>>
  BY DEF sys_bad_fd, Returns
<1>2. fd \in Fds => AbsFds[p][fd] = NULL
  BY <1>1, ClosedDescriptor
<1>3. AbsFds' = AbsFds /\ Referenced' = Referenced
  BY <1>1 DEF AbsFds, Referenced
<1>4. OffsetInv'
  BY <1>1 DEF ReadInv, OffsetInv, TypeOf, OnDisk, Flat
<1> QED
  BY <1>1, <1>2, <1>3, <1>4 DEF D!BadDescriptor, D!Return, D!Numbers, Fds

\* What file_read does: of an inode that can be read it returns the contents from the
\* offset on and moves the offset past them; of one that cannot it moves nothing.
FileReads(got, ft, f, inum, off, n) ==
    /\ TypeOf(inum) = "T_NONE" => got.r = -1 /\ got.data = <<>> /\ got.ft = ft
    /\ TypeOf(inum) # "T_NONE" =>
         Returned(got, inum, off, n) /\ got.ft[f].off = ReadEnd(inum, off, n)

\* It does that to a file of the table.
LEMMA FileReadContents ==
    ASSUME NEW ic, CacheGood(ic), NEW ft \in [Files -> FileEntries], NEW f \in Files,
           ft[f].readable, ft[f].type = "FD_INODE", NEW ip \in Slots, ft[f].ip = ip,
           ic[ip].ref > 0, NEW inum \in Inums, ic[ip].inum = inum, NEW off \in Nat, ft[f].off = off,
           TypeOf(inum) # "T_NONE" => off <= Len(Flat(inum)), NEW n \in Nat
    PROVE  FileReads(file_read(ic, ft, f, n), ft, f, inum, off, n)
<1> DEFINE locked == ilock(ic, ip)
           got == readi(locked[ip], off, n)
           res == file_read(ic, ft, f, n)
           upto == ReadEnd(inum, off, n)
<1>1. Filled(locked[ip], inum)
  BY IlockReads
<1>2. res = [ic |-> locked, r |-> got.r, data |-> got.data,
             ft |-> IF got.r > 0 THEN [ft EXCEPT ![f].off = @ + got.r] ELSE ft]
  BY DEF file_read
<1> HIDE DEF locked
<1>3. ASSUME TypeOf(inum) = "T_NONE"
      PROVE  res.r = -1 /\ res.data = <<>> /\ res.ft = ft
  <2>1. locked[ip].type = "T_NONE"
    BY <1>1, <1>3 DEF Filled
  <2>2. got = [r |-> -1, data |-> <<>>]
    BY <2>1 DEF readi
  <2> HIDE DEF got
  <2>3. ~(got.r > 0) /\ got.r = -1 /\ got.data = <<>>
    BY <2>2
  <2> QED
    BY <1>2, <2>3
<1>4. ASSUME TypeOf(inum) # "T_NONE"
      PROVE  Returned(res, inum, off, n) /\ res.ft[f].off = upto
  <2>1. Len(Flat(inum)) \in Nat
    <3>1. PICK m \in Nat : Len(Flat(inum)) = m
      BY <1>1, <1>4, SlotContents
    <3> QED
      BY <3>1
  <2>2. off \in 0 .. Len(Flat(inum))
    BY <1>4, <2>1
  <2>3. Returned(got, inum, off, n)
    BY <1>1, <1>4, <2>2, ReadiContents
  <2>4. upto \in Nat /\ upto >= off
    BY <2>1, <2>2 DEF ReadEnd
  <2>7. got.r = upto - off
    BY <2>3 DEF Returned
  <2> HIDE DEF got, upto
  <2>5. res.r = got.r /\ res.data = got.data
    BY <1>2
  <2>6. res.ft[f].off = upto
    <3>1. CASE got.r > 0
      <4>1. res.ft = [ft EXCEPT ![f].off = @ + got.r]
        BY <1>2, <3>1
      <4>2. [ft EXCEPT ![f].off = @ + got.r][f].off = off + got.r
        BY DEF FileEntries
      <4>3. off + got.r = upto
        BY <2>4, <2>7
      <4> HIDE DEF res
      <4> QED
        BY <4>1, <4>2, <4>3
    <3>2. CASE ~(got.r > 0)
      <4>1. res.ft = ft
        BY <1>2, <3>2
      <4>2. upto = off
        BY <2>4, <2>7, <3>2
      <4> HIDE DEF res
      <4> QED
        BY <4>1, <4>2
    <3> QED
      BY <3>1, <3>2
  <2>8. Returned(res, inum, off, n)
    BY <2>3, <2>5 DEF Returned
  <2> QED
    BY <2>6, <2>8
<1> HIDE DEF res
<1>5. FileReads(res, ft, f, inum, off, n)
  BY <1>3, <1>4 DEF FileReads
<1> QED
  BY <1>5 DEF res

\* A read returns the bytes of the file from the descriptor's position on and moves it.
LEMMA ReadReads ==
    ASSUME ReadInv, NEW p \in Procs, NEW fd \in Fds, NEW n \in Sizes, sys_read(p, fd, n)
    PROVE  (D!Read(p, fd, n) \/ D!ReadFails(p, fd, n)) /\ OffsetInv'
<1> DEFINE f == ofile[p][fd]
           ip == ftable[f].ip
           inum == icache[ip].inum
           off == ftable[f].off
           m == IF n > KBUF THEN KBUF ELSE n
           read == file_read(icache, ftable, f, m)
           upto == ReadEnd(inum, off, m)
<1>1. /\ f # NULL /\ icache' = read.ic /\ ftable' = read.ft /\ ofile' = ofile
      /\ last' = [proc |-> p, call |-> <<"read", fd, n>>, ret |-> read.r, data |-> read.data]
  BY DEF sys_read, Returns
<1>2. m \in Nat /\ m = D!Smaller(n, KBUF)
  <2>1. n \in Nat /\ KBUF \in Nat
    BY FsAssumption, TableProps
  <2> QED
    BY <2>1 DEF D!Smaller
<1>3. OpenAs(p, fd)
  BY <1>1, OpenDescriptor
<1>4. /\ f \in Files /\ ftable[f].ref = 1 /\ ftable[f].readable /\ ftable[f].type = "FD_INODE"
      /\ ip \in Slots /\ icache[ip].ref > 0
      /\ inum \in Inums
      /\ off \in Nat
      /\ TypeOf(inum) # "T_NONE" => off <= Len(Flat(inum))
      /\ AbsFds[p][fd] = [inode |-> inum, pos |-> off]
      /\ AbsFds[p][fd] # NULL
      /\ \A q \in Procs, e \in Fds : ofile[q][e] = f => q = p /\ e = fd
  BY <1>3 DEF OpenAs
<1>5. CacheGood(icache) /\ ftable \in [Files -> FileEntries]
  BY DEF ReadInv, IInv, TypeOK
<1>6. ftable[f].ip = ip /\ icache[ip].inum = inum /\ ftable[f].off = off
  OBVIOUS
<1> HIDE DEF f, ip, inum, off, m
<1>7. ReadDone(read, icache, ftable, f, m)
  BY <1>2, <1>4, <1>5, <1>6, FileReadProps
<1>7a. FileReads(read, ftable, f, inum, off, m)
  BY <1>2, <1>4, <1>5, <1>6, FileReadContents
<1> HIDE DEF read
<1>8. /\ TypeOf(inum) = "T_NONE" => read.r = -1 /\ read.data = <<>> /\ read.ft = ftable
      /\ TypeOf(inum) # "T_NONE" =>
           /\ read.r = upto - off /\ read.data = SubSeq(Flat(inum), off + 1, upto)
           /\ read.ft[f].off = upto
  BY <1>7a DEF FileReads, Returned
<1> HIDE DEF upto
<1>9. /\ CacheGood(icache')
      /\ \A i \in Slots : icache'[i].ref = icache[i].ref /\ icache'[i].inum = icache[i].inum
      /\ ftable' \in [Files -> FileEntries]
      /\ \A g \in Files : g # f => ftable'[g] = ftable[g]
      /\ ftable'[f].ref = 1 /\ ftable'[f].ip = ip
  BY <1>1, <1>4, <1>6, <1>7 DEF ReadDone
<1>10. Grown(icache, icache')
  BY <1>5, <1>9 DEF Grown, CacheGood, CacheSlots
<1>11. Referenced' = Referenced
  BY <1>9 DEF Referenced
<1>12. ASSUME NEW q \in Procs, NEW e \in Fds, ~(q = p /\ e = fd)
       PROVE  AbsFds'[q][e] = AbsFds[q][e]
  <2>1. ofile'[q][e] = ofile[q][e] /\ ofile[q][e] # f
    BY <1>1, <1>4, <1>12
  <2>2. ofile[q][e] # NULL => ofile[q][e] \in Files
    BY DEF ReadInv, IInv, TypeOK
  <2>3. ofile[q][e] # NULL => ftable'[ofile[q][e]] = ftable[ofile[q][e]]
    BY <1>9, <2>1, <2>2
  <2> QED
    BY <1>10, <2>1, <2>3, KeptDescriptor
<1>13. AbsFds'[p][fd] = [inode |-> inum, pos |-> ftable'[f].off]
  <2>1. AbsFds'[p][fd] = [inode |-> icache'[ftable'[f].ip].inum, pos |-> ftable'[f].off]
    BY <1>1 DEF AbsFds, f
  <2> QED
    BY <1>4, <1>6, <1>9, <2>1
<1>14. CASE TypeOf(inum) = "T_NONE"
  <2>1. read.r = -1 /\ read.data = <<>> /\ ftable' = ftable
    BY <1>1, <1>8, <1>14
  <2>2. AbsFds'[p][fd] = AbsFds[p][fd]
    BY <1>4, <1>6, <1>13, <2>1
  <2>3. AbsFds' = AbsFds
    <3>1. \A q \in Procs, e \in Fds : AbsFds'[q][e] = AbsFds[q][e]
      BY <1>12, <2>2
    <3> QED
      BY <3>1, AbsShape
  <2>4. AbsFds[p][fd].inode \in NoInode
    BY <1>4, <1>14 DEF NoInode
  <2>5. D!ReadFails(p, fd, n)
    BY <1>1, <1>4, <1>11, <2>1, <2>3, <2>4 DEF D!ReadFails, D!Return
  <2>6. OffsetInv'
    <3>1. TypeOf(icache'[ftable'[f].ip].inum) = "T_NONE"
      BY <1>4, <1>6, <1>9, <1>14
    <3> QED
      BY <1>9, <1>10, <3>1, OffsetsStay
  <2> QED
    BY <2>5, <2>6
<1>15. CASE TypeOf(inum) # "T_NONE"
  <2>1. read.r = upto - off /\ read.data = SubSeq(Flat(inum), off + 1, upto) /\ ftable'[f].off = upto
    BY <1>1, <1>8, <1>15
  <2>2. AbsFds'[p][fd] = [inode |-> inum, pos |-> upto]
    BY <1>13, <2>1
  <2>3. AbsFds' = [AbsFds EXCEPT ![p][fd] = [inode |-> inum, pos |-> upto]]
    BY <1>12, <2>2, OneDescriptor
  <2>4. AbsFds[p][fd].inode = inum /\ AbsFds[p][fd].pos = off /\ inum \in Inums \ NoInode
        /\ Bytes[inum] = Flat(inum)
    BY <1>4, <1>15 DEF NoInode, Bytes
  <2>5. [AbsFds[p][fd] EXCEPT !.pos = upto] = [inode |-> inum, pos |-> upto]
    BY <1>4
  <2>6. AbsFds' = [AbsFds EXCEPT ![p][fd].pos = upto]
    <3>1. [AbsFds EXCEPT ![p][fd].pos = upto]
            = [AbsFds EXCEPT ![p][fd] = [AbsFds[p][fd] EXCEPT !.pos = upto]]
      OBVIOUS
    <3> QED
      BY <2>3, <2>5, <3>1
  <2>7. upto = D!Smaller(off + D!Smaller(n, KBUF), Len(Bytes[inum]))
    BY <1>2, <2>4 DEF upto, ReadEnd, D!Smaller
  <2>8. D!Read(p, fd, n)
    BY <1>1, <1>4, <1>11, <2>1, <2>4, <2>6, <2>7 DEF D!Read, D!Return
  <2>9. OffsetInv'
    <3>1. Len(Flat(inum)) \in Nat
      BY <1>4, <1>15
    <3>2. upto <= Len(Flat(inum))
      BY <3>1, <1>2, <1>4 DEF upto, ReadEnd
    <3>3. icache'[ftable'[f].ip].inum = inum
      BY <1>4, <1>6, <1>9
    <3> QED
      BY <1>9, <1>10, <2>1, <3>2, <3>3, OffsetsStay
  <2> QED
    BY <2>8, <2>9
<1> QED
  BY <1>14, <1>15

\* What an open needs in the abstraction is what the code finds out on its way.
LEMMA OpenNeeds ==
    ASSUME ReadInv, NEW p \in Procs, NEW path \in Paths, NEW omode \in Omodes
    PROVE  /\ D!Closed(p) = FreeFds(p)
           /\ D!Fits(path) <=> Cardinality(Known(icache) \union Way(path)) <= NINODE
           /\ D!MayOpen(p, path, omode) <=>
                /\ namei(icache, path).ip # NULL
                /\ ~WriteMode(omode)
                /\ FreeFiles(ftable) # {}
                /\ FreeFds(p) # {}
<1> DEFINE n == namei(icache, path)
           end == Walk(path)[Len(path)]
           fits == Cardinality(Known(icache) \union Way(path)) <= NINODE
<1>1. path \in Seq(Names) /\ CacheGood(icache)
  BY FsAssumption DEF ReadInv, IInv
<1>2. n.ip # NULL <=> end # NULL /\ fits
  BY <1>1, NameiRoom
<1>3. D!Closed(p) = FreeFds(p)
  BY ClosedDescriptor DEF D!Closed, D!Numbers, FreeFds, Fds
<1>4. D!Fits(path) <=> fits
  <2>1. D!Cardinality(Known(icache) \union Way(path)) = Cardinality(Known(icache) \union Way(path))
    BY Zenon DEF D!Cardinality, Cardinality
  <2> QED
    BY <2>1, ReferencedIs DEF D!Fits, OnTheWay
<1>5. omode \subseteq {"O_CREATE"} <=> ~WriteMode(omode)
  <2>1. omode \subseteq {"O_CREATE", "O_WRONLY", "O_RDWR"}
    BY FsAssumption
  <2> QED
    BY <2>1 DEF WriteMode
<1>6. Resolved[path] = end
  BY DEF Resolved
<1> HIDE DEF n, end, fits
<1>7. D!MayOpen(p, path, omode) <=>
        end # NULL /\ ~WriteMode(omode) /\ fits /\ FreeFds(p) # {} /\ FreeFiles(ftable) # {}
  <2>1. D!Cardinality(D!AllOpen) = Cardinality(D!AllOpen)
    BY Zenon DEF D!Cardinality, Cardinality
  <2> QED
    BY <1>3, <1>4, <1>5, <1>6, <2>1, OpenCount DEF D!MayOpen
<1> QED
  BY <1>2, <1>3, <1>4, <1>7 DEF n, fits

\* An open that leaves the tables as they were fails in the abstraction.
LEMMA OpenRefused ==
    ASSUME ReadInv, NEW p \in Procs, NEW path \in Paths, NEW omode \in Omodes,
           ~D!MayOpen(p, path, omode), icache' = namei(icache, path).ic,
           ftable' = ftable, ofile' = ofile,
           last' = [proc |-> p, call |-> <<"open", path, omode>>, ret |-> -1, data |-> <<>>]
    PROVE  D!OpenFails(p, path, omode) /\ OffsetInv'
<1> DEFINE n == namei(icache, path)
           fits == Cardinality(Known(icache) \union Way(path)) <= NINODE
<1>1. path \in Seq(Names) /\ CacheGood(icache)
  BY FsAssumption DEF ReadInv, IInv
<1>2. PICK touched \in SUBSET Way(path) :
        /\ Known(n.ic) = Known(icache) \union touched
        /\ Cardinality(Known(n.ic)) <= NINODE
        /\ fits => touched = Way(path)
  BY <1>1, NameiRoom
<1>3. Taken(icache, n)
  BY <1>1, NameiTakes
<1> HIDE DEF n
<1>4. CacheGood(icache') /\ Grown(icache, icache')
  BY <1>3 DEF Taken, n
<1>5. Known(icache') = Known(icache) \union touched /\ Cardinality(Known(icache')) <= NINODE
  BY <1>2 DEF n
<1>6. AbsFds' = AbsFds
  <2>1. ASSUME NEW q \in Procs, NEW e \in Fds PROVE AbsFds'[q][e] = AbsFds[q][e]
    <3>1. ofile'[q][e] = ofile[q][e]
      OBVIOUS
    <3>2. ofile[q][e] # NULL => /\ ftable'[ofile[q][e]].ip = ftable[ofile[q][e]].ip
                                /\ ftable'[ofile[q][e]].off = ftable[ofile[q][e]].off
      OBVIOUS
    <3> QED
      BY <1>4, <3>1, <3>2, KeptDescriptor
  <2> QED
    BY <2>1, AbsShape
<1>7. OffsetInv'
  <2>1. ASSUME NEW f \in Files, ftable'[f].ref > 0, TypeOf(icache'[ftable'[f].ip].inum) # "T_NONE"
        PROVE  ftable'[f].off <= Len(Flat(icache'[ftable'[f].ip].inum))
    <3>1. ftable[f].ip \in Slots /\ icache[ftable[f].ip].ref > 0
      BY <2>1 DEF ReadInv, IInv, PointedInv
    <3>2. icache'[ftable[f].ip].inum = icache[ftable[f].ip].inum
      BY <1>4, <3>1 DEF Grown
    <3> QED
      BY <2>1, <3>2 DEF ReadInv, OffsetInv
  <2>2. \A f \in Files :
          LET inum == icache'[ftable'[f].ip].inum
          IN  ftable'[f].ref > 0 /\ TypeOf(inum) # "T_NONE" => ftable'[f].off <= Len(Flat(inum))
    BY <2>1
  <2> QED
    BY <2>2 DEF OffsetInv, TypeOf, OnDisk, Flat
<1>8. D!Fits(path) => touched = OnTheWay[path]
  BY <1>2, OpenNeeds DEF fits, OnTheWay
<1>9. D!Cardinality(Referenced') <= NINODE
  <2>1. D!Cardinality(Known(icache')) = Cardinality(Known(icache'))
    BY Zenon DEF D!Cardinality, Cardinality
  <2> QED
    BY <1>5, <2>1, ReferencedIs
<1>10. touched \in SUBSET OnTheWay[path] /\ Referenced' = Referenced \union touched
  BY <1>5, ReferencedIs DEF OnTheWay
<1>11. D!Return(p, <<"open", path, omode>>, -1, <<>>)
  BY DEF D!Return
<1>12. D!OpenFails(p, path, omode)
  BY <1>6, <1>8, <1>9, <1>10, <1>11 DEF D!OpenFails
<1> QED
  BY <1>7, <1>12

\* An open takes the lowest closed descriptor and stands at the start of the inode
\* the path leads to, or fails and disturbs no descriptor.
LEMMA OpenOpens ==
    ASSUME ReadInv, NEW p \in Procs, NEW path \in Paths, NEW omode \in Omodes,
           sys_open(p, path, omode)
    PROVE  (D!Open(p, path, omode) \/ D!OpenFails(p, path, omode)) /\ OffsetInv'
<1> DEFINE n == namei(icache, path)
           f == Least(FreeFiles(ftable))
           fd == Least(FreeFds(p))
           got == file_open(icache, ftable, path, omode)
           call == <<"open", path, omode>>
           refused == n.ip = NULL \/ WriteMode(omode) \/ FreeFiles(ftable) = {}
           end == Walk(path)[Len(path)]
           fits == Cardinality(Known(icache) \union Way(path)) <= NINODE
<1>1. /\ CacheGood(icache) /\ path \in Seq(Names)
      /\ ftable \in [Files -> FileEntries]
      /\ ofile \in [Procs -> [Fds -> Files \union {NULL}]]
  BY FsAssumption DEF ReadInv, IInv, TypeOK
<1>2. /\ icache' = got.ic
      /\ \/ /\ got.f = NULL
            /\ UNCHANGED <<ftable, ofile>>
            /\ Returns(p, call, -1, <<>>)
         \/ /\ got.f # NULL
            /\ FreeFds(p) = {}
            /\ ftable' = file_close(got.ft, got.f)
            /\ UNCHANGED ofile
            /\ Returns(p, call, -1, <<>>)
         \/ /\ got.f # NULL
            /\ FreeFds(p) # {}
            /\ ftable' = got.ft
            /\ ofile' = [ofile EXCEPT ![p][fd] = got.f]
            /\ Returns(p, call, fd, <<>>)
  BY DEF sys_open
<1>3. got = IF refused THEN [ic |-> n.ic, ft |-> ftable, f |-> NULL]
            ELSE [ic |-> n.ic, ft |-> [ftable EXCEPT ![f] = OpenedFile(n.ip)], f |-> f]
  BY DEF file_open
<1>4. Taken(icache, n)
  BY <1>1, NameiTakes
<1>5. /\ n.ip # NULL <=> end # NULL /\ fits
      /\ n.ip # NULL => /\ n.ip \in Slots /\ n.ic[n.ip].inum = end
                        /\ Known(n.ic) = Known(icache) \union Way(path)
  <2>1. n.ip # NULL <=> end # NULL /\ fits
    BY <1>1, NameiRoom
  <2>2. n.ip # NULL => n.ip \in Slots
    BY <1>1, NameiRoom
  <2>3. n.ip # NULL => n.ic[n.ip].inum = end
    BY <1>1, NameiRoom
  <2>4. n.ip # NULL => Known(n.ic) = Known(icache) \union Way(path)
    BY <1>1, NameiRoom
  <2> HIDE DEF n, end, fits
  <2> QED
    BY <2>1, <2>2, <2>3, <2>4
<1>6. D!Closed(p) = FreeFds(p) /\ (D!MayOpen(p, path, omode) <=> ~refused /\ FreeFds(p) # {})
  BY OpenNeeds
<1> HIDE DEF n, got, end, fits
<1>7. CASE got.f = NULL /\ UNCHANGED <<ftable, ofile>> /\ Returns(p, call, -1, <<>>)
  <2>1. refused
    <3> SUFFICES ASSUME ~refused PROVE FALSE
      OBVIOUS
    <3>1. got.f = f
      BY <1>3
    <3>2. FreeFiles(ftable) \in SUBSET Nat /\ FreeFiles(ftable) # {}
      BY TableProps DEF FreeFiles
    <3>3. f \in FreeFiles(ftable)
      BY <3>2, LeastProps
    <3> HIDE DEF f
    <3> QED
      BY <1>7, <3>1, <3>3, TableProps DEF FreeFiles
  <2>2. icache' = n.ic
    BY <1>2, <1>3, <2>1
  <2> QED
    BY <1>6, <1>7, <2>1, <2>2, OpenRefused DEF Returns, n
<1>8. ASSUME got.f # NULL
      PROVE  /\ ~refused /\ n.ip # NULL /\ got.f = f /\ icache' = n.ic
             /\ f \in Files /\ ftable[f].ref = 0 /\ ftable[f] = ClosedFile
             /\ \A q \in Procs, e \in Fds : ofile[q][e] # f
             /\ n.ip \in Slots
             /\ got.ft \in [Files -> FileEntries]
             /\ got.ft[f] = OpenedFile(n.ip)
             /\ \A g \in Files \ {f} : got.ft[g] = ftable[g]
  <2>1. ~refused
    BY <1>3, <1>8
  <2>2. got.f = f /\ icache' = n.ic /\ got.ft = [ftable EXCEPT ![f] = OpenedFile(n.ip)]
    BY <1>2, <1>3, <2>1
  <2>3. FreeFiles(ftable) \in SUBSET Nat /\ FreeFiles(ftable) # {}
    BY <2>1, TableProps DEF FreeFiles
  <2>4. f \in FreeFiles(ftable)
    BY <2>3, LeastProps
  <2> HIDE DEF f
  <2>5. f \in Files /\ ftable[f].ref = 0
    BY <2>4 DEF FreeFiles
  <2>6. ftable[f] = ClosedFile /\ \A q \in Procs, e \in Fds : ofile[q][e] # f
    BY <2>5 DEF ReadInv, IInv, AccountInv
  <2>7. n.ip \in Slots
    BY <1>5, <2>1
  <2>8. OpenedFile(n.ip) \in FileEntries
    BY <2>7 DEF OpenedFile, FileEntries
  <2> QED
    BY <1>1, <2>1, <2>2, <2>5, <2>6, <2>7, <2>8
<1> HIDE DEF f
<1>9. CASE /\ got.f # NULL
           /\ FreeFds(p) = {}
           /\ ftable' = file_close(got.ft, got.f)
           /\ UNCHANGED ofile
           /\ Returns(p, call, -1, <<>>)
  <2>1. ftable' = [got.ft EXCEPT ![f] = ClosedFile]
    BY <1>8, <1>9 DEF file_close, OpenedFile
  <2>2. ftable' = ftable
    BY <1>1, <1>8, <1>9, <2>1
  <2>3. icache' = namei(icache, path).ic
    BY <1>8, <1>9 DEF n
  <2> QED
    BY <1>6, <1>9, <2>2, <2>3, OpenRefused DEF Returns
<1>10. CASE /\ got.f # NULL
            /\ FreeFds(p) # {}
            /\ ftable' = got.ft
            /\ ofile' = [ofile EXCEPT ![p][fd] = got.f]
            /\ Returns(p, call, fd, <<>>)
  <2>1. /\ ~refused /\ n.ip # NULL /\ got.f = f /\ icache' = n.ic
        /\ f \in Files /\ ftable[f].ref = 0
        /\ \A q \in Procs, e \in Fds : ofile[q][e] # f
        /\ n.ip \in Slots
        /\ ftable' \in [Files -> FileEntries]
        /\ ftable'[f] = OpenedFile(n.ip)
        /\ \A g \in Files \ {f} : ftable'[g] = ftable[g]
    BY <1>8, <1>10
  <2>2. fd \in FreeFds(p) /\ \A e \in FreeFds(p) : fd <= e
    <3>1. FreeFds(p) \in SUBSET Nat
      BY TableProps DEF FreeFds
    <3> QED
      BY <1>10, <3>1, LeastProps
  <2>3. fd \in Fds /\ ofile[p][fd] = NULL
    BY <2>2 DEF FreeFds
  <2> HIDE DEF fd
  <2>4. \A q \in Procs, e \in Fds : ofile'[q][e] = IF q = p /\ e = fd THEN f ELSE ofile[q][e]
    BY <1>1, <1>10, <2>1, <2>3
  <2>5. CacheGood(icache') /\ Grown(icache, icache')
    BY <1>4, <2>1 DEF Taken
  <2>6. icache'[n.ip].inum = end /\ Known(icache') = Known(icache) \union Way(path)
    BY <1>5, <2>1
  <2>7. AbsFds'[p][fd] = [inode |-> end, pos |-> 0]
    <3>1. f # NULL
      BY <2>1, TableProps
    <3>2. ofile'[p][fd] = f
      BY <2>3, <2>4
    <3>3. AbsFds'[p][fd] = [inode |-> icache'[ftable'[f].ip].inum, pos |-> ftable'[f].off]
      BY <2>3, <3>1, <3>2 DEF AbsFds
    <3>4. ftable'[f].ip = n.ip /\ ftable'[f].off = 0
      BY <2>1 DEF OpenedFile
    <3> QED
      BY <2>6, <3>3, <3>4
  <2>8. ASSUME NEW q \in Procs, NEW e \in Fds, ~(q = p /\ e = fd)
        PROVE  AbsFds'[q][e] = AbsFds[q][e]
    <3>1. ofile'[q][e] = ofile[q][e] /\ ofile[q][e] # f
      BY <2>1, <2>4, <2>8
    <3>2. ofile[q][e] # NULL => ofile[q][e] \in Files
      BY <1>1
    <3>3. ofile[q][e] # NULL => ftable'[ofile[q][e]] = ftable[ofile[q][e]]
      BY <2>1, <3>1, <3>2
    <3> QED
      BY <2>5, <3>1, <3>3, KeptDescriptor
  <2>9. AbsFds' = [AbsFds EXCEPT ![p][fd] = [inode |-> end, pos |-> 0]]
    BY <2>3, <2>7, <2>8, OneDescriptor
  <2>10. OffsetInv'
    <3>1. ASSUME ftable'[f].ref > 0, TypeOf(icache'[ftable'[f].ip].inum) # "T_NONE"
          PROVE  ftable'[f].off <= Len(Flat(icache'[ftable'[f].ip].inum))
      <4>1. ftable'[f].ip = n.ip /\ ftable'[f].off = 0
        BY <2>1 DEF OpenedFile
      <4> DEFINE inum == icache'[ftable'[f].ip].inum
      <4>2. icache'[n.ip].ref > 0
        <5>1. icache[n.ip].ref \in Nat /\ icache'[n.ip].ref \in Nat
          BY <1>1, <2>1, <2>5 DEF CacheGood, CacheSlots
        <5>2. icache[n.ip].ref < icache'[n.ip].ref
          BY <1>4, <2>1 DEF Taken
        <5> QED
          BY <5>1, <5>2
      <4>3. inum \in Inums /\ OnDisk(inum)
        BY <2>1, <2>5, <3>1, <4>1, <4>2 DEF CacheGood, TypeOf
      <4> HIDE DEF inum
      <4>4. PICK m \in Nat : Flat(inum) = Upto1(Cells(dinode(inum)), m)
        BY <4>3, FlatProps
      <4>5. Len(Flat(inum)) = m
        BY <4>4 DEF Upto1
      <4> QED
        BY <4>1, <4>5 DEF inum
    <3> QED
      BY <2>1, <2>5, <3>1, OffsetsStay
  <2>11. /\ \E d \in D!Closed(p) :
              /\ \A e \in D!Closed(p) : d <= e
              /\ D!Return(p, call, d, <<>>)
              /\ AbsFds' = [AbsFds EXCEPT ![p][d] = [inode |-> Resolved[path], pos |-> 0]]
         /\ Referenced' = Referenced \union OnTheWay[path]
         /\ D!MayOpen(p, path, omode)
    <3>1. Resolved[path] = end /\ OnTheWay[path] = Way(path)
      BY DEF Resolved, OnTheWay, end
    <3>2. Referenced' = Referenced \union OnTheWay[path]
      BY <2>6, <3>1, ReferencedIs
    <3>3. D!Return(p, call, fd, <<>>)
      BY <1>10 DEF D!Return, Returns, fd
    <3>4. D!MayOpen(p, path, omode)
      BY <1>6, <1>10, <2>1
    <3> QED
      BY <1>6, <2>2, <2>9, <3>1, <3>2, <3>3, <3>4
  <2>12. D!Open(p, path, omode)
    BY <2>11 DEF D!Open
  <2> QED
    BY <2>10, <2>12
<1> QED
  BY <1>2, <1>7, <1>9, <1>10

-----------------------------------------------------------------------------
(* Fs implements FdSpec                                                     *)

\* Filling the slot that has just been taken, if there is one, takes no inode more.
LEMMA FilledKnown ==
    ASSUME NEW ic, CacheGood(ic), NEW at, Taken(ic, at)
    PROVE  CacheGood(ilock(at.ic, at.ip)) /\ Known(ilock(at.ic, at.ip)) = Known(at.ic)
<1>1. CacheGood(ilock(at.ic, at.ip))
  BY TakenFilled
<1>2. CASE at.ip = NULL
  <2>1. ilock(at.ic, at.ip) = at.ic
    BY <1>2 DEF ilock
  <2> QED
    BY <1>1, <2>1
<1>3. CASE at.ip \in Slots
  <2>1. CacheGood(at.ic) /\ at.ic[at.ip].ref > 0
    <3>1. CacheGood(at.ic) /\ ic[at.ip].ref < at.ic[at.ip].ref
      BY <1>3 DEF Taken
    <3>2. ic[at.ip].ref \in Nat /\ at.ic[at.ip].ref \in Nat
      BY <1>3, <3>1 DEF CacheGood, CacheSlots
    <3> QED
      BY <3>1, <3>2
  <2> QED
    BY <1>1, <1>3, <2>1, IlockReads
<1> QED
  BY <1>2, <1>3 DEF Taken, Places

\* The tests of fs_init touch the inode of /hello and those on the way to it.
LEMMA BootKnown ==
    ASSUME NEW boot \in Boots
    PROVE  Known(boot.ic) = {HELLO_INO} \union Way(HelloPath)
<1> DEFINE h == iget(inode_init, HELLO_INO)
           ic1 == InodeTest(inode_init)
           n1 == namei(ic1, HelloPath)
           ic2 == NameiTest(ic1)
           closed == [f \in Files |-> ClosedFile]
           opened == file_open(ic2, closed, HelloPath, {})
           n2 == namei(ic2, HelloPath)
           read == file_read(opened.ic, opened.ft, opened.f, KBUF)
<1>1. CacheGood(inode_init) /\ Known(inode_init) = {}
  <2>1. EmptySlot \in CacheSlots
    BY FsAssumption DEF EmptySlot, CacheSlots
  <2> QED
    BY <2>1 DEF CacheGood, inode_init, EmptySlot, Known
<1>2. Taken(inode_init, h) /\ Known(h.ic) = {HELLO_INO}
  <2>1. HELLO_INO \in Inums /\ 0 \in Slots
    BY FsAssumption DEF Slots
  <2>2. inode_init[0].ref = 0
    BY <2>1 DEF inode_init, EmptySlot
  <2>3. Taken(inode_init, h)
    BY <1>1, <2>1, IgetTakes
  <2>4. \/ Known(h.ic) = Known(inode_init) \union {HELLO_INO}
        \/ \A i \in Slots : inode_init[i].ref > 0
    BY <1>1, <2>1, IgetKnown
  <2> QED
    BY <1>1, <2>1, <2>2, <2>3, <2>4
<1>3. ic1 = ilock(h.ic, h.ip)
  BY DEF InodeTest
<1> HIDE DEF h
<1>4. CacheGood(ic1) /\ Known(ic1) = {HELLO_INO}
  BY <1>1, <1>2, <1>3, FilledKnown
<1>5. HelloPath \in Seq(Names)
  BY FsAssumption
<1>6. ic2 = ilock(n1.ic, n1.ip)
  BY DEF NameiTest
<1> HIDE DEF ic1
<1>7. Taken(ic1, n1)
  BY <1>4, <1>5, NameiTakes
<1>8. PICK touched \in SUBSET Way(HelloPath) : Known(n1.ic) = Known(ic1) \union touched
  BY <1>4, <1>5, NameiRoom
<1> HIDE DEF n1
<1>9. CacheGood(ic2) /\ Known(ic2) = {HELLO_INO} \union touched
  BY <1>4, <1>6, <1>7, <1>8, FilledKnown
<1>10. /\ boot = IF opened.f = NULL THEN [ic |-> opened.ic, ft |-> opened.ft, r |-> -1]
              ELSE [ic |-> read.ic, r |-> read.r,
                    ft |-> IF read.r < 0 THEN read.ft ELSE file_close(read.ft, opened.f)]
       /\ boot.r >= 0
  BY BootAssumption DEF Boots, ReadTest, OpenTest, ic1, ic2
<1> HIDE DEF ic2
<1>11. opened.f # NULL
  <2> HIDE DEF opened, read
  <2>1. CASE opened.f = NULL
    <3>1. boot.r = -1
      BY <1>10, <2>1
    <3> QED
      BY <1>10, <3>1
  <2> QED
    BY <2>1
<1>12. boot.ic = read.ic
  <2> HIDE DEF opened, read
  <2> QED
    BY <1>10, <1>11
<1> DEFINE f == Least(FreeFiles(closed))
<1>13. /\ n2.ip # NULL
       /\ opened = [ic |-> n2.ic, ft |-> [closed EXCEPT ![f] = OpenedFile(n2.ip)], f |-> f]
  BY <1>11 DEF file_open
<1>14. Taken(ic2, n2)
  BY <1>5, <1>9, NameiTakes
<1>15. n2.ip \in Slots /\ Known(n2.ic) = Known(ic2) \union Way(HelloPath)
  <2>1. n2.ip # NULL => n2.ip \in Slots
    BY <1>5, <1>9, NameiRoom
  <2>2. n2.ip # NULL => Known(n2.ic) = Known(ic2) \union Way(HelloPath)
    BY <1>5, <1>9, NameiRoom
  <2> QED
    BY <1>13, <2>1, <2>2
<1> HIDE DEF n2
<1>16. /\ opened.ic = n2.ic /\ opened.f = f /\ f \in Files
       /\ opened.ft[f] = OpenedFile(n2.ip)
  <2>1. closed = [g \in Files |-> closed[g]] /\ \A g \in Files : closed[g].ref = 0
    BY DEF ClosedFile
  <2>2. 0 \in Files
    BY FsAssumption DEF Files
  <2>3. FreeFiles(closed) \in SUBSET Nat /\ FreeFiles(closed) # {}
    BY <2>1, <2>2, TableProps DEF FreeFiles
  <2>4. f \in Files
    <3>1. f \in FreeFiles(closed)
      BY <2>3, LeastProps
    <3> QED
      BY <3>1 DEF FreeFiles
  <2> HIDE DEF f, closed, opened
  <2>5. [closed EXCEPT ![f] = OpenedFile(n2.ip)][f] = OpenedFile(n2.ip)
    BY <2>1, <2>4
  <2> QED
    BY <1>13, <2>4, <2>5
<1> HIDE DEF opened, f
<1>17. read.ic = ilock(n2.ic, n2.ip)
  BY <1>16 DEF file_read, OpenedFile
<1> HIDE DEF read
<1>18. Known(read.ic) = Known(n2.ic)
  BY <1>9, <1>14, <1>17, FilledKnown
<1> QED
  BY <1>9, <1>12, <1>15, <1>18

\* The tables after fs_init are those of the abstraction before the first call.
LEMMA BootMaps == Init => D!FdInit /\ OffsetInv
<1> SUFFICES ASSUME Init PROVE D!FdInit /\ OffsetInv
  OBVIOUS
<1>1. /\ ofile = [p \in Procs |-> [fd \in Fds |-> NULL]]
      /\ last = [proc |-> NULL, call |-> <<>>, ret |-> 0, data |-> <<>>]
  BY DEF Init
<1>2. PICK boot \in Boots : icache = boot.ic /\ ftable = boot.ft
  BY DEF Init
<1>3. ftable = [f \in Files |-> ClosedFile]
  BY <1>2, BootProps
<1>4. Referenced = {HELLO_INO} \union Way(HelloPath)
  BY <1>2, BootKnown, ReferencedIs
<1>5. AbsFds = [p \in Procs |-> [fd \in D!Numbers |-> NULL]]
  BY <1>1 DEF AbsFds, D!Numbers, Fds
<1>6. OffsetInv
  BY <1>3 DEF OffsetInv, ClosedFile
<1> QED
  BY <1>1, <1>4, <1>5, <1>6 DEF D!FdInit

\* Every step is one of the abstraction or leaves it alone, and keeps the offsets.
LEMMA StepMaps == ReadInv /\ [Next]_vars => [D!FdNext]_(D!fdVars) /\ OffsetInv'
<1> SUFFICES ASSUME ReadInv, [Next]_vars PROVE [D!FdNext]_(D!fdVars) /\ OffsetInv'
  OBVIOUS
<1>1. CASE UNCHANGED vars
  <2>1. AbsFds' = AbsFds /\ Referenced' = Referenced /\ last' = last
    BY <1>1 DEF vars, AbsFds, Referenced
  <2>2. OffsetInv'
    BY <1>1 DEF vars, ReadInv, OffsetInv, TypeOf, OnDisk, Flat
  <2> QED
    BY <2>1, <2>2 DEF D!fdVars
<1>2. CASE Next
  <2>1. PICK p \in Procs :
          \/ \E path \in Paths, omode \in Omodes : sys_open(p, path, omode)
          \/ \E op \in {"read", "close"}, fd \in -1 .. NOFILE : sys_bad_fd(p, op, fd)
          \/ \E fd \in Fds, n \in Sizes : sys_read(p, fd, n)
          \/ \E fd \in Fds : sys_close(p, fd)
    BY <1>2 DEF Next
  <2>2. ASSUME NEW path \in Paths, NEW omode \in Omodes, sys_open(p, path, omode)
        PROVE  D!FdNext /\ OffsetInv'
    BY <2>2, OpenOpens DEF D!FdNext
  <2>3. ASSUME NEW op \in {"read", "close"}, NEW fd \in -1 .. NOFILE, sys_bad_fd(p, op, fd)
        PROVE  D!FdNext /\ OffsetInv'
    BY <2>3, BadFdRefused DEF D!FdNext
  <2>4. D!Numbers = Fds
    BY DEF D!Numbers, Fds
  <2>5. ASSUME NEW fd \in Fds, NEW n \in Sizes, sys_read(p, fd, n)
        PROVE  D!FdNext /\ OffsetInv'
    BY <2>4, <2>5, ReadReads DEF D!FdNext
  <2>6. ASSUME NEW fd \in Fds, sys_close(p, fd)
        PROVE  D!FdNext /\ OffsetInv'
    BY <2>4, <2>6, CloseCloses DEF D!FdNext
  <2> QED
    BY <2>1, <2>2, <2>3, <2>5, <2>6
<1> QED
  BY <1>1, <1>2

\* For any disk, cache, tables and processes, the kernel's files are private descriptors
\* that walk through the contents of the files, one byte after the other.
THEOREM DescriptorsImplemented == Spec => ImplementsDescriptors
<1>1. Init => ReadInv /\ D!FdInit
  BY BootMaps, InitHolds DEF ReadInv
<1>2. ReadInv /\ [Next]_vars => ReadInv' /\ [D!FdNext]_(D!fdVars)
  BY StepMaps, NextKeeps DEF ReadInv
<1> QED
  BY <1>1, <1>2, PTL DEF Spec, ImplementsDescriptors, D!FdSpecification
=============================================================================
