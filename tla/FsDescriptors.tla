--------------------------- MODULE FsDescriptors ---------------------------
(***************************************************************************)
(* Fs implements FdSpec.  The tree and the contents that FdSpec is about   *)
(* are read off the disk here without offsets, block arithmetic or cache.  *)
(***************************************************************************)
EXTENDS Fs, SequencesExt

\* A descriptor that is open is not taken for one that is closed.
ASSUME DescriptorAssumption == NULL \notin [inode : Inums, pos : Nat]

OnDisk(inum) == bdev_ok(inode_blockno(inum))
TypeOf(inum) == IF OnDisk(inum) THEN dinode(inum).type ELSE "T_NONE"

\* The direct blocks up to the first that is missing, one after the other.
Blocks(d) ==
    LET missing == {bn \in 0 .. NDIRECT - 1 : d.addrs[bn] = 0 \/ d.addrs[bn] >= DISK_NBLOCKS}
        count   == IF missing = {} THEN NDIRECT ELSE Least(missing)
    IN  [k \in 1 .. count |-> [c \in 1 .. BSIZE |-> Disk[d.addrs[k - 1]][c - 1]]]

Flat(inum) ==
    LET cells == FlattenSeq(Blocks(dinode(inum)))
    IN  IF dinode(inum).size < Len(cells) THEN SubSeq(cells, 1, dinode(inum).size) ELSE cells

\* The first dirent in use with this name.
Child(dir, name) ==
    LET cells == Flat(dir)
        found == {k \in DOMAIN cells : cells[k].inum # 0 /\ cells[k].name = name}
    IN  IF TypeOf(dir) # "T_DIR" \/ found = {} THEN NULL ELSE cells[Least(found)].inum

\* The inodes from the root down the path, NULL from where it leads nowhere.
Walk(path) ==
    LET at[k \in 0 .. Len(path)] ==
          IF k = 0 THEN ROOT_INO
          ELSE IF at[k - 1] = NULL THEN NULL ELSE Child(at[k - 1], Elem[path[k]])
    IN  at

Way(path) == {Walk(path)[k] : k \in 0 .. Len(path)} \ {NULL}

AbsFds ==
    [p \in Procs |-> [fd \in Fds |->
       IF ofile[p][fd] = NULL THEN NULL
       ELSE LET f == ftable[ofile[p][fd]]
            IN  [inode |-> icache[f.ip].inum, pos |-> f.off]]]

Referenced == {icache[i].inum : i \in {j \in Slots : icache[j].ref > 0}}

Resolved == [path \in Paths |-> Walk(path)[Len(path)]]
OnTheWay == [path \in Paths |-> Way(path)]
NoInode == {i \in Inums : TypeOf(i) = "T_NONE"}
Bytes == [i \in Inums \ NoInode |-> Flat(i)]

D == INSTANCE FdSpec WITH
       Descriptors <- NOFILE, OpenLimit <- NFILE, KnownLimit <- NINODE, ReadLimit <- KBUF,
       Resolve <- Resolved, Visited <- OnTheWay, Content <- Bytes, Unreadable <- NoInode,
       Booted <- {HELLO_INO} \union Way(HelloPath), fds <- AbsFds, known <- Referenced

\* The inode cache, the block arithmetic, the file table and the descriptor
\* tables together give every process private descriptors whose reads return the
\* bytes of the file one after the other, and a call that fails disturbs nobody.
ImplementsDescriptors == D!FdSpecification
=============================================================================
