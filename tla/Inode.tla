------------------------------- MODULE Inode -------------------------------
(***************************************************************************)
(* kernel/fs_block.c and kernel/fs_inode.c: the disk, the inode cache and  *)
(* the walk from a path to an inode.                                       *)
(*                                                                         *)
(* Nothing writes the disk after fs_init has laid it out, so it is a       *)
(* constant.  A block holds BSIZE cells: a cell of a file's block is a     *)
(* byte, a cell of a directory's block is one struct dirent (BSIZE is a    *)
(* multiple of its 16 bytes, and so is the size of every directory).       *)
(*                                                                         *)
(* The functions of fs_inode.c are operators from the cache they find to   *)
(* the cache they leave, so that a system call is one step of module Fs.   *)
(***************************************************************************)
EXTENDS Integers, Sequences

CONSTANTS
    NULL,
    DISK_NBLOCKS, BSIZE,    \* blocks of the disk, cells of a block
    INODESTART,             \* g_sb.inodestart
    IPB,                    \* dinodes in a block
    NDIRECT,                \* direct block addresses of a dinode
    NINODE,                 \* slots of g_icache
    Inums,                  \* the inode numbers in use: the root and what dirents name
    Disk,                   \* g_disk
    Names,                  \* names as they are written in a path
    Elem                    \* what skipelem copies of each: its first DIRSIZ - 1 characters

ROOT_INO == 1

\* A dinode without the fields that are copied and never read.
Dinodes == [type : {"T_NONE", "T_DIR", "T_FILE"}, size : Nat, addrs : [0 .. NDIRECT -> Nat]]

-----------------------------------------------------------------------------
(* fs_block.c *)

\* bdev_read succeeds on the blocks of the disk.
bdev_ok(blockno) == blockno < DISK_NBLOCKS

inode_blockno(inum) == INODESTART + inum \div IPB
inode_block_index(inum) == inum % IPB

dinode(inum) == Disk[inode_blockno(inum)][inode_block_index(inum)]

-----------------------------------------------------------------------------
(* The inode cache *)

Slots == 0 .. NINODE - 1

\* inode_init: g_icache is all zeroes.
EmptySlot == [inum |-> 0, ref |-> 0, valid |-> FALSE,
              type |-> "T_NONE", size |-> 0, addrs |-> [bn \in 0 .. NDIRECT |-> 0]]
inode_init == [i \in Slots |-> EmptySlot]

Least(S) == CHOOSE x \in S : \A y \in S : x <= y

\* Mutant of iget: a hit does not count the new reference.
iget_uncounted_hit(ic, inum) ==
    LET hits  == {i \in Slots : ic[i].ref > 0 /\ ic[i].inum = inum}
        empty == {i \in Slots : ic[i].ref = 0}
    IN  IF hits # {} THEN [ic |-> ic, ip |-> Least(hits)]
        ELSE IF empty # {}
          THEN [ic |-> [ic EXCEPT ![Least(empty)] =
                          [@ EXCEPT !.inum = inum, !.ref = 1, !.valid = FALSE]],
                ip |-> Least(empty)]
        ELSE [ic |-> ic, ip |-> NULL]

\* The slot that has inum, or else the first free one, which keeps what it held
\* before except for its inum.
iget(ic, inum) ==
    LET hits  == {i \in Slots : ic[i].ref > 0 /\ ic[i].inum = inum}
        empty == {i \in Slots : ic[i].ref = 0}
    IN  IF hits # {}
          THEN [ic |-> [ic EXCEPT ![Least(hits)].ref = @ + 1], ip |-> Least(hits)]
        ELSE IF empty # {}
          THEN [ic |-> [ic EXCEPT ![Least(empty)] =
                          [@ EXCEPT !.inum = inum, !.ref = 1, !.valid = FALSE]],
                ip |-> Least(empty)]
        ELSE [ic |-> ic, ip |-> NULL]

\* Fills the slot from the disk, once; a block that cannot be read leaves it as it is.
ilock(ic, ip) ==
    IF ip = NULL \/ ic[ip].valid \/ ~bdev_ok(inode_blockno(ic[ip].inum)) THEN ic
    ELSE LET dip == dinode(ic[ip].inum)
         IN  [ic EXCEPT ![ip] = [@ EXCEPT !.type = dip.type, !.size = dip.size,
                                          !.addrs = dip.addrs, !.valid = TRUE]]

\* Mutant of bmap: the indirect block's address is taken for a direct one.
bmap_off_by_one(inode, bn) == IF bn <= NDIRECT THEN inode.addrs[bn] ELSE 0

\* The disk block of logical block bn, 0 if it has none.
bmap(inode, bn) == IF bn < NDIRECT THEN inode.addrs[bn] ELSE 0

\* Whether the loop of readi gets past this offset.
Readable(inode, off) ==
    LET bno == bmap(inode, off \div BSIZE) IN bno # 0 /\ bdev_ok(bno)

\* What the disk has at this offset of an inode.
Cell(inode, off) == Disk[bmap(inode, off \div BSIZE)][off % BSIZE]

\* The cells at off, as many of n as lie below the size and before the first
\* block that is missing; or -1.
readi(inode, off, n) ==
    LET want == IF off > inode.size THEN 0
                ELSE IF off + n > inode.size THEN inode.size - off ELSE n
        tot  == Least({k \in 0 .. want : k = want \/ ~Readable(inode, off + k)})
    IN  IF inode.type = "T_NONE" THEN [r |-> -1, data |-> <<>>]
        ELSE [r |-> tot, data |-> [k \in 1 .. tot |-> Cell(inode, off + k - 1)]]

-----------------------------------------------------------------------------
(* Names *)

\* Where the scan of a directory ends: at a dirent it cannot read or at the name.
dirlookup(ic, dp, name) ==
    LET read(off)  == readi(ic[dp], off, 1)
        stop(r)    == r.r # 1 \/ (r.data[1].inum # 0 /\ r.data[1].name = name)
        stops      == {off \in 0 .. ic[dp].size - 1 : \E r \in {read(off)} : stop(r)}
    IN  IF ic[dp].type # "T_DIR" \/ stops = {} THEN [ic |-> ic, ip |-> NULL]
        ELSE LET r == read(Least(stops))
             IN  IF r.r # 1 THEN [ic |-> ic, ip |-> NULL] ELSE iget(ic, r.data[1].inum)

\* Mutant of NameiStep: the reference on the directory is given back before the
\* directory is searched.
NameiStep_puts_first(at, name) ==
    IF at.ip = NULL THEN at
    ELSE LET ic == [ilock(at.ic, at.ip) EXCEPT ![at.ip].ref = @ - 1]
         IN  IF ic[at.ip].type # "T_DIR" THEN [ic |-> ic, ip |-> NULL]
             ELSE dirlookup(ic, at.ip, Elem[name])

\* One turn of namei's loop.  NULL ends it.
NameiStep(at, name) ==
    IF at.ip = NULL THEN at
    ELSE LET ic == ilock(at.ic, at.ip)
         IN  IF ic[at.ip].type # "T_DIR" THEN [ic |-> ic, ip |-> NULL]
             ELSE dirlookup(ic, at.ip, Elem[name])

\* Every path starts at the root.  The inodes on the way keep the references
\* taken on them, and the one returned has not been through ilock.
namei(ic, path) ==
    LET walk[k \in 0 .. Len(path)] ==
          IF k = 0 THEN iget(ic, ROOT_INO) ELSE NameiStep(walk[k - 1], path[k])
    IN  walk[Len(path)]

\* With the cache full and the root not in it namei goes through a null pointer.
namei_faults(ic, path) == path # <<>> /\ iget(ic, ROOT_INO).ip = NULL
=============================================================================
