----------------------------- MODULE TestLayout -----------------------------
(***************************************************************************)
(* kernel/fs_test_layout.c: the disk that fs_init builds, in the terms of  *)
(* module Inode, and the blocks and dinodes a larger disk adds to it.      *)
(***************************************************************************)
EXTENDS Integers, Sequences

CONSTANTS DISK_NBLOCKS, BSIZE, INODESTART, BMAPSTART, IPB, NDIRECT

\* A block with these cells and zeroes after them.
Block(cells, zero) ==
    [k \in 0 .. BSIZE - 1 |-> IF k < Len(cells) THEN cells[k + 1] ELSE zero]

Byte(c) == [byte |-> c]
NoDirent == [inum |-> 0, name |-> ""]
Dirent(inum, name) == [inum |-> inum, name |-> name]

\* A dinode with these direct blocks, and whatever is at addrs[NDIRECT] after them.
Dinode(type, size, addrs) ==
    [type |-> type, size |-> size,
     addrs |-> [bn \in 0 .. NDIRECT |-> IF bn < Len(addrs) THEN addrs[bn + 1] ELSE 0]]

hello_data_block == BMAPSTART + 1
root_dir_block == BMAPSTART + 2

hello_data == <<Byte(72), Byte(105)>>
root_dirents == <<Dirent(1, "."), Dirent(1, ".."), Dirent(2, "hello")>>
root_dinode == Dinode("T_DIR", Len(root_dirents), <<root_dir_block>>)
hello_dinode == Dinode("T_FILE", Len(hello_data), <<hello_data_block>>)

\* The blocks of the inode table with these dinodes, a function from inums.
InodeBlocks(dinodes) ==
    [b \in INODESTART .. BMAPSTART - 1 |->
       [k \in 0 .. IPB - 1 |->
          LET inum == (b - INODESTART) * IPB + k
          IN  IF inum \in DOMAIN dinodes THEN dinodes[inum] ELSE Dinode("T_NONE", 0, <<>>)]]

\* The whole disk from its inode table and its data blocks; the rest is zero.
DiskOf(dinodes, blocks) ==
    LET table == InodeBlocks(dinodes)
    IN  [b \in 0 .. DISK_NBLOCKS - 1 |->
           IF b \in DOMAIN table THEN table[b]
           ELSE IF b \in DOMAIN blocks THEN blocks[b]
           ELSE Block(<<>>, Byte(0))]

fs_build_test_fs_basic ==
    DiskOf([i \in {1, 2} |-> IF i = 1 THEN root_dinode ELSE hello_dinode],
           [b \in {hello_data_block, root_dir_block} |->
              IF b = root_dir_block THEN Block(root_dirents, NoDirent)
              ELSE Block(hello_data, Byte(0))])
=============================================================================
