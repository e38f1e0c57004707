-------------------------------- MODULE MCFs --------------------------------
(***************************************************************************)
(* A disk with everything the walk and the reads tell apart, on top of the *)
(* layout of fs_test_layout.c: a free dirent, a file of several blocks     *)
(* that needs an indirect one, a directory with a missing block, a dirent  *)
(* whose inode lies beyond the disk.                                       *)
(***************************************************************************)
EXTENDS FsDescriptors, TLC

CONSTANT BMAPSTART
L == INSTANCE TestLayout

MCLong == [k \in 1 .. 6 |-> L!Byte(k)]

\* inode 3 is /dir, inode 4 /dir/long, inode 99 is not on the disk
MCDinodes ==
    (1 :> L!Dinode("T_DIR", 6, <<BMAPSTART + 2, BMAPSTART + 3>>))
    @@ (2 :> L!hello_dinode)
    @@ (3 :> L!Dinode("T_DIR", 4, <<BMAPSTART + 4, 0>>))
    @@ (4 :> L!Dinode("T_FILE", 8, <<BMAPSTART + 5, BMAPSTART + 6, BMAPSTART + 1>>))

MCBlocks ==
    ((BMAPSTART + 1) :> L!Block(L!hello_data, L!Byte(0)))
    @@ ((BMAPSTART + 2) :> L!Block(L!root_dirents, L!NoDirent))
    @@ ((BMAPSTART + 3) :> L!Block(<<L!NoDirent, L!Dirent(3, "dir"), L!Dirent(99, "gone")>>, L!NoDirent))
    @@ ((BMAPSTART + 4) :> L!Block(<<L!Dirent(1, ".."), L!Dirent(4, "thirteenchars"), L!Dirent(2, "thirteenchar")>>, L!NoDirent))
    @@ ((BMAPSTART + 5) :> L!Block(SubSeq(MCLong, 1, 3), L!Byte(0)))
    @@ ((BMAPSTART + 6) :> L!Block(SubSeq(MCLong, 4, 6), L!Byte(0)))

MCDisk == L!DiskOf(MCDinodes, MCBlocks)
MCShipped == L!fs_build_test_fs_basic

MCNames == {"hello", "dir", "gone", "none", "..", "thirteencharsandmore"}

\* DIRSIZ - 1 characters are kept.
MCElem == [n \in MCNames |-> IF n = "thirteencharsandmore" THEN "thirteenchars" ELSE n]

MCHello == <<"hello">>
MCPaths == {<<"dir", "thirteencharsandmore">>, <<"gone">>, <<"dir">>}
MCOmodes == {{"O_RDWR"}, {"O_CREATE"}}

\* Every way a walk can end, and every mode.
MCAllPaths ==
    MCPaths \union
    {<<>>, <<"none">>, <<"thirteencharsandmore">>, <<"hello", "none">>, <<"gone", "none">>,
     <<"dir", "none">>, <<"dir", "..", "hello">>, <<"..", "..", "hello">>}
MCAllOmodes == SUBSET {"O_WRONLY", "O_RDWR", "O_CREATE"}

\* What user/cat.c does.
MCHelloOnly == {<<"hello">>}
MCReadOnly == {{}}

\* last is written and never read, so it tells no two states apart; what a step
\* writes to it is checked on every step all the same.
MCView == <<icache, ftable, ofile, fault, opens>>
=============================================================================
