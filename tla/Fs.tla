--------------------------------- MODULE Fs ---------------------------------
(***************************************************************************)
(* kernel/fs_file.c and kernel/syscall_fs.c: the open files of the system  *)
(* and the descriptors of the processes, on the inode cache of Inode.      *)
(*                                                                         *)
(* A system call runs to its end without a yield, so each is one action,   *)
(* and the calls of the processes interleave.  The tables start as fs_init *)
(* leaves them, with what its tests did to the cache.                      *)
(***************************************************************************)
EXTENDS Inode, FiniteSets

CONSTANTS
    Procs,          \* the processes that make file system calls
    NFILE, NOFILE,  \* files of the system, descriptors of a process
    KBUF,           \* sizeof(kbuf) in sys_read
    Paths,          \* the paths opened, as sequences of names
    Omodes,         \* the modes passed to open, as sets of flags
    Sizes,          \* the sizes passed to read
    HelloPath,      \* "/hello", which the tests in fs_init open
    MAX_OPENS       \* bound on the calls of open

HELLO_INO == 2

ASSUME FsAssumption ==
    /\ NULL \notin Nat /\ NULL \notin Procs
    /\ {DISK_NBLOCKS, BSIZE, IPB, NINODE, NFILE, NOFILE, KBUF} \subseteq Nat \ {0}
    /\ {INODESTART, NDIRECT, MAX_OPENS} \subseteq Nat
    /\ Paths \subseteq Seq(Names) /\ HelloPath \in Seq(Names)
    /\ Sizes \subseteq Nat /\ Omodes \subseteq SUBSET {"O_CREATE", "O_WRONLY", "O_RDWR"}
    /\ {ROOT_INO, HELLO_INO} \subseteq Inums /\ Inums \subseteq Nat

\* What fs_build_test_fs_basic sees to: dinodes are of a known type, and a
\* dirent that can be read names an inode or is free.
ASSUME DiskAssumption ==
    \A i \in Inums : bdev_ok(inode_blockno(i)) =>
      /\ dinode(i) \in Dinodes
      /\ dinode(i).type = "T_DIR" =>
           \A off \in 0 .. dinode(i).size - 1 :
             Readable(dinode(i), off) => Cell(dinode(i), off).inum \in Inums \union {0}

VARIABLES
    icache,     \* g_icache
    ftable,     \* g_file_table
    ofile,      \* p->ofile of each process
    fault,      \* the kernel has gone through a null pointer
    \* history, read by no action
    last,       \* the last call that returned: process, call, result, data copied out
    opens       \* calls of open so far

vars == <<icache, ftable, ofile, fault, last, opens>>

Files == 0 .. NFILE - 1
Fds == 0 .. NOFILE - 1

-----------------------------------------------------------------------------
(* The file table *)

\* What file_init and file_close leave in a slot.
ClosedFile == [ref |-> 0, type |-> "FD_NONE", ip |-> NULL, off |-> 0, readable |-> FALSE]

OpenedFile(ip) == [ref |-> 1, type |-> "FD_INODE", ip |-> ip, off |-> 0, readable |-> TRUE]

FreeFiles(ft) == {f \in Files : ft[f].ref = 0}

file_close(ft, f) ==
    IF ft[f].ref < 1 THEN ft
    ELSE IF ft[f].ref > 1 THEN [ft EXCEPT ![f].ref = @ - 1]
    ELSE [ft EXCEPT ![f] = ClosedFile]

\* Mutant of WriteMode: O_WRONLY alone is let through.
WriteMode_rdwr_only(omode) == "O_RDWR" \in omode

\* The flags that file_open refuses, after it has been through namei.
WriteMode(omode) == omode \intersect {"O_WRONLY", "O_RDWR"} # {}

\* file_open and the cache and table it leaves; f is NULL if it fails.
file_open(ic, ft, path, omode) ==
    LET n == namei(ic, path)
        f == Least(FreeFiles(ft))
    IN  IF n.ip = NULL \/ WriteMode(omode) \/ FreeFiles(ft) = {}
          THEN [ic |-> n.ic, ft |-> ft, f |-> NULL]
          ELSE [ic |-> n.ic, ft |-> [ft EXCEPT ![f] = OpenedFile(n.ip)], f |-> f]

\* Mutant of file_read: the offset moves by the result even if that is -1.
file_read_adds_error(ic, ft, f, n) ==
    IF ~ft[f].readable \/ ft[f].type # "FD_INODE"
      THEN [ic |-> ic, ft |-> ft, r |-> -1, data |-> <<>>]
      ELSE LET locked == ilock(ic, ft[f].ip)
               got    == readi(locked[ft[f].ip], ft[f].off, n)
           IN  [ic |-> locked, ft |-> [ft EXCEPT ![f].off = @ + got.r],
                r |-> got.r, data |-> got.data]

\* file_read and what it leaves and returns.
file_read(ic, ft, f, n) ==
    IF ~ft[f].readable \/ ft[f].type # "FD_INODE"
      THEN [ic |-> ic, ft |-> ft, r |-> -1, data |-> <<>>]
      ELSE LET locked == ilock(ic, ft[f].ip)
               got    == readi(locked[ft[f].ip], ft[f].off, n)
           IN  [ic |-> locked,
                ft |-> IF got.r > 0 THEN [ft EXCEPT ![f].off = @ + got.r] ELSE ft,
                r |-> got.r, data |-> got.data]

-----------------------------------------------------------------------------
(* fs_init: its tests take /hello by inum, by path and through a file.      *)

InodeTest(ic) ==
    LET h == iget(ic, HELLO_INO) IN ilock(h.ic, h.ip)

NameiTest(ic) ==
    LET n == namei(ic, HelloPath) IN ilock(n.ic, n.ip)

\* The file test opens, reads and closes; it ends where one of them fails.
OpenTest(ic) == file_open(ic, [f \in Files |-> ClosedFile], HelloPath, {})

ReadTest(opened) ==
    LET read == file_read(opened.ic, opened.ft, opened.f, KBUF)
    IN  IF opened.f = NULL THEN [ic |-> opened.ic, ft |-> opened.ft, r |-> -1]
        ELSE [ic |-> read.ic, r |-> read.r,
              ft |-> IF read.r < 0 THEN read.ft ELSE file_close(read.ft, opened.f)]

\* What the tests leave behind, one after the other.
Boots ==
    {ReadTest(opened) : opened \in {OpenTest(b) : b \in {NameiTest(a) : a \in {InodeTest(inode_init)}}}}

\* The tests find /hello on the disk that fs_init has laid out, and can read it.
ASSUME BootAssumption == \A boot \in Boots : boot.r >= 0

Init ==
    /\ \E boot \in Boots : icache = boot.ic /\ ftable = boot.ft
    /\ ofile = [p \in Procs |-> [fd \in Fds |-> NULL]]
    /\ fault = FALSE
    /\ last = [proc |-> NULL, call |-> <<>>, ret |-> 0, data |-> <<>>]
    /\ opens = 0

-----------------------------------------------------------------------------
(* The system calls *)

Returns(p, call, ret, data) ==
    last' = [proc |-> p, call |-> call, ret |-> ret, data |-> data]

FreeFds(p) == {fd \in Fds : ofile[p][fd] = NULL}

sys_open(p, path, omode) ==
    LET opened == file_open(icache, ftable, path, omode)
        call   == <<"open", path, omode>>
    IN  /\ opens < MAX_OPENS
        /\ ~fault
        /\ opens' = opens + 1
        /\ icache' = opened.ic
        /\ fault' = namei_faults(icache, path)
        /\ \/ /\ opened.f = NULL
              /\ UNCHANGED <<ftable, ofile>>
              /\ Returns(p, call, -1, <<>>)
           \/ /\ opened.f # NULL
              /\ FreeFds(p) = {}
              /\ ftable' = file_close(opened.ft, opened.f)
              /\ UNCHANGED ofile
              /\ Returns(p, call, -1, <<>>)
           \/ /\ opened.f # NULL
              /\ FreeFds(p) # {}
              /\ ftable' = opened.ft
              /\ ofile' = [ofile EXCEPT ![p][Least(FreeFds(p))] = opened.f]
              /\ Returns(p, call, Least(FreeFds(p)), <<>>)

\* read and close refuse a descriptor that is out of range or not open.
sys_bad_fd(p, op, fd) ==
    /\ ~fault
    /\ fd \in Fds => ofile[p][fd] = NULL
    /\ Returns(p, <<op, fd>>, -1, <<>>)
    /\ UNCHANGED <<icache, ftable, ofile, fault, opens>>

sys_read(p, fd, n) ==
    /\ ~fault
    /\ ofile[p][fd] # NULL
    /\ LET read == file_read(icache, ftable, ofile[p][fd], IF n > KBUF THEN KBUF ELSE n)
       IN  /\ icache' = read.ic
           /\ ftable' = read.ft
           /\ Returns(p, <<"read", fd, n>>, read.r, read.data)
    /\ UNCHANGED <<ofile, fault, opens>>

\* Mutant of sys_close: the descriptor goes, the file is not closed.
sys_close_leaks(p, fd) ==
    /\ ~fault
    /\ ofile[p][fd] # NULL
    /\ ofile' = [ofile EXCEPT ![p][fd] = NULL]
    /\ Returns(p, <<"close", fd>>, 0, <<>>)
    /\ UNCHANGED <<icache, ftable, fault, opens>>

sys_close(p, fd) ==
    /\ ~fault
    /\ ofile[p][fd] # NULL
    /\ ofile' = [ofile EXCEPT ![p][fd] = NULL]
    /\ ftable' = file_close(ftable, ofile[p][fd])
    /\ Returns(p, <<"close", fd>>, 0, <<>>)
    /\ UNCHANGED <<icache, fault, opens>>

Next ==
    \E p \in Procs :
      \/ \E path \in Paths, omode \in Omodes : sys_open(p, path, omode)
      \/ \E op \in {"read", "close"}, fd \in -1 .. NOFILE : sys_bad_fd(p, op, fd)
      \/ \E fd \in Fds, n \in Sizes : sys_read(p, fd, n)
      \/ \E fd \in Fds : sys_close(p, fd)

Spec == Init /\ [][Next]_vars

-----------------------------------------------------------------------------
(* Properties *)

CacheSlots == [inum : Inums \union {0}, ref : Nat, valid : BOOLEAN,
               type : {"T_NONE", "T_DIR", "T_FILE"}, size : Nat,
               addrs : [0 .. NDIRECT -> Nat]]

FileEntries == [ref : Nat, type : {"FD_NONE", "FD_INODE"}, ip : Slots \union {NULL},
                off : Nat, readable : BOOLEAN]

TypeOK ==
    /\ icache \in [Slots -> CacheSlots]
    /\ ftable \in [Files -> FileEntries]
    /\ ofile \in [Procs -> [Fds -> Files \union {NULL}]]
    /\ fault \in BOOLEAN
    /\ last.proc \in Procs \union {NULL} /\ last.ret \in Int
    /\ opens \in 0 .. MAX_OPENS

Names2Fd(f) == {d \in Procs \X Fds : ofile[d[1]][d[2]] = f}

\* The file table and the descriptor tables agree: an entry counts exactly the
\* descriptors that name it, so no error path of sys_open loses an entry, no
\* close frees one that is still named, and no two descriptors share an offset.
TableExact ==
    \A f \in Files :
      /\ ftable[f].ref = Cardinality(Names2Fd(f))
      /\ ftable[f].ref <= 1
      /\ ftable[f].ref = 0 => ftable[f] = ClosedFile

\* The cache holds an inode once, and what it holds is what is on the disk; a
\* slot that was not filled has no type, so namei and readi refuse it even
\* though file_open hands out inodes that have not been through ilock.
CacheCoherent ==
    \A i \in Slots :
      /\ icache[i].ref > 0 =>
           \A j \in Slots \ {i} : icache[j].ref > 0 => icache[j].inum # icache[i].inum
      /\ icache[i].valid =>
           LET dip == dinode(icache[i].inum)
           IN  <<icache[i].type, icache[i].size, icache[i].addrs>> = <<dip.type, dip.size, dip.addrs>>
      /\ ~icache[i].valid => icache[i].type = "T_NONE"

\* Every open file keeps its inode: the slot it points to is referenced as often
\* as files point to it, so iget never gives it to another inode.
OpenFilesPinned ==
    \A i \in Slots :
      icache[i].ref >= Cardinality({f \in Files : ftable[f].ref > 0 /\ ftable[f].ip = i})

\* namei uses the result of iget(ROOT_INO) unchecked.  That is safe although the
\* cache can be full, because the root was cached while fs_init ran its tests
\* and no reference is ever given back.
NoFault == ~fault

\* struct inode's ref is the "number of references" (fs.h): when a file is
\* closed, the reference it held on its inode goes.
ReferenceReturned ==
    [][\A f \in Files :
         ftable[f].ref > 0 /\ ftable'[f].ref = 0 =>
           icache'[ftable[f].ip].ref < icache[ftable[f].ip].ref]_vars
=============================================================================
