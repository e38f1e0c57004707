------------------------------- MODULE FdSpec -------------------------------
(***************************************************************************)
(* What open, read and close promise to processes: a tree of files that    *)
(* are sequences of bytes, and private descriptors that walk through them. *)
(* There is no block, no cache, no table.                                  *)
(***************************************************************************)
EXTENDS Integers, Sequences, FiniteSets

CONSTANTS
    Procs, NULL,
    Descriptors,    \* how many a process has
    OpenLimit,      \* how many can be open in the whole system
    KnownLimit,     \* how many inodes the system can ever touch
    ReadLimit,      \* the most one read returns
    Paths, Omodes, Sizes,
    Resolve,        \* the inode of each path, NULL if there is none
    Visited,        \* the inodes on the way to it
    Content,        \* the bytes of each inode
    Unreadable,     \* the inodes that cannot be read at all
    Booted          \* the inodes touched while booting

VARIABLES
    fds,            \* of each process: the inode and position of each open descriptor
    known,          \* the inodes touched so far
    last            \* the last result

fdVars == <<fds, known, last>>

Numbers == 0 .. Descriptors - 1

FdInit ==
    /\ fds = [p \in Procs |-> [d \in Numbers |-> NULL]]
    /\ known = Booted
    /\ last = [proc |-> NULL, call |-> <<>>, ret |-> 0, data |-> <<>>]

Return(p, call, ret, data) ==
    last' = [proc |-> p, call |-> call, ret |-> ret, data |-> data]

Closed(p) == {d \in Numbers : fds[p][d] = NULL}
AllOpen == {w \in Procs \X Numbers : fds[w[1]][w[2]] # NULL}
Fits(path) == Cardinality(known \union Visited[path]) <= KnownLimit

MayOpen(p, path, omode) ==
    /\ Resolve[path] # NULL
    /\ omode \subseteq {"O_CREATE"}
    /\ Fits(path)
    /\ Closed(p) # {}
    /\ Cardinality(AllOpen) < OpenLimit

\* The lowest descriptor that is closed, at the start of the file.
Open(p, path, omode) ==
    /\ MayOpen(p, path, omode)
    /\ \E d \in Closed(p) :
         /\ \A e \in Closed(p) : d <= e
         /\ Return(p, <<"open", path, omode>>, d, <<>>)
         /\ fds' = [fds EXCEPT ![p][d] = [inode |-> Resolve[path], pos |-> 0]]
    /\ known' = known \union Visited[path]

\* A failed open changes no descriptor, of any process.
OpenFails(p, path, omode) ==
    /\ Return(p, <<"open", path, omode>>, -1, <<>>)
    /\ ~MayOpen(p, path, omode)
    /\ \E touched \in SUBSET Visited[path] :
          /\ known' = known \union touched
          /\ Cardinality(known') <= KnownLimit
          /\ Fits(path) => touched = Visited[path]
    /\ UNCHANGED fds

BadDescriptor(p, op, d) ==
    /\ Return(p, <<op, d>>, -1, <<>>)
    /\ d \in Numbers => fds[p][d] = NULL
    /\ UNCHANGED <<fds, known>>

Smaller(a, b) == IF a < b THEN a ELSE b

\* The next bytes after the position, which moves past them.
Read(p, d, n) ==
    LET bytes == Content[fds[p][d].inode]
        pos   == fds[p][d].pos
        upto  == Smaller(pos + Smaller(n, ReadLimit), Len(bytes))
    IN  /\ fds[p][d] # NULL
        /\ fds[p][d].inode \notin Unreadable
        /\ Return(p, <<"read", d, n>>, upto - pos, SubSeq(bytes, pos + 1, upto))
        /\ fds' = [fds EXCEPT ![p][d].pos = upto]
        /\ UNCHANGED known

ReadFails(p, d, n) ==
    /\ Return(p, <<"read", d, n>>, -1, <<>>)
    /\ fds[p][d] # NULL
    /\ fds[p][d].inode \in Unreadable
    /\ UNCHANGED <<fds, known>>

Close(p, d) ==
    /\ Return(p, <<"close", d>>, 0, <<>>)
    /\ fds[p][d] # NULL
    /\ fds' = [fds EXCEPT ![p][d] = NULL]
    /\ UNCHANGED known

FdNext ==
    \E p \in Procs :
      \/ \E path \in Paths, omode \in Omodes : Open(p, path, omode) \/ OpenFails(p, path, omode)
      \/ \E d \in Numbers, n \in Sizes : Read(p, d, n) \/ ReadFails(p, d, n)
      \/ \E d \in Numbers : Close(p, d)
      \/ \E op \in {"read", "close"}, d \in -1 .. Descriptors : BadDescriptor(p, op, d)

FdSpecification == FdInit /\ [][FdNext]_fdVars
=============================================================================
