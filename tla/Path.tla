-------------------------------- MODULE Path --------------------------------
(***************************************************************************)
(* The characters of a path, from the caller of open to the comparison     *)
(* with a directory's entry: copyinstr of kernel/syscall_fs.c, skipelem    *)
(* and namecmp of kernel/fs_inode.c, in the order sys_open and namei call  *)
(* them.  Both buffers are arrays on a stack that nobody clears: kpath     *)
(* holds what lay there before, and name what the elements before left in  *)
(* it.  Modules Inode and Fs take a path as its elements; this is where    *)
(* they come from.                                                         *)
(***************************************************************************)
EXTENDS Text, FiniteSets

CONSTANTS
    KPATH,      \* sizeof(kpath) in sys_open, 128
    DIRSIZ,     \* of the name in a dirent and in namei, 14
    UserPaths,  \* what programs pass, each an array with a NUL at its end
    Dirents     \* names in directories, arrays of DIRSIZ bytes that need not hold a NUL

SLASH == 47

ASSUME PathAssumption ==
    /\ KPATH \in Nat \ {0, 1}
    /\ DIRSIZ \in Nat \ {0, 1}
    /\ \A u \in UserPaths : u \in Seq(0 .. 255) /\ NUL \in ToSet(u)
    /\ \A d \in Dirents : d \in [1 .. DIRSIZ -> 0 .. 255]

VARIABLES
    user_path,  \* the argument of the open at work, or NoPath
    kpath,      \* the buffer in sys_open
    path,       \* namei's pointer, an index of kpath
    name,       \* the buffer in namei
    elems       \* history: the elements taken out of the path so far

pathVars == <<user_path, kpath, path, name, elems>>

NoPath == <<>>

-----------------------------------------------------------------------------

\* The least index from i on that holds one of these.
First(s, i, bytes) == CHOOSE j \in i .. Len(s) : s[j] \in bytes /\ \A k \in i .. j - 1 : s[k] \notin bytes

\* Up to max - 1 characters, and a NUL in any case.
copyinstr(dst, usrc, max) ==
    LET len == IF strlen(usrc) < max - 1 THEN strlen(usrc) ELSE max - 1
    IN  [memcpy(dst, usrc, len) EXCEPT ![len + 1] = NUL]

NotSlash(s) == ToSet(s) \ {SLASH}

\* Mutant of ElementAt: one slash is skipped and no more.
ElementAt_one_slash(s, p) == IF s[p] = SLASH THEN p + 1 ELSE p

\* The first loop of skipelem.
ElementAt(s, p) == First(s, p, NotSlash(s))

\* Mutant of ElementName: the NUL is left out.
ElementName_open(old, from, len) == memcpy(old, from, len)

\* What skipelem leaves in name.
ElementName(old, from, len) == [memcpy(old, from, len) EXCEPT ![len + 1] = NUL]

\* skipelem, for a path that has another element.
skipelem(s, p, old) ==
    LET start == ElementAt(s, p)
        stop  == First(s, start, {SLASH, NUL})
        len   == IF stop - start >= DIRSIZ THEN DIRSIZ - 1 ELSE stop - start
    IN  [name |-> ElementName(old, SubSeq(s, start, Len(s)), len), path |-> First(s, stop, NotSlash(s))]

namecmp(s, t) == strncmp(s, t, DIRSIZ)

-----------------------------------------------------------------------------

Fill(byte, size) == [i \in 1 .. size |-> byte]

PathInit ==
    /\ user_path = NoPath
    /\ kpath = Fill(NUL, KPATH)
    /\ path = 1
    /\ name = Fill(NUL, DIRSIZ)
    /\ elems = <<>>

\* sys_open, up to namei, on a stack that holds whatever earlier calls left.
copy_path ==
    /\ user_path = NoPath
    /\ user_path' \in UserPaths
    /\ \E stale \in {NUL, SLASH, 97} :
         /\ kpath' = copyinstr(Fill(stale, KPATH), user_path', KPATH)
         /\ name' = Fill(stale, DIRSIZ)
    /\ UNCHANGED <<path, elems>>

\* A turn of namei's loop; dirlookup compares name with the entries of a directory.
next_elem ==
    /\ user_path # NoPath
    /\ kpath[ElementAt(kpath, path)] # NUL
    /\ \E e \in {skipelem(kpath, path, name)} :
         /\ path' = e.path
         /\ name' = e.name
         /\ elems' = Append(elems, e.name)
    /\ UNCHANGED <<user_path, kpath>>

\* namei returns, at the end of the path or before, and the buffers are gone.
leave_path ==
    /\ user_path # NoPath
    /\ user_path' = NoPath
    /\ kpath' = Fill(NUL, KPATH)
    /\ path' = 1
    /\ name' = Fill(NUL, DIRSIZ)
    /\ elems' = <<>>

PathNext == copy_path \/ next_elem \/ leave_path

-----------------------------------------------------------------------------
(* The reference: the runs between slashes.                                 *)

Kept == Upto(String(user_path), KPATH - 1)

Runs ==
    {r \in (DOMAIN Kept) \X (DOMAIN Kept) :
       /\ r[1] <= r[2]
       /\ \A k \in r[1] .. r[2] : Kept[k] # SLASH
       /\ r[1] = 1 \/ Kept[r[1] - 1] = SLASH
       /\ r[2] = Len(Kept) \/ Kept[r[2] + 1] = SLASH}

\* How many runs there are up to this one.
Place(r) == Cardinality({q \in Runs : q[1] <= r[1]})

Elements ==
    [k \in 1 .. Cardinality(Runs) |->
       LET r == CHOOSE r \in Runs : Place(r) = k
       IN  Upto(SubSeq(Kept, r[1], r[2]), DIRSIZ - 1)]

\* A name in a directory ends at its NUL or fills the field.
DirentName(d) == IF NUL \in ToSet(d) THEN String(d) ELSE d

\* The elements of a path are the runs of characters between its slashes, however
\* many slashes stand together, in front or at the end, cut to what fits; a path
\* too long for the kernel's buffer loses its end and nothing else.  When the end
\* is reached none was left out.
PathSplit ==
    user_path # NoPath =>
      /\ Len(elems) <= Len(Elements)
      /\ \A k \in DOMAIN elems : String(elems[k]) = Elements[k]
      /\ kpath[ElementAt(kpath, path)] = NUL => Len(elems) = Len(Elements)

\* An entry of a directory is found by exactly its name: neither the bytes that
\* longer elements left in the buffer nor those behind the end of a short name
\* count, and a name that fills its field, which no element can, is never found.
NameFound ==
    elems # <<>> =>
      \A d \in Dirents : namecmp(d, name) = 0 <=> DirentName(d) = Elements[Len(elems)]
=============================================================================
