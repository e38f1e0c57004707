----------------------------- MODULE MCLibrary -----------------------------
(* The library's parts and the shell, one of which each behaviour is about: *)
(* they share no state, so that their state spaces add up in one run.       *)
EXTENDS ListSequences, Path, Printk, Shell

VARIABLE part

libraryVars == <<listVars, call, pathVars, print, shellVars, part>>

LibraryInit ==
    /\ part \in {"list", "string", "path", "printk", "shell"}
    /\ ListInit
    /\ TextInit
    /\ PathInit
    /\ PrintkInit
    /\ ShellInit

LibraryNext ==
    /\ UNCHANGED part
    /\ \/ part = "list" /\ ListNext /\ UNCHANGED <<call, pathVars, print, shellVars>>
       \/ part = "string" /\ TextNext /\ UNCHANGED <<listVars, pathVars, print, shellVars>>
       \/ part = "path" /\ PathNext /\ UNCHANGED <<listVars, call, print, shellVars>>
       \/ part = "printk" /\ PrintkNext /\ UNCHANGED <<listVars, call, pathVars, shellVars>>
       \/ part = "shell" /\ ShellNext /\ UNCHANGED <<listVars, call, pathVars, print>>

LibrarySpec == LibraryInit /\ [][LibraryNext]_libraryVars

\* Strings of up to three bytes in arrays of four, bytes below and above 127
\* among them and bytes behind the NUL that differ.
MCArrays == {a \o <<NUL>> : a \in [1 .. 3 -> {NUL, 97, 200}]}

Nothing == <<>>

\* Paths of up to six characters, one more than the kernel keeps, and all names
\* of up to three, one more than an element can have.
MCUserPaths == {p \o <<NUL>> : p \in SeqOf({SLASH, 97, 98}, 6)}
MCDirents == {strncpy(<<1, 1, 1>>, n \o <<NUL>>, 3) : n \in SeqOf({97, 98}, 3)}

Flags == {Nothing, <<Digit(0)>>}
Widths == {Nothing, <<Digit(2)>>, <<Digit(4)>>, <<Digit(1), Digit(2)>>}
Longs == {Nothing, <<Letter.l>>, <<Letter.l, Letter.l>>}
\* All conversions, one that is none (z), and the end of the string.
Ends == {Nothing, <<PERCENT>>, <<122>>} \union {<<Letter[k]>> : k \in {"c", "d", "p", "u", "x"}}
MCFormats == {f \o w \o l \o e : f \in Flags, w \in Widths, l \in Longs, e \in Ends}

\* In bytes: both signs, both ends, each number of digits, and numbers that do not fit.
MCArgs == {-300, -128, -100, -10, -1, 0, 7, 10, 127, 200, 255}

\* Commands of one, two and three characters, one the beginning of others, and one
\* as long as a line can be.
MCHello == <<97, 98, NUL>>
MCExit == <<98, 98, 98, NUL>>
MCKinako == <<97, NUL>>
MCCat == <<98, 97, NUL>>

\* Nothing, a line, an open line, and a NUL in front of the rest.
MCTexts == {Nothing, <<97, LF>>, <<97, 98>>, <<NUL, 97>>}
=============================================================================
