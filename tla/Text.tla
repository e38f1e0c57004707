-------------------------------- MODULE Text --------------------------------
(***************************************************************************)
(* lib/string.c: the functions on bytes.  An array is the sequence of its  *)
(* bytes, 0 .. 255, what lies behind a terminating NUL included; a loop is *)
(* a recursive function of the index, so that what it reads is what the    *)
(* code reads; one that has left the array reads what has no value, and    *)
(* stops there.  A function that writes returns what it makes of dest.     *)
(*                                                                         *)
(* The state is the input of the functions, chosen anew by each call.      *)
(***************************************************************************)
EXTENDS Integers, SequencesExt

CONSTANT Arrays     \* arrays the functions are tried on, each with a NUL

NUL == 0

\* No function is given an array that is too short for it: they are of one length.
ASSUME TextAssumption ==
    /\ \A a \in Arrays : a \in Seq(0 .. 255) /\ NUL \in ToSet(a)
    /\ \A a, b \in Arrays : Len(a) = Len(b)

VARIABLE call       \* two arrays and a length

-----------------------------------------------------------------------------

memset(s, c, n) == [i \in DOMAIN s |-> IF i <= n THEN c % 256 ELSE s[i]]

memcpy(dest, src, n) == [i \in DOMAIN dest |-> IF i <= n THEN src[i] ELSE dest[i]]

memcmp(p1, p2, n) ==
    LET from[i \in 1 .. n + 1] ==
          IF i > n THEN 0
          ELSE IF p1[i] # p2[i] THEN p1[i] - p2[i]
          ELSE from[i + 1]
    IN  from[1]

strlen(s) ==
    LET from[i \in 1 .. Len(s) + 1] ==
          IF s[i] = NUL \/ i > Len(s) THEN i - 1 ELSE from[i + 1]
    IN  from[1]

\* The copy ends with the NUL it has copied.
strcpy(dest, src) == memcpy(dest, src, strlen(src) + 1)

\* Up to n bytes of the string, then NULs up to n: no terminator if the string fills n.
strncpy(dest, src, n) ==
    [i \in DOMAIN dest |->
       IF i > n THEN dest[i] ELSE IF i <= strlen(src) THEN src[i] ELSE NUL]

strcmp(s1, s2) ==
    LET from[i \in 1 .. Len(s1) + 1] ==
          IF s1[i] # NUL /\ s2[i] # NUL /\ s1[i] = s2[i] /\ i <= Len(s1) THEN from[i + 1]
          ELSE s1[i] - s2[i]
    IN  from[1]

\* Mutant of strncmp: it goes on behind the end of equal strings.
strncmp_runs_on(s1, s2, n) ==
    LET from[i \in 1 .. n + 1] ==
          IF i > n THEN 0
          ELSE IF s1[i] # s2[i] THEN s1[i] - s2[i]
          ELSE from[i + 1]
    IN  from[1]

strncmp(s1, s2, n) ==
    LET from[i \in 1 .. n + 1] ==
          IF i > n THEN 0
          ELSE IF s1[i] # s2[i] THEN s1[i] - s2[i]
          ELSE IF s1[i] = NUL THEN 0
          ELSE from[i + 1]
    IN  from[1]

-----------------------------------------------------------------------------

NoCall == <<>>

TextInit == call = NoCall

call_string ==
    /\ call = NoCall
    /\ \E a, b \in Arrays : \E n \in 0 .. Len(a) : call' = <<a, b, n>>

return_string ==
    /\ call # NoCall
    /\ call' = NoCall

TextNext == call_string \/ return_string

-----------------------------------------------------------------------------
(* The reference: strings as sequences.                                     *)

\* The string in an array.
String(a) == SubSeq(a, 1, (CHOOSE k \in DOMAIN a : a[k] = NUL /\ \A j \in 1 .. k - 1 : a[j] # NUL) - 1)

Upto(s, n) == SubSeq(s, 1, IF n < Len(s) THEN n ELSE Len(s))

\* Lexicographic order of unsigned bytes.
Before(u, v) ==
    \E k \in 0 .. Len(u) :
      /\ k < Len(v)
      /\ \A j \in 1 .. k : u[j] = v[j]
      /\ k < Len(u) => u[k + 1] < v[k + 1]

SignTells(r, u, v) == (r < 0 <=> Before(u, v)) /\ (r > 0 <=> Before(v, u))

\* The comparisons order strings (or the first n bytes) by unsigned bytes and
\* never look behind the end of a string, and the copies leave alone what is not
\* theirs.  The test of strncmp names the case that went wrong once: equal
\* strings shorter than n (string_test.c).
StringsExact ==
    call # NoCall =>
      LET a == call[1]  b == call[2]  n == call[3]
      IN  /\ strlen(a) = Len(String(a))
          /\ SignTells(strcmp(a, b), String(a), String(b))
          /\ SignTells(strncmp(a, b, n), Upto(String(a), n), Upto(String(b), n))
          /\ SignTells(memcmp(a, b, n), Upto(a, n), Upto(b, n))
          /\ String(strcpy(a, b)) = String(b)
          /\ \A k \in DOMAIN a : k > Len(String(b)) + 1 => strcpy(a, b)[k] = a[k]
          /\ LET c == strncpy(a, b, n)
             IN  /\ IsPrefix(Upto(String(b), n), c)
                 /\ \A k \in DOMAIN a : k > Len(String(b)) /\ k <= n => c[k] = NUL
                 /\ \A k \in DOMAIN a : k > n => c[k] = a[k]
          /\ memset(memcpy(a, b, n), 256, n) = memset(a, 0, n)
=============================================================================
