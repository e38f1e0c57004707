--------------------------- MODULE LibraryProofs ---------------------------
(***************************************************************************)
(* Proofs about Text, Path, Shell and Printk for arrays, buffers, paths    *)
(* and formats of any length and any commands.  A loop is shown to end at  *)
(* the first index where it may; what a function promises follows from     *)
(* where that is.                                                          *)
(***************************************************************************)
EXTENDS Path, Printk, Shell, Induction, FiniteSetTheorems, SequenceTheorems

-----------------------------------------------------------------------------
(* Loops over an array                                                      *)

\* The loop that goes up from the first index until one of stops, and then returns what
\* out says of it.
Loops(from, m, stops, out) ==
    from = [i \in 1 .. m |-> IF i \in stops THEN out[i] ELSE from[i + 1]]

\* There is such a loop if the last index is a stop.
LEMMA LoopExists ==
    ASSUME NEW m \in Nat \ {0}, NEW stops \in SUBSET (1 .. m), m \in stops, NEW out
    PROVE  \E from : Loops(from, m, stops, out)
<1> DEFINE next(i) == CHOOSE k \in {j \in stops : i <= j} : \A j \in {j \in stops : i <= j} : k <= j
           from == [i \in 1 .. m |-> out[next(i)]]
<1>b. \A j \in stops : j \in Nat /\ j <= m
  OBVIOUS
<1>a. m \in stops /\ \A i \in 1 .. m : i \in Nat /\ i <= m
  OBVIOUS
<1> HIDE DEF next
<1>1. ASSUME NEW i \in 1 .. m
      PROVE  next(i) \in stops /\ i <= next(i) /\ \A j \in stops : i <= j => next(i) <= j
  <2> DEFINE T == {j \in stops : i <= j}
  <2>1. T \in SUBSET Nat /\ m \in T
    BY <1>b, <1>a
  <2>2. \E k \in T : \A j \in T : k <= j
    <3> HIDE DEF T
    <3> QED
      BY <2>1, LeastExists
  <2> QED
    BY <2>2 DEF next
<1>2. ASSUME NEW i \in 1 .. m PROVE from[i] = IF i \in stops THEN out[i] ELSE from[i + 1]
  <2>1. CASE i \in stops
    <3>1. next(i) = i
      <4> HIDE DEF from
      <4>1. next(i) \in stops /\ i <= next(i) /\ (i <= i => next(i) <= i)
        BY <1>1, <2>1
      <4>2. next(i) \in Nat /\ i \in Nat
        BY <1>a, <1>b, <4>1
      <4> QED
        BY <4>1, <4>2
    <3> QED
      BY <2>1, <3>1
  <2>2. CASE i \notin stops
    <3>1. i + 1 \in 1 .. m
      BY <2>2
    <3>2. next(i) = next(i + 1)
      <4>1. next(i) \in stops /\ i <= next(i) /\ \A j \in stops : i <= j => next(i) <= j
        BY <1>1
      <4>2. /\ next(i + 1) \in stops /\ i + 1 <= next(i + 1)
            /\ \A j \in stops : i + 1 <= j => next(i + 1) <= j
        BY <1>1, <3>1
      <4>3. next(i) # i /\ next(i) \in Nat /\ next(i + 1) \in Nat
        BY <1>b, <2>2, <4>1, <4>2
      <4>4. i + 1 <= next(i) /\ i <= next(i + 1)
        BY <4>1, <4>2, <4>3
      <4>5. next(i + 1) <= next(i) /\ next(i) <= next(i + 1)
        BY <4>1, <4>2, <4>4
      <4> QED
        BY <4>3, <4>5
    <3> QED
      BY <2>2, <3>1, <3>2
  <2> QED
    BY <2>1, <2>2
<1>3. Loops(from, m, stops, out)
  <2> HIDE DEF from
  <2>1. from = [i \in 1 .. m |-> from[i]]
    BY DEF from
  <2> QED
    BY <1>2, <2>1 DEF Loops
<1> QED
  BY <1>3

\* It returns what out says of the first stop from where it starts.
LEMMA LoopEndsFrom ==
    ASSUME NEW m \in Nat \ {0}, NEW stops \in SUBSET (1 .. m), m \in stops, NEW out,
           NEW from, Loops(from, m, stops, out), NEW p \in 1 .. m
    PROVE  \E k \in stops : p <= k /\ (\A j \in stops : p <= j => k <= j) /\ from[p] = out[k]
<1>1. PICK k \in {j \in stops : p <= j} : \A j \in {j \in stops : p <= j} : k <= j
  <2> DEFINE S == {j \in stops : p <= j}
  <2>1. S \in SUBSET Nat /\ S # {}
    <3>1. m \in S /\ \A j \in 1 .. m : j \in Nat
      OBVIOUS
    <3> QED
      BY <3>1
  <2> HIDE DEF S
  <2>2. \E k \in S : \A j \in S : k <= j
    BY <2>1, LeastExists
  <2> QED
    BY <2>2 DEF S
<1> DEFINE T == {i \in 0 .. k - p : from[p + i] = from[p]}
<1>2. k \in 1 .. m /\ p \in 1 .. m /\ k - p \in Nat /\ k \in stops
  BY <1>1
<1>3. 0 \in T
  BY <1>2
<1>4. ASSUME NEW i \in 1 .. k - p, i - 1 \in T PROVE i \in T
  <2>1. p + i - 1 \in 1 .. m /\ p + i - 1 \notin stops /\ p + (i - 1) = p + i - 1 /\ p + i - 1 + 1 = p + i
    BY <1>1, <1>2
  <2>2. from[p + i - 1] = from[p + i]
    BY <2>1 DEF Loops
  <2> QED
    BY <1>4, <2>1, <2>2
<1>5. \A i \in 0 .. k - p : i \in T
  <2> HIDE DEF T
  <2> QED
    BY <1>2, <1>3, <1>4, SegmentInduction
<1>6. from[k] = from[p]
  <2>1. k - p \in T /\ p + (k - p) = k
    <3>1. k - p \in 0 .. k - p
      BY <1>2
    <3> HIDE DEF T
    <3> QED
      BY <1>2, <1>5, <3>1
  <2> QED
    BY <2>1
<1>7. from[k] = out[k]
  BY <1>2 DEF Loops
<1> QED
  BY <1>1, <1>2, <1>6, <1>7

\* From the first index that is the first of all.
LEMMA LoopEnds ==
    ASSUME NEW m \in Nat \ {0}, NEW stops \in SUBSET (1 .. m), m \in stops, NEW out,
           NEW from, Loops(from, m, stops, out)
    PROVE  \E k \in stops : (\A j \in stops : k <= j) /\ from[1] = out[k]
<1>1. 1 \in 1 .. m /\ \A j \in stops : 1 <= j
  OBVIOUS
<1>2. PICK k \in stops : 1 <= k /\ (\A j \in stops : 1 <= j => k <= j) /\ from[1] = out[k]
  BY <1>1, LoopEndsFrom
<1> QED
  BY <1>1, <1>2

-----------------------------------------------------------------------------
(* The functions of string.c                                                *)

\* What is given for each index up to a bound is a sequence.
LEMMA SequenceOf ==
    ASSUME NEW n \in Nat, NEW S, NEW f, \A i \in 1 .. n : f[i] \in S
    PROVE  /\ [i \in 1 .. n |-> f[i]] \in Seq(S)
           /\ Len([i \in 1 .. n |-> f[i]]) = n
<1>1. [i \in 1 .. n |-> f[i]] \in Seq(S)
  BY IsASeq
<1> QED
  BY <1>1

Byte == 0 .. 255
Char == 1 .. 255

\* The elements of a sequence of bytes are numbers.
LEMMA BytesAre ==
    ASSUME NEW a \in Seq(Byte)
    PROVE  /\ Len(a) \in Nat /\ DOMAIN a = 1 .. Len(a)
           /\ \A j \in 1 .. Len(a) : a[j] \in Byte /\ a[j] \in Int /\ a[j] >= 0
<1>1. \A j \in 1 .. Len(a) : a[j] \in Byte
  OBVIOUS
<1>2. \A x \in Byte : x \in Int /\ x >= 0
  BY DEF Byte
<1>3. Len(a) \in Nat /\ DOMAIN a = 1 .. Len(a)
  OBVIOUS
<1> QED
  BY <1>1, <1>2, <1>3

\* Where the string in an array ends.
Ended(a, k) ==
    /\ k \in 1 .. Len(a)
    /\ a[k] = NUL
    /\ \A j \in 1 .. k - 1 : a[j] # NUL

\* It does where a NUL is.
LEMMA EndExists ==
    ASSUME NEW a \in Seq(Byte), NUL \in ToSet(a)
    PROVE  \E k \in 1 .. Len(a) : Ended(a, k)
<1> DEFINE T == {k \in 1 .. Len(a) : a[k] = NUL}
<1>1. T \in SUBSET Nat /\ T # {}
  <2>1. \E k \in 1 .. Len(a) : a[k] = NUL
    BY DEF ToSet
  <2> QED
    BY <2>1
<1>2. PICK k \in T : \A j \in T : k <= j
  BY <1>1, LeastExists
<1>3. k \in 1 .. Len(a) /\ a[k] = NUL
  BY <1>2
<1>4. \A j \in 1 .. k - 1 : a[j] # NUL
  BY <1>2, <1>3
<1> QED
  BY <1>3, <1>4 DEF Ended

\* The string in it, which has no NUL.
LEMMA StringProps ==
    ASSUME NEW a \in Seq(Byte), NEW k, Ended(a, k)
    PROVE  /\ String(a) \in Seq(Char) /\ Len(String(a)) = k - 1
           /\ String(a) = SubSeq(a, 1, k - 1)
           /\ \A j \in 1 .. k - 1 : String(a)[j] = a[j]
<1> DEFINE end == CHOOSE k1 \in DOMAIN a : a[k1] = NUL /\ \A j \in 1 .. k1 - 1 : a[j] # NUL
           s == SubSeq(a, 1, k - 1)
<1>1. k \in 1 .. Len(a) /\ a[k] = NUL /\ \A j \in 1 .. k - 1 : a[j] # NUL
  BY DEF Ended
<1>2. DOMAIN a = 1 .. Len(a)
  OBVIOUS
<1>3. end = k
  <2>1. end \in 1 .. Len(a) /\ a[end] = NUL /\ \A j \in 1 .. end - 1 : a[j] # NUL
    BY <1>1, <1>2
  <2> HIDE DEF end
  <2>2. ~(end < k) /\ ~(k < end)
    BY <1>1, <2>1
  <2> QED
    BY <1>1, <2>1, <2>2
<1>4. String(a) = SubSeq(a, 1, end - 1)
  BY DEF String
<1> HIDE DEF end
<1>5. String(a) = s
  BY <1>3, <1>4
<1>6. \A j \in 1 .. k - 1 : a[j] \in Char
  <2>1. \A j \in 1 .. k - 1 : a[j] \in Byte
    BY <1>1
  <2> QED
    BY <1>1, <2>1 DEF Byte, Char, NUL
<1>7. s = [j \in 1 .. k - 1 |-> a[j]]
  BY <1>1
<1>8. s \in Seq(Char) /\ Len(s) = k - 1
  <2> DEFINE n == k - 1
  <2>1. n \in Nat /\ (\A j \in 1 .. n : a[j] \in Char) /\ s = [j \in 1 .. n |-> a[j]]
    BY <1>1, <1>6, <1>7
  <2> HIDE DEF n, s
  <2>2. s \in Seq(Char) /\ Len(s) = n
    BY <2>1, SequenceOf
  <2> QED
    BY <2>2 DEF n
<1> QED
  BY <1>5, <1>7, <1>8

\* strlen counts the characters in front of it.
LEMMA StrlenCounts ==
    ASSUME NEW a \in Seq(Byte), NEW k, Ended(a, k)
    PROVE  strlen(a) = k - 1
<1> DEFINE m == Len(a) + 1
           stops == {i \in 1 .. m : a[i] = NUL \/ i > Len(a)}
           out == [i \in 1 .. m |-> i - 1]
           from == CHOOSE f : f = [i \in 1 .. Len(a) + 1 |->
                     IF a[i] = NUL \/ i > Len(a) THEN i - 1 ELSE f[i + 1]]
<1>1. m \in Nat \ {0} /\ m \in stops /\ stops \in SUBSET (1 .. m)
  OBVIOUS
<1>2. \E f : Loops(f, m, stops, out)
  <2> HIDE DEF m, stops, out
  <2> QED
    BY <1>1, LoopExists
<1>3. ASSUME NEW f
      PROVE  Loops(f, m, stops, out) <=>
               f = [i \in 1 .. Len(a) + 1 |-> IF a[i] = NUL \/ i > Len(a) THEN i - 1 ELSE f[i + 1]]
  <2>1. \A i \in 1 .. m : (i \in stops <=> a[i] = NUL \/ i > Len(a)) /\ out[i] = i - 1
    OBVIOUS
  <2> HIDE DEF stops, out
  <2> QED
    BY <2>1 DEF Loops
<1>4. Loops(from, m, stops, out)
  BY <1>2, <1>3
<1>5. strlen(a) = from[1]
  BY Zenon DEF strlen
<1>6. PICK i \in stops : (\A j \in stops : i <= j) /\ from[1] = out[i]
  <2> HIDE DEF m, stops, out, from
  <2>1. m \in Nat \ {0} /\ stops \in SUBSET (1 .. m) /\ m \in stops /\ Loops(from, m, stops, out)
    BY <1>1, <1>4
  <2> QED
    BY ONLY <2>1, LoopEnds
<1>7. k \in stops /\ \A j \in 1 .. k - 1 : j \notin stops
  BY DEF Ended
<1>8. i = k
  <2>1. i \in 1 .. m /\ k \in 1 .. m /\ i <= k
    BY <1>6, <1>7
  <2> HIDE DEF stops
  <2> QED
    BY <1>7, <2>1
<1> QED
  BY <1>5, <1>6, <1>8

\* strcmp compares up to the first character that differs or ends a string.
LEMMA StrcmpStops ==
    ASSUME NEW a \in Seq(Byte), NEW b \in Seq(Byte), NEW ka, Ended(a, ka), NEW kb, Ended(b, kb)
    PROVE  \E d \in 1 .. ka :
             /\ d <= kb
             /\ \A j \in 1 .. d - 1 : a[j] = b[j]
             /\ strcmp(a, b) = a[d] - b[d]
             /\ a[d] = b[d] => a[d] = NUL
<1> DEFINE m == Len(a) + 1
           stops == {i \in 1 .. m : ~(a[i] # NUL /\ b[i] # NUL /\ a[i] = b[i] /\ i <= Len(a))}
           out == [i \in 1 .. m |-> a[i] - b[i]]
           from == CHOOSE f : f = [i \in 1 .. Len(a) + 1 |->
                     IF a[i] # NUL /\ b[i] # NUL /\ a[i] = b[i] /\ i <= Len(a) THEN f[i + 1] ELSE a[i] - b[i]]
<1>1. m \in Nat \ {0} /\ m \in stops /\ stops \in SUBSET (1 .. m)
  OBVIOUS
<1>2. \E f : Loops(f, m, stops, out)
  <2> HIDE DEF m, stops, out
  <2> QED
    BY <1>1, LoopExists
<1>3. ASSUME NEW f
      PROVE  Loops(f, m, stops, out) <=>
               f = [i \in 1 .. Len(a) + 1 |->
                     IF a[i] # NUL /\ b[i] # NUL /\ a[i] = b[i] /\ i <= Len(a) THEN f[i + 1] ELSE a[i] - b[i]]
  <2>1. ASSUME NEW i \in 1 .. m
        PROVE  (IF a[i] # NUL /\ b[i] # NUL /\ a[i] = b[i] /\ i <= Len(a) THEN f[i + 1] ELSE a[i] - b[i])
                 = IF i \in stops THEN out[i] ELSE f[i + 1]
    OBVIOUS
  <2> HIDE DEF stops, out
  <2> QED
    BY <2>1 DEF Loops
<1>4. Loops(from, m, stops, out)
  BY <1>2, <1>3
<1>5. strcmp(a, b) = from[1]
  BY Zenon DEF strcmp
<1>6. PICK d \in stops : (\A j \in stops : d <= j) /\ from[1] = out[d]
  <2> HIDE DEF m, stops, out, from
  <2>1. m \in Nat \ {0} /\ stops \in SUBSET (1 .. m) /\ m \in stops /\ Loops(from, m, stops, out)
    BY <1>1, <1>4
  <2> QED
    BY ONLY <2>1, LoopEnds
<1> HIDE DEF from
<1>7. /\ ka \in 1 .. Len(a) /\ a[ka] = NUL /\ \A j \in 1 .. ka - 1 : a[j] # NUL
      /\ kb \in 1 .. Len(b) /\ b[kb] = NUL
  BY DEF Ended
<1>8. d \in 1 .. m /\ d <= ka
  BY <1>6, <1>7
<1>9. d <= kb
  <2>1. kb <= Len(a) => kb \in stops
    BY <1>7
  <2> QED
    BY <1>6, <1>7, <1>8, <2>1
<1>10. \A j \in 1 .. d - 1 : j \notin stops /\ j \in 1 .. m
  BY <1>6, <1>8
<1>11. \A j \in 1 .. d - 1 : a[j] = b[j]
  BY <1>10
<1>12. a[d] = b[d] => a[d] = NUL
  BY <1>6, <1>7, <1>8
<1>13. strcmp(a, b) = a[d] - b[d]
  BY <1>5, <1>6
<1> QED
  BY <1>7, <1>8, <1>9, <1>11, <1>12, <1>13

\* strncmp does so within the first n characters.
LEMMA StrncmpStops ==
    ASSUME NEW a, NEW b, NEW n \in Nat
    PROVE  \E d \in 1 .. n + 1 :
             /\ \A j \in 1 .. d - 1 : a[j] = b[j] /\ a[j] # NUL
             /\ d > n => strncmp(a, b, n) = 0
             /\ d <= n => /\ a[d] = b[d] => a[d] = NUL
                          /\ strncmp(a, b, n) = IF a[d] # b[d] THEN a[d] - b[d] ELSE 0
<1> DEFINE m == n + 1
           stops == {i \in 1 .. m : i > n \/ a[i] # b[i] \/ a[i] = NUL}
           out == [i \in 1 .. m |-> IF i > n THEN 0 ELSE IF a[i] # b[i] THEN a[i] - b[i] ELSE 0]
           from == CHOOSE f : f = [i \in 1 .. n + 1 |->
                     IF i > n THEN 0 ELSE IF a[i] # b[i] THEN a[i] - b[i] ELSE IF a[i] = NUL THEN 0 ELSE f[i + 1]]
<1>1. m \in Nat \ {0} /\ m \in stops /\ stops \in SUBSET (1 .. m)
  OBVIOUS
<1>2. \E f : Loops(f, m, stops, out)
  <2> HIDE DEF m, stops, out
  <2> QED
    BY <1>1, LoopExists
<1>3. ASSUME NEW f
      PROVE  Loops(f, m, stops, out) <=>
               f = [i \in 1 .. n + 1 |->
                     IF i > n THEN 0 ELSE IF a[i] # b[i] THEN a[i] - b[i] ELSE IF a[i] = NUL THEN 0 ELSE f[i + 1]]
  <2>1. ASSUME NEW i \in 1 .. m
        PROVE  (IF i > n THEN 0 ELSE IF a[i] # b[i] THEN a[i] - b[i] ELSE IF a[i] = NUL THEN 0 ELSE f[i + 1])
                 = IF i \in stops THEN out[i] ELSE f[i + 1]
    OBVIOUS
  <2> HIDE DEF stops, out
  <2> QED
    BY <2>1 DEF Loops
<1>4. Loops(from, m, stops, out)
  BY <1>2, <1>3
<1>5. strncmp(a, b, n) = from[1]
  BY Zenon DEF strncmp
<1>6. PICK d \in stops : (\A j \in stops : d <= j) /\ from[1] = out[d]
  <2> HIDE DEF m, stops, out, from
  <2>1. m \in Nat \ {0} /\ stops \in SUBSET (1 .. m) /\ m \in stops /\ Loops(from, m, stops, out)
    BY <1>1, <1>4
  <2> QED
    BY ONLY <2>1, LoopEnds
<1> HIDE DEF from
<1>7. d \in 1 .. m /\ \A j \in 1 .. d - 1 : j \notin stops /\ j \in 1 .. m
  BY <1>6
<1>8. \A j \in 1 .. d - 1 : a[j] = b[j] /\ a[j] # NUL
  BY <1>7
<1>9. d <= n => (a[d] = b[d] => a[d] = NUL)
  BY <1>6, <1>7
<1>10. strncmp(a, b, n) = IF d > n THEN 0 ELSE IF a[d] # b[d] THEN a[d] - b[d] ELSE 0
  BY <1>5, <1>6, <1>7
<1> QED
  BY <1>7, <1>8, <1>9, <1>10

\* memcmp compares up to the first byte that differs, NUL or not.
LEMMA MemcmpStops ==
    ASSUME NEW a, NEW b, NEW n \in Nat
    PROVE  \E d \in 1 .. n + 1 :
             /\ \A j \in 1 .. d - 1 : a[j] = b[j]
             /\ d > n => memcmp(a, b, n) = 0
             /\ d <= n => a[d] # b[d] /\ memcmp(a, b, n) = a[d] - b[d]
<1> DEFINE m == n + 1
           stops == {i \in 1 .. m : i > n \/ a[i] # b[i]}
           out == [i \in 1 .. m |-> IF i > n THEN 0 ELSE a[i] - b[i]]
           from == CHOOSE f : f = [i \in 1 .. n + 1 |->
                     IF i > n THEN 0 ELSE IF a[i] # b[i] THEN a[i] - b[i] ELSE f[i + 1]]
<1>1. m \in Nat \ {0} /\ m \in stops /\ stops \in SUBSET (1 .. m)
  OBVIOUS
<1>2. \E f : Loops(f, m, stops, out)
  <2> HIDE DEF m, stops, out
  <2> QED
    BY <1>1, LoopExists
<1>3. ASSUME NEW f
      PROVE  Loops(f, m, stops, out) <=>
               f = [i \in 1 .. n + 1 |->
                     IF i > n THEN 0 ELSE IF a[i] # b[i] THEN a[i] - b[i] ELSE f[i + 1]]
  <2>1. ASSUME NEW i \in 1 .. m
        PROVE  (IF i > n THEN 0 ELSE IF a[i] # b[i] THEN a[i] - b[i] ELSE f[i + 1])
                 = IF i \in stops THEN out[i] ELSE f[i + 1]
    OBVIOUS
  <2> HIDE DEF stops, out
  <2> QED
    BY <2>1 DEF Loops
<1>4. Loops(from, m, stops, out)
  BY <1>2, <1>3
<1>5. memcmp(a, b, n) = from[1]
  BY Zenon DEF memcmp
<1>6. PICK d \in stops : (\A j \in stops : d <= j) /\ from[1] = out[d]
  <2> HIDE DEF m, stops, out, from
  <2>1. m \in Nat \ {0} /\ stops \in SUBSET (1 .. m) /\ m \in stops /\ Loops(from, m, stops, out)
    BY <1>1, <1>4
  <2> QED
    BY ONLY <2>1, LoopEnds
<1> HIDE DEF from
<1>7. d \in 1 .. m /\ \A j \in 1 .. d - 1 : j \notin stops /\ j \in 1 .. m
  BY <1>6
<1>8. \A j \in 1 .. d - 1 : a[j] = b[j]
  BY <1>7
<1>9. d <= n => a[d] # b[d]
  BY <1>6, <1>7
<1>10. memcmp(a, b, n) = IF d > n THEN 0 ELSE a[d] - b[d]
  BY <1>5, <1>6, <1>7
<1> QED
  BY <1>7, <1>8, <1>9, <1>10

-----------------------------------------------------------------------------
(* StringsExact                                                             *)

\* A number tells the order of two sequences by where they first differ: if that is
\* within both, by what they hold there, else by which of them ends.
Tells(r, u, v, d) ==
    /\ d \in 1 .. Len(u) + 1 /\ d <= Len(v) + 1
    /\ \A j \in 1 .. d - 1 : u[j] = v[j]
    /\ d <= Len(u) /\ d <= Len(v) => u[d] # v[d] /\ (r < 0 <=> u[d] < v[d]) /\ (r > 0 <=> v[d] < u[d])
    /\ d <= Len(u) /\ d > Len(v) => r > 0
    /\ d > Len(u) /\ d <= Len(v) => r < 0
    /\ d > Len(u) /\ d > Len(v) => r = 0

\* One sequence of bytes is before the other if it ends there or is less there.
LEMMA BeforeAt ==
    ASSUME NEW u \in Seq(Byte), NEW v \in Seq(Byte), NEW d \in 1 .. Len(u) + 1, d <= Len(v) + 1,
           \A j \in 1 .. d - 1 : u[j] = v[j],
           d <= Len(u) /\ d <= Len(v) => u[d] # v[d]
    PROVE  Before(u, v) <=> d <= Len(v) /\ (d <= Len(u) => u[d] < v[d])
<1>1. /\ Len(u) \in Nat /\ Len(v) \in Nat
      /\ \A j \in 1 .. Len(u) : u[j] \in Int
      /\ \A j \in 1 .. Len(v) : v[j] \in Int
  BY BytesAre
<1>2. ASSUME d <= Len(v), d <= Len(u) => u[d] < v[d] PROVE Before(u, v)
  <2>1. d - 1 \in 0 .. Len(u) /\ d - 1 < Len(v) /\ d - 1 + 1 = d
    BY <1>1, <1>2
  <2>2. d - 1 < Len(u) => u[d - 1 + 1] < v[d - 1 + 1]
    BY <1>2, <2>1
  <2> QED
    BY <2>1, <2>2 DEF Before
<1>3. ASSUME Before(u, v) PROVE d <= Len(v) /\ (d <= Len(u) => u[d] < v[d])
  <2>1. PICK k \in 0 .. Len(u) :
          /\ k < Len(v)
          /\ \A j \in 1 .. k : u[j] = v[j]
          /\ k < Len(u) => u[k + 1] < v[k + 1]
    BY <1>3 DEF Before
  <2>2. ~(k + 1 < d)
    <3> SUFFICES ASSUME k + 1 < d PROVE FALSE
      OBVIOUS
    <3>1. k + 1 \in 1 .. d - 1 /\ k < Len(u) /\ k + 1 \in 1 .. Len(u) /\ k + 1 \in 1 .. Len(v)
      BY <1>1, <2>1
    <3> QED
      BY <1>1, <2>1, <3>1
  <2>3. d <= k => FALSE
    <3> SUFFICES ASSUME d <= k PROVE FALSE
      OBVIOUS
    <3>1. d \in 1 .. k /\ d <= Len(u) /\ d <= Len(v)
      BY <1>1, <2>1
    <3> QED
      BY <2>1, <3>1
  <2>4. d = k + 1
    BY <2>1, <2>2, <2>3
  <2> QED
    BY <1>1, <2>1, <2>4
<1> QED
  BY <1>2, <1>3

\* Where that is so, the sign tells the order.
LEMMA OrderAt ==
    ASSUME NEW u \in Seq(Byte), NEW v \in Seq(Byte), NEW d, NEW r \in Int, Tells(r, u, v, d)
    PROVE  SignTells(r, u, v)
<1>1. /\ d \in 1 .. Len(u) + 1 /\ d \in 1 .. Len(v) + 1
      /\ \A j \in 1 .. d - 1 : u[j] = v[j]
      /\ d <= Len(u) /\ d <= Len(v) => u[d] # v[d]
  BY DEF Tells
<1>2. Before(u, v) <=> d <= Len(v) /\ (d <= Len(u) => u[d] < v[d])
  BY <1>1, BeforeAt
<1>3. Before(v, u) <=> d <= Len(u) /\ (d <= Len(v) => v[d] < u[d])
  BY <1>1, BeforeAt
<1> QED
  BY <1>1, <1>2, <1>3 DEF SignTells, Tells

\* The beginning of a sequence.
LEMMA BeginningOf ==
    ASSUME NEW S, NEW s \in Seq(S), NEW m \in 0 .. Len(s)
    PROVE  /\ SubSeq(s, 1, m) \in Seq(S) /\ Len(SubSeq(s, 1, m)) = m
           /\ \A j \in 1 .. m : SubSeq(s, 1, m)[j] = s[j]
<1>1. \A j \in 1 .. m : s[j] \in S
  OBVIOUS
<1>2. SubSeq(s, 1, m) = [j \in 1 .. m |-> s[j]]
  OBVIOUS
<1>3. m \in Nat
  OBVIOUS
<1> QED
  BY <1>1, <1>2, <1>3, SequenceOf

\* Upto is one, of at most n elements.
LEMMA UptoProps ==
    ASSUME NEW S, NEW s \in Seq(S), NEW n \in Nat
    PROVE  /\ Upto(s, n) \in Seq(S)
           /\ Len(Upto(s, n)) = IF n < Len(s) THEN n ELSE Len(s)
           /\ \A j \in 1 .. Len(Upto(s, n)) : Upto(s, n)[j] = s[j]
<1> DEFINE m == IF n < Len(s) THEN n ELSE Len(s)
<1>1. m \in 0 .. Len(s)
  OBVIOUS
<1>2. Upto(s, n) = SubSeq(s, 1, m)
  BY DEF Upto
<1> HIDE DEF m
<1>3. Upto(s, n) \in Seq(S) /\ Len(Upto(s, n)) = m /\ \A j \in 1 .. m : Upto(s, n)[j] = s[j]
  BY <1>1, <1>2, BeginningOf
<1> QED
  BY <1>3 DEF m

\* A sequence of characters is one of bytes.
LEMMA CharsAreBytes ==
    ASSUME NEW s \in Seq(Char)
    PROVE  s \in Seq(Byte) /\ \A j \in 1 .. Len(s) : s[j] # 0 /\ s[j] > 0
<1> DEFINE n == Len(s)
<1>1. n \in Nat /\ s = [j \in 1 .. n |-> s[j]] /\ \A j \in 1 .. n : s[j] \in Char
  OBVIOUS
<1> HIDE DEF n
<1>2. \A x \in Char : x \in Byte /\ x # 0 /\ x > 0
  BY DEF Byte, Char
<1>3. \A j \in 1 .. n : s[j] \in Byte /\ s[j] # 0 /\ s[j] > 0
  BY <1>1, <1>2
<1>4. [j \in 1 .. n |-> s[j]] \in Seq(Byte)
  BY <1>1, <1>3, SequenceOf
<1> QED
  BY <1>1, <1>3, <1>4 DEF n

\* strcmp orders the strings.
LEMMA StrcmpTells ==
    ASSUME NEW a \in Seq(Byte), NEW ka, Ended(a, ka), NEW b \in Seq(Byte), NEW kb, Ended(b, kb)
    PROVE  SignTells(strcmp(a, b), String(a), String(b))
<1> DEFINE u == String(a)
           v == String(b)
           r == strcmp(a, b)
<1>1. u \in Seq(Byte) /\ Len(u) = ka - 1 /\ \A j \in 1 .. ka - 1 : u[j] = a[j]
  BY StringProps, CharsAreBytes
<1>2. v \in Seq(Byte) /\ Len(v) = kb - 1 /\ \A j \in 1 .. kb - 1 : v[j] = b[j]
  BY StringProps, CharsAreBytes
<1>3. PICK d \in 1 .. ka :
        /\ d <= kb
        /\ \A j \in 1 .. d - 1 : a[j] = b[j]
        /\ r = a[d] - b[d]
        /\ a[d] = b[d] => a[d] = NUL
  BY StrcmpStops
<1> HIDE DEF u, v, r
<1>4. /\ ka \in 1 .. Len(a) /\ a[ka] = 0 /\ \A j \in 1 .. ka - 1 : a[j] # 0
      /\ kb \in 1 .. Len(b) /\ b[kb] = 0 /\ \A j \in 1 .. kb - 1 : b[j] # 0
  BY DEF Ended, NUL
<1>5. /\ a[d] \in Int /\ a[d] >= 0 /\ b[d] \in Int /\ b[d] >= 0
      /\ Len(a) \in Nat /\ Len(b) \in Nat
  BY <1>3, <1>4, BytesAre
<1>6. /\ d \in 1 .. Len(u) + 1 /\ d <= Len(v) + 1
      /\ \A j \in 1 .. d - 1 : u[j] = v[j]
  BY <1>1, <1>2, <1>3, <1>4, <1>5
<1>7. d <= Len(u) => u[d] = a[d] /\ a[d] # 0
  BY <1>1, <1>3, <1>4, <1>5
<1>8. d <= Len(v) => v[d] = b[d] /\ b[d] # 0
  BY <1>2, <1>3, <1>4, <1>5
<1>9. (d > Len(u) => a[d] = 0) /\ (d > Len(v) => b[d] = 0)
  BY <1>1, <1>2, <1>3, <1>4, <1>5
<1>10. Tells(r, u, v, d)
  <2>1. Len(u) \in Nat /\ Len(v) \in Nat /\ d \in Nat /\ r = a[d] - b[d] /\ (a[d] = b[d] => a[d] = 0)
    BY <1>1, <1>2, <1>3 DEF NUL
  <2>2. d <= Len(u) /\ d <= Len(v) => u[d] # v[d] /\ (r < 0 <=> u[d] < v[d]) /\ (r > 0 <=> v[d] < u[d])
    BY <1>5, <1>7, <1>8, <2>1
  <2>3. d <= Len(u) /\ d > Len(v) => r > 0
    BY <1>5, <1>7, <1>9, <2>1
  <2>4. d > Len(u) /\ d <= Len(v) => r < 0
    BY <1>5, <1>8, <1>9, <2>1
  <2>5. d > Len(u) /\ d > Len(v) => r = 0
    BY <1>9, <2>1
  <2> QED
    BY <1>6, <2>2, <2>3, <2>4, <2>5 DEF Tells
<1>11. r \in Int
  BY <1>3, <1>5
<1> QED
  BY <1>1, <1>2, <1>10, <1>11, OrderAt DEF u, v, r

\* strncmp orders their first n characters.
LEMMA StrncmpTells ==
    ASSUME NEW a \in Seq(Byte), NEW ka, Ended(a, ka), NEW b \in Seq(Byte), NEW kb, Ended(b, kb),
           NEW n \in Nat
    PROVE  SignTells(strncmp(a, b, n), Upto(String(a), n), Upto(String(b), n))
<1> DEFINE s == String(a)
           t == String(b)
           u == Upto(s, n)
           v == Upto(t, n)
           r == strncmp(a, b, n)
<1>1. s \in Seq(Byte) /\ Len(s) = ka - 1 /\ \A j \in 1 .. ka - 1 : s[j] = a[j]
  BY StringProps, CharsAreBytes
<1>2. t \in Seq(Byte) /\ Len(t) = kb - 1 /\ \A j \in 1 .. kb - 1 : t[j] = b[j]
  BY StringProps, CharsAreBytes
<1> HIDE DEF s, t
<1>3. /\ u \in Seq(Byte) /\ Len(u) = IF n < Len(s) THEN n ELSE Len(s)
      /\ \A j \in 1 .. Len(u) : u[j] = s[j]
  BY <1>1, UptoProps
<1>4. /\ v \in Seq(Byte) /\ Len(v) = IF n < Len(t) THEN n ELSE Len(t)
      /\ \A j \in 1 .. Len(v) : v[j] = t[j]
  BY <1>2, UptoProps
<1>5. PICK d \in 1 .. n + 1 :
        /\ \A j \in 1 .. d - 1 : a[j] = b[j] /\ a[j] # NUL
        /\ d > n => r = 0
        /\ d <= n => /\ a[d] = b[d] => a[d] = NUL
                     /\ r = IF a[d] # b[d] THEN a[d] - b[d] ELSE 0
  BY StrncmpStops
<1> HIDE DEF u, v, r
<1>6. /\ ka \in 1 .. Len(a) /\ a[ka] = 0 /\ \A j \in 1 .. ka - 1 : a[j] # 0
      /\ kb \in 1 .. Len(b) /\ b[kb] = 0 /\ \A j \in 1 .. kb - 1 : b[j] # 0
      /\ Len(a) \in Nat /\ Len(b) \in Nat
  BY DEF Ended, NUL
<1>7. d <= ka /\ d <= kb
  <2>1. ASSUME ka < d PROVE FALSE
    BY <1>5, <1>6, <2>1 DEF NUL
  <2>2. ASSUME kb < d PROVE FALSE
    BY <1>5, <1>6, <2>2 DEF NUL
  <2> QED
    BY <1>5, <1>6, <2>1, <2>2
<1>8. /\ a[d] \in Int /\ a[d] >= 0 /\ b[d] \in Int /\ b[d] >= 0
  <2>1. d \in 1 .. Len(a) /\ d \in 1 .. Len(b)
    BY <1>5, <1>6, <1>7
  <2> QED
    BY <2>1, BytesAre
<1>9. /\ d \in 1 .. Len(u) + 1 /\ d <= Len(v) + 1
  BY <1>1, <1>2, <1>3, <1>4, <1>5, <1>6, <1>7
<1>10. \A j \in 1 .. d - 1 : u[j] = v[j]
  <2>1. ASSUME NEW j \in 1 .. d - 1 PROVE u[j] = v[j]
    <3>1. j \in 1 .. Len(u) /\ j \in 1 .. Len(v) /\ j \in 1 .. ka - 1 /\ j \in 1 .. kb - 1
      BY <1>1, <1>2, <1>3, <1>4, <1>6, <1>7, <1>9
    <3> QED
      BY <1>1, <1>2, <1>3, <1>4, <1>5, <3>1
  <2> QED
    BY <2>1
<1>11. d <= Len(u) => d <= n /\ u[d] = a[d] /\ a[d] # 0
  <2> SUFFICES ASSUME d <= Len(u) PROVE d <= n /\ u[d] = a[d] /\ a[d] # 0
    OBVIOUS
  <2>1. d \in 1 .. Len(u) /\ d \in 1 .. ka - 1 /\ d <= n
    BY <1>1, <1>3, <1>5, <1>6
  <2> QED
    BY <1>1, <1>3, <1>6, <2>1
<1>12. d <= Len(v) => d <= n /\ v[d] = b[d] /\ b[d] # 0
  <2> SUFFICES ASSUME d <= Len(v) PROVE d <= n /\ v[d] = b[d] /\ b[d] # 0
    OBVIOUS
  <2>1. d \in 1 .. Len(v) /\ d \in 1 .. kb - 1 /\ d <= n
    BY <1>2, <1>4, <1>5, <1>6
  <2> QED
    BY <1>2, <1>4, <1>6, <2>1
<1>13. (d > Len(u) /\ d <= n => a[d] = 0) /\ (d > Len(v) /\ d <= n => b[d] = 0)
  <2>1. ASSUME d > Len(u), d <= n PROVE a[d] = 0
    <3>1. d = ka
      BY <1>1, <1>3, <1>6, <1>7, <2>1
    <3> QED
      BY <1>6, <3>1
  <2>2. ASSUME d > Len(v), d <= n PROVE b[d] = 0
    <3>1. d = kb
      BY <1>2, <1>4, <1>6, <1>7, <2>2
    <3> QED
      BY <1>6, <3>1
  <2> QED
    BY <2>1, <2>2
<1>14. Len(u) \in Nat /\ Len(v) \in Nat /\ d \in Nat /\ Len(u) <= n /\ Len(v) <= n
  BY <1>1, <1>2, <1>3, <1>4, <1>5
<1>15. r \in Int /\ (d > n => r = 0) /\ (d <= n => r = a[d] - b[d] /\ (a[d] = b[d] => a[d] = 0))
  BY <1>5, <1>8, <1>14 DEF NUL
<1>16. Tells(r, u, v, d)
  <2>1. d <= Len(u) /\ d <= Len(v) => u[d] # v[d] /\ (r < 0 <=> u[d] < v[d]) /\ (r > 0 <=> v[d] < u[d])
    BY <1>8, <1>11, <1>12, <1>15
  <2>2. d <= Len(u) /\ d > Len(v) => r > 0
    BY <1>8, <1>11, <1>13, <1>15
  <2>3. d > Len(u) /\ d <= Len(v) => r < 0
    BY <1>8, <1>12, <1>13, <1>15
  <2>4. d > Len(u) /\ d > Len(v) => r = 0
    BY <1>13, <1>14, <1>15
  <2> QED
    BY <1>9, <1>10, <2>1, <2>2, <2>3, <2>4 DEF Tells
<1>17. SignTells(r, u, v)
  BY <1>3, <1>4, <1>15, <1>16, OrderAt
<1> QED
  BY <1>17 DEF r, u, v, s, t

\* memcmp orders the first n bytes of two arrays that have them.
LEMMA MemcmpTells ==
    ASSUME NEW a \in Seq(Byte), NEW b \in Seq(Byte), NEW n \in Nat, n <= Len(a), n <= Len(b)
    PROVE  SignTells(memcmp(a, b, n), Upto(a, n), Upto(b, n))
<1> DEFINE u == Upto(a, n)
           v == Upto(b, n)
           r == memcmp(a, b, n)
<1>1. Len(a) \in Nat /\ Len(b) \in Nat
  OBVIOUS
<1>2. u \in Seq(Byte) /\ Len(u) = n /\ \A j \in 1 .. n : u[j] = a[j]
  BY <1>1, UptoProps
<1>3. v \in Seq(Byte) /\ Len(v) = n /\ \A j \in 1 .. n : v[j] = b[j]
  BY <1>1, UptoProps
<1>4. PICK d \in 1 .. n + 1 :
        /\ \A j \in 1 .. d - 1 : a[j] = b[j]
        /\ d > n => r = 0
        /\ d <= n => a[d] # b[d] /\ r = a[d] - b[d]
  BY MemcmpStops
<1> HIDE DEF u, v, r
<1>5. d <= n => a[d] \in Int /\ b[d] \in Int
  <2>1. d <= n => d \in 1 .. Len(a) /\ d \in 1 .. Len(b)
    BY <1>1, <1>4
  <2> QED
    BY <2>1, BytesAre
<1>6. Tells(r, u, v, d)
  <2>1. \A j \in 1 .. d - 1 : u[j] = v[j]
    BY <1>2, <1>3, <1>4
  <2>2. d <= n => u[d] = a[d] /\ v[d] = b[d]
    BY <1>2, <1>3
  <2>3. d \in Nat /\ d >= 1 /\ d <= n + 1 /\ Len(u) = n /\ Len(v) = n
    BY <1>2, <1>3
  <2> QED
    BY <1>4, <1>5, <2>1, <2>2, <2>3 DEF Tells
<1>7. r \in Int
  BY <1>4, <1>5
<1>8. SignTells(r, u, v)
  BY <1>2, <1>3, <1>6, <1>7, OrderAt
<1> QED
  BY <1>8 DEF r, u, v

\* What memcpy makes of dest.
LEMMA MemcpyProps ==
    ASSUME NEW a \in Seq(Byte), NEW b \in Seq(Byte), NEW n \in Int, n <= Len(b)
    PROVE  /\ memcpy(a, b, n) \in Seq(Byte) /\ Len(memcpy(a, b, n)) = Len(a)
           /\ \A j \in 1 .. Len(a) : memcpy(a, b, n)[j] = IF j <= n THEN b[j] ELSE a[j]
<1> DEFINE m == Len(a)
           c == [j \in 1 .. m |-> IF j <= n THEN b[j] ELSE a[j]]
<1>1. m \in Nat /\ DOMAIN a = 1 .. m /\ \A j \in 1 .. m : a[j] \in Byte
  BY BytesAre
<1>2. \A j \in 1 .. m : j <= n => b[j] \in Byte
  <2>1. \A j \in 1 .. m : j <= n => j \in 1 .. Len(b)
    BY BytesAre
  <2> QED
    BY <2>1, BytesAre
<1>3. memcpy(a, b, n) = c
  BY <1>1 DEF memcpy
<1> HIDE DEF m
<1>4. \A j \in 1 .. m : c[j] = (IF j <= n THEN b[j] ELSE a[j]) /\ c[j] \in Byte
  BY <1>1, <1>2
<1>5. c = [j \in 1 .. m |-> c[j]]
  OBVIOUS
<1> HIDE DEF c
<1>6. c \in Seq(Byte) /\ Len(c) = m
  BY <1>1, <1>4, <1>5, SequenceOf
<1> QED
  BY <1>3, <1>4, <1>6 DEF m

\* An array holds the string that ends where it does and has its characters.
LEMMA SameString ==
    ASSUME NEW a \in Seq(Byte), NEW b \in Seq(Byte), NEW k, Ended(a, k), Ended(b, k),
           \A j \in 1 .. k - 1 : a[j] = b[j]
    PROVE  String(a) = String(b)
<1> DEFINE u == String(a)
           v == String(b)
<1>1. u \in Seq(Char) /\ Len(u) = k - 1 /\ \A j \in 1 .. k - 1 : u[j] = a[j]
  BY StringProps
<1>2. v \in Seq(Char) /\ Len(v) = k - 1 /\ \A j \in 1 .. k - 1 : v[j] = b[j]
  BY StringProps
<1> HIDE DEF u, v
<1>3. u = v
  BY <1>1, <1>2, SeqEqual
<1> QED
  BY <1>3 DEF u, v

\* strcpy copies the string and leaves alone what is behind it.
LEMMA StrcpyCopies ==
    ASSUME NEW a \in Seq(Byte), NEW b \in Seq(Byte), NEW k, Ended(b, k), Len(a) = Len(b)
    PROVE  /\ String(strcpy(a, b)) = String(b)
           /\ \A j \in DOMAIN a : j > Len(String(b)) + 1 => strcpy(a, b)[j] = a[j]
<1> DEFINE c == memcpy(a, b, k)
<1>1. /\ k \in 1 .. Len(b) /\ b[k] = NUL /\ \A j \in 1 .. k - 1 : b[j] # NUL
      /\ Len(b) \in Nat /\ DOMAIN a = 1 .. Len(a)
  BY BytesAre DEF Ended
<1>2. strcpy(a, b) = c /\ Len(String(b)) = k - 1
  <2>1. strlen(b) = k - 1 /\ Len(String(b)) = k - 1
    BY StrlenCounts, StringProps
  <2>2. k - 1 + 1 = k
    BY <1>1
  <2> QED
    BY <2>1, <2>2 DEF strcpy
<1>3. /\ c \in Seq(Byte) /\ Len(c) = Len(a)
      /\ \A j \in 1 .. Len(a) : c[j] = IF j <= k THEN b[j] ELSE a[j]
  <2>1. k \in Int /\ k <= Len(b)
    BY <1>1
  <2> QED
    BY <2>1, MemcpyProps
<1> HIDE DEF c
<1>4. \A j \in 1 .. k : c[j] = b[j]
  BY <1>1, <1>3
<1>5. Ended(c, k)
  BY <1>1, <1>3, <1>4 DEF Ended
<1>6. String(c) = String(b)
  <2>1. Ended(b, k) /\ \A j \in 1 .. k - 1 : c[j] = b[j]
    BY <1>1, <1>4
  <2> QED
    BY <1>3, <1>5, <2>1, SameString
<1>7. \A j \in DOMAIN a : j > k => c[j] = a[j]
  BY <1>1, <1>3
<1>8. k - 1 + 1 = k
  BY <1>1
<1> QED
  BY <1>2, <1>6, <1>7, <1>8

\* strncpy copies up to n of its characters, NULs from there to n, and nothing behind.
LEMMA StrncpyCopies ==
    ASSUME NEW a \in Seq(Byte), NEW b \in Seq(Byte), NEW k, Ended(b, k), Len(a) = Len(b),
           NEW n \in 0 .. Len(a)
    PROVE  /\ IsPrefix(Upto(String(b), n), strncpy(a, b, n))
           /\ \A j \in DOMAIN a : j > Len(String(b)) /\ j <= n => strncpy(a, b, n)[j] = NUL
           /\ \A j \in DOMAIN a : j > n => strncpy(a, b, n)[j] = a[j]
<1> DEFINE m == Len(a)
           c == [j \in 1 .. m |-> IF j > n THEN a[j] ELSE IF j <= k - 1 THEN b[j] ELSE NUL]
           s == String(b)
           u == Upto(s, n)
<1>1. /\ k \in 1 .. m /\ m \in Nat /\ DOMAIN a = 1 .. m /\ n \in 0 .. m
      /\ \A j \in 1 .. m : a[j] \in Byte /\ b[j] \in Byte
  BY BytesAre DEF Ended
<1>2. strlen(b) = k - 1
  BY StrlenCounts
<1>3. strncpy(a, b, n) = c
  BY <1>1, <1>2 DEF strncpy
<1>4. s \in Seq(Byte) /\ Len(s) = k - 1 /\ \A j \in 1 .. k - 1 : s[j] = b[j]
  BY StringProps, CharsAreBytes
<1> HIDE DEF m, s
<1>5. /\ u \in Seq(Byte) /\ Len(u) = IF n < Len(s) THEN n ELSE Len(s)
      /\ \A j \in 1 .. Len(u) : u[j] = s[j]
  BY <1>1, <1>4, UptoProps
<1> HIDE DEF u
<1>6. \A j \in 1 .. m : c[j] = (IF j > n THEN a[j] ELSE IF j <= k - 1 THEN b[j] ELSE NUL)
  OBVIOUS
<1>7. \A j \in 1 .. m : c[j] \in Byte
  <2>1. NUL \in Byte
    BY DEF NUL, Byte
  <2> QED
    BY <1>1, <1>6, <2>1
<1>8. c = [j \in 1 .. m |-> c[j]]
  OBVIOUS
<1> HIDE DEF c
<1>9. c \in Seq(Byte) /\ Len(c) = m
  BY <1>1, <1>7, <1>8, SequenceOf
<1> DEFINE w == SubSeq(c, 1, Len(u))
<1>10. Len(u) \in Nat /\ Len(u) <= m /\ Len(u) <= n /\ Len(u) <= k - 1
  BY <1>1, <1>4, <1>5
<1>11. w \in Seq(Byte) /\ Len(w) = Len(u) /\ \A j \in 1 .. Len(u) : w[j] = c[j]
  <2>1. Len(u) \in 0 .. Len(c)
    BY <1>9, <1>10
  <2> QED
    BY <1>9, <2>1, BeginningOf
<1>12. \A j \in 1 .. Len(u) : w[j] = u[j]
  <2>1. ASSUME NEW j \in 1 .. Len(u) PROVE w[j] = u[j]
    <3> HIDE DEF w
    <3>1. j \in 1 .. m /\ j \in 1 .. k - 1 /\ ~(j > n)
      BY <1>1, <1>10
    <3> QED
      BY <1>4, <1>5, <1>6, <1>11, <3>1
  <2> QED
    BY <2>1
<1>13. SubSeq(u, 1, Len(u)) = u
  BY <1>5
<1>14. w = u
  <2> HIDE DEF w
  <2> QED
    BY <1>5, <1>11, <1>12, SeqEqual
<1>15. IsPrefix(u, c)
  BY <1>9, <1>10, <1>13, <1>14 DEF IsPrefix
<1>16. \A j \in DOMAIN a : j > Len(s) /\ j <= n => c[j] = NUL
  BY <1>1, <1>4, <1>6
<1>17. \A j \in DOMAIN a : j > n => c[j] = a[j]
  BY <1>1, <1>6
<1> QED
  BY <1>3, <1>15, <1>16, <1>17 DEF s, u

\* memset looks at the low byte of what it is given, and not at what was there.
LEMMA MemsetSets ==
    ASSUME NEW a \in Seq(Byte), NEW b, NEW n \in Int
    PROVE  memset(memcpy(a, b, n), 256, n) = memset(a, 0, n)
<1>1. 256 % 256 = 0 /\ 0 % 256 = 0
  OBVIOUS
<1>2. DOMAIN memcpy(a, b, n) = DOMAIN a
  BY DEF memcpy
<1>3. \A i \in DOMAIN a : ~(i <= n) => memcpy(a, b, n)[i] = a[i]
  BY DEF memcpy
<1> QED
  BY <1>1, <1>2, <1>3 DEF memset

\* What the functions promise, of any arrays.
LEMMA FunctionsExact ==
    ASSUME NEW a \in Arrays, NEW b \in Arrays, NEW n \in 0 .. Len(a)
    PROVE  /\ strlen(a) = Len(String(a))
           /\ SignTells(strcmp(a, b), String(a), String(b))
           /\ SignTells(strncmp(a, b, n), Upto(String(a), n), Upto(String(b), n))
           /\ SignTells(memcmp(a, b, n), Upto(a, n), Upto(b, n))
           /\ String(strcpy(a, b)) = String(b)
           /\ \A k \in DOMAIN a : k > Len(String(b)) + 1 => strcpy(a, b)[k] = a[k]
           /\ IsPrefix(Upto(String(b), n), strncpy(a, b, n))
           /\ \A k \in DOMAIN a : k > Len(String(b)) /\ k <= n => strncpy(a, b, n)[k] = NUL
           /\ \A k \in DOMAIN a : k > n => strncpy(a, b, n)[k] = a[k]
           /\ memset(memcpy(a, b, n), 256, n) = memset(a, 0, n)
<1>1. /\ a \in Seq(Byte) /\ NUL \in ToSet(a)
      /\ b \in Seq(Byte) /\ NUL \in ToSet(b)
      /\ Len(a) = Len(b)
  BY TextAssumption DEF Byte
<1>2. Len(a) \in Nat /\ n \in Nat /\ n <= Len(a) /\ n <= Len(b)
  BY <1>1
<1>3. PICK ka \in 1 .. Len(a) : Ended(a, ka)
  BY <1>1, EndExists
<1>4. PICK kb \in 1 .. Len(b) : Ended(b, kb)
  BY <1>1, EndExists
<1>5. strlen(a) = Len(String(a))
  BY <1>1, <1>3, StrlenCounts, StringProps
<1>6. SignTells(strcmp(a, b), String(a), String(b))
  BY <1>1, <1>3, <1>4, StrcmpTells
<1>7. SignTells(strncmp(a, b, n), Upto(String(a), n), Upto(String(b), n))
  BY <1>1, <1>2, <1>3, <1>4, StrncmpTells
<1>8. SignTells(memcmp(a, b, n), Upto(a, n), Upto(b, n))
  BY <1>1, <1>2, MemcmpTells
<1>9. /\ String(strcpy(a, b)) = String(b)
      /\ \A k \in DOMAIN a : k > Len(String(b)) + 1 => strcpy(a, b)[k] = a[k]
  BY <1>1, <1>4, StrcpyCopies
<1>10. /\ IsPrefix(Upto(String(b), n), strncpy(a, b, n))
       /\ \A k \in DOMAIN a : k > Len(String(b)) /\ k <= n => strncpy(a, b, n)[k] = NUL
       /\ \A k \in DOMAIN a : k > n => strncpy(a, b, n)[k] = a[k]
  BY <1>1, <1>4, StrncpyCopies
<1>11. memset(memcpy(a, b, n), 256, n) = memset(a, 0, n)
  BY <1>1, <1>2, MemsetSets
<1> QED
  BY <1>5, <1>6, <1>7, <1>8, <1>9, <1>10, <1>11

-----------------------------------------------------------------------------

\* A call is on two arrays and a length that both have.
CallInv == call = NoCall \/ \E a, b \in Arrays : \E n \in 0 .. Len(a) : call = <<a, b, n>>

\* Every call of a function of string.c does what the reference says, for arrays of any
\* length and content: the comparisons order the strings by unsigned bytes and see nothing
\* behind their ends, the copies change nothing that is not theirs.
THEOREM StringsCorrect == TextInit /\ [][TextNext]_call => []StringsExact
<1>1. TextInit => CallInv
  BY DEF TextInit, CallInv
<1>2. CallInv /\ [TextNext]_call => CallInv'
  <2> SUFFICES ASSUME CallInv, [TextNext]_call PROVE CallInv'
    OBVIOUS
  <2>1. CASE call_string
    BY <2>1 DEF call_string, CallInv
  <2>2. CASE return_string
    BY <2>2 DEF return_string, CallInv
  <2>3. CASE UNCHANGED call
    BY <2>3 DEF CallInv
  <2> QED
    BY <2>1, <2>2, <2>3 DEF TextNext
<1>3. CallInv => StringsExact
  <2> SUFFICES ASSUME CallInv, call # NoCall PROVE StringsExact
    BY DEF StringsExact
  <2>1. PICK a \in Arrays, b \in Arrays : \E n \in 0 .. Len(a) : call = <<a, b, n>>
    BY DEF CallInv
  <2>2. PICK n \in 0 .. Len(a) : call = <<a, b, n>>
    BY <2>1
  <2>3. call[1] = a /\ call[2] = b /\ call[3] = n
    BY <2>2
  <2> QED
    BY <2>3, FunctionsExact DEF StringsExact
<1> QED
  BY <1>1, <1>2, <1>3, PTL

-----------------------------------------------------------------------------
(* The shell                                                                *)

\* strcmp finds two strings equal if and only if they are.
LEMMA StrcmpEqual ==
    ASSUME NEW a \in Seq(Byte), NEW ka, Ended(a, ka), NEW b \in Seq(Byte), NEW kb, Ended(b, kb)
    PROVE  strcmp(a, b) = 0 <=> String(a) = String(b)
<1>1. PICK d \in 1 .. ka :
        /\ d <= kb
        /\ \A j \in 1 .. d - 1 : a[j] = b[j]
        /\ strcmp(a, b) = a[d] - b[d]
        /\ a[d] = b[d] => a[d] = NUL
  BY StrcmpStops
<1>2. /\ ka \in 1 .. Len(a) /\ a[ka] = NUL /\ \A j \in 1 .. ka - 1 : a[j] # NUL
      /\ kb \in 1 .. Len(b) /\ b[kb] = NUL /\ \A j \in 1 .. kb - 1 : b[j] # NUL
      /\ Len(a) \in Nat /\ Len(b) \in Nat
  BY DEF Ended
<1>3. a[d] \in Int /\ b[d] \in Int
  <2>1. d \in 1 .. Len(a) /\ d \in 1 .. Len(b)
    BY <1>1, <1>2
  <2> QED
    BY <2>1, BytesAre
<1>4. ASSUME strcmp(a, b) = 0 PROVE String(a) = String(b)
  <2>1. a[d] = NUL /\ b[d] = NUL
    BY <1>1, <1>3, <1>4
  <2>2. d = ka /\ d = kb
    BY <1>1, <1>2, <2>1
  <2> QED
    BY <1>1, <2>2, SameString
<1>5. ASSUME String(a) = String(b) PROVE strcmp(a, b) = 0
  <2>1. Len(String(a)) = ka - 1 /\ \A j \in 1 .. ka - 1 : String(a)[j] = a[j]
    BY StringProps
  <2>2. Len(String(b)) = kb - 1 /\ \A j \in 1 .. kb - 1 : String(b)[j] = b[j]
    BY StringProps
  <2>3. ka = kb
    BY <1>2, <1>5, <2>1, <2>2
  <2>4. a[d] = b[d]
    <3>1. CASE d = ka
      BY <1>2, <2>3, <3>1
    <3>2. CASE d # ka
      <4>1. d \in 1 .. ka - 1 /\ d \in 1 .. kb - 1
        BY <1>1, <1>2, <2>3, <3>2
      <4> QED
        BY <1>5, <2>1, <2>2, <4>1
    <3> QED
      BY <3>1, <3>2
  <2> QED
    BY <1>1, <1>3, <2>4
<1> QED
  BY <1>4, <1>5

\* Its codes are characters, and the NUL is none of them.
LEMMA PrintableAre ==
    /\ \A c \in Printable : c \in Char /\ c \in Byte /\ c # NUL /\ c # BS /\ c # LF
    /\ NUL \in Byte
    /\ \A c \in Printable \union {NUL} : c \in Byte
BY ShellAssumption DEF Char, Byte, NUL, BS, LF, BLANK, DEL

\* The commands are strings.
LEMMA CommandsEnd ==
    ASSUME NEW k \in 1 .. 4
    PROVE  Commands[k] \in Seq(Byte) /\ \E e : Ended(Commands[k], e)
<1> DEFINE c == Commands[k]
           S == Printable \union {NUL}
           n == Len(c)
<1>1. c \in Seq(S) /\ NUL \in ToSet(c)
  BY ShellAssumption
<1> HIDE DEF c, S
<1>2. n \in Nat /\ c = [j \in 1 .. n |-> c[j]] /\ \A j \in 1 .. n : c[j] \in S
  BY <1>1
<1> HIDE DEF n
<1>3. \A j \in 1 .. n : c[j] \in Byte
  BY <1>2, PrintableAre DEF S
<1>4. [j \in 1 .. n |-> c[j]] \in Seq(Byte)
  BY <1>2, <1>3, SequenceOf
<1>5. c \in Seq(Byte)
  BY <1>2, <1>4
<1> QED
  BY <1>1, <1>5, EndExists DEF c

\* Types, and that the descriptor cat has opened is the only one.
ShellInv ==
    /\ ShellTypeOK
    /\ IF place \in {"cat_read", "cat_close"} THEN \E fd : fds = {fd} ELSE fds = {}

\* The shell keeps to its types, and each way out of cat closes what cat opened.
LEMMA ShellInvStep ==
    ShellInv /\ [ShellNext]_shellVars => ShellInv'
<1> SUFFICES ASSUME ShellInv, [ShellNext]_shellVars PROVE ShellInv'
  OBVIOUS
<1> USE DEF ShellInv, ShellTypeOK
<1>0. BUF_SIZE \in Nat \ {0, 1} /\ \A c \in Printable : c \in Printable \union {NUL}
  BY ShellAssumption
<1>1. CASE prompt
  BY <1>0, <1>1 DEF prompt
<1>2. CASE key_enter
  BY <1>0, <1>2 DEF key_enter, Terminated
<1>3. CASE key_backspace
  BY <1>0, <1>3 DEF key_backspace
<1>4. CASE key_char
  BY <1>0, <1>4 DEF key_char, Room
<1>5. CASE dispatch
  BY <1>5 DEF dispatch
<1>6. CASE cat_open
  BY <1>6 DEF cat_open
<1>7. CASE cat_read
  BY <1>7 DEF cat_read, AfterRead
<1>8. CASE cat_close
  <2>1. PICK fd \in fds : fds' = fds \ {fd}
    BY <1>8 DEF cat_close
  <2>2. fds' = {}
    BY <1>8, <2>1 DEF cat_close
  <2> QED
    BY <1>8, <2>2 DEF cat_close
<1>9. CASE exited
  BY <1>9 DEF exited, shellVars
<1>10. CASE UNCHANGED shellVars
  BY <1>10 DEF shellVars
<1> QED
  BY <1>1, <1>2, <1>3, <1>4, <1>5, <1>6, <1>7, <1>8, <1>9, <1>10 DEF ShellNext

\* readline never writes behind the buffer nor loses the place of the NUL: its count stays
\* below BUF_SIZE - 1.
THEOREM ShellTypes == ShellInit /\ [][ShellNext]_shellVars => []ShellTypeOK
<1>1. ShellInit => ShellInv
  BY ShellAssumption DEF ShellInit, ShellInv, ShellTypeOK
<1>2. ShellInv => ShellTypeOK
  BY DEF ShellInv
<1> QED
  BY <1>1, <1>2, ShellInvStep, PTL

\* Whatever open and read return, cat gives back the descriptor it has opened before the
\* shell prompts again.
THEOREM CatAlwaysCloses == ShellInit /\ [][ShellNext]_shellVars => []CatCloses
<1>1. ShellInit => ShellInv
  BY ShellAssumption DEF ShellInit, ShellInv, ShellTypeOK
<1>2. ShellInv => CatCloses
  BY DEF ShellInv, CatCloses
<1> QED
  BY <1>1, <1>2, ShellInvStep, PTL

\* What was typed stands at the beginning of the array, and ends there once Enter was hit.
LineInv ==
    /\ typed \in Seq(Printable)
    /\ place = "readline" => Len(typed) = len /\ \A j \in 1 .. len : line[j] = typed[j]
    /\ place = "dispatch" => Ended(line, Len(typed) + 1) /\ \A j \in 1 .. Len(typed) : line[j] = typed[j]

\* The array is a sequence of bytes.
LEMMA LineIs ==
    ASSUME ShellTypeOK
    PROVE  line \in Seq(Byte) /\ Len(line) = BUF_SIZE
<1> DEFINE n == BUF_SIZE
<1>1. n \in Nat /\ line = [j \in 1 .. n |-> line[j]] /\ \A j \in 1 .. n : line[j] \in Byte
  BY ShellAssumption, PrintableAre DEF ShellTypeOK
<1> HIDE DEF n
<1>2. [j \in 1 .. n |-> line[j]] \in Seq(Byte) /\ Len([j \in 1 .. n |-> line[j]]) = n
  BY <1>1, SequenceOf
<1> QED
  BY <1>1, <1>2 DEF n

\* Each key keeps the buffer in step with what was typed.
LEMMA LineInvStep ==
    ShellInv /\ LineInv /\ [ShellNext]_shellVars => LineInv'
<1> SUFFICES ASSUME ShellInv, LineInv, [ShellNext]_shellVars PROVE LineInv'
  OBVIOUS
<1>0. /\ BUF_SIZE \in Nat \ {0, 1} /\ len \in 0 .. BUF_SIZE - 1
      /\ line \in Seq(Byte) /\ Len(line) = BUF_SIZE /\ DOMAIN line = 1 .. BUF_SIZE
      /\ typed \in Seq(Printable) /\ Len(typed) \in Nat
      /\ \A j \in 1 .. Len(typed) : typed[j] # NUL
  <2>1. ShellTypeOK
    BY DEF ShellInv
  <2>2. BUF_SIZE \in Nat \ {0, 1} /\ len \in 0 .. BUF_SIZE - 1 /\ DOMAIN line = 1 .. BUF_SIZE
    BY <2>1, ShellAssumption DEF ShellTypeOK
  <2>3. typed \in Seq(Printable) /\ \A j \in 1 .. Len(typed) : typed[j] \in Printable
    BY DEF LineInv
  <2>4. Len(typed) \in Nat /\ \A j \in 1 .. Len(typed) : typed[j] # NUL
    BY <2>3, PrintableAre
  <2> QED
    BY <2>1, <2>2, <2>3, <2>4, LineIs
<1>1. CASE prompt
  BY <1>1 DEF prompt, LineInv
<1>2. CASE key_enter
  <2>1. /\ Len(typed) = len /\ \A j \in 1 .. len : line[j] = typed[j]
        /\ line' = [line EXCEPT ![len + 1] = NUL]
        /\ UNCHANGED <<len, typed>> /\ place' \in {"prompt", "dispatch"}
    BY <1>2 DEF key_enter, LineInv, Terminated
  <2>2. len + 1 \in 1 .. BUF_SIZE
    BY <1>0
  <2>3. line'[len + 1] = NUL /\ \A j \in 1 .. len : line'[j] = typed[j]
    BY <1>0, <2>1, <2>2
  <2>4. Len(line') = BUF_SIZE
    <3>1. line' \in Seq(Byte \union {NUL}) /\ Len(line') = Len(line)
      BY <1>0, <2>1, <2>2
    <3> QED
      BY <1>0, <3>1
  <2>5. Ended(line', len + 1)
    <3>1. \A j \in 1 .. len + 1 - 1 : line'[j] # NUL
      BY <1>0, <2>1, <2>3
    <3>2. len + 1 \in 1 .. Len(line') /\ line'[len + 1] = NUL
      BY <2>2, <2>3, <2>4
    <3>3. ASSUME NEW a, a = line', NEW k, k = len + 1 PROVE Ended(a, k)
      <4>1. len \in Int /\ k - 1 = len /\ len + 1 - 1 = len
        BY <1>0, <3>3
      <4> QED
        BY <3>1, <3>2, <3>3, <4>1 DEF Ended
    <3> QED
      BY <3>3
  <2> QED
    BY <1>0, <2>1, <2>3, <2>5 DEF LineInv, Ended
<1>3. CASE key_backspace
  <2>1. /\ Len(typed) = len /\ \A j \in 1 .. len : line[j] = typed[j]
        /\ len' = len - 1 /\ len > 0 /\ typed' = SubSeq(typed, 1, len - 1)
        /\ UNCHANGED <<place, line>> /\ place = "readline"
    BY <1>3 DEF key_backspace, LineInv
  <2>2. len - 1 \in 0 .. Len(typed)
    BY <1>0, <2>1
  <2>3. typed' \in Seq(Printable) /\ Len(typed') = len - 1 /\ \A j \in 1 .. len - 1 : typed'[j] = typed[j]
    BY <1>0, <2>1, <2>2, BeginningOf
  <2> QED
    BY <1>0, <2>1, <2>3 DEF LineInv
<1>4. CASE key_char
  <2>1. PICK ch \in Printable : line' = [line EXCEPT ![len + 1] = ch] /\ typed' = Append(typed, ch)
    BY <1>4 DEF key_char
  <2>2. /\ Len(typed) = len /\ \A j \in 1 .. len : line[j] = typed[j]
        /\ len' = len + 1 /\ place = "readline" /\ place' = place /\ len + 1 \in 1 .. BUF_SIZE
    BY <1>0, <1>4 DEF key_char, LineInv, Room
  <2>3. /\ typed' \in Seq(Printable) /\ Len(typed') = len + 1
        /\ typed'[len + 1] = ch /\ \A j \in 1 .. len : typed'[j] = typed[j]
    BY <1>0, <2>1, <2>2
  <2>4. line'[len + 1] = ch /\ \A j \in 1 .. len : line'[j] = line[j]
    BY <1>0, <2>1, <2>2
  <2>5. \A j \in 1 .. len + 1 : line'[j] = typed'[j]
    <3>1. \A j \in 1 .. len + 1 : j \in 1 .. len \/ j = len + 1
      BY <1>0
    <3> QED
      BY <2>2, <2>3, <2>4, <3>1
  <2> QED
    BY <2>2, <2>3, <2>5 DEF LineInv
<1>5. CASE dispatch
  BY <1>5 DEF dispatch, LineInv
<1>6. CASE cat_open
  BY <1>6 DEF cat_open, LineInv
<1>7. CASE cat_read
  BY <1>7 DEF cat_read, AfterRead, LineInv
<1>8. CASE cat_close
  BY <1>8 DEF cat_close, LineInv
<1>9. CASE exited
  BY <1>9 DEF exited, shellVars, LineInv, Ended
<1>10. CASE UNCHANGED shellVars
  BY <1>10 DEF shellVars, LineInv, Ended
<1> QED
  BY <1>1, <1>2, <1>3, <1>4, <1>5, <1>6, <1>7, <1>8, <1>9, <1>10 DEF ShellNext

\* In dispatch the line is what was typed, and a command matches if it is that.
LEMMA MatchesTyped ==
    ASSUME ShellInv, LineInv, place = "dispatch", NEW k \in 1 .. 4
    PROVE  k \in Match <=> typed = String(Commands[k])
<1>1. line \in Seq(Byte)
  BY LineIs DEF ShellInv
<1>2. Ended(line, Len(typed) + 1) /\ typed \in Seq(Printable) /\ \A j \in 1 .. Len(typed) : line[j] = typed[j]
  BY DEF LineInv
<1>3. String(line) = typed
  <2> DEFINE u == String(line)
             n == Len(typed)
  <2>1. n \in Nat /\ n + 1 - 1 = n
    BY <1>2
  <2>2. u \in Seq(Char) /\ Len(u) = n /\ \A j \in 1 .. n : u[j] = line[j]
    BY <1>1, <1>2, <2>1, StringProps
  <2> HIDE DEF u
  <2>3. u = typed
    BY <1>2, <2>2, SeqEqual
  <2> QED
    BY <2>3 DEF u
<1>4. PICK e : Ended(Commands[k], e)
  BY CommandsEnd
<1>5. Commands[k] \in Seq(Byte)
  BY CommandsEnd
<1>6. strcmp(line, Commands[k]) = 0 <=> String(line) = String(Commands[k])
  BY <1>1, <1>2, <1>4, <1>5, StrcmpEqual
<1>7. DOMAIN Commands = 1 .. 4
  BY DEF Commands
<1> QED
  BY <1>3, <1>6, <1>7 DEF Match, Is

\* What runs is the typed command, or nothing if there is none.
RanIsTyped ==
    \/ \E k \in 1 .. 4 : ran' = Names[k] /\ typed = String(Commands[k])
    \/ ran' = "unknown" /\ \A k \in 1 .. 4 : typed # String(Commands[k])

\* The comparisons of the dispatch find what was typed.
LEMMA CommandIsTyped ==
    ASSUME ShellInv, LineInv, place = "dispatch", ran' = Command
    PROVE  RanIsTyped
<1>1. \A k \in 1 .. 4 : k \in Match <=> typed = String(Commands[k])
  BY MatchesTyped
<1>2. Match \subseteq 1 .. 4
  BY DEF Match, Commands
<1>3. CASE Match = {}
  BY <1>1, <1>3 DEF Command, RanIsTyped
<1>4. CASE Match # {}
  <2> DEFINE k == CHOOSE k \in Match : \A j \in Match : k <= j
  <2>1. \E k1 \in Match : \A j \in Match : k1 <= j
    <3>1. Match \in SUBSET Nat
      BY <1>2
    <3> QED
      BY <1>4, <3>1, LeastExists
  <2>2. k \in Match
    BY <2>1
  <2>3. ran' = Names[k]
    BY <1>4 DEF Command
  <2> HIDE DEF k
  <2>4. k \in 1 .. 4 /\ typed = String(Commands[k])
    BY <1>1, <1>2, <2>2
  <2> QED
    BY <2>3, <2>4 DEF RanIsTyped
<1> QED
  BY <1>3, <1>4

\* The command that runs is the one that was typed, for every buffer and every commands.
THEOREM RunsTyped == ShellInit /\ [][ShellNext]_shellVars => RunsWhatWasTyped
<1>1. ShellInit => ShellInv /\ LineInv
  BY ShellAssumption DEF ShellInit, ShellInv, ShellTypeOK, LineInv
<1>2. ShellInv /\ LineInv /\ [ShellNext]_shellVars => (ran' # ran => RanIsTyped)
  <2> SUFFICES ASSUME ShellInv, LineInv, [ShellNext]_shellVars, ran' # ran PROVE RanIsTyped
    OBVIOUS
  <2>1. CASE dispatch
    BY <2>1, CommandIsTyped DEF dispatch
  <2>2. CASE cat_open
    BY <2>2, CommandIsTyped DEF cat_open
  <2>3. CASE prompt \/ key_enter \/ key_backspace \/ key_char
    BY <2>3 DEF prompt, key_enter, key_backspace, key_char
  <2>4. CASE cat_read \/ cat_close \/ exited \/ UNCHANGED shellVars
    BY <2>4 DEF cat_read, cat_close, exited, shellVars
  <2> QED
    BY <2>1, <2>2, <2>3, <2>4 DEF ShellNext
<1>3. ASSUME RanIsTyped
      PROVE  \/ \E k \in 1 .. 4 : ran' = Names[k] /\ typed = String(Commands[k])
             \/ ran' = "unknown" /\ \A k \in 1 .. 4 : typed # String(Commands[k])
  BY <1>3 DEF RanIsTyped
<1> QED
  BY <1>1, <1>2, <1>3, ShellInvStep, LineInvStep, PTL DEF RunsWhatWasTyped

-----------------------------------------------------------------------------
(* What stands on the screen                                                *)

Rows == {r \in [text : Seq(Byte), col : Nat] : r.col <= Len(r.text)}

\* The rows with nothing behind the cursor.
FullRows == {r \in Rows : r.col = Len(r.text)}

\* What a character does to a row.
LEMMA PutProps ==
    ASSUME NEW row \in Rows, NEW ch \in Byte
    PROVE  /\ Put(row, ch) \in Rows
           /\ row \in FullRows /\ ch # BS => Put(row, ch) \in FullRows
<1>1. /\ row.text \in Seq(Byte) /\ row.col \in Nat /\ row.col <= Len(row.text)
      /\ row \in FullRows <=> row.col = Len(row.text)
      /\ Len(row.text) \in Nat
  BY DEF Rows, FullRows
<1>2. ASSUME NEW r, r = Put(row, ch), r.text \in Seq(Byte), r.col \in Nat, r = [text |-> r.text, col |-> r.col],
             r.col <= Len(r.text)
      PROVE  r \in Rows /\ (r.col = Len(r.text) => r \in FullRows)
  BY <1>2 DEF Rows, FullRows
<1> DEFINE r == Put(row, ch)
<1>3. CASE ch = LF
  <2>1. r = [text |-> <<>>, col |-> 0]
    BY <1>3 DEF Put
  <2> HIDE DEF r
  <2>2. r.text = <<>> /\ r.col = 0 /\ Len(<<>>) = 0 /\ <<>> \in Seq(Byte)
    BY <2>1
  <2> QED
    BY <2>1, <2>2 DEF r, Rows, FullRows
<1>4. CASE ch = NUL
  BY <1>4 DEF Put, LF, NUL
<1>5. CASE ch = BS
  BY <1>1, <1>5 DEF Put, LF, NUL, BS, Rows
<1>6. CASE ch \notin {LF, NUL, BS} /\ row.col < Len(row.text)
  <2> DEFINE t == [row.text EXCEPT ![row.col + 1] = ch]
  <2>1. r = [text |-> t, col |-> row.col + 1]
    BY <1>6 DEF Put, ReplaceAt
  <2>2. t \in Seq(Byte) /\ Len(t) = Len(row.text)
    BY <1>1, <1>6
  <2> HIDE DEF r, t
  <2>3. r.text = t /\ r.col = row.col + 1 /\ row.col + 1 \in Nat /\ row.col + 1 <= Len(t)
    BY <1>1, <1>6, <2>1, <2>2
  <2>4. r \in Rows
    BY <2>1, <2>2, <2>3 DEF Rows
  <2> QED
    BY <1>1, <1>6, <2>4 DEF r
<1>7. CASE ch \notin {LF, NUL, BS} /\ ~(row.col < Len(row.text))
  <2> DEFINE t == Append(row.text, ch)
  <2>1. r = [text |-> t, col |-> row.col + 1]
    BY <1>7 DEF Put
  <2>2. t \in Seq(Byte) /\ Len(t) = Len(row.text) + 1
    BY <1>1
  <2> HIDE DEF r, t
  <2>3. r.text = t /\ r.col = row.col + 1 /\ row.col + 1 \in Nat /\ row.col + 1 = Len(t)
    BY <1>1, <1>7, <2>1, <2>2
  <2> QED
    BY <2>1, <2>2, <2>3 DEF r, Rows, FullRows
<1> QED
  BY <1>3, <1>4, <1>5, <1>6, <1>7

\* The rows that the characters of a string make one after the other.
Prints(f, row, s, n) ==
    /\ f[0] = row
    /\ \A k \in 1 .. n : f[k] = Put(f[k - 1], s[k])

\* puts gives the last, and every one of them is where such characters lead to.
LEMMA PutsPrints ==
    ASSUME NEW Y, NEW row \in Y, NEW s \in Seq(Byte), NEW n \in Nat, Ended(s, n + 1),
           \A r \in Y : \A k \in 1 .. n : Put(r, s[k]) \in Y
    PROVE  \E f : Prints(f, row, s, n) /\ puts(row, s) = f[n] /\ f[n] \in Y
<1> DEFINE after == CHOOSE f : f = [k \in 0 .. Len(String(s)) |-> IF k = 0 THEN row ELSE Put(f[k - 1], s[k])]
           G == [k \in Nat |-> [r \in Y |-> IF k \in 1 .. n THEN Put(r, s[k]) ELSE r]]
<1>1. Len(String(s)) = n
  <2>1. n + 1 - 1 = n
    OBVIOUS
  <2> QED
    BY <2>1, StringProps
<1>2. G \in StepsOn(Y)
  <2>1. \A k \in Nat, r \in Y : (IF k \in 1 .. n THEN Put(r, s[k]) ELSE r) \in Y
    OBVIOUS
  <2> QED
    BY <2>1 DEF StepsOn
<1>3. \A k \in 1 .. n : \A r \in Y : G[k][r] = Put(r, s[k])
  OBVIOUS
<1> HIDE DEF G
<1>4. PICK g : Unfolds(g, Y, row, G, n)
  BY <1>2, RecursionExists
<1>5. g = [k \in 0 .. n |-> IF k = 0 THEN row ELSE Put(g[k - 1], s[k])]
  <2>1. g \in [0 .. n -> Y] /\ g[0] = row /\ \A k \in 1 .. n : g[k] = G[k][g[k - 1]]
    BY <1>4 DEF Unfolds
  <2>2. \A k \in 1 .. n : g[k] = Put(g[k - 1], s[k])
    <3>1. \A k \in 1 .. n : k - 1 \in 0 .. n
      OBVIOUS
    <3> QED
      BY <1>3, <2>1, <3>1
  <2>3. \A k \in 0 .. n : k = 0 \/ k \in 1 .. n
    OBVIOUS
  <2> QED
    BY <2>1, <2>2, <2>3
<1>6. after = [k \in 0 .. n |-> IF k = 0 THEN row ELSE Put(after[k - 1], s[k])]
  BY <1>1, <1>5
<1>7. puts(row, s) = after[n]
  BY <1>1 DEF puts
<1> HIDE DEF after
<1>8. after[0] = row /\ \A k \in 1 .. n : after[k] = Put(after[k - 1], s[k])
  BY <1>6
<1> DEFINE T == {k \in 0 .. n : after[k] \in Y}
<1>9. 0 \in T
  BY <1>8
<1>10. \A k \in 1 .. n : k - 1 \in T => k \in T
  BY <1>8
<1> HIDE DEF T
<1>11. \A k \in 0 .. n : k \in T
  BY <1>9, <1>10, SegmentInduction
<1>12. n \in T
  BY <1>11
<1> QED
  BY <1>7, <1>8, <1>12 DEF T, Prints

\* A string that does not move the cursor back leaves nothing behind it.
LEMMA PutsFull ==
    ASSUME NEW row \in FullRows, NEW s \in Seq(Byte), NUL \in ToSet(s), BS \notin ToSet(s)
    PROVE  puts(row, s) \in FullRows
<1>1. PICK e \in 1 .. Len(s) : Ended(s, e)
  BY EndExists
<1> DEFINE n == e - 1
<1>2. n \in Nat /\ n + 1 = e
  BY <1>1
<1>3. \A k \in 1 .. n : s[k] \in Byte /\ s[k] # BS
  <2>1. \A k \in 1 .. n : k \in 1 .. Len(s)
    BY <1>1
  <2> QED
    BY <2>1, BytesAre DEF ToSet
<1> HIDE DEF n
<1>4. \A r \in FullRows : \A k \in 1 .. n : Put(r, s[k]) \in FullRows
  <2>1. ASSUME NEW r \in FullRows, NEW k \in 1 .. n PROVE Put(r, s[k]) \in FullRows
    <3>1. r \in Rows
      BY DEF FullRows
    <3> QED
      BY <1>3, <3>1, PutProps
  <2> QED
    BY <2>1
<1>5. Ended(s, n + 1)
  BY <1>1, <1>2
<1>6. n \in Nat /\ row \in FullRows /\ s \in Seq(Byte)
  BY <1>2
<1>7. \E f : Prints(f, row, s, n) /\ puts(row, s) = f[n] /\ f[n] \in FullRows
  <2> HIDE DEF FullRows
  <2> QED
    BY <1>4, <1>5, <1>6, PutsPrints
<1> QED
  BY <1>7

\* A character that is put at the cursor, which goes on behind it.
PutAt(r, row, ch) ==
    /\ r \in Rows
    /\ r.col = row.col + 1
    /\ r.text[row.col + 1] = ch
    /\ Len(r.text) = IF row.col < Len(row.text) THEN Len(row.text) ELSE Len(row.text) + 1
    /\ \A j \in 1 .. Len(row.text) : j # row.col + 1 => r.text[j] = row.text[j]

\* So does each but three.
LEMMA PutCharacter ==
    ASSUME NEW row \in Rows, NEW ch \in Byte, ch \notin {LF, NUL, BS}
    PROVE  PutAt(Put(row, ch), row, ch)
<1> DEFINE r == Put(row, ch)
<1>1. row.text \in Seq(Byte) /\ row.col \in Nat /\ row.col <= Len(row.text) /\ Len(row.text) \in Nat
  BY DEF Rows
<1>2. r \in Rows
  BY PutProps
<1>3. CASE row.col < Len(row.text)
  <2> DEFINE t == [row.text EXCEPT ![row.col + 1] = ch]
  <2>1. r = [text |-> t, col |-> row.col + 1]
    BY <1>3 DEF Put, ReplaceAt
  <2>2. /\ Len(t) = Len(row.text) /\ t[row.col + 1] = ch
        /\ \A j \in 1 .. Len(row.text) : j # row.col + 1 => t[j] = row.text[j]
    BY <1>1, <1>3
  <2> HIDE DEF r, t
  <2>3. r.text = t /\ r.col = row.col + 1
    BY <2>1
  <2>4. PutAt(r, row, ch)
    BY <1>2, <1>3, <2>2, <2>3 DEF PutAt
  <2> QED
    BY <2>4 DEF r
<1>4. CASE ~(row.col < Len(row.text))
  <2> DEFINE t == Append(row.text, ch)
  <2>1. r = [text |-> t, col |-> row.col + 1]
    BY <1>4 DEF Put
  <2>2. /\ Len(t) = Len(row.text) + 1 /\ t[row.col + 1] = ch
        /\ \A j \in 1 .. Len(row.text) : t[j] = row.text[j]
    BY <1>1, <1>4
  <2> HIDE DEF r, t
  <2>3. r.text = t /\ r.col = row.col + 1
    BY <2>1
  <2>4. PutAt(r, row, ch)
    BY <1>2, <1>4, <2>2, <2>3 DEF PutAt
  <2> QED
    BY <2>4 DEF r
<1> QED
  BY <1>3, <1>4

\* A backspace moves the cursor and changes nothing.
LEMMA PutBackspace ==
    ASSUME NEW row \in Rows, row.col >= 1
    PROVE  /\ Put(row, BS) \in Rows
           /\ Put(row, BS).text = row.text
           /\ Put(row, BS).col = row.col - 1
<1>1. row \in [text : Seq(Byte), col : Nat] /\ row.col \in Nat /\ row.col # 0
  BY DEF Rows
<1>2. BS \in Byte
  BY DEF BS, Byte
<1>3. Put(row, BS) = [row EXCEPT !.col = row.col - 1]
  BY <1>1 DEF Put, BS, LF, NUL
<1> QED
  BY <1>1, <1>2, <1>3, PutProps

\* The line t on a row, behind the m characters up to the prompt's end, and blanks behind
\* the cursor.
Shown(row, t, m) ==
    /\ row \in Rows
    /\ m \in Nat /\ m >= 2
    /\ row.col = m + Len(t)
    /\ row.text[m - 1] = 62 /\ row.text[m] = BLANK
    /\ \A j \in 1 .. Len(t) : row.text[m + j] = t[j]
    /\ \A j \in row.col + 1 .. Len(row.text) : row.text[j] = BLANK

\* The prompt on a row with nothing behind the cursor shows an empty line.
LEMMA PromptShown ==
    ASSUME NEW row \in FullRows
    PROVE  Shown(puts(row, Prompt), <<>>, row.col + 2)
<1>1. Prompt \in Seq(Byte) /\ Ended(Prompt, 2 + 1) /\ Prompt[1] = 62 /\ Prompt[2] = BLANK
  BY DEF Prompt, Byte, Ended, NUL, BLANK
<1>2. row \in Rows /\ row.col \in Nat /\ row.col = Len(row.text)
  BY DEF FullRows, Rows
<1>3. 62 \in Byte /\ 62 \notin {LF, NUL, BS} /\ BLANK \in Byte /\ BLANK \notin {LF, NUL, BS}
  BY DEF Byte, LF, NUL, BS, BLANK
<1>4. \A r \in Rows : \A k \in 1 .. 2 : Put(r, Prompt[k]) \in Rows
  <2>1. ASSUME NEW r \in Rows, NEW k \in 1 .. 2 PROVE Put(r, Prompt[k]) \in Rows
    <3>1. Prompt[k] \in Byte
      BY <1>1, <1>3
    <3> QED
      BY <3>1, PutProps
  <2> QED
    BY <2>1
<1>5. \E f : Prints(f, row, Prompt, 2) /\ puts(row, Prompt) = f[2] /\ f[2] \in Rows
  <2>1. 2 \in Nat
    OBVIOUS
  <2> HIDE DEF Rows
  <2> QED
    BY <1>1, <1>2, <1>4, <2>1, PutsPrints
<1>6. PICK f : Prints(f, row, Prompt, 2) /\ puts(row, Prompt) = f[2]
  BY <1>5
<1> DEFINE r == Put(row, 62)
           q == Put(r, BLANK)
<1>7. puts(row, Prompt) = q
  BY <1>1, <1>6 DEF Prints
<1>8. PutAt(r, row, 62)
  BY <1>2, <1>3, PutCharacter
<1>9. r \in Rows /\ r.col = row.col + 1 /\ r.text[row.col + 1] = 62 /\ Len(r.text) = row.col + 1
  BY <1>2, <1>8 DEF PutAt
<1> HIDE DEF r
<1>10. PutAt(q, r, BLANK)
  BY <1>3, <1>9, PutCharacter
<1> HIDE DEF q
<1>11. /\ q \in Rows /\ q.col = row.col + 2 /\ q.text[row.col + 2] = BLANK /\ Len(q.text) = row.col + 2
       /\ q.text[row.col + 1] = 62
  BY <1>2, <1>9, <1>10 DEF PutAt
<1>12. Len(<<>>) = 0 /\ row.col + 2 \in Nat /\ row.col + 2 >= 2 /\ row.col + 2 - 1 = row.col + 1
  BY <1>2
<1> QED
  BY <1>2, <1>7, <1>11, <1>12 DEF Shown

\* A character goes on the row and the line.
LEMMA CharacterShown ==
    ASSUME NEW row, NEW t \in Seq(Printable), NEW m, Shown(row, t, m), NEW ch \in Printable
    PROVE  Shown(Put(row, ch), Append(t, ch), m)
<1> DEFINE r == Put(row, ch)
           u == Append(t, ch)
<1>1. ch \in Byte /\ ch \notin {LF, NUL, BS}
  BY PrintableAre
<1>2. /\ row \in Rows /\ row.col \in Nat /\ row.col <= Len(row.text) /\ Len(row.text) \in Nat
      /\ m \in Nat /\ m >= 2 /\ row.col = m + Len(t) /\ Len(t) \in Nat
      /\ row.text[m - 1] = 62 /\ row.text[m] = BLANK
      /\ \A j \in 1 .. Len(t) : row.text[m + j] = t[j]
      /\ \A j \in row.col + 1 .. Len(row.text) : row.text[j] = BLANK
  BY DEF Shown, Rows
<1>n. /\ row.col \in Nat /\ row.col <= Len(row.text) /\ Len(row.text) \in Nat
      /\ m \in Nat /\ m >= 2 /\ row.col = m + Len(t) /\ Len(t) \in Nat
  BY <1>2
<1>3. PutAt(r, row, ch)
  BY <1>1, <1>2, PutCharacter
<1>4. Len(u) = Len(t) + 1 /\ u[Len(t) + 1] = ch /\ \A j \in 1 .. Len(t) : u[j] = t[j]
  OBVIOUS
<1> HIDE DEF r, u
<1>5. /\ r \in Rows /\ r.col = row.col + 1 /\ r.text[row.col + 1] = ch
      /\ Len(r.text) = IF row.col < Len(row.text) THEN Len(row.text) ELSE Len(row.text) + 1
      /\ \A j \in 1 .. Len(row.text) : j # row.col + 1 => r.text[j] = row.text[j]
  BY <1>3 DEF PutAt
<1>6. r.col = m + Len(u)
  BY <1>2, <1>4, <1>5
<1>7. r.text[m - 1] = 62 /\ r.text[m] = BLANK
  <2>1. /\ m - 1 \in 1 .. Len(row.text) /\ m - 1 # row.col + 1
        /\ m \in 1 .. Len(row.text) /\ m # row.col + 1
    BY ONLY <1>n
  <2> QED
    BY <1>2, <1>5, <2>1
<1>8. ASSUME NEW j \in 1 .. Len(u) PROVE r.text[m + j] = u[j]
  <2>1. CASE j = Len(t) + 1
    <3>1. m + j = row.col + 1
      BY <1>n, <2>1
    <3> QED
      BY <1>4, <1>5, <2>1, <3>1
  <2>2. CASE j # Len(t) + 1
    <3>1. j \in 1 .. Len(t) /\ m + j \in 1 .. Len(row.text) /\ m + j # row.col + 1
      <4>1. j \in 1 .. Len(t) + 1
        BY <1>4
      <4> QED
        BY ONLY <1>n, <2>2, <4>1
    <3>2. r.text[m + j] = row.text[m + j] /\ row.text[m + j] = t[j] /\ u[j] = t[j]
      BY <1>2, <1>4, <1>5, <3>1
    <3> QED
      BY <3>2
  <2> QED
    BY <2>1, <2>2
<1>9. ASSUME NEW j \in r.col + 1 .. Len(r.text) PROVE r.text[j] = BLANK
  <2>1. j \in row.col + 1 .. Len(row.text) /\ j \in 1 .. Len(row.text) /\ j # row.col + 1
    BY <1>2, <1>5
  <2> QED
    BY <1>2, <1>5, <2>1
<1>10. Shown(r, u, m)
  BY <1>2, <1>5, <1>6, <1>7, <1>8, <1>9 DEF Shown
<1> QED
  BY <1>10 DEF r, u

\* Rubbing one out takes it from both.
LEMMA RuboutShown ==
    ASSUME NEW row, NEW t \in Seq(Printable), NEW m, Shown(row, t, m), Len(t) > 0
    PROVE  Shown(puts(row, Rubout), SubSeq(t, 1, Len(t) - 1), m)
<1> DEFINE u == SubSeq(t, 1, Len(t) - 1)
<1>1. /\ Rubout \in Seq(Byte) /\ Ended(Rubout, 3 + 1)
      /\ Rubout[1] = BS /\ Rubout[2] = BLANK /\ Rubout[3] = BS
  BY DEF Rubout, Byte, Ended, NUL, BLANK, BS
<1>2. /\ row \in Rows /\ row.col \in Nat /\ row.col <= Len(row.text) /\ Len(row.text) \in Nat
      /\ m \in Nat /\ m >= 2 /\ row.col = m + Len(t) /\ Len(t) \in Nat
      /\ row.text[m - 1] = 62 /\ row.text[m] = BLANK
      /\ \A j \in 1 .. Len(t) : row.text[m + j] = t[j]
      /\ \A j \in row.col + 1 .. Len(row.text) : row.text[j] = BLANK
  BY DEF Shown, Rows
<1>n. /\ row.col \in Nat /\ row.col <= Len(row.text) /\ Len(row.text) \in Nat
      /\ m \in Nat /\ m >= 2 /\ row.col = m + Len(t) /\ Len(t) \in Nat /\ Len(t) > 0
  BY <1>2
<1>3. BS \in Byte /\ BLANK \in Byte /\ BLANK \notin {LF, NUL, BS}
  BY DEF Byte, LF, NUL, BS, BLANK
<1>4. \A r \in Rows : \A k \in 1 .. 3 : Put(r, Rubout[k]) \in Rows
  <2>1. ASSUME NEW r \in Rows, NEW k \in 1 .. 3 PROVE Put(r, Rubout[k]) \in Rows
    <3>1. Rubout[k] \in Byte
      BY <1>1, <1>3
    <3> QED
      BY <3>1, PutProps
  <2> QED
    BY <2>1
<1>5. \E f : Prints(f, row, Rubout, 3) /\ puts(row, Rubout) = f[3] /\ f[3] \in Rows
  <2>1. 3 \in Nat
    OBVIOUS
  <2> HIDE DEF Rows
  <2> QED
    BY <1>1, <1>2, <1>4, <2>1, PutsPrints
<1>6. PICK f : Prints(f, row, Rubout, 3) /\ puts(row, Rubout) = f[3]
  BY <1>5
<1> DEFINE a == Put(row, BS)
           b == Put(a, BLANK)
           c == Put(b, BS)
<1>7. puts(row, Rubout) = c
  BY <1>1, <1>6 DEF Prints
<1>8. a \in Rows /\ a.text = row.text /\ a.col = row.col - 1
  BY <1>2, PutBackspace
<1> HIDE DEF a
<1>9. PutAt(b, a, BLANK)
  BY <1>3, <1>8, PutCharacter
<1>10. /\ b \in Rows /\ b.col = row.col /\ b.text[row.col] = BLANK /\ Len(b.text) = Len(row.text)
       /\ \A j \in 1 .. Len(row.text) : j # row.col => b.text[j] = row.text[j]
  BY <1>2, <1>8, <1>9 DEF PutAt
<1> HIDE DEF b
<1>11. c \in Rows /\ c.text = b.text /\ c.col = row.col - 1
  BY <1>2, <1>10, PutBackspace
<1>12. Len(u) = Len(t) - 1 /\ \A j \in 1 .. Len(t) - 1 : u[j] = t[j]
  <2>1. Len(t) - 1 \in 0 .. Len(t)
    BY <1>2
  <2> QED
    BY <2>1, BeginningOf
<1> HIDE DEF c, u
<1>13. c.col = m + Len(u)
  BY <1>2, <1>11, <1>12
<1>14. c.text[m - 1] = 62 /\ c.text[m] = BLANK
  <2>1. /\ m - 1 \in 1 .. Len(row.text) /\ m - 1 # row.col
        /\ m \in 1 .. Len(row.text) /\ m # row.col
    BY ONLY <1>n
  <2> QED
    BY <1>2, <1>10, <1>11, <2>1
<1>15. ASSUME NEW j \in 1 .. Len(u) PROVE c.text[m + j] = u[j]
  <2>1. j \in 1 .. Len(t) /\ m + j \in 1 .. Len(row.text) /\ m + j # row.col /\ j \in 1 .. Len(t) - 1
    <3>1. j \in 1 .. Len(t) - 1
      BY <1>12
    <3> QED
      BY ONLY <1>n, <3>1
  <2>2. c.text[m + j] = row.text[m + j] /\ row.text[m + j] = t[j] /\ u[j] = t[j]
    BY <1>2, <1>10, <1>11, <1>12, <2>1
  <2> QED
    BY <2>2
<1>16. ASSUME NEW j \in c.col + 1 .. Len(c.text) PROVE c.text[j] = BLANK
  <2>1. CASE j = row.col
    BY <1>10, <1>11, <2>1
  <2>2. CASE j # row.col
    <3>1. j \in row.col + 1 .. Len(row.text) /\ j \in 1 .. Len(row.text)
      BY <1>2, <1>10, <1>11, <2>2
    <3> QED
      BY <1>2, <1>10, <1>11, <2>2, <3>1
  <2> QED
    BY <2>1, <2>2
<1>17. Shown(c, u, m)
  BY <1>2, <1>11, <1>13, <1>14, <1>15, <1>16 DEF Shown
<1> QED
  BY <1>7, <1>17 DEF u

\* A sequence that stands at the end of another is its suffix.
LEMMA SuffixAt ==
    ASSUME NEW s \in Seq(Byte), NEW t \in Seq(Byte), Len(s) <= Len(t),
           \A j \in 1 .. Len(s) : t[Len(t) - Len(s) + j] = s[j]
    PROVE  IsSuffix(s, t)
<1> DEFINE n == Len(s)
           m == Len(t)
           rs == [i \in 1 .. n |-> s[(n - i) + 1]]
           rt == [i \in 1 .. m |-> t[(m - i) + 1]]
<1>1. n \in Nat /\ m \in Nat /\ n <= m
  OBVIOUS
<1>2. Reverse(s) = rs /\ Reverse(t) = rt
  BY DEF Reverse
<1>3. (\A i \in 1 .. n : s[i] \in Byte) /\ (\A i \in 1 .. m : t[i] \in Byte)
  OBVIOUS
<1>4. \A j \in 1 .. n : t[m - n + j] = s[j]
  OBVIOUS
<1> HIDE DEF n, m
<1>5. \A i \in 1 .. n : rs[i] = s[(n - i) + 1] /\ rs[i] \in Byte
  <2>1. \A i \in 1 .. n : (n - i) + 1 \in 1 .. n
    BY <1>1
  <2> QED
    BY <1>3, <2>1
<1>6. \A i \in 1 .. m : rt[i] = t[(m - i) + 1] /\ rt[i] \in Byte
  <2>1. \A i \in 1 .. m : (m - i) + 1 \in 1 .. m
    BY <1>1
  <2> QED
    BY <1>3, <2>1
<1>7. rs = [i \in 1 .. n |-> rs[i]] /\ rt = [i \in 1 .. m |-> rt[i]]
  OBVIOUS
<1> HIDE DEF rs, rt
<1>8. rs \in Seq(Byte) /\ Len(rs) = n
  <2>1. n \in Nat /\ \A i \in 1 .. n : rs[i] \in Byte
    BY <1>1, <1>5
  <2>2. [i \in 1 .. n |-> rs[i]] \in Seq(Byte) /\ Len([i \in 1 .. n |-> rs[i]]) = n
    BY ONLY <2>1, SequenceOf
  <2> QED
    BY <1>7, <2>2
<1>9. rt \in Seq(Byte) /\ Len(rt) = m
  <2>1. m \in Nat /\ \A i \in 1 .. m : rt[i] \in Byte
    BY <1>1, <1>6
  <2>2. [i \in 1 .. m |-> rt[i]] \in Seq(Byte) /\ Len([i \in 1 .. m |-> rt[i]]) = m
    BY ONLY <2>1, SequenceOf
  <2> QED
    BY <1>7, <2>2
<1> DEFINE w == SubSeq(rt, 1, n)
<1>10. w \in Seq(Byte) /\ Len(w) = n /\ \A i \in 1 .. n : w[i] = rt[i]
  <2>1. n \in 0 .. Len(rt)
    BY <1>1, <1>9
  <2> QED
    BY <1>9, <2>1, BeginningOf
<1> HIDE DEF w
<1>11. ASSUME NEW i \in 1 .. n PROVE w[i] = rs[i]
  <2>1. i \in 1 .. m /\ (n - i) + 1 \in 1 .. n /\ m - n + ((n - i) + 1) = (m - i) + 1
    BY <1>1
  <2>2. t[(m - i) + 1] = s[(n - i) + 1]
    BY <1>4, <2>1
  <2> QED
    BY <1>5, <1>6, <1>10, <2>1, <2>2
<1>12. w = rs
  BY <1>8, <1>10, <1>11, SeqEqual
<1>13. SubSeq(rs, 1, Len(rs)) = rs
  BY <1>8
<1>14. IsPrefix(rs, rt)
  BY <1>1, <1>8, <1>9, <1>12, <1>13 DEF w, IsPrefix
<1> QED
  BY <1>2, <1>14 DEF IsSuffix

\* What the property says of a row that shows a line.
LEMMA ShownShows ==
    ASSUME NEW row, NEW t \in Seq(Printable), NEW m, Shown(row, t, m)
    PROVE  /\ IsSuffix(String(Prompt) \o t, SubSeq(row.text, 1, row.col))
           /\ LET rest == SubSeq(row.text, row.col + 1, Len(row.text))
              IN  \A k \in DOMAIN rest : rest[k] = BLANK
<1> DEFINE p == String(Prompt)
           s == p \o t
           shown == SubSeq(row.text, 1, row.col)
           rest == SubSeq(row.text, row.col + 1, Len(row.text))
<1>1. /\ row.text \in Seq(Byte) /\ row.col \in Nat /\ row.col <= Len(row.text) /\ Len(row.text) \in Nat
      /\ m \in Nat /\ m >= 2 /\ row.col = m + Len(t) /\ Len(t) \in Nat
      /\ row.text[m - 1] = 62 /\ row.text[m] = BLANK
      /\ \A j \in 1 .. Len(t) : row.text[m + j] = t[j]
      /\ \A j \in row.col + 1 .. Len(row.text) : row.text[j] = BLANK
  BY DEF Shown, Rows
<1>2. p \in Seq(Byte) /\ Len(p) = 2 /\ p[1] = 62 /\ p[2] = BLANK
  <2>1. Prompt \in Seq(Byte) /\ Ended(Prompt, 3) /\ Prompt[1] = 62 /\ Prompt[2] = BLANK
    BY DEF Prompt, Byte, Ended, NUL, BLANK
  <2>2. 3 - 1 = 2 /\ 1 \in 1 .. 2 /\ 2 \in 1 .. 2
    OBVIOUS
  <2> QED
    <3>1. p \in Seq(Char) /\ Len(p) = 2 /\ \A j \in 1 .. 2 : p[j] = Prompt[j]
      <4> HIDE DEF p
      <4>1. ASSUME NEW k, k = 3
            PROVE  /\ String(Prompt) \in Seq(Char) /\ Len(String(Prompt)) = k - 1
                   /\ \A j \in 1 .. k - 1 : String(Prompt)[j] = Prompt[j]
        <5>1. Ended(Prompt, k) /\ Prompt \in Seq(Byte)
          BY <2>1, <4>1
        <5> QED
          BY ONLY <5>1, StringProps
      <4> QED
        BY <2>2, <4>1 DEF p
    <3> HIDE DEF p
    <3>2. p \in Seq(Byte)
      BY <3>1, CharsAreBytes
    <3> QED
      BY <2>1, <2>2, <3>1, <3>2
<1>3. t \in Seq(Byte)
  <2> DEFINE n == Len(t)
  <2>1. n \in Nat /\ t = [j \in 1 .. n |-> t[j]] /\ \A j \in 1 .. n : t[j] \in Printable
    OBVIOUS
  <2> HIDE DEF n
  <2>2. \A j \in 1 .. n : t[j] \in Byte
    BY <2>1, PrintableAre
  <2>3. [j \in 1 .. n |-> t[j]] \in Seq(Byte)
    BY <2>1, <2>2, SequenceOf
  <2> QED
    BY <2>1, <2>3
<1> HIDE DEF p
<1>4. /\ s \in Seq(Byte) /\ Len(s) = Len(t) + 2 /\ s[1] = 62 /\ s[2] = BLANK
      /\ \A j \in 1 .. Len(s) : j > 2 => j - 2 \in 1 .. Len(t) /\ s[j] = t[j - 2]
  <2>1. /\ s \in Seq(Byte) /\ Len(s) = Len(p) + Len(t)
        /\ \A i \in 1 .. Len(p) + Len(t) : s[i] = IF i <= Len(p) THEN p[i] ELSE t[i - Len(p)]
    <3>1. p \in Seq(Byte) /\ t \in Seq(Byte)
      BY <1>2, <1>3
    <3> QED
      BY <3>1, ConcatProperties, Zenon
  <2> HIDE DEF s
  <2>2. \A i \in 1 .. 2 + Len(t) : s[i] = IF i <= 2 THEN p[i] ELSE t[i - 2]
    BY <1>2, <2>1
  <2>3. Len(s) = 2 + Len(t)
    BY <1>2, <2>1
  <2> QED
    BY <1>1, <1>2, <2>1, <2>2, <2>3
<1>5. shown \in Seq(Byte) /\ Len(shown) = row.col /\ \A j \in 1 .. row.col : shown[j] = row.text[j]
  <2>1. row.col \in 0 .. Len(row.text)
    BY <1>1
  <2> QED
    BY <1>1, <2>1, BeginningOf
<1> HIDE DEF s, shown
<1>6. Len(s) <= Len(shown) /\ Len(shown) - Len(s) = m - 2
  BY <1>1, <1>4, <1>5
<1>7. ASSUME NEW j \in 1 .. Len(s) PROVE shown[m - 2 + j] = s[j]
  <2>1. m - 2 + j \in 1 .. row.col
    BY <1>1, <1>4
  <2>2. shown[m - 2 + j] = row.text[m - 2 + j]
    BY <1>5, <2>1
  <2>3. CASE j = 1
    BY <1>1, <1>4, <2>2, <2>3
  <2>4. CASE j = 2
    BY <1>1, <1>4, <2>2, <2>4
  <2>5. CASE j > 2
    <3>1. j - 2 \in 1 .. Len(t) /\ s[j] = t[j - 2] /\ m + (j - 2) = m - 2 + j
      BY <1>1, <1>4, <2>5
    <3> QED
      BY <1>1, <2>2, <3>1
  <2> QED
    BY <1>4, <2>3, <2>4, <2>5
<1>8. IsSuffix(s, shown)
  <2>1. \A j \in 1 .. Len(s) : shown[Len(shown) - Len(s) + j] = s[j]
    BY <1>6, <1>7
  <2>2. s \in Seq(Byte) /\ shown \in Seq(Byte) /\ Len(s) <= Len(shown)
    BY <1>4, <1>5, <1>6
  <2> QED
    BY ONLY <2>1, <2>2, SuffixAt
<1>9. \A k \in DOMAIN rest : rest[k] = BLANK
  <2> DEFINE n == Len(row.text)
             c == row.col + 1
  <2>0. c \in Int /\ n \in Int /\ (\A i \in c .. n : row.text[i] \in Byte) /\ c <= n + 1
    BY <1>1, BytesAre
  <2>1. /\ rest \in Seq(Byte) /\ Len(rest) = (IF c <= n THEN n - c + 1 ELSE 0)
        /\ \A k \in 1 .. n - c + 1 : rest[k] = row.text[c + k - 1]
    <3> HIDE DEF n, c
    <3>1. /\ SubSeq(row.text, c, n) \in Seq(Byte) /\ Len(SubSeq(row.text, c, n)) = (IF c <= n THEN n - c + 1 ELSE 0)
          /\ \A k \in 1 .. n - c + 1 : SubSeq(row.text, c, n)[k] = row.text[c + k - 1]
      BY <2>0, SubSeqProperties
    <3> QED
      BY <3>1 DEF n, c
  <2> HIDE DEF rest
  <2>2. \A k \in 1 .. Len(row.text) - row.col : rest[k] = row.text[row.col + k]
    BY <1>1, <2>1
  <2>4. DOMAIN rest = 1 .. Len(row.text) - row.col
    BY <1>1, <2>1
  <2>3. \A k \in 1 .. Len(row.text) - row.col : row.col + k \in row.col + 1 .. Len(row.text)
    BY <1>1
  <2> HIDE DEF n, c
  <2>5. ASSUME NEW k \in DOMAIN rest PROVE rest[k] = BLANK
    <3>1. k \in 1 .. Len(row.text) - row.col
      BY <2>4
    <3> QED
      BY <1>1, <2>2, <2>3, <3>1
  <2> QED
    BY <2>5
<1> QED
  BY <1>8, <1>9 DEF p, s, shown

\* While a line is edited the row shows it, else there is nothing behind the cursor.
ScreenInv ==
    /\ screen \in Rows
    /\ place # "readline" => screen \in FullRows
    /\ place = "readline" => \E m : Shown(screen, typed, m)

\* No text moves the cursor back.
TextsGoOn == \A t \in Texts : BS \notin ToSet(t)

\* Each character put out keeps the row in step with the line.
LEMMA ScreenInvStep ==
    ASSUME TextsGoOn
    PROVE  ShellInv /\ LineInv /\ ScreenInv /\ [ShellNext]_shellVars => ScreenInv'
<1> SUFFICES ASSUME ShellInv, LineInv, ScreenInv, [ShellNext]_shellVars PROVE ScreenInv'
  OBVIOUS
<1>0. \A r \in FullRows : r \in Rows
  BY DEF FullRows
<1>a. ASSUME NEW row \in FullRows PROVE puts(row, Message) \in FullRows
  <2>1. Message \in Seq(Byte) /\ NUL \in ToSet(Message) /\ BS \notin ToSet(Message)
    BY DEF Message, Byte, ToSet, NUL, LF, BS
  <2> QED
    BY <2>1, PutsFull
<1>1. CASE prompt
  <2>1. screen \in FullRows /\ place' = "readline" /\ screen' = puts(screen, Prompt) /\ typed' = <<>>
    BY <1>1 DEF prompt, ScreenInv
  <2>2. Shown(screen', typed', screen.col + 2)
    BY <2>1, PromptShown
  <2>3. screen' \in Rows
    BY <2>2 DEF Shown
  <2> QED
    BY <2>1, <2>2, <2>3 DEF ScreenInv
<1>2. CASE key_enter
  <2>1. screen' = [text |-> <<>>, col |-> 0] /\ place' # "readline"
    BY <1>2 DEF key_enter, Put
  <2>2. screen' \in FullRows
    BY <2>1 DEF FullRows, Rows
  <2> QED
    BY <1>0, <2>1, <2>2 DEF ScreenInv
<1>3. CASE key_backspace
  <2>1. /\ place = "readline" /\ place' = place /\ screen' = puts(screen, Rubout)
        /\ typed' = SubSeq(typed, 1, Len(typed) - 1) /\ typed \in Seq(Printable) /\ Len(typed) > 0
    BY <1>3 DEF key_backspace, LineInv
  <2>2. PICK m : Shown(screen, typed, m)
    BY <2>1 DEF ScreenInv
  <2>3. Shown(screen', typed', m)
    BY <2>1, <2>2, RuboutShown
  <2>4. screen' \in Rows
    BY <2>3 DEF Shown
  <2> QED
    BY <2>1, <2>3, <2>4 DEF ScreenInv
<1>4. CASE key_char
  <2>1. place = "readline" /\ place' = place /\ typed \in Seq(Printable)
    BY <1>4 DEF key_char, LineInv
  <2>2. PICK ch \in Printable : screen' = Put(screen, ch) /\ typed' = Append(typed, ch)
    BY <1>4 DEF key_char
  <2>3. PICK m : Shown(screen, typed, m)
    BY <2>1 DEF ScreenInv
  <2>4. Shown(screen', typed', m)
    BY <2>1, <2>2, <2>3, CharacterShown
  <2>5. screen' \in Rows
    BY <2>4 DEF Shown
  <2> QED
    BY <2>1, <2>4, <2>5 DEF ScreenInv
<1>5. CASE dispatch
  <2>1. screen \in FullRows /\ place = "dispatch" /\ place' # "readline"
    BY <1>5 DEF dispatch, ScreenInv
  <2>2. puts(screen, line) \in FullRows
    <3>1. line \in Seq(Byte) /\ Len(line) = BUF_SIZE
      BY LineIs DEF ShellInv
    <3>2. NUL \in ToSet(line)
      <4>1. Ended(line, Len(typed) + 1)
        BY <2>1 DEF LineInv
      <4> QED
        BY <3>1, <4>1, BytesAre DEF Ended, ToSet
    <3>3. BS \notin ToSet(line)
      <4>1. \A j \in DOMAIN line : line[j] \in Printable \union {NUL}
        BY DEF ShellInv, ShellTypeOK
      <4>2. \A c \in Printable \union {NUL} : c # BS
        BY PrintableAre DEF NUL, BS
      <4> QED
        BY <4>1, <4>2 DEF ToSet
    <3> QED
      BY <2>1, <3>1, <3>2, <3>3, PutsFull
  <2>3. screen' = puts(IF Command = "unknown" THEN puts(screen, line) ELSE screen, Message)
    BY <1>5 DEF dispatch
  <2>4. screen' \in FullRows
    BY <1>a, <2>1, <2>2, <2>3
  <2> QED
    BY <1>0, <2>1, <2>4 DEF ScreenInv
<1>6. CASE cat_open
  <2>1. screen \in FullRows /\ place' # "readline" /\ (screen' = puts(screen, Message) \/ screen' = screen)
    BY <1>6 DEF cat_open, ScreenInv
  <2>2. screen' \in FullRows
    BY <1>a, <2>1
  <2> QED
    BY <1>0, <2>1, <2>2 DEF ScreenInv
<1>7. CASE cat_read
  <2>1. screen \in FullRows /\ place' # "readline"
    BY <1>7 DEF cat_read, AfterRead, ScreenInv
  <2>2. ASSUME NEW text \in Texts PROVE puts(screen, Append(text, NUL)) \in FullRows
    <3> DEFINE s == Append(text, NUL)
    <3>1. text \in Seq(Byte) /\ BS \notin ToSet(text)
      BY ShellAssumption DEF Byte, TextsGoOn
    <3>2. s \in Seq(Byte) /\ Len(s) = Len(text) + 1 /\ Len(text) \in Nat /\ s[Len(text) + 1] = NUL
          /\ \A j \in 1 .. Len(text) : s[j] = text[j]
      BY <3>1, PrintableAre
    <3>3. DOMAIN s = 1 .. Len(text) + 1 /\ DOMAIN text = 1 .. Len(text)
      BY <3>1, <3>2
    <3> HIDE DEF s
    <3>4. NUL \in ToSet(s)
      BY <3>2, <3>3 DEF ToSet
    <3>5. BS \notin ToSet(s)
      <4>1. \A j \in 1 .. Len(text) + 1 : j \in 1 .. Len(text) \/ j = Len(text) + 1
        BY <3>2
      <4>2. BS # NUL
        BY DEF BS, NUL
      <4> QED
        BY <3>1, <3>2, <3>3, <4>1, <4>2 DEF ToSet
    <3>6. puts(screen, s) \in FullRows
      BY <2>1, <3>2, <3>4, <3>5, PutsFull
    <3> QED
      BY <3>6 DEF s
  <2>3. screen' = puts(screen, Message) \/ \E text \in Texts : screen' = puts(screen, Append(text, NUL))
    BY <1>7 DEF cat_read
  <2>4. screen' \in FullRows
    BY <1>a, <2>1, <2>2, <2>3
  <2> QED
    BY <1>0, <2>1, <2>4 DEF ScreenInv
<1>8. CASE cat_close
  BY <1>8 DEF cat_close, ScreenInv
<1>9. CASE exited
  BY <1>9 DEF exited, shellVars, ScreenInv
<1>10. CASE UNCHANGED shellVars
  BY <1>10 DEF shellVars, ScreenInv
<1> QED
  BY <1>1, <1>2, <1>3, <1>4, <1>5, <1>6, <1>7, <1>8, <1>9, <1>10 DEF ShellNext

\* What stands on the screen while a line is edited is the prompt and the line, with the
\* cursor at its end and blanks behind it, if no file that cat puts out holds a backspace.
THEOREM ScreenIsLine ==
    ASSUME TextsGoOn
    PROVE  ShellInit /\ [][ShellNext]_shellVars => []ScreenShowsLine
<1>1. ShellInit => ShellInv /\ LineInv /\ ScreenInv
  <2> SUFFICES ASSUME ShellInit PROVE ShellInv /\ LineInv /\ ScreenInv
    OBVIOUS
  <2>1. ShellInv /\ LineInv
    BY ShellAssumption DEF ShellInit, ShellInv, ShellTypeOK, LineInv
  <2>2. screen = [text |-> <<>>, col |-> 0] /\ place = "prompt"
    BY DEF ShellInit
  <2>3. screen \in Rows /\ screen \in FullRows
    BY <2>2 DEF Rows, FullRows
  <2> QED
    BY <2>1, <2>2, <2>3 DEF ScreenInv
<1>2. LineInv /\ ScreenInv => ScreenShowsLine
  <2> SUFFICES ASSUME LineInv, ScreenInv, place = "readline" PROVE ScreenShowsLine
    BY DEF ScreenShowsLine
  <2>1. PICK m : Shown(screen, typed, m)
    BY DEF ScreenInv
  <2>2. typed \in Seq(Printable)
    BY DEF LineInv
  <2> QED
    BY <2>1, <2>2, ShownShows DEF ScreenShowsLine
<1> QED
  BY <1>1, <1>2, ShellInvStep, LineInvStep, ScreenInvStep, PTL

-----------------------------------------------------------------------------
(* Paths                                                                    *)

\* The least index that holds one of these, if there is any.
LEMMA FirstProps ==
    ASSUME NEW s \in Seq(Byte), NEW i \in Nat \ {0}, NEW bytes,
           NEW w \in i .. Len(s), s[w] \in bytes
    PROVE  /\ First(s, i, bytes) \in i .. Len(s) /\ First(s, i, bytes) <= w
           /\ s[First(s, i, bytes)] \in bytes
           /\ \A j \in i .. First(s, i, bytes) - 1 : s[j] \notin bytes
<1> DEFINE T == {j \in i .. Len(s) : s[j] \in bytes}
           f == CHOOSE j \in i .. Len(s) : s[j] \in bytes /\ \A k \in i .. j - 1 : s[k] \notin bytes
<1>1. T \in SUBSET Nat /\ T # {} /\ w \in T
  BY BytesAre
<1>2. PICK m \in T : \A j \in T : m <= j
  BY <1>1, LeastExists
<1>3. m \in i .. Len(s) /\ s[m] \in bytes /\ \A k \in i .. m - 1 : s[k] \notin bytes
  BY <1>2, BytesAre
<1>4. f \in i .. Len(s) /\ s[f] \in bytes /\ \A k \in i .. f - 1 : s[k] \notin bytes
  BY <1>3
<1>5. First(s, i, bytes) = f
  BY DEF First
<1> HIDE DEF f
<1>6. f <= w
  <2>1. ~(w <= f - 1)
    BY <1>4
  <2> QED
    BY <1>4, <2>1, BytesAre
<1> QED
  BY <1>4, <1>5, <1>6

\* What copyinstr has put into kpath.
KpathOK ==
    /\ kpath \in Seq(Byte) /\ Len(kpath) = KPATH
    /\ Kept \in Seq(Char) /\ Len(Kept) + 1 <= KPATH
    /\ \A j \in 1 .. Len(Kept) : kpath[j] = Kept[j]
    /\ kpath[Len(Kept) + 1] = NUL

\* The characters of the path, as kpath holds them.
LEMMA KeptIs ==
    ASSUME KpathOK
    PROVE  /\ Len(Kept) \in Nat /\ DOMAIN Kept = 1 .. Len(Kept)
           /\ \A j \in 1 .. Len(Kept) : kpath[j] = Kept[j] /\ Kept[j] # NUL
<1> DEFINE s == Kept
<1>1. s \in Seq(Char)
  BY DEF KpathOK
<1> HIDE DEF s
<1>2. Len(s) \in Nat /\ DOMAIN s = 1 .. Len(s) /\ \A j \in 1 .. Len(s) : s[j] # 0
  BY <1>1, CharsAreBytes
<1> QED
  BY <1>2 DEF s, KpathOK, NUL

\* A run is a pair of places, and they are where it begins and ends.
LEMMA RunIs ==
    ASSUME KpathOK, NEW r
    PROVE  r \in Runs <=>
             /\ r = <<r[1], r[2]>>
             /\ r[1] \in 1 .. Len(Kept) /\ r[2] \in 1 .. Len(Kept) /\ r[1] <= r[2]
             /\ \A k \in r[1] .. r[2] : Kept[k] # SLASH
             /\ r[1] = 1 \/ Kept[r[1] - 1] = SLASH
             /\ r[2] = Len(Kept) \/ Kept[r[2] + 1] = SLASH
<1>1. DOMAIN Kept = 1 .. Len(Kept)
  BY KeptIs
<1> HIDE DEF Kept
<1> QED
  BY <1>1 DEF Runs

\* There are finitely many.
LEMMA RunsFinite ==
    ASSUME KpathOK
    PROVE  IsFiniteSet(Runs)
<1> DEFINE D == 1 .. Len(Kept)
<1>1. Len(Kept) \in Nat /\ DOMAIN Kept = D
  BY KeptIs
<1>2. IsFiniteSet(D)
  BY <1>1, FS_Interval
<1>3. IsFiniteSet(D \X D)
  <2> HIDE DEF D
  <2> QED
    BY <1>2, FS_Product
<1>4. Runs \in SUBSET (D \X D)
  BY <1>1 DEF Runs
<1> QED
  BY <1>3, <1>4, FS_Subset

\* Two runs that begin at one place are one.
LEMMA RunsDiffer ==
    ASSUME KpathOK, NEW q \in Runs, NEW r \in Runs, q[1] = r[1]
    PROVE  q = r
<1> DEFINE n == Len(Kept)
           s == Kept
<1>1. /\ q = <<q[1], q[2]>> /\ q[1] \in 1 .. n /\ q[2] \in 1 .. n /\ q[1] <= q[2]
      /\ \A k \in q[1] .. q[2] : s[k] # SLASH
      /\ q[2] = n \/ s[q[2] + 1] = SLASH
  BY RunIs
<1>2. /\ r = <<r[1], r[2]>> /\ r[1] \in 1 .. n /\ r[2] \in 1 .. n /\ r[1] <= r[2]
      /\ \A k \in r[1] .. r[2] : s[k] # SLASH
      /\ r[2] = n \/ s[r[2] + 1] = SLASH
  BY RunIs
<1> HIDE DEF n, s
<1>3. n \in Nat
  BY KeptIs DEF n
<1>4. ~(q[2] < r[2])
  <2> SUFFICES ASSUME q[2] < r[2] PROVE FALSE
    OBVIOUS
  <2>1. q[2] + 1 \in r[1] .. r[2] /\ q[2] # n
    BY <1>1, <1>2, <1>3
  <2> QED
    BY <1>1, <1>2, <2>1
<1>5. ~(r[2] < q[2])
  <2> SUFFICES ASSUME r[2] < q[2] PROVE FALSE
    OBVIOUS
  <2>1. r[2] + 1 \in q[1] .. q[2] /\ r[2] # n
    BY <1>1, <1>2, <1>3
  <2> QED
    BY <1>1, <1>2, <2>1
<1>6. q[2] = r[2]
  BY <1>1, <1>2, <1>3, <1>4, <1>5
<1> QED
  BY <1>1, <1>2, <1>6

\* So are two that have one place among the runs.
LEMMA PlacesDiffer ==
    ASSUME KpathOK, NEW q \in Runs, NEW r \in Runs, Place(q) = Place(r)
    PROVE  q = r
<1>1. ASSUME NEW x \in Runs, NEW y \in Runs, x[1] < y[1] PROVE Place(x) # Place(y)
  <2> DEFINE S == {z \in Runs : z[1] <= y[1]}
             T == {z \in Runs : z[1] <= x[1]}
  <2>1. \A z \in Runs : z[1] \in Int
    BY RunIs
  <2>2. T \in SUBSET S /\ y \in S /\ y \notin T /\ S \in SUBSET Runs
    BY <1>1, <2>1
  <2>3. Place(x) = Cardinality(T) /\ Place(y) = Cardinality(S)
    BY DEF Place
  <2> HIDE DEF S, T
  <2>4. IsFiniteSet(S)
    BY <2>2, RunsFinite, FS_Subset
  <2>5. Cardinality(S) = Cardinality(T) => S = T
    BY <2>2, <2>4, FS_Subset
  <2> QED
    BY <2>2, <2>3, <2>5
<1>2. q[1] \in Int /\ r[1] \in Int
  BY RunIs
<1>3. ~(q[1] < r[1]) /\ ~(r[1] < q[1])
  BY <1>1
<1>4. q[1] = r[1]
  BY <1>2, <1>3
<1> QED
  BY <1>4, RunsDiffer

\* The element that a run gives.
LEMMA ElementIs ==
    ASSUME KpathOK, NEW r \in Runs
    PROVE  /\ Place(r) \in 1 .. Cardinality(Runs)
           /\ Elements[Place(r)] = Upto(SubSeq(Kept, r[1], r[2]), DIRSIZ - 1)
<1> DEFINE S == {q \in Runs : q[1] <= r[1]}
           k == Place(r)
<1>1. S \in SUBSET Runs /\ r \in S
  <2>1. r[1] \in Int
    BY RunIs
  <2> QED
    BY <2>1
<1>2. Place(r) = Cardinality(S)
  BY DEF Place
<1> HIDE DEF S
<1>3. IsFiniteSet(S) /\ Cardinality(S) <= Cardinality(Runs)
  BY <1>1, RunsFinite, FS_Subset
<1>4. Cardinality(S) \in Nat /\ Cardinality(Runs) \in Nat /\ Cardinality(S) # 0
  BY <1>1, <1>3, RunsFinite, FS_CardinalityType, FS_EmptySet
<1>5. k \in 1 .. Cardinality(Runs)
  BY <1>2, <1>3, <1>4
<1>6. Elements[k] = LET q == CHOOSE q \in Runs : Place(q) = k IN Upto(SubSeq(Kept, q[1], q[2]), DIRSIZ - 1)
  BY <1>5 DEF Elements
<1> DEFINE q == CHOOSE q \in Runs : Place(q) = k
<1>7. q \in Runs /\ Place(q) = Place(r)
  OBVIOUS
<1> HIDE DEF q
<1>8. q = r
  BY <1>7, PlacesDiffer
<1> QED
  BY <1>5, <1>6, <1>8 DEF q

\* Where namei stands in the path: in front of slashes or of an element, or at the end.
PathAt ==
    /\ path \in 1 .. Len(Kept) + 1
    /\ path = 1 \/ kpath[path - 1] = SLASH \/ path = Len(Kept) + 1

\* The first loop of skipelem stops at the next character that is no slash.
LEMMA ElementAtProps ==
    ASSUME KpathOK, NEW p \in 1 .. Len(Kept) + 1
    PROVE  /\ ElementAt(kpath, p) \in p .. Len(Kept) + 1
           /\ kpath[ElementAt(kpath, p)] # SLASH
           /\ \A j \in p .. ElementAt(kpath, p) - 1 : kpath[j] = SLASH
<1> DEFINE e == ElementAt(kpath, p)
           w == Len(Kept) + 1
<1>1. /\ kpath \in Seq(Byte) /\ w \in p .. Len(kpath) /\ p \in Nat \ {0} /\ w <= Len(kpath)
      /\ kpath[w] = NUL /\ Len(Kept) \in Nat
  BY KeptIs, PathAssumption DEF KpathOK
<1>2. \A j \in 1 .. Len(kpath) : kpath[j] \in NotSlash(kpath) <=> kpath[j] # SLASH
  <2>1. DOMAIN kpath = 1 .. Len(kpath)
    BY <1>1
  <2> QED
    BY <2>1 DEF NotSlash, ToSet
<1>3. kpath[w] \in NotSlash(kpath)
  BY <1>1, <1>2 DEF NUL, SLASH
<1>4. e = First(kpath, p, NotSlash(kpath))
  BY DEF ElementAt
<1> HIDE DEF e, w
<1>5. e \in p .. Len(kpath) /\ e <= w /\ kpath[e] \in NotSlash(kpath)
      /\ \A j \in p .. e - 1 : kpath[j] \notin NotSlash(kpath)
  BY <1>1, <1>3, <1>4, FirstProps
<1>6. e \in 1 .. Len(kpath) /\ \A j \in p .. e - 1 : j \in 1 .. Len(kpath)
  BY <1>1, <1>5
<1>7. e \in p .. w /\ kpath[e] # SLASH /\ \A j \in p .. e - 1 : kpath[j] = SLASH
  BY <1>1, <1>2, <1>5, <1>6 DEF w
<1> QED
  BY <1>7 DEF e, w

\* No run begins where there are only slashes.
LEMMA NoRunIn ==
    ASSUME KpathOK, NEW p \in Nat, NEW e \in Nat, e <= Len(Kept) + 1,
           \A j \in p .. e - 1 : kpath[j] = SLASH,
           NEW q \in Runs
    PROVE  q[1] < p \/ q[1] >= e
<1>1. /\ q[1] \in 1 .. Len(Kept) /\ q[2] \in 1 .. Len(Kept) /\ q[1] <= q[2]
      /\ \A k \in q[1] .. q[2] : Kept[k] # SLASH
  BY RunIs
<1>2. Kept[q[1]] # SLASH /\ kpath[q[1]] = Kept[q[1]]
  BY <1>1, KeptIs
<1> QED
  BY <1>1, <1>2

\* At the end there is no run any more.
LEMMA NoneLeft ==
    ASSUME KpathOK, PathAt, kpath[ElementAt(kpath, path)] = NUL, NEW q \in Runs
    PROVE  q[1] < path
<1> DEFINE e == ElementAt(kpath, path)
<1>1. /\ e \in path .. Len(Kept) + 1 /\ path \in 1 .. Len(Kept) + 1 /\ Len(Kept) \in Nat
      /\ \A j \in path .. e - 1 : kpath[j] = SLASH
  BY ElementAtProps, KeptIs DEF PathAt
<1> HIDE DEF e
<1>2. e = Len(Kept) + 1
  <2>1. kpath[e] = NUL
    BY DEF e
  <2>2. ~(e \in 1 .. Len(Kept))
    BY <2>1, KeptIs
  <2> QED
    BY <1>1, <2>2
<1>3. q[1] < path \/ q[1] >= e
  BY <1>1, NoRunIn
<1>4. q[1] \in 1 .. Len(Kept)
  BY RunIs
<1> QED
  BY <1>1, <1>2, <1>3, <1>4

\* The run from one place to in front of another, and the place where the next may begin.
Turn(start, stop, next) ==
    /\ start \in path .. Len(Kept) /\ stop \in start + 1 .. Len(Kept) + 1 /\ next \in stop .. Len(Kept) + 1
    /\ <<start, stop - 1>> \in Runs
    /\ \A j \in path .. start - 1 : kpath[j] = SLASH
    /\ \A j \in stop .. next - 1 : kpath[j] = SLASH
    /\ next = Len(Kept) + 1 \/ kpath[next - 1] = SLASH

\* skipelem finds it.
LEMMA TurnIs ==
    ASSUME KpathOK, PathAt, kpath[ElementAt(kpath, path)] # NUL
    PROVE  Turn(ElementAt(kpath, path), First(kpath, ElementAt(kpath, path), {SLASH, NUL}),
                First(kpath, First(kpath, ElementAt(kpath, path), {SLASH, NUL}), NotSlash(kpath)))
<1> DEFINE start == ElementAt(kpath, path)
           stop == First(kpath, start, {SLASH, NUL})
           next == ElementAt(kpath, stop)
           n == Len(Kept)
           r == <<start, stop - 1>>
<1>1. /\ path \in 1 .. n + 1 /\ n \in Nat /\ kpath \in Seq(Byte) /\ n + 1 <= Len(kpath)
      /\ kpath[n + 1] = NUL
      /\ path = 1 \/ kpath[path - 1] = SLASH \/ path = n + 1
  BY KeptIs DEF KpathOK, PathAt
<1>2. /\ start \in path .. n + 1 /\ kpath[start] # SLASH /\ kpath[start] # NUL
      /\ \A j \in path .. start - 1 : kpath[j] = SLASH
  BY <1>1, ElementAtProps
<1>a. First(kpath, stop, NotSlash(kpath)) = next
  BY DEF ElementAt
<1> HIDE DEF start
<1>3. start \in path .. n /\ start \in Nat \ {0}
  BY <1>1, <1>2
<1>4. /\ stop \in start .. Len(kpath) /\ stop <= n + 1 /\ kpath[stop] \in {SLASH, NUL}
      /\ \A j \in start .. stop - 1 : kpath[j] \notin {SLASH, NUL}
  <2>1. n + 1 \in start .. Len(kpath) /\ kpath[n + 1] \in {SLASH, NUL}
    BY <1>1, <1>3
  <2> QED
    BY <1>1, <1>3, <2>1, FirstProps
<1> HIDE DEF stop
<1>5. stop \in start + 1 .. n + 1 /\ stop \in 1 .. n + 1
  BY <1>1, <1>2, <1>3, <1>4
<1>6. /\ next \in stop .. n + 1 /\ kpath[next] # SLASH
      /\ \A j \in stop .. next - 1 : kpath[j] = SLASH
  BY <1>5, ElementAtProps
<1> HIDE DEF next
<1>7. \A j \in 1 .. n : kpath[j] = Kept[j] /\ Kept[j] # NUL
  BY KeptIs
<1>8. next = n + 1 \/ kpath[next - 1] = SLASH
  <2>1. CASE next = stop
    <3>1. kpath[stop] = NUL
      BY <1>4, <1>6, <2>1
    <3> QED
      BY <1>1, <1>5, <1>7, <2>1, <3>1
  <2>2. CASE next # stop
    <3>1. next - 1 \in stop .. next - 1
      BY <1>5, <1>6, <2>2
    <3> QED
      BY <1>6, <3>1
  <2> QED
    BY <2>1, <2>2
<1>9. r \in Runs
  <2>1. r = <<r[1], r[2]>> /\ r[1] = start /\ r[2] = stop - 1
    OBVIOUS
  <2> HIDE DEF r
  <2>2. start \in 1 .. n /\ stop - 1 \in 1 .. n /\ start <= stop - 1
    BY <1>1, <1>3, <1>5
  <2>3. \A k \in start .. stop - 1 : Kept[k] # SLASH
    <3>1. \A k \in start .. stop - 1 : k \in 1 .. n
      BY <2>2
    <3> QED
      BY <1>4, <1>7, <3>1
  <2>4. start = 1 \/ Kept[start - 1] = SLASH
    <3>1. CASE start = path
      <4>1. path = 1 \/ kpath[path - 1] = SLASH
        BY <1>1, <1>3, <3>1
      <4>2. path # 1 => path - 1 \in 1 .. n
        BY <1>1
      <4> QED
        BY <1>7, <3>1, <4>1, <4>2
    <3>2. CASE start # path
      <4>1. start - 1 \in path .. start - 1 /\ start - 1 \in 1 .. n
        BY <1>1, <1>3, <3>2
      <4> QED
        BY <1>2, <1>7, <4>1
    <3> QED
      BY <3>1, <3>2
  <2>5. stop - 1 = n \/ Kept[stop - 1 + 1] = SLASH
    <3>1. stop - 1 + 1 = stop /\ (stop = n + 1 \/ stop \in 1 .. n)
      BY <1>1, <1>5
    <3>2. CASE stop = n + 1
      BY <1>1, <3>2
    <3>3. CASE stop \in 1 .. n
      BY <1>4, <1>7, <3>1, <3>3
    <3> QED
      BY <3>1, <3>2, <3>3
  <2> QED
    BY <2>1, <2>2, <2>3, <2>4, <2>5, RunIs
<1>10. Turn(start, stop, next)
  BY <1>2, <1>3, <1>5, <1>6, <1>8, <1>9 DEF Turn
<1> QED
  BY <1>a, <1>10 DEF start, stop

\* The runs in front of the place that a turn leads to are those before and its own, which
\* is the last of them.
LEMMA TurnCounts ==
    ASSUME KpathOK, PathAt, NEW start, NEW stop, NEW next, Turn(start, stop, next),
           NEW c, c = Cardinality({q \in Runs : q[1] < path})
    PROVE  /\ c \in Nat
           /\ Cardinality({q \in Runs : q[1] < next}) = c + 1
           /\ Place(<<start, stop - 1>>) = c + 1
<1> DEFINE S == {q \in Runs : q[1] < path}
           T == {q \in Runs : q[1] < next}
           U == {q \in Runs : q[1] <= start}
           r == <<start, stop - 1>>
<1>1. /\ start \in path .. Len(Kept) /\ stop \in start + 1 .. Len(Kept) + 1 /\ next \in stop .. Len(Kept) + 1
      /\ r \in Runs
      /\ \A j \in path .. start - 1 : kpath[j] = SLASH
      /\ \A j \in stop .. next - 1 : kpath[j] = SLASH
      /\ path \in 1 .. Len(Kept) + 1 /\ Len(Kept) \in Nat
  BY KeptIs DEF Turn, PathAt
<1>2. r[1] = start /\ r[2] = stop - 1
  OBVIOUS
<1> HIDE DEF r
<1>3. ASSUME NEW q \in Runs, q[1] >= path, q[1] < next PROVE q = r
  <2>1. q[1] \in 1 .. Len(Kept) /\ (q[1] = 1 \/ Kept[q[1] - 1] = SLASH)
    BY RunIs
  <2>2. q[1] < path \/ q[1] >= start
    BY <1>1, NoRunIn
  <2>3. q[1] < stop \/ q[1] >= next
    BY <1>1, NoRunIn
  <2>4. \A k \in start .. stop - 1 : Kept[k] # SLASH
    BY <1>1, <1>2, RunIs
  <2>5. ~(q[1] > start)
    <3> SUFFICES ASSUME q[1] > start PROVE FALSE
      OBVIOUS
    <3>1. q[1] - 1 \in start .. stop - 1 /\ q[1] # 1
      BY <1>1, <1>3, <2>1, <2>3
    <3> QED
      BY <2>1, <2>4, <3>1
  <2>6. q[1] = r[1]
    BY <1>1, <1>2, <1>3, <2>1, <2>2, <2>5
  <2> QED
    BY <1>1, <2>6, RunsDiffer
<1>4. \A q \in Runs : q[1] \in Int
  BY RunIs
<1>5. T = S \union {r}
  <2>1. \A q \in T : q \in S \/ q = r
    BY <1>1, <1>3, <1>4
  <2>2. \A q \in S : q \in T
    BY <1>1, <1>4
  <2>3. r \in T
    BY <1>1, <1>2
  <2> HIDE DEF S, T
  <2> QED
    BY <2>1, <2>2, <2>3
<1>6. U = S \union {r}
  <2>1. \A q \in U : q \in S \/ q = r
    BY <1>1, <1>3, <1>4
  <2>2. \A q \in S : q \in U
    BY <1>1, <1>4
  <2>3. r \in U
    BY <1>1, <1>2
  <2> HIDE DEF S, U
  <2> QED
    BY <2>1, <2>2, <2>3
<1>7. r \notin S /\ S \in SUBSET Runs
  BY <1>1, <1>2
<1>8. Place(r) = Cardinality(U)
  BY <1>2 DEF Place
<1>9. c = Cardinality(S)
  OBVIOUS
<1> HIDE DEF S, T, U
<1>10. IsFiniteSet(S)
  BY <1>7, RunsFinite, FS_Subset
<1>11. Cardinality(S) \in Nat
  BY <1>10, FS_CardinalityType
<1>12. Cardinality(S \union {r}) = Cardinality(S) + 1
  BY <1>7, <1>10, FS_AddElement
<1> QED
  BY <1>5, <1>6, <1>8, <1>9, <1>11, <1>12 DEF T, r

Cut(a, k) == [a EXCEPT ![k + 1] = NUL]

\* An array in which a NUL is put behind some characters.
LEMMA CutString ==
    ASSUME NEW a \in Seq(Byte), NEW k \in Nat, k + 1 <= Len(a), \A j \in 1 .. k : a[j] # NUL
    PROVE  /\ Cut(a, k) \in Seq(Byte) /\ Len(Cut(a, k)) = Len(a) /\ Ended(Cut(a, k), k + 1)
           /\ \A j \in 1 .. k : Cut(a, k)[j] = a[j]
<1> DEFINE c == Cut(a, k)
<1>0. c = [a EXCEPT ![k + 1] = NUL]
  BY DEF Cut
<1> HIDE DEF c
<1>1. k + 1 \in 1 .. Len(a) /\ Len(a) \in Nat
  OBVIOUS
<1>2. NUL \in Byte
  BY DEF NUL, Byte
<1>3. c \in Seq(Byte) /\ Len(c) = Len(a)
  BY <1>0, <1>1, <1>2
<1>4. c[k + 1] = NUL /\ \A j \in 1 .. k : c[j] = a[j]
  BY <1>0, <1>1
<1>5. k + 1 - 1 = k
  OBVIOUS
<1>6. Ended(c, k + 1)
  BY <1>1, <1>3, <1>4, <1>5 DEF Ended
<1> QED
  BY <1>3, <1>4, <1>6 DEF c

\* A buffer with one byte in all its places.
LEMMA FillIs ==
    ASSUME NEW b \in Byte, NEW n \in Nat
    PROVE  Fill(b, n) \in Seq(Byte) /\ Len(Fill(b, n)) = n
<1> DEFINE f == [i \in 1 .. n |-> b]
<1>1. (\A i \in 1 .. n : f[i] \in Byte) /\ f = [i \in 1 .. n |-> f[i]]
  OBVIOUS
<1>2. Fill(b, n) = f
  BY DEF Fill
<1> HIDE DEF f
<1>3. f \in Seq(Byte) /\ Len(f) = n
  BY <1>1, SequenceOf
<1> QED
  BY <1>2, <1>3

\* A name as skipelem leaves it: a string in its buffer.
NameOf(nm, s) ==
    /\ nm \in Seq(Byte) /\ Len(nm) = DIRSIZ
    /\ \E e \in 1 .. DIRSIZ : Ended(nm, e)
    /\ String(nm) = s

\* It is the run, or as much of it as has room.
LEMMA NameIs ==
    ASSUME KpathOK, PathAt, NEW start, NEW stop, NEW next, Turn(start, stop, next),
           NEW old \in Seq(Byte), Len(old) = DIRSIZ,
           NEW l, l = IF stop - start >= DIRSIZ THEN DIRSIZ - 1 ELSE stop - start
    PROVE  NameOf(ElementName(old, SubSeq(kpath, start, Len(kpath)), l),
                  Upto(SubSeq(Kept, start, stop - 1), DIRSIZ - 1))
<1> DEFINE z == SubSeq(kpath, start, Len(kpath))
           y == SubSeq(Kept, start, stop - 1)
           u == Upto(y, DIRSIZ - 1)
           m == memcpy(old, z, l)
           nm == ElementName(old, z, l)
<1>1. /\ start \in path .. Len(Kept) /\ stop \in start + 1 .. Len(Kept) + 1
      /\ path \in 1 .. Len(Kept) + 1 /\ Len(Kept) \in Nat /\ Len(Kept) + 1 <= Len(kpath)
      /\ DIRSIZ \in Nat /\ DIRSIZ - 1 \in Nat /\ Len(kpath) \in Nat /\ kpath \in Seq(Byte)
  BY KeptIs, PathAssumption DEF Turn, PathAt, KpathOK
<1>2. start \in 1 .. Len(Kept) /\ stop - 1 \in start .. Len(Kept) /\ l \in Nat /\ l + 1 <= DIRSIZ
      /\ l <= stop - start
  BY <1>1
<1>3. z \in Seq(Byte) /\ Len(z) = Len(kpath) - start + 1
      /\ \A j \in 1 .. Len(kpath) - start + 1 : z[j] = kpath[start + j - 1]
  <2>1. start \in Int /\ Len(kpath) \in Int /\ \A i \in start .. Len(kpath) : kpath[i] \in Byte
    <3>1. \A i \in start .. Len(kpath) : i \in 1 .. Len(kpath)
      BY <1>1, <1>2
    <3> QED
      BY <1>1, <1>2, <3>1
  <2>2. start <= Len(kpath)
    BY <1>1, <1>2
  <2> DEFINE w == Len(kpath)
  <2> HIDE DEF w
  <2>3. w = Len(kpath)
    BY DEF w
  <2>4. /\ SubSeq(kpath, start, w) \in Seq(Byte)
        /\ Len(SubSeq(kpath, start, w)) = IF start <= w THEN w - start + 1 ELSE 0
        /\ \A i \in 1 .. w - start + 1 : SubSeq(kpath, start, w)[i] = kpath[start + i - 1]
    BY <2>1, <2>3, SubSeqProperties
  <2> QED
    BY <2>2, <2>3, <2>4
<1>4. y \in Seq(Char) /\ Len(y) = stop - start
      /\ \A j \in 1 .. stop - start : y[j] = Kept[start + j - 1]
  <2> DEFINE w == stop - 1
  <2>1. start \in Int /\ w \in Int /\ start <= w /\ \A i \in start .. w : Kept[i] \in Char
    <3>1. \A i \in start .. stop - 1 : i \in 1 .. Len(Kept)
      BY <1>1, <1>2
    <3>2. Kept \in Seq(Char)
      BY DEF KpathOK
    <3>3. \A i \in 1 .. Len(Kept) : Kept[i] \in Char
      <4> HIDE DEF Kept
      <4> QED
        BY <3>2
    <3> QED
      BY <1>1, <1>2, <3>1, <3>3
  <2>2. w - start + 1 = stop - start
    BY <1>1, <1>2
  <2> HIDE DEF w
  <2>3. /\ SubSeq(Kept, start, w) \in Seq(Char)
        /\ Len(SubSeq(Kept, start, w)) = IF start <= w THEN w - start + 1 ELSE 0
        /\ \A i \in 1 .. w - start + 1 : SubSeq(Kept, start, w)[i] = Kept[start + i - 1]
    BY <2>1, SubSeqProperties
  <2>4. /\ SubSeq(Kept, start, w) \in Seq(Char)
        /\ Len(SubSeq(Kept, start, w)) = stop - start
        /\ \A i \in 1 .. stop - start : SubSeq(Kept, start, w)[i] = Kept[start + i - 1]
    BY <2>1, <2>2, <2>3
  <2> QED
    BY <2>4 DEF w
<1> HIDE DEF z, y
<1>5. l <= Len(z)
  BY ONLY <1>1, <1>2, <1>3
<1>6. m \in Seq(Byte) /\ Len(m) = DIRSIZ /\ \A j \in 1 .. DIRSIZ : m[j] = IF j <= l THEN z[j] ELSE old[j]
  <2>1. l \in Int
    BY <1>2
  <2> QED
    BY <1>3, <1>5, <2>1, MemcpyProps
<1>7. ASSUME NEW j \in 1 .. l PROVE m[j] = y[j] /\ m[j] # NUL
  <2>1. /\ j \in 1 .. DIRSIZ /\ j \in 1 .. Len(kpath) - start + 1 /\ j \in 1 .. stop - start
        /\ start + j - 1 \in 1 .. Len(Kept)
    BY <1>1, <1>2
  <2>2. m[j] = kpath[start + j - 1] /\ y[j] = Kept[start + j - 1]
    BY <1>3, <1>4, <1>6, <2>1
  <2> QED
    BY <2>1, <2>2, KeptIs
<1>8. nm = Cut(m, l)
  BY DEF ElementName, Cut
<1> HIDE DEF m, nm
<1>9. nm \in Seq(Byte) /\ Len(nm) = Len(m) /\ Ended(nm, l + 1) /\ \A j \in 1 .. l : nm[j] = m[j]
  <2>1. m \in Seq(Byte) /\ l \in Nat /\ l + 1 <= Len(m) /\ \A j \in 1 .. l : m[j] # NUL
    BY <1>2, <1>6, <1>7
  <2> QED
    BY ONLY <1>8, <2>1, CutString
<1>10. u \in Seq(Char) /\ Len(u) = l /\ \A j \in 1 .. l : u[j] = y[j]
  <2> DEFINE d == DIRSIZ - 1
  <2>1. d \in Nat /\ l = IF d < stop - start THEN d ELSE stop - start
    BY <1>1, <1>2
  <2> HIDE DEF d
  <2>2. /\ Upto(y, d) \in Seq(Char)
        /\ Len(Upto(y, d)) = IF d < Len(y) THEN d ELSE Len(y)
        /\ \A j \in 1 .. Len(Upto(y, d)) : Upto(y, d)[j] = y[j]
    BY <1>4, <2>1, UptoProps
  <2>3. /\ Upto(y, d) \in Seq(Char)
        /\ Len(Upto(y, d)) = l
        /\ \A j \in 1 .. l : Upto(y, d)[j] = y[j]
    BY <1>4, <2>1, <2>2
  <2> QED
    BY <2>3 DEF d
<1> DEFINE v == String(nm)
<1>11. v \in Seq(Char) /\ Len(v) = l /\ \A j \in 1 .. l : v[j] = nm[j]
  <2>1. l + 1 - 1 = l
    BY <1>2
  <2>2. v \in Seq(Char) /\ Len(v) = l + 1 - 1 /\ \A j \in 1 .. l + 1 - 1 : v[j] = nm[j]
    BY <1>9, StringProps
  <2> QED
    BY <2>1, <2>2
<1> HIDE DEF u, v
<1>12. \A j \in 1 .. l : v[j] = u[j]
  BY <1>7, <1>9, <1>10, <1>11
<1>13. v = u
  BY <1>10, <1>11, <1>12, SeqEqual
<1>14. l + 1 \in 1 .. DIRSIZ
  BY <1>1, <1>2
<1> QED
  BY <1>6, <1>9, <1>13, <1>14 DEF NameOf, nm, v, u, z, y

\* What copyinstr makes of a buffer with anything in it.
KpathHolds(a, s) ==
    /\ a \in Seq(Byte) /\ Len(a) = KPATH
    /\ s \in Seq(Char) /\ Len(s) + 1 <= KPATH
    /\ \A j \in 1 .. Len(s) : a[j] = s[j]
    /\ a[Len(s) + 1] = NUL

\* copyinstr fills a buffer with the beginning of the caller's path and a NUL.
LEMMA CopyIs ==
    ASSUME NEW u \in UserPaths, NEW b \in Byte
    PROVE  KpathHolds(copyinstr(Fill(b, KPATH), u, KPATH), Upto(String(u), KPATH - 1))
<1> DEFINE f == Fill(b, KPATH)
           v == String(u)
           l == IF strlen(u) < KPATH - 1 THEN strlen(u) ELSE KPATH - 1
           m == memcpy(f, u, l)
           c == Cut(m, l)
           s == Upto(v, KPATH - 1)
<1>1. u \in Seq(Byte) /\ NUL \in ToSet(u) /\ KPATH \in Nat /\ KPATH - 1 \in Nat
  BY PathAssumption DEF Byte
<1>2. PICK k \in 1 .. Len(u) : Ended(u, k)
  BY <1>1, EndExists
<1>3. f \in Seq(Byte) /\ Len(f) = KPATH
  BY <1>1, FillIs
<1>4. v \in Seq(Char) /\ Len(v) = k - 1 /\ \A j \in 1 .. k - 1 : v[j] = u[j]
  BY <1>1, <1>2, StringProps
<1>5. strlen(u) = k - 1
  BY <1>1, <1>2, StrlenCounts
<1>6. l = (IF k - 1 < KPATH - 1 THEN k - 1 ELSE KPATH - 1) /\ copyinstr(f, u, KPATH) = c
  BY <1>5 DEF copyinstr, Cut
<1>7. l \in Nat /\ l + 1 <= KPATH /\ l <= k - 1 /\ l <= Len(u)
  BY <1>1, <1>6, BytesAre
<1> HIDE DEF f, v, l
<1>8. m \in Seq(Byte) /\ Len(m) = KPATH /\ \A j \in 1 .. KPATH : m[j] = IF j <= l THEN u[j] ELSE f[j]
  <2>1. l \in Int
    BY <1>7
  <2> QED
    BY <1>1, <1>3, <1>7, <2>1, MemcpyProps
<1>9. \A j \in 1 .. l : m[j] = u[j] /\ m[j] # NUL
  <2>1. \A j \in 1 .. l : j \in 1 .. KPATH /\ j \in 1 .. k - 1
    BY <1>1, <1>7
  <2>2. \A j \in 1 .. k - 1 : u[j] # NUL
    BY <1>2 DEF Ended
  <2> QED
    BY <1>8, <2>1, <2>2
<1> HIDE DEF m
<1>10. c \in Seq(Byte) /\ Len(c) = KPATH /\ Ended(c, l + 1) /\ \A j \in 1 .. l : c[j] = m[j]
  <2>1. m \in Seq(Byte) /\ l \in Nat /\ l + 1 <= Len(m) /\ \A j \in 1 .. l : m[j] # NUL
    BY <1>7, <1>8, <1>9
  <2> QED
    BY <1>8, <2>1, CutString
<1> HIDE DEF c
<1>11. s \in Seq(Char) /\ Len(s) = l /\ \A j \in 1 .. l : s[j] = v[j]
  <2> DEFINE d == KPATH - 1
  <2>1. d \in Nat /\ l = IF k - 1 < d THEN k - 1 ELSE d
    BY <1>1, <1>6
  <2> HIDE DEF d
  <2>2. /\ Upto(v, d) \in Seq(Char)
        /\ Len(Upto(v, d)) = IF d < Len(v) THEN d ELSE Len(v)
        /\ \A j \in 1 .. Len(Upto(v, d)) : Upto(v, d)[j] = v[j]
    BY <1>4, <2>1, UptoProps
  <2>3. /\ Upto(v, d) \in Seq(Char)
        /\ Len(Upto(v, d)) = l
        /\ \A j \in 1 .. l : Upto(v, d)[j] = v[j]
    BY <1>2, <1>4, <1>7, <2>1, <2>2
  <2> QED
    BY <2>3 DEF d
<1> HIDE DEF s
<1>12. \A j \in 1 .. l : c[j] = s[j]
  <2>1. \A j \in 1 .. l : j \in 1 .. k - 1
    BY <1>7
  <2> QED
    BY <1>4, <1>9, <1>10, <1>11, <2>1
<1>13. c[l + 1] = NUL
  BY <1>10 DEF Ended
<1>14. KpathHolds(c, s)
  BY <1>7, <1>10, <1>11, <1>12, <1>13 DEF KpathHolds
<1> QED
  BY <1>6, <1>14 DEF f, s, v

\* The elements so far are those of the runs in front of path, and name holds the last.
SplitInv ==
    /\ elems \in Seq(Seq(Byte))
    /\ Len(elems) = Cardinality({q \in Runs : q[1] < path})
    /\ \A k \in 1 .. Len(elems) : String(elems[k]) = Elements[k]

NameInv ==
    /\ name \in Seq(Byte) /\ Len(name) = DIRSIZ
    /\ elems # <<>> => NameOf(name, Elements[Len(elems)])

PathInv ==
    /\ user_path = NoPath => path = 1 /\ elems = <<>>
    /\ user_path # NoPath => KpathOK /\ PathAt /\ SplitInv /\ NameInv

\* After the copy nothing has been split yet.
LEMMA CopyPathInv ==
    PathInv /\ copy_path => PathInv'
<1> SUFFICES ASSUME PathInv, copy_path PROVE PathInv'
  OBVIOUS
<1>1. /\ user_path' \in UserPaths /\ path' = 1 /\ elems' = <<>>
  BY DEF copy_path, PathInv
<1>2. PICK b \in {NUL, SLASH, 97} :
        /\ kpath' = copyinstr(Fill(b, KPATH), user_path', KPATH)
        /\ name' = Fill(b, DIRSIZ)
  BY DEF copy_path
<1>3. b \in Byte /\ KPATH \in Nat /\ DIRSIZ \in Nat
  BY PathAssumption DEF Byte, NUL, SLASH
<1>4. Kept' = Upto(String(user_path'), KPATH - 1)
  BY DEF Kept
<1>5. KpathHolds(kpath', Kept')
  BY <1>1, <1>2, <1>3, <1>4, CopyIs
<1>6. KpathOK'
  BY <1>5 DEF KpathOK, KpathHolds
<1>7. Len(Kept') \in Nat
  <2>1. ASSUME NEW s, s \in Seq(Char) PROVE Len(s) \in Nat
    BY <2>1
  <2> QED
    BY <1>5, <2>1 DEF KpathHolds
<1>8. PathAt'
  BY <1>1, <1>7 DEF PathAt
<1>9. SplitInv'
  <2>1. {q \in Runs' : q[1] < path'} = {}
    <3>1. \A q \in Runs' : q[1] \in DOMAIN Kept'
      BY DEF Runs
    <3>2. ASSUME NEW s, s \in Seq(Char) PROVE \A k \in DOMAIN s : ~(k < 1)
      BY <3>2
    <3>3. \A k \in DOMAIN Kept' : ~(k < 1)
      BY <1>5, <3>2 DEF KpathHolds
    <3> QED
      BY <1>1, <3>1, <3>3
  <2>2. Cardinality({}) = 0
    BY FS_EmptySet
  <2>3. <<>> \in Seq(Seq(Byte)) /\ Len(<<>>) = 0
    OBVIOUS
  <2>4. elems' \in Seq(Seq(Byte)) /\ Len(elems') = 0
    BY <1>1, <2>3
  <2>5. Cardinality({q \in Runs' : q[1] < path'}) = 0
    BY <2>1, <2>2
  <2>6. \A k \in 1 .. Len(elems') : String(elems'[k]) = Elements'[k]
    BY <2>4
  <2> QED
    BY <2>4, <2>5, <2>6, Zenon DEF SplitInv
<1>10. NameInv'
  BY <1>1, <1>2, <1>3, FillIs DEF NameInv
<1>11. user_path' # NoPath
  <2>1. NUL \in ToSet(user_path') /\ user_path' \in Seq(Byte)
    BY <1>1, PathAssumption DEF Byte
  <2> QED
    BY <2>1 DEF NoPath, ToSet
<1> QED
  BY <1>6, <1>8, <1>9, <1>10, <1>11 DEF PathInv

\* skipelem splits off the next run of the path.
LEMMA NextElemInv ==
    PathInv /\ next_elem => PathInv'
<1> SUFFICES ASSUME PathInv, next_elem PROVE PathInv'
  OBVIOUS
<1> DEFINE start == ElementAt(kpath, path)
           stop == First(kpath, start, {SLASH, NUL})
           next == First(kpath, stop, NotSlash(kpath))
           l == IF stop - start >= DIRSIZ THEN DIRSIZ - 1 ELSE stop - start
           nm == ElementName(name, SubSeq(kpath, start, Len(kpath)), l)
           r == <<start, stop - 1>>
           c == Len(elems)
<1>1. /\ KpathOK /\ PathAt /\ SplitInv /\ NameInv /\ kpath[start] # NUL
      /\ user_path' = user_path /\ kpath' = kpath /\ user_path # NoPath
  BY DEF next_elem, PathInv
<1>2. path' = next /\ name' = nm /\ elems' = Append(elems, nm)
  BY DEF next_elem, skipelem
<1>3. Turn(start, stop, next)
  BY <1>1, TurnIs
<1>4. name \in Seq(Byte) /\ Len(name) = DIRSIZ
  BY <1>1 DEF NameInv
<1> HIDE DEF start, stop, next
<1>5. NameOf(nm, Upto(SubSeq(Kept, start, stop - 1), DIRSIZ - 1))
  <2>1. l = IF stop - start >= DIRSIZ THEN DIRSIZ - 1 ELSE stop - start
    OBVIOUS
  <2> HIDE DEF l
  <2> QED
    BY <1>1, <1>3, <1>4, <2>1, NameIs
<1> HIDE DEF nm
<1>6. c = Cardinality({q \in Runs : q[1] < path}) /\ elems \in Seq(Seq(Byte))
  BY <1>1 DEF SplitInv
<1> HIDE DEF c
<1>7. /\ c \in Nat
      /\ Cardinality({q \in Runs : q[1] < next}) = c + 1
      /\ Place(r) = c + 1
  BY <1>1, <1>3, <1>6, TurnCounts
<1>8. r \in Runs /\ r[1] = start /\ r[2] = stop - 1
  BY <1>3 DEF Turn
<1> HIDE DEF r
<1>9. Elements[Place(r)] = Upto(SubSeq(Kept, r[1], r[2]), DIRSIZ - 1)
  BY <1>1, <1>8, ElementIs
<1>10. NameOf(nm, Elements[c + 1])
  BY <1>5, <1>7, <1>8, <1>9
<1>11. Kept' = Kept /\ Runs' = Runs /\ Elements' = Elements
  <2>1. Kept' = Kept
    BY <1>1 DEF Kept
  <2>2. Runs' = Runs
    BY <1>1 DEF Runs, Kept
  <2>3. Elements' = Elements
    BY <1>1 DEF Elements, Place, Runs, Kept
  <2> QED
    BY <2>1, <2>2, <2>3
<1>12. KpathOK'
  BY <1>1, <1>11 DEF KpathOK
<1>13. PathAt'
  <2>1. next \in 1 .. Len(Kept) + 1 /\ (next = Len(Kept) + 1 \/ kpath[next - 1] = SLASH)
    BY <1>1, <1>3, KeptIs DEF Turn, PathAt
  <2> QED
    BY <1>1, <1>2, <1>11, <2>1 DEF PathAt
<1>14. elems' \in Seq(Seq(Byte)) /\ Len(elems') = c + 1 /\ elems'[c + 1] = nm
       /\ \A k \in 1 .. c : elems'[k] = elems[k]
  <2>1. nm \in Seq(Byte)
    BY <1>10 DEF NameOf
  <2> DEFINE S == Seq(Byte)
  <2>2. elems \in Seq(S) /\ nm \in S
    BY <1>6, <2>1
  <2> HIDE DEF S
  <2>3. Append(elems, nm) \in Seq(S) /\ Len(Append(elems, nm)) = Len(elems) + 1
        /\ Append(elems, nm)[Len(elems) + 1] = nm
        /\ \A k \in 1 .. Len(elems) : Append(elems, nm)[k] = elems[k]
    BY <2>2
  <2> QED
    BY <1>2, <2>3 DEF S, c
<1>15. SplitInv'
  <2>1. \A k \in 1 .. c + 1 : String(elems'[k]) = Elements[k]
    <3>1. \A k \in 1 .. c : String(elems[k]) = Elements[k]
      BY <1>1 DEF SplitInv, c
    <3>2. String(nm) = Elements[c + 1]
      BY <1>10 DEF NameOf
    <3>3. \A k \in 1 .. c + 1 : k \in 1 .. c \/ k = c + 1
      BY <1>7
    <3> QED
      BY <1>14, <3>1, <3>2, <3>3
  <2> QED
    BY <1>2, <1>7, <1>11, <1>14, <2>1 DEF SplitInv
<1>16. NameInv'
  <2>1. nm \in Seq(Byte) /\ Len(nm) = DIRSIZ
    BY <1>10 DEF NameOf
  <2> QED
    BY <1>2, <1>10, <1>11, <1>14, <2>1 DEF NameInv, NameOf
<1> QED
  BY <1>1, <1>12, <1>13, <1>15, <1>16 DEF PathInv

\* So every step keeps to the runs.
LEMMA PathInvStep ==
    PathInv /\ [PathNext]_pathVars => PathInv'
<1> SUFFICES ASSUME PathInv, [PathNext]_pathVars PROVE PathInv'
  OBVIOUS
<1>1. CASE copy_path
  BY <1>1, CopyPathInv
<1>2. CASE next_elem
  BY <1>2, NextElemInv
<1>3. CASE leave_path
  BY <1>3 DEF leave_path, PathInv
<1>4. CASE UNCHANGED pathVars
  <2>1. UNCHANGED <<user_path, kpath, path, name, elems>>
    BY <1>4 DEF pathVars
  <2>2. Kept' = Kept
    BY <2>1 DEF Kept
  <2>3. Runs' = Runs
    BY <2>1 DEF Runs, Kept
  <2>4. Elements' = Elements
    BY <2>1 DEF Elements, Place, Runs, Kept
  <2>5. KpathOK' <=> KpathOK
    BY <2>1, <2>2 DEF KpathOK
  <2>6. PathAt' <=> PathAt
    BY <2>1, <2>2 DEF PathAt
  <2>7. SplitInv' <=> SplitInv
    BY <2>1, <2>3, <2>4 DEF SplitInv
  <2>8. NameInv' <=> NameInv
    BY <2>1, <2>4 DEF NameInv, NameOf, Ended
  <2> QED
    BY <2>1, <2>5, <2>6, <2>7, <2>8 DEF PathInv
<1> QED
  BY <1>1, <1>2, <1>3, <1>4 DEF PathNext

\* The elements of a path are the runs of characters between its slashes, cut to what has
\* room, for a kernel's buffer and a name of any length; when namei is at the end of the path
\* none was left out.
THEOREM PathIsSplit == PathInit /\ [][PathNext]_pathVars => []PathSplit
<1>1. PathInit => PathInv
  BY DEF PathInit, PathInv
<1>2. PathInv => PathSplit
  <2> SUFFICES ASSUME PathInv, user_path # NoPath PROVE PathSplit
    BY DEF PathSplit
  <2> DEFINE S == {q \in Runs : q[1] < path}
  <2>1. KpathOK /\ PathAt /\ SplitInv
    BY DEF PathInv
  <2>2. Len(elems) = Cardinality(S) /\ S \in SUBSET Runs
    BY <2>1 DEF SplitInv
  <2>3. DOMAIN elems = 1 .. Len(elems) /\ Len(elems) \in Nat
    BY <2>1 DEF SplitInv
  <2>4. IsFiniteSet(Runs) /\ Cardinality(Runs) \in Nat
    BY <2>1, RunsFinite, FS_CardinalityType
  <2>5. Len(Elements) = Cardinality(Runs)
    BY <2>4 DEF Elements
  <2>6. Cardinality(S) <= Cardinality(Runs)
    <3> HIDE DEF S
    <3> QED
      BY <2>2, <2>4, FS_Subset
  <2>7. kpath[ElementAt(kpath, path)] = NUL => S = Runs
    BY <2>1, NoneLeft
  <2>8. \A k \in DOMAIN elems : String(elems[k]) = Elements[k]
    BY <2>1, <2>3 DEF SplitInv
  <2> HIDE DEF S
  <2> QED
    BY <2>2, <2>5, <2>6, <2>7, <2>8 DEF PathSplit
<1> QED
  BY <1>1, <1>2, PathInvStep, PTL

\* A name in a directory and an element are equal for strncmp if and only if the first, up to
\* its NUL or the end of its field, is the second.
LEMMA NamecmpExact ==
    ASSUME NEW d \in Dirents, NEW nm, NEW s, NameOf(nm, s)
    PROVE  namecmp(d, nm) = 0 <=> DirentName(d) = s
<1>1. PICK e \in 1 .. DIRSIZ : Ended(nm, e)
  BY DEF NameOf
<1>2. /\ nm \in Seq(Byte) /\ Len(nm) = DIRSIZ /\ String(nm) = s /\ DIRSIZ \in Nat
      /\ nm[e] = NUL
  BY <1>1, PathAssumption DEF NameOf, Ended
<1>3. d \in Seq(Byte) /\ Len(d) = DIRSIZ
  <2> DEFINE n == DIRSIZ
  <2>1. n \in Nat /\ d = [i \in 1 .. n |-> d[i]] /\ \A i \in 1 .. n : d[i] \in Byte
    BY PathAssumption DEF Byte
  <2> HIDE DEF n
  <2>2. [i \in 1 .. n |-> d[i]] \in Seq(Byte) /\ Len([i \in 1 .. n |-> d[i]]) = n
    BY <2>1, SequenceOf
  <2> QED
    BY <2>1, <2>2 DEF n
<1>4. PICK k \in 1 .. DIRSIZ + 1 :
        /\ \A j \in 1 .. k - 1 : d[j] = nm[j] /\ d[j] # NUL
        /\ k <= DIRSIZ => /\ d[k] = nm[k] => d[k] = NUL
                          /\ strncmp(d, nm, DIRSIZ) = IF d[k] # nm[k] THEN d[k] - nm[k] ELSE 0
  BY <1>2, StrncmpStops
<1>5. k <= e
  <2>1. ~(e \in 1 .. k - 1)
    BY <1>2, <1>4
  <2> QED
    BY <1>2, <1>4, <2>1
<1>6. k \in 1 .. DIRSIZ /\ d[k] \in Int /\ nm[k] \in Int
  <2>1. k \in 1 .. DIRSIZ
    BY <1>2, <1>4, <1>5
  <2>2. k \in 1 .. Len(d) /\ k \in 1 .. Len(nm)
    BY <1>2, <1>3, <2>1
  <2> QED
    BY <1>2, <1>3, <2>1, <2>2, BytesAre
<1>7. namecmp(d, nm) = 0 <=> d[k] = nm[k]
  BY <1>4, <1>6 DEF namecmp
<1>8. ASSUME d[k] = nm[k] PROVE DirentName(d) = s
  <2>1. d[k] = NUL
    BY <1>4, <1>6, <1>8
  <2>2. Ended(d, k)
    BY <1>3, <1>4, <1>6, <2>1 DEF Ended
  <2>3. Ended(nm, k)
    BY <1>2, <1>4, <1>6, <1>8, <2>1 DEF Ended
  <2>4. String(d) = String(nm)
    BY <1>2, <1>3, <1>4, <2>2, <2>3, SameString
  <2>5. NUL \in ToSet(d)
    BY <1>3, <1>6, <2>1, BytesAre DEF ToSet
  <2> QED
    BY <1>2, <2>4, <2>5 DEF DirentName
<1>9. ASSUME DirentName(d) = s PROVE d[k] = nm[k]
  <2>1. Len(s) = e - 1 /\ \A j \in 1 .. e - 1 : s[j] = nm[j]
    BY <1>1, <1>2, StringProps
  <2>2. CASE NUL \in ToSet(d)
    <3>1. PICK i \in 1 .. Len(d) : Ended(d, i)
      BY <1>3, <2>2, EndExists
    <3>2. Len(String(d)) = i - 1 /\ \A j \in 1 .. i - 1 : String(d)[j] = d[j]
      BY <1>3, <3>1, StringProps
    <3>3. String(d) = s
      BY <1>9, <2>2 DEF DirentName
    <3>4. i = e
      BY <1>3, <2>1, <3>1, <3>2, <3>3
    <3>5. CASE k = e
      BY <1>2, <3>1, <3>4, <3>5 DEF Ended
    <3>6. CASE k # e
      <4>1. k \in 1 .. e - 1
        BY <1>5, <1>6, <3>6
      <4> QED
        BY <2>1, <3>2, <3>3, <3>4, <4>1
    <3> QED
      BY <3>5, <3>6
  <2>3. CASE NUL \notin ToSet(d)
    <3>1. d = s
      BY <1>9, <2>3 DEF DirentName
    <3> QED
      BY <1>2, <1>3, <2>1, <3>1
  <2> QED
    BY <2>2, <2>3
<1> QED
  BY <1>7, <1>8, <1>9

\* dirlookup finds an entry by exactly the element it looks for, whatever earlier elements
\* left in the buffer and whatever stands behind a short name.
THEOREM NamesAreFound == PathInit /\ [][PathNext]_pathVars => []NameFound
<1>1. PathInit => PathInv
  BY DEF PathInit, PathInv
<1>2. PathInv => NameFound
  <2> SUFFICES ASSUME PathInv, elems # <<>> PROVE NameFound
    BY DEF NameFound
  <2>1. NameOf(name, Elements[Len(elems)])
    BY DEF PathInv, NameInv
  <2> QED
    BY <2>1, NamecmpExact DEF NameFound
<1> QED
  BY <1>1, <1>2, PathInvStep, PTL

-----------------------------------------------------------------------------
(* How printk reads a format                                                *)

\* There is a character where At gives one.
LEMMA AtIs ==
    ASSUME NEW fmt, Len(fmt) \in Nat, NEW i \in Nat, At(fmt, i) # 0
    PROVE  i <= Len(fmt)
BY DEF At

\* Where the digits of a width begin.
WidthAt(fmt) == IF At(fmt, 1) = Digit(0) THEN 2 ELSE 1

\* parse_width stops in the format or at its end, and there are only digits up to there.
LEMMA WidthStays ==
    ASSUME NEW fmt, Len(fmt) \in Nat
    PROVE  /\ parse_width(fmt).next \in 1 .. Len(fmt) + 1
           /\ WidthAt(fmt) \in 1 .. parse_width(fmt).next
           /\ \A j \in WidthAt(fmt) .. parse_width(fmt).next - 1 : At(fmt, j) \in Digit(0) .. Digit(9)
<1> DEFINE m == Len(fmt) + 1
           p == WidthAt(fmt)
           stops == {i \in 1 .. m : ~(At(fmt, i) \in Digit(0) .. Digit(9))}
           out == [i \in 1 .. m |-> i]
           behind == CHOOSE f : f = [i \in 1 .. Len(fmt) + 1 |->
                       IF At(fmt, i) \in Digit(0) .. Digit(9) THEN f[i + 1] ELSE i]
<1>1. m \in Nat \ {0} /\ stops \in SUBSET (1 .. m) /\ m \in stops
  <2>1. At(fmt, m) = 0
    BY DEF At
  <2> QED
    BY <2>1 DEF Digit
<1>2. p \in 1 .. m
  <2>1. At(fmt, 1) = Digit(0) => 1 <= Len(fmt)
    BY AtIs DEF Digit
  <2> QED
    BY <2>1 DEF WidthAt
<1>3. \E f : Loops(f, m, stops, out)
  <2> HIDE DEF m, stops, out
  <2> QED
    BY <1>1, LoopExists
<1>4. ASSUME NEW f
      PROVE  Loops(f, m, stops, out) <=>
               f = [i \in 1 .. Len(fmt) + 1 |->
                     IF At(fmt, i) \in Digit(0) .. Digit(9) THEN f[i + 1] ELSE i]
  <2>1. ASSUME NEW i \in 1 .. m
        PROVE  (IF At(fmt, i) \in Digit(0) .. Digit(9) THEN f[i + 1] ELSE i)
                 = IF i \in stops THEN out[i] ELSE f[i + 1]
    OBVIOUS
  <2> HIDE DEF stops, out
  <2> QED
    BY <2>1 DEF Loops
<1>5. Loops(behind, m, stops, out)
  BY <1>3, <1>4
<1>6. parse_width(fmt).next = behind[p]
  BY DEF parse_width, WidthAt
<1>7. PICK k \in stops : p <= k /\ (\A j \in stops : p <= j => k <= j) /\ behind[p] = out[k]
  <2> HIDE DEF m, p, stops, out, behind
  <2>1. m \in Nat \ {0} /\ stops \in SUBSET (1 .. m) /\ m \in stops /\ Loops(behind, m, stops, out) /\ p \in 1 .. m
    BY <1>1, <1>2, <1>5
  <2>2. \E k \in stops : p <= k /\ (\A j \in stops : p <= j => k <= j) /\ behind[p] = out[k]
    BY ONLY <2>1, LoopEndsFrom
  <2> QED
    BY <2>2
<1>8. parse_width(fmt).next = k /\ k \in 1 .. m
  BY <1>1, <1>6, <1>7
<1>9. ASSUME NEW j \in p .. k - 1 PROVE At(fmt, j) \in Digit(0) .. Digit(9)
  <2>1. j \in 1 .. m /\ ~(k <= j) /\ p <= j
    BY <1>1, <1>2, <1>8
  <2>2. j \notin stops
    BY <1>7, <2>1
  <2> QED
    BY <2>1, <2>2
<1>10. p \in 1 .. k
  BY <1>2, <1>7, <1>8
<1> HIDE DEF m, p, stops, out, behind
<1> QED
  BY <1>8, <1>9, <1>10 DEF m, p

\* The width that parse_width reads is a number.
LEMMA WidthIs ==
    ASSUME NEW fmt, Len(fmt) \in Nat, \A i \in 1 .. Len(fmt) : fmt[i] \in Nat
    PROVE  parse_width(fmt).width \in Nat
<1> DEFINE p == WidthAt(fmt)
           q == parse_width(fmt).next
           m == Len(fmt) + 1
           CharAt(i) == At(fmt, i)
           wide == CHOOSE f : f = [i \in p .. Len(fmt) + 1 |->
                     IF i = p THEN 0 ELSE f[i - 1] * 10 + At(fmt, i - 1) - Digit(0)]
           G == [k \in Nat |-> [x \in Int |-> IF k = 0 THEN x ELSE x * 10 + CharAt(p + k - 1) - Digit(0)]]
<1>1. /\ m \in Nat /\ q \in 1 .. m /\ p \in 1 .. q
      /\ \A j \in p .. q - 1 : CharAt(j) \in Digit(0) .. Digit(9)
  BY WidthStays
<1>2. parse_width(fmt).width = wide[q]
  BY DEF parse_width, WidthAt
<1>3. \A i \in Nat \ {0} : CharAt(i) \in Int
  BY DEF At
<1>4. wide = CHOOSE f : f = [i \in p .. m |-> IF i = p THEN 0 ELSE f[i - 1] * 10 + CharAt(i - 1) - Digit(0)]
  OBVIOUS
<1> HIDE DEF p, q, m, CharAt, wide
<1>5. G \in StepsOn(Int)
  <2>1. ASSUME NEW k \in Nat, NEW x \in Int
        PROVE  (IF k = 0 THEN x ELSE x * 10 + CharAt(p + k - 1) - Digit(0)) \in Int
    <3>1. CASE k = 0
      BY <3>1
    <3>2. CASE k # 0
      <4>1. p + k - 1 \in Nat \ {0}
        BY <1>1, <3>2
      <4>2. CharAt(p + k - 1) \in Int
        BY <1>3, <4>1
      <4> QED
        BY <3>2, <4>2 DEF Digit
    <3> QED
      BY <3>1, <3>2
  <2> QED
    BY <2>1 DEF StepsOn
<1>6. \A k \in Nat \ {0} : \A x \in Int : G[k][x] = x * 10 + CharAt(p + k - 1) - Digit(0)
  OBVIOUS
<1> HIDE DEF G
<1>7. m - p \in Nat /\ 0 \in Int
  BY <1>1
<1>8. PICK g : Unfolds(g, Int, 0, G, m - p)
  BY <1>5, <1>7, RecursionExists
<1>9. /\ g \in [0 .. m - p -> Int] /\ g[0] = 0
      /\ \A k \in 1 .. m - p : g[k] = g[k - 1] * 10 + CharAt(p + k - 1) - Digit(0)
  <2>1. g \in [0 .. m - p -> Int] /\ g[0] = 0 /\ \A k \in 1 .. m - p : g[k] = G[k][g[k - 1]]
    BY <1>8 DEF Unfolds
  <2>2. \A k \in 1 .. m - p : k \in Nat \ {0} /\ k - 1 \in 0 .. m - p
    BY <1>7
  <2> QED
    BY <1>6, <2>1, <2>2
<1> DEFINE h == [i \in p .. m |-> g[i - p]]
<1>10. h = [i \in p .. m |-> IF i = p THEN 0 ELSE h[i - 1] * 10 + CharAt(i - 1) - Digit(0)]
  <2>1. ASSUME NEW i \in p .. m PROVE h[i] = IF i = p THEN 0 ELSE h[i - 1] * 10 + CharAt(i - 1) - Digit(0)
    <3>1. CASE i = p
      <4>1. h[i] = g[i - p] /\ i - p = 0
        BY <1>1, <3>1
      <4> QED
        BY <1>9, <3>1, <4>1
    <3>2. CASE i # p
      <4>1. i - p \in 1 .. m - p /\ i - 1 \in p .. m /\ i - 1 - p = i - p - 1 /\ p + (i - p) - 1 = i - 1
        BY <1>1, <3>2
      <4>2. h[i] = g[i - p] /\ h[i - 1] = g[i - p - 1]
        BY <4>1
      <4>3. g[i - p] = g[i - p - 1] * 10 + CharAt(i - 1) - Digit(0)
        BY <1>9, <4>1
      <4> HIDE DEF h
      <4> QED
        BY <3>2, <4>2, <4>3
    <3> QED
      BY <3>1, <3>2
  <2>2. h = [i \in p .. m |-> h[i]]
    OBVIOUS
  <2> HIDE DEF h
  <2> QED
    BY <2>1, <2>2
<1>11. wide = [i \in p .. m |-> IF i = p THEN 0 ELSE wide[i - 1] * 10 + CharAt(i - 1) - Digit(0)]
  <2> HIDE DEF h
  <2> QED
    BY <1>4, <1>10
<1> DEFINE T == {k \in 0 .. q - p : wide[p + k] \in Nat}
<1>12. 0 \in T
  BY <1>1, <1>11
<1>13. ASSUME NEW k \in 1 .. q - p, k - 1 \in T PROVE k \in T
  <2>1. /\ p + k \in p .. m /\ p + k # p /\ p + k - 1 \in p .. q - 1
        /\ p + (k - 1) = p + k - 1 /\ k \in 0 .. q - p
    BY <1>1
  <2>2. wide[p + k - 1] \in Nat
    BY <1>13, <2>1
  <2>3. CharAt(p + k - 1) \in Nat /\ CharAt(p + k - 1) >= 48
    BY <1>1, <2>1 DEF Digit
  <2>4. wide[p + k] = wide[p + k - 1] * 10 + CharAt(p + k - 1) - 48
    <3>1. \A i \in p .. m : i # p => wide[i] = wide[i - 1] * 10 + CharAt(i - 1) - 48
      BY <1>1, <1>11 DEF Digit
    <3> QED
      BY <1>1, <2>1, <3>1
  <2> QED
    BY <2>1, <2>2, <2>3, <2>4
<1>14. \A k \in 0 .. q - p : k \in T
  <2>1. q - p \in Nat
    BY <1>1
  <2> HIDE DEF T
  <2> QED
    BY <1>12, <1>13, <2>1, SegmentInduction
<1>15. q - p \in T /\ p + (q - p) = q
  <2>1. q - p \in 0 .. q - p
    BY <1>1
  <2> HIDE DEF T
  <2> QED
    BY <1>1, <1>14, <2>1
<1> QED
  BY <1>2, <1>15

\* Nor does printk go on behind it.
LEMMA PrintkStays ==
    ASSUME NEW fmt, Len(fmt) \in Nat, NEW v, NEW wraps
    PROVE  printk(fmt, v, wraps).next <= Len(fmt) + 1
<1>1. CASE At(fmt, 1) = PERCENT
  <2>1. 1 <= Len(fmt)
    BY <1>1, AtIs DEF PERCENT
  <2>2. printk(fmt, v, wraps).next = 2
    BY <1>1 DEF printk
  <2> QED
    BY <2>1, <2>2
<1>2. CASE At(fmt, 1) # PERCENT
  <2> DEFINE n == parse_width(fmt).next
             i == n + len_l(fmt, n)
  <2>1. printk(fmt, v, wraps).next = Behind(fmt, i)
    BY <1>2 DEF printk
  <2>2. n \in 1 .. Len(fmt) + 1
    BY WidthStays
  <2> HIDE DEF n
  <2>3. i \in 1 .. Len(fmt) + 1
    <3>1. CASE At(fmt, n) # Letter.l
      BY <2>2, <3>1 DEF len_l
    <3>2. CASE At(fmt, n) = Letter.l /\ At(fmt, n + 1) # Letter.l
      <4>1. n <= Len(fmt)
        BY <2>2, <3>2, AtIs DEF Letter
      <4> QED
        BY <2>2, <3>2, <4>1 DEF len_l
    <3>3. CASE At(fmt, n) = Letter.l /\ At(fmt, n + 1) = Letter.l
      <4>1. n + 1 <= Len(fmt)
        BY <2>2, <3>3, AtIs DEF Letter
      <4> QED
        BY <2>2, <3>3, <4>1 DEF len_l
    <3> QED
      BY <3>1, <3>2, <3>3
  <2> HIDE DEF i
  <2>4. Behind(fmt, i) <= Len(fmt) + 1
    <3>1. CASE At(fmt, i) # 0
      <4>1. i <= Len(fmt)
        BY <2>3, <3>1, AtIs
      <4> QED
        BY <2>3, <3>1, <4>1 DEF Behind
    <3>2. CASE At(fmt, i) = 0
      BY <2>3, <3>2 DEF Behind
    <3> QED
      BY <3>1, <3>2
  <2> QED
    BY <2>1, <2>4
<1> QED
  BY <1>1, <1>2

\* What is at work came from a format.
PrintInv == print = NoPrint \/ \E fmt \in Formats, v \in Args, wraps \in BOOLEAN : print = <<fmt, v, printk(fmt, v, wraps)>>

\* It always did.
LEMMA PrintInvariant == PrintkSpec => []PrintInv
<1>1. PrintkInit => PrintInv
  BY DEF PrintkInit, PrintInv
<1>2. PrintInv /\ [PrintkNext]_print => PrintInv'
  <2> SUFFICES ASSUME PrintInv, [PrintkNext]_print PROVE PrintInv'
    OBVIOUS
  <2>1. CASE call_printk
    BY <2>1 DEF call_printk, PrintInv
  <2>2. CASE return_printk
    BY <2>2 DEF return_printk, PrintInv
  <2>3. CASE UNCHANGED print
    BY <2>3 DEF PrintInv
  <2> QED
    BY <2>1, <2>2, <2>3 DEF PrintkNext
<1> QED
  BY <1>1, <1>2, PTL DEF PrintkSpec

\* printk never steps over the NUL that ends the format, whatever stands in front of it and
\* for formats of any length.
THEOREM PrintkStaysInFormat == PrintkSpec => []StaysInFormat
<1>1. PrintInv => StaysInFormat
  <2> SUFFICES ASSUME PrintInv, print # NoPrint PROVE StaysInFormat
    BY DEF StaysInFormat
  <2>1. PICK fmt \in Formats, v \in Args, wraps \in BOOLEAN : print = <<fmt, v, printk(fmt, v, wraps)>>
    BY DEF PrintInv
  <2>2. Fmt = fmt /\ Result = printk(fmt, v, wraps)
    BY <2>1 DEF Fmt, Result
  <2>3. Len(fmt) \in Nat
    BY PrintkAssumption
  <2> QED
    BY <2>2, <2>3, PrintkStays DEF StaysInFormat
<1> QED
  BY <1>1, PrintInvariant, PTL

-----------------------------------------------------------------------------
(* Powers, and what division leaves                                         *)

\* Powers begins with 1 and goes on by multiplication.
LEMMA PowersAre ==
    ASSUME NEW b \in Nat
    PROVE  /\ Powers(b) \in [0 .. BITS -> Nat]
           /\ Powers(b)[0] = 1
           /\ \A k \in 1 .. BITS : Powers(b)[k] = b * Powers(b)[k - 1]
<1> DEFINE pow == CHOOSE f : f = [k \in 0 .. BITS |-> IF k = 0 THEN 1 ELSE b * f[k - 1]]
           G == [k \in Nat |-> [x \in Nat |-> b * x]]
<1>1. BITS \in Nat
  BY PrintkAssumption
<1>2. G \in StepsOn(Nat)
  BY DEF StepsOn
<1>3. \A k \in 1 .. BITS : k \in Nat /\ k - 1 \in 0 .. BITS
  BY <1>1
<1>4. \A k \in Nat : \A x \in Nat : G[k][x] = b * x
  OBVIOUS
<1> HIDE DEF G
<1>5. PICK g : Unfolds(g, Nat, 1, G, BITS)
  BY <1>1, <1>2, RecursionExists
<1>6. g \in [0 .. BITS -> Nat] /\ g[0] = 1 /\ \A k \in 1 .. BITS : g[k] = b * g[k - 1]
  <2>1. g \in [0 .. BITS -> Nat] /\ g[0] = 1 /\ \A k \in 1 .. BITS : g[k] = G[k][g[k - 1]]
    BY <1>5 DEF Unfolds
  <2> QED
    BY <1>3, <1>4, <2>1
<1>7. g = [k \in 0 .. BITS |-> IF k = 0 THEN 1 ELSE b * g[k - 1]]
  <2>1. \A k \in 0 .. BITS : k = 0 \/ k \in 1 .. BITS
    BY <1>1
  <2> QED
    BY <1>6, <2>1
<1>8. pow = [k \in 0 .. BITS |-> IF k = 0 THEN 1 ELSE b * pow[k - 1]]
  BY <1>7
<1>9. Powers(b) = pow
  BY DEF Powers
<1> HIDE DEF pow
<1>10. pow[0] = 1 /\ \A k \in 1 .. BITS : pow[k] = b * pow[k - 1]
  BY <1>1, <1>8
<1> DEFINE T == {k \in 0 .. BITS : pow[k] \in Nat}
<1>11. 0 \in T
  BY <1>1, <1>10
<1>12. \A k \in 1 .. BITS : k - 1 \in T => k \in T
  BY <1>1, <1>10
<1>13. \A k \in 0 .. BITS : k \in T
  <2> HIDE DEF T
  <2> QED
    BY <1>1, <1>11, <1>12, SegmentInduction
<1> QED
  BY <1>8, <1>9, <1>10, <1>13

\* Left begins with the number and goes on by division.
LEMMA LeftIs ==
    ASSUME NEW v \in Nat, NEW b \in Nat \ {0}
    PROVE  /\ Left(v, b) \in [0 .. BITS -> Nat]
           /\ Left(v, b)[0] = v
           /\ \A k \in 1 .. BITS : Left(v, b)[k] = Left(v, b)[k - 1] \div b
<1> DEFINE left == CHOOSE f : f = [k \in 0 .. BITS |-> IF k = 0 THEN v ELSE f[k - 1] \div b]
           G == [k \in Nat |-> [x \in Nat |-> x \div b]]
<1>1. BITS \in Nat
  BY PrintkAssumption
<1>2. G \in StepsOn(Nat)
  BY DivMod DEF StepsOn
<1>3. \A k \in 1 .. BITS : k \in Nat /\ k - 1 \in 0 .. BITS
  BY <1>1
<1>4. \A k \in Nat : \A x \in Nat : G[k][x] = x \div b
  OBVIOUS
<1> HIDE DEF G
<1>5. PICK g : Unfolds(g, Nat, v, G, BITS)
  BY <1>1, <1>2, RecursionExists
<1>6. g \in [0 .. BITS -> Nat] /\ g[0] = v /\ \A k \in 1 .. BITS : g[k] = g[k - 1] \div b
  <2>1. g \in [0 .. BITS -> Nat] /\ g[0] = v /\ \A k \in 1 .. BITS : g[k] = G[k][g[k - 1]]
    BY <1>5 DEF Unfolds
  <2> QED
    BY <1>3, <1>4, <2>1
<1>7. g = [k \in 0 .. BITS |-> IF k = 0 THEN v ELSE g[k - 1] \div b]
  <2>1. \A k \in 0 .. BITS : k = 0 \/ k \in 1 .. BITS
    BY <1>1
  <2> QED
    BY <1>6, <2>1
<1>8. left = [k \in 0 .. BITS |-> IF k = 0 THEN v ELSE left[k - 1] \div b]
  BY <1>7
<1>9. Left(v, b) = left
  BY DEF Left
<1> HIDE DEF left
<1>10. left[0] = v /\ \A k \in 1 .. BITS : left[k] = left[k - 1] \div b
  BY <1>1, <1>8
<1> DEFINE T == {k \in 0 .. BITS : left[k] \in Nat}
<1>11. 0 \in T
  BY <1>1, <1>10
<1>12. ASSUME NEW k \in 1 .. BITS, k - 1 \in T PROVE k \in T
  <2>1. left[k - 1] \in Nat /\ left[k] = left[k - 1] \div b
    BY <1>10, <1>12
  <2>2. left[k] \in Nat
    BY <2>1, DivMod
  <2> QED
    BY <1>1, <2>2
<1>13. \A k \in 0 .. BITS : k \in T
  <2> HIDE DEF T
  <2> QED
    BY <1>1, <1>11, <1>12, SegmentInduction
<1> QED
  BY <1>8, <1>9, <1>10, <1>13

\* Products grow with their factors.
LEMMA TimesGrows ==
    ASSUME NEW x \in Nat, NEW y \in Nat, NEW z \in Nat, x <= y
    PROVE  x * z <= y * z
<1>1. y = x + (y - x) /\ y - x \in Nat
  OBVIOUS
<1>2. (y - x) * z \in Nat
  BY <1>1
<1>3. y * z = x * z + (y - x) * z
  OBVIOUS
<1> QED
  BY <1>2, <1>3

\* If q is a number divided by p, then q divided by b is the number divided by b * p.
LEMMA QuotientStep ==
    ASSUME NEW v \in Nat, NEW q \in Nat, NEW p \in Nat, NEW b \in Nat \ {0},
           q * p <= v, v < (q + 1) * p
    PROVE  (q \div b) * (b * p) <= v /\ v < ((q \div b) + 1) * (b * p)
<1>1. PICK d \in Nat, r \in 0 .. b - 1 : d = q \div b /\ q = b * d + r
  BY DivMod
<1>2. b * d \in Nat /\ b * d <= q
  BY <1>1
<1>3. (b * d) * p <= q * p
  BY <1>2, TimesGrows
<1>4. b * (d + 1) \in Nat /\ q + 1 \in Nat /\ q + 1 <= b * (d + 1)
  BY <1>1
<1>5. (q + 1) * p <= (b * (d + 1)) * p
  BY <1>4, TimesGrows
<1>6. (b * d) * p = d * (b * p) /\ (b * (d + 1)) * p = (d + 1) * (b * p)
  OBVIOUS
<1>7. /\ d * (b * p) \in Nat /\ (d + 1) * (b * p) \in Nat
      /\ q * p \in Nat /\ (q + 1) * p \in Nat
  OBVIOUS
<1>8. d * (b * p) <= v /\ v < (d + 1) * (b * p)
  BY <1>3, <1>5, <1>6, <1>7
<1> QED
  BY <1>1, <1>8

\* Nothing is left when as many digits are gone as the number needs.
LEMMA LeftNothing ==
    ASSUME NEW v \in Nat, NEW b \in Nat \ {0}, NEW n \in 0 .. BITS
    PROVE  Left(v, b)[n] = 0 <=> v < Powers(b)[n]
<1> DEFINE L == Left(v, b)
           P == Powers(b)
           T == {k \in 0 .. BITS : L[k] * P[k] <= v /\ v < (L[k] + 1) * P[k]}
<1>1. BITS \in Nat
  BY PrintkAssumption
<1>2. L \in [0 .. BITS -> Nat] /\ L[0] = v /\ \A k \in 1 .. BITS : L[k] = L[k - 1] \div b
  BY LeftIs
<1>3. P \in [0 .. BITS -> Nat] /\ P[0] = 1 /\ \A k \in 1 .. BITS : P[k] = b * P[k - 1]
  BY PowersAre
<1> HIDE DEF L, P
<1>4. 0 \in T
  BY <1>1, <1>2, <1>3
<1>5. ASSUME NEW k \in 1 .. BITS, k - 1 \in T PROVE k \in T
  <2>1. k \in 0 .. BITS /\ k - 1 \in 0 .. BITS
    BY <1>1
  <2>2. L[k - 1] \in Nat /\ P[k - 1] \in Nat
    BY <1>2, <1>3, <2>1
  <2>3. L[k - 1] * P[k - 1] <= v /\ v < (L[k - 1] + 1) * P[k - 1]
    BY <1>5
  <2>4. /\ (L[k - 1] \div b) * (b * P[k - 1]) <= v
        /\ v < ((L[k - 1] \div b) + 1) * (b * P[k - 1])
    BY <2>2, <2>3, QuotientStep
  <2> QED
    BY <1>2, <1>3, <2>1, <2>4
<1>6. \A k \in 0 .. BITS : k \in T
  <2> HIDE DEF T
  <2> QED
    BY <1>1, <1>4, <1>5, SegmentInduction
<1>7. L[n] * P[n] <= v /\ v < (L[n] + 1) * P[n] /\ L[n] \in Nat /\ P[n] \in Nat
  BY <1>2, <1>3, <1>6
<1>8. L[n] = 0 => v < P[n]
  BY <1>7
<1>9. ASSUME L[n] # 0 PROVE P[n] <= v
  <2>1. 1 * P[n] <= L[n] * P[n]
    BY <1>7, <1>9, TimesGrows
  <2> QED
    BY <1>7, <2>1
<1> QED
  BY <1>7, <1>8, <1>9 DEF L, P

\* What is nothing stays nothing.
LEMMA NothingStays ==
    ASSUME NEW v \in Nat, NEW b \in Nat \ {0}, NEW n \in 0 .. BITS, NEW m \in n .. BITS, Left(v, b)[n] = 0
    PROVE  Left(v, b)[m] = 0
<1> DEFINE L == Left(v, b)
           T == {k \in 0 .. m - n : L[n + k] = 0}
<1>1. BITS \in Nat /\ m - n \in Nat /\ n \in Nat /\ m \in Nat
  BY PrintkAssumption
<1>2. \A k \in 1 .. BITS : L[k] = L[k - 1] \div b
  BY LeftIs
<1>3. 0 \div b = 0
  BY DivUnique
<1> HIDE DEF L
<1>4. 0 \in T
  BY <1>1 DEF L
<1>5. ASSUME NEW k \in 1 .. m - n, k - 1 \in T PROVE k \in T
  <2>1. n + k \in 1 .. BITS /\ n + (k - 1) = n + k - 1
    BY <1>1
  <2> QED
    BY <1>2, <1>3, <1>5, <2>1
<1>6. \A k \in 0 .. m - n : k \in T
  <2> HIDE DEF T
  <2> QED
    BY <1>1, <1>4, <1>5, SegmentInduction
<1>7. m - n \in T /\ n + (m - n) = m
  <2>1. m - n \in 0 .. m - n
    BY <1>1
  <2> HIDE DEF T
  <2> QED
    BY <1>1, <1>6, <2>1
<1> QED
  BY <1>7 DEF L

\* A word has no more digits than bits.
LEMMA WordFits ==
    ASSUME NEW b \in Nat, b >= 2
    PROVE  WORD \in Nat /\ WORD <= Powers(b)[BITS]
<1> DEFINE P == Powers(b)
           W == Powers(2)
           T == {k \in 0 .. BITS : W[k] <= P[k]}
<1>1. BITS \in Nat
  BY PrintkAssumption
<1>2. P \in [0 .. BITS -> Nat] /\ P[0] = 1 /\ \A k \in 1 .. BITS : P[k] = b * P[k - 1]
  BY PowersAre
<1>3. W \in [0 .. BITS -> Nat] /\ W[0] = 1 /\ \A k \in 1 .. BITS : W[k] = 2 * W[k - 1]
  BY PowersAre
<1> HIDE DEF P, W
<1>4. 0 \in T
  BY <1>1, <1>2, <1>3
<1>5. ASSUME NEW k \in 1 .. BITS, k - 1 \in T PROVE k \in T
  <2>1. k \in 0 .. BITS /\ k - 1 \in 0 .. BITS
    BY <1>1
  <2>2. PICK x \in Nat, y \in Nat : x = W[k - 1] /\ y = P[k - 1]
    BY <1>2, <1>3, <2>1
  <2>3. x <= y
    BY <1>5, <2>2
  <2>4. 2 * y <= b * y
    BY TimesGrows
  <2>5. 2 * x <= 2 * y /\ 2 * x \in Nat /\ 2 * y \in Nat /\ b * y \in Nat
    BY <2>3
  <2>6. 2 * x <= b * y
    BY <2>4, <2>5
  <2>7. W[k] = 2 * x /\ P[k] = b * y
    BY <1>2, <1>3, <2>2
  <2> QED
    BY <2>1, <2>6, <2>7
<1>6. \A k \in 0 .. BITS : k \in T
  <2> HIDE DEF T
  <2> QED
    BY <1>1, <1>4, <1>5, SegmentInduction
<1>7. BITS \in T
  <2> HIDE DEF T
  <2> QED
    BY <1>1, <1>6
<1> QED
  BY <1>1, <1>3, <1>7 DEF P, W, WORD

\* The loops end where nothing is left for the first time, and that is how many digits
\* the number needs.
LEMMA DigitsAre ==
    ASSUME NEW v \in Nat, v < WORD, NEW b \in Nat, b >= 2
    PROVE  /\ Digits(v, b) \in 1 .. BITS
           /\ Left(v, b)[Digits(v, b)] = 0
           /\ \A k \in 1 .. Digits(v, b) - 1 : Left(v, b)[k] # 0
           /\ Minimal(v, b) = Digits(v, b)
<1> DEFINE L == Left(v, b)
           P == Powers(b)
           S == {n \in 1 .. BITS : L[n] = 0}
           Good(n) == L[n] = 0 /\ \A k \in 1 .. n - 1 : L[k] # 0
           Least(n) == v < P[n] /\ \A k \in 1 .. n - 1 : v >= P[k]
<1>1. BITS \in Nat \ {0}
  BY PrintkAssumption
<1>2. \A n \in 0 .. BITS : L[n] = 0 <=> v < P[n]
  BY LeftNothing
<1>3. P \in [0 .. BITS -> Nat]
  BY PowersAre
<1>4. L[BITS] = 0
  <2>1. WORD \in Nat /\ WORD <= P[BITS]
    BY WordFits
  <2>2. BITS \in 0 .. BITS
    BY <1>1
  <2> HIDE DEF L, P
  <2> QED
    BY <1>2, <1>3, <2>1, <2>2
<1>5. PICK n \in S : \A k \in S : n <= k
  <2>1. S \in SUBSET Nat /\ BITS \in S
    BY <1>1, <1>4
  <2> HIDE DEF S
  <2> QED
    BY <2>1, LeastExists
<1>6. n \in 1 .. BITS /\ Good(n)
  <2>1. n \in 1 .. BITS /\ L[n] = 0
    BY <1>5
  <2>2. ASSUME NEW k \in 1 .. n - 1 PROVE L[k] # 0
    <3>1. k \in 1 .. BITS /\ ~(n <= k)
      BY <1>1, <2>1
    <3> QED
      BY <1>5, <3>1
  <2> QED
    BY <2>1, <2>2
<1>7. ASSUME NEW i \in 1 .. BITS, NEW j \in 1 .. BITS, Good(i), Good(j) PROVE i = j
  <2>1. CASE i < j
    <3>1. i \in 1 .. j - 1
      BY <1>1, <2>1
    <3> QED
      BY <1>7, <3>1
  <2>2. CASE j < i
    <3>1. j \in 1 .. i - 1
      BY <1>1, <2>2
    <3> QED
      BY <1>7, <3>1
  <2> QED
    BY <1>1, <2>1, <2>2
<1>8. \A i \in 1 .. BITS : Good(i) <=> Least(i)
  <2> SUFFICES ASSUME NEW i \in 1 .. BITS PROVE Good(i) <=> Least(i)
    OBVIOUS
  <2>1. i \in 0 .. BITS /\ \A k \in 1 .. i - 1 : k \in 0 .. BITS
    BY <1>1
  <2>2. \A k \in 1 .. i - 1 : L[k] # 0 <=> v >= P[k]
    <3> HIDE DEF L, P
    <3> QED
      BY <1>2, <1>3, <2>1
  <2>3. L[i] = 0 <=> v < P[i]
    BY <1>2, <2>1
  <2> HIDE DEF L, P
  <2> QED
    BY <2>2, <2>3
<1> HIDE DEF Good, Least
<1>9. Digits(v, b) = CHOOSE i \in 1 .. BITS : Good(i)
  BY DEF Digits, Good
<1>10. Minimal(v, b) = CHOOSE i \in 1 .. BITS : Least(i)
  BY DEF Minimal, Least
<1>11. Digits(v, b) = n
  <2>1. Digits(v, b) \in 1 .. BITS /\ Good(Digits(v, b))
    BY <1>6, <1>9
  <2> QED
    BY <1>6, <1>7, <2>1
<1>12. Minimal(v, b) = n
  <2>1. Minimal(v, b) \in 1 .. BITS /\ Least(Minimal(v, b))
    BY <1>6, <1>8, <1>10
  <2> QED
    BY <1>6, <1>7, <1>8, <2>1
<1> QED
  BY <1>6, <1>11, <1>12 DEF Good

\* In base 16 it has a quarter of them.
LEMMA NibblesFit ==
    ASSUME NEW v \in Nat, v < WORD
    PROVE  4 * Digits(v, 16) <= BITS
<1> DEFINE P == Powers(16)
           W == Powers(2)
           T == {k \in 0 .. BITS : 4 * k <= BITS => P[k] = W[4 * k]}
<1>1. BITS \in Nat \ {0}
  BY PrintkAssumption
<1>2. P \in [0 .. BITS -> Nat] /\ P[0] = 1 /\ \A k \in 1 .. BITS : P[k] = 16 * P[k - 1]
  BY PowersAre
<1>3. W \in [0 .. BITS -> Nat] /\ W[0] = 1 /\ \A k \in 1 .. BITS : W[k] = 2 * W[k - 1]
  BY PowersAre
<1> HIDE DEF P, W
<1>4. 0 \in T
  BY <1>1, <1>2, <1>3
<1>5. ASSUME NEW k \in 1 .. BITS, k - 1 \in T PROVE k \in T
  <2> SUFFICES ASSUME 4 * k <= BITS PROVE P[k] = W[4 * k]
    BY <1>1
  <2>1. /\ 4 * (k - 1) = 4 * k - 4 /\ 4 * (k - 1) <= BITS
        /\ 4 * k \in 1 .. BITS /\ 4 * k - 1 \in 1 .. BITS /\ 4 * k - 2 \in 1 .. BITS /\ 4 * k - 3 \in 1 .. BITS
        /\ 4 * k - 1 - 1 = 4 * k - 2 /\ 4 * k - 2 - 1 = 4 * k - 3 /\ 4 * k - 3 - 1 = 4 * k - 4
        /\ 4 * k - 4 \in 0 .. BITS
    BY <1>1
  <2>2. P[k - 1] = W[4 * k - 4]
    BY <1>5, <2>1
  <2>3. W[4 * k] = 2 * W[4 * k - 1] /\ W[4 * k - 1] = 2 * W[4 * k - 2]
    BY <1>3, <2>1
  <2>4. W[4 * k - 2] = 2 * W[4 * k - 3] /\ W[4 * k - 3] = 2 * W[4 * k - 4]
    BY <1>3, <2>1
  <2>5. W[4 * k - 4] \in Nat
    BY <1>3, <2>1
  <2>6. P[k] = 16 * P[k - 1]
    BY <1>2
  <2> QED
    BY <2>2, <2>3, <2>4, <2>5, <2>6
<1>6. \A k \in 0 .. BITS : k \in T
  <2> HIDE DEF T
  <2> QED
    BY <1>1, <1>4, <1>5, SegmentInduction
<1>7. PICK q \in 1 .. BITS : 4 * q = BITS
  <2>1. BITS = 4 * (BITS \div 4) /\ BITS \div 4 \in 1 .. BITS
    BY PrintkAssumption
  <2> QED
    BY <2>1
<1>8. Left(v, 16)[q] = 0
  <2>1. q \in T /\ 4 * q <= BITS /\ q \in 0 .. BITS
    BY <1>1, <1>6, <1>7
  <2>2. P[q] = WORD
    BY <1>7, <2>1 DEF WORD, W
  <2> QED
    BY <2>1, <2>2, LeftNothing DEF P
<1>9. /\ Digits(v, 16) \in 1 .. BITS
      /\ \A k \in 1 .. Digits(v, 16) - 1 : Left(v, 16)[k] # 0
  BY DigitsAre
<1> DEFINE n == Digits(v, 16)
<1> HIDE DEF n
<1>10. q >= n
  <2> SUFFICES ASSUME q < n PROVE FALSE
    BY <1>7, <1>9 DEF n
  <2>1. q \in 1 .. n - 1
    BY <1>7, <1>9 DEF n
  <2> QED
    BY <1>8, <1>9, <2>1 DEF n
<1> QED
  BY <1>1, <1>7, <1>9, <1>10 DEF n
-----------------------------------------------------------------------------
(* Reading digits                                                           *)

\* A function that reads out from its first character on.
Reads(f, out, base) ==
    /\ f[0] = 0
    /\ \A k \in 1 .. Len(out) : f[k] = Further(f[k - 1], out[k], base)

\* ValueOf is what such a function has read at the end.
LEMMA ValueIs ==
    ASSUME NEW out \in Seq(Nat), NEW base \in Nat
    PROVE  \E f : Reads(f, out, base) /\ ValueOf(out, base) = f[Len(out)]
<1> DEFINE n == Len(out)
           val == CHOOSE f : f = [k \in 0 .. Len(out) |-> IF k = 0 THEN 0 ELSE Further(f[k - 1], out[k], base)]
           G == [k \in Nat |-> [x \in Nat |-> IF k \in 1 .. n THEN Further(x, out[k], base) ELSE x]]
<1>1. n \in Nat /\ n = Len(out) /\ \A k \in 1 .. n : out[k] \in Nat
  OBVIOUS
<1> HIDE DEF n
<1>2. ASSUME NEW x \in Nat, NEW c \in Nat PROVE Further(x, c, base) \in Nat
  <2>1. x * base \in Nat
    OBVIOUS
  <2> QED
    BY <2>1 DEF Further, Digit
<1>3. G \in StepsOn(Nat)
  <2>1. \A k \in Nat, x \in Nat : (IF k \in 1 .. n THEN Further(x, out[k], base) ELSE x) \in Nat
    BY <1>1, <1>2
  <2> QED
    BY <2>1 DEF StepsOn
<1>4. \A k \in 1 .. n : k \in Nat /\ k - 1 \in 0 .. n
  BY <1>1
<1>5. \A k \in 1 .. n : \A x \in Nat : G[k][x] = Further(x, out[k], base)
  BY <1>4
<1> HIDE DEF G
<1>6. PICK g : Unfolds(g, Nat, 0, G, n)
  BY <1>1, <1>3, RecursionExists
<1>7. g \in [0 .. n -> Nat] /\ g[0] = 0 /\ \A k \in 1 .. n : g[k] = Further(g[k - 1], out[k], base)
  <2>1. g \in [0 .. n -> Nat] /\ g[0] = 0 /\ \A k \in 1 .. n : g[k] = G[k][g[k - 1]]
    BY <1>6 DEF Unfolds
  <2> QED
    BY <1>4, <1>5, <2>1
<1>8. g = [k \in 0 .. n |-> IF k = 0 THEN 0 ELSE Further(g[k - 1], out[k], base)]
  <2>1. \A k \in 0 .. n : k = 0 \/ k \in 1 .. n
    BY <1>1
  <2> QED
    BY <1>7, <2>1
<1>9. val = [k \in 0 .. n |-> IF k = 0 THEN 0 ELSE Further(val[k - 1], out[k], base)]
  BY <1>1, <1>8
<1>10. ValueOf(out, base) = val[n]
  BY <1>1 DEF ValueOf
<1> HIDE DEF val
<1>11. Reads(val, out, base)
  <2>1. val[0] = 0
    BY <1>1, <1>9
  <2>2. \A k \in 1 .. n : val[k] = Further(val[k - 1], out[k], base)
    <3>1. \A k \in 1 .. n : k \in 0 .. n /\ k # 0
      BY <1>1
    <3> QED
      BY <1>9, <3>1
  <2> QED
    BY <1>1, <2>1, <2>2 DEF Reads
<1> QED
  BY <1>1, <1>10, <1>11

\* The digit of a number, read behind what stands in front of it, gives the number.
LEMMA DigitRead ==
    ASSUME NEW q \in Nat, NEW base \in {10, 16}
    PROVE  Further(q \div base, HexDigit(q % base), base) = q
<1>1. PICK d \in Nat, r \in 0 .. base - 1 : d = q \div base /\ r = q % base /\ q = base * d + r
  BY DivMod
<1>2. Further(d, HexDigit(r), base) = d * base + r
  <2>1. d * base \in Nat /\ r \in Nat /\ r < 16
    BY <1>1
  <2>2. CASE r < 10
    <3>1. HexDigit(r) = 48 + r /\ HexDigit(r) \in Digit(0) .. Digit(9)
      BY <2>1, <2>2 DEF HexDigit, Digit
    <3> QED
      BY <2>1, <3>1 DEF Further
  <2>3. CASE r >= 10
    <3>1. HexDigit(r) = 87 + r /\ HexDigit(r) >= 97
      BY <2>1, <2>3 DEF HexDigit, Digit
    <3>2. HexDigit(r) \notin Digit(0) .. Digit(9)
      BY <3>1, <2>1 DEF Digit
    <3> QED
      BY <2>1, <3>1, <3>2 DEF Further
  <2> QED
    BY <2>1, <2>2, <2>3
<1>3. base * d = d * base
  OBVIOUS
<1> QED
  BY <1>1, <1>2, <1>3

\* Padding, a sign, and the last digits of a number that has no more read as the number.
LEMMA NumberRead ==
    ASSUME NEW out \in Seq(Nat), NEW pad \in Nat, NEW n \in 0 .. BITS, NEW v \in Nat, NEW base \in {10, 16},
           Len(out) = pad + n, Left(v, base)[n] = 0,
           \A k \in 1 .. pad : out[k] \in {SPACE, MINUS, Digit(0)},
           \A k \in 1 .. n : out[pad + k] = HexDigit(Left(v, base)[n - k] % base)
    PROVE  ValueOf(out, base) = v
<1> DEFINE L == Left(v, base)
<1>1. BITS \in Nat /\ base \in Nat \ {0} /\ n \in Nat
  BY PrintkAssumption
<1>2. L \in [0 .. BITS -> Nat] /\ L[0] = v /\ \A k \in 1 .. BITS : L[k] = L[k - 1] \div base
  BY <1>1, LeftIs
<1> HIDE DEF L
<1>3. PICK f : Reads(f, out, base) /\ ValueOf(out, base) = f[Len(out)]
  BY <1>1, ValueIs
<1>4. f[0] = 0 /\ \A k \in 1 .. pad + n : f[k] = Further(f[k - 1], out[k], base)
  BY <1>3 DEF Reads
<1> DEFINE T == {k \in 0 .. pad : f[k] = 0}
<1>5. 0 \in T
  BY <1>4
<1>6. ASSUME NEW k \in 1 .. pad, k - 1 \in T PROVE k \in T
  <2>1. f[k] = Further(0, out[k], base)
    BY <1>1, <1>4, <1>6
  <2>2. out[k] \in {SPACE, MINUS, Digit(0)}
    OBVIOUS
  <2>3. 0 * base = 0
    BY <1>1
  <2>4. Further(0, out[k], base) = 0
    <3>1. CASE out[k] = SPACE
      <4>1. Further(0, 32, base) = 0
        BY DEF Further, Digit
      <4> QED
        BY <3>1, <4>1 DEF SPACE
    <3>2. CASE out[k] = MINUS
      <4>1. Further(0, 45, base) = 0
        BY DEF Further, Digit
      <4> QED
        BY <3>2, <4>1 DEF MINUS
    <3>3. CASE out[k] = Digit(0)
      <4>1. Further(0, 48, base) = 0
        BY <2>3 DEF Further, Digit
      <4>2. Digit(0) = 48
        BY DEF Digit
      <4> QED
        BY <3>3, <4>1, <4>2
    <3> QED
      BY <2>2, <3>1, <3>2, <3>3
  <2> QED
    BY <2>1, <2>4
<1>7. \A k \in 0 .. pad : k \in T
  <2> HIDE DEF T
  <2> QED
    BY <1>5, <1>6, SegmentInduction
<1> DEFINE U == {k \in 0 .. n : f[pad + k] = L[n - k]}
<1>8. 0 \in U
  <2>1. f[pad] = 0 /\ pad + 0 = pad /\ n - 0 = n
    BY <1>1, <1>7
  <2> QED
    BY <1>1, <2>1 DEF L
<1>9. ASSUME NEW k \in 1 .. n, k - 1 \in U PROVE k \in U
  <2>1. /\ pad + k \in 1 .. pad + n /\ pad + k - 1 = pad + (k - 1)
        /\ n - k \in 0 .. BITS /\ n - (k - 1) \in 1 .. BITS /\ n - (k - 1) - 1 = n - k
    BY <1>1
  <2>2. f[pad + k - 1] = L[n - k] \div base
    BY <1>2, <1>9, <2>1
  <2>3. out[pad + k] = HexDigit(L[n - k] % base)
    BY DEF L
  <2>4. f[pad + k] = Further(f[pad + k - 1], out[pad + k], base)
    BY <1>4, <2>1
  <2>5. L[n - k] \in Nat
    BY <1>2, <2>1
  <2>6. Further(L[n - k] \div base, HexDigit(L[n - k] % base), base) = L[n - k]
    BY <2>5, DigitRead
  <2> QED
    BY <2>2, <2>3, <2>4, <2>6
<1>10. \A k \in 0 .. n : k \in U
  <2> HIDE DEF U
  <2> QED
    BY <1>1, <1>8, <1>9, SegmentInduction
<1>11. f[pad + n] = L[0]
  <2>1. n \in U /\ n - n = 0
    <3>1. n \in 0 .. n
      BY <1>1
    <3> HIDE DEF U
    <3> QED
      BY <1>1, <1>10, <3>1
  <2> QED
    BY <2>1
<1> QED
  BY <1>2, <1>3, <1>11

\* n times a character.
LEMMA RepeatIs ==
    ASSUME NEW ch \in Nat, NEW n \in Nat
    PROVE  /\ kprint_repeat(ch, n) \in Seq(Nat) /\ Len(kprint_repeat(ch, n)) = n
           /\ \A k \in 1 .. n : kprint_repeat(ch, n)[k] = ch
BY DEF kprint_repeat

\* The decimal digits of a word.
LEMMA DecimalIs ==
    ASSUME NEW v \in Nat, v < WORD
    PROVE  LET n == Digits(v, 10)
           IN  /\ decimal(v) \in Seq(Nat) /\ Len(decimal(v)) = n
               /\ \A k \in 1 .. n : /\ decimal(v)[k] = HexDigit(Left(v, 10)[n - k] % 10)
                                    /\ decimal(v)[k] \in 48 .. 57
<1> DEFINE n == Digits(v, 10)
           L == Left(v, 10)
<1>1. BITS \in Nat
  BY PrintkAssumption
<1>2. n \in 1 .. BITS
  BY DigitsAre
<1>3. L \in [0 .. BITS -> Nat]
  BY LeftIs
<1>4. decimal(v) = [k \in 1 .. n |-> Digit(L[n - k] % 10)]
  BY DEF decimal
<1> HIDE DEF n, L
<1>5. ASSUME NEW k \in 1 .. n
      PROVE  Digit(L[n - k] % 10) = HexDigit(L[n - k] % 10) /\ Digit(L[n - k] % 10) \in 48 .. 57
  <2>1. n - k \in 0 .. BITS
    BY <1>1, <1>2
  <2>2. L[n - k] % 10 \in 0 .. 9
    <3>1. L[n - k] \in Nat
      BY <1>3, <2>1
    <3>2. 10 \in Nat \ {0}
      OBVIOUS
    <3>3. L[n - k] % 10 \in 0 .. 10 - 1
      BY ONLY <3>1, <3>2, DivMod
    <3> QED
      BY <3>3
  <2> QED
    BY <2>2 DEF Digit, HexDigit
<1>6. n \in Nat /\ \A k \in 1 .. n : Digit(L[n - k] % 10) \in Nat
  BY <1>1, <1>2, <1>5
<1>7. decimal(v) \in Seq(Nat) /\ Len(decimal(v)) = n /\ \A k \in 1 .. n : decimal(v)[k] = Digit(L[n - k] % 10)
  BY <1>4, <1>6
<1> QED
  BY <1>5, <1>7 DEF n, L
-----------------------------------------------------------------------------
(* What a conversion puts out                                               *)

\* out is so many spaces, so many signs, so many zeros, and the digits of mag.
Laid(out, blanks, signs, zeros, mag) ==
    LET n == Digits(mag, 10)
    IN  /\ out \in Seq(Nat) /\ Len(out) = blanks + signs + zeros + n
        /\ \A k \in 1 .. blanks : out[k] = SPACE
        /\ \A k \in 1 .. signs : out[blanks + k] = MINUS
        /\ \A k \in 1 .. zeros : out[blanks + signs + k] = Digit(0)
        /\ \A k \in 1 .. n : /\ out[blanks + signs + zeros + k] = HexDigit(Left(mag, 10)[n - k] % 10)
                             /\ out[blanks + signs + zeros + k] \in 48 .. 57

\* One sequence behind the other.
Joined(s, a, d) ==
    /\ s \in Seq(Nat) /\ Len(s) = Len(a) + Len(d)
    /\ \A k \in 1 .. Len(a) : s[k] = a[k]
    /\ \A k \in 1 .. Len(d) : s[Len(a) + k] = d[k]

\* This is what \o makes.
LEMMA ConcatJoins ==
    ASSUME NEW a \in Seq(Nat), NEW d \in Seq(Nat)
    PROVE  Joined(a \o d, a, d)
<1> DEFINE s == a \o d
<1>1. /\ s \in Seq(Nat) /\ Len(s) = Len(a) + Len(d)
      /\ \A k \in 1 .. Len(a) + Len(d) : s[k] = IF k <= Len(a) THEN a[k] ELSE d[k - Len(a)]
  BY ConcatProperties
<1> HIDE DEF s
<1>2. Len(a) \in Nat /\ Len(d) \in Nat
  OBVIOUS
<1>3. ASSUME NEW k \in 1 .. Len(a) PROVE s[k] = a[k]
  BY <1>1, <1>2
<1>4. ASSUME NEW k \in 1 .. Len(d) PROVE s[Len(a) + k] = d[k]
  <2>1. Len(a) + k \in 1 .. Len(a) + Len(d) /\ ~(Len(a) + k <= Len(a)) /\ Len(a) + k - Len(a) = k
    BY <1>2
  <2> QED
    BY <1>1, <2>1
<1> QED
  BY <1>1, <1>3, <1>4 DEF s, Joined

\* Four sequences, one behind the other.
Row4(s, a, b, c, d) ==
    /\ s \in Seq(Nat) /\ Len(s) = Len(a) + Len(b) + Len(c) + Len(d)
    /\ \A k \in 1 .. Len(a) : s[k] = a[k]
    /\ \A k \in 1 .. Len(b) : s[Len(a) + k] = b[k]
    /\ \A k \in 1 .. Len(c) : s[Len(a) + Len(b) + k] = c[k]
    /\ \A k \in 1 .. Len(d) : s[Len(a) + Len(b) + Len(c) + k] = d[k]

\* Three \o make them.
LEMMA ConcatRow ==
    ASSUME NEW a \in Seq(Nat), NEW b \in Seq(Nat), NEW c \in Seq(Nat), NEW d \in Seq(Nat)
    PROVE  Row4(a \o b \o c \o d, a, b, c, d)
<1> DEFINE r == a \o b
           t == r \o c
           s == t \o d
<1>1. PICK i \in Nat, j \in Nat, m \in Nat, n \in Nat : i = Len(a) /\ j = Len(b) /\ m = Len(c) /\ n = Len(d)
  OBVIOUS
<1>2. Joined(r, a, b)
  BY ConcatJoins
<1> HIDE DEF r
<1>3. r \in Seq(Nat)
  BY <1>2 DEF Joined
<1>4. Joined(t, r, c)
  BY <1>3, ConcatJoins
<1> HIDE DEF t
<1>5. t \in Seq(Nat)
  BY <1>4 DEF Joined
<1>6. Joined(s, t, d)
  BY <1>5, ConcatJoins
<1>7. a \o b \o c \o d = s
  BY DEF r, t
<1> HIDE DEF s
<1>8. Len(r) = i + j /\ \A k \in 1 .. i : r[k] = a[k]
  BY <1>1, <1>2 DEF Joined
<1>9. /\ Len(t) = i + j + m
      /\ \A k \in 1 .. i + j : t[k] = r[k]
      /\ \A k \in 1 .. m : t[i + j + k] = c[k]
  BY <1>1, <1>4, <1>8 DEF Joined
<1>10. /\ s \in Seq(Nat) /\ Len(s) = i + j + m + n
       /\ \A k \in 1 .. i + j + m : s[k] = t[k]
       /\ \A k \in 1 .. n : s[i + j + m + k] = d[k]
  BY <1>1, <1>6, <1>9 DEF Joined
<1>11. ASSUME NEW k \in 1 .. i PROVE s[k] = a[k]
  <2>1. k \in 1 .. i + j /\ k \in 1 .. i + j + m
    OBVIOUS
  <2> QED
    BY <1>8, <1>9, <1>10, <2>1
<1>12. ASSUME NEW k \in 1 .. j PROVE s[i + k] = b[k]
  <2>1. i + k \in 1 .. i + j /\ i + k \in 1 .. i + j + m
    OBVIOUS
  <2>2. r[i + k] = b[k]
    BY <1>2, <1>1 DEF Joined
  <2> QED
    BY <1>9, <1>10, <2>1, <2>2
<1>13. ASSUME NEW k \in 1 .. m PROVE s[i + j + k] = c[k]
  <2>1. i + j + k \in 1 .. i + j + m
    OBVIOUS
  <2> QED
    BY <1>9, <1>10, <2>1
<1> QED
  BY <1>1, <1>7, <1>10, <1>11, <1>12, <1>13 DEF Row4

\* They are what is laid out, if these are what they hold.
LEMMA RowLaid ==
    ASSUME NEW mag \in Nat, mag < WORD, NEW i \in Nat, NEW j \in Nat, NEW m \in Nat,
           NEW a, NEW b, NEW c, NEW out, Row4(out, a, b, c, decimal(mag)),
           Len(a) = i, \A k \in 1 .. i : a[k] = SPACE,
           Len(b) = j, \A k \in 1 .. j : b[k] = MINUS,
           Len(c) = m, \A k \in 1 .. m : c[k] = Digit(0)
    PROVE  Laid(out, i, j, m, mag)
<1> DEFINE n == Digits(mag, 10)
           d == decimal(mag)
<1>1. n \in Nat
  <2>1. BITS \in Nat /\ n \in 1 .. BITS
    BY PrintkAssumption, DigitsAre
  <2> QED
    BY <2>1
<1>2. Len(d) = n /\ \A k \in 1 .. n : d[k] = HexDigit(Left(mag, 10)[n - k] % 10) /\ d[k] \in 48 .. 57
  BY DecimalIs
<1> HIDE DEF n, d
<1>3. Row4(out, a, b, c, d)
  BY DEF d
<1>4. out \in Seq(Nat) /\ Len(out) = i + j + m + n
  BY <1>2, <1>3 DEF Row4
<1>5. ASSUME NEW k \in 1 .. i PROVE out[k] = SPACE
  BY <1>3 DEF Row4
<1>6. ASSUME NEW k \in 1 .. j PROVE out[i + k] = MINUS
  BY <1>3 DEF Row4
<1>7. ASSUME NEW k \in 1 .. m PROVE out[i + j + k] = Digit(0)
  BY <1>3 DEF Row4
<1>8. ASSUME NEW k \in 1 .. n
      PROVE  /\ out[i + j + m + k] = HexDigit(Left(mag, 10)[n - k] % 10)
             /\ out[i + j + m + k] \in 48 .. 57
  <2>1. out[i + j + m + k] = d[k]
    BY <1>2, <1>3 DEF Row4
  <2> QED
    BY <1>2, <2>1
<1> QED
  BY <1>4, <1>5, <1>6, <1>7, <1>8 DEF Laid, n

\* How much padding there is.
Pad(width, n) == IF width > n THEN width - n ELSE 0

\* A signed conversion.
LEMMA SignedLaid ==
    ASSUME NEW v \in Int, NEW mag \in Nat, mag = IF v < 0 THEN -v ELSE v, mag < WORD,
           NEW width \in Nat, NEW zero_pad \in BOOLEAN
    PROVE  LET neg == IF v < 0 THEN 1 ELSE 0
               pad == Pad(width, Digits(mag, 10) + neg)
           IN  Laid(signed(v, width, zero_pad), IF zero_pad THEN 0 ELSE pad, neg, IF zero_pad THEN pad ELSE 0, mag)
<1> DEFINE neg == IF v < 0 THEN 1 ELSE 0
           n == Digits(mag, 10)
           pad == Pad(width, n + neg)
           blanks == IF zero_pad THEN 0 ELSE pad
           zeros == IF zero_pad THEN pad ELSE 0
           a == kprint_repeat(SPACE, blanks)
           b == kprint_repeat(MINUS, neg)
           c == kprint_repeat(Digit(0), zeros)
           d == decimal(mag)
           out == signed(v, width, zero_pad)
<1>1. WORD \in Nat \ {0} /\ mag % WORD = mag
  <2>1. WORD \in Nat
    BY WordFits
  <2>2. WORD \in Nat \ {0} /\ mag \in 0 .. WORD - 1
    BY <2>1
  <2>3. (WORD * 0 + mag) % WORD = mag
    BY <2>2, DivUnique
  <2>4. WORD * 0 + mag = mag
    BY <2>1
  <2> QED
    BY <2>2, <2>3, <2>4
<1>2. n \in Nat /\ neg \in 0 .. 1
  <2>1. BITS \in Nat /\ n \in 1 .. BITS
    BY PrintkAssumption, DigitsAre
  <2> QED
    BY <2>1
<1>3. /\ d \in Seq(Nat) /\ Len(d) = n
      /\ \A k \in 1 .. n : d[k] = HexDigit(Left(mag, 10)[n - k] % 10) /\ d[k] \in 48 .. 57
  BY DecimalIs
<1>4. out = a \o b \o c \o d
  <2>1. (IF v < 0 THEN -v ELSE v) % WORD = mag
    BY <1>1
  <2>2. Len(d) = n /\ d = decimal(mag)
    BY <1>3
  <2>3. (IF width > n + neg THEN width - n - neg ELSE 0) = pad
    BY <1>2 DEF Pad
  <2> HIDE DEF n, d
  <2> QED
    BY <2>1, <2>2, <2>3 DEF signed
<1> HIDE DEF n, d, out
<1>5. pad \in Nat
  BY <1>2 DEF Pad
<1> HIDE DEF pad
<1>6. blanks \in Nat /\ zeros \in Nat /\ neg \in Nat
  BY <1>2, <1>5
<1> HIDE DEF blanks, zeros, neg
<1>7. SPACE \in Nat /\ MINUS \in Nat /\ Digit(0) \in Nat
  BY DEF SPACE, MINUS, Digit
<1>8. /\ a \in Seq(Nat) /\ Len(a) = blanks /\ \A k \in 1 .. blanks : a[k] = SPACE
      /\ b \in Seq(Nat) /\ Len(b) = neg /\ \A k \in 1 .. neg : b[k] = MINUS
      /\ c \in Seq(Nat) /\ Len(c) = zeros /\ \A k \in 1 .. zeros : c[k] = Digit(0)
  BY <1>6, <1>7, RepeatIs
<1> HIDE DEF a, b, c
<1>9. Row4(out, a, b, c, decimal(mag))
  <2>1. d \in Seq(Nat)
    BY <1>3
  <2> QED
    BY <1>4, <1>8, <2>1, ConcatRow DEF d
<1>10. Laid(out, blanks, neg, zeros, mag)
  BY <1>6, <1>8, <1>9, RowLaid
<1> QED
  BY <1>10 DEF out, blanks, neg, zeros, pad, n

\* An unsigned one.
LEMMA UnsignedLaid ==
    ASSUME NEW v \in Int, NEW mag \in Nat, mag = v % WORD, mag < WORD,
           NEW width \in Nat, NEW zero_pad \in BOOLEAN
    PROVE  LET pad == Pad(width, Digits(mag, 10))
           IN  Laid(unsigned(v, width, zero_pad), IF zero_pad THEN 0 ELSE pad, 0, IF zero_pad THEN pad ELSE 0, mag)
<1> DEFINE n == Digits(mag, 10)
           pad == Pad(width, n)
           ch == IF zero_pad THEN Digit(0) ELSE SPACE
           a == kprint_repeat(ch, pad)
           d == decimal(mag)
           out == unsigned(v, width, zero_pad)
<1>1. n \in Nat
  <2>1. BITS \in Nat /\ n \in 1 .. BITS
    BY PrintkAssumption, DigitsAre
  <2> QED
    BY <2>1
<1>2. /\ d \in Seq(Nat) /\ Len(d) = n
      /\ \A k \in 1 .. n : d[k] = HexDigit(Left(mag, 10)[n - k] % 10) /\ d[k] \in 48 .. 57
  BY DecimalIs
<1>3. out = a \o d
  <2>1. Len(d) = n /\ d = decimal(mag)
    BY <1>2
  <2>2. (IF width > n THEN width - n ELSE 0) = pad
    BY DEF Pad
  <2> HIDE DEF n, d
  <2> QED
    BY <2>1, <2>2 DEF unsigned
<1> HIDE DEF n, d, out
<1>4. pad \in Nat /\ ch \in Nat
  BY <1>1 DEF Pad, Digit, SPACE
<1> HIDE DEF pad
<1>5. a \in Seq(Nat) /\ Len(a) = pad /\ \A k \in 1 .. pad : a[k] = ch
  <2> HIDE DEF ch
  <2> QED
    BY <1>4, RepeatIs
<1> HIDE DEF a
<1>6. Row4(out, <<>>, <<>>, a, decimal(mag)) /\ Row4(out, a, <<>>, <<>>, decimal(mag))
  <2>1. d \in Seq(Nat) /\ <<>> \in Seq(Nat)
    BY <1>2
  <2>2. <<>> \o <<>> \o a \o d = a \o d /\ a \o <<>> \o <<>> \o d = a \o d
    <3>1. <<>> \o <<>> = <<>> /\ <<>> \o a = a /\ a \o <<>> = a
      BY <1>5, <2>1, ConcatEmptySeq
    <3> QED
      BY <3>1
  <2>3. Row4(<<>> \o <<>> \o a \o d, <<>>, <<>>, a, d) /\ Row4(a \o <<>> \o <<>> \o d, a, <<>>, <<>>, d)
    BY <1>5, <2>1, ConcatRow
  <2> QED
    BY <1>3, <2>2, <2>3 DEF d
<1>7. Len(<<>>) = 0
  OBVIOUS
<1>8. CASE zero_pad
  <2>1. ch = Digit(0)
    BY <1>8
  <2>2. Laid(out, 0, 0, pad, mag)
    BY <1>4, <1>5, <1>6, <1>7, <2>1, RowLaid
  <2> QED
    BY <1>8, <2>2 DEF out, pad, n
<1>9. CASE ~zero_pad
  <2>1. ch = SPACE
    BY <1>9
  <2>2. Laid(out, pad, 0, 0, mag)
    BY <1>4, <1>5, <1>6, <1>7, <2>1, RowLaid
  <2> QED
    BY <1>9, <2>2 DEF out, pad, n
<1> QED
  BY <1>8, <1>9
\* A word is twice half a word.
LEMMA WordIs == WORD \in Nat \ {0} /\ WORD \div 2 \in Nat \ {0} /\ WORD = 2 * (WORD \div 2)
<1> DEFINE W == Powers(2)
           T == {k \in 0 .. BITS : W[k] # 0}
<1>1. BITS \in Nat \ {0}
  BY PrintkAssumption
<1>2. W \in [0 .. BITS -> Nat] /\ W[0] = 1 /\ \A k \in 1 .. BITS : W[k] = 2 * W[k - 1]
  BY PowersAre
<1> HIDE DEF W
<1>3. 0 \in T
  BY <1>1, <1>2
<1>4. ASSUME NEW k \in 1 .. BITS, k - 1 \in T PROVE k \in T
  <2>1. k \in 0 .. BITS /\ k - 1 \in 0 .. BITS
    BY <1>1
  <2>2. W[k - 1] \in Nat /\ W[k - 1] # 0
    BY <1>2, <1>4, <2>1
  <2> QED
    BY <1>2, <2>1, <2>2
<1>5. \A k \in 0 .. BITS : k \in T
  <2> HIDE DEF T
  <2> QED
    BY <1>1, <1>3, <1>4, SegmentInduction
<1>6. PICK h \in Nat \ {0} : h = W[BITS - 1]
  <2>1. BITS - 1 \in T /\ BITS - 1 \in 0 .. BITS
    <3>1. BITS - 1 \in 0 .. BITS
      BY <1>1
    <3> HIDE DEF T
    <3> QED
      BY <1>5, <3>1
  <2> QED
    BY <1>2, <2>1
<1>7. WORD = 2 * h + 0
  <2>1. BITS \in 1 .. BITS
    BY <1>1
  <2> QED
    BY <1>2, <1>6, <2>1 DEF W, WORD
<1>8. WORD \div 2 = h
  <2>1. (2 * h + 0) \div 2 = h
    OBVIOUS
  <2> QED
    BY <1>7, <2>1
<1> QED
  BY <1>7, <1>8

\* An int lies within half a word on both sides of zero.
LEMMA IntIs ==
    ASSUME NEW v \in Int
    PROVE  /\ AsInt(v) \in Int /\ v % WORD \in Nat /\ v % WORD < WORD
           /\ (IF AsInt(v) < 0 THEN -AsInt(v) ELSE AsInt(v)) \in Nat
           /\ (IF AsInt(v) < 0 THEN -AsInt(v) ELSE AsInt(v)) < WORD
<1> DEFINE h == WORD \div 2
           r == (v + h) % WORD
<1>1. WORD \in Nat \ {0} /\ h \in Nat \ {0} /\ WORD = 2 * h
  BY WordIs
<1> HIDE DEF h
<1>2. ASSUME NEW x \in Int, NEW w \in Nat \ {0} PROVE x % w \in 0 .. w - 1
  OBVIOUS
<1>3. r \in 0 .. WORD - 1 /\ v % WORD \in 0 .. WORD - 1
  <2>1. v + h \in Int
    BY <1>1
  <2> QED
    BY <1>1, <1>2, <2>1
<1>4. AsInt(v) = r - h
  BY DEF AsInt, h
<1> HIDE DEF r
<1> QED
  BY <1>1, <1>3, <1>4

\* What a reader finds in what is laid out.
Found(out, i, j, m, mag) ==
    /\ Len(out) = i + j + m + Minimal(mag, 10)
    /\ ValueOf(out, 10) = mag
    /\ Cardinality({k \in DOMAIN out : out[k] = SPACE}) = i
    /\ \A k \in 1 .. i : out[k] = SPACE
    /\ Contains(out, MINUS) <=> j = 1
    /\ j = 1 => out[i + 1] = MINUS

\* What is laid out reads as the number, in as few digits as it needs, and the spaces and
\* the sign are where they should be.
LEMMA LaidExact ==
    ASSUME NEW mag \in Nat, mag < WORD, NEW i \in Nat, NEW j \in 0 .. 1, NEW m \in Nat,
           NEW out, Laid(out, i, j, m, mag)
    PROVE  Found(out, i, j, m, mag)
<1> DEFINE n == Digits(mag, 10)
           L == Left(mag, 10)
<1>1. BITS \in Nat /\ n \in 1 .. BITS /\ n \in Nat /\ L[n] = 0 /\ Minimal(mag, 10) = n
  <2>1. BITS \in Nat
    BY PrintkAssumption
  <2>2. n \in 1 .. BITS /\ L[n] = 0 /\ Minimal(mag, 10) = n
    BY DigitsAre
  <2> QED
    BY <2>1, <2>2
<1> HIDE DEF n, L
<1>2. /\ out \in Seq(Nat) /\ Len(out) = i + j + m + n
      /\ \A k \in 1 .. i : out[k] = SPACE
      /\ \A k \in 1 .. j : out[i + k] = MINUS
      /\ \A k \in 1 .. m : out[i + j + k] = Digit(0)
      /\ \A k \in 1 .. n : /\ out[i + j + m + k] = HexDigit(L[n - k] % 10)
                           /\ out[i + j + m + k] \in 48 .. 57
  BY DEF Laid, n, L
<1>3. PICK p \in Nat : p = i + j + m
  OBVIOUS
<1>4. ASSUME NEW k \in 1 .. p + n, k > i
      PROVE  \/ k <= i + j /\ out[k] = MINUS
             \/ k > i + j /\ out[k] \in 48 .. 57 /\ (k <= p => out[k] = Digit(0))
  <2>1. CASE k <= i + j
    <3>1. k - i \in 1 .. j /\ i + (k - i) = k
      BY <1>4, <2>1
    <3> QED
      BY <1>2, <2>1, <3>1
  <2>2. CASE k > i + j /\ k <= p
    <3>1. k - (i + j) \in 1 .. m /\ i + j + (k - (i + j)) = k
      BY <1>3, <1>4, <2>2
    <3>2. out[k] = Digit(0)
      BY <1>2, <3>1
    <3> QED
      BY <2>2, <3>2 DEF Digit
  <2>3. CASE k > p
    <3>1. k - p \in 1 .. n /\ i + j + m + (k - p) = k
      BY <1>1, <1>3, <1>4, <2>3
    <3>2. out[k] \in 48 .. 57
      BY <1>2, <3>1
    <3>3. k > i + j
      BY <1>3, <2>3
    <3> QED
      BY <1>3, <2>3, <3>2, <3>3
  <2> QED
    BY <1>3, <2>1, <2>2, <2>3
<1>5. DOMAIN out = 1 .. p + n /\ Len(out) = p + n
  BY <1>2, <1>3
<1>6. ValueOf(out, 10) = mag
  <2>1. \A k \in 1 .. p : out[k] \in {SPACE, MINUS, Digit(0)}
    <3> SUFFICES ASSUME NEW k \in 1 .. p PROVE out[k] \in {SPACE, MINUS, Digit(0)}
      OBVIOUS
    <3>1. CASE k <= i
      BY <1>2, <3>1
    <3>2. CASE k > i
      <4>1. k \in 1 .. p + n
        BY <1>1
      <4> QED
        BY <1>4, <3>2, <4>1
    <3> QED
      BY <3>1, <3>2
  <2>2. \A k \in 1 .. n : out[p + k] = HexDigit(Left(mag, 10)[n - k] % 10)
    BY <1>2, <1>3 DEF L
  <2>3. n \in 0 .. BITS /\ Left(mag, 10)[n] = 0
    BY <1>1 DEF L
  <2> QED
    BY <1>2, <1>5, <2>1, <2>2, <2>3, NumberRead
<1>7. {k \in DOMAIN out : out[k] = SPACE} = 1 .. i
  <2>1. \A k \in 1 .. i : k \in 1 .. p + n /\ out[k] = SPACE
    BY <1>1, <1>2, <1>3
  <2>2. ASSUME NEW k \in 1 .. p + n, out[k] = SPACE PROVE k \in 1 .. i
    <3>1. CASE k > i
      BY <1>4, <2>2, <3>1 DEF SPACE, MINUS
    <3>2. CASE ~(k > i)
      BY <3>2
    <3> QED
      BY <3>1, <3>2
  <2> QED
    BY <1>5, <2>1, <2>2
<1>8. Cardinality(1 .. i) = i
  <2>1. Cardinality(1 .. i) = IF 1 > i THEN 0 ELSE i - 1 + 1
    BY FS_Interval
  <2> QED
    BY <2>1
<1>9. j = 1 => out[i + 1] = MINUS
  BY <1>2
<1>10. Contains(out, MINUS) <=> j = 1
  <2>1. ASSUME j = 1 PROVE Contains(out, MINUS)
    <3>1. i + 1 \in 1 .. Len(out)
      BY <1>1, <1>3, <1>5, <2>1
    <3> QED
      BY <1>9, <2>1, <3>1 DEF Contains
  <2>2. ASSUME Contains(out, MINUS) PROVE j = 1
    <3>1. PICK k \in 1 .. p + n : out[k] = MINUS
      BY <1>5, <2>2 DEF Contains
    <3>2. k > i
      <4>1. ~(k \in 1 .. i)
        BY <1>2, <3>1 DEF SPACE, MINUS
      <4> QED
        BY <4>1
    <3>3. k <= i + j
      BY <1>4, <3>1, <3>2 DEF MINUS
    <3> QED
      BY <3>2, <3>3
  <2> QED
    BY <2>1, <2>2
<1> QED
  BY <1>1, <1>2, <1>6, <1>7, <1>8, <1>9, <1>10 DEF Found

\* A hexadecimal number reads as what it is.
LEMMA HexRead ==
    ASSUME NEW v \in Nat, v < WORD, NEW width \in Nat, 4 * width <= BITS, NEW zero_pad \in BOOLEAN, NEW wraps
    PROVE  /\ ValueOf(kprint_u64_hex(v, width, zero_pad, wraps), 16) = v
           /\ width = 0 => Len(kprint_u64_hex(v, width, zero_pad, wraps)) = Minimal(v, 16)
<1> DEFINE n == Digits(v, 16)
           L == Left(v, 16)
           w == IF width < n THEN n ELSE width
           ch == IF zero_pad THEN Digit(0) ELSE SPACE
           a == kprint_repeat(ch, w - n)
           d == [k \in 1 .. w |-> HexDigit(Nibble(v, w - k, wraps))]
           out == kprint_u64_hex(v, width, zero_pad, wraps)
<1>1. BITS \in Nat /\ n \in 1 .. BITS /\ L[n] = 0 /\ Minimal(v, 16) = n /\ 4 * n <= BITS
  <2>1. BITS \in Nat
    BY PrintkAssumption
  <2>2. n \in 1 .. BITS /\ L[n] = 0 /\ Minimal(v, 16) = n
    BY DigitsAre
  <2>3. 4 * n <= BITS
    BY NibblesFit
  <2> QED
    BY <2>1, <2>2, <2>3
<1>2. L \in [0 .. BITS -> Nat]
  BY LeftIs
<1>3. out = a \o d
  BY DEF kprint_u64_hex, Nibbles
<1> HIDE DEF n, L, out
<1>4. w \in n .. BITS /\ w \in Nat /\ w - n \in Nat /\ 4 * w <= BITS
  BY <1>1
<1>5. width = 0 => w = n
  BY <1>1
<1> HIDE DEF w
<1>6. L[w] = 0
  <2>1. n \in 0 .. BITS
    BY <1>1
  <2> QED
    BY <1>1, <1>4, <2>1, NothingStays DEF L
<1>7. ASSUME NEW k \in 1 .. w
      PROVE  /\ HexDigit(Nibble(v, w - k, wraps)) = HexDigit(L[w - k] % 16)
             /\ HexDigit(Nibble(v, w - k, wraps)) \in Nat
  <2>1. w - k \in 0 .. BITS /\ 4 * (w - k) < BITS
    BY <1>1, <1>4
  <2>2. Nibble(v, w - k, wraps) = L[w - k] % 16
    BY <2>1 DEF Nibble, L
  <2>3. L[w - k] \in Nat
    BY <1>2, <2>1
  <2>4. 16 \in Nat \ {0}
    OBVIOUS
  <2>5. L[w - k] % 16 \in 0 .. 16 - 1
    BY ONLY <2>3, <2>4, DivMod
  <2> QED
    BY <2>2, <2>5 DEF HexDigit, Digit
<1>8. d \in Seq(Nat) /\ Len(d) = w /\ \A k \in 1 .. w : d[k] = HexDigit(L[w - k] % 16)
  BY <1>4, <1>7
<1> HIDE DEF d
<1>9. a \in Seq(Nat) /\ Len(a) = w - n /\ \A k \in 1 .. w - n : a[k] = ch
  <2>1. ch \in Nat
    BY DEF Digit, SPACE
  <2> HIDE DEF ch
  <2> QED
    BY <1>4, <2>1, RepeatIs
<1> HIDE DEF a
<1>10. Joined(out, a, d)
  BY <1>3, <1>8, <1>9, ConcatJoins
<1>11. PICK p \in Nat : p = w - n
  BY <1>4
<1>12. /\ out \in Seq(Nat) /\ Len(out) = p + w
       /\ \A k \in 1 .. p : out[k] = a[k]
       /\ \A k \in 1 .. w : out[p + k] = d[k]
  BY <1>8, <1>9, <1>10, <1>11 DEF Joined
<1>13. ValueOf(out, 16) = v
  <2>1. \A k \in 1 .. p : out[k] \in {SPACE, MINUS, Digit(0)}
    BY <1>9, <1>11, <1>12
  <2>2. \A k \in 1 .. w : out[p + k] = HexDigit(Left(v, 16)[w - k] % 16)
    BY <1>8, <1>12 DEF L
  <2>3. w \in 0 .. BITS /\ Left(v, 16)[w] = 0
    BY <1>1, <1>4, <1>6 DEF L
  <2> QED
    BY <1>12, <2>1, <2>2, <2>3, NumberRead
<1>14. width = 0 => Len(out) = n
  BY <1>1, <1>4, <1>5, <1>11, <1>12
<1> QED
  BY <1>1, <1>13, <1>14 DEF out

\* What printk does with a conversion of a number.
LEMMA PrintkConverts ==
    ASSUME NEW fmt, Len(fmt) \in Nat, \A i \in 1 .. Len(fmt) : fmt[i] \in Nat, NEW v, NEW wraps,
           printk(fmt, v, wraps).sp \in {Letter.d, Letter.i, Letter.u, Letter.x}
    PROVE  LET r == printk(fmt, v, wraps)
           IN  /\ r.width \in Nat /\ r.zero_pad \in BOOLEAN
               /\ r.out = conversion(r.sp, len_l(fmt, parse_width(fmt).next), r.width, r.zero_pad, v, wraps)
<1>1. At(fmt, 1) # PERCENT
  <2> SUFFICES ASSUME At(fmt, 1) = PERCENT PROVE FALSE
    OBVIOUS
  <2>1. printk(fmt, v, wraps).sp = PERCENT
    BY DEF printk
  <2> QED
    BY <2>1 DEF Letter, PERCENT
<1> DEFINE p == parse_width(fmt)
           i == p.next + len_l(fmt, p.next)
<1>2. printk(fmt, v, wraps) =
        [out |-> conversion(At(fmt, i), len_l(fmt, p.next), p.width, p.zero_pad, v, wraps),
         next |-> Behind(fmt, i), sp |-> At(fmt, i), width |-> p.width, zero_pad |-> p.zero_pad]
  BY <1>1 DEF printk
<1>3. p.width \in Nat
  BY WidthIs
<1>4. p.zero_pad \in BOOLEAN
  BY DEF parse_width
<1> HIDE DEF p, i
<1> QED
  BY <1>2, <1>3, <1>4 DEF p

\* What the switch does with the letters of numbers.
LEMMA ConversionIs ==
    ASSUME NEW ll, NEW width, NEW zero_pad, NEW v, NEW wraps
    PROVE  /\ \A sp \in {Letter.d, Letter.i} :
                conversion(sp, ll, width, zero_pad, v, wraps)
                  = signed(IF ll = 2 THEN v ELSE AsInt(v), width, zero_pad)
           /\ conversion(Letter.u, ll, width, zero_pad, v, wraps) = unsigned(v, width, zero_pad)
           /\ conversion(Letter.x, ll, width, zero_pad, v, wraps)
                = kprint_u64_hex(v % WORD, width, zero_pad, wraps)
<1>1. Letter.c = 99 /\ Letter.d = 100 /\ Letter.i = 105 /\ Letter.u = 117 /\ Letter.x = 120 /\ Letter.p = 112
  BY DEF Letter
<1> QED
  BY <1>1 DEF conversion

\* So a conversion of a number has a format of characters, a number, and a width.
LEMMA AtWork ==
    ASSUME PrintInv, print # NoPrint, Result.sp \in {Letter.d, Letter.i, Letter.u, Letter.x}
    PROVE  /\ Arg \in Int /\ Result.width \in Nat /\ Result.zero_pad \in BOOLEAN
           /\ \E wraps \in BOOLEAN :
                Result.out = conversion(Result.sp, len_l(Fmt, parse_width(Fmt).next), Result.width,
                                        Result.zero_pad, Arg, wraps)
<1>1. PICK fmt \in Formats, v \in Args, wraps \in BOOLEAN : print = <<fmt, v, printk(fmt, v, wraps)>>
  BY DEF PrintInv
<1>2. Fmt = fmt /\ Arg = v /\ Result = printk(fmt, v, wraps)
  BY <1>1 DEF Fmt, Arg, Result
<1>3. Len(fmt) \in Nat /\ \A i \in 1 .. Len(fmt) : fmt[i] \in Nat
  <2> DEFINE Chars == 1 .. 255
  <2>1. fmt \in Seq(Chars) /\ \A c \in Chars : c \in Nat
    BY PrintkAssumption
  <2> HIDE DEF Chars
  <2> QED
    BY <2>1
<1>4. v \in Int
  BY PrintkAssumption
<1> QED
  BY <1>2, <1>3, <1>4, PrintkConverts

\* A decimal conversion puts out the number in as few digits as it needs, with its sign
\* directly in front, padded to the width and not beyond: for words and widths of any size.
THEOREM DecimalsAreExact == PrintkSpec => []DecimalExact
<1>1. PrintInv => DecimalExact
  <2> DEFINE isSigned == Result.sp # Letter.u
             v     == IF isSigned THEN AsInt(Arg) ELSE Arg % WORD
             mag   == IF v < 0 THEN -v ELSE v
             neg   == IF v < 0 THEN 1 ELSE 0
             n     == Digits(mag, 10)
             pad   == Pad(Result.width, n + neg)
             i     == IF Result.zero_pad THEN 0 ELSE pad
             m     == IF Result.zero_pad THEN pad ELSE 0
             out   == Result.out
             blank == Cardinality({k \in DOMAIN out : out[k] = SPACE})
             ll    == len_l(Fmt, parse_width(Fmt).next)
  <2> SUFFICES ASSUME PrintInv, print # NoPrint, Result.sp \in {Letter.d, Letter.i, Letter.u},
                      ll = 2 => AsInt(Arg) = Arg
               PROVE  LET least == Minimal(mag, 10) + neg
                      IN  /\ Len(out) = (IF least < Result.width THEN Result.width ELSE least)
                          /\ ValueOf(out, 10) = mag
                          /\ blank = (IF Result.zero_pad THEN 0 ELSE Len(out) - least)
                          /\ \A k \in 1 .. blank : out[k] = SPACE
                          /\ v < 0 <=> Contains(out, MINUS)
                          /\ v < 0 => out[blank + 1] = MINUS
    BY DEF DecimalExact
  <2>1. PICK wraps \in BOOLEAN :
          /\ Arg \in Int /\ Result.width \in Nat /\ Result.zero_pad \in BOOLEAN
          /\ out = conversion(Result.sp, ll, Result.width, Result.zero_pad, Arg, wraps)
    BY AtWork
  <2>2. v \in Int /\ mag \in Nat /\ mag < WORD
    <3>1. CASE isSigned
      BY <2>1, <3>1, IntIs
    <3>2. CASE ~isSigned
      BY <2>1, <3>2, IntIs
    <3> QED
      BY <3>1, <3>2
  <2>3. BITS \in Nat /\ n \in 1 .. BITS /\ Minimal(mag, 10) = n
    <3>1. BITS \in Nat
      BY PrintkAssumption
    <3> HIDE DEF mag
    <3> QED
      BY <2>2, <3>1, DigitsAre
  <2>4. Laid(out, i, neg, m, mag)
    <3>1. CASE isSigned
      <4>1. v = AsInt(Arg) /\ (IF ll = 2 THEN Arg ELSE AsInt(Arg)) = v
        BY <3>1
      <4>2. out = signed(v, Result.width, Result.zero_pad)
        <5>1. Result.sp \in {Letter.d, Letter.i}
          BY <3>1
        <5> HIDE DEF v, ll, out
        <5> QED
          BY <2>1, <4>1, <5>1, ConversionIs
      <4> HIDE DEF v, out
      <4>3. Laid(signed(v, Result.width, Result.zero_pad), i, neg, m, mag)
        BY <2>1, <2>2, SignedLaid
      <4> QED
        BY <4>2, <4>3
    <3>2. CASE ~isSigned
      <4>1. v = Arg % WORD /\ v \in Nat
        BY <2>1, <3>2, IntIs
      <4>2. out = unsigned(Arg, Result.width, Result.zero_pad)
        <5>1. Result.sp = Letter.u
          BY <3>2
        <5> HIDE DEF ll, out
        <5> QED
          BY <2>1, <5>1, ConversionIs
      <4> HIDE DEF v, out
      <4>3. mag = v /\ neg = 0
        BY <4>1
      <4>4. pad = Pad(Result.width, Digits(v, 10))
        BY <2>3, <4>3
      <4> HIDE DEF mag, neg, n, pad
      <4>5. Laid(unsigned(Arg, Result.width, Result.zero_pad), i, 0, m, v)
        BY <2>1, <2>2, <4>1, <4>3, <4>4, UnsignedLaid
      <4> QED
        BY <4>2, <4>3, <4>5
    <3> QED
      BY <3>1, <3>2
  <2>5. neg \in 0 .. 1 /\ (v < 0 <=> neg = 1)
    OBVIOUS
  <2> HIDE DEF v, mag, neg, n, out, ll
  <2>6. pad \in Nat /\ i \in Nat /\ m \in Nat /\ i + m = pad
    BY <2>1, <2>3, <2>5 DEF Pad
  <2>7. pad = IF Result.width > n + neg THEN Result.width - (n + neg) ELSE 0
    BY DEF Pad
  <2>8. i = IF Result.zero_pad THEN 0 ELSE pad
    OBVIOUS
  <2> HIDE DEF pad, i, m
  <2>9. /\ Len(out) = i + neg + m + n
        /\ ValueOf(out, 10) = mag
        /\ blank = i
        /\ \A k \in 1 .. i : out[k] = SPACE
        /\ Contains(out, MINUS) <=> neg = 1
        /\ neg = 1 => out[i + 1] = MINUS
    <3>1. Found(out, i, neg, m, mag)
      BY <2>2, <2>4, <2>5, <2>6, LaidExact
    <3> QED
      BY <2>3, <3>1 DEF Found
  <2>10. Len(out) = pad + (n + neg)
    BY <2>3, <2>5, <2>6, <2>9
  <2>11. Len(out) = IF n + neg < Result.width THEN Result.width ELSE n + neg
    BY <2>1, <2>3, <2>5, <2>7, <2>10
  <2>12. i = IF Result.zero_pad THEN 0 ELSE Len(out) - (n + neg)
    BY <2>3, <2>5, <2>6, <2>8, <2>10
  <2>13. v < 0 <=> Contains(out, MINUS)
    BY <2>5, <2>9
  <2> HIDE DEF blank
  <2> QED
    BY <2>3, <2>5, <2>9, <2>11, <2>12, <2>13
<1> QED
  BY <1>1, PrintInvariant, PTL

\* A hexadecimal conversion puts out digits that read as the number, as long as the word has
\* that many digits; without a width, no digit too many.
THEOREM HexIsReadable == PrintkSpec => []HexReadable
<1>1. PrintInv => HexReadable
  <2> DEFINE ll == len_l(Fmt, parse_width(Fmt).next)
  <2> SUFFICES ASSUME PrintInv, print # NoPrint, Result.sp = Letter.x, 4 * Result.width <= BITS
               PROVE  /\ ValueOf(Result.out, 16) = Arg % WORD
                      /\ Result.width = 0 => Len(Result.out) = Minimal(Arg % WORD, 16)
    BY DEF HexReadable
  <2>1. PICK wraps \in BOOLEAN :
          /\ Arg \in Int /\ Result.width \in Nat /\ Result.zero_pad \in BOOLEAN
          /\ Result.out = conversion(Result.sp, ll, Result.width, Result.zero_pad, Arg, wraps)
    BY AtWork
  <2>2. Arg % WORD \in Nat /\ Arg % WORD < WORD
    BY <2>1, IntIs
  <2>3. Result.out = kprint_u64_hex(Arg % WORD, Result.width, Result.zero_pad, wraps)
    <3> HIDE DEF ll
    <3> QED
      BY <2>1, ConversionIs
  <2> QED
    BY <2>1, <2>2, <2>3, HexRead
<1> QED
  BY <1>1, PrintInvariant, PTL
=============================================================================
