----------------------------- MODULE Induction -----------------------------
(***************************************************************************)
(* Induction over an initial segment of the naturals, for the functions    *)
(* that are defined by recursion along a path, a list or a table.  Each    *)
(* fact is about a set, so that it can be cited with any property: the     *)
(* least counterexample does the work.  And the arithmetic of a position   *)
(* that is given by two digits, in tables and in blocks.                   *)
(***************************************************************************)
EXTENDS Integers, TLAPS, WellFoundedInduction

\* Every set of naturals that is not empty has a least element.
LEMMA LeastExists ==
    ASSUME NEW T \in SUBSET Nat, T # {}
    PROVE  \E m \in T : \A k \in T : m <= k
<1> DEFINE R == OpToRel(<, Nat)
<1>1. PICK m \in T : \A k \in T : ~(<<k, m>> \in R)
  BY NatLessThanWellFounded, WFMin
<1>2. \A k \in T : ~(k < m)
  BY <1>1 DEF OpToRel
<1>3. \A k \in T : k \in Nat /\ m \in Nat
  OBVIOUS
<1> QED
  BY <1>2, <1>3

\* What holds at 0 and goes from k - 1 to k holds up to n.
LEMMA SegmentInduction ==
    ASSUME NEW n \in Nat, NEW T,
           0 \in T, \A k \in 1 .. n : k - 1 \in T => k \in T
    PROVE  \A k \in 0 .. n : k \in T
<1> DEFINE Bad == {k \in 0 .. n : k \notin T}
<1>1. SUFFICES ASSUME Bad # {} PROVE FALSE
  OBVIOUS
<1>2. Bad \in SUBSET Nat
  OBVIOUS
<1>3. PICK m \in Bad : \A k \in Bad : m <= k
  BY <1>1, <1>2, LeastExists
<1>4. m \in 1 .. n /\ m \notin T
  BY <1>3
<1>5. m - 1 \in 0 .. n /\ ~(m <= m - 1)
  BY <1>4
<1>6. m - 1 \in T
  BY <1>3, <1>5
<1> QED
  BY <1>4, <1>6

\* Two functions that agree at 0, and at k whenever they do at k - 1, agree up to n.
LEMMA SegmentEquality ==
    ASSUME NEW n \in Nat, NEW f, NEW g,
           f[0] = g[0], \A k \in 1 .. n : f[k - 1] = g[k - 1] => f[k] = g[k]
    PROVE  f[n] = g[n]
<1> DEFINE T == {k \in 0 .. n : f[k] = g[k]}
<1>1. 0 \in T
  OBVIOUS
<1>2. \A k \in 1 .. n : k - 1 \in T => k \in T
  OBVIOUS
<1> HIDE DEF T
<1>3. \A k \in 0 .. n : k \in T
  BY <1>1, <1>2, SegmentInduction
<1>4. n \in T
  BY <1>3
<1> QED
  BY <1>4 DEF T

\* Step k of a recursion over the elements of Y, and the function that starts at a and
\* takes these steps up to n.
StepsOn(Y) == [Nat -> [Y -> Y]]

Unfolds(f, Y, a, G, n) ==
    /\ f \in [0 .. n -> Y]
    /\ f[0] = a
    /\ \A k \in 1 .. n : f[k] = G[k][f[k - 1]]

\* There is such a function.
LEMMA RecursionExists ==
    ASSUME NEW Y, NEW a \in Y, NEW G, G \in StepsOn(Y), NEW n \in Nat
    PROVE  \E f : Unfolds(f, Y, a, G, n)
<1> USE DEF StepsOn, Unfolds
<1> DEFINE T == {j \in Nat : \E h : Unfolds(h, Y, a, G, j)}
<1>1. 0 \in T
  <2> DEFINE h == [k \in 0 .. 0 |-> a]
  <2>1. 0 .. 0 = {0}
    OBVIOUS
  <2>2. h \in [0 .. 0 -> Y]
    OBVIOUS
  <2>3. h[0] = a /\ \A k \in 1 .. 0 : h[k] = G[k][h[k - 1]]
    BY <2>1
  <2> QED
    BY <2>2, <2>3
<1>2. ASSUME NEW m \in 1 .. n, m - 1 \in T PROVE m \in T
  <2>1. PICK f : Unfolds(f, Y, a, G, m - 1)
    BY <1>2
  <2> DEFINE g == [k \in 0 .. m |-> IF k < m THEN f[k] ELSE G[m][f[m - 1]]]
  <2>2. m \in Nat /\ m - 1 \in Nat /\ m - 1 \in 0 .. m - 1
    OBVIOUS
  <2>3. G[m][f[m - 1]] \in Y
    <3>1. G[m] \in [Y -> Y]
      BY <2>2
    <3>2. f \in [0 .. m - 1 -> Y]
      BY <2>1
    <3>3. f[m - 1] \in Y
      BY <2>2, <3>2
    <3> QED
      BY <3>1, <3>3
  <2>4. \A k \in 0 .. m : k < m => k \in 0 .. m - 1
    OBVIOUS
  <2>5. g \in [0 .. m -> Y]
    BY <2>1, <2>3, <2>4
  <2>6. g[0] = a
    BY <2>1
  <2>7. ASSUME NEW k \in 1 .. m PROVE g[k] = G[k][g[k - 1]]
    <3>1. k - 1 \in 0 .. m /\ k - 1 \in 0 .. m - 1
      OBVIOUS
    <3>2. g[k - 1] = f[k - 1]
      BY <3>1
    <3>3. CASE k = m
      BY <3>2, <3>3
    <3>4. CASE k # m
      <4>1. k \in 1 .. m - 1 /\ g[k] = f[k]
        BY <3>4
      <4> QED
        BY <4>1, <3>2, <2>1
    <3> QED
      BY <3>3, <3>4
  <2> HIDE DEF g
  <2> QED
    BY <2>2, <2>5, <2>6, <2>7
<1> HIDE DEF T
<1>3. \A k \in 0 .. n : k \in T
  BY <1>1, <1>2, SegmentInduction
<1>4. n \in T
  BY <1>3
<1> QED
  BY <1>4 DEF T

-----------------------------------------------------------------------------
(* Numbers                                                                  *)

\* Quotient and remainder.
LEMMA DivMod ==
    ASSUME NEW a \in Nat, NEW b \in Nat \ {0}
    PROVE  /\ a \div b \in Nat /\ a % b \in 0 .. b - 1
           /\ a = b * (a \div b) + (a % b)
OBVIOUS

\* A number below the square of b has a quotient below b.
LEMMA DivBound ==
    ASSUME NEW b \in Nat \ {0}, NEW a \in 0 .. b * b - 1
    PROVE  a \div b \in 0 .. b - 1
<1> DEFINE q == a \div b
<1>1. a \in Nat /\ q \in Nat /\ b * q <= a
  BY DivMod
<1> HIDE DEF q
<1>2. ASSUME q >= b PROVE FALSE
  <2>1. b * q >= b * b
    BY <1>1, <1>2
  <2> QED
    BY <1>1, <2>1
<1> QED
  BY <1>1, <1>2 DEF q

\* Quotient and remainder are the only such numbers.
LEMMA DivUnique ==
    ASSUME NEW b \in Nat \ {0}, NEW q \in Nat, NEW r \in 0 .. b - 1
    PROVE  (b * q + r) \div b = q /\ (b * q + r) % b = r
OBVIOUS
=============================================================================
