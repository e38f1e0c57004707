----------------------------- MODULE ListProofs -----------------------------
(***************************************************************************)
(* Proofs about List for any number of nodes and heads: the links always   *)
(* stand for sequences, which the functions of list.c change as ListSpec   *)
(* says, and a walk with callbacks keeps its place in one of them.         *)
(***************************************************************************)
EXTENDS ListSequences, Induction, FiniteSetTheorems, FunctionTheorems, SequenceTheorems

-----------------------------------------------------------------------------
(* The inductive invariant.                                                 *)

\* What stands at place k of the ring of h: the head, then the nodes of s, then the head again.
Cell(s, h, k) == IF k \in 1 .. Len(s) THEN s[k] ELSE h

\* The links n and p go around that ring in both directions.
Ring(n, p, h, s) ==
    \A k \in 0 .. Len(s) :
      /\ n[Cell(s, h, k)] = Cell(s, h, k + 1)
      /\ p[Cell(s, h, k + 1)] = Cell(s, h, k)

Distinct(s) == \A j, k \in 1 .. Len(s) : s[j] = s[k] => j = k

\* The sequences q hold each node at the place that w says, and only there.
Held(w, q) ==
    /\ w \in [Nodes -> Heads \union {NULL}]
    /\ q \in [Heads -> Seq(Nodes)]
    /\ \A h \in Heads : Distinct(q[h])
    /\ \A h \in Heads : \A k \in 1 .. Len(q[h]) : w[q[h][k]] = h
    /\ \A x \in Nodes : w[x] # NULL => \E k \in 1 .. Len(q[w[x]]) : q[w[x]][k] = x

\* Nodes in no list, and what lies at NULL, hold NULL.
Blank(n, p, w) ==
    /\ \A x \in Nodes : w[x] = NULL => n[x] = NULL /\ p[x] = NULL
    /\ n[NULL] = NULL /\ p[NULL] = NULL

\* The links n and p stand for the sequences q.
Represents(n, p, w, q) ==
    /\ n \in [Cells -> Cells] /\ p \in [Cells -> Cells]
    /\ Held(w, q)
    /\ \A h \in Heads : Ring(n, p, h, q[h])
    /\ Blank(n, p, w)

\* A walk stands at place j of the sequence s: it has met what it began with so far, and the
\* rest of that is what comes next.
OnTrack(wk, s, j) ==
    /\ wk.current = Cell(s, wk.head, j)
    /\ \A k \in 1 .. Len(wk.first) : k <= Len(wk.visited) => wk.visited[k] = wk.first[k]
    /\ \A k \in 1 .. Len(wk.first) :
         k > Len(wk.visited) =>
           /\ j + (k - Len(wk.visited)) - 1 <= Len(s)
           /\ s[j + (k - Len(wk.visited)) - 1] = wk.first[k]

Walks == [head : Heads \union {NULL}, current : Cells, first : Seq(Nodes), visited : Seq(Nodes)]

WalkInv ==
    /\ walk \in Walks
    /\ walk.head = NULL => walk = Idle
    /\ walk.head # NULL =>
         \E j \in 1 .. Len(Contents(walk.head)) + 1 : OnTrack(walk, Contents(walk.head), j)

Lists == [h \in Heads |-> Contents(h)]

ListIInv ==
    /\ Represents(next, prev, where, Lists)
    /\ WalkInv

-----------------------------------------------------------------------------
(* Assignments                                                              *)

\* An assignment: to an element of a function, and to a field of a cell.
Put(f, y, v) == [f EXCEPT ![y] = v]
SetNext(l, y, v) == [l EXCEPT !.next[y] = v]
SetPrev(l, y, v) == [l EXCEPT !.prev[y] = v]
Pair(n, p) == [next |-> n, prev |-> p]

\* What an assignment to one field leaves of both.
LEMMA Assignment ==
    ASSUME NEW n, NEW p, NEW y, NEW v
    PROVE  /\ Pair(n, p).next = n /\ Pair(n, p).prev = p
           /\ SetNext(Pair(n, p), y, v) = Pair(Put(n, y, v), p)
           /\ SetPrev(Pair(n, p), y, v) = Pair(n, Put(p, y, v))
BY DEF SetNext, SetPrev, Pair, Put

-----------------------------------------------------------------------------
(* Sequences, and the rings they make                                       *)

\* s with x behind its first k elements, and s without element k.
Inserted(s, k, x) ==
    [i \in 1 .. Len(s) + 1 |-> IF i <= k THEN s[i] ELSE IF i = k + 1 THEN x ELSE s[i - 1]]
Removed(s, k) == [i \in 1 .. Len(s) - 1 |-> IF i < k THEN s[i] ELSE s[i + 1]]

\* Heads are not nodes and neither is NULL.
LEMMA CellTypes ==
    /\ Heads \subseteq Cells /\ Nodes \subseteq Cells /\ NULL \in Cells
    /\ \A h \in Heads : h \notin Nodes /\ h # NULL
    /\ \A x \in Nodes : x \notin Heads /\ x # NULL
BY ListAssumption DEF Cells

\* The places of a ring: nodes between the head and the head.
LEMMA CellProps ==
    ASSUME NEW s \in Seq(Nodes), NEW h \in Heads
    PROVE  /\ Len(s) \in Nat
           /\ Cell(s, h, 0) = h
           /\ Cell(s, h, Len(s) + 1) = h
           /\ \A k \in 1 .. Len(s) : Cell(s, h, k) = s[k] /\ s[k] \in Nodes /\ s[k] # h
           /\ \A k \in Nat : Cell(s, h, k) \in Cells /\ Cell(s, h, k) # NULL
           /\ \A k \in Nat : Cell(s, h, k) = h <=> k \notin 1 .. Len(s)
BY CellTypes DEF Cell

\* Going around, no cell is met twice.
LEMMA CellsDistinct ==
    ASSUME NEW s \in Seq(Nodes), NEW h \in Heads, Distinct(s)
    PROVE  /\ \A j, k \in 0 .. Len(s) : Cell(s, h, j) = Cell(s, h, k) => j = k
           /\ \A j, k \in 1 .. Len(s) + 1 : Cell(s, h, j) = Cell(s, h, k) => j = k
BY CellTypes DEF Cell, Distinct

\* What Inserted is, and what its ring looks like.
LEMMA InsertedProps ==
    ASSUME NEW s \in Seq(Nodes), NEW h \in Heads, NEW k \in 0 .. Len(s), NEW x \in Nodes
    PROVE  /\ Inserted(s, k, x) \in Seq(Nodes)
           /\ Len(Inserted(s, k, x)) = Len(s) + 1
           /\ \A i \in 1 .. Len(s) + 1 :
                Inserted(s, k, x)[i] = IF i <= k THEN s[i] ELSE IF i = k + 1 THEN x ELSE s[i - 1]
           /\ \A i \in 0 .. Len(s) + 2 :
                Cell(Inserted(s, k, x), h, i) =
                  IF i <= k THEN Cell(s, h, i) ELSE IF i = k + 1 THEN x ELSE Cell(s, h, i - 1)
<1> DEFINE t == Inserted(s, k, x)
<1>1. /\ t \in Seq(Nodes)
      /\ Len(t) = Len(s) + 1
      /\ \A i \in 1 .. Len(s) + 1 : t[i] = IF i <= k THEN s[i] ELSE IF i = k + 1 THEN x ELSE s[i - 1]
  BY DEF Inserted
<1> HIDE DEF t
<1>2. \A i \in 0 .. Len(s) + 2 :
        Cell(t, h, i) = IF i <= k THEN Cell(s, h, i) ELSE IF i = k + 1 THEN x ELSE Cell(s, h, i - 1)
  BY <1>1 DEF Cell
<1> QED
  BY <1>1, <1>2 DEF t

\* What Removed is, and what its ring looks like.
LEMMA RemovedProps ==
    ASSUME NEW s \in Seq(Nodes), NEW h \in Heads, NEW k \in 1 .. Len(s)
    PROVE  /\ Removed(s, k) \in Seq(Nodes)
           /\ Len(Removed(s, k)) = Len(s) - 1
           /\ \A i \in 1 .. Len(s) - 1 : Removed(s, k)[i] = IF i < k THEN s[i] ELSE s[i + 1]
           /\ \A i \in 0 .. Len(s) :
                Cell(Removed(s, k), h, i) = IF i < k THEN Cell(s, h, i) ELSE Cell(s, h, i + 1)
<1> DEFINE t == Removed(s, k)
<1>1. /\ t \in Seq(Nodes)
      /\ Len(t) = Len(s) - 1
      /\ \A i \in 1 .. Len(s) - 1 : t[i] = IF i < k THEN s[i] ELSE s[i + 1]
  BY DEF Removed
<1> HIDE DEF t
<1>2. ASSUME NEW i \in 0 .. Len(s)
      PROVE  Cell(t, h, i) = IF i < k THEN Cell(s, h, i) ELSE Cell(s, h, i + 1)
  <2>1. CASE i < k
    BY <2>1, <1>1 DEF Cell
  <2>2. CASE i >= k
    BY <2>2, <1>1 DEF Cell
  <2> QED
    BY <2>1, <2>2
<1> QED
  BY <1>1, <1>2 DEF t

\* A ring none of whose cells has been written is as it was.
LEMMA RingKept ==
    ASSUME NEW h \in Heads, NEW s \in Seq(Nodes), NEW n, NEW p, NEW n2, NEW p2,
           Ring(n, p, h, s),
           n2[h] = n[h], p2[h] = p[h],
           \A k \in 1 .. Len(s) : n2[s[k]] = n[s[k]] /\ p2[s[k]] = p[s[k]]
    PROVE  Ring(n2, p2, h, s)
<1> SUFFICES ASSUME NEW k \in 0 .. Len(s)
             PROVE  /\ n2[Cell(s, h, k)] = Cell(s, h, k + 1)
                    /\ p2[Cell(s, h, k + 1)] = Cell(s, h, k)
  BY DEF Ring
<1>1. n2[Cell(s, h, k)] = n[Cell(s, h, k)] /\ p2[Cell(s, h, k + 1)] = p[Cell(s, h, k + 1)]
  BY CellProps DEF Cell
<1> QED
  BY <1>1 DEF Ring

\* Linking x in between two neighbours inserts it.
LEMMA RingInserted ==
    ASSUME NEW h \in Heads, NEW s \in Seq(Nodes), Distinct(s),
           NEW n \in [Cells -> Cells], NEW p \in [Cells -> Cells], Ring(n, p, h, s),
           NEW x \in Nodes, \A k \in 1 .. Len(s) : s[k] # x,
           NEW k \in 0 .. Len(s), NEW c, NEW d, c = Cell(s, h, k), d = Cell(s, h, k + 1)
    PROVE  Ring([n EXCEPT ![x] = d, ![c] = x], [p EXCEPT ![x] = c, ![d] = x], h, Inserted(s, k, x))
<1> DEFINE n2 == [n EXCEPT ![x] = d, ![c] = x]
           p2 == [p EXCEPT ![x] = c, ![d] = x]
           t == Inserted(s, k, x)
<1>1. x \in Cells /\ c \in Cells /\ d \in Cells /\ Len(s) \in Nat
  BY CellProps, CellTypes
<1>2. \A j \in Nat : Cell(s, h, j) # x
  BY CellTypes DEF Cell
<1>3. /\ n2[x] = d /\ n2[c] = x /\ \A y \in Cells \ {x, c} : n2[y] = n[y]
      /\ p2[x] = c /\ p2[d] = x /\ \A y \in Cells \ {x, d} : p2[y] = p[y]
  BY <1>1, <1>2
<1>4. /\ Len(t) = Len(s) + 1
      /\ \A i \in 0 .. Len(s) + 2 :
           Cell(t, h, i) = IF i <= k THEN Cell(s, h, i) ELSE IF i = k + 1 THEN x ELSE Cell(s, h, i - 1)
  BY InsertedProps
<1> HIDE DEF n2, p2, t
<1>5. ASSUME NEW i \in 0 .. Len(t)
      PROVE  n2[Cell(t, h, i)] = Cell(t, h, i + 1) /\ p2[Cell(t, h, i + 1)] = Cell(t, h, i)
  <2>1. CASE i < k
    <3>1. /\ Cell(t, h, i) = Cell(s, h, i) /\ Cell(t, h, i + 1) = Cell(s, h, i + 1)
          /\ i \in 0 .. Len(s)
      BY <2>1, <1>1, <1>4
    <3>2. Cell(s, h, i) \in Cells \ {x, c} /\ Cell(s, h, i + 1) \in Cells \ {x, d}
      BY <2>1, <1>1, <1>2, CellProps, CellsDistinct
    <3> QED
      BY <3>1, <3>2, <1>3 DEF Ring
  <2>2. CASE i = k
    BY <2>2, <1>1, <1>3, <1>4
  <2>3. CASE i = k + 1
    BY <2>3, <1>1, <1>3, <1>4
  <2>4. CASE i > k + 1
    <3>1. /\ Cell(t, h, i) = Cell(s, h, i - 1) /\ Cell(t, h, i + 1) = Cell(s, h, i)
          /\ i - 1 \in 0 .. Len(s) /\ (i - 1) + 1 = i
      BY <2>4, <1>1, <1>4
    <3>2. Cell(s, h, i - 1) \in Cells \ {x, c} /\ Cell(s, h, i) \in Cells \ {x, d}
      BY <2>4, <3>1, <1>1, <1>2, CellProps, CellsDistinct
    <3>3. n[Cell(s, h, i - 1)] = Cell(s, h, i) /\ p[Cell(s, h, i)] = Cell(s, h, i - 1)
      BY <3>1 DEF Ring
    <3> QED
      BY <3>1, <3>2, <3>3, <1>3
  <2> QED
    BY <2>1, <2>2, <2>3, <2>4, <1>1, <1>4
<1> QED
  BY <1>5 DEF n2, p2, t, Ring

\* Linking its neighbours to each other takes element k out.
LEMMA RingRemoved ==
    ASSUME NEW h \in Heads, NEW s \in Seq(Nodes), Distinct(s),
           NEW n \in [Cells -> Cells], NEW p \in [Cells -> Cells], Ring(n, p, h, s),
           NEW k \in 1 .. Len(s)
    PROVE  /\ n[s[k]] = Cell(s, h, k + 1) /\ p[s[k]] = Cell(s, h, k - 1)
           /\ n[s[k]] # s[k] /\ p[s[k]] # s[k]
           /\ Ring([n EXCEPT ![p[s[k]]] = n[s[k]], ![s[k]] = NULL],
                   [p EXCEPT ![n[s[k]]] = p[s[k]], ![s[k]] = NULL], h, Removed(s, k))
<1> DEFINE x == s[k]
           c == Cell(s, h, k - 1)
           d == Cell(s, h, k + 1)
           n2 == [n EXCEPT ![c] = d, ![x] = NULL]
           p2 == [p EXCEPT ![d] = c, ![x] = NULL]
           t == Removed(s, k)
<1>1. /\ Cell(s, h, k) = x /\ Len(s) \in Nat /\ k - 1 \in 0 .. Len(s)
      /\ x \in Cells /\ c \in Cells /\ d \in Cells
  BY CellProps, CellTypes
<1>2. n[x] = d /\ p[x] = c
  <2>1. n[Cell(s, h, k)] = Cell(s, h, k + 1)
    BY DEF Ring
  <2>2. p[Cell(s, h, (k - 1) + 1)] = Cell(s, h, k - 1)
    BY <1>1 DEF Ring
  <2> QED
    BY <1>1, <2>1, <2>2
<1>3. \A j \in 0 .. Len(s) + 1 : Cell(s, h, j) = x => j = k
  BY CellProps, CellsDistinct, <1>1
<1>4. c # x /\ d # x
  BY <1>1, <1>3
<1>5. /\ n2[c] = d /\ \A y \in Cells \ {x, c} : n2[y] = n[y]
      /\ p2[d] = c /\ \A y \in Cells \ {x, d} : p2[y] = p[y]
  BY <1>1, <1>4
<1>6. /\ Len(t) = Len(s) - 1
      /\ \A i \in 0 .. Len(s) : Cell(t, h, i) = IF i < k THEN Cell(s, h, i) ELSE Cell(s, h, i + 1)
  BY RemovedProps
<1> HIDE DEF n2, p2, t
<1>7. ASSUME NEW i \in 0 .. Len(t)
      PROVE  n2[Cell(t, h, i)] = Cell(t, h, i + 1) /\ p2[Cell(t, h, i + 1)] = Cell(t, h, i)
  <2>1. CASE i < k - 1
    <3>1. /\ Cell(t, h, i) = Cell(s, h, i) /\ Cell(t, h, i + 1) = Cell(s, h, i + 1)
          /\ i \in 0 .. Len(s)
      BY <2>1, <1>1, <1>6
    <3>2. Cell(s, h, i) \in Cells \ {x, c} /\ Cell(s, h, i + 1) \in Cells \ {x, d}
      BY <2>1, <1>1, <1>3, CellProps, CellsDistinct
    <3> QED
      BY <3>1, <3>2, <1>5 DEF Ring
  <2>2. CASE i = k - 1
    <3>1. Cell(t, h, i) = c /\ Cell(t, h, i + 1) = d
      BY <2>2, <1>1, <1>6
    <3> QED
      BY <3>1, <1>5
  <2>3. CASE i > k - 1
    <3>1. /\ Cell(t, h, i) = Cell(s, h, i + 1) /\ Cell(t, h, i + 1) = Cell(s, h, i + 2)
          /\ i + 1 \in 0 .. Len(s) /\ (i + 1) + 1 = i + 2
      BY <2>3, <1>1, <1>6
    <3>2. Cell(s, h, i + 1) \in Cells \ {x, c} /\ Cell(s, h, i + 2) \in Cells \ {x, d}
      BY <2>3, <3>1, <1>1, <1>3, CellProps, CellsDistinct
    <3>3. n[Cell(s, h, i + 1)] = Cell(s, h, i + 2) /\ p[Cell(s, h, i + 2)] = Cell(s, h, i + 1)
      BY <3>1 DEF Ring
    <3> QED
      BY <3>1, <3>2, <3>3, <1>5
  <2> QED
    BY <2>1, <2>2, <2>3, <1>1, <1>6
<1>8. Ring(n2, p2, h, t)
  BY <1>7 DEF Ring
<1> QED
  BY <1>2, <1>4, <1>8 DEF n2, p2, t

-----------------------------------------------------------------------------
(* The functions of list.c, on links that stand for sequences               *)

\* What the links say of a head, of its nodes, and of any two lists.
LEMMA HeldProps ==
    ASSUME NEW n, NEW p, NEW w, NEW q, Represents(n, p, w, q), NEW h \in Heads
    PROVE  /\ q[h] \in Seq(Nodes) /\ Len(q[h]) \in Nat /\ Distinct(q[h]) /\ Ring(n, p, h, q[h])
           /\ \A k \in 1 .. Len(q[h]) : q[h][k] \in Nodes /\ w[q[h][k]] = h /\ w[q[h][k]] # NULL
           /\ \A k \in Nat : Cell(q[h], h, k) = h \/
                (Cell(q[h], h, k) \in Nodes /\ w[Cell(q[h], h, k)] = h)
<1>1. q[h] \in Seq(Nodes) /\ Distinct(q[h]) /\ Ring(n, p, h, q[h])
  BY DEF Represents, Held
<1>2. \A k \in 1 .. Len(q[h]) : q[h][k] \in Nodes /\ w[q[h][k]] = h /\ w[q[h][k]] # NULL
  BY <1>1, CellTypes DEF Represents, Held
<1> QED
  BY <1>1, <1>2 DEF Cell

\* Linking a node in between two neighbours of a ring inserts it into that sequence and
\* changes no other one.
LEMMA InsertedRepresents ==
    ASSUME NEW n, NEW p, NEW w, NEW q, Represents(n, p, w, q),
           NEW h \in Heads, NEW x \in Nodes, w[x] = NULL,
           NEW k \in 0 .. Len(q[h]), NEW c, NEW d, c = Cell(q[h], h, k), d = Cell(q[h], h, k + 1)
    PROVE  Represents(Put(Put(n, x, d), c, x), Put(Put(p, x, c), d, x),
                      Put(w, x, h), Put(q, h, Inserted(q[h], k, x)))
<1> DEFINE n2 == [n EXCEPT ![x] = d, ![c] = x]
           p2 == [p EXCEPT ![x] = c, ![d] = x]
           t == Inserted(q[h], k, x)
           w2 == [w EXCEPT ![x] = h]
           q2 == [q EXCEPT ![h] = t]
<1>1. /\ n \in [Cells -> Cells] /\ p \in [Cells -> Cells]
      /\ w \in [Nodes -> Heads \union {NULL}] /\ q \in [Heads -> Seq(Nodes)]
  BY DEF Represents, Held
<1>2. x \in Cells /\ c \in Cells /\ d \in Cells /\ c # NULL /\ d # NULL
  BY HeldProps, CellProps, CellTypes
<1>3. n2 \in [Cells -> Cells] /\ p2 \in [Cells -> Cells]
  BY <1>1, <1>2
<1>4. /\ t \in Seq(Nodes) /\ Len(t) = Len(q[h]) + 1
      /\ \A i \in 1 .. Len(t) :
           t[i] = IF i <= k THEN q[h][i] ELSE IF i = k + 1 THEN x ELSE q[h][i - 1]
  <2> DEFINE s == q[h]
  <2>1. s \in Seq(Nodes) /\ k \in 0 .. Len(s)
    BY HeldProps
  <2> HIDE DEF s
  <2>2. /\ Inserted(s, k, x) \in Seq(Nodes) /\ Len(Inserted(s, k, x)) = Len(s) + 1
        /\ \A i \in 1 .. Len(s) + 1 :
             Inserted(s, k, x)[i] = IF i <= k THEN s[i] ELSE IF i = k + 1 THEN x ELSE s[i - 1]
    BY <2>1, InsertedProps
  <2> QED
    BY <2>2 DEF s
<1>5. \A i \in 1 .. Len(q[h]) : q[h][i] # x
  BY HeldProps
<1>6. Ring(n2, p2, h, t)
  BY <1>1, <1>5, HeldProps, RingInserted
<1>7. /\ \A y \in Cells \ {x, c} : n2[y] = n[y]
      /\ \A y \in Cells \ {x, d} : p2[y] = p[y]
  BY <1>1
<1> HIDE DEF n2, p2, t
<1>8. ASSUME NEW g \in Heads, g # h PROVE Ring(n2, p2, g, q[g])
  <2>1. \A j \in 1 .. Len(q[g]) : q[g][j] \in Cells \ {x, c, d}
    BY <1>8, HeldProps, CellTypes
  <2>2. g \in Cells \ {x, c, d}
    BY <1>8, HeldProps, CellTypes
  <2> QED
    BY <2>1, <2>2, <1>7, HeldProps, RingKept
<1>9. /\ w2 \in [Nodes -> Heads \union {NULL}] /\ q2 \in [Heads -> Seq(Nodes)]
      /\ w2[x] = h /\ \A y \in Nodes \ {x} : w2[y] = w[y]
      /\ q2[h] = t /\ \A g \in Heads \ {h} : q2[g] = q[g]
  BY <1>1, <1>4
<1> HIDE DEF w2, q2
<1>10. \A g \in Heads : Ring(n2, p2, g, q2[g])
  BY <1>6, <1>8, <1>9
<1>11. ASSUME NEW g \in Heads
       PROVE  Distinct(q2[g]) /\ \A j \in 1 .. Len(q2[g]) : w2[q2[g][j]] = g
  <2>1. CASE g # h
    <3>1. \A j \in 1 .. Len(q[g]) : q[g][j] \in Nodes \ {x} /\ w[q[g][j]] = g
      BY HeldProps
    <3>2. Distinct(q[g]) /\ q2[g] = q[g]
      BY <2>1, <1>9, HeldProps
    <3> QED
      BY <3>1, <3>2, <1>9
  <2>2. CASE g = h
    <3> DEFINE s == q[h]
    <3>1. /\ Len(s) \in Nat /\ k \in 0 .. Len(s) /\ Distinct(s) /\ Len(t) = Len(s) + 1
          /\ \A i \in 1 .. Len(s) : s[i] \in Nodes \ {x} /\ w[s[i]] = h
          /\ \A i \in 1 .. Len(t) : t[i] = IF i <= k THEN s[i] ELSE IF i = k + 1 THEN x ELSE s[i - 1]
      BY <1>4, <1>5, HeldProps
    <3> HIDE DEF s
    <3>2. ASSUME NEW j \in 1 .. Len(t) PROVE w2[t[j]] = h
      <4>1. CASE j <= k
        <5>1. t[j] = s[j] /\ j \in 1 .. Len(s)
          BY <4>1, <3>1
        <5>2. t[j] \in Nodes \ {x} /\ w[t[j]] = h
          BY <3>1, <5>1
        <5> QED
          BY <5>2, <1>9
      <4>2. CASE j = k + 1
        <5>1. t[j] = x
          BY <4>2, <3>1
        <5> QED
          BY <5>1, <1>9
      <4>3. CASE j > k + 1
        <5>1. t[j] = s[j - 1] /\ j - 1 \in 1 .. Len(s)
          BY <4>3, <3>1
        <5>2. t[j] \in Nodes \ {x} /\ w[t[j]] = h
          BY <3>1, <5>1
        <5> QED
          BY <5>2, <1>9
      <4> QED
        BY <4>1, <4>2, <4>3, <3>1
    <3>3. Distinct(t)
      <4> DEFINE from(i) == IF i <= k THEN i ELSE i - 1
      <4>1. \A i \in 1 .. Len(t) : i # k + 1 => from(i) \in 1 .. Len(s) /\ t[i] = s[from(i)] /\ t[i] # x
        BY <3>1
      <4>2. \A i \in 1 .. Len(t) : i = k + 1 => t[i] = x
        BY <3>1
      <4>3. \A i, j \in 1 .. Len(t) : i # k + 1 /\ j # k + 1 /\ from(i) = from(j) => i = j
        BY <3>1
      <4> HIDE DEF from
      <4>4. \A i, j \in 1 .. Len(s) : s[i] = s[j] => i = j
        BY <3>1 DEF Distinct
      <4> QED
        BY <4>1, <4>2, <4>3, <4>4 DEF Distinct
    <3> QED
      BY <2>2, <3>2, <3>3, <1>9
  <2> QED
    BY <2>1, <2>2
<1>12. ASSUME NEW y \in Nodes, w2[y] # NULL
       PROVE  \E j \in 1 .. Len(q2[w2[y]]) : q2[w2[y]][j] = y
  <2>1. CASE y = x
    <3>1. k + 1 \in 1 .. Len(t) /\ t[k + 1] = x
      BY <1>4, HeldProps
    <3> QED
      BY <2>1, <3>1, <1>9
  <2>2. CASE y # x
    <3>1. w[y] \in Heads /\ w2[y] = w[y]
      BY <2>2, <1>1, <1>9, <1>12
    <3>2. PICK j \in 1 .. Len(q[w[y]]) : q[w[y]][j] = y
      BY <3>1, CellTypes DEF Represents, Held
    <3>3. CASE w[y] # h
      BY <3>1, <3>2, <3>3, <1>9
    <3>4. CASE w[y] = h
      <4>1. CASE j <= k
        <5>1. j \in 1 .. Len(t) /\ t[j] = y
          BY <3>2, <3>4, <4>1, <1>4, HeldProps
        <5> QED
          BY <5>1, <3>1, <3>4, <1>9
      <4>2. CASE j > k
        <5>1. j + 1 \in 1 .. Len(t) /\ t[j + 1] = y
          BY <3>2, <3>4, <4>2, <1>4, HeldProps
        <5> QED
          BY <5>1, <3>1, <3>4, <1>9
      <4> QED
        BY <4>1, <4>2, <3>4, HeldProps
    <3> QED
      BY <3>3, <3>4
  <2> QED
    BY <2>1, <2>2
<1>13. Blank(n2, p2, w2)
  <2>1. ASSUME NEW y \in Nodes, w2[y] = NULL PROVE n2[y] = NULL /\ p2[y] = NULL
    <3>1. y # x /\ w[y] = NULL
      BY <2>1, <1>9, CellTypes
    <3>2. y \in Cells \ {x, c, d}
      BY <3>1, HeldProps, CellTypes
    <3> QED
      BY <3>1, <3>2, <1>7 DEF Represents, Blank
  <2>2. n2[NULL] = NULL /\ p2[NULL] = NULL
    BY <1>2, <1>7, CellTypes DEF Represents, Blank
  <2> QED
    BY <2>1, <2>2 DEF Blank
<1>14. Represents(n2, p2, w2, q2)
  BY <1>3, <1>9, <1>10, <1>11, <1>12, <1>13 DEF Represents, Held
<1> QED
  BY <1>14 DEF n2, p2, w2, q2, t, Put

\* Linking the neighbours of a node to each other and clearing its own links takes it out of
\* its sequence and changes no other one.
LEMMA RemovedRepresents ==
    ASSUME NEW n, NEW p, NEW w, NEW q, Represents(n, p, w, q),
           NEW h \in Heads, NEW k \in 1 .. Len(q[h]), NEW x, x = q[h][k]
    PROVE  Represents(Put(Put(n, p[x], n[x]), x, NULL), Put(Put(p, n[x], p[x]), x, NULL),
                      Put(w, x, NULL), Put(q, h, Removed(q[h], k)))
<1> DEFINE c == p[x]
           d == n[x]
           n2 == [n EXCEPT ![c] = d, ![x] = NULL]
           p2 == [p EXCEPT ![d] = c, ![x] = NULL]
           t == Removed(q[h], k)
           w2 == [w EXCEPT ![x] = NULL]
           q2 == [q EXCEPT ![h] = t]
<1>1. /\ n \in [Cells -> Cells] /\ p \in [Cells -> Cells]
      /\ w \in [Nodes -> Heads \union {NULL}] /\ q \in [Heads -> Seq(Nodes)]
      /\ x \in Nodes /\ w[x] = h
  BY HeldProps DEF Represents, Held
<1>2. /\ d = Cell(q[h], h, k + 1) /\ c = Cell(q[h], h, k - 1) /\ c # x /\ d # x
      /\ Ring(n2, p2, h, t)
  <2> DEFINE s == q[h]
  <2>1. s \in Seq(Nodes) /\ Distinct(s) /\ Ring(n, p, h, s) /\ k \in 1 .. Len(s) /\ x = s[k]
    BY HeldProps
  <2> HIDE DEF s
  <2>2. /\ n[s[k]] = Cell(s, h, k + 1) /\ p[s[k]] = Cell(s, h, k - 1)
        /\ n[s[k]] # s[k] /\ p[s[k]] # s[k]
        /\ Ring([n EXCEPT ![p[s[k]]] = n[s[k]], ![s[k]] = NULL],
                [p EXCEPT ![n[s[k]]] = p[s[k]], ![s[k]] = NULL], h, Removed(s, k))
    BY <1>1, <2>1, RingRemoved
  <2> QED
    BY <2>1, <2>2 DEF s
<1>3. x \in Cells /\ c \in Cells /\ d \in Cells /\ c # NULL /\ d # NULL /\ NULL \in Cells
  <2>1. k + 1 \in Nat /\ k - 1 \in Nat
    BY HeldProps
  <2> QED
    BY <1>1, <1>2, <2>1, HeldProps, CellProps, CellTypes
<1>4. n2 \in [Cells -> Cells] /\ p2 \in [Cells -> Cells]
  BY <1>1, <1>3
<1>5. /\ t \in Seq(Nodes) /\ Len(t) = Len(q[h]) - 1
      /\ \A i \in 1 .. Len(t) : t[i] = IF i < k THEN q[h][i] ELSE q[h][i + 1]
  <2> DEFINE s == q[h]
  <2>1. s \in Seq(Nodes) /\ k \in 1 .. Len(s)
    BY HeldProps
  <2> HIDE DEF s
  <2>2. /\ Removed(s, k) \in Seq(Nodes) /\ Len(Removed(s, k)) = Len(s) - 1
        /\ \A i \in 1 .. Len(s) - 1 : Removed(s, k)[i] = IF i < k THEN s[i] ELSE s[i + 1]
    BY <2>1, RemovedProps
  <2> QED
    BY <2>2 DEF s
<1>6. \A i \in 1 .. Len(q[h]) : q[h][i] = x => i = k
  BY HeldProps DEF Distinct
<1>7. /\ n2[x] = NULL /\ \A y \in Cells \ {x, c} : n2[y] = n[y]
      /\ p2[x] = NULL /\ \A y \in Cells \ {x, d} : p2[y] = p[y]
  BY <1>1, <1>3
<1>8. \A g \in Heads \ {h} : g \in Cells \ {x, c, d} /\ \A j \in 1 .. Len(q[g]) : q[g][j] \in Cells \ {x, c, d}
  <2>1. k + 1 \in Nat /\ k - 1 \in Nat
    BY HeldProps
  <2>2. /\ c = h \/ (c \in Nodes /\ w[c] = h)
        /\ d = h \/ (d \in Nodes /\ w[d] = h)
    BY <1>2, <2>1, HeldProps
  <2> QED
    BY <1>1, <2>2, HeldProps, CellTypes
<1>9. /\ w2 \in [Nodes -> Heads \union {NULL}] /\ q2 \in [Heads -> Seq(Nodes)]
      /\ w2[x] = NULL /\ \A y \in Nodes \ {x} : w2[y] = w[y]
      /\ q2[h] = t /\ \A g \in Heads \ {h} : q2[g] = q[g]
  BY <1>1, <1>5
<1>10. \A y \in Nodes : y = c \/ y = d => w[y] # NULL
  <2>1. k + 1 \in Nat /\ k - 1 \in Nat
    BY HeldProps
  <2> QED
    BY <1>2, <2>1, HeldProps, CellTypes
<1> HIDE DEF n2, p2, t, w2, q2, c, d
<1>11. \A g \in Heads : Ring(n2, p2, g, q2[g])
  <2>1. ASSUME NEW g \in Heads, g # h PROVE Ring(n2, p2, g, q[g])
    BY <2>1, <1>7, <1>8, HeldProps, RingKept
  <2> QED
    BY <2>1, <1>2, <1>9
<1>12. ASSUME NEW g \in Heads
       PROVE  Distinct(q2[g]) /\ \A j \in 1 .. Len(q2[g]) : w2[q2[g][j]] = g
  <2>1. CASE g # h
    <3>1. \A j \in 1 .. Len(q[g]) : q[g][j] \in Nodes \ {x} /\ w[q[g][j]] = g
      BY <2>1, <1>8, HeldProps
    <3>2. Distinct(q[g]) /\ q2[g] = q[g]
      BY <2>1, <1>9, HeldProps
    <3> QED
      BY <3>1, <3>2, <1>9
  <2>2. CASE g = h
    <3> DEFINE s == q[h]
               from(i) == IF i < k THEN i ELSE i + 1
    <3>1. /\ Len(s) \in Nat /\ k \in 1 .. Len(s) /\ Len(t) = Len(s) - 1
          /\ \A i, j \in 1 .. Len(s) : s[i] = s[j] => i = j
          /\ \A i \in 1 .. Len(s) : s[i] \in Nodes /\ w[s[i]] = h /\ (s[i] = x => i = k)
          /\ \A i \in 1 .. Len(t) : t[i] = IF i < k THEN s[i] ELSE s[i + 1]
      BY <1>5, <1>6, HeldProps DEF Distinct
    <3> HIDE DEF s
    <3>2. \A i \in 1 .. Len(t) : from(i) \in 1 .. Len(s) /\ from(i) # k /\ t[i] = s[from(i)]
      BY <3>1
    <3>3. \A i, j \in 1 .. Len(t) : from(i) = from(j) => i = j
      BY <3>1
    <3> HIDE DEF from
    <3>4. \A j \in 1 .. Len(t) : t[j] \in Nodes \ {x} /\ w[t[j]] = h
      BY <3>1, <3>2
    <3>5. Distinct(t)
      BY <3>1, <3>2, <3>3 DEF Distinct
    <3> QED
      BY <2>2, <3>4, <3>5, <1>9
  <2> QED
    BY <2>1, <2>2
<1>13. ASSUME NEW y \in Nodes, w2[y] # NULL
       PROVE  \E j \in 1 .. Len(q2[w2[y]]) : q2[w2[y]][j] = y
  <2>1. y # x /\ w[y] \in Heads /\ w2[y] = w[y]
    BY <1>1, <1>9, <1>13
  <2>2. PICK j \in 1 .. Len(q[w[y]]) : q[w[y]][j] = y
    BY <2>1, CellTypes DEF Represents, Held
  <2>3. CASE w[y] # h
    BY <2>1, <2>2, <2>3, <1>9
  <2>4. CASE w[y] = h
    <3>1. CASE j < k
      <4>1. j \in 1 .. Len(t) /\ t[j] = y
        BY <2>2, <2>4, <3>1, <1>5, HeldProps
      <4> QED
        BY <4>1, <2>1, <2>4, <1>9
    <3>2. CASE j > k
      <4>1. j - 1 \in 1 .. Len(t) /\ t[j - 1] = y
        BY <2>2, <2>4, <3>2, <1>5, HeldProps
      <4> QED
        BY <4>1, <2>1, <2>4, <1>9
    <3> QED
      BY <3>1, <3>2, <2>1, <2>2, <2>4, HeldProps
  <2> QED
    BY <2>3, <2>4
<1>14. Blank(n2, p2, w2)
  <2>1. ASSUME NEW y \in Nodes, w2[y] = NULL PROVE n2[y] = NULL /\ p2[y] = NULL
    <3>1. CASE y = x
      BY <3>1, <1>7
    <3>2. CASE y # x
      <4>1. w[y] = NULL
        BY <2>1, <3>2, <1>9
      <4>2. y \in Cells \ {x, c, d}
        BY <3>2, <4>1, <1>10, CellTypes
      <4> QED
        BY <4>1, <4>2, <1>7 DEF Represents, Blank
    <3> QED
      BY <3>1, <3>2
  <2>2. n2[NULL] = NULL /\ p2[NULL] = NULL
    <3>1. NULL \in Cells \ {x, c, d}
      BY <1>1, <1>3, CellTypes
    <3> QED
      BY <3>1, <1>7 DEF Represents, Blank
  <2> QED
    BY <2>1, <2>2 DEF Blank
<1>15. Represents(n2, p2, w2, q2)
  BY <1>4, <1>9, <1>11, <1>12, <1>13, <1>14 DEF Represents, Held
<1> QED
  BY <1>15 DEF n2, p2, w2, q2, t, c, d, Put

\* The assignments of list_insert_head, list_insert_tail and list_remove, one after the other,
\* come to this.
LEMMA InsertHeadSteps ==
    ASSUME NEW l, NEW h, NEW x, NEW a, a = SetPrev(SetNext(l, x, l.next[h]), x, h)
    PROVE  list_insert_head(l, h, x) = SetNext(SetPrev(a, a.next[h], x), h, x)
<1>1. a = [l EXCEPT !.next[x] = l.next[h], !.prev[x] = h]
  BY DEF SetNext, SetPrev
<1> QED
  BY <1>1 DEF list_insert_head, SetNext, SetPrev

\* So a node goes in between the head and what came after it.
LEMMA InsertHeadResult ==
    ASSUME NEW n \in [Cells -> Cells], NEW p \in [Cells -> Cells], NEW h \in Heads, NEW x \in Nodes
    PROVE  list_insert_head(Pair(n, p), h, x) =
             Pair(Put(Put(n, x, n[h]), h, x), Put(Put(p, x, h), n[h], x))
<1> DEFINE l == Pair(n, p)
           n1 == Put(n, x, n[h])
           p1 == Put(p, x, h)
           a == SetPrev(SetNext(l, x, l.next[h]), x, h)
<1>1. n1[h] = n[h]
  BY CellTypes DEF Put
<1>2. a = Pair(n1, p1)
  BY Assignment
<1>3. list_insert_head(l, h, x) = SetNext(SetPrev(a, a.next[h], x), h, x)
  BY InsertHeadSteps
<1> QED
  BY <1>1, <1>2, <1>3, Assignment

\* The same of list_insert_tail,
LEMMA InsertTailSteps ==
    ASSUME NEW l, NEW h, NEW x, NEW a, a = SetNext(SetPrev(l, x, l.prev[h]), x, h)
    PROVE  list_insert_tail(l, h, x) = SetPrev(SetNext(a, a.prev[h], x), h, x)
<1>1. a = [l EXCEPT !.prev[x] = l.prev[h], !.next[x] = h]
  BY DEF SetNext, SetPrev
<1> QED
  BY <1>1 DEF list_insert_tail, SetNext, SetPrev

\* where it goes in between the head and what came before it,
LEMMA InsertTailResult ==
    ASSUME NEW n \in [Cells -> Cells], NEW p \in [Cells -> Cells], NEW h \in Heads, NEW x \in Nodes
    PROVE  list_insert_tail(Pair(n, p), h, x) =
             Pair(Put(Put(n, x, h), p[h], x), Put(Put(p, x, p[h]), h, x))
<1> DEFINE l == Pair(n, p)
           n1 == Put(n, x, h)
           p1 == Put(p, x, p[h])
           a == SetNext(SetPrev(l, x, l.prev[h]), x, h)
<1>1. p1[h] = p[h]
  BY CellTypes DEF Put
<1>2. a = Pair(n1, p1)
  BY Assignment
<1>3. list_insert_tail(l, h, x) = SetPrev(SetNext(a, a.prev[h], x), h, x)
  BY InsertTailSteps
<1> QED
  BY <1>1, <1>2, <1>3, Assignment

\* and of list_remove,
LEMMA RemoveSteps ==
    ASSUME NEW l, NEW x, NEW a, a = SetNext(l, l.prev[x], l.next[x])
    PROVE  list_remove(l, x) = SetNext(SetPrev(SetPrev(a, a.next[x], a.prev[x]), x, NULL), x, NULL)
<1> DEFINE b == [a EXCEPT !.prev[a.next[x]] = a.prev[x]]
<1>1. list_remove(l, x) = [b EXCEPT !.prev[x] = NULL, !.next[x] = NULL]
  BY DEF list_remove, SetNext
<1> HIDE DEF b
<1>2. [b EXCEPT !.prev[x] = NULL, !.next[x] = NULL] = SetNext(SetPrev(b, x, NULL), x, NULL)
  BY DEF SetNext, SetPrev
<1>3. b = SetPrev(a, a.next[x], a.prev[x])
  BY DEF SetPrev, b
<1> QED
  BY <1>1, <1>2, <1>3

\* which links the neighbours of the node to each other.
LEMMA RemoveResult ==
    ASSUME NEW n \in [Cells -> Cells], NEW p \in [Cells -> Cells], NEW x \in Cells, p[x] # x
    PROVE  list_remove(Pair(n, p), x) =
             Pair(Put(Put(n, p[x], n[x]), x, NULL), Put(Put(p, n[x], p[x]), x, NULL))
<1> DEFINE l == Pair(n, p)
           n1 == Put(n, p[x], n[x])
           a == SetNext(l, l.prev[x], l.next[x])
<1>1. n1[x] = n[x]
  BY DEF Put
<1>2. a = Pair(n1, p)
  BY Assignment
<1>3. list_remove(l, x) = SetNext(SetPrev(SetPrev(a, a.next[x], a.prev[x]), x, NULL), x, NULL)
  BY RemoveSteps
<1> QED
  BY <1>1, <1>2, <1>3, Assignment

-----------------------------------------------------------------------------
(* The sequences of ListSpec                                                *)

\* The two ends at which list.c inserts.
LEMMA InsertedFirst ==
    ASSUME NEW s \in Seq(Nodes), NEW x \in Nodes
    PROVE  <<x>> \o s = Inserted(s, 0, x)
BY DEF Inserted

\* Append puts a node behind all others.
LEMMA InsertedLast ==
    ASSUME NEW s \in Seq(Nodes), NEW x \in Nodes
    PROVE  Append(s, x) = Inserted(s, Len(s), x)
<1> DEFINE t == Inserted(s, Len(s), x)
           u == Append(s, x)
<1>1. u \in Seq(Nodes) /\ Len(u) = Len(s) + 1 /\ u[Len(s) + 1] = x /\ \A i \in 1 .. Len(s) : u[i] = s[i]
  OBVIOUS
<1>2. Len(s) \in Nat
  OBVIOUS
<1>3. t \in Seq(Nodes) /\ Len(t) = Len(s) + 1 /\ t[Len(s) + 1] = x /\ \A i \in 1 .. Len(s) : t[i] = s[i]
  BY <1>2 DEF Inserted
<1> HIDE DEF t, u
<1>4. \A i \in 1 .. Len(u) : u[i] = t[i]
  <2>1. \A i \in 1 .. Len(u) : i \in 1 .. Len(s) \/ i = Len(s) + 1
    BY <1>1, <1>2
  <2> QED
    BY <2>1, <1>1, <1>3
<1>5. u = t
  BY <1>1, <1>3, <1>4, SeqEqual
<1> QED
  BY <1>5 DEF t, u

\* A node that is in a sequence once is where RemoveFirst finds it.
LEMMA RemovedFirst ==
    ASSUME NEW s \in Seq(Nodes), Distinct(s), NEW k \in 1 .. Len(s)
    PROVE  S!RemoveFirst(s, s[k]) = Removed(s, k)
<1> DEFINE I == {i \in 1 .. Len(s) : s[i] = s[k]}
           a == SubSeq(s, 1, k - 1)
           b == SubSeq(s, k + 1, Len(s))
           t == Removed(s, k)
           u == a \o b
<1>1. I = {k}
  BY DEF Distinct
<1>2. S!SelectInSeq(s, LAMBDA v : v = s[k]) = S!Min(I)
  BY <1>1 DEF S!SelectInSeq
<1>3. S!Min(I) = k
  BY <1>1 DEF S!Min
<1>4. S!RemoveFirst(s, s[k]) = u
  BY <1>2, <1>3 DEF S!RemoveFirst, S!RemoveAt
<1>5. Len(s) \in Nat
  OBVIOUS
<1>6. a \in Seq(Nodes) /\ Len(a) = k - 1 /\ \A i \in 1 .. k - 1 : a[i] = s[i]
  <2>1. \A i \in 1 .. k - 1 : s[i] \in Nodes
    BY <1>5
  <2> QED
    BY <2>1, <1>5, SubSeqProperties
<1>7. b \in Seq(Nodes) /\ Len(b) = Len(s) - k /\ \A i \in 1 .. Len(s) - k : b[i] = s[k + i]
  <2>1. \A i \in k + 1 .. Len(s) : s[i] \in Nodes
    BY <1>5
  <2>2. k + 1 \in Int /\ Len(s) \in Int
    BY <1>5
  <2>3. /\ b \in Seq(Nodes) /\ Len(b) = IF k + 1 <= Len(s) THEN Len(s) - (k + 1) + 1 ELSE 0
        /\ \A i \in 1 .. Len(s) - (k + 1) + 1 : b[i] = s[(k + 1) + i - 1]
    BY <2>1, <2>2, SubSeqProperties
  <2> HIDE DEF b
  <2> QED
    BY <2>3, <1>5
<1> HIDE DEF a, b
<1>8. /\ u \in Seq(Nodes) /\ Len(u) = Len(a) + Len(b)
      /\ \A i \in 1 .. Len(a) + Len(b) : u[i] = IF i <= Len(a) THEN a[i] ELSE b[i - Len(a)]
  BY <1>6, <1>7, ConcatProperties
<1> HIDE DEF u
<1>9. t \in Seq(Nodes) /\ Len(t) = Len(s) - 1 /\ \A i \in 1 .. Len(s) - 1 : t[i] = IF i < k THEN s[i] ELSE s[i + 1]
  BY <1>5 DEF Removed
<1> HIDE DEF t
<1>10. Len(u) = Len(s) - 1
  BY <1>5, <1>6, <1>7, <1>8
<1>11. ASSUME NEW i \in 1 .. Len(u) PROVE u[i] = t[i]
  <2>1. i \in 1 .. Len(a) + Len(b) /\ i \in Nat /\ i <= Len(s) - 1
    BY <1>5, <1>8, <1>10
  <2>2. u[i] = IF i <= Len(a) THEN a[i] ELSE b[i - Len(a)]
    BY <2>1, <1>8
  <2>3. t[i] = IF i < k THEN s[i] ELSE s[i + 1]
    BY <1>9, <1>10
  <2>4. CASE i < k
    <3>1. i \in 1 .. k - 1 /\ i <= Len(a)
      BY <2>1, <2>4, <1>6
    <3> QED
      BY <3>1, <2>2, <2>3, <2>4, <1>6
  <2>5. CASE i >= k
    <3>1. ~(i <= Len(a)) /\ i - Len(a) \in 1 .. Len(s) - k /\ k + (i - Len(a)) = i + 1
      BY <2>1, <2>5, <1>5, <1>6
    <3>2. b[i - Len(a)] = s[k + (i - Len(a))]
      BY <3>1, <1>7
    <3> QED
      BY <3>1, <3>2, <2>1, <2>2, <2>3, <2>5
  <2> QED
    BY <2>1, <2>4, <2>5
<1>12. u = t
  BY <1>8, <1>9, <1>10, <1>11, SeqEqual
<1> QED
  BY <1>4, <1>12 DEF t

\* A sequence without duplicates is as long as the set of its elements, which is no larger
\* than the set of all nodes.
LEMMA DistinctCounts ==
    ASSUME NEW s \in Seq(Nodes), Distinct(s)
    PROVE  /\ Cardinality(ToSet(s)) = Len(s)
           /\ Rounds \in Nat /\ Len(s) <= Rounds
<1> DEFINE E == ToSet(s)
<1>1. Len(s) \in Nat /\ DOMAIN s = 1 .. Len(s) /\ s \in [1 .. Len(s) -> Nodes]
  BY LenProperties
<1>2. E \subseteq Nodes /\ s \in [1 .. Len(s) -> E]
  BY <1>1 DEF ToSet
<1>3. \A y \in E : \E k \in 1 .. Len(s) : s[k] = y
  BY <1>1 DEF ToSet
<1>4. \A j, k \in 1 .. Len(s) : s[j] = s[k] => j = k
  BY DEF Distinct
<1> HIDE DEF E
<1>5. s \in Bijection(1 .. Len(s), E)
  BY <1>2, <1>3, <1>4, Fun_IsBij
<1>6. Cardinality(E) = Len(s)
  BY <1>1, <1>5, FS_CountingElements DEF ExistsBijection
<1>7. Cardinality(Nodes) \in Nat /\ Cardinality(E) <= Cardinality(Nodes)
  BY <1>2, ListAssumption, FS_CardinalityType, FS_Subset
<1> QED
  BY <1>6, <1>7 DEF E, Rounds

-----------------------------------------------------------------------------
(* The loops of list.c                                                      *)

\* A walk along a ring meets the nodes of its sequence.
LEMMA MetExact ==
    ASSUME NEW h \in Heads, NEW s \in Seq(Nodes), Distinct(s), NEW n, NEW p, Ring(n, p, h, s)
    PROVE  Met(n, h) = s
<1> DEFINE turn(w) == IF w.current \notin Nodes THEN w
                      ELSE [seen |-> Append(w.seen, w.current), current |-> n[w.current]]
           at == CHOOSE at : at = [i \in 0 .. Rounds |->
                   IF i = 0 THEN [seen |-> <<>>, current |-> n[h]]
                   ELSE turn(at[i - 1])]
           upto(i) == IF i <= Len(s) THEN i ELSE Len(s)
           place(i) == [seen |-> SubSeq(s, 1, upto(i)), current |-> Cell(s, h, upto(i) + 1)]
           f == [i \in 0 .. Rounds |-> place(i)]
<1>1. Rounds \in Nat /\ Len(s) \in Nat /\ Len(s) <= Rounds
  BY DistinctCounts
<1>2. Met(n, h) = at[Rounds].seen
  BY Zenon DEF Met
<1>3. ASSUME NEW seen, NEW c \in Nodes
      PROVE  turn([seen |-> seen, current |-> c]) = [seen |-> Append(seen, c), current |-> n[c]]
  OBVIOUS
<1> HIDE DEF turn
<1>4. place(0) = [seen |-> <<>>, current |-> n[h]]
  <2>1. upto(0) = 0 /\ SubSeq(s, 1, 0) = <<>>
    BY <1>1
  <2>2. n[h] = Cell(s, h, 1)
    BY <1>1, CellProps DEF Ring
  <2> QED
    BY <2>1, <2>2
<1>5. ASSUME NEW i \in 1 .. Rounds PROVE place(i) = turn(place(i - 1))
  <2>1. CASE i <= Len(s)
    <3>1. upto(i) = i /\ upto(i - 1) = i - 1
      BY <2>1, <1>1
    <3>2. Cell(s, h, i) = s[i] /\ s[i] \in Nodes /\ n[s[i]] = Cell(s, h, i + 1)
      BY <2>1, <1>1, CellProps DEF Ring
    <3>3. SubSeq(s, 1, i) = Append(SubSeq(s, 1, i - 1), s[i])
      BY <2>1, <1>1
    <3>4. place(i - 1) = [seen |-> SubSeq(s, 1, i - 1), current |-> s[i]]
      BY <3>1, <3>2
    <3> HIDE DEF place
    <3>5. turn(place(i - 1)) = [seen |-> Append(SubSeq(s, 1, i - 1), s[i]), current |-> n[s[i]]]
      <4> DEFINE seen == SubSeq(s, 1, i - 1)
      <4> HIDE DEF seen
      <4> QED
        BY <1>3, <3>2, <3>4 DEF seen
    <3> QED
      BY <3>1, <3>2, <3>3, <3>5 DEF place
  <2>2. CASE i > Len(s)
    <3>1. upto(i) = Len(s) /\ upto(i - 1) = Len(s)
      BY <2>2, <1>1
    <3>2. Cell(s, h, Len(s) + 1) \notin Nodes
      BY CellProps, CellTypes
    <3>3. place(i - 1).current \notin Nodes /\ place(i) = place(i - 1)
      BY <3>1, <3>2
    <3> HIDE DEF place
    <3> QED
      BY <3>3 DEF turn
  <2> QED
    BY <2>1, <2>2, <1>1
<1> HIDE DEF place, upto
<1>6. f = [i \in 0 .. Rounds |->
             IF i = 0 THEN [seen |-> <<>>, current |-> n[h]] ELSE turn(f[i - 1])]
  BY <1>1, <1>4, <1>5
<1>7. at = [i \in 0 .. Rounds |->
              IF i = 0 THEN [seen |-> <<>>, current |-> n[h]] ELSE turn(at[i - 1])]
  BY <1>6
<1> HIDE DEF at, f
<1>8. at[Rounds] = f[Rounds]
  <2>1. at[0] = f[0] /\ \A k \in 1 .. Rounds : at[k] = turn(at[k - 1]) /\ f[k] = turn(f[k - 1])
    BY <1>1, <1>6, <1>7
  <2> QED
    BY <1>1, <2>1, SegmentEquality
<1>9. f[Rounds].seen = SubSeq(s, 1, Len(s))
  BY <1>1 DEF f, place, upto
<1> QED
  BY <1>2, <1>8, <1>9, <1>1

\* list_count counts them.
LEMMA CountExact ==
    ASSUME NEW h \in Heads, NEW s \in Seq(Nodes), Distinct(s), NEW p, Ring(next, p, h, s)
    PROVE  list_count(h) = Len(s)
<1> DEFINE turn(w) == IF w.current = h THEN w
                      ELSE [count |-> w.count + 1, current |-> next[w.current]]
           at == CHOOSE at : at = [i \in 0 .. Rounds |->
                   IF i = 0 THEN [count |-> 0, current |-> next[h]]
                   ELSE turn(at[i - 1])]
           upto(i) == IF i <= Len(s) THEN i ELSE Len(s)
           place(i) == [count |-> upto(i), current |-> Cell(s, h, upto(i) + 1)]
           f == [i \in 0 .. Rounds |-> place(i)]
<1>1. Rounds \in Nat /\ Len(s) \in Nat /\ Len(s) <= Rounds
  BY DistinctCounts
<1>2. list_count(h) = at[Rounds].count
  BY Zenon DEF list_count
<1>3. ASSUME NEW k, NEW c, c # h
      PROVE  turn([count |-> k, current |-> c]) = [count |-> k + 1, current |-> next[c]]
  BY <1>3
<1>4. \A w : w.current = h => turn(w) = w
  OBVIOUS
<1> HIDE DEF turn
<1>5. place(0) = [count |-> 0, current |-> next[h]]
  <2>1. upto(0) = 0 /\ next[h] = Cell(s, h, 1)
    BY <1>1, CellProps DEF Ring
  <2> QED
    BY <2>1
<1>6. ASSUME NEW i \in 1 .. Rounds PROVE place(i) = turn(place(i - 1))
  <2>1. CASE i <= Len(s)
    <3>1. upto(i) = i /\ upto(i - 1) = i - 1
      BY <2>1, <1>1
    <3>2. Cell(s, h, i) = s[i] /\ s[i] # h /\ next[s[i]] = Cell(s, h, i + 1)
      BY <2>1, <1>1, CellProps DEF Ring
    <3>3. place(i - 1) = [count |-> i - 1, current |-> s[i]]
      BY <3>1, <3>2
    <3>4. turn(place(i - 1)) = [count |-> (i - 1) + 1, current |-> next[s[i]]]
      BY <1>3, <3>2, <3>3
    <3> QED
      BY <3>1, <3>2, <3>4
  <2>2. CASE i > Len(s)
    <3>1. upto(i) = Len(s) /\ upto(i - 1) = Len(s)
      BY <2>2, <1>1
    <3>2. place(i - 1).current = h /\ place(i) = place(i - 1)
      BY <3>1, CellProps
    <3> HIDE DEF place
    <3> QED
      BY <3>2, <1>4
  <2> QED
    BY <2>1, <2>2, <1>1
<1> HIDE DEF place, upto
<1>7. f = [i \in 0 .. Rounds |->
             IF i = 0 THEN [count |-> 0, current |-> next[h]] ELSE turn(f[i - 1])]
  BY <1>1, <1>5, <1>6
<1>8. at = [i \in 0 .. Rounds |->
              IF i = 0 THEN [count |-> 0, current |-> next[h]] ELSE turn(at[i - 1])]
  BY <1>7
<1> HIDE DEF at, f
<1>9. at[Rounds] = f[Rounds]
  <2>1. at[0] = f[0] /\ \A k \in 1 .. Rounds : at[k] = turn(at[k - 1]) /\ f[k] = turn(f[k - 1])
    BY <1>1, <1>7, <1>8
  <2>2. \A k \in 1 .. Rounds : at[k - 1] = f[k - 1] => at[k] = f[k]
    BY <2>1
  <2> QED
    BY <1>1, <2>1, <2>2, SegmentEquality
<1>10. f[Rounds].count = Len(s)
  BY <1>1 DEF f, place, upto
<1> QED
  BY <1>2, <1>9, <1>10

\* Insertion at either end, and removal.
LEMMA InsertionRepresents ==
    ASSUME NEW n, NEW p, NEW w, NEW q, Represents(n, p, w, q),
           NEW h \in Heads, NEW x \in Nodes, w[x] = NULL, NEW l
    PROVE  /\ l = list_insert_head(Pair(n, p), h, x) =>
                Represents(l.next, l.prev, Put(w, x, h), Put(q, h, Inserted(q[h], 0, x)))
           /\ l = list_insert_tail(Pair(n, p), h, x) =>
                Represents(l.next, l.prev, Put(w, x, h), Put(q, h, Inserted(q[h], Len(q[h]), x)))
<1> DEFINE s == q[h]
<1>1. /\ n \in [Cells -> Cells] /\ p \in [Cells -> Cells]
      /\ s \in Seq(Nodes) /\ Len(s) \in Nat /\ Ring(n, p, h, s)
  BY HeldProps DEF Represents
<1> HIDE DEF s
<1>2. Cell(s, h, 0) = h /\ Cell(s, h, Len(s) + 1) = h
  BY <1>1, CellProps
<1>3. n[h] = Cell(s, h, 0 + 1) /\ p[h] = Cell(s, h, Len(s))
  <2>1. n[Cell(s, h, 0)] = Cell(s, h, 0 + 1) /\ p[Cell(s, h, Len(s) + 1)] = Cell(s, h, Len(s))
    BY <1>1 DEF Ring
  <2> QED
    BY <1>2, <2>1
<1>4. ASSUME l = list_insert_head(Pair(n, p), h, x)
      PROVE  Represents(l.next, l.prev, Put(w, x, h), Put(q, h, Inserted(q[h], 0, x)))
  <2>1. l = Pair(Put(Put(n, x, n[h]), h, x), Put(Put(p, x, h), n[h], x))
    BY <1>1, <1>4, InsertHeadResult
  <2>2. l.next = Put(Put(n, x, n[h]), h, x) /\ l.prev = Put(Put(p, x, h), n[h], x)
    BY <2>1, Assignment
  <2>3. 0 \in 0 .. Len(q[h]) /\ h = Cell(q[h], h, 0) /\ n[h] = Cell(q[h], h, 0 + 1)
    BY <1>1, <1>2, <1>3 DEF s
  <2>4. Represents(Put(Put(n, x, n[h]), h, x), Put(Put(p, x, h), n[h], x),
                   Put(w, x, h), Put(q, h, Inserted(q[h], 0, x)))
    BY <2>3, InsertedRepresents
  <2> QED
    BY <2>2, <2>4
<1>5. ASSUME l = list_insert_tail(Pair(n, p), h, x)
      PROVE  Represents(l.next, l.prev, Put(w, x, h), Put(q, h, Inserted(q[h], Len(q[h]), x)))
  <2>1. l = Pair(Put(Put(n, x, h), p[h], x), Put(Put(p, x, p[h]), h, x))
    BY <1>1, <1>5, InsertTailResult
  <2>2. l.next = Put(Put(n, x, h), p[h], x) /\ l.prev = Put(Put(p, x, p[h]), h, x)
    BY <2>1, Assignment
  <2>3. Len(q[h]) \in 0 .. Len(q[h]) /\ p[h] = Cell(q[h], h, Len(q[h])) /\ h = Cell(q[h], h, Len(q[h]) + 1)
    BY <1>1, <1>2, <1>3 DEF s
  <2>4. Represents(Put(Put(n, x, h), p[h], x), Put(Put(p, x, p[h]), h, x),
                   Put(w, x, h), Put(q, h, Inserted(q[h], Len(q[h]), x)))
    BY <2>3, InsertedRepresents
  <2> QED
    BY <2>2, <2>4
<1> QED
  BY <1>4, <1>5

\* What list_remove makes of links that stand for sequences.
LEMMA RemovalRepresents ==
    ASSUME NEW n, NEW p, NEW w, NEW q, Represents(n, p, w, q),
           NEW h \in Heads, NEW k \in 1 .. Len(q[h]), NEW x, x = q[h][k],
           NEW l, l = list_remove(Pair(n, p), x)
    PROVE  /\ l = Pair(l.next, l.prev)
           /\ Represents(l.next, l.prev, Put(w, x, NULL), Put(q, h, Removed(q[h], k)))
<1>1. /\ n \in [Cells -> Cells] /\ p \in [Cells -> Cells] /\ x \in Cells
  BY HeldProps, CellTypes DEF Represents
<1>2. p[x] # x
  <2> DEFINE s == q[h]
  <2>1. s \in Seq(Nodes) /\ Distinct(s) /\ Ring(n, p, h, s) /\ k \in 1 .. Len(s) /\ x = s[k]
    BY HeldProps
  <2> HIDE DEF s
  <2>2. Len(s) \in Nat /\ k - 1 \in 0 .. Len(s) /\ (k - 1) + 1 = k
    BY <2>1
  <2>3. p[Cell(s, h, (k - 1) + 1)] = Cell(s, h, k - 1)
    BY <2>1, <2>2 DEF Ring
  <2>4. Cell(s, h, k) = x /\ Cell(s, h, k - 1) # Cell(s, h, k)
    BY <2>1, <2>2, CellProps, CellsDistinct
  <2> QED
    BY <2>2, <2>3, <2>4
<1>3. l = Pair(Put(Put(n, p[x], n[x]), x, NULL), Put(Put(p, n[x], p[x]), x, NULL))
  BY <1>1, <1>2, RemoveResult
<1>4. /\ l.next = Put(Put(n, p[x], n[x]), x, NULL)
      /\ l.prev = Put(Put(p, n[x], p[x]), x, NULL)
  <2> DEFINE n2 == Put(Put(n, p[x], n[x]), x, NULL)
             p2 == Put(Put(p, n[x], p[x]), x, NULL)
  <2>1. l = Pair(n2, p2)
    BY <1>3
  <2> HIDE DEF n2, p2
  <2>2. Pair(n2, p2).next = n2 /\ Pair(n2, p2).prev = p2
    BY Assignment
  <2> QED
    BY <2>1, <2>2 DEF n2, p2
<1>5. Represents(Put(Put(n, p[x], n[x]), x, NULL), Put(Put(p, n[x], p[x]), x, NULL),
                 Put(w, x, NULL), Put(q, h, Removed(q[h], k)))
  BY RemovedRepresents
<1> QED
  BY <1>3, <1>4, <1>5

-----------------------------------------------------------------------------
(* list_clear                                                               *)

LinkPairs == [next : [Cells -> Cells], prev : [Cells -> Cells]]
Clearings == [l : LinkPairs, current : Cells]

\* One turn of the loop.
ClearTurn(wk, head) ==
    IF wk.current = head THEN wk
    ELSE [l |-> list_remove(wk.l, wk.current), current |-> wk.l.next[wk.current]]

\* list_remove of any links leaves links.
LEMMA RemoveType ==
    ASSUME NEW l \in LinkPairs, NEW x \in Cells
    PROVE  list_remove(l, x) \in LinkPairs
<1> DEFINE a == SetNext(l, l.prev[x], l.next[x])
           b == SetPrev(a, a.next[x], a.prev[x])
           c == SetPrev(b, x, NULL)
<1>1. ASSUME NEW k \in LinkPairs, NEW y \in Cells, NEW v \in Cells
      PROVE  /\ SetNext(k, y, v) \in LinkPairs /\ SetPrev(k, y, v) \in LinkPairs
             /\ k.next[y] \in Cells /\ k.prev[y] \in Cells
  BY DEF LinkPairs, SetNext, SetPrev
<1>2. a \in LinkPairs
  BY <1>1
<1>3. list_remove(l, x) = SetNext(SetPrev(b, x, NULL), x, NULL)
  BY RemoveSteps
<1> HIDE DEF a
<1>4. b \in LinkPairs
  BY <1>1, <1>2
<1> HIDE DEF b
<1>5. SetNext(SetPrev(b, x, NULL), x, NULL) \in LinkPairs
  BY <1>1, <1>4, CellTypes
<1> QED
  BY <1>3, <1>5

\* What holds before the loop of list_clear and is kept by each turn holds after it.
LEMMA ClearLoop ==
    ASSUME NEW l \in LinkPairs, NEW h \in Heads, NEW T,
           <<0, [l |-> l, current |-> l.next[h]]>> \in T,
           \A k \in 1 .. Rounds, a \in Clearings : <<k - 1, a>> \in T => <<k, ClearTurn(a, h)>> \in T
    PROVE  \E a \in Clearings : <<Rounds, a>> \in T /\ list_clear(l, h) = a.l
<1> DEFINE turn(a) == ClearTurn(a, h)
           first == [l |-> l, current |-> l.next[h]]
           G == [k \in Nat |-> [a \in Clearings |-> turn(a)]]
           at == CHOOSE at : at = [i \in 0 .. Rounds |->
                   IF i = 0 THEN [l |-> l, current |-> l.next[h]]
                   ELSE IF at[i - 1].current = h THEN at[i - 1]
                        ELSE [l |-> list_remove(at[i - 1].l, at[i - 1].current),
                              current |-> at[i - 1].l.next[at[i - 1].current]]]
<1>1. Rounds \in Nat
  BY ListAssumption, FS_CardinalityType DEF Rounds
<1>2. ASSUME NEW a \in Clearings PROVE turn(a) \in Clearings
  <2>1. a.l \in LinkPairs /\ a.current \in Cells
    BY DEF Clearings
  <2>2. list_remove(a.l, a.current) \in LinkPairs /\ a.l.next[a.current] \in Cells
    BY <2>1, RemoveType DEF LinkPairs
  <2> QED
    BY <2>2 DEF ClearTurn, Clearings
<1>3. first \in Clearings
  BY CellTypes DEF Clearings, LinkPairs
<1>4. at = [i \in 0 .. Rounds |->
              IF i = 0 THEN [l |-> l, current |-> l.next[h]]
              ELSE IF at[i - 1].current = h THEN at[i - 1]
                   ELSE [l |-> list_remove(at[i - 1].l, at[i - 1].current),
                         current |-> at[i - 1].l.next[at[i - 1].current]]]
      <=> at = [i \in 0 .. Rounds |-> IF i = 0 THEN first ELSE turn(at[i - 1])]
  BY DEF ClearTurn
<1>5. list_clear(l, h) = at[Rounds].l
  BY Zenon DEF list_clear
<1>6. G \in StepsOn(Clearings)
  <2> HIDE DEF turn
  <2> QED
    BY <1>2 DEF StepsOn
<1>7. PICK f : Unfolds(f, Clearings, first, G, Rounds)
  <2> HIDE DEF G, first
  <2> QED
    BY <1>1, <1>3, <1>6, RecursionExists
<1> HIDE DEF first
<1>8. ASSUME NEW k \in 1 .. Rounds PROVE f[k] = turn(f[k - 1])
  <2>1. k \in Nat /\ k - 1 \in 0 .. Rounds
    BY <1>1
  <2>2. f[k - 1] \in Clearings /\ f[k] = G[k][f[k - 1]]
    BY <1>7, <2>1 DEF Unfolds
  <2> HIDE DEF turn
  <2> QED
    BY <2>1, <2>2
<1>9. f = [i \in 0 .. Rounds |-> IF i = 0 THEN first ELSE turn(f[i - 1])]
  BY <1>1, <1>7, <1>8 DEF Unfolds
<1>10. at = [i \in 0 .. Rounds |-> IF i = 0 THEN first ELSE turn(at[i - 1])]
  BY <1>4, <1>9 DEF ClearTurn, first
<1> HIDE DEF at
<1> DEFINE P == {k \in 0 .. Rounds : at[k] \in Clearings /\ <<k, at[k]>> \in T}
<1>11. 0 \in P
  BY <1>1, <1>3, <1>10 DEF first
<1>12. ASSUME NEW k \in 1 .. Rounds, k - 1 \in P PROVE k \in P
  <2>1. at[k] = turn(at[k - 1]) /\ k \in 0 .. Rounds
    BY <1>1, <1>10
  <2>2. at[k - 1] \in Clearings /\ <<k - 1, at[k - 1]>> \in T
    BY <1>12
  <2>3. <<k, turn(at[k - 1])>> \in T
    BY <2>2
  <2> HIDE DEF turn
  <2> QED
    BY <1>2, <2>1, <2>2, <2>3
<1> HIDE DEF P
<1>13. Rounds \in P
  <2>1. \A k \in 0 .. Rounds : k \in P
    BY <1>1, <1>11, <1>12, SegmentInduction
  <2> QED
    BY <1>1, <2>1
<1> QED
  BY <1>5, <1>13 DEF P

\* s without its first i elements, and w when they have been freed.
Rest(s, i) == [j \in 1 .. Len(s) - i |-> s[i + j]]
Freed(w, s, i) == [x \in Nodes |-> IF \E j \in 1 .. i : s[j] = x THEN NULL ELSE w[x]]

\* What Rest is, what its ring looks like, and how it shrinks.
LEMMA RestProps ==
    ASSUME NEW s \in Seq(Nodes), NEW h \in Heads, NEW i \in 0 .. Len(s)
    PROVE  /\ Rest(s, i) \in Seq(Nodes) /\ Len(Rest(s, i)) = Len(s) - i
           /\ \A j \in 1 .. Len(s) - i : Rest(s, i)[j] = s[i + j]
           /\ \A j \in Nat \ {0} : Cell(Rest(s, i), h, j) = Cell(s, h, i + j)
           /\ Rest(s, 0) = s
           /\ Rest(s, Len(s)) = <<>>
           /\ i < Len(s) => Removed(Rest(s, i), 1) = Rest(s, i + 1)
<1>1. Len(s) \in Nat
  OBVIOUS
<1>2. ASSUME NEW k \in 0 .. Len(s)
      PROVE  /\ Rest(s, k) \in Seq(Nodes) /\ Len(Rest(s, k)) = Len(s) - k
             /\ \A j \in 1 .. Len(s) - k : Rest(s, k)[j] = s[k + j]
  BY <1>1 DEF Rest
<1>3. \A j \in Nat \ {0} : Cell(Rest(s, i), h, j) = Cell(s, h, i + j)
  BY <1>1, <1>2 DEF Cell
<1>4. Rest(s, 0) = s
  <2>1. \A j \in 1 .. Len(s) : Rest(s, 0)[j] = s[j]
    BY <1>1, <1>2
  <2> QED
    BY <2>1, <1>1, <1>2, SeqEqual
<1>5. Rest(s, Len(s)) = <<>>
  <2>1. Rest(s, Len(s)) \in Seq(Nodes) /\ Len(Rest(s, Len(s))) = 0
    BY <1>1, <1>2
  <2> QED
    BY <2>1, EmptySeq
<1>6. ASSUME i < Len(s) PROVE Removed(Rest(s, i), 1) = Rest(s, i + 1)
  <2> DEFINE r == Rest(s, i)
             t == Removed(r, 1)
             u == Rest(s, i + 1)
  <2>1. r \in Seq(Nodes) /\ Len(r) = Len(s) - i /\ \A j \in 1 .. Len(s) - i : r[j] = s[i + j]
    BY <1>2
  <2>2. u \in Seq(Nodes) /\ Len(u) = Len(s) - (i + 1) /\ \A j \in 1 .. Len(s) - (i + 1) : u[j] = s[(i + 1) + j]
    <3>1. i + 1 \in 0 .. Len(s)
      BY <1>1, <1>6
    <3> QED
      BY <1>2, <3>1
  <2> HIDE DEF r, u
  <2>3. t \in Seq(Nodes) /\ Len(t) = Len(r) - 1 /\ \A j \in 1 .. Len(r) - 1 : t[j] = IF j < 1 THEN r[j] ELSE r[j + 1]
    <3>1. 1 \in 1 .. Len(r)
      BY <1>1, <1>6, <2>1
    <3> QED
      BY <2>1, <3>1, RemovedProps
  <2> HIDE DEF t
  <2>4. ASSUME NEW j \in 1 .. Len(t) PROVE t[j] = u[j]
    <3>1. j \in 1 .. Len(s) - (i + 1) /\ j + 1 \in 1 .. Len(s) - i /\ i + (j + 1) = (i + 1) + j
      BY <1>1, <1>6, <2>1, <2>3
    <3>2. t[j] = r[j + 1]
      BY <2>3
    <3> QED
      BY <3>1, <3>2, <2>1, <2>2
  <2>5. Len(t) = Len(u)
    BY <1>1, <1>6, <2>1, <2>2, <2>3
  <2>6. t = u
    BY <2>2, <2>3, <2>4, <2>5, SeqEqual
  <2> QED
    BY <2>6 DEF r, t, u
<1> QED
  BY <1>2, <1>3, <1>4, <1>5, <1>6

\* The loop of list_clear after i nodes.
ClearedTo(a, w, q, h, i) ==
    /\ Represents(a.l.next, a.l.prev, Freed(w, q[h], i), Put(q, h, Rest(q[h], i)))
    /\ a.current = Cell(q[h], h, i + 1)

\* A turn of the loop takes away the first node there is.
LEMMA ClearTurnRepresents ==
    ASSUME NEW w, NEW q \in [Heads -> Seq(Nodes)], NEW h \in Heads, NEW i \in 0 .. Len(q[h]) - 1,
           NEW a \in Clearings, ClearedTo(a, w, q, h, i)
    PROVE  ClearedTo(ClearTurn(a, h), w, q, h, i + 1)
<1> DEFINE s == q[h]
           r == Rest(s, i)
           b == ClearTurn(a, h)
           n == a.l.next
           p == a.l.prev
           v == Freed(w, s, i)
           u == Put(q, h, r)
           x == s[i + 1]
<1>1. /\ s \in Seq(Nodes) /\ Len(s) \in Nat /\ i \in 0 .. Len(s) /\ i < Len(s) /\ i \in Nat
      /\ i + 1 \in 1 .. Len(s)
  OBVIOUS
<1>2. /\ Represents(n, p, v, u) /\ a.current = Cell(s, h, i + 1)
      /\ u[h] = r /\ a.l = Pair(n, p)
  BY DEF ClearedTo, Clearings, LinkPairs, Pair, Put
<1> HIDE DEF s, u, n, p
<1>3. /\ r \in Seq(Nodes) /\ Len(r) = Len(s) - i /\ r[1] = s[i + 1] /\ Removed(r, 1) = Rest(s, i + 1)
      /\ Cell(r, h, 1) = Cell(s, h, i + 1) /\ Cell(r, h, 2) = Cell(s, h, i + 2)
  <2>1. /\ \A j \in 1 .. Len(s) - i : r[j] = s[i + j]
        /\ \A j \in Nat \ {0} : Cell(r, h, j) = Cell(s, h, i + j)
    BY <1>1, RestProps
  <2>2. 1 \in 1 .. Len(s) - i /\ 1 \in Nat \ {0} /\ 2 \in Nat \ {0}
    BY <1>1
  <2>3. r \in Seq(Nodes) /\ Len(r) = Len(s) - i /\ Removed(r, 1) = Rest(s, i + 1)
    BY <1>1, RestProps
  <2> HIDE DEF r
  <2> QED
    BY <2>1, <2>2, <2>3
<1> HIDE DEF r
<1>4. Cell(s, h, i + 1) = x /\ x # h /\ x \in Nodes
  BY <1>1, CellProps
<1> HIDE DEF x
<1>5. b = [l |-> list_remove(Pair(n, p), x), current |-> n[x]]
  BY <1>2, <1>4 DEF ClearTurn, n
<1>6. n[x] = Cell(s, h, (i + 1) + 1)
  <2>1. Ring(n, p, h, r)
    BY <1>2, HeldProps
  <2>2. 1 \in 0 .. Len(r)
    BY <1>1, <1>3
  <2>3. n[Cell(r, h, 1)] = Cell(r, h, 1 + 1)
    BY <2>1, <2>2 DEF Ring
  <2> QED
    BY <1>1, <1>3, <1>4, <2>3
<1> DEFINE l == list_remove(Pair(n, p), x)
<1>7. Represents(l.next, l.prev, Put(v, x, NULL), Put(u, h, Removed(r, 1)))
  <2>1. 1 \in 1 .. Len(u[h]) /\ x = u[h][1]
    BY <1>1, <1>2, <1>3 DEF x
  <2>2. Represents(l.next, l.prev, Put(v, x, NULL), Put(u, h, Removed(u[h], 1)))
    BY <1>2, <2>1, RemovalRepresents
  <2> QED
    BY <1>2, <2>2
<1>8. Put(v, x, NULL) = Freed(w, s, i + 1)
  <2>1. ASSUME NEW y \in Nodes
        PROVE  (\E j \in 1 .. i + 1 : s[j] = y) <=> y = x \/ \E j \in 1 .. i : s[j] = y
    <3>1. \A j : j \in 1 .. i + 1 <=> j \in 1 .. i \/ j = i + 1
      BY <1>1
    <3> QED
      BY <3>1 DEF x
  <2>2. Put(v, x, NULL) = [y \in Nodes |-> IF y = x THEN NULL ELSE v[y]]
    BY <1>4 DEF Put, v, Freed
  <2>3. \A y \in Nodes : v[y] = IF \E j \in 1 .. i : s[j] = y THEN NULL ELSE w[y]
    BY DEF v, Freed
  <2>4. Freed(w, s, i + 1) = [y \in Nodes |-> IF \E j \in 1 .. i + 1 : s[j] = y THEN NULL ELSE w[y]]
    BY DEF Freed
  <2>5. ASSUME NEW y \in Nodes
        PROVE  (IF y = x THEN NULL ELSE v[y]) = IF \E j \in 1 .. i + 1 : s[j] = y THEN NULL ELSE w[y]
    <3> HIDE DEF v
    <3>1. CASE y = x
      BY <2>1, <3>1
    <3>2. CASE y # x
      <4>1. (\E j \in 1 .. i + 1 : s[j] = y) <=> \E j \in 1 .. i : s[j] = y
        BY <2>1, <3>2
      <4> QED
        BY <2>3, <3>2, <4>1
    <3> QED
      BY <3>1, <3>2
  <2> DEFINE left(y) == IF y = x THEN NULL ELSE v[y]
             right(y) == IF \E j \in 1 .. i + 1 : s[j] = y THEN NULL ELSE w[y]
  <2>6. Put(v, x, NULL) = [y \in Nodes |-> left(y)] /\ Freed(w, s, i + 1) = [y \in Nodes |-> right(y)]
    BY <2>2, <2>4
  <2>7. \A y \in Nodes : left(y) = right(y)
    BY <2>5
  <2> HIDE DEF left, right, v
  <2> QED
    BY <2>6, <2>7
<1>9. Put(u, h, Removed(r, 1)) = Put(q, h, Rest(s, i + 1))
  BY <1>3 DEF Put, u
<1> HIDE DEF l, b, v
<1>10. b.l = l /\ b.current = Cell(s, h, (i + 1) + 1)
  BY <1>5, <1>6 DEF l
<1>11. Represents(b.l.next, b.l.prev, Freed(w, s, i + 1), Put(q, h, Rest(s, i + 1)))
  BY <1>7, <1>8, <1>9, <1>10
<1> QED
  BY <1>10, <1>11 DEF ClearedTo, b, s

\* list_clear empties its list, frees its nodes, and changes no other list.
LEMMA ClearedRepresents ==
    ASSUME NEW n, NEW p, NEW w, NEW q, Represents(n, p, w, q), NEW h \in Heads,
           NEW l, l = list_clear(Pair(n, p), h)
    PROVE  Represents(l.next, l.prev, [x \in Nodes |-> IF w[x] = h THEN NULL ELSE w[x]],
                      Put(q, h, <<>>))
<1> DEFINE s == q[h]
           upto(k) == IF k <= Len(s) THEN k ELSE Len(s)
           T == {b \in Nat \X Clearings : ClearedTo(b[2], w, q, h, upto(b[1]))}
           first == [l |-> Pair(n, p), current |-> n[h]]
<1>1. /\ n \in [Cells -> Cells] /\ p \in [Cells -> Cells]
      /\ w \in [Nodes -> Heads \union {NULL}] /\ q \in [Heads -> Seq(Nodes)]
      /\ s \in Seq(Nodes) /\ Len(s) \in Nat /\ Distinct(s) /\ Ring(n, p, h, s)
  BY HeldProps DEF Represents, Held
<1>2. Rounds \in Nat /\ Len(s) <= Rounds
  BY <1>1, DistinctCounts
<1>3. Pair(n, p) \in LinkPairs /\ first \in Clearings
  BY <1>1, CellTypes DEF Pair, LinkPairs, Clearings
<1>4. ClearedTo(first, w, q, h, 0)
  <2>1. Freed(w, s, 0) = w
    BY <1>1 DEF Freed
  <2>2. Put(q, h, Rest(s, 0)) = q
    <3>1. Rest(s, 0) = s
      BY <1>1, RestProps
    <3> QED
      BY <1>1, <3>1 DEF Put
  <2>3. n[h] = Cell(s, h, 0 + 1)
    <3>1. 0 \in 0 .. Len(s) /\ Cell(s, h, 0) = h
      BY <1>1, CellProps
    <3> QED
      BY <1>1, <3>1 DEF Ring
  <2>4. first.l.next = n /\ first.l.prev = p /\ first.current = n[h]
    BY DEF Pair
  <2> HIDE DEF first
  <2> QED
    BY <2>1, <2>2, <2>3, <2>4 DEF ClearedTo
<1>5. upto(0) = 0
  BY <1>1
<1>6. ASSUME NEW k \in 1 .. Rounds, NEW a \in Clearings, <<k - 1, a>> \in T
      PROVE  <<k, ClearTurn(a, h)>> \in T
  <2>1. ClearedTo(a, w, q, h, upto(k - 1))
    BY <1>6
  <2>2. k \in Nat /\ k - 1 \in Nat
    BY <1>2
  <2>3. ClearTurn(a, h) \in Clearings
    <3>1. a.l \in LinkPairs /\ a.current \in Cells
      BY DEF Clearings
    <3>2. list_remove(a.l, a.current) \in LinkPairs /\ a.l.next[a.current] \in Cells
      BY <3>1, RemoveType DEF LinkPairs
    <3> QED
      BY <3>2 DEF ClearTurn, Clearings
  <2>4. ClearedTo(ClearTurn(a, h), w, q, h, upto(k))
    <3>1. CASE k <= Len(s)
      <4>1. upto(k) = (k - 1) + 1 /\ upto(k - 1) = k - 1 /\ k - 1 \in 0 .. Len(q[h]) - 1
        BY <3>1, <2>2, <1>1
      <4>2. ClearedTo(a, w, q, h, k - 1)
        BY <2>1, <4>1
      <4>3. ClearedTo(ClearTurn(a, h), w, q, h, (k - 1) + 1)
        BY <1>1, <4>1, <4>2, ClearTurnRepresents
      <4> QED
        BY <4>1, <4>3
    <3>2. CASE k > Len(s)
      <4>1. upto(k) = Len(s) /\ upto(k - 1) = Len(s)
        BY <3>2, <2>2, <1>1
      <4>2. a.current = h
        <5>1. a.current = Cell(s, h, Len(s) + 1)
          BY <2>1, <4>1 DEF ClearedTo
        <5> QED
          BY <5>1, <1>1, CellProps
      <4>3. ClearTurn(a, h) = a
        BY <4>2 DEF ClearTurn
      <4> QED
        BY <2>1, <4>1, <4>3
    <3> QED
      BY <3>1, <3>2, <2>2, <1>1
  <2> QED
    BY <2>2, <2>3, <2>4
<1>7. <<0, first>> \in T
  BY <1>3, <1>4, <1>5
<1>8. Pair(n, p).next[h] = n[h]
  BY DEF Pair
<1> HIDE DEF T
<1>9. PICK a \in Clearings : <<Rounds, a>> \in T /\ list_clear(Pair(n, p), h) = a.l
  <2>1. <<0, [l |-> Pair(n, p), current |-> Pair(n, p).next[h]]>> \in T
    BY <1>7, <1>8
  <2> QED
    BY <2>1, <1>3, <1>6, ClearLoop
<1>10. ClearedTo(a, w, q, h, Len(s)) /\ l = a.l
  <2>1. upto(Rounds) = Len(s)
    BY <1>1, <1>2
  <2>2. ClearedTo(a, w, q, h, upto(Rounds))
    BY <1>9 DEF T
  <2> QED
    BY <2>1, <2>2, <1>9
<1>11. Freed(w, s, Len(s)) = [x \in Nodes |-> IF w[x] = h THEN NULL ELSE w[x]]
  <2>1. ASSUME NEW x \in Nodes PROVE (\E j \in 1 .. Len(s) : s[j] = x) <=> w[x] = h
    BY HeldProps, CellTypes DEF Represents, Held
  <2> QED
    BY <2>1 DEF Freed
<1>12. Rest(s, Len(s)) = <<>>
  <2>1. 0 \in 0 .. Len(s)
    BY <1>1
  <2> QED
    BY <1>1, <2>1, RestProps
<1> QED
  BY <1>10, <1>11, <1>12 DEF ClearedTo

-----------------------------------------------------------------------------
(* The steps                                                                *)

\* The sequences that links stand for are those that a walk meets.
LEMMA MetRepresents ==
    ASSUME NEW n, NEW p, NEW w, NEW q, Represents(n, p, w, q)
    PROVE  q = [h \in Heads |-> Met(n, h)]
<1>1. q \in [Heads -> Seq(Nodes)]
  BY DEF Represents, Held
<1>2. \A h \in Heads : Met(n, h) = q[h]
  BY HeldProps, MetExact
<1> QED
  BY <1>1, <1>2

\* What an insertion, a removal and a clearing do to the sequences.
HasInserted(h, x, k) ==
    /\ Represents(next', prev', where', Lists')
    /\ where[x] = NULL
    /\ k \in {0, Len(Lists[h])}
    /\ Lists' = Put(Lists, h, Inserted(Lists[h], k, x))

HasRemoved(h, x, k) ==
    /\ Represents(next', prev', where', Lists')
    /\ Lists[h][k] = x
    /\ Lists' = Put(Lists, h, Removed(Lists[h], k))

HasMoved(h, x, k, g) ==
    /\ Represents(next', prev', where', Lists')
    /\ Lists[h][k] = x
    /\ Lists' = Put(Put(Lists, h, Removed(Lists[h], k)), g, Inserted(Lists[g], Len(Lists[g]), x))

HasCleared(h) ==
    /\ Represents(next', prev', where', Lists')
    /\ Lists' = Put(Lists, h, <<>>)

\* New links that stand for sequences make these the new lists.
LEMMA BecomesLists ==
    ASSUME NEW l, Becomes(l), NEW q, Represents(l.next, l.prev, where', q)
    PROVE  Represents(next', prev', where', Lists') /\ Lists' = q
<1>1. Represents(next', prev', where', q)
  BY DEF Becomes
<1>2. Lists' = [h \in Heads |-> Met(next', h)]
  BY DEF Lists, Contents
<1>3. q = [h \in Heads |-> Met(next', h)]
  BY <1>1, MetRepresents
<1> QED
  BY <1>1, <1>2, <1>3

\* The action insert puts a free node at one end of one list.
LEMMA InsertStep ==
    ASSUME Represents(next, prev, where, Lists), insert
    PROVE  \E h \in Heads, x \in Nodes, k \in Nat : HasInserted(h, x, k)
<1>1. PICK h \in Heads, x \in Nodes :
        /\ where[x] = NULL
        /\ Becomes(list_insert_head(Links, h, x)) \/ Becomes(list_insert_tail(Links, h, x))
        /\ where' = Put(where, x, h)
  BY DEF insert, Free, Put
<1>2. Links = Pair(next, prev)
  BY DEF Links, Pair
<1>3. 0 \in Nat /\ Len(Lists[h]) \in Nat
  BY HeldProps
<1>4. CASE Becomes(list_insert_head(Links, h, x))
  <2>1. PICK l : l = list_insert_head(Pair(next, prev), h, x) /\ Becomes(l)
    BY <1>2, <1>4
  <2>2. Represents(l.next, l.prev, where', Put(Lists, h, Inserted(Lists[h], 0, x)))
    BY <1>1, <2>1, InsertionRepresents
  <2>3. HasInserted(h, x, 0)
    BY <1>1, <2>1, <2>2, BecomesLists DEF HasInserted
  <2> QED
    BY <1>3, <2>3
<1>5. CASE Becomes(list_insert_tail(Links, h, x))
  <2>1. PICK l : l = list_insert_tail(Pair(next, prev), h, x) /\ Becomes(l)
    BY <1>2, <1>5
  <2>2. Represents(l.next, l.prev, where', Put(Lists, h, Inserted(Lists[h], Len(Lists[h]), x)))
    BY <1>1, <2>1, InsertionRepresents
  <2>3. HasInserted(h, x, Len(Lists[h]))
    BY <1>1, <2>1, <2>2, BecomesLists DEF HasInserted
  <2> QED
    BY <1>3, <2>3
<1> QED
  BY <1>1, <1>4, <1>5

\* Removing a linked node takes it out of the list that its caller put it in.
LEMMA RemoveStep ==
    ASSUME Represents(next, prev, where, Lists), NEW x \in Nodes, where[x] # NULL,
           Becomes(list_remove(Links, x)), where' = [where EXCEPT ![x] = NULL]
    PROVE  /\ where[x] \in Heads
           /\ \E k \in 1 .. Len(Lists[where[x]]) : HasRemoved(where[x], x, k)
<1>1. where[x] \in Heads /\ \E k \in 1 .. Len(Lists[where[x]]) : Lists[where[x]][k] = x
  BY DEF Represents, Held
<1>2. PICK k \in 1 .. Len(Lists[where[x]]) : Lists[where[x]][k] = x
  BY <1>1
<1>3. Links = Pair(next, prev) /\ where' = Put(where, x, NULL)
  BY DEF Links, Pair, Put
<1>4. PICK l : l = list_remove(Pair(next, prev), x) /\ Becomes(l)
  BY <1>3
<1>5. PICK h \in Heads : h = where[x]
  BY <1>1
<1>6. Represents(l.next, l.prev, where', Put(Lists, h, Removed(Lists[h], k)))
  <2>1. k \in 1 .. Len(Lists[h]) /\ x = Lists[h][k]
    BY <1>2, <1>5
  <2>2. Represents(l.next, l.prev, Put(where, x, NULL), Put(Lists, h, Removed(Lists[h], k)))
    BY <1>4, <2>1, RemovalRepresents
  <2> QED
    BY <1>3, <2>2
<1>7. HasRemoved(h, x, k)
  BY <1>2, <1>4, <1>5, <1>6, BecomesLists DEF HasRemoved
<1> QED
  BY <1>1, <1>5, <1>7

\* Moving one takes it out of that list and appends it to another.
LEMMA MoveStep ==
    ASSUME Represents(next, prev, where, Lists), NEW x \in Nodes, where[x] # NULL,
           NEW g \in Heads \ {where[x]},
           Becomes(list_insert_tail(list_remove(Links, x), g, x)), where' = [where EXCEPT ![x] = g]
    PROVE  /\ where[x] \in Heads
           /\ \E k \in 1 .. Len(Lists[where[x]]) : HasMoved(where[x], x, k, g)
<1>1. /\ where[x] \in Heads /\ \E k \in 1 .. Len(Lists[where[x]]) : Lists[where[x]][k] = x
      /\ where \in [Nodes -> Heads \union {NULL}] /\ Lists \in [Heads -> Seq(Nodes)]
  BY DEF Represents, Held
<1>2. PICK k \in 1 .. Len(Lists[where[x]]) : Lists[where[x]][k] = x
  BY <1>1
<1>3. Links = Pair(next, prev)
  BY DEF Links, Pair
<1>4. PICK h \in Heads : h = where[x]
  BY <1>1
<1>5. PICK l : l = list_remove(Pair(next, prev), x)
  OBVIOUS
<1> DEFINE w2 == Put(where, x, NULL)
           q2 == Put(Lists, h, Removed(Lists[h], k))
<1>6. l = Pair(l.next, l.prev) /\ Represents(l.next, l.prev, w2, q2)
  BY <1>2, <1>4, <1>5, RemovalRepresents
<1>7. w2[x] = NULL /\ where' = Put(w2, x, g) /\ q2[g] = Lists[g]
  BY <1>1, <1>4 DEF Put
<1>8. PICK m : m = list_insert_tail(l, g, x) /\ Becomes(m)
  BY <1>3, <1>5
<1> HIDE DEF w2, q2
<1>9. Represents(m.next, m.prev, where', Put(q2, g, Inserted(q2[g], Len(q2[g]), x)))
  <2>1. m = list_insert_tail(Pair(l.next, l.prev), g, x)
    BY <1>6, <1>8
  <2>2. Represents(m.next, m.prev, Put(w2, x, g), Put(q2, g, Inserted(q2[g], Len(q2[g]), x)))
    BY <1>6, <1>7, <2>1, InsertionRepresents
  <2> QED
    BY <1>7, <2>2
<1>10. HasMoved(h, x, k, g)
  <2>1. /\ Represents(next', prev', where', Lists')
        /\ Lists' = Put(q2, g, Inserted(q2[g], Len(q2[g]), x))
    BY <1>8, <1>9, BecomesLists
  <2> QED
    BY <1>2, <1>4, <1>7, <2>1 DEF HasMoved, q2
<1> QED
  BY <1>1, <1>4, <1>10

\* The action clear empties one list.
LEMMA ClearStep ==
    ASSUME Represents(next, prev, where, Lists), clear
    PROVE  \E h \in Heads : HasCleared(h)
<1>1. PICK h \in Heads :
        /\ Becomes(list_clear(Links, h))
        /\ where' = [x \in Nodes |-> IF where[x] = h THEN NULL ELSE where[x]]
  BY DEF clear
<1>2. PICK l : l = list_clear(Pair(next, prev), h) /\ Becomes(l)
  BY <1>1 DEF Links, Pair
<1>3. Represents(l.next, l.prev, where', Put(Lists, h, <<>>))
  BY <1>1, <1>2, ClearedRepresents
<1>4. HasCleared(h)
  BY <1>2, <1>3, BecomesLists DEF HasCleared
<1> QED
  BY <1>4

-----------------------------------------------------------------------------
(* Walks                                                                    *)

\* A walk after the call for node x, when c is next.
Called(wk, x, c) == [wk EXCEPT !.current = c, !.visited = Append(@, x)]

\* The sequence of a list may change during a call as long as what comes after the node
\* that the call is for is still there, in its order.
LEMMA OnTrackStep ==
    ASSUME NEW wk \in Walks, NEW s \in Seq(Nodes), NEW j \in 1 .. Len(s), OnTrack(wk, s, j),
           NEW t \in Seq(Nodes), NEW i \in 1 .. Len(t) + 1,
           Cell(t, wk.head, i) = Cell(s, wk.head, j + 1),
           \A k \in j + 1 .. Len(s) : i + (k - j) - 1 <= Len(t) /\ t[i + (k - j) - 1] = s[k],
           NEW wk2, wk2 = Called(wk, s[j], Cell(s, wk.head, j + 1))
    PROVE  OnTrack(wk2, t, i)
<1> DEFINE v == wk.visited
           f == wk.first
<1>1. v \in Seq(Nodes) /\ f \in Seq(Nodes) /\ Len(v) \in Nat /\ Len(f) \in Nat /\ Len(s) \in Nat
      /\ Len(t) \in Nat
  BY DEF Walks
<1>2. /\ wk2.visited = Append(v, s[j]) /\ wk2.first = f /\ wk2.head = wk.head
      /\ wk2.current = Cell(s, wk.head, j + 1)
  BY DEF Walks, Called
<1>3. /\ \A k \in 1 .. Len(f) : k <= Len(v) => v[k] = f[k]
      /\ \A k \in 1 .. Len(f) : k > Len(v) => j + (k - Len(v)) - 1 <= Len(s) /\ s[j + (k - Len(v)) - 1] = f[k]
  BY DEF OnTrack
<1>4. Len(Append(v, s[j])) = Len(v) + 1 /\ Append(v, s[j])[Len(v) + 1] = s[j]
      /\ \A k \in 1 .. Len(v) : Append(v, s[j])[k] = v[k]
  BY <1>1
<1> HIDE DEF v, f
<1>5. ASSUME NEW k \in 1 .. Len(f), k <= Len(v) + 1
      PROVE  Append(v, s[j])[k] = f[k]
  <2>1. CASE k <= Len(v)
    BY <2>1, <1>1, <1>3, <1>4
  <2>2. CASE k = Len(v) + 1
    <3>1. j + (k - Len(v)) - 1 = j /\ k > Len(v)
      BY <2>2, <1>1
    <3>2. s[j] = f[k]
      BY <3>1, <1>3
    <3> QED
      BY <2>2, <3>2, <1>4
  <2> QED
    BY <2>1, <2>2, <1>1, <1>5
<1>6. ASSUME NEW k \in 1 .. Len(f), k > Len(v) + 1
      PROVE  i + (k - (Len(v) + 1)) - 1 <= Len(t) /\ t[i + (k - (Len(v) + 1)) - 1] = f[k]
  <2> DEFINE m == j + (k - Len(v)) - 1
  <2>1. m \in j + 1 .. Len(s) /\ s[m] = f[k] /\ i + (m - j) - 1 = i + (k - (Len(v) + 1)) - 1
    BY <1>1, <1>3, <1>6
  <2> HIDE DEF m
  <2> QED
    BY <2>1
<1> DEFINE a == Append(v, s[j])
<1>7. wk2.visited = a /\ Len(a) = Len(v) + 1 /\ wk2.first = f /\ wk2.current = Cell(t, wk2.head, i)
  BY <1>2, <1>4
<1>8. \A k \in 1 .. Len(f) : k <= Len(a) => a[k] = f[k]
  BY <1>5, <1>7
<1> HIDE DEF a
<1>9. \A k \in 1 .. Len(f) : k > Len(a) => i + (k - Len(a)) - 1 <= Len(t) /\ t[i + (k - Len(a)) - 1] = f[k]
  BY <1>6, <1>7
<1> QED
  BY <1>7, <1>8, <1>9 DEF OnTrack

\* A walk that is where it should be satisfies what WalkComplete says.
LEMMA OnTrackComplete ==
    ASSUME Represents(next, prev, where, Lists), WalkInv
    PROVE  WalkComplete
<1>1. CASE walk.head = NULL
  BY <1>1 DEF WalkInv, WalkComplete, Idle
<1>2. CASE walk.head # NULL
  <2> DEFINE h == walk.head
             s == Contents(h)
  <2>1. h \in Heads /\ walk.first \in Seq(Nodes) /\ walk.visited \in Seq(Nodes)
    BY <1>2 DEF WalkInv, Walks
  <2>2. s \in Seq(Nodes)
    <3>1. Lists[h] \in Seq(Nodes)
      BY <2>1, HeldProps
    <3> QED
      BY <2>1, <3>1 DEF Lists
  <2>3. PICK j \in 1 .. Len(s) + 1 : OnTrack(walk, s, j)
    BY <1>2 DEF WalkInv
  <2> HIDE DEF s
  <2>4. Len(s) \in Nat /\ Len(walk.first) \in Nat /\ Len(walk.visited) \in Nat
    BY <2>1, <2>2
  <2>5. walk.current \in Nodes \union {h}
    BY <2>1, <2>2, <2>3, <2>4, CellProps DEF OnTrack, Cell
  <2>6. ASSUME walk.current = h, Len(walk.visited) < Len(walk.first) PROVE FALSE
    <3>1. j = Len(s) + 1
      BY <2>6, <2>1, <2>2, <2>3, <2>4, CellProps DEF OnTrack
    <3> DEFINE k == Len(walk.visited) + 1
    <3>2. k \in 1 .. Len(walk.first) /\ k > Len(walk.visited) /\ j + (k - Len(walk.visited)) - 1 = j
      BY <2>4, <2>6, <3>1
    <3>3. j + (k - Len(walk.visited)) - 1 <= Len(s)
      BY <2>3, <3>2 DEF OnTrack
    <3> QED
      BY <2>4, <3>1, <3>2, <3>3
  <2>7. \A k \in 1 .. Len(walk.first) : k <= Len(walk.visited) => walk.visited[k] = walk.first[k]
    BY <2>3 DEF OnTrack
  <2> QED
    BY <2>4, <2>5, <2>6, <2>7 DEF WalkComplete
<1> QED
  BY <1>1, <1>2

\* Place i of t is where a walk goes on that was at place j of s.
Follows(s, j, t, i, h) ==
    /\ i \in 1 .. Len(t) + 1
    /\ Cell(t, h, i) = Cell(s, h, j + 1)
    /\ \A k \in j + 1 .. Len(s) : i + (k - j) - 1 <= Len(t) /\ t[i + (k - j) - 1] = s[k]

\* There is one after any change that a callback makes.
LEMMA FollowsSame ==
    ASSUME NEW s \in Seq(Nodes), NEW h \in Heads, NEW j \in 1 .. Len(s)
    PROVE  Follows(s, j, s, j + 1, h)
BY DEF Follows

\* When the node of the call has left the list, the walk goes on at its place.
LEMMA FollowsRemoved ==
    ASSUME NEW s \in Seq(Nodes), NEW h \in Heads, NEW j \in 1 .. Len(s)
    PROVE  Follows(s, j, Removed(s, j), j, h)
<1> DEFINE t == Removed(s, j)
<1>1. /\ t \in Seq(Nodes) /\ Len(t) = Len(s) - 1 /\ Len(s) \in Nat
      /\ \A i \in 1 .. Len(s) - 1 : t[i] = IF i < j THEN s[i] ELSE s[i + 1]
      /\ \A i \in 0 .. Len(s) : Cell(t, h, i) = IF i < j THEN Cell(s, h, i) ELSE Cell(s, h, i + 1)
  BY RemovedProps
<1> HIDE DEF t
<1>2. j \in 1 .. Len(t) + 1 /\ Cell(t, h, j) = Cell(s, h, j + 1)
  BY <1>1
<1>3. ASSUME NEW k \in j + 1 .. Len(s)
      PROVE  j + (k - j) - 1 <= Len(t) /\ t[j + (k - j) - 1] = s[k]
  <2>1. k - 1 \in 1 .. Len(s) - 1 /\ ~(k - 1 < j) /\ j + (k - j) - 1 = k - 1 /\ (k - 1) + 1 = k
    BY <1>1
  <2> QED
    BY <1>1, <2>1
<1> QED
  BY <1>2, <1>3 DEF Follows, t

\* When a node was inserted at an end, what follows has moved by one place or not at all.
LEMMA FollowsInserted ==
    ASSUME NEW s \in Seq(Nodes), NEW h \in Heads, NEW j \in 1 .. Len(s), NEW x \in Nodes,
           NEW m \in 0 .. Len(s), m = 0 \/ m = Len(s)
    PROVE  \E i \in Nat : Follows(s, j, Inserted(s, m, x), i, h)
<1> DEFINE t == Inserted(s, m, x)
           i == IF m < j + 1 THEN j + 2 ELSE j + 1
<1>1. Len(s) \in Nat /\ j \in Nat
  OBVIOUS
<1>2. /\ t \in Seq(Nodes) /\ Len(t) = Len(s) + 1
      /\ \A k \in 1 .. Len(s) + 1 : t[k] = IF k <= m THEN s[k] ELSE IF k = m + 1 THEN x ELSE s[k - 1]
      /\ \A k \in 0 .. Len(s) + 2 :
           Cell(t, h, k) = IF k <= m THEN Cell(s, h, k) ELSE IF k = m + 1 THEN x ELSE Cell(s, h, k - 1)
  BY InsertedProps
<1> HIDE DEF t
<1>3. m < j + 1 => m = 0 \/ (m = Len(s) /\ j = Len(s))
  BY <1>1
<1>4. i \in 1 .. Len(t) + 1 /\ i \in Nat
  BY <1>1, <1>2
<1>5. Cell(t, h, i) = Cell(s, h, j + 1)
  BY <1>1, <1>2, <1>3
<1>6. ASSUME NEW k \in j + 1 .. Len(s) PROVE i + (k - j) - 1 <= Len(t) /\ t[i + (k - j) - 1] = s[k]
  <2>1. CASE m = 0
    <3>1. i + (k - j) - 1 = k + 1 /\ k + 1 \in 1 .. Len(s) + 1 /\ ~(k + 1 <= m) /\ k + 1 # m + 1
      BY <2>1, <1>1
    <3>2. t[k + 1] = s[(k + 1) - 1] /\ (k + 1) - 1 = k
      BY <3>1, <1>2
    <3> QED
      BY <3>1, <3>2, <1>1, <1>2
  <2>2. CASE m = Len(s)
    <3>1. i + (k - j) - 1 = k /\ k \in 1 .. Len(s) + 1 /\ k <= m
      BY <2>2, <1>1
    <3> QED
      BY <3>1, <1>1, <1>2
  <2> QED
    BY <2>1, <2>2
<1> HIDE DEF i
<1>7. Follows(s, j, t, i, h)
  BY <1>4, <1>5, <1>6 DEF Follows
<1> QED
  BY <1>4, <1>7 DEF t

\* A callback leaves links that stand for sequences, and the walk has a place to go on.
LEMMA CallbackStep ==
    ASSUME Represents(next, prev, where, Lists), NEW h \in Heads, h = walk.head,
           NEW j \in 1 .. Len(Lists[h]), walk.current = Lists[h][j], callback(walk.current)
    PROVE  /\ Represents(next', prev', where', Lists')
           /\ \E i \in Nat : Follows(Lists[h], j, Lists'[h], i, h)
<1> DEFINE s == Lists[h]
           x == walk.current
<1>1. /\ s \in Seq(Nodes) /\ Len(s) \in Nat /\ Distinct(s) /\ j \in 1 .. Len(s) /\ x = s[j]
      /\ x \in Nodes /\ where[x] = h /\ where[x] # NULL
  BY HeldProps
<1>2. Lists \in [Heads -> Seq(Nodes)]
  BY DEF Represents, Held
<1> HIDE DEF s, x
<1>3. j \in Nat /\ j + 1 \in Nat
  BY <1>1
<1>4. CASE UNCHANGED <<next, prev, where>>
  <2>1. Lists' = Lists
    BY <1>4 DEF Lists, Contents
  <2> QED
    BY <1>1, <1>3, <1>4, <2>1, FollowsSame DEF s
<1>5. CASE Becomes(list_remove(Links, x)) /\ where' = [where EXCEPT ![x] = NULL]
  <2>1. PICK k \in 1 .. Len(s) : HasRemoved(h, x, k)
    BY <1>1, <1>5, RemoveStep DEF s
  <2>2. k = j
    BY <1>1, <2>1 DEF HasRemoved, Distinct, s
  <2>3. Lists'[h] = Removed(s, j)
    BY <1>2, <2>1, <2>2 DEF HasRemoved, Put, s
  <2>4. Follows(s, j, Removed(s, j), j, h)
    BY <1>1, FollowsRemoved
  <2> QED
    BY <1>3, <2>1, <2>3, <2>4 DEF HasRemoved, s
<1>6. CASE \E g \in Heads \ {where[x]} :
             Becomes(list_insert_tail(list_remove(Links, x), g, x)) /\ where' = [where EXCEPT ![x] = g]
  <2>1. PICK g \in Heads \ {where[x]} :
             Becomes(list_insert_tail(list_remove(Links, x), g, x)) /\ where' = [where EXCEPT ![x] = g]
    BY <1>6
  <2>2. PICK k \in 1 .. Len(s) : HasMoved(h, x, k, g)
    BY <1>1, <2>1, MoveStep DEF s
  <2>3. k = j
    BY <1>1, <2>2 DEF HasMoved, Distinct, s
  <2>4. Lists'[h] = Removed(s, j)
    BY <1>1, <1>2, <2>1, <2>2, <2>3 DEF HasMoved, Put, s
  <2>5. Follows(s, j, Removed(s, j), j, h)
    BY <1>1, FollowsRemoved
  <2> QED
    BY <1>3, <2>2, <2>4, <2>5 DEF HasMoved, s
<1>7. CASE insert
  <2>1. PICK g \in Heads, y \in Nodes, k \in Nat : HasInserted(g, y, k)
    BY <1>7, InsertStep
  <2>2. CASE g = h
    <3>1. Lists'[h] = Inserted(s, k, y) /\ k \in {0, Len(s)}
      BY <1>2, <2>1, <2>2 DEF HasInserted, Put, s
    <3>2. k \in 0 .. Len(s) /\ (k = 0 \/ k = Len(s))
      BY <1>1, <3>1
    <3>3. \E i \in Nat : Follows(s, j, Inserted(s, k, y), i, h)
      BY <1>1, <3>2, FollowsInserted
    <3> QED
      BY <2>1, <3>1, <3>3 DEF HasInserted, s
  <2>3. CASE g # h
    <3>1. Lists'[h] = s
      BY <1>2, <2>1, <2>3 DEF HasInserted, Put, s
    <3>2. Follows(s, j, s, j + 1, h)
      BY <1>1, FollowsSame
    <3> QED
      BY <1>3, <2>1, <3>1, <3>2 DEF HasInserted, s
  <2> QED
    BY <2>2, <2>3
<1> QED
  BY <1>1, <1>4, <1>5, <1>6, <1>7 DEF callback, x

-----------------------------------------------------------------------------
(* The theorems                                                             *)

\* The first links stand for empty sequences.
LEMMA ListStarts ==
    ASSUME ListInit
    PROVE  ListIInv /\ Lists = [h \in Heads |-> <<>>]
<1> DEFINE q == [h \in Heads |-> <<>>]
<1>1. /\ next \in [Cells -> Cells] /\ prev = next
      /\ \A h \in Heads : next[h] = h
      /\ \A c \in Cells : c \notin Heads => next[c] = NULL
      /\ where = [x \in Nodes |-> NULL] /\ walk = Idle
  BY CellTypes DEF ListInit
<1>2. q \in [Heads -> Seq(Nodes)] /\ \A h \in Heads : q[h] = <<>> /\ Len(q[h]) = 0
  BY EmptySeq
<1> HIDE DEF q
<1>3. Held(where, q)
  <2>1. \A h \in Heads : Distinct(q[h]) /\ \A k \in 1 .. Len(q[h]) : where[q[h][k]] = h
    BY <1>2 DEF Distinct
  <2>2. where \in [Nodes -> Heads \union {NULL}] /\ \A x \in Nodes : where[x] = NULL
    BY <1>1
  <2> QED
    BY <1>2, <2>1, <2>2 DEF Held
<1>4. ASSUME NEW h \in Heads PROVE Ring(next, prev, h, q[h])
  <2>1. \A k \in 0 .. 0 : Cell(<<>>, h, k) = h /\ Cell(<<>>, h, k + 1) = h
    BY DEF Cell
  <2> QED
    BY <1>1, <1>2, <2>1 DEF Ring
<1>5. Blank(next, prev, where)
  <2>1. \A x \in Nodes : x \in Cells /\ x \notin Heads
    BY CellTypes
  <2>2. NULL \in Cells /\ NULL \notin Heads
    BY CellTypes
  <2> QED
    BY <1>1, <2>1, <2>2 DEF Blank
<1>6. Represents(next, prev, where, q)
  BY <1>1, <1>3, <1>4, <1>5 DEF Represents
<1>7. Lists = q
  BY <1>6, MetRepresents DEF Lists, Contents
<1>8. WalkInv
  BY <1>1, CellTypes, EmptySeq DEF WalkInv, Walks, Idle
<1> QED
  BY <1>6, <1>7, <1>8 DEF ListIInv, q

\* A walk that is not one stays that.
LEMMA IdleWalk ==
    ASSUME walk' = Idle
    PROVE  WalkInv'
<1>1. walk' \in Walks /\ (walk').head = NULL
  BY CellTypes, EmptySeq DEF Walks, Idle
<1> QED
  BY <1>1 DEF WalkInv

\* A call in a walk, whatever the callback does, keeps the invariant.
LEMMA ForEachStep ==
    ASSUME ListIInv, for_each_step
    PROVE  ListIInv'
<1> DEFINE h == walk.head
           s == Lists[h]
<1>1. /\ Represents(next, prev, where, Lists) /\ walk \in Walks
      /\ walk.current # h /\ callback(walk.current)
      /\ walk' = [walk EXCEPT !.current = next[walk.current], !.visited = Append(@, walk.current)]
  BY DEF ListIInv, WalkInv, for_each_step, Advance
<1>2. h \in Heads
  BY <1>1 DEF ListIInv, WalkInv, Idle, Walks
<1>3. s \in Seq(Nodes) /\ Len(s) \in Nat /\ Ring(next, prev, h, s) /\ s = Contents(h)
  <2>1. s = Contents(h)
    BY <1>2 DEF Lists
  <2> QED
    BY <1>1, <1>2, <2>1, HeldProps
<1>4. PICK j \in 1 .. Len(s) + 1 : OnTrack(walk, s, j)
  BY <1>2, <1>3, CellTypes DEF ListIInv, WalkInv
<1> HIDE DEF s
<1>5. j \in 1 .. Len(s) /\ walk.current = s[j] /\ next[s[j]] = Cell(s, h, j + 1)
  <2>1. walk.current = Cell(s, h, j)
    BY <1>4 DEF OnTrack
  <2>2. j \in 1 .. Len(s)
    BY <1>1, <1>2, <1>3, <1>4, <2>1, CellProps
  <2>3. Cell(s, h, j) = s[j] /\ next[Cell(s, h, j)] = Cell(s, h, j + 1)
    BY <1>2, <1>3, <2>2, CellProps DEF Ring
  <2> QED
    BY <2>1, <2>2, <2>3
<1>6. PICK i \in Nat : Represents(next', prev', where', Lists') /\ Follows(s, j, Lists'[h], i, h)
  BY <1>1, <1>2, <1>5, CallbackStep DEF s
<1>7. PICK t : t = Lists'[h]
  OBVIOUS
<1>8. t \in Seq(Nodes) /\ t = Met(next', h)
  <2>1. Lists' \in [Heads -> Seq(Nodes)]
    BY <1>6 DEF Represents, Held
  <2>2. Lists'[h] = Met(next', h)
    BY <1>2 DEF Lists, Contents
  <2> QED
    BY <1>2, <1>7, <2>1, <2>2
<1>9. OnTrack(walk', t, i) /\ i \in 1 .. Len(t) + 1
  <2>1. walk' = Called(walk, s[j], Cell(s, h, j + 1))
    BY <1>1, <1>5 DEF Called
  <2>2. /\ i \in 1 .. Len(t) + 1
        /\ Cell(t, h, i) = Cell(s, h, j + 1)
        /\ \A k \in j + 1 .. Len(s) : i + (k - j) - 1 <= Len(t) /\ t[i + (k - j) - 1] = s[k]
    BY <1>6, <1>7 DEF Follows
  <2>3. PICK wk2 : wk2 = walk'
    OBVIOUS
  <2>4. OnTrack(wk2, t, i)
    BY <1>1, <1>3, <1>4, <1>5, <1>8, <2>1, <2>2, <2>3, OnTrackStep
  <2> QED
    BY <2>2, <2>3, <2>4
<1>10. walk' \in Walks /\ (walk').head = h /\ h # NULL
  <2>1. next[walk.current] \in Cells
    BY <1>1 DEF Represents, Walks
  <2>2. walk.current \in Nodes
    BY <1>3, <1>5
  <2>3. walk.visited \in Seq(Nodes)
    BY <1>1 DEF Walks
  <2>4. Append(walk.visited, walk.current) \in Seq(Nodes)
    BY <2>2, <2>3
  <2> QED
    BY <1>1, <1>2, <2>1, <2>4, CellTypes DEF Walks
<1>11. WalkInv'
  <2>1. Contents(walk.head)' = t
    BY <1>8, <1>10 DEF Contents
  <2> QED
    BY <1>9, <1>10, <2>1 DEF WalkInv
<1> QED
  BY <1>6, <1>11 DEF ListIInv

\* A walk begins at the first place.
LEMMA ForEachBegin ==
    ASSUME ListIInv, for_each_begin
    PROVE  ListIInv'
<1>1. PICK h \in Heads :
        walk' = [head |-> h, current |-> next[h], first |-> Contents(h), visited |-> <<>>]
  BY DEF for_each_begin
<1>2. UNCHANGED <<next, prev, where>>
  BY DEF for_each_begin
<1>3. Lists' = Lists /\ Represents(next', prev', where', Lists') /\ Contents(h)' = Contents(h)
  BY <1>2 DEF Lists, Contents, ListIInv
<1> DEFINE s == Contents(h)
<1>4. s \in Seq(Nodes) /\ Len(s) \in Nat /\ next[h] = Cell(s, h, 1)
  <2>1. s = Lists[h]
    BY DEF Lists
  <2>2. s \in Seq(Nodes) /\ Len(s) \in Nat /\ Ring(next, prev, h, s)
    BY <2>1, HeldProps DEF ListIInv
  <2> HIDE DEF s
  <2>3. Cell(s, h, 0) = h /\ 0 \in 0 .. Len(s)
    BY <2>2, CellProps
  <2> QED
    BY <2>2, <2>3 DEF Ring
<1> HIDE DEF s
<1>5. next[h] \in Cells
  BY <1>4, CellProps
<1>6. walk' \in Walks /\ (walk').head = h /\ h # NULL
  BY <1>1, <1>4, <1>5, CellTypes, EmptySeq DEF Walks, s
<1>7. OnTrack(walk', s, 1)
  <2>1. (walk').first = s /\ (walk').visited = <<>> /\ (walk').current = Cell(s, (walk').head, 1)
    BY <1>1, <1>4 DEF s
  <2>2. Len(<<>>) = 0
    BY EmptySeq
  <2>3. \A k \in 1 .. Len(s) : 1 + (k - 0) - 1 = k /\ k > 0
    BY <1>4
  <2> QED
    BY <1>4, <2>1, <2>2, <2>3 DEF OnTrack
<1>8. WalkInv'
  <2>1. Contents(walk.head)' = s
    BY <1>2, <1>6 DEF Contents, s
  <2>2. 1 \in 1 .. Len(s) + 1
    BY <1>4
  <2> QED
    BY <1>6, <1>7, <2>1, <2>2 DEF WalkInv
<1> QED
  BY <1>3, <1>8 DEF ListIInv

\* Every step keeps the invariant.
LEMMA ListSteps ==
    ASSUME ListIInv, [ListNext]_listVars
    PROVE  ListIInv'
<1>1. CASE walk = Idle /\ (insert \/ remove \/ clear) /\ UNCHANGED walk
  <2>1. Represents(next, prev, where, Lists)
    BY DEF ListIInv
  <2>2. CASE insert
    BY <2>1, <2>2, <1>1, InsertStep, IdleWalk DEF HasInserted, ListIInv
  <2>3. CASE remove
    <3>1. PICK x \in Nodes :
            where[x] # NULL /\ Becomes(list_remove(Links, x)) /\ where' = [where EXCEPT ![x] = NULL]
      BY <2>3 DEF remove, Linked
    <3> QED
      BY <2>1, <3>1, <1>1, RemoveStep, IdleWalk DEF HasRemoved, ListIInv
  <2>4. CASE clear
    BY <2>1, <2>4, <1>1, ClearStep, IdleWalk DEF HasCleared, ListIInv
  <2> QED
    BY <1>1, <2>2, <2>3, <2>4
<1>2. CASE for_each_begin
  BY <1>2, ForEachBegin
<1>3. CASE for_each_step
  BY <1>3, ForEachStep
<1>4. CASE for_each_end
  <2>1. Lists' = Lists
    BY <1>4 DEF for_each_end, Lists, Contents
  <2> QED
    BY <1>4, <2>1, IdleWalk DEF for_each_end, ListIInv
<1>5. CASE UNCHANGED listVars
  <2>1. Lists' = Lists /\ \A h : Contents(h)' = Contents(h)
    BY <1>5 DEF listVars, Lists, Contents
  <2> QED
    BY <1>5, <2>1 DEF listVars, ListIInv, WalkInv
<1> QED
  BY <1>1, <1>2, <1>3, <1>4, <1>5 DEF ListNext

\* The links always stand for sequences of nodes, each in the one that its caller put it
\* in, and a walk keeps its place in one.
THEOREM ListInvariance == ListSpecification => []ListIInv
<1>1. ListInit => ListIInv
  BY ListStarts
<1>2. ListIInv /\ [ListNext]_listVars => ListIInv'
  BY ListSteps
<1> QED
  BY <1>1, <1>2, PTL DEF ListSpecification

\* Links lead to nodes and heads, and nothing is ever stored through a NULL pointer.
THEOREM ListTypeCorrect == ListSpecification => []ListTypeOK
<1>1. ListIInv => ListTypeOK
  BY DEF ListIInv, Represents, Held, Blank, WalkInv, Walks, ListTypeOK
<1> QED
  BY <1>1, ListInvariance, PTL

\* Places in the sequence of an empty list and of a ring.
LEMMA RingPlaces ==
    ASSUME NEW s \in Seq(Nodes), NEW h \in Heads, NEW ring, ring = <<h>> \o s \o <<h>>
    PROVE  /\ Len(ring) = Len(s) + 2
           /\ \A k \in 1 .. Len(s) + 2 : ring[k] = Cell(s, h, k - 1)
<1> DEFINE one == <<h>>
           a == one \o s
<1>1. s \in Seq(Cells) /\ one \in Seq(Cells) /\ Len(one) = 1 /\ one[1] = h /\ Len(s) \in Nat
  BY CellTypes, SeqMonotonic
<1> HIDE DEF one
<1>2. /\ a \in Seq(Cells) /\ Len(a) = Len(s) + 1
      /\ \A k \in 1 .. Len(s) + 1 : a[k] = IF k <= 1 THEN one[k] ELSE s[k - 1]
  <2>1. /\ a \in Seq(Cells) /\ Len(a) = Len(one) + Len(s)
        /\ \A k \in 1 .. Len(one) + Len(s) : a[k] = IF k <= Len(one) THEN one[k] ELSE s[k - Len(one)]
    BY <1>1, ConcatProperties
  <2> HIDE DEF a
  <2> QED
    BY <2>1, <1>1
<1> HIDE DEF a
<1>3. /\ Len(a \o one) = Len(s) + 2
      /\ \A k \in 1 .. Len(s) + 2 : (a \o one)[k] = IF k <= Len(s) + 1 THEN a[k] ELSE one[k - (Len(s) + 1)]
  <2> DEFINE b == a \o one
  <2>1. /\ Len(b) = Len(a) + Len(one)
        /\ \A k \in 1 .. Len(a) + Len(one) : b[k] = IF k <= Len(a) THEN a[k] ELSE one[k - Len(a)]
    BY <1>1, <1>2, ConcatProperties
  <2> HIDE DEF b
  <2>2. /\ Len(b) = Len(s) + 2
        /\ \A k \in 1 .. Len(s) + 2 : b[k] = IF k <= Len(s) + 1 THEN a[k] ELSE one[k - (Len(s) + 1)]
    BY <2>1, <1>1, <1>2
  <2> QED
    BY <2>2 DEF b
<1>4. ASSUME NEW k \in 1 .. Len(s) + 2 PROVE (a \o one)[k] = Cell(s, h, k - 1)
  <2>1. CASE k = 1
    <3>1. (a \o one)[k] = a[1] /\ a[1] = one[1]
      BY <2>1, <1>1, <1>2, <1>3
    <3> QED
      BY <2>1, <3>1, <1>1, CellProps
  <2>2. CASE k \in 2 .. Len(s) + 1
    <3>1. (a \o one)[k] = a[k] /\ a[k] = s[k - 1] /\ k - 1 \in 1 .. Len(s)
      BY <2>2, <1>1, <1>2, <1>3
    <3> QED
      BY <3>1, CellProps
  <2>3. CASE k = Len(s) + 2
    <3>1. (a \o one)[k] = one[1] /\ k - 1 = Len(s) + 1
      BY <2>3, <1>1, <1>3
    <3> QED
      BY <3>1, <1>1, CellProps
  <2>4. k = 1 \/ k \in 2 .. Len(s) + 1 \/ k = Len(s) + 2
    BY <1>1
  <2> QED
    BY <2>1, <2>2, <2>3, <2>4
<1>5. ring = a \o one
  BY DEF a, one
<1> QED
  BY <1>3, <1>4, <1>5

\* Links that stand for sequences answer as these do.
LEMMA QueriesAnswered ==
    ASSUME Represents(next, prev, where, Lists)
    PROVE  QueriesExact
<1>1. ASSUME NEW h \in Heads
      PROVE  LET s    == Contents(h)
                 ring == <<h>> \o s \o <<h>>
             IN  /\ ToSet(s) = {x \in Nodes : where[x] = h}
                 /\ list_count(h) = Cardinality(ToSet(s))
                 /\ list_is_empty(h) <=> s = <<>>
                 /\ list_get_head(h) = ring[2]
                 /\ list_get_tail(h) = ring[Len(ring) - 1]
                 /\ \A k \in 2 .. Len(ring) - 1 :
                      /\ list_get_next(ring[k]) = ring[k + 1]
                      /\ list_get_prev(ring[k]) = ring[k - 1]
  <2> DEFINE s == Contents(h)
             ring == <<h>> \o s \o <<h>>
  <2>1. /\ s = Lists[h] /\ s \in Seq(Nodes) /\ Len(s) \in Nat /\ Distinct(s) /\ Ring(next, prev, h, s)
    <3>1. s = Lists[h]
      BY DEF Lists
    <3> QED
      BY <3>1, HeldProps
  <2>2. ToSet(s) = {x \in Nodes : where[x] = h}
    <3>1. ToSet(s) = {s[k] : k \in 1 .. Len(s)}
      BY <2>1, LenProperties DEF ToSet
    <3>2. \A k \in 1 .. Len(s) : s[k] \in Nodes /\ where[s[k]] = h
      BY <2>1, HeldProps
    <3>3. \A x \in Nodes : where[x] = h => \E k \in 1 .. Len(s) : s[k] = x
      BY <2>1, CellTypes DEF Represents, Held
    <3> HIDE DEF s
    <3> QED
      BY <3>1, <3>2, <3>3
  <2> HIDE DEF s
  <2>3. Len(ring) = Len(s) + 2 /\ \A k \in 1 .. Len(s) + 2 : ring[k] = Cell(s, h, k - 1)
    BY <2>1, RingPlaces
  <2> HIDE DEF ring
  <2>4. list_count(h) = Cardinality(ToSet(s))
    BY <2>1, DistinctCounts, CountExact
  <2>5. next[h] = Cell(s, h, 1) /\ prev[h] = Cell(s, h, Len(s))
    <3>1. next[Cell(s, h, 0)] = Cell(s, h, 0 + 1) /\ prev[Cell(s, h, Len(s) + 1)] = Cell(s, h, Len(s))
      BY <2>1 DEF Ring
    <3> QED
      BY <2>1, <3>1, CellProps
  <2>6. list_is_empty(h) <=> s = <<>>
    <3>1. Cell(s, h, 1) = h <=> Len(s) = 0
      BY <2>1, CellProps
    <3>2. Len(s) = 0 <=> s = <<>>
      BY <2>1, EmptySeq
    <3> QED
      BY <2>5, <3>1, <3>2 DEF list_is_empty
  <2>7. list_get_head(h) = ring[2] /\ list_get_tail(h) = ring[Len(ring) - 1]
    BY <2>1, <2>3, <2>5 DEF list_get_head, list_get_tail
  <2>8. ASSUME NEW k \in 2 .. Len(ring) - 1
        PROVE  next[ring[k]] = ring[k + 1] /\ prev[ring[k]] = ring[k - 1]
    <3>1. /\ ring[k] = Cell(s, h, k - 1) /\ ring[k + 1] = Cell(s, h, (k - 1) + 1)
          /\ ring[k - 1] = Cell(s, h, k - 2) /\ k - 1 \in 0 .. Len(s) /\ k - 2 \in 0 .. Len(s)
          /\ (k - 2) + 1 = k - 1
      BY <2>1, <2>3
    <3>2. /\ next[Cell(s, h, k - 1)] = Cell(s, h, (k - 1) + 1)
          /\ prev[Cell(s, h, (k - 2) + 1)] = Cell(s, h, k - 2)
      BY <2>1, <3>1 DEF Ring
    <3> QED
      BY <3>1, <3>2
  <2> QED
    BY <2>2, <2>4, <2>6, <2>7, <2>8 DEF s, ring, list_get_next, list_get_prev
<1>2. \A x \in Free : list_get_next(x) = NULL /\ list_get_prev(x) = NULL
  BY DEF Free, Represents, Blank, list_get_next, list_get_prev
<1> QED
  BY <1>1, <1>2 DEF QueriesExact

\* Every question list.c answers is answered as the sequences would.
THEOREM QueriesAreExact == ListSpecification => []QueriesExact
<1>1. ListIInv => QueriesExact
  BY QueriesAnswered DEF ListIInv
<1> QED
  BY <1>1, ListInvariance, PTL

\* for_each calls the function for the nodes there were, in order, whatever the callbacks do.
THEOREM WalksAreComplete == ListSpecification => []WalkComplete
<1>1. ListIInv => WalkComplete
  BY OnTrackComplete DEF ListIInv
<1> QED
  BY <1>1, ListInvariance, PTL

-----------------------------------------------------------------------------
(* The refinement                                                           *)

\* A node that the callers have put in no list is in no sequence.
LEMMA FreeInSequences ==
    ASSUME Represents(next, prev, where, Lists), NEW x \in Nodes, where[x] = NULL
    PROVE  S!Free(x)
<1>1. ASSUME NEW h \in Heads PROVE ~S!Contains(Lists[h], x)
  BY HeldProps DEF S!Contains
<1> QED
  BY <1>1 DEF S!Free, Lists

\* Each action is what ListSpec calls it.
LEMMA InsertMaps ==
    ASSUME Represents(next, prev, where, Lists), insert
    PROVE  S!SeqNext
<1>1. PICK h \in Heads, x \in Nodes, k \in Nat : HasInserted(h, x, k)
  BY InsertStep
<1>2. Lists[h] \in Seq(Nodes) /\ Lists \in [Heads -> Seq(Nodes)]
  BY HeldProps DEF Represents, Held
<1>3. /\ Lists' = [Lists EXCEPT ![h] = Inserted(Lists[h], k, x)]
      /\ where[x] = NULL /\ k \in {0, Len(Lists[h])}
  BY <1>1 DEF HasInserted, Put
<1>4. \/ Lists' = [Lists EXCEPT ![h] = <<x>> \o Lists[h]]
      \/ Lists' = [Lists EXCEPT ![h] = Append(Lists[h], x)]
  BY <1>2, <1>3, InsertedFirst, InsertedLast
<1>5. S!Insert(h, x)
  BY <1>3, <1>4, FreeInSequences DEF S!Insert, Lists
<1> QED
  BY <1>5 DEF S!SeqNext

\* Removing a node is to take it.
LEMMA RemoveMaps ==
    ASSUME Represents(next, prev, where, Lists), NEW x \in Nodes, where[x] # NULL,
           Becomes(list_remove(Links, x)), where' = [where EXCEPT ![x] = NULL]
    PROVE  S!SeqNext
<1>1. where[x] \in Heads
  BY RemoveStep
<1>2. PICK h \in Heads : h = where[x]
  BY <1>1
<1>3. PICK k \in 1 .. Len(Lists[h]) : HasRemoved(h, x, k)
  BY <1>2, RemoveStep
<1>4. Lists[h] \in Seq(Nodes) /\ Distinct(Lists[h]) /\ Lists[h][k] = x
  BY <1>3, HeldProps DEF HasRemoved
<1>5. S!RemoveFirst(Lists[h], x) = Removed(Lists[h], k)
  BY <1>4, RemovedFirst
<1>6. Lists' = [Lists EXCEPT ![h] = S!RemoveFirst(Lists[h], x)]
  BY <1>3, <1>5 DEF HasRemoved, Put
<1>7. S!Contains(Lists[h], x)
  BY <1>4 DEF S!Contains
<1>8. S!Take(h, x)
  BY <1>6, <1>7 DEF S!Take, Lists
<1> QED
  BY <1>8 DEF S!SeqNext

\* A callback that moves its node moves it.
LEMMA MoveMaps ==
    ASSUME Represents(next, prev, where, Lists), NEW x \in Nodes, where[x] # NULL,
           NEW g \in Heads \ {where[x]},
           Becomes(list_insert_tail(list_remove(Links, x), g, x)), where' = [where EXCEPT ![x] = g]
    PROVE  S!SeqNext
<1>1. where[x] \in Heads
  BY MoveStep
<1>2. PICK h \in Heads : h = where[x]
  BY <1>1
<1>3. PICK k \in 1 .. Len(Lists[h]) : HasMoved(h, x, k, g)
  BY <1>2, MoveStep
<1>4. Lists[h] \in Seq(Nodes) /\ Distinct(Lists[h]) /\ Lists[h][k] = x /\ Lists[g] \in Seq(Nodes)
  BY <1>3, HeldProps DEF HasMoved
<1>5. S!RemoveFirst(Lists[h], x) = Removed(Lists[h], k)
  BY <1>4, RemovedFirst
<1>6. Inserted(Lists[g], Len(Lists[g]), x) = Append(Lists[g], x)
  BY <1>4, InsertedLast
<1>7. Lists' = [[Lists EXCEPT ![h] = S!RemoveFirst(Lists[h], x)] EXCEPT ![g] = Append(Lists[g], x)]
  BY <1>3, <1>5, <1>6 DEF HasMoved, Put
<1>8. Lists' = [Lists EXCEPT ![h] = S!RemoveFirst(@, x), ![g] = Append(@, x)]
  <2>1. Lists \in [Heads -> Seq(Nodes)] /\ g # h
    BY <1>2 DEF Represents, Held
  <2> QED
    BY <1>7, <2>1
<1>9. S!Contains(Lists[h], x) /\ g # h
  BY <1>2, <1>4 DEF S!Contains
<1>10. S!Move(h, x, g)
  BY <1>8, <1>9 DEF S!Move, Lists
<1> QED
  BY <1>10 DEF S!SeqNext

\* Every step of the links is a step of the sequences or none.
LEMMA StepMaps ==
    ASSUME ListIInv, [ListNext]_listVars
    PROVE  [S!SeqNext]_Lists
<1>1. Represents(next, prev, where, Lists)
  BY DEF ListIInv
<1>2. CASE insert
  BY <1>1, <1>2, InsertMaps
<1>3. CASE remove
  <2>1. PICK x \in Nodes :
          where[x] # NULL /\ Becomes(list_remove(Links, x)) /\ where' = [where EXCEPT ![x] = NULL]
    BY <1>3 DEF remove, Linked
  <2> QED
    BY <1>1, <2>1, RemoveMaps
<1>4. CASE clear
  <2>1. PICK h \in Heads : HasCleared(h)
    BY <1>1, <1>4, ClearStep
  <2>2. S!Empty(h)
    BY <2>1 DEF HasCleared, Put, S!Empty, Lists
  <2> QED
    BY <2>2 DEF S!SeqNext
<1>5. CASE for_each_step
  <2> DEFINE x == walk.current
  <2>1. callback(x)
    BY <1>5 DEF for_each_step
  <2>2. CASE UNCHANGED <<next, prev, where>>
    BY <2>2 DEF Lists, Contents
  <2>3. CASE insert
    BY <1>2, <2>3
  <2>4. where[x] # NULL => x \in Nodes
    <3>1. walk.head # NULL /\ walk.head \in Heads
      BY <1>5, CellTypes DEF ListIInv, WalkInv, Walks, Idle, for_each_step
    <3>2. WalkComplete
      BY <1>1, OnTrackComplete DEF ListIInv
    <3> QED
      BY <1>5, <3>2 DEF WalkComplete, for_each_step
  <2> HIDE DEF x
  <2>5. CASE where[x] # NULL /\ Becomes(list_remove(Links, x)) /\ where' = [where EXCEPT ![x] = NULL]
    BY <1>1, <2>4, <2>5, RemoveMaps
  <2>6. CASE where[x] # NULL /\ \E g \in Heads \ {where[x]} :
               Becomes(list_insert_tail(list_remove(Links, x), g, x)) /\ where' = [where EXCEPT ![x] = g]
    BY <1>1, <2>4, <2>6, MoveMaps
  <2> QED
    BY <2>1, <2>2, <2>3, <2>5, <2>6 DEF callback
<1>6. CASE UNCHANGED <<next, prev, where>>
  BY <1>6 DEF Lists, Contents
<1> QED
  BY <1>2, <1>3, <1>4, <1>5, <1>6 DEF ListNext, for_each_begin, for_each_end, listVars

\* Every function of list.c, and every callback of for_each, does to the links what it says
\* it does to a sequence, and no list but the one it was given changes.
THEOREM ListImplementsSequences == ListSpecification => ImplementsSequences
<1>1. ListInit => S!SeqInit
  BY ListStarts DEF S!SeqInit, Lists
<1>2. ListIInv /\ [ListNext]_listVars => [S!SeqNext]_Lists
  BY StepMaps
<1>3. [S!SeqNext]_Lists <=> [S!SeqNext]_([h \in Heads |-> Contents(h)])
  BY DEF Lists
<1> QED
  BY <1>1, <1>2, <1>3, ListInvariance, PTL DEF ListSpecification, ImplementsSequences, S!SequencesSpec
=============================================================================
