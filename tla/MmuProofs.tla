----------------------------- MODULE MmuProofs -----------------------------
(***************************************************************************)
(* Proofs about Mmu for any memory, any image and any number of entries in *)
(* a table: map_page sets the one translation it is called for, and an     *)
(* address space translates the kernel's pages to themselves and the pages *)
(* of the image to pages that it has to itself.                            *)
(***************************************************************************)
EXTENDS Mmu, Induction, FiniteSetTheorems

-----------------------------------------------------------------------------
(* Numbers                                                                  *)

\* The page of an entry can be read back from it.
LEMMA EntryProps ==
    ASSUME NEW page \in Nat, NEW flags \in 0 .. 1023
    PROVE  Entry(page, flags) \in Nat /\ PageOf(Entry(page, flags)) = page
BY DEF Entry, PageOf

\* The same of an entry for a table and of one for a page of the image.
LEMMA EntryKinds ==
    ASSUME NEW page \in Nat
    PROVE  /\ Entry(page, PAGE_V) \in Nat /\ PageOf(Entry(page, PAGE_V)) = page
           /\ Entry(page, 31) \in Nat /\ PageOf(Entry(page, 31)) = page
BY DEF Entry, PageOf, PAGE_V

\* And so can its bits, for the kinds of entries there are: none, one of a table, one
\* of a page of the kernel and one of a page of the image.
LEMMA FlagProps ==
    ASSUME NEW page \in Nat
    PROVE  /\ ~Has(0, PAGE_V) /\ ~Has(0, PAGE_U)
           /\ Has(Entry(page, PAGE_V), PAGE_V)
           /\ Has(Entry(page, 15), PAGE_V) /\ ~Has(Entry(page, 15), PAGE_U)
           /\ Has(Entry(page, 31), PAGE_V) /\ Has(Entry(page, 31), PAGE_U) /\ Has(Entry(page, 31), PAGE_W)
BY DEF Entry, Has, PAGE_V, PAGE_U, PAGE_W

\* The pages of the address space.
Vpages == 0 .. PFN_SPACE - 1

\* The two indices are a virtual page in two digits.
LEMMA VpnProps ==
    ASSUME NEW v \in Vpages
    PROVE  /\ Vpn1(v) \in Words /\ Vpn0(v) \in Words
           /\ v = PAGE_WORDS * Vpn1(v) + Vpn0(v)
<1> DEFINE b == PAGE_WORDS
           q == v \div b
<1>1. b \in Nat \ {0} /\ v \in 0 .. b * b - 1
  BY MmuAssumption DEF Vpages
<1>2. q \in 0 .. b - 1
  BY <1>1, DivBound
<1>3. v % b \in 0 .. b - 1 /\ v = b * q + (v % b)
  BY <1>1, DivMod
<1>4. q % b = q
  <2> HIDE DEF q, b
  <2>1. (b * 0 + q) % b = q
    BY <1>1, <1>2, DivUnique
  <2> QED
    BY <1>1, <1>2, <2>1
<1> QED
  BY <1>2, <1>3, <1>4 DEF Vpn1, Vpn0, Words

\* No two virtual pages have the same two indices.
LEMMA VpnUnique ==
    ASSUME NEW u \in Vpages, NEW v \in Vpages, Vpn1(u) = Vpn1(v), Vpn0(u) = Vpn0(v)
    PROVE  u = v
BY VpnProps

\* Any two indices belong to a virtual page.
LEMMA VpnOnto ==
    ASSUME NEW i \in Words, NEW w \in Words
    PROVE  \E v \in Vpages : Vpn1(v) = i /\ Vpn0(v) = w
<1> DEFINE b == PAGE_WORDS
           v == b * i + w
<1>1. b \in Nat \ {0} /\ b * b = PFN_SPACE /\ i \in 0 .. b - 1 /\ w \in 0 .. b - 1
  BY MmuAssumption DEF Words
<1> HIDE DEF b
<1>2. v \div b = i /\ v % b = w
  <2>1. i \in Nat
    BY <1>1
  <2> QED
    BY <1>1, <2>1, DivUnique, Zenon
<1>3. i % b = i
  <2>1. (b * 0 + i) % b = i
    BY <1>1, DivUnique
  <2> QED
    BY <1>1, <2>1
<1>4. v \in Vpages
  <2>1. b * i <= b * (b - 1)
    BY <1>1
  <2>2. b * (b - 1) = b * b - b
    BY <1>1
  <2>3. b * i \in Nat
    BY <1>1
  <2> QED
    BY <1>1, <2>1, <2>2, <2>3 DEF Vpages
<1> QED
  BY <1>2, <1>3, <1>4 DEF Vpn1, Vpn0, b

-----------------------------------------------------------------------------
(* Two levels of tables                                                     *)

Rams == [Pages -> [Words -> Nat]]
Memories == [ram : Rams, next : Nat]

\* The indices that have a second-level table, and that table.
Used(ram, root) == {i \in Words : Has(ram[root][i], PAGE_V)}
Table(ram, root, i) == PageOf(ram[root][i])

\* The tables are pages of the RAM, other than the root and one for each index.
Formed(ram, root) ==
    /\ root \in Pages
    /\ \A i \in Used(ram, root) : Table(ram, root, i) \in Pages \ {root}
    /\ \A i, j \in Used(ram, root) : Table(ram, root, i) = Table(ram, root, j) => i = j

\* The second-level tables are those of the indices that have one.
LEMMA TablesProps ==
    ASSUME NEW ram, NEW root
    PROVE  \A t : t \in Tables0(ram, root) <=> \E i \in Used(ram, root) : t = Table(ram, root, i)
BY DEF Tables0, Used, Table

\* In tables that are formed the walk ends at the entry of the table, if it is valid.
LEMMA WalkProps ==
    ASSUME NEW ram, NEW root, Formed(ram, root), NEW v \in Vpages
    PROVE  LET e == ram[Table(ram, root, Vpn1(v))][Vpn0(v)]
           IN  Walk(ram, root, v) = IF Vpn1(v) \in Used(ram, root) /\ Has(e, PAGE_V) THEN e ELSE 0
<1>1. Vpn1(v) \in Words
  BY VpnProps
<1> QED
  BY <1>1 DEF Walk, Used, Table, Formed

\* What the tables mean depends on the root and the tables alone.
LEMMA SameTables ==
    ASSUME NEW ram, NEW root, Formed(ram, root), NEW ram2,
           ram2[root] = ram[root], \A t \in Tables0(ram, root) : ram2[t] = ram[t]
    PROVE  /\ Formed(ram2, root)
           /\ Used(ram2, root) = Used(ram, root)
           /\ Tables0(ram2, root) = Tables0(ram, root)
           /\ UserPages(ram2, root) = UserPages(ram, root)
           /\ \A v \in Vpages : Walk(ram2, root, v) = Walk(ram, root, v)
<1>1. Used(ram2, root) = Used(ram, root)
  BY DEF Used
<1>2. \A i : Table(ram2, root, i) = Table(ram, root, i)
  BY DEF Table
<1>3. Formed(ram2, root)
  BY <1>1, <1>2 DEF Formed
<1>4. Tables0(ram2, root) = Tables0(ram, root)
  BY DEF Tables0
<1>5. UserPages(ram2, root) = UserPages(ram, root)
  BY <1>4 DEF UserPages
<1>6. ASSUME NEW v \in Vpages PROVE Walk(ram2, root, v) = Walk(ram, root, v)
  <2>1. CASE Vpn1(v) \in Used(ram, root)
    <3>1. Table(ram, root, Vpn1(v)) \in Tables0(ram, root)
      BY <2>1, TablesProps
    <3> QED
      BY <1>1, <1>2, <1>3, <2>1, <3>1, WalkProps
  <2>2. CASE Vpn1(v) \notin Used(ram, root)
    BY <1>1, <1>3, <2>2, WalkProps
  <2> QED
    BY <2>1, <2>2
<1> QED
  BY <1>1, <1>3, <1>4, <1>5, <1>6

\* A valid entry put into a table changes the one translation.
LEMMA PutEntry ==
    ASSUME NEW ram \in Rams, NEW root, Formed(ram, root),
           NEW v \in Vpages, Vpn1(v) \in Used(ram, root), NEW e \in Nat, Has(e, PAGE_V),
           NEW ram2, ram2 = [ram EXCEPT ![Table(ram, root, Vpn1(v))][Vpn0(v)] = e]
    PROVE  /\ ram2 \in Rams
           /\ Formed(ram2, root)
           /\ Used(ram2, root) = Used(ram, root)
           /\ Tables0(ram2, root) = Tables0(ram, root)
           /\ \A u \in Vpages : Walk(ram2, root, u) = IF u = v THEN e ELSE Walk(ram, root, u)
           /\ \A p \in Pages \ Tables0(ram, root) : ram2[p] = ram[p]
<1> DEFINE t == Table(ram, root, Vpn1(v))
           w == Vpn0(v)
<1>1. t \in Pages /\ t # root /\ t \in Tables0(ram, root) /\ w \in Words /\ root \in Pages
  BY VpnProps, TablesProps DEF Formed
<1>2. /\ ram2[t] = [ram[t] EXCEPT ![w] = e]
      /\ \A p \in Pages \ {t} : ram2[p] = ram[p]
      /\ ram2 \in Rams
  <2> HIDE DEF t, w
  <2> SUFFICES ram2 = [ram EXCEPT ![t][w] = e] => <1>2!:
    BY DEF t, w
  <2>1. ram[t] \in [Words -> Nat]
    BY <1>1 DEF Rams
  <2>2. [ram[t] EXCEPT ![w] = e] \in [Words -> Nat]
    BY <1>1, <2>1
  <2> QED
    BY <1>1, <2>1, <2>2 DEF Rams
<1>3. ram2[root] = ram[root]
  BY <1>1, <1>2
<1>4. Used(ram2, root) = Used(ram, root) /\ Tables0(ram2, root) = Tables0(ram, root)
  BY <1>3 DEF Used, Tables0
<1>5. \A i : Table(ram2, root, i) = Table(ram, root, i)
  BY <1>3 DEF Table
<1>6. Formed(ram2, root)
  BY <1>4, <1>5 DEF Formed
<1>7. ASSUME NEW u \in Vpages PROVE Walk(ram2, root, u) = IF u = v THEN e ELSE Walk(ram, root, u)
  <2> DEFINE s == Table(ram, root, Vpn1(u))
  <2>1. CASE u = v
    <3>1. ram2[t][w] = e
      BY <1>1, <1>2 DEF Rams
    <3> QED
      BY <1>4, <1>5, <1>6, <2>1, <3>1, WalkProps
  <2>2. CASE u # v /\ Vpn1(u) \in Used(ram, root)
    <3>1. s \in Pages
      BY <2>2 DEF Formed
    <3>2. ram2[s][Vpn0(u)] = ram[s][Vpn0(u)]
      <4>1. CASE Vpn1(u) = Vpn1(v)
        <5>1. Vpn0(u) # w /\ Vpn0(u) \in Words
          BY <2>2, <4>1, VpnUnique, VpnProps
        <5> QED
          BY <1>1, <1>2, <4>1, <5>1 DEF Rams
      <4>2. CASE Vpn1(u) # Vpn1(v)
        <5>1. s # t
          BY <2>2, <4>2 DEF Formed
        <5> QED
          BY <1>2, <3>1, <5>1
      <4> QED
        BY <4>1, <4>2
    <3>3. ram2[Table(ram2, root, Vpn1(u))][Vpn0(u)] = ram[Table(ram, root, Vpn1(u))][Vpn0(u)]
      BY <1>5, <3>2
    <3>4. Vpn1(u) \in Used(ram2, root)
      BY <1>4, <2>2
    <3> HIDE DEF s, t, w
    <3>5. Walk(ram2, root, u) = Walk(ram, root, u)
      <4> DEFINE e1 == ram[Table(ram, root, Vpn1(u))][Vpn0(u)]
                 e2 == ram2[Table(ram2, root, Vpn1(u))][Vpn0(u)]
      <4>1. Walk(ram, root, u) = IF Has(e1, PAGE_V) THEN e1 ELSE 0
        BY <2>2, WalkProps
      <4>2. Walk(ram2, root, u) = IF Has(e2, PAGE_V) THEN e2 ELSE 0
        BY <1>6, <3>4, WalkProps
      <4> QED
        BY <4>1, <4>2, <3>3
    <3> QED
      BY <2>2, <3>5
  <2>3. CASE u # v /\ Vpn1(u) \notin Used(ram, root)
    <3>1. Vpn1(u) \notin Used(ram2, root)
      BY <1>4, <2>3
    <3>2. Walk(ram2, root, u) = 0
      BY <1>6, <3>1, WalkProps
    <3>3. Walk(ram, root, u) = 0
      BY <2>3, WalkProps
    <3> QED
      BY <2>3, <3>2, <3>3
  <2> QED
    BY <2>1, <2>2, <2>3
<1> QED
  BY <1>1, <1>2, <1>4, <1>6, <1>7

\* alloc_pages(1) clears one page and leaves the others.
LEMMA ClearedProps ==
    ASSUME NEW m \in Memories, m.next \in Pages
    PROVE  /\ Cleared(m) \in Memories
           /\ Cleared(m).next = m.next + 1
           /\ Cleared(m).ram[m.next] = [w \in Words |-> 0]
           /\ \A p \in Pages \ {m.next} : Cleared(m).ram[p] = m.ram[p]
<1> DEFINE zero == [w \in Words |-> 0]
           c == Cleared(m)
<1>1. zero \in [Words -> Nat]
  OBVIOUS
<1>2. m.ram \in Rams /\ m.next \in Nat /\ m = [ram |-> m.ram, next |-> m.next]
  BY DEF Memories
<1>3. c = [ram |-> [m.ram EXCEPT ![m.next] = zero], next |-> m.next + 1]
  <2>1. c = [m EXCEPT !.ram[m.next] = zero, !.next = @ + 1]
    BY DEF Cleared
  <2> HIDE DEF c, zero
  <2> QED
    BY <1>2, <2>1
<1> HIDE DEF zero, c
<1>4. c.ram = [m.ram EXCEPT ![m.next] = zero] /\ c.next = m.next + 1
  BY <1>3
<1>5. c.ram \in Rams
  BY <1>1, <1>2, <1>4 DEF Rams
<1>6. c \in Memories
  BY <1>2, <1>3, <1>4, <1>5 DEF Memories
<1>7. c.ram[m.next] = zero /\ \A p \in Pages \ {m.next} : c.ram[p] = m.ram[p]
  BY <1>2, <1>4 DEF Rams
<1> QED
  BY <1>4, <1>6, <1>7 DEF zero, c

\* There is a table for index i, or the next page can become it.
RoomFor(m, root, i) ==
    i \in Used(m.ram, root) \/ m.next \in Pages \ ({root} \union Tables0(m.ram, root))

\* What a step that needs a table for index i does to the tables.
TableAdded(m, out, root, i) ==
    /\ out \in Memories
    /\ Formed(out.ram, root)
    /\ Used(out.ram, root) = Used(m.ram, root) \union {i}
    /\ IF i \in Used(m.ram, root)
       THEN out.next = m.next /\ Tables0(out.ram, root) = Tables0(m.ram, root)
       ELSE out.next = m.next + 1 /\ Tables0(out.ram, root) = Tables0(m.ram, root) \union {m.next}
    /\ \A p \in Pages \ ({root} \union Tables0(out.ram, root)) : out.ram[p] = m.ram[p]

\* What map_page does: one translation is set.
Translated(m, out, root, v, e) ==
    \A u \in Vpages : Walk(out.ram, root, u) = IF u = v THEN e ELSE Walk(m.ram, root, u)

\* A page that is free can become the table of an index: nothing is translated otherwise.
LEMMA WithTable0Props ==
    ASSUME NEW m \in Memories, NEW root, Formed(m.ram, root), NEW i \in Words, RoomFor(m, root, i)
    PROVE  /\ TableAdded(m, WithTable0(m, root, i), root, i)
           /\ \A u \in Vpages : Walk(WithTable0(m, root, i).ram, root, u) = Walk(m.ram, root, u)
<1> DEFINE made == WithTable0(m, root, i)
<1>1. CASE i \in Used(m.ram, root)
  <2>1. made = m
    BY <1>1 DEF WithTable0, Used
  <2>2. Used(m.ram, root) = Used(m.ram, root) \union {i}
    BY <1>1
  <2> HIDE DEF made
  <2>3. TableAdded(m, made, root, i)
    BY <1>1, <2>1, <2>2 DEF TableAdded
  <2> QED
    BY <2>1, <2>3 DEF made
<1>2. CASE i \notin Used(m.ram, root)
  <2> DEFINE t == m.next
             c == Cleared(m)
             e == Entry(t, PAGE_V)
  <2>1. t \in Pages /\ t \in Nat /\ t # root /\ t \notin Tables0(m.ram, root) /\ root \in Pages
    BY <1>2, RamAssumption DEF RoomFor, Formed, Pages
  <2>2. e \in Nat /\ Has(e, PAGE_V) /\ PageOf(e) = t /\ ~Has(0, PAGE_V)
    <3>1. e \in Nat /\ PageOf(e) = t
      BY <2>1, EntryKinds, Zenon
    <3>2. Has(e, PAGE_V) /\ ~Has(0, PAGE_V)
      BY <2>1, FlagProps, Zenon
    <3> QED
      BY <3>1, <3>2
  <2>3. /\ c \in Memories /\ c.next = t + 1
        /\ c.ram[t] = [w \in Words |-> 0]
        /\ \A p \in Pages \ {t} : c.ram[p] = m.ram[p]
    BY <2>1, ClearedProps
  <2>4. made = [c EXCEPT !.ram[root][i] = e]
    BY <1>2 DEF WithTable0, Used
  <2> HIDE DEF e, c
  <2>5. c.ram \in Rams /\ c.next \in Nat /\ c = [ram |-> c.ram, next |-> c.next]
    BY <2>3 DEF Memories
  <2>6. made.next = c.next /\ made.ram = [c.ram EXCEPT ![root][i] = e]
        /\ made = [ram |-> made.ram, next |-> made.next]
    BY <2>4, <2>5
  <2> HIDE DEF made
  <2>7. c.ram[root] \in [Words -> Nat] /\ [c.ram[root] EXCEPT ![i] = e] \in [Words -> Nat]
    BY <2>1, <2>2, <2>5 DEF Rams
  <2>8. made.ram \in Rams /\ made.ram[root] = [c.ram[root] EXCEPT ![i] = e]
        /\ \A p \in Pages \ {root} : made.ram[p] = c.ram[p]
    BY <2>1, <2>5, <2>6, <2>7 DEF Rams
  <2>9. made \in Memories
    BY <2>5, <2>6, <2>8 DEF Memories
  <2>10. /\ made.ram[t] = [w \in Words |-> 0]
         /\ \A p \in Pages \ {root, t} : made.ram[p] = m.ram[p]
         /\ made.ram[root][i] = e
         /\ \A j \in Words \ {i} : made.ram[root][j] = m.ram[root][j]
    BY <2>1, <2>3, <2>7, <2>8
  <2>11. Used(made.ram, root) = Used(m.ram, root) \union {i}
    BY <2>2, <2>10 DEF Used
  <2>12. /\ Table(made.ram, root, i) = t
         /\ \A j \in Words \ {i} : Table(made.ram, root, j) = Table(m.ram, root, j)
    BY <2>2, <2>10 DEF Table
  <2>13. \A j \in Used(m.ram, root) : j \in Words \ {i} /\ Table(m.ram, root, j) \in Tables0(m.ram, root)
    BY <1>2, TablesProps DEF Used
  <2>14. Formed(made.ram, root)
    BY <2>1, <2>11, <2>12, <2>13 DEF Formed
  <2>15. Tables0(made.ram, root) = Tables0(m.ram, root) \union {t}
    BY <2>11, <2>12, <2>13, TablesProps
  <2>16. ASSUME NEW u \in Vpages PROVE Walk(made.ram, root, u) = Walk(m.ram, root, u)
    <3>1. Vpn1(u) \in Words /\ Vpn0(u) \in Words
      BY VpnProps
    <3>2. CASE Vpn1(u) = i
      <4>1. made.ram[t][Vpn0(u)] = 0
        BY <2>10, <3>1
      <4> QED
        BY <1>2, <2>2, <2>12, <2>14, <3>2, <4>1, WalkProps
    <3>3. CASE Vpn1(u) # i /\ Vpn1(u) \in Used(m.ram, root)
      <4>1. Table(m.ram, root, Vpn1(u)) \in Pages \ {root, t}
        BY <2>1, <2>13, <3>3 DEF Formed
      <4> QED
        BY <2>10, <2>11, <2>12, <2>14, <3>1, <3>3, <4>1, WalkProps
    <3>4. CASE Vpn1(u) # i /\ Vpn1(u) \notin Used(m.ram, root)
      BY <2>11, <2>14, <3>4, WalkProps
    <3> QED
      BY <3>2, <3>3, <3>4
  <2>17. TableAdded(m, made, root, i)
    BY <1>2, <2>3, <2>6, <2>9, <2>10, <2>11, <2>14, <2>15 DEF TableAdded
  <2> QED
    BY <2>16, <2>17 DEF made
<1> QED
  BY <1>1, <1>2

\* map_page sets the translation of its page and of no other, and takes a page
\* only for a table that was missing.
LEMMA MapPageProps ==
    ASSUME NEW m \in Memories, NEW root, Formed(m.ram, root), NEW v \in Vpages,
           RoomFor(m, root, Vpn1(v)),
           NEW page, NEW flags, NEW e \in Nat, Has(e, PAGE_V), e = Entry(page, flags + PAGE_V)
    PROVE  /\ TableAdded(m, map_page(m, root, v, page, flags), root, Vpn1(v))
           /\ Translated(m, map_page(m, root, v, page, flags), root, v, e)
<1> DEFINE made == WithTable0(m, root, Vpn1(v))
           out  == map_page(m, root, v, page, flags)
<1>1. /\ TableAdded(m, made, root, Vpn1(v))
      /\ \A u \in Vpages : Walk(made.ram, root, u) = Walk(m.ram, root, u)
  <2>1. Vpn1(v) \in Words
    BY VpnProps
  <2> QED
    BY <2>1, WithTable0Props, Zenon
<1>3. out = [made EXCEPT !.ram[Table(made.ram, root, Vpn1(v))][Vpn0(v)] = e]
  BY DEF map_page, Table
<1> HIDE DEF made, out
<1>4. made.ram \in Rams /\ made.next \in Nat /\ made = [ram |-> made.ram, next |-> made.next]
  BY <1>1 DEF TableAdded, Memories
<1>5. /\ out.ram = [made.ram EXCEPT ![Table(made.ram, root, Vpn1(v))][Vpn0(v)] = e]
      /\ out.next = made.next
      /\ out = [ram |-> out.ram, next |-> out.next]
  BY <1>3, <1>4
<1>6. /\ out.ram \in Rams
      /\ Formed(out.ram, root)
      /\ Used(out.ram, root) = Used(made.ram, root)
      /\ Tables0(out.ram, root) = Tables0(made.ram, root)
      /\ \A u \in Vpages : Walk(out.ram, root, u) = IF u = v THEN e ELSE Walk(made.ram, root, u)
      /\ \A p \in Pages \ Tables0(made.ram, root) : out.ram[p] = made.ram[p]
  <2>1. Vpn1(v) \in Used(made.ram, root) /\ Formed(made.ram, root)
    BY <1>1 DEF TableAdded
  <2> QED
    BY <1>4, <1>5, <2>1, PutEntry
<1>7. out \in Memories
  BY <1>4, <1>5, <1>6 DEF Memories
<1>8. TableAdded(m, out, root, Vpn1(v))
  BY <1>1, <1>5, <1>6, <1>7 DEF TableAdded
<1>9. Translated(m, out, root, v, e)
  BY <1>1, <1>6 DEF Translated
<1> QED
  BY <1>8, <1>9 DEF out

\* A program reaches the pages that are translated for it.
LEMMA UserPagesProps ==
    ASSUME NEW ram, NEW root, Formed(ram, root)
    PROVE  \A p : p \in UserPages(ram, root) <=>
                    \E v \in Vpages : Has(Walk(ram, root, v), PAGE_U) /\ p = PageOf(Walk(ram, root, v))
<1> DEFINE Is(e) == Has(e, PAGE_V) /\ Has(e, PAGE_U)
<1>1. ASSUME NEW p PROVE p \in UserPages(ram, root) <=>
                           \E i \in Used(ram, root), w \in Words :
                             Is(ram[Table(ram, root, i)][w]) /\ p = PageOf(ram[Table(ram, root, i)][w])
  BY TablesProps DEF UserPages
<1>2. ASSUME NEW i \in Used(ram, root), NEW w \in Words, Is(ram[Table(ram, root, i)][w])
      PROVE  \E v \in Vpages : Walk(ram, root, v) = ram[Table(ram, root, i)][w]
  <2>1. i \in Words
    BY DEF Used
  <2>2. PICK v \in Vpages : Vpn1(v) = i /\ Vpn0(v) = w
    BY <2>1, VpnOnto
  <2> QED
    BY <1>2, <2>2, WalkProps
<1>3. ASSUME NEW v \in Vpages, Has(Walk(ram, root, v), PAGE_U)
      PROVE  \E i \in Used(ram, root), w \in Words :
               Is(ram[Table(ram, root, i)][w]) /\ Walk(ram, root, v) = ram[Table(ram, root, i)][w]
  <2>1. ~Has(0, PAGE_U)
    BY FlagProps
  <2>2. /\ Vpn1(v) \in Used(ram, root)
        /\ Walk(ram, root, v) = ram[Table(ram, root, Vpn1(v))][Vpn0(v)]
        /\ Has(ram[Table(ram, root, Vpn1(v))][Vpn0(v)], PAGE_V)
    BY <1>3, <2>1, WalkProps
  <2> QED
    BY <1>3, <2>2, VpnProps
<1> HIDE DEF Is
<1>4. \A e : Is(e) => Has(e, PAGE_U)
  BY DEF Is
<1> QED
  BY <1>1, <1>2, <1>3, <1>4

-----------------------------------------------------------------------------
(* An address space while it is built                                       *)

\* The virtual page of a part of the image, the page it is translated to, and what is in it.
VpageOf(j) == USER_BASE + j
ImagePage(ram, root, j) == PageOf(Walk(ram, root, VpageOf(j)))
Part(j) == WithImage([w \in Words |-> 0], j)

\* What is mapped lies in the address space, the image below the kernel.
LEMMA MappedProps ==
    /\ KernelPages \subseteq Vpages
    /\ NImage \in Nat
    /\ \A j \in ImagePages : VpageOf(j) \in Vpages \ KernelPages
    /\ Mapped = KernelPages \union {VpageOf(j) : j \in ImagePages}
    /\ Mapped \subseteq Vpages
<1> DEFINE b == PAGE_WORDS
           L == Len(IMAGE)
           q == L \div b
           N == NImage
<1>1. b \in Nat \ {0} /\ L \in Nat
  BY MmuAssumption
<1>2. q \in Nat /\ L < b * (q + 1)
  <2>1. q \in Nat /\ L % b \in 0 .. b - 1 /\ L = b * q + (L % b)
    BY <1>1, DivMod
  <2> HIDE DEF q, L, b
  <2>2. b * (q + 1) = b * q + b
    BY <1>1, <2>1
  <2> QED
    BY <1>1, <2>1, <2>2
<1>3. N \in Nat /\ b * N <= L + b - 1
  <2>1. N = (L + b - 1) \div b
    BY DEF NImage
  <2>2. L + b - 1 \in Nat
    BY <1>1
  <2> HIDE DEF N, L, b
  <2> DEFINE s == L + b - 1
  <2> HIDE DEF s
  <2>3. s \div b \in Nat /\ s % b \in 0 .. b - 1 /\ s = b * (s \div b) + (s % b)
    BY <1>1, <2>2, DivMod DEF s
  <2>4. N = s \div b
    BY <2>1 DEF s
  <2>5. N \in Nat /\ b * N <= s
    BY <1>1, <2>3, <2>4
  <2> QED
    BY <2>5 DEF s
<1>4. N <= q + 1
  <2> HIDE DEF N, q, L, b
  <2>1. SUFFICES ASSUME N >= q + 2 PROVE FALSE
    BY <1>2, <1>3
  <2>2. b * N >= b * (q + 2)
    BY <1>1, <1>2, <1>3, <2>1
  <2>3. b * (q + 2) = b * (q + 1) + b
    BY <1>1, <1>2
  <2> QED
    BY <1>1, <1>2, <1>3, <2>2, <2>3
<1>5. USER_BASE \in Nat /\ USER_BASE + q < KERNEL_BASE
  BY MmuAssumption
<1>6. KERNEL_BASE \in Nat /\ KERNEL_BASE <= FREE_RAM /\ FREE_RAM_END <= PFN_SPACE
      /\ FREE_RAM <= FREE_RAM_END /\ FREE_RAM \in Nat /\ FREE_RAM_END \in Nat /\ PFN_SPACE \in Nat
  BY MmuAssumption, RamAssumption
<1> HIDE DEF q
<1>7. ASSUME NEW j \in ImagePages PROVE VpageOf(j) \in Vpages \ KernelPages
  BY <1>2, <1>3, <1>4, <1>5, <1>6 DEF ImagePages, VpageOf, Vpages, KernelPages
<1>8. KernelPages \subseteq Vpages
  BY <1>6 DEF KernelPages, Vpages
<1>9. Mapped = KernelPages \union {VpageOf(j) : j \in ImagePages}
  BY DEF Mapped, VpageOf
<1> QED
  BY <1>3, <1>7, <1>8, <1>9

\* The indices of what has been mapped are at most those of all that is to be mapped.
LEMMA CountProps ==
    ASSUME NEW V \in SUBSET Mapped
    PROVE  LET I == {Vpn1(v) : v \in V}
               All == {Vpn1(v) : v \in Mapped}
           IN  /\ IsFiniteSet(I) /\ Cardinality(I) \in Nat /\ Cardinality(All) \in Nat
               /\ Cardinality(I) <= Cardinality(All)
               /\ \A v \in Mapped : Vpn1(v) \notin I =>
                    /\ Cardinality(I \union {Vpn1(v)}) = Cardinality(I) + 1
                    /\ Cardinality(I) + 1 <= Cardinality(All)
<1> DEFINE I == {Vpn1(v) : v \in V}
           All == {Vpn1(v) : v \in Mapped}
<1>1. All \subseteq Words
  BY MappedProps, VpnProps
<1>2. IsFiniteSet(Words)
  BY MmuAssumption, FS_Interval DEF Words
<1>3. IsFiniteSet(All)
  BY <1>1, <1>2, FS_Subset
<1>4. I \subseteq All
  OBVIOUS
<1>5. \A v \in Mapped : Vpn1(v) \in All
  OBVIOUS
<1> HIDE DEF I, All
<1>6. /\ IsFiniteSet(I) /\ Cardinality(I) <= Cardinality(All)
      /\ Cardinality(I) \in Nat /\ Cardinality(All) \in Nat
  BY <1>3, <1>4, FS_Subset, FS_CardinalityType
<1>7. ASSUME NEW v \in Mapped, Vpn1(v) \notin I
      PROVE  /\ Cardinality(I \union {Vpn1(v)}) = Cardinality(I) + 1
             /\ Cardinality(I) + 1 <= Cardinality(All)
  <2>1. Cardinality(I \union {Vpn1(v)}) = Cardinality(I) + 1
    BY <1>6, <1>7, FS_AddElement
  <2>2. I \union {Vpn1(v)} \in SUBSET All
    BY <1>4, <1>5
  <2> QED
    BY <1>3, <2>1, <2>2, FS_Subset
<1> QED
  BY <1>6, <1>7 DEF I, All

\* There is memory for a whole address space from page first on.
Fits(first) ==
    /\ first \in Nat
    /\ FREE_RAM <= first
    /\ first + 2 + SpacePages <= FREE_RAM_END

\* The first k parts of the image are mapped, each to a page of its own.
ImagesMapped(a, first, k) ==
    \A j \in 0 .. k - 1 :
      LET page == ImagePage(a.ram, first + 1, j)
      IN  /\ Walk(a.ram, first + 1, VpageOf(j)) = Entry(page, 31)
          /\ page \in first + 2 .. a.next - 1
          /\ page \notin Tables0(a.ram, first + 1)
          /\ a.ram[page] = Part(j)
          /\ \A l \in 0 .. k - 1 : ImagePage(a.ram, first + 1, l) = page => l = j

\* In a, built on the memory base, the virtual pages V are mapped and no others, and
\* n pages are taken for the image.
Built(a, base, first, V, n) ==
    /\ a \in Memories
    /\ Formed(a.ram, first + 1)
    /\ Used(a.ram, first + 1) = {Vpn1(v) : v \in V}
    /\ Tables0(a.ram, first + 1) \subseteq first + 2 .. a.next - 1
    /\ a.next = first + 2 + n + Cardinality(Used(a.ram, first + 1))
    /\ \A p \in Pages \ (first .. a.next - 1) : a.ram[p] = base[p]
    /\ \A u \in Vpages \ V : Walk(a.ram, first + 1, u) = 0

KernelMapped(a, first, V) ==
    \A u \in V \intersect KernelPages : Walk(a.ram, first + 1, u) = Entry(u, 15)

\* While it is built there is memory for the rest.
LEMMA RoomProps ==
    ASSUME NEW first, Fits(first), NEW base, NEW V \in SUBSET Mapped, NEW n \in 0 .. NImage,
           NEW a, Built(a, base, first, V, n)
    PROVE  /\ a.next \in Nat /\ first + 2 <= a.next
           /\ a.next + (NImage - n) <= FREE_RAM_END
           /\ Cardinality(Used(a.ram, first + 1)) \in Nat
           /\ \A v \in Mapped : Vpn1(v) \notin Used(a.ram, first + 1) =>
                /\ Cardinality(Used(a.ram, first + 1) \union {Vpn1(v)})
                     = Cardinality(Used(a.ram, first + 1)) + 1
                /\ a.next + (NImage - n) + 1 <= FREE_RAM_END
<1> DEFINE I == {Vpn1(v) : v \in V}
           All == {Vpn1(v) : v \in Mapped}
<1>1. /\ Cardinality(I) \in Nat /\ Cardinality(All) \in Nat
      /\ Cardinality(I) <= Cardinality(All)
      /\ \A v \in Mapped : Vpn1(v) \notin I =>
           /\ Cardinality(I \union {Vpn1(v)}) = Cardinality(I) + 1
           /\ Cardinality(I) + 1 <= Cardinality(All)
  BY CountProps
<1>2. NImage \in Nat /\ SpacePages = NImage + Cardinality(All)
  BY MappedProps DEF SpacePages
<1>3. Used(a.ram, first + 1) = I /\ a.next = first + 2 + n + Cardinality(I)
  BY DEF Built
<1>4. FREE_RAM_END \in Nat
  BY RamAssumption
<1> HIDE DEF I, All
<1> QED
  BY <1>1, <1>2, <1>3, <1>4 DEF Fits

\* The next page, when it is not past the end, is free.
LEMMA NextIsFree ==
    ASSUME NEW first, Fits(first), NEW base, NEW V, NEW n \in Nat,
           NEW a, Built(a, base, first, V, n), a.next \in Nat, first + 2 <= a.next,
           a.next + 1 <= FREE_RAM_END
    PROVE  a.next \in Pages \ ({first + 1} \union Tables0(a.ram, first + 1))
<1>1. FREE_RAM \in Nat /\ FREE_RAM_END \in Nat /\ first \in Nat /\ FREE_RAM <= first
  BY RamAssumption DEF Fits
<1>2. Tables0(a.ram, first + 1) \subseteq first + 2 .. a.next - 1
  BY DEF Built
<1>3. a.next \notin first + 2 .. a.next - 1 /\ a.next # first + 1 /\ a.next \in Pages
  BY <1>1 DEF Pages
<1> QED
  BY <1>2, <1>3

\* A turn of a loop maps one page, for which there is room.
LEMMA Turn ==
    ASSUME NEW first, Fits(first), NEW base, NEW V \in SUBSET Mapped, NEW n \in 0 .. NImage,
           NEW a, Built(a, base, first, V, n), NEW v \in Mapped,
           NEW page, NEW flags, NEW e \in Nat, Has(e, PAGE_V), e = Entry(page, flags + PAGE_V)
    PROVE  LET out == map_page(a, first + 1, v, page, flags)
           IN  /\ Built(out, base, first, V \union {v}, n)
               /\ TableAdded(a, out, first + 1, Vpn1(v))
               /\ Translated(a, out, first + 1, v, e)
               /\ a.next \in Nat /\ out.next \in Nat /\ a.next <= out.next
<1> DEFINE root == first + 1
           out == map_page(a, root, v, page, flags)
           i == Vpn1(v)
<1>1. v \in Vpages /\ i \in Words
  BY MappedProps, VpnProps
<1>2. NImage \in Nat
  BY MappedProps
<1>3. /\ a.next \in Nat /\ first + 2 <= a.next /\ Cardinality(Used(a.ram, root)) \in Nat
      /\ i \notin Used(a.ram, root) =>
           /\ Cardinality(Used(a.ram, root) \union {i}) = Cardinality(Used(a.ram, root)) + 1
           /\ a.next + (NImage - n) + 1 <= FREE_RAM_END
  BY RoomProps
<1>4. RoomFor(a, root, i)
  <2>1. CASE i \notin Used(a.ram, root)
    <3>1. a.next + 1 <= FREE_RAM_END
      BY <1>2, <1>3, <2>1, RamAssumption
    <3> QED
      BY <1>3, <3>1, NextIsFree DEF RoomFor
  <2> QED
    BY <2>1 DEF RoomFor
<1>5. a \in Memories /\ Formed(a.ram, root)
  BY DEF Built
<1>6. TableAdded(a, out, root, i) /\ Translated(a, out, root, v, e)
  BY <1>1, <1>4, <1>5, MapPageProps
<1> HIDE DEF out
<1>7. out \in Memories /\ Formed(out.ram, root)
  BY <1>6 DEF TableAdded
<1>8. Used(out.ram, root) = {Vpn1(u) : u \in V \union {v}}
  BY <1>6 DEF TableAdded, Built
<1>9. /\ out.next = first + 2 + n + Cardinality(Used(out.ram, root))
      /\ Tables0(out.ram, root) \subseteq first + 2 .. out.next - 1
      /\ a.next <= out.next /\ out.next \in Nat
  <2>1. /\ a.next = first + 2 + n + Cardinality(Used(a.ram, root))
        /\ Tables0(a.ram, root) \subseteq first + 2 .. a.next - 1
        /\ Used(out.ram, root) = Used(a.ram, root) \union {i}
    BY <1>6 DEF Built, TableAdded
  <2>2. first \in Nat
    BY DEF Fits
  <2>3. CASE i \in Used(a.ram, root)
    <3>1. out.next = a.next /\ Tables0(out.ram, root) = Tables0(a.ram, root)
      BY <1>6, <2>3 DEF TableAdded
    <3>2. Used(out.ram, root) = Used(a.ram, root)
      BY <2>1, <2>3
    <3> QED
      BY <1>3, <2>1, <3>1, <3>2
  <2>4. CASE i \notin Used(a.ram, root)
    <3>1. out.next = a.next + 1 /\ Tables0(out.ram, root) = Tables0(a.ram, root) \union {a.next}
      BY <1>6, <2>4 DEF TableAdded
    <3>2. Cardinality(Used(out.ram, root)) = Cardinality(Used(a.ram, root)) + 1
      BY <1>3, <2>1, <2>4
    <3>3. out.next = first + 2 + n + Cardinality(Used(out.ram, root))
      BY <1>3, <2>1, <2>2, <3>1, <3>2
    <3>4. Tables0(out.ram, root) \subseteq first + 2 .. out.next - 1
      BY <1>3, <2>1, <2>2, <3>1
    <3> QED
      BY <1>3, <3>1, <3>3, <3>4
  <2> QED
    BY <2>3, <2>4
<1>10. ASSUME NEW p \in Pages \ (first .. out.next - 1) PROVE out.ram[p] = base[p]
  <2>1. p \in Pages \ (first .. a.next - 1) /\ p # root /\ p \notin first + 2 .. out.next - 1
    BY <1>3, <1>9, RamAssumption DEF Fits, Pages
  <2>2. out.ram[p] = a.ram[p]
    BY <1>6, <1>9, <2>1 DEF TableAdded
  <2> QED
    BY <2>1, <2>2 DEF Built
<1>11. \A u \in Vpages \ (V \union {v}) : Walk(out.ram, root, u) = 0
  BY <1>1, <1>6 DEF Translated, Built
<1>12. Built(out, base, first, V \union {v}, n)
  BY <1>7, <1>8, <1>9, <1>10, <1>11 DEF Built
<1> QED
  BY <1>3, <1>6, <1>9, <1>12 DEF out

\* A turn of kernel_map_page's loop maps one page of the kernel to itself.
LEMMA KernelTurn ==
    ASSUME NEW first, Fits(first), NEW base, NEW V \in SUBSET KernelPages, NEW v \in KernelPages,
           NEW a, Built(a, base, first, V, 0), KernelMapped(a, first, V)
    PROVE  LET out == map_page(a, first + 1, v, v, PAGE_R + PAGE_W + PAGE_X)
           IN  Built(out, base, first, V \union {v}, 0) /\ KernelMapped(out, first, V \union {v})
<1> DEFINE f == PAGE_R + PAGE_W + PAGE_X
           e == Entry(v, 15)
           out == map_page(a, first + 1, v, v, f)
<1>1. v \in Vpages /\ v \in Nat /\ v \in Mapped /\ V \in SUBSET Mapped
  BY MappedProps DEF Vpages
<1>2. 0 \in 0 .. NImage
  BY MappedProps
<1>3. f + PAGE_V = 15
  BY DEF PAGE_R, PAGE_W, PAGE_X, PAGE_V
<1>4. e \in Nat /\ Has(e, PAGE_V)
  BY <1>1, FlagProps, EntryProps
<1> HIDE DEF f
<1>5. e = Entry(v, f + PAGE_V)
  BY <1>3
<1> HIDE DEF e
<1>6. Built(out, base, first, V \union {v}, 0) /\ Translated(a, out, first + 1, v, e)
  BY <1>1, <1>2, <1>4, <1>5, Turn
<1> HIDE DEF out
<1>7. KernelMapped(out, first, V \union {v})
  BY <1>6, MappedProps DEF KernelMapped, Translated, e
<1> QED
  BY <1>6, <1>7 DEF out, f

\* The virtual pages that are mapped when k parts of the image are.
Upto(k) == KernelPages \union {VpageOf(j) : j \in 0 .. k - 1}

\* The next page with a part of the image.
Filled(a, k) == [Cleared(a) EXCEPT !.ram[a.next] = WithImage(@, k)]

\* A part of the image over a page is a page.
LEMMA PartType ==
    ASSUME NEW k \in Nat, NEW page \in [Words -> Nat]
    PROVE  WithImage(page, k) \in [Words -> Nat]
<1>1. ASSUME NEW w \in Words, ImageWord(k, w) <= Len(IMAGE) PROVE IMAGE[ImageWord(k, w)] \in Nat
  <2>1. PAGE_WORDS \in Nat /\ IMAGE \in Seq(Nat)
    BY MmuAssumption
  <2> DEFINE z == k * PAGE_WORDS
  <2>2. z \in Nat /\ ImageWord(k, w) = z + w + 1 /\ w \in Nat
    BY <2>1 DEF ImageWord, Words
  <2> HIDE DEF z
  <2>3. ImageWord(k, w) \in 1 .. Len(IMAGE)
    BY <1>1, <2>1, <2>2
  <2> QED
    BY <2>1, <2>3
<1> QED
  BY <1>1 DEF WithImage

\* A part of the image is put into the next page, which is not mapped yet.
LEMMA FilledProps ==
    ASSUME NEW first, Fits(first), NEW base, NEW k \in 0 .. NImage - 1,
           NEW a, Built(a, base, first, Upto(k), k), KernelMapped(a, first, Upto(k)),
           ImagesMapped(a, first, k)
    PROVE  LET filled == Filled(a, k) IN
           /\ Upto(k) \in SUBSET Mapped
           /\ a.next \in Nat /\ a.next \in Pages /\ first + 2 <= a.next
           /\ filled.next = a.next + 1
           /\ filled.ram[a.next] = Part(k)
           /\ a.next \notin Tables0(filled.ram, first + 1)
           /\ Built(filled, base, first, Upto(k), k + 1)
           /\ KernelMapped(filled, first, Upto(k))
           /\ ImagesMapped(filled, first, k)
           /\ \A j \in 0 .. k - 1 : ImagePage(filled.ram, first + 1, j) # a.next
<1> DEFINE root == first + 1
           V == Upto(k)
           c == Cleared(a)
           filled == Filled(a, k)
<1>1. NImage \in Nat /\ k \in Nat /\ k \in 0 .. NImage /\ k + 1 <= NImage
  BY MappedProps
<1>2. V \in SUBSET Mapped
  BY <1>1, MappedProps DEF Upto, ImagePages
<1>3. first \in Nat /\ FREE_RAM_END \in Nat
  BY RamAssumption DEF Fits
<1>4. /\ a.next \in Nat /\ first + 2 <= a.next /\ a.next + (NImage - k) <= FREE_RAM_END
      /\ Cardinality(Used(a.ram, root)) \in Nat
  BY <1>1, <1>2, RoomProps
<1>5. a.next \in Pages \ ({root} \union Tables0(a.ram, root))
  <2>1. a.next + 1 <= FREE_RAM_END
    BY <1>1, <1>3, <1>4
  <2> QED
    BY <1>1, <1>4, <2>1, NextIsFree
<1>6. a \in Memories /\ Formed(a.ram, root)
  BY DEF Built
<1>7. /\ c \in Memories /\ c.next = a.next + 1
      /\ c.ram[a.next] = [w \in Words |-> 0]
      /\ \A p \in Pages \ {a.next} : c.ram[p] = a.ram[p]
  BY <1>5, <1>6, ClearedProps
<1> HIDE DEF c, filled
<1>8. Part(k) \in [Words -> Nat]
  <2>1. [w \in Words |-> 0] \in [Words -> Nat]
    OBVIOUS
  <2> QED
    BY <1>1, <2>1, PartType DEF Part
<1>9. /\ filled.next = a.next + 1
      /\ filled.ram[a.next] = Part(k)
      /\ \A p \in Pages \ {a.next} : filled.ram[p] = a.ram[p]
      /\ filled \in Memories
  <2>1. c.ram \in Rams /\ c.next \in Nat /\ c = [ram |-> c.ram, next |-> c.next]
    BY <1>7 DEF Memories
  <2>2. WithImage(c.ram[a.next], k) = Part(k)
    BY <1>7 DEF Part
  <2>3. filled = [c EXCEPT !.ram[a.next] = WithImage(c.ram[a.next], k)]
    BY DEF c, filled, Filled
  <2>4. filled = [c EXCEPT !.ram[a.next] = Part(k)]
    BY <2>2, <2>3
  <2>5. filled = [ram |-> [c.ram EXCEPT ![a.next] = Part(k)], next |-> c.next]
    BY <2>1, <2>4
  <2>6. filled.ram = [c.ram EXCEPT ![a.next] = Part(k)] /\ filled.next = c.next
    BY <2>5
  <2>7. filled.ram \in Rams
    <3> DEFINE S == [Words -> Nat]
    <3>1. c.ram \in [Pages -> S] /\ Part(k) \in S
      BY <1>8, <2>1 DEF Rams
    <3> HIDE DEF S
    <3>2. filled.ram \in [Pages -> S]
      BY <2>6, <3>1
    <3> QED
      BY <3>2 DEF S, Rams
  <2>8. filled \in Memories
    BY <2>1, <2>5, <2>6, <2>7 DEF Memories
  <2> QED
    BY <1>5, <1>7, <2>1, <2>6, <2>8 DEF Rams
<1>10. Tables0(a.ram, root) \subseteq first + 2 .. a.next - 1 /\ Tables0(a.ram, root) \subseteq Pages
  BY <1>6, TablesProps DEF Built, Formed
<1>11. /\ filled.ram[root] = a.ram[root]
       /\ \A t \in Tables0(a.ram, root) : filled.ram[t] = a.ram[t]
  BY <1>4, <1>5, <1>6, <1>9, <1>10 DEF Formed
<1>12. /\ Formed(filled.ram, root)
       /\ Used(filled.ram, root) = Used(a.ram, root)
       /\ Tables0(filled.ram, root) = Tables0(a.ram, root)
       /\ \A v \in Vpages : Walk(filled.ram, root, v) = Walk(a.ram, root, v)
  BY <1>6, <1>11, SameTables
<1>13. Built(filled, base, first, V, k + 1)
  <2>1. Tables0(filled.ram, root) \subseteq first + 2 .. filled.next - 1
    BY <1>3, <1>4, <1>9, <1>10, <1>12
  <2>2. filled.next = first + 2 + (k + 1) + Cardinality(Used(filled.ram, root))
    BY <1>1, <1>3, <1>4, <1>9, <1>12 DEF Built
  <2>3. ASSUME NEW p \in Pages \ (first .. filled.next - 1) PROVE filled.ram[p] = base[p]
    <3>1. p \in Pages \ (first .. a.next - 1) /\ p # a.next
      BY <1>3, <1>4, <1>9, RamAssumption DEF Pages
    <3> QED
      BY <1>9, <3>1 DEF Built
  <2>4. Used(filled.ram, root) = {Vpn1(v) : v \in V} /\ \A u \in Vpages \ V : Walk(filled.ram, root, u) = 0
    BY <1>12 DEF Built
  <2> QED
    BY <1>9, <1>12, <2>1, <2>2, <2>3, <2>4 DEF Built
<1>14. KernelMapped(filled, first, V)
  BY <1>12, MappedProps DEF KernelMapped
<1>15. /\ ImagesMapped(filled, first, k)
       /\ \A j \in 0 .. k - 1 : ImagePage(filled.ram, root, j) # a.next
  <2>1. \A j \in 0 .. k - 1 : VpageOf(j) \in Vpages
    BY <1>1, MappedProps DEF ImagePages
  <2>2. \A j \in 0 .. k - 1 : ImagePage(filled.ram, root, j) = ImagePage(a.ram, root, j)
    BY <1>12, <2>1 DEF ImagePage
  <2>3. ASSUME NEW j \in 0 .. k - 1
        PROVE  LET page == ImagePage(filled.ram, root, j)
               IN  /\ Walk(filled.ram, root, VpageOf(j)) = Entry(page, 31)
                   /\ page \in first + 2 .. filled.next - 1
                   /\ page \notin Tables0(filled.ram, root)
                   /\ filled.ram[page] = Part(j)
                   /\ \A l \in 0 .. k - 1 : ImagePage(filled.ram, root, l) = page => l = j
                   /\ page # a.next
    <3> DEFINE page == ImagePage(a.ram, root, j)
    <3>1. /\ Walk(a.ram, root, VpageOf(j)) = Entry(page, 31)
          /\ page \in first + 2 .. a.next - 1
          /\ page \notin Tables0(a.ram, root)
          /\ a.ram[page] = Part(j)
          /\ \A l \in 0 .. k - 1 : ImagePage(a.ram, root, l) = page => l = j
      BY DEF ImagesMapped
    <3>2. ImagePage(filled.ram, root, j) = page
      BY <2>2
    <3> HIDE DEF page
    <3>3. page \in Pages /\ page # a.next /\ page \in first + 2 .. filled.next - 1
      <4>1. FREE_RAM \in Nat /\ FREE_RAM <= first /\ a.next <= FREE_RAM_END - 1
        BY <1>5, RamAssumption DEF Fits, Pages
      <4> QED
        BY <1>3, <1>4, <1>9, <3>1, <4>1 DEF Pages
    <3>4. filled.ram[page] = Part(j)
      BY <1>9, <3>1, <3>3
    <3> QED
      BY <1>12, <2>1, <2>2, <3>1, <3>2, <3>3, <3>4
  <2> QED
    BY <2>3 DEF ImagesMapped
<1> QED
  BY <1>2, <1>4, <1>5, <1>9, <1>12, <1>13, <1>14, <1>15 DEF filled

\* A turn of user_map_page's loop maps one part of the image to a page of its own.
LEMMA ImageTurn ==
    ASSUME NEW first, Fits(first), NEW base, NEW k \in 0 .. NImage - 1,
           NEW a, Built(a, base, first, Upto(k), k), KernelMapped(a, first, Upto(k)),
           ImagesMapped(a, first, k)
    PROVE  LET out == MapImage(a, first + 1, k)
           IN  /\ Built(out, base, first, Upto(k + 1), k + 1)
               /\ KernelMapped(out, first, Upto(k + 1))
               /\ ImagesMapped(out, first, k + 1)
<1> DEFINE root == first + 1
           m == Filled(a, k)
           f == PAGE_U + PAGE_R + PAGE_W + PAGE_X
           v == VpageOf(k)
           e == Entry(a.next, 31)
           out == map_page(m, root, v, a.next, f)
<1>1. NImage \in Nat /\ k \in Nat /\ k + 1 \in 0 .. NImage /\ first \in Nat
  BY MappedProps DEF Fits
<1>2. /\ Upto(k) \in SUBSET Mapped
      /\ a.next \in Nat /\ a.next \in Pages /\ first + 2 <= a.next
      /\ m.next = a.next + 1
      /\ m.ram[a.next] = Part(k)
      /\ a.next \notin Tables0(m.ram, root)
      /\ Built(m, base, first, Upto(k), k + 1)
      /\ KernelMapped(m, first, Upto(k))
      /\ ImagesMapped(m, first, k)
      /\ \A j \in 0 .. k - 1 : ImagePage(m.ram, root, j) # a.next
  BY FilledProps
<1>3. MapImage(a, root, k) = out
  BY DEF MapImage, VpageOf, Filled
<1>4. v \in Mapped /\ v \in Vpages /\ v \notin KernelPages
  BY <1>1, MappedProps DEF ImagePages
<1>5. f + PAGE_V = 31
  BY DEF PAGE_U, PAGE_R, PAGE_W, PAGE_X, PAGE_V
<1>6. e \in Nat /\ Has(e, PAGE_V) /\ PageOf(e) = a.next
  <2>1. a.next \in Nat
    BY <1>2
  <2>2. Entry(a.next, 31) \in Nat /\ PageOf(Entry(a.next, 31)) = a.next
    BY <2>1, EntryKinds, Zenon
  <2>3. Has(Entry(a.next, 31), PAGE_V)
    BY <2>1, FlagProps, Zenon
  <2> QED
    BY <2>2, <2>3
<1> HIDE DEF f, m
<1>7. e = Entry(a.next, f + PAGE_V)
  BY <1>5
<1> HIDE DEF e
<1>8. /\ Built(out, base, first, Upto(k) \union {v}, k + 1)
      /\ TableAdded(m, out, root, Vpn1(v))
      /\ Translated(m, out, root, v, e)
      /\ m.next \in Nat /\ out.next \in Nat /\ m.next <= out.next
  BY <1>1, <1>2, <1>4, <1>6, <1>7, Turn
<1> HIDE DEF out
<1>9. Upto(k + 1) = Upto(k) \union {v}
  <2>1. 0 .. (k + 1) - 1 = (0 .. k - 1) \union {k}
    BY <1>1
  <2> QED
    BY <2>1 DEF Upto
<1>10. KernelMapped(out, first, Upto(k + 1))
  <2> SUFFICES ASSUME NEW u \in Upto(k + 1) \intersect KernelPages
               PROVE  Walk(out.ram, root, u) = Entry(u, 15)
    BY DEF KernelMapped
  <2>1. u # v /\ u \in Upto(k) \intersect KernelPages
    BY <1>4, <1>9
  <2>2. u \in Vpages
    BY MappedProps
  <2>3. Walk(m.ram, root, u) = Entry(u, 15)
    BY <1>2, <2>1 DEF KernelMapped
  <2> QED
    BY <1>8, <2>1, <2>2, <2>3 DEF Translated
<1>11. \A j \in 0 .. k - 1 : VpageOf(j) \in Vpages /\ VpageOf(j) # v
  BY <1>1, MappedProps, MmuAssumption DEF ImagePages, VpageOf
<1>12. /\ Walk(out.ram, root, v) = e
       /\ \A j \in 0 .. k - 1 : Walk(out.ram, root, VpageOf(j)) = Walk(m.ram, root, VpageOf(j))
  BY <1>4, <1>8, <1>11 DEF Translated
<1>13. /\ ImagePage(out.ram, root, k) = a.next
       /\ \A j \in 0 .. k - 1 : ImagePage(out.ram, root, j) = ImagePage(m.ram, root, j)
  BY <1>6, <1>12 DEF ImagePage
<1>14. Tables0(m.ram, root) \subseteq first + 2 .. m.next - 1
  BY <1>2 DEF Built
<1>15. Tables0(out.ram, root) \subseteq Tables0(m.ram, root) \union {m.next}
  BY <1>8 DEF TableAdded
<1>16. \A p \in Pages : p # root /\ p \notin Tables0(m.ram, root) /\ p # m.next =>
         out.ram[p] = m.ram[p] /\ p \notin Tables0(out.ram, root)
  BY <1>8, <1>15 DEF TableAdded
<1>17. ASSUME NEW j \in 0 .. k - 1
       PROVE  LET page == ImagePage(out.ram, root, j)
              IN  /\ Walk(out.ram, root, VpageOf(j)) = Entry(page, 31)
                  /\ page \in first + 2 .. out.next - 1
                  /\ page \notin Tables0(out.ram, root)
                  /\ out.ram[page] = Part(j)
                  /\ \A l \in 0 .. k - 1 : ImagePage(out.ram, root, l) = page => l = j
                  /\ page # a.next
  <2> DEFINE page == ImagePage(m.ram, root, j)
  <2>1. /\ Walk(m.ram, root, VpageOf(j)) = Entry(page, 31)
        /\ page \notin Tables0(m.ram, root)
        /\ m.ram[page] = Part(j)
        /\ \A l \in 0 .. k - 1 : ImagePage(m.ram, root, l) = page => l = j
    BY <1>2 DEF ImagesMapped
  <2>2. page \in first + 2 .. a.next - 1
    <3>1. page \in first + 2 .. m.next - 1 /\ page # a.next
      BY <1>2 DEF ImagesMapped
    <3> HIDE DEF page
    <3> QED
      BY <1>1, <1>2, <3>1
  <2>3. ImagePage(out.ram, root, j) = page
    BY <1>13
  <2> HIDE DEF page
  <2>4. /\ page \in Pages /\ page # root /\ page # m.next /\ page # a.next
        /\ page \in first + 2 .. out.next - 1
    <3>1. FREE_RAM \in Nat /\ FREE_RAM <= first /\ a.next <= FREE_RAM_END - 1 /\ FREE_RAM_END \in Nat
      BY <1>2, RamAssumption DEF Fits, Pages
    <3> QED
      BY <1>1, <1>2, <1>8, <2>2, <3>1 DEF Pages
  <2>5. out.ram[page] = Part(j) /\ page \notin Tables0(out.ram, root)
    BY <1>16, <2>1, <2>4
  <2> QED
    BY <1>12, <1>13, <2>1, <2>3, <2>4, <2>5
<1>18. /\ a.next \in first + 2 .. out.next - 1
       /\ a.next \notin Tables0(out.ram, root)
       /\ out.ram[a.next] = Part(k)
  <2>1. a.next # root /\ a.next # m.next /\ a.next \in first + 2 .. out.next - 1
    BY <1>1, <1>2, <1>8
  <2> QED
    BY <1>2, <1>16, <2>1
<1>19. ImagesMapped(out, first, k + 1)
  <2>1. \A j : j \in 0 .. (k + 1) - 1 <=> j \in 0 .. k - 1 \/ j = k
    BY <1>1
  <2>2. Walk(out.ram, root, VpageOf(k)) = Entry(a.next, 31)
    BY <1>12 DEF e
  <2>3. ASSUME NEW j \in 0 .. (k + 1) - 1
        PROVE  LET page == ImagePage(out.ram, root, j)
               IN  /\ Walk(out.ram, root, VpageOf(j)) = Entry(page, 31)
                   /\ page \in first + 2 .. out.next - 1
                   /\ page \notin Tables0(out.ram, root)
                   /\ out.ram[page] = Part(j)
                   /\ \A l \in 0 .. (k + 1) - 1 : ImagePage(out.ram, root, l) = page => l = j
    <3>1. CASE j \in 0 .. k - 1
      BY <1>13, <1>17, <2>1, <3>1
    <3>2. CASE j = k
      BY <1>13, <1>17, <1>18, <2>1, <2>2, <3>2
    <3> QED
      BY <2>1, <3>1, <3>2
  <2> QED
    BY <2>3 DEF ImagesMapped
<1> QED
  BY <1>3, <1>8, <1>9, <1>10, <1>19

-----------------------------------------------------------------------------
(* The loops                                                                *)

\* Storing to a word, or clearing a page, wherever it is, leaves a memory.
LEMMA PutType ==
    ASSUME NEW ram \in Rams, NEW t, NEW w, NEW e \in Nat
    PROVE  [ram EXCEPT ![t][w] = e] \in Rams
<1> DEFINE S == [Words -> Nat]
<1>1. \A p \in Pages : ram[p] \in S /\ [ram[p] EXCEPT ![w] = e] \in S
  BY DEF Rams
<1>2. ram \in [Pages -> S]
  BY DEF Rams
<1> HIDE DEF S
<1>3. [ram EXCEPT ![t][w] = e] \in [Pages -> S]
  BY <1>1, <1>2
<1> QED
  BY <1>3 DEF Rams, S

\* alloc_pages(1) takes a memory to a memory.
LEMMA ClearedType ==
    ASSUME NEW m \in Memories
    PROVE  Cleared(m) \in Memories
<1> DEFINE S == [Words -> Nat]
           zero == [w \in Words |-> 0]
<1>1. zero \in S
  OBVIOUS
<1>2. m.ram \in [Pages -> S] /\ m.next \in Nat /\ m = [ram |-> m.ram, next |-> m.next]
  BY DEF Memories, Rams
<1> HIDE DEF S
<1>3. Cleared(m) = [m EXCEPT !.ram[m.next] = zero, !.next = @ + 1]
  BY DEF Cleared
<1> HIDE DEF zero
<1>4. Cleared(m) = [ram |-> [m.ram EXCEPT ![m.next] = zero], next |-> m.next + 1]
  BY <1>2, <1>3
<1>5. [m.ram EXCEPT ![m.next] = zero] \in [Pages -> S]
  BY <1>1, <1>2
<1>6. m.next + 1 \in Nat
  BY <1>2
<1> QED
  BY <1>4, <1>5, <1>6 DEF Memories, Rams, S

\* map_page leaves a memory, whatever it is given.
LEMMA MapPageType ==
    ASSUME NEW m \in Memories, NEW root, NEW v, NEW page \in Nat, NEW flags \in Nat
    PROVE  map_page(m, root, v, page, flags) \in Memories
<1> DEFINE made == WithTable0(m, root, Vpn1(v))
           e == Entry(page, flags + PAGE_V)
           t == PageOf(made.ram[root][Vpn1(v)])
<1>1. made \in Memories
  <2> DEFINE c == Cleared(m)
             x == Entry(m.next, PAGE_V)
  <2>1. c \in Memories
    BY ClearedType
  <2>2. x \in Nat
    BY DEF Memories, Entry, PAGE_V
  <2> HIDE DEF x
  <2>3. made = m \/ made = [c EXCEPT !.ram[root][Vpn1(v)] = x]
    BY DEF WithTable0, x
  <2> HIDE DEF c
  <2>4. c.ram \in Rams /\ c.next \in Nat /\ c = [ram |-> c.ram, next |-> c.next]
    BY <2>1 DEF Memories
  <2> DEFINE r == [c.ram EXCEPT ![root][Vpn1(v)] = x]
  <2>5. r \in Rams
    BY <2>2, <2>4, PutType
  <2>6. made = m \/ made = [ram |-> r, next |-> c.next]
    BY <2>3, <2>4
  <2> HIDE DEF r, made
  <2> QED
    BY <2>4, <2>5, <2>6 DEF Memories
<1>2. e \in Nat
  BY DEF Entry, PAGE_V
<1>3. map_page(m, root, v, page, flags) = [made EXCEPT !.ram[t][Vpn0(v)] = e]
  BY DEF map_page
<1> HIDE DEF made, e, t
<1>4. made.ram \in Rams /\ made.next \in Nat /\ made = [ram |-> made.ram, next |-> made.next]
  BY <1>1 DEF Memories
<1> DEFINE r == [made.ram EXCEPT ![t][Vpn0(v)] = e]
<1>5. r \in Rams
  BY <1>2, <1>4, PutType
<1>6. map_page(m, root, v, page, flags) = [ram |-> r, next |-> made.next]
  BY <1>3, <1>4
<1> HIDE DEF r
<1> QED
  BY <1>4, <1>5, <1>6 DEF Memories

\* What holds before kernel_map_page's loop and is kept by each turn holds after it.
LEMMA KernelLoop ==
    ASSUME NEW m \in Memories, NEW root, NEW T, <<0, m>> \in T,
           \A k \in 1 .. FREE_RAM_END - KERNEL_BASE, a \in Memories :
             <<k - 1, a>> \in T =>
               <<k, map_page(a, root, KERNEL_BASE + k - 1, KERNEL_BASE + k - 1,
                             PAGE_R + PAGE_W + PAGE_X)>> \in T
    PROVE  <<FREE_RAM_END - KERNEL_BASE, kernel_map_page(m, root)>> \in T
<1> DEFINE n == FREE_RAM_END - KERNEL_BASE
           turn(a, k) == map_page(a, root, KERNEL_BASE + k - 1, KERNEL_BASE + k - 1,
                                  PAGE_R + PAGE_W + PAGE_X)
           step(a, k) == IF k \in 1 .. n THEN turn(a, k) ELSE a
           G == [k \in Nat |-> [a \in Memories |-> step(a, k)]]
           mapped == CHOOSE mapped : mapped = [i \in 0 .. FREE_RAM_END - KERNEL_BASE |->
                       IF i = 0 THEN m
                       ELSE map_page(mapped[i - 1], root, KERNEL_BASE + i - 1, KERNEL_BASE + i - 1,
                                     PAGE_R + PAGE_W + PAGE_X)]
<1>1. n \in Nat /\ KERNEL_BASE \in Nat
  BY RamAssumption, MmuAssumption
<1>2. ASSUME NEW a \in Memories, NEW k \in 1 .. n PROVE turn(a, k) \in Memories
  <2>1. KERNEL_BASE + k - 1 \in Nat /\ PAGE_R + PAGE_W + PAGE_X \in Nat
    BY <1>1 DEF PAGE_R, PAGE_W, PAGE_X
  <2> QED
    BY <2>1, MapPageType
<1>3. mapped = [i \in 0 .. FREE_RAM_END - KERNEL_BASE |->
                  IF i = 0 THEN m
                  ELSE map_page(mapped[i - 1], root, KERNEL_BASE + i - 1, KERNEL_BASE + i - 1,
                                PAGE_R + PAGE_W + PAGE_X)]
      => mapped = [i \in 0 .. n |-> IF i = 0 THEN m ELSE turn(mapped[i - 1], i)]
  OBVIOUS
<1>4. kernel_map_page(m, root) = mapped[n]
  BY Zenon DEF kernel_map_page
<1> HIDE DEF turn, n
<1>5. \A a \in Memories, k \in Nat : step(a, k) \in Memories
  BY <1>2
<1>6. G \in StepsOn(Memories)
  <2> HIDE DEF step
  <2> QED
    BY <1>5 DEF StepsOn
<1>7. PICK f : Unfolds(f, Memories, m, G, n)
  <2> HIDE DEF G
  <2> QED
    BY <1>1, <1>6, RecursionExists
<1>8. ASSUME NEW k \in 1 .. n PROVE f[k] = turn(f[k - 1], k)
  <2>1. k \in Nat /\ k - 1 \in 0 .. n
    BY <1>1
  <2>2. f[k - 1] \in Memories /\ f[k] = G[k][f[k - 1]]
    BY <1>7, <2>1 DEF Unfolds
  <2> QED
    BY <2>1, <2>2
<1>9. f = [i \in 0 .. n |-> IF i = 0 THEN m ELSE turn(f[i - 1], i)]
  BY <1>1, <1>7, <1>8 DEF Unfolds
<1>10. mapped = [i \in 0 .. n |-> IF i = 0 THEN m ELSE turn(mapped[i - 1], i)]
  BY <1>3, <1>9 DEF turn, n
<1> HIDE DEF mapped
<1> DEFINE P == {k \in 0 .. n : mapped[k] \in Memories /\ <<k, mapped[k]>> \in T}
<1>11. 0 \in P
  BY <1>1, <1>10
<1>12. ASSUME NEW k \in 1 .. n, k - 1 \in P PROVE k \in P
  <2>1. mapped[k] = turn(mapped[k - 1], k) /\ k \in 0 .. n
    BY <1>1, <1>10
  <2>2. mapped[k - 1] \in Memories /\ <<k - 1, mapped[k - 1]>> \in T
    BY <1>12
  <2>3. <<k, turn(mapped[k - 1], k)>> \in T
    BY <2>2 DEF turn, n
  <2> QED
    BY <1>2, <2>1, <2>2, <2>3
<1> HIDE DEF P
<1>13. n \in P
  <2>1. \A k \in 0 .. n : k \in P
    BY <1>1, <1>11, <1>12, SegmentInduction
  <2> QED
    BY <1>1, <2>1
<1> QED
  BY <1>4, <1>13 DEF P, n

\* So does a turn of the loop of user_map_page.
LEMMA MapImageType ==
    ASSUME NEW m \in Memories, NEW root, NEW k \in Nat
    PROVE  MapImage(m, root, k) \in Memories
<1> DEFINE c == Cleared(m)
           S == [Words -> Nat]
           filled == [c EXCEPT !.ram[m.next] = WithImage(@, k)]
<1>1. c \in Memories /\ m.next \in Nat
  BY ClearedType DEF Memories
<1> HIDE DEF c
<1>2. c.ram \in [Pages -> S] /\ c.next \in Nat /\ c = [ram |-> c.ram, next |-> c.next]
  BY <1>1 DEF Memories, Rams
<1>3. \A p \in Pages : WithImage(c.ram[p], k) \in S
  BY <1>2, PartType
<1> HIDE DEF S
<1> DEFINE r == [c.ram EXCEPT ![m.next] = WithImage(@, k)]
<1>4. r \in [Pages -> S]
  BY <1>2, <1>3
<1>5. filled = [ram |-> r, next |-> c.next]
  BY <1>2
<1> HIDE DEF r
<1>6. filled \in Memories
  BY <1>2, <1>4, <1>5 DEF Memories, Rams, S
<1>7. MapImage(m, root, k) = map_page(filled, root, USER_BASE + k, m.next, PAGE_U + PAGE_R + PAGE_W + PAGE_X)
  BY DEF MapImage, c
<1>8. PAGE_U + PAGE_R + PAGE_W + PAGE_X \in Nat
  BY DEF PAGE_U, PAGE_R, PAGE_W, PAGE_X
<1> HIDE DEF filled
<1> QED
  BY <1>1, <1>6, <1>7, <1>8, MapPageType

\* What holds before user_map_page's loop and is kept by each turn holds after it.
LEMMA ImageLoop ==
    ASSUME NEW m \in Memories, NEW root, NEW T, <<0, m>> \in T,
           \A k \in 1 .. NImage, a \in Memories :
             <<k - 1, a>> \in T => <<k, MapImage(a, root, k - 1)>> \in T
    PROVE  <<NImage, user_map_page(m, root)>> \in T
<1> DEFINE n == NImage
           turn(a, k) == MapImage(a, root, k - 1)
           step(a, k) == IF k \in 1 .. n THEN turn(a, k) ELSE a
           G == [k \in Nat |-> [a \in Memories |-> step(a, k)]]
           mapped == CHOOSE mapped : mapped = [i \in 0 .. NImage |->
                       IF i = 0 THEN m ELSE MapImage(mapped[i - 1], root, i - 1)]
<1>1. n \in Nat
  BY MappedProps
<1>2. ASSUME NEW a \in Memories, NEW k \in 1 .. n PROVE turn(a, k) \in Memories
  BY <1>1, MapImageType
<1>3. mapped = [i \in 0 .. NImage |->
                  IF i = 0 THEN m ELSE MapImage(mapped[i - 1], root, i - 1)]
      => mapped = [i \in 0 .. n |-> IF i = 0 THEN m ELSE turn(mapped[i - 1], i)]
  OBVIOUS
<1>4. user_map_page(m, root) = mapped[n]
  BY Zenon DEF user_map_page
<1> HIDE DEF turn, n
<1>5. \A a \in Memories, k \in Nat : step(a, k) \in Memories
  BY <1>2
<1>6. G \in StepsOn(Memories)
  <2> HIDE DEF step
  <2> QED
    BY <1>5 DEF StepsOn
<1>7. PICK f : Unfolds(f, Memories, m, G, n)
  <2> HIDE DEF G
  <2> QED
    BY <1>1, <1>6, RecursionExists
<1>8. ASSUME NEW k \in 1 .. n PROVE f[k] = turn(f[k - 1], k)
  <2>1. k \in Nat /\ k - 1 \in 0 .. n
    BY <1>1
  <2>2. f[k - 1] \in Memories /\ f[k] = G[k][f[k - 1]]
    BY <1>7, <2>1 DEF Unfolds
  <2> QED
    BY <2>1, <2>2
<1>9. f = [i \in 0 .. n |-> IF i = 0 THEN m ELSE turn(f[i - 1], i)]
  BY <1>1, <1>7, <1>8 DEF Unfolds
<1>10. mapped = [i \in 0 .. n |-> IF i = 0 THEN m ELSE turn(mapped[i - 1], i)]
  BY <1>3, <1>9 DEF turn, n
<1> HIDE DEF mapped
<1> DEFINE P == {k \in 0 .. n : mapped[k] \in Memories /\ <<k, mapped[k]>> \in T}
<1>11. 0 \in P
  BY <1>1, <1>10
<1>12. ASSUME NEW k \in 1 .. n, k - 1 \in P PROVE k \in P
  <2>1. mapped[k] = turn(mapped[k - 1], k) /\ k \in 0 .. n
    BY <1>1, <1>10
  <2>2. mapped[k - 1] \in Memories /\ <<k - 1, mapped[k - 1]>> \in T
    BY <1>12
  <2>3. <<k, turn(mapped[k - 1], k)>> \in T
    BY <2>2 DEF turn, n
  <2> QED
    BY <1>2, <2>1, <2>2, <2>3
<1> HIDE DEF P
<1>13. n \in P
  <2>1. \A k \in 0 .. n : k \in P
    BY <1>1, <1>11, <1>12, SegmentInduction
  <2> QED
    BY <1>1, <2>1
<1> QED
  BY <1>4, <1>13 DEF P, n

-----------------------------------------------------------------------------
(* A complete address space                                                 *)

\* An address space as it stands in a memory from page first on: it translates the
\* kernel's pages to themselves and the parts of the image to pages of its own, and
\* nothing else for user mode.
Space(ram, first) ==
    LET root == first + 1
        extent == first + 2 .. first + 1 + SpacePages
    IN  /\ Formed(ram, root)
        /\ Tables0(ram, root) \subseteq extent
        /\ \A u \in KernelPages : Walk(ram, root, u) = Entry(u, 15)
        /\ \A j \in ImagePages :
             LET page == ImagePage(ram, root, j)
             IN  /\ Walk(ram, root, VpageOf(j)) = Entry(page, 31)
                 /\ page \in extent \ Tables0(ram, root)
                 /\ \A l \in ImagePages : ImagePage(ram, root, l) = page => l = j
        /\ \A u \in Vpages \ Mapped : Walk(ram, root, u) = 0

\* The first two pages are the stack and an empty root.
LEMMA EmptyProps ==
    ASSUME NEW base \in Rams, NEW first, Fits(first)
    PROVE  LET m == Cleared(Cleared([ram |-> base, next |-> first]))
           IN  Built(m, base, first, {}, 0) /\ KernelMapped(m, first, {})
<1> DEFINE x == [ram |-> base, next |-> first]
           y == Cleared(x)
           m == Cleared(y)
           root == first + 1
<1>1. /\ first \in Nat /\ FREE_RAM \in Nat /\ FREE_RAM_END \in Nat /\ FREE_RAM <= first
      /\ first + 2 <= FREE_RAM_END
  <2>1. SpacePages \in Nat
    <3>1. {} \in SUBSET Mapped
      OBVIOUS
    <3>2. Cardinality({Vpn1(v) : v \in Mapped}) \in Nat
      BY <3>1, CountProps
    <3> QED
      BY <3>2, MappedProps DEF SpacePages
  <2> QED
    BY <2>1, RamAssumption DEF Fits
<1>2. first \in Pages /\ root \in Pages /\ root \in Nat
  BY <1>1 DEF Pages
<1>3. x \in Memories /\ x.next = first /\ x.ram = base
  BY <1>1 DEF Memories
<1> HIDE DEF x
<1>4. /\ y \in Memories /\ y.next = root
      /\ \A p \in Pages \ {first} : y.ram[p] = base[p]
  BY <1>2, <1>3, ClearedProps
<1> HIDE DEF y
<1>5. /\ m \in Memories /\ m.next = root + 1
      /\ m.ram[root] = [w \in Words |-> 0]
      /\ \A p \in Pages \ {root} : m.ram[p] = y.ram[p]
  BY <1>2, <1>4, ClearedProps
<1> HIDE DEF m
<1>6. Used(m.ram, root) = {}
  BY <1>5, FlagProps DEF Used
<1>7. Formed(m.ram, root)
  BY <1>2, <1>6 DEF Formed
<1>8. Tables0(m.ram, root) = {}
  BY <1>6, TablesProps
<1>9. \A u \in Vpages : Walk(m.ram, root, u) = 0
  BY <1>6, <1>7, WalkProps
<1>10. m.next = first + 2 + 0 + Cardinality(Used(m.ram, root))
  BY <1>1, <1>5, <1>6, FS_EmptySet
<1>11. ASSUME NEW p \in Pages \ (first .. m.next - 1) PROVE m.ram[p] = base[p]
  <2>1. p # first /\ p # root
    BY <1>1, <1>5
  <2> QED
    BY <1>4, <1>5, <2>1
<1>12. Used(m.ram, root) = {Vpn1(v) : v \in {}}
  BY <1>6
<1>13. Built(m, base, first, {}, 0)
  BY <1>5, <1>7, <1>8, <1>9, <1>10, <1>11, <1>12 DEF Built
<1>14. KernelMapped(m, first, {})
  BY DEF KernelMapped
<1> QED
  BY <1>13, <1>14 DEF m, y, x

\* kernel_map_page maps the kernel and the RAM.
LEMMA KernelProps ==
    ASSUME NEW base, NEW first, Fits(first), NEW m, Built(m, base, first, {}, 0),
           KernelMapped(m, first, {})
    PROVE  LET out == kernel_map_page(m, first + 1)
           IN  Built(out, base, first, KernelPages, 0) /\ KernelMapped(out, first, KernelPages)
<1> DEFINE n == FREE_RAM_END - KERNEL_BASE
           V(k) == KERNEL_BASE .. KERNEL_BASE + k - 1
           T == {p \in (0 .. n) \X Memories : /\ Built(p[2], base, first, V(p[1]), 0)
                                              /\ KernelMapped(p[2], first, V(p[1]))}
<1>1. n \in Nat /\ KERNEL_BASE \in Nat /\ FREE_RAM_END \in Nat
  BY RamAssumption, MmuAssumption
<1>2. V(0) = {} /\ V(n) = KernelPages
  BY <1>1 DEF KernelPages
<1>3. m \in Memories
  BY DEF Built
<1>4. <<0, m>> \in T
  BY <1>1, <1>2, <1>3
<1>5. ASSUME NEW k \in 1 .. n, NEW a \in Memories, <<k - 1, a>> \in T
      PROVE  <<k, map_page(a, first + 1, KERNEL_BASE + k - 1, KERNEL_BASE + k - 1,
                           PAGE_R + PAGE_W + PAGE_X)>> \in T
  <2> DEFINE v == KERNEL_BASE + k - 1
             out == map_page(a, first + 1, v, v, PAGE_R + PAGE_W + PAGE_X)
  <2>1. Built(a, base, first, V(k - 1), 0) /\ KernelMapped(a, first, V(k - 1))
    BY <1>5
  <2>2. V(k - 1) \in SUBSET KernelPages /\ v \in KernelPages
    BY <1>1 DEF KernelPages
  <2>3. V(k) = V(k - 1) \union {v}
    BY <1>1
  <2> HIDE DEF V, v
  <2>4. Built(out, base, first, V(k), 0) /\ KernelMapped(out, first, V(k))
    BY <2>1, <2>2, <2>3, KernelTurn
  <2>5. out \in Memories
    BY <2>4 DEF Built
  <2>6. k \in 0 .. n
    BY <1>1
  <2> HIDE DEF out
  <2>7. <<k, out>> \in T
    BY <2>4, <2>5, <2>6
  <2> QED
    BY <2>7 DEF out, v
<1>6. <<n, kernel_map_page(m, first + 1)>> \in T
  <2> HIDE DEF T
  <2> QED
    BY <1>3, <1>4, <1>5, KernelLoop
<1> QED
  BY <1>2, <1>6

\* user_map_page maps the image.
LEMMA ImageProps ==
    ASSUME NEW base, NEW first, Fits(first), NEW m, Built(m, base, first, KernelPages, 0),
           KernelMapped(m, first, KernelPages)
    PROVE  LET out == user_map_page(m, first + 1)
           IN  /\ Built(out, base, first, Mapped, NImage)
               /\ KernelMapped(out, first, Mapped)
               /\ ImagesMapped(out, first, NImage)
<1> DEFINE n == NImage
           Good(a, k) == /\ Built(a, base, first, Upto(k), k)
                         /\ KernelMapped(a, first, Upto(k))
                         /\ ImagesMapped(a, first, k)
           T == {p \in (0 .. n) \X Memories : Good(p[2], p[1])}
<1>1. n \in Nat
  BY MappedProps
<1>2. Upto(0) = KernelPages /\ Upto(n) = Mapped
  BY <1>1, MappedProps DEF Upto, ImagePages
<1>3. m \in Memories
  BY DEF Built
<1>4. ImagesMapped(m, first, 0)
  BY DEF ImagesMapped
<1>5. <<0, m>> \in T
  BY <1>1, <1>2, <1>3, <1>4
<1>6. ASSUME NEW k \in 1 .. n, NEW a \in Memories, <<k - 1, a>> \in T
      PROVE  <<k, MapImage(a, first + 1, k - 1)>> \in T
  <2> DEFINE out == MapImage(a, first + 1, k - 1)
  <2>1. k - 1 \in 0 .. NImage - 1 /\ (k - 1) + 1 = k /\ k \in 0 .. n
    BY <1>1
  <2>2. Good(a, k - 1)
    BY <1>6
  <2>3. Good(out, k)
    <3>1. Good(out, (k - 1) + 1)
      BY <2>1, <2>2, ImageTurn
    <3> QED
      BY <2>1, <3>1
  <2>4. out \in Memories
    BY <2>3 DEF Built
  <2> HIDE DEF out, Good
  <2>5. <<k, out>> \in T
    BY <2>1, <2>3, <2>4
  <2> QED
    BY <2>5 DEF out
<1>7. <<n, user_map_page(m, first + 1)>> \in T
  <2> HIDE DEF T
  <2> QED
    BY <1>3, <1>5, <1>6, ImageLoop
<1>8. Good(user_map_page(m, first + 1), n)
  BY <1>7
<1> QED
  BY <1>2, <1>8

\* What proc_create builds from page first on is an address space that holds the
\* image, and no other page changes.
LEMMA AddressSpaceProps ==
    ASSUME NEW base \in Rams, NEW first, Fits(first)
    PROVE  LET out == AddressSpace(base, first)
           IN  /\ out.ram \in Rams
               /\ Space(out.ram, first)
               /\ \A j \in ImagePages : out.ram[ImagePage(out.ram, first + 1, j)] = Part(j)
               /\ \A p \in Pages \ (first .. first + 1 + SpacePages) : out.ram[p] = base[p]
<1> DEFINE root == first + 1
           m == Cleared(Cleared([ram |-> base, next |-> first]))
           kernel == kernel_map_page(m, root)
           out == user_map_page(kernel, root)
<1>1. Built(m, base, first, {}, 0) /\ KernelMapped(m, first, {})
  BY EmptyProps
<1>2. AddressSpace(base, first) = out
  BY DEF AddressSpace
<1> HIDE DEF m
<1>3. Built(kernel, base, first, KernelPages, 0) /\ KernelMapped(kernel, first, KernelPages)
  BY <1>1, KernelProps
<1> HIDE DEF kernel
<1>4. /\ Built(out, base, first, Mapped, NImage)
      /\ KernelMapped(out, first, Mapped)
      /\ ImagesMapped(out, first, NImage)
  BY <1>3, ImageProps
<1> HIDE DEF out
<1>5. out.next = first + 2 + SpacePages /\ SpacePages \in Nat /\ first \in Nat
  <2>1. {} \in SUBSET Mapped
    OBVIOUS
  <2>2. Cardinality({Vpn1(v) : v \in Mapped}) \in Nat
    BY <2>1, CountProps
  <2>3. out.next = first + 2 + NImage + Cardinality({Vpn1(v) : v \in Mapped})
    BY <1>4 DEF Built
  <2> HIDE DEF VpageOf
  <2> QED
    BY <2>2, <2>3, MappedProps DEF SpacePages, Fits
<1>6. first + 2 .. out.next - 1 = first + 2 .. first + 1 + SpacePages
      /\ first .. out.next - 1 = first .. first + 1 + SpacePages
  BY <1>5
<1>7. out.ram \in Rams /\ Formed(out.ram, root)
  BY <1>4 DEF Built, Memories
<1>8. Tables0(out.ram, root) \subseteq first + 2 .. first + 1 + SpacePages
  BY <1>4, <1>6 DEF Built
<1>9. \A u \in KernelPages : Walk(out.ram, root, u) = Entry(u, 15)
  BY <1>4, MappedProps DEF KernelMapped
<1>10. \A u \in Vpages \ Mapped : Walk(out.ram, root, u) = 0
  BY <1>4 DEF Built
<1>11. \A p \in Pages \ (first .. first + 1 + SpacePages) : out.ram[p] = base[p]
  BY <1>4, <1>6 DEF Built
<1>12. ASSUME NEW j \in ImagePages
       PROVE  LET page == ImagePage(out.ram, root, j)
              IN  /\ Walk(out.ram, root, VpageOf(j)) = Entry(page, 31)
                  /\ page \in (first + 2 .. first + 1 + SpacePages) \ Tables0(out.ram, root)
                  /\ out.ram[page] = Part(j)
                  /\ \A l \in ImagePages : ImagePage(out.ram, root, l) = page => l = j
  BY <1>4, <1>6 DEF ImagesMapped, ImagePages
<1>13. Space(out.ram, first)
  BY <1>7, <1>8, <1>9, <1>10, <1>12 DEF Space
<1> QED
  BY <1>2, <1>7, <1>11, <1>12, <1>13

\* What a program reaches in its address space are its image's pages, as many as the
\* image has: pages after the stack and the root, and no tables.
LEMMA SpaceUserPages ==
    ASSUME NEW ram, NEW first \in Nat, Space(ram, first)
    PROVE  /\ \A p : p \in UserPages(ram, first + 1) <=>
                       \E j \in ImagePages : p = ImagePage(ram, first + 1, j)
           /\ UserPages(ram, first + 1) \subseteq
                (first + 2 .. first + 1 + SpacePages) \ Tables0(ram, first + 1)
           /\ Cardinality(UserPages(ram, first + 1)) = Cardinality(ImagePages)
           /\ \A v \in Vpages : Has(Walk(ram, first + 1, v), PAGE_U) =>
                \E j \in ImagePages : v = VpageOf(j)
<1> DEFINE root == first + 1
           U == UserPages(ram, root)
           page(j) == ImagePage(ram, root, j)
           extent == first + 2 .. first + 1 + SpacePages
<1>1. Formed(ram, root)
  BY DEF Space
<1>2. ASSUME NEW v \in Vpages, Has(Walk(ram, root, v), PAGE_U)
      PROVE  \E j \in ImagePages : v = VpageOf(j)
  <2>1. v \in Mapped
    BY <1>2, FlagProps DEF Space
  <2>2. ASSUME v \in KernelPages PROVE FALSE
    <3>1. Walk(ram, root, v) = Entry(v, 15) /\ v \in Nat
      BY <2>2 DEF Space, Vpages
    <3> QED
      BY <1>2, <3>1, FlagProps
  <2> QED
    BY <2>1, <2>2, MappedProps
<1>3. \A j \in ImagePages :
        /\ Walk(ram, root, VpageOf(j)) = Entry(page(j), 31)
        /\ page(j) \in extent \ Tables0(ram, root)
        /\ \A l \in ImagePages : page(l) = page(j) => l = j
  BY DEF Space
<1>4. ASSUME NEW j \in ImagePages
      PROVE  /\ VpageOf(j) \in Vpages
             /\ Has(Walk(ram, root, VpageOf(j)), PAGE_U)
             /\ page(j) = PageOf(Walk(ram, root, VpageOf(j)))
  <2>1. page(j) \in Nat
    <3>1. page(j) \in extent
      BY <1>3
    <3> HIDE DEF page
    <3> QED
      BY <3>1
  <2> QED
    BY <1>3, <2>1, FlagProps, MappedProps DEF ImagePage
<1>5. ASSUME NEW p PROVE p \in U <=> \E j \in ImagePages : p = page(j)
  <2>1. p \in U <=> \E v \in Vpages : Has(Walk(ram, root, v), PAGE_U) /\ p = PageOf(Walk(ram, root, v))
    BY <1>1, UserPagesProps
  <2> HIDE DEF U, page
  <2> QED
    BY <1>2, <1>4, <2>1
<1>6. U \subseteq extent \ Tables0(ram, root)
  BY <1>3, <1>5
<1>7. Cardinality(U) = Cardinality(ImagePages)
  <2> DEFINE f == [j \in ImagePages |-> page(j)]
  <2>1. IsFiniteSet(ImagePages)
    <3>1. 0 \in Int /\ NImage - 1 \in Int
      BY MappedProps
    <3> QED
      BY <3>1, FS_Interval DEF ImagePages
  <2> HIDE DEF page, U
  <2>2. f \in [ImagePages -> U] /\ \A j \in ImagePages : f[j] = page(j)
    BY <1>5
  <2> HIDE DEF f
  <2>3. f \in Bijection(ImagePages, U)
    BY <1>3, <1>5, <2>2 DEF Bijection, Injection, Surjection, IsInjective
  <2>4. ExistsBijection(ImagePages, U)
    BY <2>3 DEF ExistsBijection
  <2> QED
    BY <2>1, <2>4, FS_Bijection
<1> QED
  BY <1>2, <1>5, <1>6, <1>7
=============================================================================
