-------------------------------- MODULE Mmu --------------------------------
(***************************************************************************)
(* arch/riscv/kernel/MMU.c: two-level Sv32 page tables, built in pages of  *)
(* the same RAM that alloc_pages hands out.  A page is a function from its *)
(* words to numbers whatever it is used for, so that a table, the image of *)
(* a program and what RAM holds at power-up can be taken for each other,   *)
(* as on the machine.  Addresses are counted in pages: each caller passes  *)
(* page-aligned ones, which the two checks at the head of map_page ask.    *)
(*                                                                         *)
(* A mapping step takes and leaves a record m: m.ram the memory, m.next    *)
(* the page alloc_pages(1) returns next.  Whether the memory suffices is   *)
(* asked by the caller (Proc).                                             *)
(***************************************************************************)
EXTENDS PageAlloc, Integers, Sequences, FiniteSets

CONSTANTS
    PAGE_WORDS,     \* words of a page, and so entries of a table (1024)
    KERNEL_BASE,    \* __kernel_base, in pages
    USER_BASE,      \* USER_BASE, in pages
    IMAGE           \* the words of the user image

ASSUME MmuAssumption ==
    /\ PAGE_WORDS \in Nat \ {0}
    /\ PAGE_WORDS * PAGE_WORDS = PFN_SPACE
    /\ KERNEL_BASE \in 1 .. FREE_RAM
    /\ USER_BASE \in Nat
    /\ IMAGE \in Seq(Nat)
    /\ USER_BASE + Len(IMAGE) \div PAGE_WORDS < KERNEL_BASE

Words == 0 .. PAGE_WORDS - 1

\* The bits of an entry (MMU.h); the page number starts at bit 10.
PAGE_V == 1
PAGE_R == 2
PAGE_W == 4
PAGE_X == 8
PAGE_U == 16

Entry(page, flags) == page * 1024 + flags
PageOf(entry) == entry \div 1024
Has(entry, flag) == (entry \div flag) % 2 = 1

\* The two indices of a virtual page.
Vpn1(vpage) == (vpage \div PAGE_WORDS) % PAGE_WORDS
Vpn0(vpage) == vpage % PAGE_WORDS

-----------------------------------------------------------------------------

\* alloc_pages(1): the next page, all zero.
Cleared(m) == [m EXCEPT !.ram[m.next] = [w \in Words |-> 0], !.next = @ + 1]

\* The second-level table is made on first use.
WithTable0(m, table1, vpn1) ==
    IF Has(m.ram[table1][vpn1], PAGE_V) THEN m
    ELSE [Cleared(m) EXCEPT !.ram[table1][vpn1] = Entry(m.next, PAGE_V)]

map_page(m, table1, vpage, page, flags) ==
    LET made   == WithTable0(m, table1, Vpn1(vpage))
        table0 == PageOf(made.ram[table1][Vpn1(vpage)])
    IN  [made EXCEPT !.ram[table0][Vpn0(vpage)] = Entry(page, flags + PAGE_V)]

\* The kernel and all of the RAM, each page at its own address.
KernelPages == KERNEL_BASE .. FREE_RAM_END - 1

\* Mutant of kernel_map_page: the RAM is mapped, the kernel in front of it not.
kernel_map_page_ram(m, table1) ==
    LET mapped[i \in 0 .. FREE_RAM_END - FREE_RAM] ==
          IF i = 0 THEN m
          ELSE map_page(mapped[i - 1], table1, FREE_RAM + i - 1, FREE_RAM + i - 1,
                        PAGE_R + PAGE_W + PAGE_X)
    IN  mapped[FREE_RAM_END - FREE_RAM]

kernel_map_page(m, table1) ==
    LET mapped[i \in 0 .. FREE_RAM_END - KERNEL_BASE] ==
          IF i = 0 THEN m
          ELSE map_page(mapped[i - 1], table1, KERNEL_BASE + i - 1, KERNEL_BASE + i - 1,
                        PAGE_R + PAGE_W + PAGE_X)
    IN  mapped[FREE_RAM_END - KERNEL_BASE]

\* The pages of the image.  The last one may be copied in part; alloc_pages
\* has cleared the rest.
NImage == (Len(IMAGE) + PAGE_WORDS - 1) \div PAGE_WORDS
ImagePages == 0 .. NImage - 1
ImageWord(k, w) == k * PAGE_WORDS + w + 1

\* The page with the k-th part of the image, given a cleared one.
WithImage(page, k) ==
    [w \in Words |-> IF ImageWord(k, w) <= Len(IMAGE) THEN IMAGE[ImageWord(k, w)] ELSE page[w]]

\* Mutant of user_map_page: every part of the image is mapped to the first page.
user_map_page_first(m, table1) ==
    LET mapped[i \in 0 .. NImage] ==
          IF i = 0 THEN m
          ELSE LET a == mapped[i - 1]
               IN  map_page([Cleared(a) EXCEPT !.ram[a.next] = WithImage(@, i - 1)],
                            table1, USER_BASE + i - 1, m.next, PAGE_U + PAGE_R + PAGE_W + PAGE_X)
    IN  mapped[NImage]

\* A page is taken, filled with its part of the image and mapped.
MapImage(m, table1, k) ==
    map_page([Cleared(m) EXCEPT !.ram[m.next] = WithImage(@, k)],
             table1, USER_BASE + k, m.next, PAGE_U + PAGE_R + PAGE_W + PAGE_X)

user_map_page(m, table1) ==
    LET mapped[i \in 0 .. NImage] ==
          IF i = 0 THEN m ELSE MapImage(mapped[i - 1], table1, i - 1)
    IN  mapped[NImage]

\* The pages that takes, with one table for each part of the addresses that is used.
Mapped == KernelPages \union {USER_BASE + k : k \in ImagePages}
SpacePages == NImage + Cardinality({Vpn1(v) : v \in Mapped})

\* The pages and the mappings proc_create takes: the first page for the kernel
\* stack, the second for the root table.
AddressSpace(ram, first) ==
    LET m == Cleared(Cleared([ram |-> ram, next |-> first]))
    IN  user_map_page(kernel_map_page(m, first + 1), first + 1)

-----------------------------------------------------------------------------
(* The hardware's side: what the tables mean.                               *)

\* The entry the walk from root ends at, 0 where there is none.
Walk(ram, root, vpage) ==
    LET entry1 == ram[root][Vpn1(vpage)]
        entry0 == ram[PageOf(entry1)][Vpn0(vpage)]
    IN  IF Has(entry1, PAGE_V) /\ PageOf(entry1) \in Pages /\ Has(entry0, PAGE_V)
        THEN entry0 ELSE 0

\* The second-level tables under root.
Tables0(ram, root) ==
    {PageOf(e) : e \in {e \in {ram[root][i] : i \in Words} : Has(e, PAGE_V)}}

\* Pages that a program in user mode reaches.
UserPages(ram, root) ==
    {PageOf(e) : e \in {e \in UNION {{ram[t][i] : i \in Words} : t \in Tables0(ram, root)} :
                         Has(e, PAGE_V) /\ Has(e, PAGE_U)}}
=============================================================================
