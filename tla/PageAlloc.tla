----------------------------- MODULE PageAlloc -----------------------------
(***************************************************************************)
(* The page allocator of mm/alloc.c and its one-page front end             *)
(* kernel/kalloc.c.  The whole allocator is one static variable,           *)
(* next_paddr, that only moves up; free_pages has an empty body, so a page *)
(* is handed out at most once.  Addresses are counted in pages: every      *)
(* request is a multiple of PAGE_SIZE and __free_ram is page aligned       *)
(* (linker.ld), so nothing is lost.                                        *)
(*                                                                         *)
(* The operators below are used by the modules whose code allocates.       *)
(***************************************************************************)
EXTENDS Naturals

CONSTANTS
    FREE_RAM,       \* __free_ram, in pages
    FREE_RAM_END,   \* __free_ram_end, in pages: the first page past the RAM
    PFN_SPACE,      \* 2^32 / PAGE_SIZE: paddr32_t wraps here
    MAX_PAGES       \* the most pages one caller asks for in one step

(***************************************************************************)
(* The RAM ends far enough below the top of the 32-bit address space that  *)
(* next_paddr + num_pages * PAGE_SIZE does not wrap.  linker.ld puts the   *)
(* end near 0x84200000 and every caller in the kernel asks for one page.   *)
(* Page 0 is not RAM: 0 is the failure value of alloc.h.                   *)
(***************************************************************************)
ASSUME RamAssumption ==
    /\ FREE_RAM \in Nat \ {0}
    /\ FREE_RAM_END \in Nat
    /\ MAX_PAGES \in Nat
    /\ PFN_SPACE \in Nat
    /\ FREE_RAM <= FREE_RAM_END
    /\ FREE_RAM_END + MAX_PAGES < PFN_SPACE

VARIABLE next_paddr

Pages == FREE_RAM .. FREE_RAM_END - 1

\* next_paddr after a request: the addition is done in 32 bits.
After(num_pages) == (next_paddr + num_pages) % PFN_SPACE

\* The check made after the addition.  It panics, so the caller never sees a failure.
OutOfMemory(num_pages) == After(num_pages) > FREE_RAM_END

\* num_pages calls of alloc_pages(1) that all succeed; the k-th returns page next_paddr + k - 1.
alloc_pages(num_pages) ==
    /\ ~OutOfMemory(num_pages)
    /\ next_paddr' = After(num_pages)

\* num_pages calls of alloc_pages(1), one of which finds no page left: next_paddr
\* has been advanced past the end when the check panics.
alloc_panics(num_pages) ==
    /\ OutOfMemory(num_pages)
    /\ next_paddr' = FREE_RAM_END + 1
=============================================================================
