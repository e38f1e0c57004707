----------------------------- MODULE TrapProofs -----------------------------
(***************************************************************************)
(* Proofs about Trap for any RAM, any image, any number of processes and   *)
(* any programs: the address spaces stay as they were built, so that no    *)
(* program reaches anything but its image in user mode and the kernel runs *)
(* on in each of them, until SYS_READ is sent over what the kernel rests   *)
(* on; and the kernel gives each program a machine of its own, up to what  *)
(* a SYS_READ with a buffer that is not its program's does to the memory.  *)
(***************************************************************************)
EXTENDS TrapMachines, ProcProofs, MmuProofs

-----------------------------------------------------------------------------
(* The inductive invariant.                                                 *)

\* The pages of a process from its kernel stack on.
End(s) == kstack[s] + 2 + MAP_PAGES

\* Every process that was created is live and has its pages to itself.
SlotsInv ==
    \A s \in Slots :
      /\ state[s] # "UNUSED" => Live(s)
      /\ mode # "panic_memory" /\ state[s] # "UNUSED" => pagetable[s] # NULL
      /\ pagetable[s] # NULL =>
           /\ kstack[s] \in Nat
           /\ pagetable[s] = kstack[s] + 1
           /\ FREE_RAM <= kstack[s]
           /\ End(s) <= next_paddr
           /\ End(s) <= FREE_RAM_END
      /\ \A t \in Slots \ {s} :
           pagetable[s] # NULL /\ pagetable[t] # NULL => End(s) <= kstack[t] \/ End(t) <= kstack[s]

\* Their address spaces are as they were built, unless a copyout went over the kernel's own.
SpacesInv == mode # "wild" => \A s \in Created : Space(ram, kstack[s])

\* The page table in use is that of a process.
SatpInv == satp # NULL => \E s \in Created : satp = pagetable[s]

\* While the kernel boots there is no user state and no frame.
BootInv == mode = "boot" => user = NULL /\ \A p \in Pages : frame[p] = NULL

\* A frame stands for an ecall, which is at a place the program can go to.
FramesInv == \A p \in Pages : frame[p] # NULL => frame[p].sepc_ \in Targets

TrapIInv ==
    /\ TrapTypeOK
    /\ mode \notin {"panic_trap", "wild"} => IInv
    /\ SlotsInv
    /\ SpacesInv
    /\ SatpInv
    /\ BootInv
    /\ FramesInv

-----------------------------------------------------------------------------
(* Frames, pages and processes                                              *)

\* A trap frame and the state it is restored to are well formed, and neither is NULL.
LEMMA FrameProps ==
    ASSUME NEW f \in Frames
    PROVE  /\ f # NULL
           /\ \A v \in Vals : WithResult(f, v) \in Frames /\ WithResult(f, v).sepc_ = f.sepc_
           /\ f.sepc_ \in Targets => /\ Resume(f) \in UserStates /\ Resume(f) # NULL
                                     /\ Resume(f).pc \in PCs
<1>1. f \notin {NULL}
  BY NullAssumption
<1>2. ASSUME NEW v \in Vals
      PROVE  WithResult(f, v) \in Frames /\ WithResult(f, v).sepc_ = f.sepc_
  <2> DEFINE g == [f.gpr EXCEPT !["a0"] = v]
  <2>1. f.gpr \in [Regs -> Vals] /\ f.sepc_ \in PCs /\ f = [gpr |-> f.gpr, sepc_ |-> f.sepc_]
    BY DEF Frames
  <2>2. g \in [Regs -> Vals]
    BY <2>1
  <2>3. WithResult(f, v) = [gpr |-> g, sepc_ |-> f.sepc_]
    BY <2>1 DEF WithResult
  <2> QED
    BY <2>1, <2>2, <2>3 DEF Frames
<1>3. ASSUME f.sepc_ \in Targets
      PROVE  Resume(f) \in UserStates /\ Resume(f) # NULL /\ Resume(f).pc \in PCs
  <2>1. f.sepc_ + 1 \in PCs
    BY <1>3 DEF PCs
  <2>2. Resume(f) \in UserStates
    BY <2>1 DEF Resume, UserStates, Frames
  <2> QED
    BY <2>1, <2>2, NullAssumption DEF Resume
<1> QED
  BY <1>1, <1>2, <1>3

\* What kernel_entry stores is a frame, for an ecall where the program stands.
LEMMA SavedProps ==
    ASSUME TrapTypeOK, user # NULL
    PROVE  /\ user \in UserStates
           /\ Saved_frame \in Frames
           /\ Saved_frame.sepc_ = user.pc
BY DEF TrapTypeOK, Saved_frame, UserStates, Frames

\* The pages of a process are RAM, and no two processes share one.
LEMMA ExtentProps ==
    ASSUME SlotsInv, NEW s \in Created
    PROVE  /\ kstack[s] \in Nat /\ kstack[s] \in Pages
           /\ pagetable[s] = kstack[s] + 1 /\ pagetable[s] \in Pages
           /\ kstack[s] .. kstack[s] + 1 + SpacePages \subseteq Pages
           /\ SpacePages \in Nat
           /\ \A t \in Created \ {s} :
                (kstack[s] .. kstack[s] + 1 + SpacePages)
                  \intersect (kstack[t] .. kstack[t] + 1 + SpacePages) = {}
<1>1. SpacePages = MAP_PAGES /\ MAP_PAGES \in Nat
  BY TrapAssumption, ProcAssumption
<1>2. FREE_RAM \in Nat /\ FREE_RAM_END \in Nat
  BY RamAssumption
<1>3. /\ kstack[s] \in Nat /\ pagetable[s] = kstack[s] + 1
      /\ FREE_RAM <= kstack[s] /\ kstack[s] + 2 + MAP_PAGES <= FREE_RAM_END
  BY DEF SlotsInv, Created, End
<1>4. ASSUME NEW t \in Created \ {s}
      PROVE  /\ kstack[t] \in Nat
             /\ kstack[s] + 2 + MAP_PAGES <= kstack[t] \/ kstack[t] + 2 + MAP_PAGES <= kstack[s]
  BY DEF SlotsInv, Created, End
<1> QED
  BY <1>1, <1>2, <1>3, <1>4 DEF Pages

\* While the hart runs programs the current process is one that was created, and
\* satp, sscratch and sp are its page table and its kernel stack.
LEMMA RunProps ==
    ASSUME TrapIInv, mode \in {"run", "spin"}
    PROVE  /\ g_current_proc \in Created /\ g_current_proc \in Slots
           /\ satp = pagetable[g_current_proc]
           /\ sscratch = kstack[g_current_proc]
           /\ regs.sp = kstack[g_current_proc]
<1>1. IInv /\ SlotsInv
  BY DEF TrapIInv
<1>2. g_current_proc \in Slots /\ state[g_current_proc] # "UNUSED"
  BY <1>1 DEF IInv, CurrentInv, OnCpu
<1>3. Live(g_current_proc) /\ pagetable[g_current_proc] # NULL
  BY <1>1, <1>2 DEF SlotsInv
<1> QED
  BY <1>1, <1>2, <1>3 DEF IInv, CpuMatchesCurrent, Created

-----------------------------------------------------------------------------
(* Address spaces that stay as they are                                     *)

\* An address space depends on its root and its tables alone.
LEMMA SpaceKept ==
    ASSUME NEW ram1, NEW first, Space(ram1, first), NEW ram2,
           \A p \in Tables0(ram1, first + 1) \union {first + 1} : ram2[p] = ram1[p]
    PROVE  /\ Space(ram2, first)
           /\ UserPages(ram2, first + 1) = UserPages(ram1, first + 1)
           /\ Tables0(ram2, first + 1) = Tables0(ram1, first + 1)
           /\ \A v \in Vpages : Walk(ram2, first + 1, v) = Walk(ram1, first + 1, v)
<1>1. Formed(ram1, first + 1)
  BY DEF Space
<1>2. /\ Formed(ram2, first + 1)
      /\ UserPages(ram2, first + 1) = UserPages(ram1, first + 1)
      /\ Tables0(ram2, first + 1) = Tables0(ram1, first + 1)
      /\ \A v \in Vpages : Walk(ram2, first + 1, v) = Walk(ram1, first + 1, v)
  BY <1>1, SameTables
<1>3. \A j \in ImagePages : VpageOf(j) \in Vpages
  BY MappedProps
<1>4. \A j \in ImagePages : ImagePage(ram2, first + 1, j) = ImagePage(ram1, first + 1, j)
  BY <1>2, <1>3 DEF ImagePage
<1>5. KernelPages \subseteq Vpages
  BY MappedProps
<1>6. Space(ram2, first)
  BY <1>2, <1>3, <1>4, <1>5 DEF Space
<1> QED
  BY <1>2, <1>6

\* Pages a program reaches are no part of any address space's root and tables.
LEMMA NoTable ==
    ASSUME SlotsInv, SpacesInv, mode # "wild", NEW s \in Created, NEW t \in Created
    PROVE  /\ UserPages(ram, pagetable[s])
                \intersect (Tables0(ram, pagetable[t]) \union {pagetable[t], kstack[t]}) = {}
           /\ s # t => UserPages(ram, pagetable[s]) \intersect UserPages(ram, pagetable[t]) = {}
<1>1. ASSUME NEW u \in Created
      PROVE  /\ kstack[u] \in Nat /\ pagetable[u] = kstack[u] + 1 /\ SpacePages \in Nat
             /\ UserPages(ram, pagetable[u]) \subseteq
                  (kstack[u] + 2 .. kstack[u] + 1 + SpacePages) \ Tables0(ram, pagetable[u])
             /\ Tables0(ram, pagetable[u]) \subseteq kstack[u] + 2 .. kstack[u] + 1 + SpacePages
  <2>1. kstack[u] \in Nat /\ pagetable[u] = kstack[u] + 1 /\ SpacePages \in Nat
    BY ExtentProps
  <2>2. Space(ram, kstack[u])
    BY DEF SpacesInv
  <2>3. Tables0(ram, kstack[u] + 1) \subseteq kstack[u] + 2 .. kstack[u] + 1 + SpacePages
    BY <2>2 DEF Space
  <2> QED
    BY <2>1, <2>2, <2>3, SpaceUserPages
<1>2. CASE s = t
  <2>1. /\ kstack[s] \in Nat /\ pagetable[s] = kstack[s] + 1
        /\ UserPages(ram, pagetable[s]) \subseteq
             (kstack[s] + 2 .. kstack[s] + 1 + SpacePages) \ Tables0(ram, pagetable[s])
    BY <1>1
  <2> QED
    BY <1>2, <2>1
<1>3. CASE s # t
  <2>1. (kstack[s] .. kstack[s] + 1 + SpacePages)
          \intersect (kstack[t] .. kstack[t] + 1 + SpacePages) = {}
    BY <1>3, ExtentProps
  <2>2. ASSUME NEW u \in Created
        PROVE  /\ Tables0(ram, pagetable[u]) \union {pagetable[u], kstack[u]}
                    \subseteq kstack[u] .. kstack[u] + 1 + SpacePages
               /\ UserPages(ram, pagetable[u]) \subseteq kstack[u] .. kstack[u] + 1 + SpacePages
    BY <1>1
  <2> HIDE DEF Created
  <2> QED
    BY <2>1, <2>2
<1> QED
  BY <1>2, <1>3

\* Memory ram2 differs from the memory there is in page p at most.
StoredTo(ram2, p) == ram2 \in Rams /\ \A q \in Pages \ {p} : ram2[q] = ram[q]

\* Page p is no root, no table and no kernel stack.
PlainPage(p) ==
    \A t \in Created : p \notin Tables0(ram, pagetable[t]) \union {pagetable[t], kstack[t]}

\* A store to a plain page leaves every address space as it is.
LEMMA StoreKeeps ==
    ASSUME SlotsInv, SpacesInv, mode # "wild", NEW p, PlainPage(p),
           NEW ram2, StoredTo(ram2, p), NEW t \in Created
    PROVE  /\ Space(ram2, kstack[t])
           /\ \A v \in Vpages : Walk(ram2, pagetable[t], v) = Walk(ram, pagetable[t], v)
<1>1. Space(ram, kstack[t]) /\ pagetable[t] = kstack[t] + 1 /\ pagetable[t] \in Pages
  BY ExtentProps DEF SpacesInv
<1>2. p \notin Tables0(ram, pagetable[t]) \union {pagetable[t]}
  BY DEF PlainPage
<1>3. Tables0(ram, pagetable[t]) \subseteq Pages
  <2>1. Formed(ram, pagetable[t])
    BY <1>1 DEF Space
  <2> QED
    BY <2>1, TablesProps DEF Formed
<1>4. \A q \in Tables0(ram, pagetable[t]) \union {pagetable[t]} : ram2[q] = ram[q]
  BY <1>1, <1>2, <1>3 DEF StoredTo
<1> QED
  BY <1>1, <1>4, SpaceKept

\* What a store of the program, or of copyout on its behalf, changes: the first word of
\* the page of the current process that the j-th part of the image was put into.
StoredWord(ram2, j, vpage, v) ==
    LET p == ImagePage(ram, pagetable[g_current_proc], j)
    IN  /\ vpage = VpageOf(j)
        /\ p = PageOf(Walk(ram, satp, vpage))
        /\ p \in UserPages(ram, pagetable[g_current_proc]) /\ p \in Pages /\ PlainPage(p)
        /\ StoredTo(ram2, p)
        /\ ram2[p] = [ram[p] EXCEPT ![0] = v]

\* Every store to a page for user mode is one of those.
LEMMA StoreProps ==
    ASSUME TrapIInv, mode = "run", NEW vpage \in Stores, NEW v \in Vals,
           Has(Walk(ram, satp, vpage), PAGE_U),
           NEW ram2, ram2 = [ram EXCEPT ![PageOf(Walk(ram, satp, vpage))][0] = v]
    PROVE  \E j \in ImagePages : StoredWord(ram2, j, vpage, v)
<1> DEFINE c == g_current_proc
           root == pagetable[c]
<1>1. c \in Created /\ satp = root
  BY RunProps
<1>2. SlotsInv /\ SpacesInv /\ TrapTypeOK
  BY DEF TrapIInv
<1>3. kstack[c] \in Nat /\ root = kstack[c] + 1 /\ Space(ram, kstack[c])
  BY <1>1, <1>2, ExtentProps DEF SpacesInv
<1>4. vpage \in Vpages
  BY TrapAssumption DEF Vpages
<1>5. PICK j \in ImagePages : vpage = VpageOf(j)
  BY <1>1, <1>3, <1>4, SpaceUserPages
<1> DEFINE p == ImagePage(ram, root, j)
<1>6. p = PageOf(Walk(ram, satp, vpage))
  BY <1>1, <1>5 DEF ImagePage
<1>7. p \in UserPages(ram, root)
  BY <1>3, SpaceUserPages
<1>8. p \in Pages
  <2>1. p \in kstack[c] + 2 .. kstack[c] + 1 + SpacePages
    BY <1>3, <1>7, SpaceUserPages
  <2>2. kstack[c] .. kstack[c] + 1 + SpacePages \subseteq Pages
    BY <1>1, <1>2, ExtentProps
  <2> HIDE DEF p
  <2> QED
    BY <1>3, <2>1, <2>2
<1>9. ram \in Rams /\ v \in Nat
  BY <1>2, TrapAssumption DEF TrapTypeOK, Rams
<1> HIDE DEF p
<1>10. ram2 \in Rams
  BY <1>9, PutType
<1>11. /\ \A q \in Pages \ {p} : ram2[q] = ram[q]
       /\ ram2[p] = [ram[p] EXCEPT ![0] = v]
  BY <1>6, <1>8, <1>9 DEF Rams
<1>12. StoredTo(ram2, p)
  BY <1>10, <1>11 DEF StoredTo
<1>13. PlainPage(p)
  BY <1>1, <1>2, <1>7, NoTable DEF PlainPage
<1> QED
  BY <1>5, <1>6, <1>7, <1>8, <1>11, <1>12, <1>13 DEF p, StoredWord

\* The kernel's own pages are those of the kernel itself and the RAM's that are not plain.
LEMMA KernelsOwnProps ==
    ASSUME NEW p
    PROVE  /\ p \notin KernelsOwn => PlainPage(p)
           /\ p \in Pages /\ PlainPage(p) => p \notin KernelsOwn
<1>1. p \notin KernelsOwn => PlainPage(p)
  BY DEF KernelsOwn, PlainPage
<1>2. ASSUME p \in Pages, PlainPage(p)
      PROVE  p \notin KernelsOwn
  <2>1. p \notin KERNEL_BASE .. FREE_RAM - 1
    BY <1>2, RamAssumption, MmuAssumption DEF Pages
  <2> QED
    BY <1>2, <2>1 DEF KernelsOwn, PlainPage
<1> QED
  BY <1>1, <1>2

\* A copyout that spares the kernel's own pages goes to the buffer of the program, or it
\* has strayed: to a plain page, or to no page of the RAM.
LEMMA CopyoutProps ==
    ASSUME TrapIInv, mode = "run", NEW vpage \in Stores, NEW v \in Vals, copyout(vpage, v),
           PageOf(Walk(ram, satp, vpage)) \notin KernelsOwn
    PROVE  \/ strayed' = strayed /\ \E j \in ImagePages : StoredWord(ram', j, vpage, v)
           \/ /\ strayed' = TRUE
              /\ \/ ram' = ram
                 \/ \E p \in Pages : /\ PlainPage(p) /\ StoredTo(ram', p)
                                     /\ ram'[p] = [ram[p] EXCEPT ![0] = v]
<1> DEFINE entry == Walk(ram, satp, vpage)
           p == PageOf(entry)
           stored == [ram EXCEPT ![p][0] = v]
<1>1. /\ ram' = IF p \in Pages THEN stored ELSE ram
      /\ strayed' = (strayed \/ ~Has(entry, PAGE_U))
  BY DEF copyout
<1>2. strayed \in BOOLEAN /\ ram \in Rams /\ v \in Nat
  BY TrapAssumption DEF TrapIInv, TrapTypeOK, Rams
<1>3. PlainPage(p)
  BY KernelsOwnProps
<1>4. CASE Has(entry, PAGE_U)
  <2>1. PICK j \in ImagePages : StoredWord(stored, j, vpage, v)
    BY <1>4, StoreProps
  <2>2. p \in Pages
    BY <2>1 DEF StoredWord
  <2>3. ram' = stored
    BY <1>1, <2>2
  <2>4. strayed' = strayed
    BY <1>1, <1>2, <1>4
  <2> HIDE DEF stored
  <2> QED
    BY <2>1, <2>3, <2>4
<1>5. CASE ~Has(entry, PAGE_U)
  <2>1. strayed' = TRUE
    BY <1>1, <1>5
  <2> HIDE DEF p
  <2>2. CASE p \in Pages
    <3>1. ram' = stored /\ ram' \in Rams
      BY <1>1, <1>2, <2>2, PutType
    <3>2. ram'[p] = [ram[p] EXCEPT ![0] = v] /\ \A q \in Pages \ {p} : ram'[q] = ram[q]
      BY <1>2, <2>2, <3>1 DEF Rams
    <3> QED
      BY <1>3, <2>1, <2>2, <3>1, <3>2 DEF StoredTo
  <2>3. CASE p \notin Pages
    BY <1>1, <2>1, <2>3
  <2> QED
    BY <2>2, <2>3
<1> QED
  BY <1>4, <1>5

\* One that goes over the kernel's own pages has strayed: they are not for user mode.
LEMMA WildProps ==
    ASSUME TrapIInv, mode = "run", NEW vpage \in Stores, NEW v \in Vals, copyout(vpage, v),
           PageOf(Walk(ram, satp, vpage)) \in KernelsOwn
    PROVE  strayed' = TRUE /\ ram' \in Rams
<1> DEFINE entry == Walk(ram, satp, vpage)
           stored == [ram EXCEPT ![PageOf(entry)][0] = v]
<1>1. /\ ram' = IF PageOf(entry) \in Pages THEN stored ELSE ram
      /\ strayed' = (strayed \/ ~Has(entry, PAGE_U))
  BY DEF copyout
<1>2. ram \in Rams /\ v \in Nat
  BY TrapAssumption DEF TrapIInv, TrapTypeOK, Rams
<1>3. stored \in Rams
  BY <1>2, PutType
<1>4. ~Has(entry, PAGE_U)
  <2> SUFFICES ASSUME Has(entry, PAGE_U) PROVE FALSE
    OBVIOUS
  <2>1. PICK j \in ImagePages : StoredWord(stored, j, vpage, v)
    BY StoreProps
  <2>2. PageOf(entry) \in Pages /\ PlainPage(PageOf(entry))
    BY <2>1 DEF StoredWord
  <2> QED
    BY <2>2, KernelsOwnProps
<1>5. strayed' = TRUE
  BY <1>1, <1>4
<1> HIDE DEF stored
<1>6. ram' \in Rams
  BY <1>1, <1>2, <1>3
<1> QED
  BY <1>5, <1>6

-----------------------------------------------------------------------------
(* The invariant holds at power-up and is kept by every step.               *)

\* A boot state satisfies the inductive invariant.
LEMMA TrapInitHolds == TrapInit => TrapIInv
<1> SUFFICES ASSUME TrapInit PROVE TrapIInv
  OBVIOUS
<1>1. IInv /\ Init
  BY InitIInv DEF TrapInit
<1>2. /\ mode = "boot" /\ state = [s \in Slots |-> "UNUSED"]
      /\ pagetable = [s \in Slots |-> NULL] /\ satp = NULL
  BY <1>1 DEF Init
<1>3. TrapTypeOK
  <2>1. 0 \in PCs
    BY DEF PCs, Targets
  <2>2. PAGE_V \in Nat
    BY DEF PAGE_V
  <2> DEFINE S == [Words -> Nat]
  <2>3. [w \in Words |-> PAGE_V] \in S
    BY <2>2
  <2> HIDE DEF S
  <2>4. ram \in [Pages -> S]
    BY <2>3 DEF TrapInit
  <2> QED
    BY <1>2, <2>1, <2>4 DEF TrapInit, TrapTypeOK, Modes, S
<1>4. Created = {}
  BY <1>2 DEF Created
<1>5. SlotsInv
  BY <1>2 DEF SlotsInv
<1>6. SpacesInv /\ SatpInv /\ BootInv /\ FramesInv
  BY <1>2, <1>4 DEF SpacesInv, SatpInv, BootInv, FramesInv, TrapInit
<1> QED
  BY <1>1, <1>3, <1>5, <1>6 DEF TrapIInv

\* A step that leaves the process table and the hart alone keeps what is said of them.
LEMMA VarsKept ==
    ASSUME TrapIInv, UNCHANGED vars
    PROVE  /\ mode' \notin {"panic_trap", "wild"} => IInv'
           /\ SlotsInv' /\ SatpInv' /\ Created' = Created
<1>0. mode' = mode
  BY DEF vars
<1>1. mode' \notin {"panic_trap", "wild"} => IInv'
  BY <1>0, StutterStep DEF TrapIInv
<1>2. UNCHANGED <<state, pid, kstack, pagetable, satp, mode, next_paddr>>
  BY DEF vars, procVars, hartVars
<1>3. Created' = Created
  BY <1>2 DEF Created
<1>4. SlotsInv'
  BY <1>2 DEF TrapIInv, SlotsInv, Live, End
<1>5. SatpInv'
  BY <1>2, <1>3 DEF TrapIInv, SatpInv
<1> QED
  BY <1>1, <1>2, <1>3, <1>4, <1>5

\* user_start, user_compute, ecall_putchar, ecall_open_close and getchar_key: the hart
\* goes on in user mode, and memory and the process table stay as they are.
LEMMA UserKeeps ==
    ASSUME TrapIInv, mode = "run", UNCHANGED vars, UNCHANGED <<ram, strayed>>,
           user' \in UserStates, sepc' \in PCs,
           frame' = frame \/ frame' = [frame EXCEPT ![regs.sp] = NULL]
    PROVE  TrapIInv'
<1>1. /\ mode' \notin {"panic_trap", "wild"} => IInv'
      /\ SlotsInv' /\ SatpInv' /\ Created' = Created
  BY VarsKept
<1>2. UNCHANGED <<kstack, mode>>
  BY DEF vars, procVars
<1>3. TrapTypeOK'
  BY <1>2 DEF TrapIInv, TrapTypeOK
<1>4. FramesInv'
  BY DEF TrapIInv, TrapTypeOK, FramesInv
<1>5. SpacesInv' /\ BootInv'
  BY <1>1, <1>2 DEF TrapIInv, SpacesInv, BootInv
<1> QED
  BY <1>1, <1>3, <1>4, <1>5 DEF TrapIInv

\* user_store and ecall_read: a step that leaves the address spaces as they are.
LEMMA StoreStepKeeps ==
    ASSUME TrapIInv, mode = "run", UNCHANGED vars, UNCHANGED frame, strayed' \in BOOLEAN,
           user' \in UserStates, sepc' \in PCs,
           ram' \in Rams, \A t \in Created : Space(ram', kstack[t])
    PROVE  TrapIInv'
<1>1. /\ mode' \notin {"panic_trap", "wild"} => IInv'
      /\ SlotsInv' /\ SatpInv' /\ Created' = Created
  BY VarsKept
<1>2. UNCHANGED <<kstack, mode>>
  BY DEF vars, procVars
<1>3. TrapTypeOK'
  BY <1>2 DEF TrapIInv, TrapTypeOK, Rams
<1>4. SpacesInv'
  BY <1>1, <1>2 DEF SpacesInv
<1>5. FramesInv' /\ BootInv'
  BY <1>2 DEF TrapIInv, FramesInv, BootInv
<1> QED
  BY <1>1, <1>3, <1>4, <1>5 DEF TrapIInv

\* A store to a plain page leaves them.
LEMMA StoreLeaves ==
    ASSUME TrapIInv, mode = "run", NEW p, PlainPage(p), StoredTo(ram', p)
    PROVE  ram' \in Rams /\ \A t \in Created : Space(ram', kstack[t])
<1>1. SlotsInv /\ SpacesInv /\ mode # "wild"
  BY DEF TrapIInv
<1>2. \A t \in Created : Space(ram', kstack[t])
  BY <1>1, StoreKeeps
<1> QED
  BY <1>2 DEF StoredTo

\* And so does a copyout that spares the kernel's own pages.
LEMMA CopyoutLeaves ==
    ASSUME TrapIInv, mode = "run", NEW vpage \in Stores, NEW v \in Vals, copyout(vpage, v),
           PageOf(Walk(ram, satp, vpage)) \notin KernelsOwn
    PROVE  /\ strayed' \in BOOLEAN /\ ram' \in Rams
           /\ \A t \in Created : Space(ram', kstack[t])
<1>1. strayed' \in BOOLEAN
  BY CopyoutProps DEF TrapIInv, TrapTypeOK
<1>2. CASE ram' = ram
  BY <1>1, <1>2 DEF TrapIInv, TrapTypeOK, Rams, SpacesInv
<1>3. CASE \E p \in Pages : PlainPage(p) /\ StoredTo(ram', p)
  BY <1>1, <1>3, StoreLeaves
<1> QED
  BY <1>2, <1>3, CopyoutProps DEF StoredWord

\* What a copyout over the kernel's own pages leaves is all that is said of what follows.
LEMMA WildKeeps ==
    ASSUME TrapIInv, ecall_read_wild
    PROVE  TrapIInv'
<1>1. /\ mode = "run" /\ mode' = "wild"
      /\ UNCHANGED <<state, pid, kstack, pagetable, next_paddr, satp, user, sepc, frame>>
  BY DEF ecall_read_wild, Ecall, InUser, procVars, hartVars
<1>2. strayed' = TRUE /\ ram' \in Rams
  BY <1>1, WildProps DEF ecall_read_wild
<1>3. Created' = Created
  BY <1>1 DEF Created
<1>4. SlotsInv'
  BY <1>1 DEF TrapIInv, SlotsInv, Live, End
<1>5. TrapTypeOK'
  BY <1>1, <1>2 DEF TrapIInv, TrapTypeOK, Rams, Modes
<1>6. SpacesInv' /\ SatpInv' /\ BootInv' /\ FramesInv'
  BY <1>1, <1>3 DEF TrapIInv, SpacesInv, SatpInv, BootInv, FramesInv
<1> QED
  BY <1>1, <1>4, <1>5, <1>6 DEF TrapIInv

\* SYS_GETCHAR runs on the stack sscratch names, which is where sp is already.
LEMMA GetcharProps ==
    ASSUME TrapIInv, ecall_getchar
    PROVE  /\ mode = "run" /\ user \in UserStates /\ user.pc \in Targets
           /\ UNCHANGED vars /\ UNCHANGED <<ram, strayed>>
           /\ user' = NULL /\ sepc' = user.pc
           /\ kstack[g_current_proc] \in Pages
           /\ frame' = [frame EXCEPT ![kstack[g_current_proc]] = Saved_frame]
           /\ Saved_frame \in Frames /\ Saved_frame # NULL /\ Saved_frame.sepc_ = user.pc
<1>1. mode = "run" /\ user # NULL /\ user.pc \in Targets
  BY DEF ecall_getchar, Ecall, InUser
<1>2. /\ sscratch = kstack[g_current_proc] /\ regs.sp = kstack[g_current_proc]
      /\ g_current_proc \in Created
  BY <1>1, RunProps
<1>3. regs' = regs
  <2>1. regs \in Contexts
    BY <1>1 DEF TrapIInv, IInv, TypeOK
  <2>2. regs' = [regs EXCEPT !.sp = regs.sp]
    BY <1>2 DEF ecall_getchar
  <2> QED
    BY <2>1, <2>2 DEF Contexts
<1>4. UNCHANGED vars
  BY <1>3 DEF ecall_getchar, vars, hartVars
<1>5. kstack[g_current_proc] \in Pages
  BY <1>2, ExtentProps DEF TrapIInv
<1>6. user \in UserStates /\ Saved_frame \in Frames /\ Saved_frame.sepc_ = user.pc
  BY <1>1, SavedProps DEF TrapIInv
<1>7. Saved_frame # NULL
  BY <1>6, FrameProps
<1> QED
  BY <1>1, <1>2, <1>4, <1>5, <1>6, <1>7 DEF ecall_getchar

\* SYS_GETCHAR keeps the invariant.
LEMMA GetcharKeeps ==
    ASSUME TrapIInv, ecall_getchar
    PROVE  TrapIInv'
<1>1. /\ mode = "run" /\ user.pc \in Targets
      /\ UNCHANGED vars /\ UNCHANGED <<ram, strayed>>
      /\ user' = NULL /\ sepc' = user.pc
      /\ frame' = [frame EXCEPT ![kstack[g_current_proc]] = Saved_frame]
      /\ Saved_frame \in Frames /\ Saved_frame.sepc_ = user.pc
  BY GetcharProps
<1> HIDE DEF Saved_frame
<1>2. /\ mode' \notin {"panic_trap", "wild"} => IInv'
      /\ SlotsInv' /\ SatpInv' /\ Created' = Created
  BY <1>1, VarsKept
<1>3. UNCHANGED <<kstack, mode>>
  BY <1>1 DEF vars, procVars
<1>4. TrapTypeOK'
  BY <1>1, <1>3 DEF TrapIInv, TrapTypeOK, PCs
<1>5. FramesInv'
  BY <1>1 DEF TrapIInv, TrapTypeOK, FramesInv
<1>6. SpacesInv' /\ BootInv'
  BY <1>1, <1>2, <1>3 DEF TrapIInv, SpacesInv, BootInv
<1> QED
  BY <1>2, <1>4, <1>5, <1>6 DEF TrapIInv

\* start, user_loops and getchar_yield: the hart goes to a process or on with the one it
\* has, and processes, memory and frames stay as they are.
LEMMA ScheduleProps ==
    ASSUME TrapIInv, start \/ user_loops \/ getchar_yield
    PROVE  /\ IInv'
           /\ UNCHANGED <<pid, kstack, pagetable, next_paddr, ram, frame, user, sepc, strayed>>
           /\ mode' # "panic_memory" /\ mode' # "boot" /\ mode \in {"boot", "run"}
           /\ mode' = "panic_start" \/ mode' \in {"run", "spin"}
           /\ mode' = "panic_start" => mode = "boot"
           /\ \A s \in Slots : state'[s] # "UNUSED" => state[s] # "UNUSED"
           /\ satp' # NULL => satp' = satp \/ \E s \in Slots : satp' = pagetable[s]
<1>1. mode \in {"boot", "run"} /\ mode # "panic_trap" /\ IInv /\ SlotsInv
  BY DEF TrapIInv, start, scheduler_start, scheduler_start_empty, user_loops, user_exit,
         getchar_yield, user_yield
<1>2. UNCHANGED <<ram, frame, user, sepc, strayed>>
  BY DEF start, user_loops, getchar_yield, trapVars
<1>3. CASE start
  <2>1. CASE scheduler_start
    <3> DEFINE ready == {s \in Slots : state[s] = "READY"}
    <3>1. First(ready) \in ready
      BY <2>1, FirstProps DEF scheduler_start
    <3>2. IInv'
      BY <1>1, <2>1, StartStep
    <3>3. /\ UNCHANGED <<pid, kstack, pagetable, next_paddr>> /\ mode' = "run"
          /\ state' = [state EXCEPT ![First(ready)] = "RUNNING"]
          /\ satp' = pagetable[First(ready)]
      BY <2>1 DEF scheduler_start
    <3>4. \A s \in Slots : state'[s] # "UNUSED" => state[s] # "UNUSED"
      BY <1>1, <3>1, <3>3 DEF IInv, TypeOK
    <3> QED
      BY <1>1, <1>2, <3>1, <3>2, <3>3, <3>4
  <2>2. CASE scheduler_start_empty
    <3>1. IInv'
      BY <1>1, <2>2, GiveUpStep
    <3> QED
      BY <1>1, <1>2, <2>2, <3>1 DEF scheduler_start_empty, procVars, hartVars
  <2> QED
    BY <1>3, <2>1, <2>2 DEF start
<1>4. CASE user_loops
  <2>1. user_exit
    BY <1>4 DEF user_loops
  <2>2. IInv'
    BY <1>1, <2>1, UserExitStep
  <2> QED
    BY <1>1, <1>2, <2>1, <2>2 DEF user_exit, procVars, hartVars
<1>5. CASE getchar_yield
  <2>1. user_yield /\ mode = "run" /\ yield /\ UNCHANGED <<pagetable, next_pid, next_paddr, yields>>
        /\ regs.s0 = "user_entry"
    BY <1>5 DEF getchar_yield, user_yield
  <2>2. IInv'
    BY <1>1, <2>1, YieldStep DEF Yielded
  <2>3. /\ g_current_proc \in Slots /\ state[g_current_proc] # "UNUSED"
        /\ UNCHANGED <<kstack, pid>>
        /\ Stays(g_current_proc) \/ \E next \in Slots : Switches(g_current_proc, next)
    BY <1>1, <2>1, YieldCases
  <2>4. CASE Stays(g_current_proc)
    BY <1>1, <1>2, <2>1, <2>2, <2>3, <2>4 DEF Stays, IInv, TypeOK
  <2>5. ASSUME NEW next \in Slots, Switches(g_current_proc, next)
        PROVE  /\ mode' = "run"
               /\ \A s \in Slots : state'[s] # "UNUSED" => state[s] # "UNUSED"
               /\ satp' = pagetable[next]
    <3>1. /\ state[next] = "READY"
          /\ state' = [state EXCEPT ![g_current_proc] = "READY", ![next] = "RUNNING"]
          /\ satp' = pagetable[next]
          /\ mode' = IF pid[next] = 0 /\ context[next].ra = "__schedule" THEN "wild" ELSE mode
      BY <2>5 DEF Switches
    <3>2. pid[next] # 0
      BY <1>1, <3>1 DEF SlotsInv, Live
    <3> QED
      BY <1>1, <2>1, <2>3, <3>1, <3>2 DEF IInv, TypeOK
  <2> QED
    BY <1>1, <1>2, <2>1, <2>2, <2>3, <2>4, <2>5
<1> QED
  BY <1>3, <1>4, <1>5

\* Scheduling keeps the invariant.
LEMMA ScheduleKeeps ==
    ASSUME TrapIInv, start \/ user_loops \/ getchar_yield
    PROVE  TrapIInv'
<1>1. /\ IInv'
      /\ UNCHANGED <<pid, kstack, pagetable, next_paddr, ram, frame, user, sepc, strayed>>
      /\ mode' # "panic_memory" /\ mode' # "boot" /\ mode \in {"boot", "run"}
      /\ mode' = "panic_start" \/ mode' \in {"run", "spin"}
      /\ \A s \in Slots : state'[s] # "UNUSED" => state[s] # "UNUSED"
      /\ satp' # NULL => satp' = satp \/ \E s \in Slots : satp' = pagetable[s]
  BY ScheduleProps
<1>2. Created' = Created
  BY <1>1 DEF Created
<1>3. SlotsInv'
  BY <1>1 DEF TrapIInv, SlotsInv, Live, End
<1>4. SatpInv'
  BY <1>1, <1>2 DEF TrapIInv, SatpInv, Created
<1>5. TrapTypeOK'
  <2>1. mode' \in Modes
    BY <1>1 DEF IInv, TypeOK
  <2> QED
    BY <1>1, <2>1 DEF TrapIInv, TrapTypeOK
<1>6. SpacesInv' /\ BootInv' /\ FramesInv'
  BY <1>1, <1>2 DEF TrapIInv, SpacesInv, BootInv, FramesInv
<1> QED
  BY <1>1, <1>3, <1>4, <1>5, <1>6 DEF TrapIInv

\* proc_create takes the first free slot and the next pages, for as many as it needs.
LEMMA CreateProps ==
    ASSUME TrapIInv, create
    PROVE  LET s == First(Unused)
           IN  /\ IInv' /\ mode = "boot" /\ mode' = mode
               /\ s \in Slots /\ s \notin Created /\ state[s] = "UNUSED"
               /\ next_paddr \in Nat /\ FREE_RAM <= next_paddr
               /\ next_paddr' = next_paddr + 2 + MAP_PAGES
               /\ next_paddr' <= FREE_RAM_END
               /\ Fits(next_paddr)
               /\ next_pid # 0
               /\ state' = [state EXCEPT ![s] = "READY"]
               /\ pid' = [pid EXCEPT ![s] = next_pid]
               /\ kstack' = [kstack EXCEPT ![s] = next_paddr]
               /\ pagetable' = [pagetable EXCEPT ![s] = next_paddr + 1]
               /\ UNCHANGED <<satp, user, sepc, frame, strayed, g_current_proc>>
               /\ ram' = AddressSpace(ram, next_paddr).ram
<1> DEFINE s == First(Unused)
<1>1. /\ proc_create("user_entry") /\ UNCHANGED <<user, sepc, frame, strayed>>
      /\ ram' = AddressSpace(ram, next_paddr).ram
  BY DEF create
<1>2. mode = "boot" /\ mode' = mode /\ "user_entry" \in ENTRIES
  BY <1>1, TrapAssumption DEF proc_create
<1>3. IInv
  BY <1>2 DEF TrapIInv
<1>4. IInv'
  BY <1>1, <1>2, <1>3, CreateStep
<1>5. s \in Slots /\ state[s] = "UNUSED"
  BY <1>1, FirstProps DEF proc_create, Unused
<1>6. next_paddr \in Nat /\ next_paddr <= FREE_RAM_END /\ FREE_RAM <= next_paddr /\ next_pid # 0
  BY <1>2, <1>3 DEF IInv, TypeOK, MemoryInv, BlankInv
<1>7. MAP_PAGES \in Nat /\ 2 + MAP_PAGES <= MAX_PAGES /\ MAP_PAGES = SpacePages
  BY ProcAssumption, TrapAssumption
<1>8. After(2 + MAP_PAGES) = next_paddr + 2 + MAP_PAGES
  BY <1>6, <1>7, AfterProps
<1>9. next_paddr' = next_paddr + 2 + MAP_PAGES /\ next_paddr' <= FREE_RAM_END
  <2>1. next_paddr' = After(2 + MAP_PAGES) /\ ~(After(2 + MAP_PAGES) > FREE_RAM_END)
    BY <1>1 DEF proc_create, alloc_pages, OutOfMemory
  <2> QED
    BY <2>1, <1>6, <1>7, <1>8, RamAssumption
<1>10. Fits(next_paddr)
  BY <1>6, <1>7, <1>9 DEF Fits
<1>11. /\ state' = [state EXCEPT ![s] = "READY"]
       /\ pid' = [pid EXCEPT ![s] = next_pid]
       /\ kstack' = [kstack EXCEPT ![s] = next_paddr]
       /\ pagetable' = [pagetable EXCEPT ![s] = next_paddr + 1]
       /\ satp' = satp /\ g_current_proc' = g_current_proc
  BY <1>1 DEF proc_create, AllocSlot, hartVars
<1>12. s \notin Created
  BY <1>3, <1>5 DEF Created, IInv, BlankInv
<1> QED
  BY <1>1, <1>2, <1>4, <1>5, <1>6, <1>9, <1>10, <1>11, <1>12

\* What a creation does to the processes and their memory.
LEMMA CreateSpaces ==
    ASSUME TrapIInv, create
    PROVE  LET s == First(Unused)
           IN  /\ ram' \in Rams
               /\ Created' = Created \union {s}
               /\ kstack'[s] = next_paddr /\ pagetable'[s] = next_paddr + 1
               /\ \A t \in Slots \ {s} : kstack'[t] = kstack[t] /\ pagetable'[t] = pagetable[t]
               /\ Space(ram', next_paddr)
               /\ \A j \in ImagePages : ram'[ImagePage(ram', next_paddr + 1, j)] = Part(j)
               /\ \A t \in Created : \A p \in kstack[t] .. kstack[t] + 1 + SpacePages : ram'[p] = ram[p]
<1> DEFINE s == First(Unused)
<1>1. /\ s \in Slots /\ s \notin Created
      /\ next_paddr \in Nat /\ Fits(next_paddr)
      /\ kstack' = [kstack EXCEPT ![s] = next_paddr]
      /\ pagetable' = [pagetable EXCEPT ![s] = next_paddr + 1]
      /\ ram' = AddressSpace(ram, next_paddr).ram
      /\ mode = "boot"
  BY CreateProps
<1> HIDE DEF s
<1>2. ram \in Rams /\ SlotsInv /\ IInv
  BY <1>1 DEF TrapIInv, TrapTypeOK, Rams
<1>3. kstack \in [Slots -> Nat \union {NULL}] /\ pagetable \in [Slots -> Nat \union {NULL}]
  BY <1>2 DEF IInv, TypeOK
<1>4. next_paddr + 1 # NULL
  BY <1>1, ProcAssumption
<1>5. /\ kstack'[s] = next_paddr /\ pagetable'[s] = next_paddr + 1
      /\ \A t \in Slots \ {s} : kstack'[t] = kstack[t] /\ pagetable'[t] = pagetable[t]
  BY <1>1, <1>3
<1>6. Created' = Created \union {s}
  BY <1>1, <1>4, <1>5 DEF Created
<1> DEFINE out == AddressSpace(ram, next_paddr)
<1>7. /\ out.ram \in Rams
      /\ Space(out.ram, next_paddr)
      /\ \A j \in ImagePages : out.ram[ImagePage(out.ram, next_paddr + 1, j)] = Part(j)
      /\ \A p \in Pages \ (next_paddr .. next_paddr + 1 + SpacePages) : out.ram[p] = ram[p]
  BY <1>1, <1>2, AddressSpaceProps
<1>8. ram' = out.ram
  BY <1>1
<1> HIDE DEF out
<1>9. ASSUME NEW t \in Created, NEW p \in kstack[t] .. kstack[t] + 1 + SpacePages
      PROVE  ram'[p] = ram[p]
  <2>1. kstack[t] \in Nat /\ SpacePages \in Nat /\ p \in Pages
    BY <1>2, ExtentProps
  <2>2. kstack[t] + 2 + MAP_PAGES <= next_paddr
    BY <1>2 DEF SlotsInv, Created, End
  <2>3. MAP_PAGES = SpacePages
    BY TrapAssumption
  <2>4. p \notin next_paddr .. next_paddr + 1 + SpacePages
    BY <1>1, <2>1, <2>2, <2>3
  <2> QED
    BY <1>7, <1>8, <2>1, <2>4
<1> QED
  BY <1>5, <1>6, <1>7, <1>8, <1>9 DEF s

\* The address spaces there are stay as they are when another one is built.
LEMMA CreateKeepsSpaces ==
    ASSUME TrapIInv, create, NEW t \in Created
    PROVE  /\ kstack'[t] = kstack[t] /\ pagetable'[t] = pagetable[t]
           /\ pagetable[t] = kstack[t] + 1
           /\ Space(ram', kstack[t])
           /\ \A v \in Vpages : Walk(ram', pagetable[t], v) = Walk(ram, pagetable[t], v)
<1>1. SlotsInv /\ Space(ram, kstack[t])
  BY CreateProps DEF TrapIInv, SpacesInv
<1>2. /\ kstack[t] \in Nat /\ SpacePages \in Nat /\ pagetable[t] = kstack[t] + 1
  BY <1>1, ExtentProps
<1>3. Tables0(ram, kstack[t] + 1) \subseteq kstack[t] + 2 .. kstack[t] + 1 + SpacePages
  BY <1>1 DEF Space
<1>4. \A p \in kstack[t] .. kstack[t] + 1 + SpacePages : ram'[p] = ram[p]
  BY CreateSpaces
<1>5. \A p \in Tables0(ram, kstack[t] + 1) \union {kstack[t] + 1} : ram'[p] = ram[p]
  <2>1. kstack[t] + 1 \in kstack[t] .. kstack[t] + 1 + SpacePages
    BY <1>2
  <2>2. kstack[t] + 2 .. kstack[t] + 1 + SpacePages \subseteq kstack[t] .. kstack[t] + 1 + SpacePages
    BY <1>2
  <2> QED
    BY <1>3, <1>4, <2>1, <2>2
<1>6. kstack'[t] = kstack[t] /\ pagetable'[t] = pagetable[t]
  BY CreateProps, CreateSpaces DEF Created
<1> QED
  BY <1>1, <1>2, <1>5, <1>6, SpaceKept

\* A creation keeps the invariant.
LEMMA CreateKeeps ==
    ASSUME TrapIInv, create
    PROVE  TrapIInv'
<1> DEFINE s == First(Unused)
<1>1. /\ IInv' /\ mode = "boot" /\ mode' = mode
      /\ s \in Slots /\ s \notin Created /\ state[s] = "UNUSED"
      /\ next_paddr \in Nat /\ FREE_RAM <= next_paddr
      /\ next_paddr' = next_paddr + 2 + MAP_PAGES
      /\ next_paddr' <= FREE_RAM_END
      /\ next_pid # 0
      /\ state' = [state EXCEPT ![s] = "READY"]
      /\ pid' = [pid EXCEPT ![s] = next_pid]
      /\ UNCHANGED <<satp, user, sepc, frame, strayed, g_current_proc>>
  BY CreateProps
<1>2. /\ ram' \in Rams
      /\ Created' = Created \union {s}
      /\ kstack'[s] = next_paddr /\ pagetable'[s] = next_paddr + 1
      /\ \A t \in Slots \ {s} : kstack'[t] = kstack[t] /\ pagetable'[t] = pagetable[t]
      /\ Space(ram', next_paddr)
  BY CreateSpaces
<1> HIDE DEF s
<1>3. IInv /\ SlotsInv
  BY <1>1 DEF TrapIInv
<1>4. /\ state'[s] = "READY" /\ pid'[s] = next_pid
      /\ \A t \in Slots \ {s} : state'[t] = state[t] /\ pid'[t] = pid[t]
  BY <1>1, <1>3 DEF IInv, TypeOK
<1>5. NULL \notin Nat /\ MAP_PAGES \in Nat /\ FREE_RAM \in Nat /\ FREE_RAM_END \in Nat
  BY ProcAssumption, RamAssumption
<1>6. SlotsInv'
  <2>1. ASSUME NEW t \in Slots
        PROVE  /\ state'[t] # "UNUSED" => pid'[t] # 0
               /\ state'[t] # "UNUSED" => pagetable'[t] # NULL
    BY <1>1, <1>2, <1>3, <1>4, <1>5 DEF SlotsInv, Live
  <2>2. ASSUME NEW t \in Slots, pagetable'[t] # NULL
        PROVE  /\ kstack'[t] \in Nat
               /\ pagetable'[t] = kstack'[t] + 1
               /\ FREE_RAM <= kstack'[t]
               /\ kstack'[t] + 2 + MAP_PAGES <= next_paddr'
               /\ kstack'[t] + 2 + MAP_PAGES <= FREE_RAM_END
               /\ t # s => kstack'[t] + 2 + MAP_PAGES <= next_paddr
    <3>1. CASE t = s
      BY <3>1, <1>1, <1>2, <1>5
    <3>2. CASE t # s
      <4>1. pagetable[t] # NULL /\ kstack'[t] = kstack[t] /\ pagetable'[t] = pagetable[t]
        BY <3>2, <2>2, <1>2
      <4>2. /\ kstack[t] \in Nat
            /\ pagetable[t] = kstack[t] + 1
            /\ FREE_RAM <= kstack[t]
            /\ kstack[t] + 2 + MAP_PAGES <= next_paddr
            /\ kstack[t] + 2 + MAP_PAGES <= FREE_RAM_END
        BY <4>1, <1>3 DEF SlotsInv, End
      <4> QED
        BY <4>1, <4>2, <1>1, <1>5
    <3> QED
      BY <3>1, <3>2
  <2>3. ASSUME NEW t \in Slots, NEW u \in Slots \ {t}, pagetable'[t] # NULL, pagetable'[u] # NULL
        PROVE  kstack'[t] + 2 + MAP_PAGES <= kstack'[u] \/ kstack'[u] + 2 + MAP_PAGES <= kstack'[t]
    <3>1. CASE t = s \/ u = s
      BY <3>1, <2>2, <2>3, <1>2
    <3>2. CASE t # s /\ u # s
      BY <3>2, <2>3, <1>2, <1>3 DEF SlotsInv, End
    <3> QED
      BY <3>1, <3>2
  <2> QED
    BY <2>1, <2>2, <2>3 DEF SlotsInv, Live, End
<1>7. SpacesInv'
  <2>1. \A t \in Created : kstack'[t] = kstack[t] /\ Space(ram', kstack[t])
    BY CreateKeepsSpaces
  <2> QED
    BY <1>2, <2>1 DEF SpacesInv
<1>8. SatpInv'
  <2>1. \A t \in Created : pagetable'[t] = pagetable[t]
    BY CreateKeepsSpaces
  <2> QED
    BY <1>1, <1>2, <2>1 DEF TrapIInv, SatpInv
<1>9. TrapTypeOK'
  BY <1>1, <1>2 DEF TrapIInv, TrapTypeOK, Rams
<1>10. BootInv' /\ FramesInv'
  BY <1>1 DEF TrapIInv, BootInv, FramesInv
<1> QED
  BY <1>1, <1>6, <1>7, <1>8, <1>9, <1>10 DEF TrapIInv

\* A creation that fails touches no process that was created.
LEMMA FailProps ==
    ASSUME TrapIInv, create_fails
    PROVE  /\ IInv' /\ mode = "boot" /\ mode' \in {"panic_slots", "panic_memory"}
           /\ UNCHANGED <<pagetable, satp, g_current_proc, ram, user, sepc, frame, strayed>>
           /\ Created' = Created /\ \A t \in Created : kstack'[t] = kstack[t]
<1>1. UNCHANGED <<ram, user, sepc, frame, strayed>>
  BY DEF create_fails, trapVars
<1>2. CASE proc_create_no_slot
  <2>1. mode = "boot" /\ mode' = "panic_slots"
        /\ UNCHANGED <<kstack, pagetable, satp, g_current_proc>>
    BY <1>2 DEF proc_create_no_slot, procVars, hartVars
  <2>2. IInv'
    BY <2>1, <1>2, GiveUpStep DEF TrapIInv
  <2> QED
    BY <1>1, <2>1, <2>2 DEF Created
<1>3. CASE proc_create_no_memory
  <2> DEFINE s == First(Unused)
             k == IF OutOfMemory(1) THEN NULL ELSE next_paddr
  <2>1. /\ mode = "boot" /\ mode' = "panic_memory"
        /\ UNCHANGED <<pagetable, satp, g_current_proc>>
        /\ kstack' = [kstack EXCEPT ![s] = k]
    BY <1>3 DEF proc_create_no_memory, hartVars
  <2>2. IInv /\ IInv'
    BY <2>1, <1>3, NoMemoryStep DEF TrapIInv
  <2>3. s \in Slots /\ state[s] = "UNUSED"
    BY <1>3, FirstProps DEF proc_create_no_memory, Unused
  <2> HIDE DEF s, k
  <2>4. s \notin Created
    BY <2>2, <2>3 DEF Created, IInv, BlankInv
  <2>5. \A t \in Created : kstack'[t] = kstack[t]
    BY <2>1, <2>2, <2>3, <2>4 DEF IInv, TypeOK, Created
  <2> QED
    BY <1>1, <2>1, <2>2, <2>5 DEF Created
<1> QED
  BY <1>2, <1>3 DEF create_fails

\* A creation that fails keeps the invariant.
LEMMA FailKeeps ==
    ASSUME TrapIInv, create_fails
    PROVE  TrapIInv'
<1>1. /\ IInv' /\ mode = "boot" /\ mode' \in {"panic_slots", "panic_memory"}
      /\ UNCHANGED <<pagetable, satp, g_current_proc, ram, user, sepc, frame, strayed>>
      /\ Created' = Created /\ \A t \in Created : kstack'[t] = kstack[t]
  BY FailProps
<1>2. SlotsInv'
  <2>1. SlotsInv /\ IInv
    BY <1>1 DEF TrapIInv
  <2>2. /\ next_paddr <= next_paddr'
        /\ \A s \in Slots : state'[s] # "UNUSED" => pid'[s] # 0
        /\ mode' # "panic_memory" => state' = state
    <3>1. CASE proc_create_no_slot
      BY <3>1, <2>1 DEF proc_create_no_slot, procVars, SlotsInv, Live, IInv, TypeOK
    <3>2. CASE proc_create_no_memory
      <4> DEFINE s == First(Unused)
      <4>1. /\ state' = [state EXCEPT ![s] = "READY"]
            /\ pid' = [pid EXCEPT ![s] = next_pid]
            /\ next_paddr' = FREE_RAM_END + 1 /\ mode' = "panic_memory"
        BY <3>2 DEF proc_create_no_memory, AllocSlot, alloc_panics
      <4>2. next_pid # 0 /\ next_paddr \in Nat /\ next_paddr <= FREE_RAM_END /\ FREE_RAM_END \in Nat
        BY <1>1, <2>1, RamAssumption DEF IInv, BlankInv, MemoryInv, TypeOK
      <4> HIDE DEF s
      <4>3. \A t \in Slots : state'[t] # "UNUSED" => pid'[t] # 0
        BY <2>1, <4>1, <4>2 DEF IInv, TypeOK, SlotsInv, Live
      <4> QED
        BY <4>1, <4>2, <4>3
    <3> QED
      BY <3>1, <3>2 DEF create_fails
  <2>3. next_paddr \in Nat /\ next_paddr' \in Nat /\ MAP_PAGES \in Nat
    BY <1>1, <2>1, ProcAssumption DEF IInv, TypeOK
  <2>4. ASSUME NEW s \in Slots, pagetable'[s] # NULL
        PROVE  /\ kstack'[s] = kstack[s]
               /\ kstack[s] \in Nat
               /\ pagetable'[s] = kstack[s] + 1
               /\ FREE_RAM <= kstack[s]
               /\ kstack[s] + 2 + MAP_PAGES <= next_paddr'
               /\ kstack[s] + 2 + MAP_PAGES <= FREE_RAM_END
               /\ \A t \in Slots \ {s} : pagetable'[t] # NULL =>
                    kstack[s] + 2 + MAP_PAGES <= kstack[t] \/ kstack[t] + 2 + MAP_PAGES <= kstack[s]
    <3>1. s \in Created /\ pagetable[s] # NULL
      BY <2>4, <1>1 DEF Created
    <3>2. /\ kstack[s] \in Nat
          /\ pagetable[s] = kstack[s] + 1
          /\ FREE_RAM <= kstack[s]
          /\ kstack[s] + 2 + MAP_PAGES <= next_paddr
          /\ kstack[s] + 2 + MAP_PAGES <= FREE_RAM_END
          /\ \A t \in Slots \ {s} : pagetable[t] # NULL =>
               kstack[s] + 2 + MAP_PAGES <= kstack[t] \/ kstack[t] + 2 + MAP_PAGES <= kstack[s]
      BY <2>1, <3>1 DEF SlotsInv, End
    <3> QED
      BY <1>1, <2>2, <2>3, <3>1, <3>2
  <2>5. \A s \in Slots : mode' # "panic_memory" /\ state'[s] # "UNUSED" => pagetable'[s] # NULL
    BY <1>1, <2>1, <2>2 DEF SlotsInv
  <2> QED
    BY <2>2, <2>4, <2>5 DEF SlotsInv, Live, End
<1>3. TrapTypeOK'
  BY <1>1 DEF TrapIInv, TrapTypeOK, Modes, Panics
<1>4. SpacesInv' /\ SatpInv' /\ BootInv' /\ FramesInv'
  BY <1>1 DEF TrapIInv, SpacesInv, SatpInv, BootInv, FramesInv
<1> QED
  BY <1>1, <1>2, <1>3, <1>4 DEF TrapIInv

\* A panic in handle_trap, and the end of all things, keep the invariant.
LEMMA StopKeeps ==
    ASSUME TrapIInv, trap_panics \/ (Halted /\ UNCHANGED trapVars) \/ UNCHANGED <<vars, trapVars>>
    PROVE  TrapIInv'
<1>1. UNCHANGED <<state, pid, kstack, pagetable, satp, next_paddr, ram, user, sepc, frame, strayed>>
  BY DEF trap_panics, Halted, vars, trapVars, procVars, hartVars
<1>2. \/ mode' = "panic_trap" /\ mode = "run"
      \/ mode' = mode /\ UNCHANGED vars
  BY DEF trap_panics, InUser, Halted, vars
<1>3. mode' \notin {"panic_trap", "wild"} => IInv'
  BY <1>2, StutterStep DEF TrapIInv
<1>4. Created' = Created
  BY <1>1 DEF Created
<1>5. SlotsInv'
  BY <1>1, <1>2 DEF TrapIInv, SlotsInv, Live, End
<1>6. TrapTypeOK'
  BY <1>1, <1>2 DEF TrapIInv, TrapTypeOK
<1>7. SpacesInv' /\ SatpInv' /\ BootInv' /\ FramesInv'
  BY <1>1, <1>2, <1>4 DEF TrapIInv, SpacesInv, SatpInv, BootInv, FramesInv
<1> QED
  BY <1>3, <1>5, <1>6, <1>7 DEF TrapIInv

\* Every step of a program, of the handler and of the scheduler keeps the invariant.
LEMMA TrapNextKeeps == TrapIInv /\ [TrapNext]_<<vars, trapVars>> => TrapIInv'
<1> SUFFICES ASSUME TrapIInv, [TrapNext]_<<vars, trapVars>>
             PROVE  TrapIInv'
  OBVIOUS
<1>1. CASE create
  BY <1>1, CreateKeeps
<1>2. CASE create_fails
  BY <1>2, FailKeeps
<1>3. CASE start \/ user_loops \/ getchar_yield
  BY <1>3, ScheduleKeeps
<1>4. CASE ecall_getchar
  BY <1>4, GetcharKeeps
<1>5. CASE trap_panics \/ (Halted /\ UNCHANGED trapVars) \/ UNCHANGED <<vars, trapVars>>
  BY <1>5, StopKeeps
<1>6. CASE user_start
  <2>1. mode = "run" /\ UNCHANGED vars /\ UNCHANGED <<ram, frame, strayed>> /\ sepc' = 0
        /\ \E g \in [Regs -> Vals] : user' = [gpr |-> g, pc |-> 0]
    BY <1>6 DEF user_start, InKernel
  <2>2. 0 \in PCs
    BY DEF PCs, Targets
  <2>3. user' \in UserStates
    BY <2>1, <2>2 DEF UserStates
  <2> QED
    BY <2>1, <2>2, <2>3, UserKeeps
<1>7. CASE user_compute
  <2>1. mode = "run" /\ user # NULL /\ UNCHANGED vars /\ UNCHANGED <<ram, sepc, frame, strayed>>
        /\ \E r \in Regs, v \in Vals, t \in Targets :
             user' = [gpr |-> [user.gpr EXCEPT ![r] = v], pc |-> t]
    BY <1>7 DEF user_compute, InUser
  <2>2. user \in UserStates /\ sepc \in PCs
    BY <2>1, SavedProps DEF TrapIInv, TrapTypeOK
  <2>3. user' \in UserStates
    BY <2>1, <2>2 DEF UserStates, PCs
  <2> QED
    BY <2>1, <2>2, <2>3, UserKeeps
<1>8. CASE user_store
  <2>1. mode = "run" /\ user # NULL /\ UNCHANGED vars /\ UNCHANGED <<user, sepc, frame>>
       /\ strayed' \in BOOLEAN
    BY <1>8 DEF user_store, InUser, TrapIInv, TrapTypeOK
  <2>2. user' \in UserStates /\ sepc' \in PCs
    BY <2>1, SavedProps DEF TrapIInv, TrapTypeOK
  <2>3. PICK vpage \in Stores, v \in Vals :
          /\ Has(Walk(ram, satp, vpage), PAGE_U)
          /\ ram' = [ram EXCEPT ![PageOf(Walk(ram, satp, vpage))][0] = v]
    BY <1>8 DEF user_store
  <2>4. \E p : PlainPage(p) /\ StoredTo(ram', p)
    BY <2>1, <2>3, StoreProps DEF StoredWord
  <2>5. ram' \in Rams /\ \A t \in Created : Space(ram', kstack[t])
    BY <2>1, <2>4, StoreLeaves
  <2> QED
    BY <2>1, <2>2, <2>5, StoreStepKeeps
<1>9. ASSUME Ecall
      PROVE  /\ mode = "run" /\ Saved_frame \in Frames
             /\ Resume(Saved_frame) \in UserStates /\ Resume(Saved_frame).pc \in PCs
             /\ \A v \in Vals : /\ Resume(WithResult(Saved_frame, v)) \in UserStates
                                /\ Resume(WithResult(Saved_frame, v)).pc \in PCs
  <2>1. mode = "run" /\ user # NULL /\ user.pc \in Targets
    BY <1>9 DEF Ecall, InUser
  <2>2. Saved_frame \in Frames /\ Saved_frame.sepc_ \in Targets
    BY <2>1, SavedProps DEF TrapIInv
  <2> HIDE DEF Saved_frame
  <2> QED
    BY <2>1, <2>2, FrameProps
<1>10. CASE ecall_putchar
  <2>1. Ecall /\ UNCHANGED vars /\ UNCHANGED <<ram, frame, strayed>>
        /\ user' = Resume(Saved_frame) /\ sepc' = Resume(Saved_frame).pc
    BY <1>10 DEF ecall_putchar, Sret
  <2> QED
    BY <1>9, <2>1, UserKeeps
<1>11. CASE ecall_open_close
  <2>1. PICK v \in Vals : /\ Ecall /\ UNCHANGED vars /\ UNCHANGED <<ram, frame, strayed>>
                          /\ user' = Resume(WithResult(Saved_frame, v))
                          /\ sepc' = Resume(WithResult(Saved_frame, v)).pc
    BY <1>11 DEF ecall_open_close, Sret
  <2> QED
    BY <1>9, <2>1, UserKeeps
<1>12. CASE ecall_read
  <2>1. PICK vpage \in Stores, v \in Vals \ {0} :
          /\ PageOf(Walk(ram, satp, vpage)) \notin KernelsOwn
          /\ copyout(vpage, v)
          /\ user' = Resume(WithResult(Saved_frame, v))
          /\ sepc' = Resume(WithResult(Saved_frame, v)).pc
    BY <1>12 DEF ecall_read, Sret
  <2>2. Ecall /\ UNCHANGED vars /\ UNCHANGED frame
    BY <1>12 DEF ecall_read
  <2>3. /\ strayed' \in BOOLEAN /\ ram' \in Rams
        /\ \A t \in Created : Space(ram', kstack[t])
    BY <1>9, <2>1, <2>2, CopyoutLeaves
  <2> QED
    BY <1>9, <2>1, <2>2, <2>3, StoreStepKeeps
<1>13. CASE getchar_key
  <2>1. PICK key \in Vals :
          /\ mode = "run" /\ frame[regs.sp] # NULL /\ UNCHANGED vars /\ UNCHANGED <<ram, strayed>>
          /\ user' = Resume(WithResult(frame[regs.sp], key))
          /\ sepc' = Resume(WithResult(frame[regs.sp], key)).pc
          /\ frame' = [frame EXCEPT ![regs.sp] = NULL]
    BY <1>13 DEF getchar_key, Sret, InKernel
  <2>2. regs.sp \in Pages
    <3>1. g_current_proc \in Created /\ regs.sp = kstack[g_current_proc]
      BY <2>1, RunProps
    <3> QED
      BY <3>1, ExtentProps DEF TrapIInv
  <2>3. frame[regs.sp] \in Frames /\ frame[regs.sp].sepc_ \in Targets
    BY <2>1, <2>2 DEF TrapIInv, TrapTypeOK, FramesInv
  <2>4. /\ WithResult(frame[regs.sp], key) \in Frames
        /\ WithResult(frame[regs.sp], key).sepc_ \in Targets
    BY <2>3, FrameProps
  <2>5. user' \in UserStates /\ sepc' \in PCs
    BY <2>1, <2>4, FrameProps
  <2> QED
    BY <2>1, <2>5, UserKeeps
<1>14. CASE ecall_read_wild
  BY <1>14, WildKeeps
<1> QED
  BY <1>1, <1>2, <1>3, <1>4, <1>5, <1>6, <1>7, <1>8, <1>10, <1>11, <1>12, <1>13, <1>14 DEF TrapNext

-----------------------------------------------------------------------------
(* The theorems.                                                            *)

\* The inductive invariant holds in every reachable state of trap.c over the scheduler
\* and the page tables.
THEOREM TrapInvariance == TrapSpec => []TrapIInv
BY TrapInitHolds, TrapNextKeeps, PTL DEF TrapSpec

\* Memory, the user state, sepc and the trap frames keep their types.
THEOREM TrapTypeCorrect == TrapSpec => []TrapTypeOK
<1>1. TrapIInv => TrapTypeOK
  BY DEF TrapIInv
<1> QED
  BY <1>1, TrapInvariance, PTL

\* In user mode a program reaches its own image and nothing else, for any RAM, any image
\* and any number of processes: no table, no kernel stack, no page of another process.  So
\* it is until a SYS_READ goes over a table or another page the kernel rests on.
THEOREM IsolationHolds == TrapSpec => []Isolation
<1>1. TrapIInv => Isolation
  <2> SUFFICES ASSUME TrapIInv, mode # "wild", NEW s \in Created
               PROVE  LET mine == UserPages(ram, pagetable[s])
                      IN  /\ Cardinality(mine) = Cardinality(ImagePages)
                          /\ \A t \in Created : mine \intersect (Tables0(ram, pagetable[t]) \union {pagetable[t], kstack[t]}) = {}
                          /\ \A t \in Created \ {s} : mine \intersect UserPages(ram, pagetable[t]) = {}
    BY DEF Isolation
  <2>1. SlotsInv /\ SpacesInv
    BY DEF TrapIInv
  <2>2. kstack[s] \in Nat /\ pagetable[s] = kstack[s] + 1 /\ Space(ram, kstack[s])
    BY <2>1, ExtentProps DEF SpacesInv
  <2>3. Cardinality(UserPages(ram, pagetable[s])) = Cardinality(ImagePages)
    BY <2>2, SpaceUserPages
  <2> QED
    BY <2>1, <2>3, NoTable
<1> QED
  BY <1>1, TrapInvariance, PTL

\* The kernel's pages are mapped to themselves, not for user mode, in every page table
\* that is ever in satp, until a SYS_READ goes over a table or another page the kernel rests on.
THEOREM KernelEverywhereHolds == TrapSpec => []KernelEverywhere
<1>1. TrapIInv => KernelEverywhere
  <2> SUFFICES ASSUME TrapIInv, mode # "wild", satp # NULL, NEW page \in KernelPages
               PROVE  Walk(ram, satp, page) = Entry(page, PAGE_R + PAGE_W + PAGE_X + PAGE_V)
    BY DEF KernelEverywhere
  <2>1. PICK s \in Created : satp = pagetable[s]
    BY DEF TrapIInv, SatpInv
  <2>2. pagetable[s] = kstack[s] + 1 /\ Space(ram, kstack[s])
    BY ExtentProps DEF TrapIInv, SpacesInv
  <2>3. Walk(ram, satp, page) = Entry(page, 15)
    BY <2>1, <2>2 DEF Space
  <2>4. PAGE_R + PAGE_W + PAGE_X + PAGE_V = 15
    BY DEF PAGE_R, PAGE_W, PAGE_X, PAGE_V
  <2> QED
    BY <2>3, <2>4
<1> QED
  BY <1>1, TrapInvariance, PTL

-----------------------------------------------------------------------------
(* The kernel implements UserMachines: how the machines of TrapMachines     *)
(* follow the state of the kernel.                                          *)

\* A step that does not show in the machine of slot t.
SameState(t) == Status(t)' = Status(t) /\ Gpr(t)' = Gpr(t) /\ Pc(t)' = Pc(t)
Same(t) == SameState(t) /\ Mem(t)' = Mem(t)

\* A machine that was not created, is not the one in user mode and whose frame is left
\* alone stays as it is.
LEMMA StateKept ==
    ASSUME NEW t \in Slots, (t \in Created)' <=> t \in Created,
           CurrentInUser(t)' <=> CurrentInUser(t), CurrentInUser(t) => user' = user,
           t \in Created => kstack'[t] = kstack[t] /\ frame'[kstack[t]] = frame[kstack[t]]
    PROVE  SameState(t)
<1>1. Status(t)' = Status(t)
  BY DEF Status
<1>2. CASE t \notin Created
  BY <1>1, <1>2 DEF SameState, Status, Gpr, Pc
<1>3. CASE t \in Created
  <2>1. CASE CurrentInUser(t)
    <3>1. Status(t) = "user"
      BY <1>3, <2>1 DEF Status
    <3> QED
      BY <1>1, <2>1, <3>1 DEF SameState, Gpr, Pc
  <2>2. CASE ~CurrentInUser(t)
    <3>1. /\ Status(t) \in {"waiting", "new"}
          /\ frame'[kstack'[t]] = frame[kstack[t]]
      BY <1>3, <2>2 DEF Status
    <3>2. CASE Status(t) = "waiting"
      BY <1>1, <3>1, <3>2 DEF SameState, Gpr, Pc
    <3>3. CASE Status(t) = "new"
      BY <1>1, <3>1, <3>3 DEF SameState, Gpr, Pc
    <3> QED
      BY <3>1, <3>2, <3>3
  <2> QED
    BY <2>1, <2>2
<1> QED
  BY <1>2, <1>3

\* The memory of a machine is kept when its translations and its pages are.
LEMMA MemKept ==
    ASSUME NEW t \in Created, t \in Created',
           mode # "wild", mode' # "wild",
           pagetable'[t] = pagetable[t],
           \A v \in Vpages : Walk(ram', pagetable[t], v) = Walk(ram, pagetable[t], v),
           \A j \in ImagePages : ram'[ImagePage(ram, pagetable[t], j)] = ram[ImagePage(ram, pagetable[t], j)]
    PROVE  Mem(t)' = Mem(t)
<1>1. ASSUME NEW j \in ImagePages
      PROVE  /\ Walk(ram', pagetable'[t], USER_BASE + j) = Walk(ram, pagetable[t], USER_BASE + j)
             /\ ram'[PageOf(Walk(ram, pagetable[t], USER_BASE + j))] = ram[PageOf(Walk(ram, pagetable[t], USER_BASE + j))]
  <2>1. USER_BASE + j \in Vpages
    BY MappedProps DEF VpageOf
  <2>2. ram'[ImagePage(ram, pagetable[t], j)] = ram[ImagePage(ram, pagetable[t], j)]
    OBVIOUS
  <2> QED
    BY <2>1, <2>2 DEF ImagePage, VpageOf
<1> QED
  BY <1>1 DEF Mem

\* A step that leaves the memory and the process table leaves every machine's memory.
LEMMA RamKept ==
    ASSUME NEW t \in Slots, UNCHANGED <<ram, pagetable>>, mode = "wild" <=> mode' = "wild"
    PROVE  Mem(t)' = Mem(t)
BY DEF Mem, Created

\* A step that leaves every machine and the promise is no step of UserMachines.
LEMMA StutterMapped ==
    ASSUME \A t \in Slots : Same(t), Fate' = Fate
    PROVE  UNCHANGED M!mvars
<1>1. /\ [t \in Slots |-> Status(t)'] = [t \in Slots |-> Status(t)]
      /\ [t \in Slots |-> Gpr(t)'] = [t \in Slots |-> Gpr(t)]
      /\ [t \in Slots |-> Pc(t)'] = [t \in Slots |-> Pc(t)]
      /\ [t \in Slots |-> Mem(t)'] = [t \in Slots |-> Mem(t)]
  BY DEF Same, SameState
<1> QED
  BY <1>1 DEF M!mvars

\* What is left of the promise while the system runs and when it has stopped.
Running == mode \in {"boot", "run", "spin"}

LEMMA FateProps ==
    /\ Running => Fate \in {"on", "strayed"} /\ mode # "wild"
    /\ Running /\ Running' /\ strayed' = strayed => Fate' = Fate
    /\ Running /\ strayed => Fate = "strayed"
    /\ ~Running /\ mode # "wild" => Fate = "stopped"
BY DEF Running, Fate

\* A step that leaves every machine and stops the system is Stop.
LEMMA StopMapped ==
    ASSUME \A t \in Slots : Same(t), Running, ~Running', mode' # "wild"
    PROVE  M!MNext
<1>1. /\ [t \in Slots |-> Status(t)'] = [t \in Slots |-> Status(t)]
      /\ [t \in Slots |-> Gpr(t)'] = [t \in Slots |-> Gpr(t)]
      /\ [t \in Slots |-> Pc(t)'] = [t \in Slots |-> Pc(t)]
      /\ [t \in Slots |-> Mem(t)'] = [t \in Slots |-> Mem(t)]
  BY DEF Same, SameState
<1>2. Fate \in {"on", "strayed"}
  BY FateProps
<1>3. Fate' = "stopped"
  BY DEF Fate, Running
<1> QED
  BY <1>1, <1>2, <1>3 DEF M!MNext, M!Stop

\* What machine m may do by itself.
MachineStep(m) ==
    M!Load(m) \/ M!Begin(m) \/ M!Compute(m) \/ M!Store(m) \/ M!Call(m) \/ M!Wait(m) \/ M!Key(m)

\* A step of one machine is a step of UserMachines.
LEMMA StepMapped ==
    ASSUME NEW m \in Slots, MachineStep(m), Running, Running', strayed' = strayed
    PROVE  M!MNext
<1>1. Fate \in {"on", "strayed"} /\ Fate' = Fate
  BY FateProps
<1> QED
  BY <1>1 DEF M!MNext, MachineStep

\* The functions of UserMachines after a step that changes one machine.
LEMMA OneMachine ==
    ASSUME NEW m \in Slots, \A t \in Slots \ {m} : Same(t)
    PROVE  /\ [t \in Slots |-> Status(t)'] = [[t \in Slots |-> Status(t)] EXCEPT ![m] = Status(m)']
           /\ [t \in Slots |-> Gpr(t)'] = [[t \in Slots |-> Gpr(t)] EXCEPT ![m] = Gpr(m)']
           /\ [t \in Slots |-> Pc(t)'] = [[t \in Slots |-> Pc(t)] EXCEPT ![m] = Pc(m)']
           /\ [t \in Slots |-> Mem(t)'] = [[t \in Slots |-> Mem(t)] EXCEPT ![m] = Mem(m)']
BY DEF Same, SameState

\* A part of the machine that is kept is kept in the function.
LEMMA PartKept ==
    ASSUME NEW m \in Slots, \A t \in Slots \ {m} : Same(t)
    PROVE  /\ Status(m)' = Status(m) => [t \in Slots |-> Status(t)'] = [t \in Slots |-> Status(t)]
           /\ Gpr(m)' = Gpr(m) => [t \in Slots |-> Gpr(t)'] = [t \in Slots |-> Gpr(t)]
           /\ Pc(m)' = Pc(m) => [t \in Slots |-> Pc(t)'] = [t \in Slots |-> Pc(t)]
           /\ Mem(m)' = Mem(m) => [t \in Slots |-> Mem(t)'] = [t \in Slots |-> Mem(t)]
BY DEF Same, SameState

\* A register, or the first word of a page of the memory, is put into the machine and,
\* which is the same, into the function.
RegisterSet(m, r, v) == Gpr(m)' = [Gpr(m) EXCEPT ![r] = v]
WordSet(m, k, v) == Mem(m)' = [Mem(m) EXCEPT ![k][0] = v]
RegisterPut(m, r, v) == [t \in Slots |-> Gpr(t)'] = [[t \in Slots |-> Gpr(t)] EXCEPT ![m][r] = v]
WordPut(m, k, v) == [t \in Slots |-> Mem(t)'] = [[t \in Slots |-> Mem(t)] EXCEPT ![m][k][0] = v]

\* A register that is set in a machine is set in the function.
LEMMA RegisterProps ==
    ASSUME NEW m \in Slots, \A t \in Slots \ {m} : Same(t), NEW r, NEW v, RegisterSet(m, r, v)
    PROVE  RegisterPut(m, r, v)
<1> DEFINE F == [t \in Slots |-> Gpr(t)]
           H == [t \in Slots |-> Gpr(t)']
<1>1. H = [F EXCEPT ![m] = Gpr(m)']
  BY OneMachine
<1>2. F[m] = Gpr(m)
  OBVIOUS
<1> HIDE DEF F, H
<1>3. [F EXCEPT ![m][r] = v] = [F EXCEPT ![m] = [F[m] EXCEPT ![r] = v]]
  OBVIOUS
<1>4. H = [F EXCEPT ![m][r] = v]
  BY <1>1, <1>2, <1>3 DEF RegisterSet
<1> QED
  BY <1>4 DEF F, H, RegisterPut

\* And so is a word.
LEMMA WordProps ==
    ASSUME NEW m \in Slots, \A t \in Slots \ {m} : Same(t), NEW k, NEW v, WordSet(m, k, v)
    PROVE  WordPut(m, k, v)
<1> DEFINE F == [t \in Slots |-> Mem(t)]
           H == [t \in Slots |-> Mem(t)']
<1>1. H = [F EXCEPT ![m] = Mem(m)']
  BY OneMachine
<1>2. F[m] = Mem(m)
  OBVIOUS
<1> HIDE DEF F, H
<1>3. [F EXCEPT ![m][k][0] = v] = [F EXCEPT ![m] = [F[m] EXCEPT ![k][0] = v]]
  OBVIOUS
<1>4. H = [F EXCEPT ![m][k][0] = v]
  BY <1>1, <1>2, <1>3 DEF WordSet
<1> QED
  BY <1>4 DEF F, H, WordPut

\* The pc moves on.
LEMMA PcMoved ==
    ASSUME NEW m \in Slots, \A t \in Slots \ {m} : Same(t), Pc(m)' = Pc(m) + 1
    PROVE  [t \in Slots |-> Pc(t)'] = [[t \in Slots |-> Pc(t)] EXCEPT ![m] = @ + 1]
<1> DEFINE F == [t \in Slots |-> Pc(t)]
           H == [t \in Slots |-> Pc(t)']
<1>1. H = [F EXCEPT ![m] = Pc(m)']
  BY OneMachine
<1>2. F[m] = Pc(m)
  OBVIOUS
<1> HIDE DEF F, H
<1>3. H = [F EXCEPT ![m] = @ + 1]
  BY <1>1, <1>2
<1> QED
  BY <1>3 DEF F, H

\* A new machine is loaded.
LEMMA LoadMapped ==
    ASSUME NEW m \in Slots, \A t \in Slots \ {m} : Same(t),
           Status(m) = "none", Status(m)' = "new", Gpr(m)' = Gpr(m), Pc(m)' = Pc(m), Mem(m)' = Loaded
    PROVE  MachineStep(m)
BY OneMachine, PartKept DEF MachineStep, M!Load

\* A new machine begins, with some registers.
LEMMA BeginMapped ==
    ASSUME NEW m \in Slots, \A t \in Slots \ {m} : Same(t),
           Status(m) = "new", Status(m)' = "user", Gpr(m)' \in [Regs -> Vals], Pc(m)' = 0,
           Mem(m)' = Mem(m)
    PROVE  MachineStep(m)
BY OneMachine, PartKept DEF MachineStep, M!Begin

\* A machine waits for a key.
LEMMA WaitMapped ==
    ASSUME NEW m \in Slots, \A t \in Slots \ {m} : Same(t),
           Status(m) = "user", Status(m)' = "waiting", Gpr(m)' = Gpr(m), Pc(m)' = Pc(m),
           Mem(m)' = Mem(m)
    PROVE  MachineStep(m)
BY OneMachine, PartKept DEF MachineStep, M!Wait

\* A machine computes.
LEMMA ComputeMapped ==
    ASSUME NEW m \in Slots, \A t \in Slots \ {m} : Same(t),
           Status(m) = "user", Status(m)' = "user", NEW r \in Regs, NEW v \in Vals,
           RegisterSet(m, r, v), Pc(m)' \in Targets, Mem(m)' = Mem(m)
    PROVE  MachineStep(m)
<1>1. RegisterPut(m, r, v)
  BY RegisterProps
<1>2. /\ [t \in Slots |-> Status(t)'] = [t \in Slots |-> Status(t)]
      /\ [t \in Slots |-> Mem(t)'] = [t \in Slots |-> Mem(t)]
  BY PartKept
<1>3. [t \in Slots |-> Pc(t)'] = [[t \in Slots |-> Pc(t)] EXCEPT ![m] = Pc(m)']
  BY OneMachine
<1>4. [t \in Slots |-> Status(t)][m] = "user"
  OBVIOUS
<1>5. M!Compute(m)
  BY <1>1, <1>2, <1>3, <1>4, Zenon DEF M!Compute, RegisterPut
<1> QED
  BY <1>5 DEF MachineStep

\* The pages of the image that programs and calls store to.
Buffers == {p - USER_BASE : p \in Stores} \intersect ImagePages

\* A machine stores.
LEMMA StoreMapped ==
    ASSUME NEW m \in Slots, \A t \in Slots \ {m} : Same(t),
           Status(m) = "user", Status(m)' = "user", Gpr(m)' = Gpr(m), Pc(m)' = Pc(m),
           NEW k \in Buffers, NEW v \in Vals,
           WordSet(m, k, v)
    PROVE  MachineStep(m)
<1>1. WordPut(m, k, v)
  BY WordProps
<1>2. /\ [t \in Slots |-> Status(t)'] = [t \in Slots |-> Status(t)]
      /\ [t \in Slots |-> Gpr(t)'] = [t \in Slots |-> Gpr(t)]
      /\ [t \in Slots |-> Pc(t)'] = [t \in Slots |-> Pc(t)]
  BY PartKept
<1>3. [t \in Slots |-> Status(t)][m] = "user"
  OBVIOUS
<1>4. M!Store(m)
  BY <1>1, <1>2, <1>3, Zenon DEF M!Store, Buffers, WordPut
<1> QED
  BY <1>4 DEF MachineStep

\* A call returns: the pc moves on, and with a result a0 and with bytes a buffer changes.
LEMMA CallMapped ==
    ASSUME NEW m \in Slots, \A t \in Slots \ {m} : Same(t),
           Status(m) = "user", Status(m)' = "user", Pc(m)' = Pc(m) + 1,
           \/ Gpr(m)' = Gpr(m) /\ Mem(m)' = Mem(m)
           \/ \E v \in Vals : RegisterSet(m, "a0", v) /\ Mem(m)' = Mem(m)
           \/ \E v \in Vals, k \in Buffers :
                /\ RegisterSet(m, "a0", v)
                /\ WordSet(m, k, v)
    PROVE  MachineStep(m)
<1>1. /\ [t \in Slots |-> Status(t)'] = [t \in Slots |-> Status(t)]
      /\ [t \in Slots |-> Status(t)][m] = "user"
  BY PartKept
<1>2. [t \in Slots |-> Pc(t)'] = [[t \in Slots |-> Pc(t)] EXCEPT ![m] = @ + 1]
  BY PcMoved
<1>3. CASE Gpr(m)' = Gpr(m) /\ Mem(m)' = Mem(m)
  <2>1. /\ [t \in Slots |-> Gpr(t)'] = [t \in Slots |-> Gpr(t)]
        /\ [t \in Slots |-> Mem(t)'] = [t \in Slots |-> Mem(t)]
    BY <1>3, PartKept
  <2> QED
    BY <1>1, <1>2, <2>1, Zenon DEF MachineStep, M!Call
<1>4. ASSUME NEW v \in Vals, RegisterSet(m, "a0", v), Mem(m)' = Mem(m)
      PROVE  M!Call(m)
  <2>1. RegisterPut(m, "a0", v)
    BY <1>4, RegisterProps
  <2>2. [t \in Slots |-> Mem(t)'] = [t \in Slots |-> Mem(t)]
    BY <1>4, PartKept
  <2> QED
    BY <1>1, <1>2, <2>1, <2>2, Zenon DEF M!Call, RegisterPut
<1>5. ASSUME NEW v \in Vals, NEW k \in Buffers, RegisterSet(m, "a0", v),
             WordSet(m, k, v)
      PROVE  M!Call(m)
  <2>1. RegisterPut(m, "a0", v)
    BY <1>5, RegisterProps
  <2>2. WordPut(m, k, v)
    BY <1>5, WordProps
  <2> QED
    BY <1>1, <1>2, <2>1, <2>2, Zenon DEF M!Call, Buffers, RegisterPut, WordPut
<1> QED
  BY <1>3, <1>4, <1>5 DEF MachineStep

\* A machine that waits has its key.
LEMMA KeyMapped ==
    ASSUME NEW m \in Slots, \A t \in Slots \ {m} : Same(t),
           Status(m) = "waiting", Status(m)' = "user", Pc(m)' = Pc(m) + 1,
           NEW key \in Vals, RegisterSet(m, "a0", key), Mem(m)' = Mem(m)
    PROVE  MachineStep(m)
<1>1. RegisterPut(m, "a0", key)
  BY RegisterProps
<1>2. [t \in Slots |-> Pc(t)'] = [[t \in Slots |-> Pc(t)] EXCEPT ![m] = @ + 1]
  BY PcMoved
<1>3. /\ [t \in Slots |-> Mem(t)'] = [t \in Slots |-> Mem(t)]
      /\ [t \in Slots |-> Status(t)][m] = "waiting"
  BY PartKept
<1>4. [t \in Slots |-> Status(t)'] = [[t \in Slots |-> Status(t)] EXCEPT ![m] = "user"]
  BY OneMachine
<1>5. M!Key(m)
  BY <1>1, <1>2, <1>3, <1>4, Zenon DEF M!Key, RegisterPut
<1> QED
  BY <1>5 DEF MachineStep

\* The functions change in one register and the pc, and the memory nowhere or in one word of
\* any machine: a stray call.
LEMMA StrayMapped ==
    ASSUME NEW m \in Slots, \A t \in Slots \ {m} : SameState(t),
           Status(m) = "user", Status(m)' = "user", Pc(m)' = Pc(m) + 1,
           NEW v \in Vals, RegisterSet(m, "a0", v),
           \/ \A t \in Slots : Mem(t)' = Mem(t)
           \/ \E n \in Slots, k \in ImagePages :
                WordSet(n, k, v) /\ \A t \in Slots \ {n} : Mem(t)' = Mem(t),
           Running, Fate' = "strayed"
    PROVE  M!MNext
<1>1. [t \in Slots |-> Status(t)'] = [t \in Slots |-> Status(t)]
  BY DEF SameState
<1>2. [t \in Slots |-> Status(t)][m] = "user"
  OBVIOUS
<1>3. [t \in Slots |-> Pc(t)'] = [[t \in Slots |-> Pc(t)] EXCEPT ![m] = @ + 1]
  <2> DEFINE F == [t \in Slots |-> Pc(t)]
             H == [t \in Slots |-> Pc(t)']
  <2>1. H = [F EXCEPT ![m] = Pc(m)'] /\ F[m] = Pc(m)
    BY DEF SameState
  <2> HIDE DEF F, H
  <2>2. H = [F EXCEPT ![m] = @ + 1]
    BY <2>1
  <2> QED
    BY <2>2 DEF F, H
<1>4. RegisterPut(m, "a0", v)
  <2> DEFINE F == [t \in Slots |-> Gpr(t)]
             H == [t \in Slots |-> Gpr(t)']
  <2>1. H = [F EXCEPT ![m] = Gpr(m)'] /\ F[m] = Gpr(m)
    BY DEF SameState
  <2> HIDE DEF F, H
  <2>2. [F EXCEPT ![m]["a0"] = v] = [F EXCEPT ![m] = [F[m] EXCEPT !["a0"] = v]]
    OBVIOUS
  <2>3. H = [F EXCEPT ![m]["a0"] = v]
    BY <2>1, <2>2 DEF RegisterSet
  <2> QED
    BY <2>3 DEF F, H, RegisterPut
<1>5. \/ [t \in Slots |-> Mem(t)'] = [t \in Slots |-> Mem(t)]
      \/ \E n \in Slots, k \in ImagePages : WordPut(n, k, v)
  <2>1. CASE \A t \in Slots : Mem(t)' = Mem(t)
    BY <2>1
  <2>2. ASSUME NEW n \in Slots, NEW k \in ImagePages, WordSet(n, k, v),
               \A t \in Slots \ {n} : Mem(t)' = Mem(t)
        PROVE  WordPut(n, k, v)
    <3> DEFINE F == [t \in Slots |-> Mem(t)]
               H == [t \in Slots |-> Mem(t)']
    <3>1. H = [F EXCEPT ![n] = Mem(n)'] /\ F[n] = Mem(n)
      BY <2>2
    <3> HIDE DEF F, H
    <3>2. [F EXCEPT ![n][k][0] = v] = [F EXCEPT ![n] = [F[n] EXCEPT ![k][0] = v]]
      OBVIOUS
    <3>3. H = [F EXCEPT ![n][k][0] = v]
      BY <2>2, <3>1, <3>2 DEF WordSet
    <3> QED
      BY <3>3 DEF F, H, WordPut
  <2> QED
    BY <2>1, <2>2
<1>6. DOMAIN Loaded = ImagePages
  BY DEF Loaded
<1>7. M!Stray(m)
  <2> DEFINE A == [t \in Slots |-> Mem(t)']
             B == [t \in Slots |-> Mem(t)]
  <2>1. A = B \/ \E n \in Slots, k \in DOMAIN Loaded : A = [B EXCEPT ![n][k][0] = v]
    BY <1>5, <1>6 DEF WordPut
  <2>2. Fate' = "strayed"
    OBVIOUS
  <2> HIDE DEF A, B
  <2> QED
    BY <1>1, <1>2, <1>3, <1>4, <2>1, <2>2, Zenon DEF M!Stray, RegisterPut, A, B
<1>8. Fate \in {"on", "strayed"}
  BY FateProps
<1> QED
  BY <1>7, <1>8 DEF M!MNext

-----------------------------------------------------------------------------
(* Every step of the kernel is a step of UserMachines, or none.             *)

\* The machine of the process in user mode is the hart, and no other one is.
LEMMA UserMachine ==
    ASSUME NEW m, g_current_proc = m, m \in Created, user # NULL
    PROVE  Status(m) = "user" /\ Gpr(m) = user.gpr /\ Pc(m) = user.pc
<1>1. Status(m) = "user"
  BY DEF Status, CurrentInUser
<1> QED
  BY <1>1 DEF Gpr, Pc

\* So it is after a step that leaves the hart in user mode, or takes it there.
LEMMA UserMachineNext ==
    ASSUME NEW m, g_current_proc' = m, m \in Created', user' # NULL
    PROVE  Status(m)' = "user" /\ Gpr(m)' = user'.gpr /\ Pc(m)' = user'.pc
<1>1. Status(m)' = "user"
  BY DEF Status, CurrentInUser
<1> QED
  BY <1>1 DEF Gpr, Pc

\* In the kernel the current machine is new or waits, as its frame tells.
LEMMA KernelMachine ==
    ASSUME NEW m, g_current_proc = m, m \in Created, user = NULL
    PROVE  LET f == frame[kstack[m]]
           IN  /\ f = NULL => Status(m) = "new"
               /\ f # NULL => /\ Status(m) = "waiting"
                              /\ Gpr(m) = f.gpr
                              /\ Pc(m) = f.sepc_
<1>1. CASE frame[kstack[m]] = NULL
  BY <1>1 DEF Status, CurrentInUser
<1>2. CASE frame[kstack[m]] # NULL
  <2>1. Status(m) = "waiting"
    BY <1>2 DEF Status, CurrentInUser
  <2> QED
    BY <1>2, <2>1 DEF Gpr, Pc
<1> QED
  BY <1>1, <1>2

\* While the current process traps or computes, the others' states stay: a frame is only
\* stored on, or taken from, the current kernel stack.
LEMMA OthersKept ==
    ASSUME TrapIInv, g_current_proc \in Created, UNCHANGED vars,
           \A p \in Pages \ {kstack[g_current_proc]} : frame'[p] = frame[p],
           NEW t \in Slots \ {g_current_proc}
    PROVE  SameState(t)
<1>1. Created' = Created /\ UNCHANGED <<kstack, g_current_proc>>
  BY DEF Created, vars, procVars
<1>2. ~CurrentInUser(t) /\ ~CurrentInUser(t)'
  BY <1>1 DEF CurrentInUser
<1>3. ASSUME t \in Created PROVE frame'[kstack[t]] = frame[kstack[t]]
  <2>1. kstack[t] \in Pages /\ kstack[t] # kstack[g_current_proc]
    <3>1. SlotsInv
      BY DEF TrapIInv
    <3>2. /\ kstack[t] \in Nat /\ kstack[t] \in Pages /\ kstack[g_current_proc] \in Nat
          /\ SpacePages \in Nat
          /\ (kstack[t] .. kstack[t] + 1 + SpacePages)
               \intersect (kstack[g_current_proc] .. kstack[g_current_proc] + 1 + SpacePages) = {}
      BY <1>3, <3>1, ExtentProps
    <3>3. kstack[t] \in kstack[t] .. kstack[t] + 1 + SpacePages
      BY <3>2
    <3> QED
      BY <3>2, <3>3
  <2> QED
    BY <2>1
<1> QED
  BY <1>1, <1>2, <1>3, StateKept

\* A store to a plain page shows in the memory whose page it is, if it is any, and in no
\* other one.
LEMMA PageMem ==
    ASSUME TrapIInv, mode = "run", UNCHANGED vars, NEW p \in Pages, PlainPage(p), NEW v,
           StoredTo(ram', p), ram'[p] = [ram[p] EXCEPT ![0] = v]
    PROVE  /\ \A t \in Created, k \in ImagePages :
                p = ImagePage(ram, pagetable[t], k) =>
                  WordSet(t, k, v) /\ \A n \in Slots \ {t} : Mem(n)' = Mem(n)
           /\ (\A t \in Created, k \in ImagePages : p # ImagePage(ram, pagetable[t], k)) =>
                \A n \in Slots : Mem(n)' = Mem(n)
<1>1. SlotsInv /\ SpacesInv /\ mode # "wild"
  BY DEF TrapIInv
<1>2. Created' = Created /\ UNCHANGED <<pagetable, kstack, mode>>
  BY DEF Created, vars, procVars
<1>3. ASSUME NEW t \in Created
      PROVE  \A u \in Vpages : Walk(ram', pagetable[t], u) = Walk(ram, pagetable[t], u)
  BY <1>1, StoreKeeps
<1>4. ASSUME NEW t \in Created, NEW l \in ImagePages
      PROVE  /\ ImagePage(ram, pagetable[t], l) \in Pages
             /\ ImagePage(ram, pagetable[t], l) \in UserPages(ram, pagetable[t])
             /\ \A k \in ImagePages : ImagePage(ram, pagetable[t], k) = ImagePage(ram, pagetable[t], l) => k = l
  <2>1. /\ kstack[t] \in Nat /\ pagetable[t] = kstack[t] + 1 /\ Space(ram, kstack[t])
        /\ kstack[t] .. kstack[t] + 1 + SpacePages \subseteq Pages /\ SpacePages \in Nat
    BY <1>1, ExtentProps DEF SpacesInv
  <2>2. ImagePage(ram, pagetable[t], l) \in UserPages(ram, pagetable[t])
    BY <2>1, SpaceUserPages
  <2>3. UserPages(ram, pagetable[t]) \subseteq kstack[t] + 2 .. kstack[t] + 1 + SpacePages
    BY <2>1, SpaceUserPages
  <2>4. kstack[t] + 2 .. kstack[t] + 1 + SpacePages \subseteq kstack[t] .. kstack[t] + 1 + SpacePages
    BY <2>1
  <2>5. \A k \in ImagePages : ImagePage(ram, pagetable[t], k) = ImagePage(ram, pagetable[t], l) => k = l
    BY <2>1 DEF Space
  <2> QED
    BY <2>1, <2>2, <2>3, <2>4, <2>5
<1>5. \A q \in Pages \ {p} : ram'[q] = ram[q]
  BY DEF StoredTo
<1>6. ASSUME NEW n \in Slots, n \in Created => \A l \in ImagePages : p # ImagePage(ram, pagetable[n], l)
      PROVE  Mem(n)' = Mem(n)
  <2>1. CASE n \in Created
    <3>1. \A l \in ImagePages : ram'[ImagePage(ram, pagetable[n], l)] = ram[ImagePage(ram, pagetable[n], l)]
      BY <1>4, <1>5, <1>6, <2>1
    <3> QED
      BY <1>1, <1>2, <1>3, <2>1, <3>1, MemKept
  <2>2. CASE n \notin Created
    BY <1>2, <2>2 DEF Mem
  <2> QED
    BY <2>1, <2>2
<1>7. ASSUME NEW c \in Created, NEW j \in ImagePages, p = ImagePage(ram, pagetable[c], j)
      PROVE  WordSet(c, j, v) /\ \A n \in Slots \ {c} : Mem(n)' = Mem(n)
  <2> DEFINE root == pagetable[c]
             q(l) == ImagePage(ram, root, l)
             y == [ram[p] EXCEPT ![0] = v]
  <2>1. ASSUME NEW n \in Slots \ {c} PROVE Mem(n)' = Mem(n)
    <3>1. p \in UserPages(ram, root)
      BY <1>4, <1>7
    <3>2. n \in Created => p \notin UserPages(ram, pagetable[n])
      BY <1>1, <3>1, NoTable
    <3>3. n \in Created => \A l \in ImagePages : p # ImagePage(ram, pagetable[n], l)
      BY <1>4, <3>2
    <3> QED
      BY <1>6, <3>3
  <2>2. ASSUME NEW l \in ImagePages
        PROVE  /\ PageOf(Walk(ram, root, USER_BASE + l)) = q(l)
               /\ PageOf(Walk(ram', root, USER_BASE + l)) = q(l)
    <3>1. VpageOf(l) \in Vpages
      BY MappedProps
    <3> QED
      BY <1>3, <3>1 DEF ImagePage, VpageOf
  <2>3. Mem(c) = [l \in ImagePages |-> ram[q(l)]]
    BY <1>1, <2>2 DEF Mem
  <2>4. Mem(c)' = [l \in ImagePages |-> ram'[q(l)]]
    <3>1. c \in Created' /\ pagetable'[c] = root /\ mode' # "wild"
      BY <1>1, <1>2
    <3>2. Mem(c)' = [l \in ImagePages |-> ram'[PageOf(Walk(ram', pagetable'[c], USER_BASE + l))]]
      BY <3>1 DEF Mem
    <3> HIDE DEF root, q
    <3> QED
      BY <2>2, <3>1, <3>2
  <2>5. ram'[q(j)] = y /\ \A l \in ImagePages \ {j} : ram'[q(l)] = ram[q(l)]
    <3>1. \A l \in ImagePages \ {j} : q(l) \in Pages \ {p}
      BY <1>4, <1>7
    <3> QED
      BY <1>5, <1>7, <3>1
  <2>6. Mem(c)[j] = ram[p]
    BY <1>7, <2>3
  <2>7. Mem(c)' = [Mem(c) EXCEPT ![j] = y]
    <3> HIDE DEF q, y
    <3> QED
      BY <2>3, <2>4, <2>5
  <2>8. [Mem(c) EXCEPT ![j][0] = v] = [Mem(c) EXCEPT ![j] = y]
    BY <2>6
  <2>9. WordSet(c, j, v)
    BY <2>7, <2>8 DEF WordSet
  <2> QED
    BY <2>1, <2>9
<1> QED
  BY <1>6, <1>7

\* A store to a page for user mode shows in one page of the memory of the current machine.
LEMMA StoreMem ==
    ASSUME TrapIInv, mode = "run", UNCHANGED vars, NEW c, c = g_current_proc,
           NEW vpage \in Stores, NEW v \in Vals, NEW j \in ImagePages,
           StoredWord(ram', j, vpage, v)
    PROVE  /\ \E k \in Buffers : WordSet(c, k, v)
           /\ \A t \in Slots \ {c} : Mem(t)' = Mem(t)
<1> DEFINE p == ImagePage(ram, pagetable[c], j)
<1>1. c \in Created
  BY RunProps
<1>2. /\ vpage = VpageOf(j) /\ p \in Pages /\ PlainPage(p)
      /\ StoredTo(ram', p) /\ ram'[p] = [ram[p] EXCEPT ![0] = v]
  BY DEF StoredWord
<1>3. j \in Buffers
  <2>1. j = vpage - USER_BASE
    BY <1>2, MmuAssumption, MappedProps DEF VpageOf, ImagePages
  <2> QED
    BY <1>2, <2>1 DEF Buffers
<1>4. p = ImagePage(ram, pagetable[c], j)
  OBVIOUS
<1> HIDE DEF p
<1>5. WordSet(c, j, v) /\ \A n \in Slots \ {c} : Mem(n)' = Mem(n)
  BY <1>1, <1>2, <1>4, PageMem
<1> QED
  BY <1>3, <1>5

\* Power-up: there are no machines.
LEMMA InitMapped == TrapInit => M!MInit
<1> SUFFICES ASSUME TrapInit PROVE M!MInit
  OBVIOUS
<1>1. Created = {} /\ mode = "boot"
  BY DEF TrapInit, Init, Created
<1>2. \A s \in Slots : Status(s) = "none"
  BY <1>1 DEF Status
<1>3. \A s \in Slots : Gpr(s) = [r \in Regs |-> 0] /\ Pc(s) = 0
  BY <1>2 DEF Gpr, Pc
<1>4. \A s \in Slots : Mem(s) = [k \in ImagePages |-> [w \in Words |-> 0]]
  BY <1>1 DEF Mem
<1>5. DOMAIN Loaded = ImagePages /\ \A k \in ImagePages : DOMAIN Loaded[k] = Words
  BY DEF Loaded, WithImage
<1>6. [k \in DOMAIN Loaded |-> [w \in DOMAIN Loaded[k] |-> 0]] = [k \in ImagePages |-> [w \in Words |-> 0]]
  BY <1>5
<1>7. Fate = "on"
  BY <1>1 DEF Fate, TrapInit
<1> QED
  BY <1>2, <1>3, <1>4, <1>6, <1>7 DEF M!MInit, M!Blank

\* proc_create loads the machine of the slot it takes.
LEMMA CreateMapped ==
    ASSUME TrapIInv, create
    PROVE  M!MNext
<1> PICK s \in Slots : s = First(Unused)
  BY CreateProps
<1>1. /\ mode = "boot" /\ mode' = "boot" /\ s \notin Created
      /\ next_paddr \in Nat /\ FREE_RAM <= next_paddr
      /\ next_paddr' = next_paddr + 2 + MAP_PAGES /\ next_paddr' <= FREE_RAM_END
      /\ UNCHANGED <<user, frame, strayed, g_current_proc>>
  BY CreateProps
<1>2. /\ Created' = Created \union {s}
      /\ kstack'[s] = next_paddr /\ pagetable'[s] = next_paddr + 1
      /\ \A j \in ImagePages : ram'[ImagePage(ram', next_paddr + 1, j)] = Part(j)
      /\ \A t \in Created : \A p \in kstack[t] .. kstack[t] + 1 + SpacePages : ram'[p] = ram[p]
  BY CreateSpaces
<1>3. user = NULL /\ \A p \in Pages : frame[p] = NULL
  BY <1>1 DEF TrapIInv, BootInv
<1>4. next_paddr \in Pages
  BY <1>1, ProcAssumption, RamAssumption DEF Pages
<1>5. ASSUME NEW t \in Slots \ {s} PROVE Same(t)
  <2>1. t \in Created' <=> t \in Created
    BY <1>2
  <2>2. CASE t \in Created
    <3>1. /\ kstack'[t] = kstack[t] /\ pagetable'[t] = pagetable[t]
          /\ pagetable[t] = kstack[t] + 1
          /\ \A v \in Vpages : Walk(ram', pagetable[t], v) = Walk(ram, pagetable[t], v)
      BY <2>2, CreateKeepsSpaces
    <3>2. SameState(t)
      BY <1>1, <1>3, <2>1, <3>1, StateKept DEF CurrentInUser
    <3>3. ASSUME NEW j \in ImagePages
          PROVE  ram'[ImagePage(ram, pagetable[t], j)] = ram[ImagePage(ram, pagetable[t], j)]
      <4>1. /\ SlotsInv /\ kstack[t] \in Nat /\ SpacePages \in Nat /\ Space(ram, kstack[t])
        BY <1>1, <2>2, ExtentProps DEF TrapIInv, SpacesInv
      <4>2. ImagePage(ram, pagetable[t], j) \in kstack[t] + 2 .. kstack[t] + 1 + SpacePages
        BY <3>1, <4>1 DEF Space
      <4>3. kstack[t] + 2 .. kstack[t] + 1 + SpacePages \subseteq kstack[t] .. kstack[t] + 1 + SpacePages
        BY <4>1
      <4> QED
        BY <1>2, <2>2, <4>2, <4>3
    <3>4. Mem(t)' = Mem(t)
      BY <1>1, <2>1, <2>2, <3>1, <3>3, MemKept
    <3> QED
      BY <3>2, <3>4 DEF Same
  <2>3. CASE t \notin Created
    <3>1. SameState(t)
      BY <1>1, <1>3, <2>1, <2>3, StateKept DEF CurrentInUser
    <3>2. Mem(t)' = Mem(t)
      BY <2>1, <2>3 DEF Mem
    <3> QED
      BY <3>1, <3>2 DEF Same
  <2> QED
    BY <2>2, <2>3
<1>6. Status(s) = "none"
  BY <1>1 DEF Status
<1>7. Status(s)' = "new"
  BY <1>1, <1>2, <1>3, <1>4 DEF Status, CurrentInUser
<1>8. Gpr(s)' = Gpr(s) /\ Pc(s)' = Pc(s)
  BY <1>6, <1>7 DEF Gpr, Pc
<1>9. Mem(s)' = Loaded
  <2>1. s \in Created'
    BY <1>2
  <2>2. Mem(s)' = [k \in ImagePages |-> ram'[PageOf(Walk(ram', pagetable'[s], USER_BASE + k))]]
    BY <1>1, <2>1 DEF Mem
  <2>3. \A k \in ImagePages :
          ram'[PageOf(Walk(ram', pagetable'[s], USER_BASE + k))] = WithImage([w \in Words |-> 0], k)
    BY <1>2 DEF ImagePage, VpageOf, Part
  <2> QED
    BY <2>2, <2>3 DEF Loaded
<1>10. MachineStep(s)
  BY <1>5, <1>6, <1>7, <1>8, <1>9, LoadMapped
<1> QED
  BY <1>1, <1>10, StepMapped DEF Running

\* A creation that fails stops the system and touches no machine.
LEMMA FailMapped ==
    ASSUME TrapIInv, create_fails
    PROVE  M!MNext
<1>1. /\ mode = "boot" /\ mode' \in {"panic_slots", "panic_memory"}
      /\ UNCHANGED <<pagetable, g_current_proc, ram, user, frame>>
      /\ Created' = Created /\ \A t \in Created : kstack'[t] = kstack[t]
  BY FailProps
<1>2. ASSUME NEW t \in Slots PROVE Same(t)
  <2>1. SameState(t)
    BY <1>1, StateKept DEF CurrentInUser
  <2> QED
    BY <1>1, <2>1, RamKept DEF Same
<1> QED
  BY <1>1, <1>2, StopMapped DEF Running

\* Scheduling shows in no machine: start, exit's loop and the yields of SYS_GETCHAR are
\* steps of the kernel alone, and a start with nothing to start stops the system.
LEMMA ScheduleMapped ==
    ASSUME TrapIInv, start \/ user_loops \/ getchar_yield
    PROVE  M!MNext \/ UNCHANGED M!mvars
<1>1. /\ UNCHANGED <<kstack, pagetable, ram, frame, user, strayed>>
      /\ mode \in {"boot", "run"}
      /\ mode' = "panic_start" \/ mode' \in {"run", "spin"}
  BY ScheduleProps
<1>2. user = NULL \/ g_current_proc' = g_current_proc
  BY DEF start, scheduler_start, scheduler_start_empty, user_loops, user_exit, getchar_yield,
         InKernel, TrapIInv, BootInv
<1>3. ASSUME NEW t \in Slots PROVE Same(t)
  <2>1. Created' = Created
    BY <1>1 DEF Created
  <2>2. SameState(t)
    BY <1>1, <1>2, <2>1, StateKept DEF CurrentInUser
  <2> QED
    BY <1>1, <2>2, RamKept DEF Same
<1>4. CASE mode' = "panic_start"
  BY <1>1, <1>3, <1>4, StopMapped DEF Running
<1>5. CASE mode' \in {"run", "spin"}
  <2>1. Fate' = Fate
    BY <1>1, <1>5, FateProps DEF Running
  <2> QED
    BY <1>3, <2>1, StutterMapped
<1> QED
  BY <1>1, <1>4, <1>5

\* A panic in handle_trap stops the system, and then nothing moves.
LEMMA PanicMapped ==
    ASSUME TrapIInv, trap_panics \/ (Halted /\ UNCHANGED trapVars) \/ UNCHANGED <<vars, trapVars>>
    PROVE  M!MNext \/ UNCHANGED M!mvars
<1>1. UNCHANGED <<kstack, pagetable, ram, frame, user, strayed, g_current_proc>>
  BY DEF trap_panics, Halted, vars, trapVars, procVars
<1>2. \/ mode' = "panic_trap" /\ mode = "run"
      \/ mode' = mode
  BY DEF trap_panics, InUser, Halted, vars
<1>3. ASSUME NEW t \in Slots PROVE Same(t)
  <2>1. Created' = Created
    BY <1>1 DEF Created
  <2>2. SameState(t)
    BY <1>1, <2>1, StateKept DEF CurrentInUser
  <2> QED
    BY <1>1, <1>2, <2>2, RamKept DEF Same
<1>4. CASE mode' = "panic_trap" /\ mode = "run"
  BY <1>3, <1>4, StopMapped DEF Running
<1>5. CASE mode' = mode
  BY <1>1, <1>3, <1>5, StutterMapped DEF Fate
<1> QED
  BY <1>2, <1>4, <1>5

\* A copyout over the kernel's own pages loses the promise.
LEMMA WildMapped ==
    ASSUME TrapIInv, ecall_read_wild
    PROVE  M!MNext
<1> PICK c : c = g_current_proc
  OBVIOUS
<1>1. mode = "run" /\ user # NULL /\ mode' = "wild"
  BY DEF ecall_read_wild, Ecall, InUser
<1>2. c \in Slots /\ c \in Created
  BY <1>1, RunProps
<1>3. [t \in Slots |-> Status(t)][c] = "user"
  BY <1>1, <1>2, UserMachine
<1>4. Fate' = "lost"
  BY <1>1 DEF Fate
<1>5. Fate \in {"on", "strayed"}
  BY <1>1, FateProps DEF Running
<1> QED
  BY <1>2, <1>3, <1>4, <1>5 DEF M!MNext, M!Lose

\* What the steps of the current process have in common.
LEMMA CurrentProps ==
    ASSUME TrapIInv, mode = "run", UNCHANGED vars, NEW c, c = g_current_proc
    PROVE  /\ c \in Slots /\ c \in Created /\ c \in Created' /\ g_current_proc' = c
           /\ kstack[c] \in Pages /\ regs.sp = kstack[c] /\ kstack' = kstack
           /\ mode' = "run"
<1>1. c \in Created /\ c \in Slots /\ regs.sp = kstack[c]
  BY RunProps
<1>2. kstack[c] \in Pages
  BY <1>1, ExtentProps DEF TrapIInv
<1> QED
  BY <1>1, <1>2 DEF vars, procVars, Created

\* user_entry begins the machine.
LEMMA StartMapped ==
    ASSUME TrapIInv, user_start
    PROVE  M!MNext
<1> PICK c : c = g_current_proc
  OBVIOUS
<1>1. /\ mode = "run" /\ user = NULL /\ frame[regs.sp] = NULL
      /\ UNCHANGED vars /\ UNCHANGED <<ram, frame, strayed>>
      /\ \E g \in [Regs -> Vals] : user' = [gpr |-> g, pc |-> 0]
  BY DEF user_start, InKernel
<1>2. /\ c \in Slots /\ c \in Created /\ c \in Created' /\ g_current_proc' = c
      /\ kstack[c] \in Pages /\ regs.sp = kstack[c] /\ mode' = "run"
  BY <1>1, CurrentProps
<1>3. user' # NULL /\ user'.gpr \in [Regs -> Vals] /\ user'.pc = 0
  <2>1. 0 \in PCs
    BY DEF PCs, Targets
  <2>2. user' \in UserStates
    BY <1>1, <2>1 DEF UserStates
  <2> QED
    BY <1>1, <2>2, NullAssumption
<1>4. Status(c) = "new"
  BY <1>1, <1>2, KernelMachine
<1>5. Status(c)' = "user" /\ Gpr(c)' = user'.gpr /\ Pc(c)' = user'.pc
  BY <1>2, <1>3, UserMachineNext
<1>6. \A t \in Slots : Mem(t)' = Mem(t)
  BY <1>1, <1>2, RamKept DEF vars, procVars
<1>7. \A t \in Slots \ {c} : Same(t)
  BY <1>1, <1>2, <1>6, OthersKept DEF Same
<1>8. MachineStep(c)
  BY <1>2, <1>3, <1>4, <1>5, <1>6, <1>7, BeginMapped
<1> QED
  BY <1>1, <1>2, <1>8, StepMapped DEF Running

\* What the steps from user mode to user mode have in common.
LEMMA StayProps ==
    ASSUME TrapIInv, mode = "run", user # NULL, user' # NULL, UNCHANGED vars, UNCHANGED frame,
           NEW c, c = g_current_proc
    PROVE  /\ c \in Slots /\ mode' = "run" /\ user \in UserStates
           /\ Status(c) = "user" /\ Gpr(c) = user.gpr /\ Pc(c) = user.pc
           /\ Status(c)' = "user" /\ Gpr(c)' = user'.gpr /\ Pc(c)' = user'.pc
           /\ \A t \in Slots \ {c} : SameState(t)
<1>1. c \in Slots /\ c \in Created /\ c \in Created' /\ g_current_proc' = c /\ mode' = "run"
  BY CurrentProps
<1>2. user \in UserStates
  BY SavedProps DEF TrapIInv
<1>3. \A t \in Slots \ {c} : SameState(t)
  BY <1>1, OthersKept
<1> QED
  BY <1>1, <1>2, <1>3, UserMachine, UserMachineNext

\* Computing.
LEMMA ComputeStep ==
    ASSUME TrapIInv, user_compute
    PROVE  M!MNext
<1> PICK c : c = g_current_proc
  OBVIOUS
<1>1. PICK r \in Regs, v \in Vals, t \in Targets :
        user' = [gpr |-> [user.gpr EXCEPT ![r] = v], pc |-> t]
  BY DEF user_compute
<1>2. mode = "run" /\ user # NULL /\ UNCHANGED vars /\ UNCHANGED <<ram, frame, strayed>>
  BY DEF user_compute, InUser
<1>3. user' # NULL
  <2>1. user \in UserStates
    BY <1>2, SavedProps DEF TrapIInv
  <2>2. user' \in UserStates
    BY <1>1, <2>1 DEF UserStates, PCs
  <2> QED
    BY <2>2, NullAssumption
<1>4. /\ c \in Slots /\ mode' = "run"
      /\ Status(c) = "user" /\ Gpr(c) = user.gpr
      /\ Status(c)' = "user" /\ Gpr(c)' = user'.gpr /\ Pc(c)' = user'.pc
      /\ \A s \in Slots \ {c} : SameState(s)
  BY <1>2, <1>3, StayProps
<1>5. \A s \in Slots : Mem(s)' = Mem(s)
  BY <1>2, <1>4, RamKept DEF vars, procVars
<1>6. RegisterSet(c, r, v) /\ Pc(c)' \in Targets
  <2>1. user'.gpr = [user.gpr EXCEPT ![r] = v] /\ user'.pc = t
    BY <1>1
  <2> QED
    BY <1>4, <2>1 DEF RegisterSet
<1>7. MachineStep(c)
  BY <1>4, <1>5, <1>6, ComputeMapped DEF Same
<1> QED
  BY <1>2, <1>4, <1>7, StepMapped DEF Running

\* Storing.
LEMMA StoreStep ==
    ASSUME TrapIInv, user_store
    PROVE  M!MNext
<1> PICK c : c = g_current_proc
  OBVIOUS
<1>1. PICK vpage \in Stores, v \in Vals :
        /\ Has(Walk(ram, satp, vpage), PAGE_U)
        /\ ram' = [ram EXCEPT ![PageOf(Walk(ram, satp, vpage))][0] = v]
  BY DEF user_store
<1>2. mode = "run" /\ user # NULL /\ UNCHANGED vars /\ UNCHANGED <<user, frame, strayed>>
  BY DEF user_store, InUser
<1>3. /\ c \in Slots /\ mode' = "run"
      /\ Status(c) = "user" /\ Status(c)' = "user" /\ Gpr(c)' = Gpr(c) /\ Pc(c)' = Pc(c)
      /\ \A t \in Slots \ {c} : SameState(t)
  BY <1>2, StayProps
<1>4. /\ \E k \in Buffers : WordSet(c, k, v)
      /\ \A t \in Slots \ {c} : Mem(t)' = Mem(t)
  <2>1. PICK j \in ImagePages : StoredWord(ram', j, vpage, v)
    BY <1>1, <1>2, StoreProps
  <2> QED
    BY <1>2, <2>1, StoreMem
<1>5. MachineStep(c)
  BY <1>3, <1>4, StoreMapped DEF Same
<1> QED
  BY <1>2, <1>3, <1>5, StepMapped DEF Running

\* The state a call returns to.
LEMMA ReturnProps ==
    ASSUME TrapIInv, Ecall
    PROVE  /\ mode = "run" /\ user # NULL
           /\ Resume(Saved_frame) # NULL /\ Resume(Saved_frame) = [gpr |-> user.gpr, pc |-> user.pc + 1]
           /\ \A v \in Vals : /\ Resume(WithResult(Saved_frame, v)) # NULL
                              /\ Resume(WithResult(Saved_frame, v)).pc = user.pc + 1
                              /\ Resume(WithResult(Saved_frame, v)).gpr = [user.gpr EXCEPT !["a0"] = v]
<1>1. mode = "run" /\ user # NULL /\ user.pc \in Targets
  BY DEF Ecall, InUser
<1>2. Saved_frame \in Frames /\ Saved_frame.sepc_ \in Targets /\ Saved_frame.sepc_ = user.pc
      /\ Saved_frame.gpr = user.gpr
  BY <1>1, SavedProps DEF TrapIInv, Saved_frame
<1> HIDE DEF Saved_frame
<1>3. Resume(Saved_frame) # NULL /\ Resume(Saved_frame) = [gpr |-> user.gpr, pc |-> user.pc + 1]
  BY <1>2, FrameProps DEF Resume
<1>4. ASSUME NEW v \in Vals
      PROVE  /\ Resume(WithResult(Saved_frame, v)) # NULL
             /\ Resume(WithResult(Saved_frame, v)).pc = user.pc + 1
             /\ Resume(WithResult(Saved_frame, v)).gpr = [user.gpr EXCEPT !["a0"] = v]
  <2>1. WithResult(Saved_frame, v) \in Frames /\ WithResult(Saved_frame, v).sepc_ = Saved_frame.sepc_
    BY <1>2, FrameProps
  <2>2. WithResult(Saved_frame, v).gpr = [user.gpr EXCEPT !["a0"] = v]
    BY <1>2 DEF WithResult, Frames
  <2>3. Resume(WithResult(Saved_frame, v)) # NULL
    BY <1>2, <2>1, FrameProps
  <2> QED
    BY <1>2, <2>1, <2>2, <2>3 DEF Resume
<1> QED
  BY <1>1, <1>3, <1>4

\* What the calls that return at once have in common.
LEMMA CallProps ==
    ASSUME TrapIInv, Ecall, UNCHANGED vars, UNCHANGED frame, NEW c, c = g_current_proc,
           \/ user' = Resume(Saved_frame)
           \/ \E v \in Vals : user' = Resume(WithResult(Saved_frame, v))
    PROVE  /\ c \in Slots /\ c \in Created /\ mode = "run" /\ mode' = "run"
           /\ Status(c) = "user" /\ Status(c)' = "user" /\ Pc(c)' = Pc(c) + 1
           /\ user' = Resume(Saved_frame) => Gpr(c)' = Gpr(c)
           /\ \A v \in Vals : user' = Resume(WithResult(Saved_frame, v)) => RegisterSet(c, "a0", v)
           /\ \A t \in Slots \ {c} : SameState(t)
<1>1. mode = "run" /\ user # NULL
  BY ReturnProps
<1>2. /\ user' # NULL /\ user'.pc = user.pc + 1
      /\ user' = Resume(Saved_frame) => user'.gpr = user.gpr
      /\ \A v \in Vals : user' = Resume(WithResult(Saved_frame, v)) => user'.gpr = [user.gpr EXCEPT !["a0"] = v]
  <2> HIDE DEF Saved_frame
  <2>1. /\ Resume(Saved_frame) # NULL /\ Resume(Saved_frame).pc = user.pc + 1
        /\ Resume(Saved_frame).gpr = user.gpr
    BY ReturnProps
  <2>2. \A v \in Vals : /\ Resume(WithResult(Saved_frame, v)) # NULL
                         /\ Resume(WithResult(Saved_frame, v)).pc = user.pc + 1
                         /\ Resume(WithResult(Saved_frame, v)).gpr = [user.gpr EXCEPT !["a0"] = v]
    BY ReturnProps
  <2> QED
    BY <2>1, <2>2
<1>3. /\ c \in Slots /\ mode' = "run"
      /\ Status(c) = "user" /\ Gpr(c) = user.gpr /\ Pc(c) = user.pc
      /\ Status(c)' = "user" /\ Gpr(c)' = user'.gpr /\ Pc(c)' = user'.pc
      /\ \A t \in Slots \ {c} : SameState(t)
  BY <1>1, <1>2, StayProps
<1>4. c \in Created
  BY <1>1, RunProps
<1> QED
  BY <1>1, <1>2, <1>3, <1>4 DEF RegisterSet

\* Calls that return at once and leave the memory alone.
LEMMA CallStep ==
    ASSUME TrapIInv, ecall_putchar \/ ecall_open_close
    PROVE  M!MNext
<1> PICK c : c = g_current_proc
  OBVIOUS
<1>1. /\ Ecall /\ UNCHANGED vars /\ UNCHANGED <<frame, ram, strayed>>
      /\ \/ user' = Resume(Saved_frame)
         \/ \E v \in Vals : user' = Resume(WithResult(Saved_frame, v))
  BY DEF ecall_putchar, ecall_open_close, Sret
<1>2. /\ c \in Slots /\ mode = "run" /\ mode' = "run"
      /\ Status(c) = "user" /\ Status(c)' = "user" /\ Pc(c)' = Pc(c) + 1
      /\ user' = Resume(Saved_frame) => Gpr(c)' = Gpr(c)
      /\ \A v \in Vals : user' = Resume(WithResult(Saved_frame, v)) => RegisterSet(c, "a0", v)
      /\ \A t \in Slots \ {c} : SameState(t)
  BY <1>1, CallProps
<1>3. \A t \in Slots : Mem(t)' = Mem(t)
  BY <1>1, <1>2, RamKept DEF vars, procVars
<1>4. Gpr(c)' = Gpr(c) \/ \E v \in Vals : RegisterSet(c, "a0", v)
  BY <1>1, <1>2
<1>5. MachineStep(c)
  BY <1>2, <1>3, <1>4, CallMapped DEF Same
<1> QED
  BY <1>1, <1>2, <1>5, StepMapped DEF Running

\* SYS_READ: a call with bytes in a buffer of its program, or a stray one.
LEMMA ReadStep ==
    ASSUME TrapIInv, ecall_read
    PROVE  M!MNext
<1> PICK c : c = g_current_proc
  OBVIOUS
<1>1. PICK vpage \in Stores, v \in Vals \ {0} :
        /\ PageOf(Walk(ram, satp, vpage)) \notin KernelsOwn
        /\ copyout(vpage, v)
        /\ user' = Resume(WithResult(Saved_frame, v))
  BY DEF ecall_read, Sret
<1>2. Ecall /\ UNCHANGED vars /\ UNCHANGED frame /\ v \in Vals
  BY DEF ecall_read
<1>3. /\ c \in Slots /\ c \in Created /\ mode = "run" /\ mode' = "run"
      /\ Status(c) = "user" /\ Status(c)' = "user" /\ Pc(c)' = Pc(c) + 1
      /\ RegisterSet(c, "a0", v)
      /\ \A t \in Slots \ {c} : SameState(t)
  BY <1>1, <1>2, CallProps
<1>4. ASSUME NEW j \in ImagePages, StoredWord(ram', j, vpage, v), strayed' = strayed
      PROVE  M!MNext
  <2>1. /\ \E k \in Buffers : WordSet(c, k, v)
        /\ \A t \in Slots \ {c} : Mem(t)' = Mem(t)
    BY <1>2, <1>3, <1>4, StoreMem
  <2>2. MachineStep(c)
    BY <1>2, <1>3, <2>1, CallMapped DEF Same
  <2> QED
    BY <1>3, <1>4, <2>2, StepMapped DEF Running
<1>5. ASSUME strayed' = TRUE,
             \/ ram' = ram
             \/ \E p \in Pages : /\ PlainPage(p) /\ StoredTo(ram', p)
                                 /\ ram'[p] = [ram[p] EXCEPT ![0] = v]
      PROVE  M!MNext
  <2>1. Running /\ Fate' = "strayed"
    BY <1>3, <1>5 DEF Running, Fate
  <2>2. CASE ram' = ram
    <3>1. \A t \in Slots : Mem(t)' = Mem(t)
      BY <1>2, <1>3, <2>2, RamKept DEF vars, procVars
    <3> QED
      BY <1>2, <1>3, <2>1, <3>1, StrayMapped
  <2>3. ASSUME NEW p \in Pages, PlainPage(p), StoredTo(ram', p),
               ram'[p] = [ram[p] EXCEPT ![0] = v]
        PROVE  M!MNext
    <3>1. CASE \E t \in Created, k \in ImagePages : p = ImagePage(ram, pagetable[t], k)
      <4>1. PICK t \in Created, k \in ImagePages : p = ImagePage(ram, pagetable[t], k)
        BY <3>1
      <4>2. WordSet(t, k, v) /\ \A n \in Slots \ {t} : Mem(n)' = Mem(n)
        BY <1>2, <1>3, <2>3, <4>1, PageMem
      <4>3. t \in Slots
        BY DEF Created
      <4> QED
        BY <1>2, <1>3, <2>1, <4>2, <4>3, StrayMapped
    <3>2. CASE ~\E t \in Created, k \in ImagePages : p = ImagePage(ram, pagetable[t], k)
      <4>1. \A n \in Slots : Mem(n)' = Mem(n)
        BY <1>2, <1>3, <2>3, <3>2, PageMem
      <4> QED
        BY <1>2, <1>3, <2>1, <4>1, StrayMapped
    <3> QED
      BY <3>1, <3>2
  <2> QED
    BY <1>5, <2>2, <2>3
<1> QED
  BY <1>1, <1>2, <1>3, <1>4, <1>5, CopyoutProps

\* SYS_GETCHAR: the machine waits.
LEMMA WaitStep ==
    ASSUME TrapIInv, ecall_getchar
    PROVE  M!MNext
<1> PICK c : c = g_current_proc
  OBVIOUS
<1>1. /\ mode = "run" /\ user \in UserStates
      /\ UNCHANGED vars /\ UNCHANGED <<ram, strayed>>
      /\ user' = NULL
      /\ frame' = [frame EXCEPT ![kstack[c]] = Saved_frame]
      /\ Saved_frame # NULL
  BY GetcharProps
<1>2. /\ c \in Slots /\ c \in Created /\ c \in Created' /\ g_current_proc' = c
      /\ kstack[c] \in Pages /\ kstack' = kstack /\ mode' = "run"
  BY <1>1, CurrentProps
<1>3. user # NULL /\ frame \in [Pages -> Frames \union {NULL}]
  BY <1>1, NullAssumption DEF TrapIInv, TrapTypeOK
<1>4. frame'[kstack'[c]] = Saved_frame /\ \A p \in Pages \ {kstack[c]} : frame'[p] = frame[p]
  BY <1>1, <1>2, <1>3
<1>5. Status(c) = "user" /\ Gpr(c) = user.gpr /\ Pc(c) = user.pc
  BY <1>2, <1>3, UserMachine
<1>6. Status(c)' = "waiting"
  BY <1>1, <1>2, <1>4 DEF Status, CurrentInUser
<1>7. Gpr(c)' = Gpr(c) /\ Pc(c)' = Pc(c)
  <2>1. Gpr(c)' = frame'[kstack'[c]].gpr /\ Pc(c)' = frame'[kstack'[c]].sepc_
    BY <1>6 DEF Gpr, Pc
  <2> QED
    BY <1>4, <1>5, <2>1 DEF Saved_frame
<1>8. \A t \in Slots : Mem(t)' = Mem(t)
  BY <1>1, <1>2, RamKept DEF vars, procVars
<1>9. \A t \in Slots \ {c} : Same(t)
  BY <1>1, <1>2, <1>4, <1>8, OthersKept DEF Same
<1>10. MachineStep(c)
  BY <1>2, <1>5, <1>6, <1>7, <1>8, <1>9, WaitMapped
<1> QED
  BY <1>1, <1>2, <1>10, StepMapped DEF Running

\* A key: the machine goes on with it.
LEMMA KeyStep ==
    ASSUME TrapIInv, getchar_key
    PROVE  M!MNext
<1> PICK c : c = g_current_proc
  OBVIOUS
<1>1. PICK key \in Vals :
        /\ mode = "run" /\ user = NULL /\ frame[regs.sp] # NULL /\ UNCHANGED vars /\ UNCHANGED <<ram, strayed>>
        /\ user' = Resume(WithResult(frame[regs.sp], key))
        /\ frame' = [frame EXCEPT ![regs.sp] = NULL]
  BY DEF getchar_key, Sret, InKernel
<1>2. /\ c \in Slots /\ c \in Created /\ c \in Created' /\ g_current_proc' = c
      /\ kstack[c] \in Pages /\ regs.sp = kstack[c] /\ mode' = "run"
  BY <1>1, CurrentProps
<1> DEFINE f == frame[kstack[c]]
<1>3. f \in Frames /\ f.sepc_ \in Targets /\ frame \in [Pages -> Frames \union {NULL}]
  BY <1>1, <1>2 DEF TrapIInv, TrapTypeOK, FramesInv
<1>4. \A p \in Pages \ {kstack[c]} : frame'[p] = frame[p]
  BY <1>1, <1>2, <1>3
<1>5. Status(c) = "waiting" /\ Gpr(c) = f.gpr /\ Pc(c) = f.sepc_
  BY <1>1, <1>2, KernelMachine
<1>6. user' # NULL /\ user'.pc = f.sepc_ + 1 /\ user'.gpr = [f.gpr EXCEPT !["a0"] = key]
  <2> HIDE DEF f
  <2>1. user' = Resume(WithResult(f, key))
    BY <1>1, <1>2 DEF f
  <2>2. WithResult(f, key) \in Frames /\ WithResult(f, key).sepc_ = f.sepc_
    BY <1>3, FrameProps
  <2>3. WithResult(f, key).gpr = [f.gpr EXCEPT !["a0"] = key]
    BY <1>3 DEF WithResult, Frames
  <2>4. Resume(WithResult(f, key)) # NULL
    BY <1>3, <2>2, FrameProps
  <2> QED
    BY <2>1, <2>2, <2>3, <2>4 DEF Resume
<1> HIDE DEF f
<1>7. Status(c)' = "user" /\ Gpr(c)' = user'.gpr /\ Pc(c)' = user'.pc
  BY <1>2, <1>6, UserMachineNext
<1>8. \A t \in Slots : Mem(t)' = Mem(t)
  BY <1>1, <1>2, RamKept DEF vars, procVars
<1>9. \A t \in Slots \ {c} : Same(t)
  BY <1>1, <1>2, <1>4, <1>8, OthersKept DEF Same
<1>10. RegisterSet(c, "a0", key) /\ Pc(c)' = Pc(c) + 1
  BY <1>5, <1>6, <1>7 DEF RegisterSet
<1>11. MachineStep(c)
  BY <1>2, <1>5, <1>7, <1>8, <1>9, <1>10, KeyMapped
<1> QED
  BY <1>1, <1>2, <1>11, StepMapped DEF Running

\* Every step of the kernel is a step of the machines, or shows in none of them.
LEMMA NextMapped == TrapIInv /\ [TrapNext]_<<vars, trapVars>> => [M!MNext]_(M!mvars)
<1> SUFFICES ASSUME TrapIInv, [TrapNext]_<<vars, trapVars>>
             PROVE  M!MNext \/ UNCHANGED M!mvars
  OBVIOUS
<1>1. CASE create
  BY <1>1, CreateMapped
<1>2. CASE create_fails
  BY <1>2, FailMapped
<1>3. CASE start \/ user_loops \/ getchar_yield
  BY <1>3, ScheduleMapped
<1>4. CASE user_start
  BY <1>4, StartMapped
<1>5. CASE user_compute
  BY <1>5, ComputeStep
<1>6. CASE user_store
  BY <1>6, StoreStep
<1>7. CASE ecall_putchar \/ ecall_open_close
  BY <1>7, CallStep
<1>8. CASE ecall_getchar
  BY <1>8, WaitStep
<1>9. CASE getchar_key
  BY <1>9, KeyStep
<1>10. CASE trap_panics \/ (Halted /\ UNCHANGED trapVars) \/ UNCHANGED <<vars, trapVars>>
  BY <1>10, PanicMapped
<1>11. CASE ecall_read
  BY <1>11, ReadStep
<1>12. CASE ecall_read_wild
  BY <1>12, WildMapped
<1> QED
  BY <1>1, <1>2, <1>3, <1>4, <1>5, <1>6, <1>7, <1>8, <1>9, <1>10, <1>11, <1>12 DEF TrapNext

\* Traps, switches and page tables together give every program a machine of its own, for
\* any number of processes, any programs and any memory: the kernel refines UserMachines,
\* where a SYS_READ with a buffer that is not its program's may change a word of any
\* memory, and one over the kernel's own pages ends the promise.
THEOREM MachinesImplemented == TrapSpec => ImplementsMachines
BY InitMapped, NextMapped, TrapInvariance, PTL DEF TrapSpec, ImplementsMachines, M!MachinesSpec
=============================================================================
