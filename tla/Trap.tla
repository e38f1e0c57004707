-------------------------------- MODULE Trap --------------------------------
(***************************************************************************)
(* arch/riscv/kernel/trap.c: the way from user mode into the kernel and    *)
(* back, over the scheduler of Proc and the address spaces of Mmu.  Every  *)
(* process is a user process, as in main.c: it is created, enters user     *)
(* mode in user_entry, computes, stores to memory through its page table,  *)
(* and traps.  kernel_entry saves the registers on the stack sscratch      *)
(* names; handle_trap keeps sepc in a local, on that stack too, while the  *)
(* system call runs.  SYS_GETCHAR may yield any number of times before it  *)
(* returns, and others trap meanwhile: one sepc, one sscratch and one set  *)
(* of registers serve them all.                                            *)
(***************************************************************************)
EXTENDS Proc, Mmu

CONSTANTS
    Vals,       \* what programs compute, system calls return and keys are
    Stores      \* the virtual pages programs store to

\* An address space takes as many pages as Proc asks the allocator for.
ASSUME TrapAssumption ==
    /\ ENTRIES = {"user_entry"}
    /\ Vals \subseteq Nat
    /\ 0 \in Vals
    /\ Stores \subseteq 0 .. PFN_SPACE - 1
    /\ MAP_PAGES = SpacePages

VARIABLES
    ram,        \* the RAM behind the kernel, page by page
    user,       \* registers and pc of the hart while it is in user mode, else NULL
    sepc,       \* the CSR
    frame,      \* the trap frame at the top of a kernel stack, by its page, and handle_trap's sepc_
    \* history, read by no action
    strayed     \* a SYS_READ has been given a buffer that is not in its program's image

trapVars == <<ram, user, sepc, frame, strayed>>

\* sp makes the detour over sscratch, a0 takes results, s0 stands for the other 29.
Regs == {"sp", "a0", "s0"}

\* Instructions of a program, one of which is its ecall at any place; USER_BASE is 0.
Targets == {0, 1}
PCs == Targets \union {t + 1 : t \in Targets}

UserStates == [gpr : [Regs -> Vals], pc : PCs]
Frames == [gpr : [Regs -> Vals], sepc_ : PCs]

\* NULL stands for no state and no frame.
ASSUME NullAssumption == NULL \notin UserStates \union Frames

TrapInit ==
    /\ Init
    /\ ram = [p \in Pages |-> [w \in Words |-> PAGE_V]]     \* not zero: alloc_pages has to clear
    /\ user = NULL
    /\ sepc = 0
    /\ frame = [p \in Pages |-> NULL]
    /\ strayed = FALSE

-----------------------------------------------------------------------------
(* Boot, as in Proc, with the memory proc_create writes.                    *)

create ==
    /\ proc_create("user_entry")
    /\ ram' = AddressSpace(ram, next_paddr).ram
    /\ UNCHANGED <<user, sepc, frame, strayed>>

\* A creation that panics may have built a part of an address space, which nothing uses.
create_fails ==
    /\ proc_create_no_slot \/ proc_create_no_memory
    /\ UNCHANGED trapVars

start ==
    /\ scheduler_start \/ scheduler_start_empty
    /\ UNCHANGED trapVars

-----------------------------------------------------------------------------
(* User mode.                                                               *)

InUser == mode = "run" /\ user # NULL
InKernel == mode = "run" /\ user = NULL

\* user_entry, the first thing a process does: the registers are what the kernel left in them.
user_start ==
    /\ InKernel
    /\ frame[regs.sp] = NULL
    /\ sepc' = 0
    /\ \E g \in [Regs -> Vals] : user' = [gpr |-> g, pc |-> sepc']
    /\ UNCHANGED <<vars, ram, frame, strayed>>

\* Instructions up to a point of interest: a register is written, the program goes somewhere.
user_compute ==
    /\ InUser
    /\ \E r \in Regs, v \in Vals, t \in Targets :
         user' = [gpr |-> [user.gpr EXCEPT ![r] = v], pc |-> t]
    /\ UNCHANGED <<vars, ram, sepc, frame, strayed>>

\* The program stores to the first word of a virtual page it may write.
user_store ==
    /\ InUser
    /\ \E vpage \in Stores, v \in Vals :
         LET entry == Walk(ram, satp, vpage)
         IN  /\ Has(entry, PAGE_U) /\ Has(entry, PAGE_W)
             /\ ram' = [ram EXCEPT ![PageOf(entry)][0] = v]
    /\ UNCHANGED <<vars, user, sepc, frame, strayed>>

\* exit(): an endless loop in user mode.
user_loops ==
    /\ InUser
    /\ user_exit
    /\ UNCHANGED trapVars

-----------------------------------------------------------------------------
(* Traps.                                                                   *)

\* kernel_entry's stores: the registers, with the user's sp fetched back from
\* sscratch (which gets the top of the stack again), and handle_trap's local.
Saved_frame == [gpr |-> user.gpr, sepc_ |-> user.pc]

\* Mutant of Resume: the instruction is skipped in the handler and on the way out.
Resume_twice(f) == [gpr |-> f.gpr, pc |-> f.sepc_ + 2]

\* Mutant of Resume: sepc is read back from the CSR after the call.
Resume_from_csr(f) == [gpr |-> f.gpr, pc |-> sepc + 1]

\* The end of handle_trap and of kernel_entry: sepc_ past the ecall, the
\* registers from the frame, sret.
Resume(f) == [gpr |-> f.gpr, pc |-> f.sepc_ + 1]

Sret(f) ==
    /\ user' = Resume(f)
    /\ sepc' = Resume(f).pc

\* tf->a0 = ...
WithResult(f, v) == [f EXCEPT !.gpr["a0"] = v]

\* An ecall can be at a place the program jumps to.
Ecall == InUser /\ user.pc \in Targets

\* SYS_PUTCHAR and SYS_WRITE leave a0 alone.
ecall_putchar ==
    /\ Ecall
    /\ Sret(Saved_frame)
    /\ UNCHANGED <<vars, ram, frame, strayed>>

\* SYS_OPEN, SYS_CLOSE and a SYS_READ that copies nothing (their effects are module Fs).
ecall_open_close ==
    /\ Ecall
    /\ \E v \in Vals : Sret(WithResult(Saved_frame, v))
    /\ UNCHANGED <<vars, ram, frame, strayed>>

\* What the kernel and the hart rest on: the kernel itself, its stacks and the page tables.
KernelsOwn ==
    (KERNEL_BASE .. FREE_RAM - 1)
      \union UNION {Tables0(ram, pagetable[s]) \union {pagetable[s], kstack[s]} : s \in Created}

\* copyout stores wherever the caller says: with SUM set the hart lets it through to the
\* program's pages, and to the kernel's anyway, which each table maps for writing.  A page
\* that is not mapped gives an exception (trap_panics).  ram begins behind the kernel.
copyout(vpage, v) ==
    LET entry == Walk(ram, satp, vpage)
        page  == PageOf(entry)
    IN  /\ Has(entry, PAGE_W)
        /\ ram' = IF page \in Pages THEN [ram EXCEPT ![page][0] = v] ELSE ram
        /\ strayed' = (strayed \/ ~Has(entry, PAGE_U))

\* SYS_READ that copies something, and returns.
ecall_read ==
    /\ Ecall
    /\ \E vpage \in Stores, v \in Vals \ {0} :
         /\ PageOf(Walk(ram, satp, vpage)) \notin KernelsOwn
         /\ copyout(vpage, v)
         /\ Sret(WithResult(Saved_frame, v))
    /\ UNCHANGED <<vars, frame>>

\* SYS_READ that writes over what the kernel rests on, its own stack maybe: from there on
\* anything may happen.
ecall_read_wild ==
    /\ Ecall
    /\ \E vpage \in Stores, v \in Vals \ {0} :
         /\ PageOf(Walk(ram, satp, vpage)) \in KernelsOwn
         /\ copyout(vpage, v)
    /\ mode' = "wild"
    /\ UNCHANGED <<procVars, g_current_proc, next_pid, next_paddr, hartVars, yields, user, sepc, frame>>

\* SYS_GETCHAR enters its polling loop.
ecall_getchar ==
    /\ Ecall
    /\ frame' = [frame EXCEPT ![sscratch] = Saved_frame]
    /\ regs' = [regs EXCEPT !.sp = sscratch]
    /\ sepc' = user.pc
    /\ user' = NULL
    /\ UNCHANGED <<procVars, g_current_proc, next_pid, next_paddr, satp, sscratch, mode, yields, ram, strayed>>

\* A key was pressed.  The frame is popped.
getchar_key ==
    /\ InKernel
    /\ frame[regs.sp] # NULL
    /\ \E key \in Vals : Sret(WithResult(frame[regs.sp], key))
    /\ frame' = [frame EXCEPT ![regs.sp] = NULL]
    /\ UNCHANGED <<vars, ram, strayed>>

\* No key: yield, and on from there when the turn comes round.
getchar_yield ==
    /\ InKernel
    /\ frame[regs.sp] # NULL
    /\ user_yield
    /\ UNCHANGED trapVars

\* Any other exception, an unknown system call, a program's store to a page that is not
\* its own and a copyout to one that is not mapped end in one of handle_trap's panics.  So
\* would an interrupt, but none is ever enabled: the register sie is not written.
trap_panics ==
    /\ InUser
    /\ mode' = "panic_trap"
    /\ UNCHANGED <<procVars, g_current_proc, next_pid, next_paddr, hartVars, yields, trapVars>>

TrapNext ==
    \/ create
    \/ create_fails
    \/ start
    \/ user_start
    \/ user_compute
    \/ user_store
    \/ user_loops
    \/ ecall_putchar
    \/ ecall_open_close
    \/ ecall_read
    \/ ecall_read_wild
    \/ ecall_getchar
    \/ getchar_key
    \/ getchar_yield
    \/ trap_panics
    \/ Halted /\ UNCHANGED trapVars

TrapSpec == TrapInit /\ [][TrapNext]_<<vars, trapVars>>

-----------------------------------------------------------------------------
(* Properties                                                               *)

TrapTypeOK ==
    /\ ram \in [Pages -> [Words -> Nat]]
    /\ user \in UserStates \union {NULL}
    /\ sepc \in PCs
    /\ frame \in [Pages -> Frames \union {NULL}]
    /\ strayed \in BOOLEAN
    /\ mode \in Modes \union {"panic_trap"}
    /\ mode = "wild" => strayed

\* What a program reaches in user mode is the pages of its own image and no others: not
\* the kernel (every page of which its table maps too), no table, no kernel stack, and no
\* page of another process.  alloc_pages gives them out in the order of three nested loops,
\* and map_page finds its tables again by what it reads in them.  So it is until a copyout
\* goes over a table, or over anything else the kernel rests on.
Isolation ==
    mode # "wild" =>
      \A s \in Created :
        LET mine == UserPages(ram, pagetable[s])
        IN  /\ Cardinality(mine) = Cardinality(ImagePages)
            /\ \A t \in Created : mine \intersect (Tables0(ram, pagetable[t]) \union {pagetable[t], kstack[t]}) = {}
            /\ \A t \in Created \ {s} : mine \intersect UserPages(ram, pagetable[t]) = {}

\* Whatever page table is current, the kernel runs on at its own addresses:
\* __schedule writes satp and then goes on reading its stack, g_procs and the
\* next context, and kernel_entry stores a frame before anything else.  Every
\* page of the kernel and the RAM is mapped to itself, not for user mode, until a
\* copyout goes over a table, or over anything else the kernel rests on.
KernelEverywhere ==
    mode # "wild" /\ satp # NULL =>
      \A page \in KernelPages :
        Walk(ram, satp, page) = Entry(page, PAGE_R + PAGE_W + PAGE_X + PAGE_V)

\* copyout "writes len bytes to the buffer in user space" (the comment over it): while
\* programs run, the memory changes in pages that the running one reaches itself.
CopyoutWritesUserSpace ==
    [][user # NULL =>
         \A p \in Pages : ram'[p] # ram[p] => p \in UserPages(ram, satp)]_<<vars, trapVars>>
=============================================================================
