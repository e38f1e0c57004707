# A TLA+ verification of KINAKO OS

KINAKO OS is a small UNIX-like kernel for one RISC-V hart (rv32, under QEMU and
an SBI firmware): cooperative processes with a page table and a kernel stack
each, system calls from one user image (a shell with `cat`), a read-only file
system on a RAM disk, and a library with spinlocks, a linked list, strings and
`printk`.  This directory models it in TLA+, checks the models with TLC and
proves with TLAPS every safety property the models are checked for.

1. [Inventory](#1-inventory)
2. [Modules and how they correspond to the code](#2-modules-and-how-they-correspond-to-the-code)
3. [Runs: what each asks and shows](#3-runs-what-each-asks-and-shows)
4. [Fairness](#4-fairness)
5. [Proofs](#5-proofs)
6. [What the code does that its comments do not say](#6-what-the-code-does-that-its-comments-do-not-say)
7. [Abstractions and what is not modelled](#7-abstractions-and-what-is-not-modelled)
8. [Plan](#8-plan)

## 1. Inventory

| Part | Source | State | Operations | What must hold |
|---|---|---|---|---|
| page allocator | `mm/alloc.c`, `kernel/kalloc.c` | `next_paddr` | `alloc_pages`, `free_pages` (empty), `kalloc_page`, `kfree_page` | pages are RAM and never given twice |
| processes, scheduler | `kernel/proc.c`, `arch/riscv/kernel/switch.S` | `g_procs[64]`, `g_current_proc`, `next_pid`, `g_boot_context`; `satp`, `sscratch`, callee-saved registers | `proc_create`, `scheduler_start`, `yield`, `schedule_tick` (= `yield`, no caller), `proc_exit` | one process runs, on its own stack and page table, finds its registers as it left them, and everybody gets a turn |
| process bodies | `kernel/main.c` | the body's locals | `worker`, `user_entry` | |
| spinlocks | `lib/spinlock.c`, `arch/riscv/kernel/interrupt.c` | `lk->locked`, `lk->cpu`, per CPU `noff`, `intena`, `sstatus.SPIE` | `spinlock_acquire/release/holding`, `push_off`, `pop_off`, `intr_on/off/get` | mutual exclusion; misuse is caught and nothing else is; the enable bit is clear while locked, restored after |
| disk | `kernel/fs_block.c`, `fs_super.c`, `fs_test_layout.c` | `g_disk` (1024 blocks of 1024 bytes), `g_sb` | `bdev_read`, `bdev_write`, `fs_build_test_fs_basic` | the layout it writes is the one the reader expects |
| inodes, paths | `kernel/fs_inode.c` | `g_icache[32]`, `namei`'s name buffer | `iget`, `ilock`, `bmap`, `readi`, `skipelem`, `dirlookup`, `namei` | an inode is cached once, cached = on disk, a slot in use is not recycled; an entry is found by exactly its name |
| files, descriptors | `kernel/fs_file.c`, `kernel/syscall_fs.c` | `g_file_table[64]`, `p->ofile[16]` | `file_alloc/open/read/close`, `sys_open`, `sys_read`, `sys_close` | tables agree; private offsets; failures leak nothing |
| traps, dispatch | `arch/riscv/kernel/trap.c` | trap frame, `sepc`, `sscratch` | `kernel_entry`, `handle_trap`, `syscall_handler` | registers and pc survive a trap that yields; the kernel is always entered on the current process's stack; a call changes nothing but its caller's registers and buffer |
| page tables | `arch/riscv/kernel/MMU.c` | two-level tables | `map_page`, `kernel_map_page`, `user_map_page` | a process sees the kernel and its own image and nothing of another's |
| list | `lib/list.c` | prev/next links | `list_insert_head/tail`, `list_remove`, `list_clear`, queries, `for_each` | behaves as a sequence; a walk survives callbacks that remove and insert |
| strings, printk | `lib/string.c`, `lib/printk.c` | none | `memset` ... `strncmp`; `printk` | equal to their definitions; the format is not overrun, numbers read as what they are |
| user programs | `user/` | the shell's line buffer, the screen, descriptors | `readline`, `main`, `cat`, system call stubs, `exit` | the buffer is never overrun; what runs is what was typed and what the screen shows; `cat` closes what it opens |
| console, SBI, boot, linker script, build | `console.c`, `sbi.h`, `boot.c`, `linker.ld`, `Makefile` | none | one firmware call per character; stack pointer, `.bss` | |

**How the parts interact.**  `boot` sets the stack and calls `start_kernel`,
which sets the trap vector, runs `fs_init` (it builds the disk and then *opens,
reads and closes `/hello` itself*, so the inode cache is not empty when the
first process starts), then `kernel_main`: `proc_init`, `proc_create`,
`scheduler_start`.  `proc_create` takes pages from the allocator and fills a
page table.  After that the kernel runs only when a process calls it: a worker
calls `yield` or returns into `proc_exit`; a user process traps, and
`syscall_handler` runs the call on the process's kernel stack.  `SYS_GETCHAR`
polls the console and yields while there is no key: **the only place where a
user process loses the CPU**.  The file calls run to their end without a yield,
with `g_current_proc` as their process.  There are no interrupts: no timer is
armed, the register `sie` is never written, and an interrupt that did arrive would run
into the panic at the end of `handle_trap`.  In the kernel `sstatus.SIE` is clear as
well: the firmware and every trap leave it so, and nothing sets it.  That, and not
`push_off`, which writes `SPIE`, is why a spinlock's section would not be interrupted.

**What is hard.**
- A process is switched out in the middle of `__schedule` and continued there
  much later; the hart's view of it is spread over `g_current_proc`, `state`,
  `satp`, `sscratch`, `sp` and the saved context, which are written in different
  functions on both sides of the switch.
- `proc_exit` makes the process READY, schedules with no current process, and
  the search then has a different shape (it can only return slot 0): whether the
  scheduler can give up depends on what is in the table after long histories.
- Turn-taking (starvation) depends on the circular search in `__pickup_next_proc`
  and on every path that changes `state`.
- `spinlock_holding` reads two words which other CPUs are writing.
- The inode cache drops no reference, ever, so it fills; `namei` dereferences
  the result of `iget(ROOT_INO)` unchecked; a recycled slot keeps old fields.
- `sys_open` has four ways to fail, three of them after something was taken.
- One `sepc`, one `sscratch` and one set of registers serve every process, while
  one of them may wait in the middle of a system call; what it needs is in a frame
  on its kernel stack, which the next trap must not hit.
- Page tables are memory from the allocator that also gives out stacks and user
  pages, in the order of three nested loops, and are found again by reading them;
  `satp` changes under the running scheduler.
- The kernel checks no pointer a program passes.  `copyout` stores with SUM set through
  page tables that map the whole kernel and all RAM for writing, so a wrong buffer in
  `SYS_READ` changes the memory of another program, or a table or a stack.
- `intr_get`, `intr_on` and `intr_off` work on the bit that `sret` restores, not on the
  one that masks interrupts in the kernel.
- `for_each` runs code that changes the list it is walking.
- Buffers that nobody clears (the shell's line, `namei`'s name) hold the ends of
  longer contents.
- Sizes and offsets at block boundaries.

Every one of these is an entry of `hazards` in `PROJECT.json`, at its line.

## 2. Modules and how they correspond to the code

```
PageAlloc <- Proc <- ProcRotation --refines--> Rotation      Mutex <--refines-- Spinlock
    ^         ^  ^          ^
    |      MCProc |  MCProcRotation
   Mmu <------- Trap <- TrapMachines --refines--> UserMachines
                             ^
                           MCTrap
Inode <- Fs <- FsDescriptors --refines--> FdSpec
                     ^
                   MCFs -> TestLayout
List <- ListSequences --refines--> ListSpec
             ^
Text <- Path, Shell;  Printk  <----------- MCLibrary (all of them, one at a time)

proofs:  Induction <- ProcProofs (ProcRotation) <--.
                   <- MmuProofs (Mmu) <------------- TrapProofs (TrapMachines)
                   <- FsProofs (FsDescriptors)
                   <- ListProofs (ListSequences)
                   <- LibraryProofs (Text, Path, Shell, Printk)      SpinlockProofs (Spinlock)
```

**PageAlloc** — `alloc_pages` as a bump pointer counted in pages with the 32-bit
sum (`% PFN_SPACE`) before the check, as in the code.  It has no Next of its
own: the modules whose code allocates use its operators.  `free_pages` has an
empty body and appears as nothing.

**Proc** — `g_procs` as one function per field (`state`, `pid`, `context`,
`kstack`, `pagetable`), the globals, and the hart (`satp`, `sscratch`, `regs`).
Nothing is preempted, so an action is one visit to the kernel, from the
process's own code to the own code of the process that gets the CPU: `yield` or
`proc_exit`, then `__schedule`, `context_switch`, and the return.  A context
says where the process resumes (`ra`), on which stack (`sp`), which body
(`s0`), and the loop counter of the body.  `mode` is what the hart does: boot,
run, spin (a user process that called `exit()` loops for ever in user mode), one
panic per call site, and *wild*: a process that has exited and is resumed in
the middle of its old `__schedule` returns through stack frames that have been
popped and reused, after which nothing is claimed.  `yields` is history.

**Rotation / ProcRotation** — the promise of the scheduler to processes that
never exit: a queue whose head has the CPU and goes to the back when it yields.
`ProcRotation` reads that queue off the table: the current slot, then the
others in the order the circular search meets them.  `ImplementsRotation` says that every
step of the kernel is one of the queue or none, `RotationGoesOn` that the queue moves.

**Mmu** — page tables as memory: `ram` gives each page its words, an entry is the
number the code computes, and `map_page`, `kernel_map_page`, `user_map_page` are
operators from a memory and a next free page to what they leave, second-level
tables made on first use included.  The loops over addresses are recursive functions of
the number of turns.  `Walk` is the hart's reading of the tables.  `SpacePages` counts the
pages a whole address space takes; `TrapAssumption` says that it is what `Proc` reserves
(`MAP_PAGES = SpacePages`).

**Trap** — `kernel_entry`, `handle_trap` and `syscall_handler` over `Proc` and
`Mmu`.  `user` is the hart's state in user mode, `frame` the trap frame (and
`handle_trap`'s local `sepc_`) at the top of each kernel stack, `sepc` the CSR.  A
call that returns without a yield is one step; `SYS_GETCHAR` is entered
(`ecall_getchar`), yields (`getchar_yield`, which is Proc's `user_yield`) and
returns (`getchar_key`).  User code writes registers, jumps, and stores through
its page table.  `SYS_READ` may be given any address: `copyout` asks the page table in
`satp` for a mapping that can be written, and nothing else, as the hart does with SUM set.
Where it hits a page that the kernel does not rest on (a page of the caller's image, of
another program's, or one nobody has), the call returns (`ecall_read`).  Where it hits one
it does (`KernelsOwn`: the kernel, a page table, a kernel stack), the mode is *wild*
(`ecall_read_wild`): that word is written, and what follows is not modelled.  `strayed` is
history: a `SYS_READ` has been given an address outside its program's image.

**UserMachines / TrapMachines** — the promise to programs: each has registers, a
pc and a memory of its own, and a call that waits goes on with nothing lost.
`TrapMachines` reads the machine of a slot off the hart, or off the frame on its
kernel stack, and its memory off its page table.  `fate` is what is left of the promise:
*on*; *strayed*, after a call whose buffer was not its program's (`Stray`: a word of any
machine's memory may have changed, registers and pcs are kept as ever); *stopped*, after a
panic; *lost*, after a call that hit the kernel's own pages (`Lose`: nothing is promised).

**Spinlock / Mutex** — one action per access to `lk->locked` and `lk->cpu`, any
number of CPUs.  Callers nest locks and `push_off` sections in any order and
also misuse the interface in each way the code panics on.  `held`, `bare` and
`enabled` are history: what the caller did.  `spie` is the bit `interrupt.c` works on;
`SIE`, the one that masks interrupts in the kernel, no code here writes, and it is not in
the model.  `Mutex` is the abstract lock.

**Inode / Fs** — `Inode` has the functions of `fs_inode.c` as operators from the
cache they find to the cache they leave (fault and failure results included),
so that `Fs` has one action per system call.  `Fs.Init` is not the empty cache:
it is *computed* (`Boots`) by running what `fs_init`'s own tests do.  `last` holds the
result of the last call (history), so a refinement can say what calls return.

**FdSpec / FsDescriptors** — the promise to a process: a tree of files that are
byte sequences, private descriptors with a position, the lowest free number, a
failed call that disturbs nobody.  `FsDescriptors` computes the tree and the
contents from the disk without offset arithmetic or cache.

**Path** — where the elements that `Fs` takes as given come from, in characters:
`copyinstr` into `kpath`, `skipelem` into `name`, `namecmp` with an entry.  `elems` is
history.

**List / ListSpec / ListSequences** — the functions of `list.c` as assignments to
`next` and `prev` one after the other, and its loops as recursive functions of the turns
taken, of which there are at most as many as nodes (`Rounds`; that no loop needs more is
part of what is proved); callers and callbacks that keep to the
interface (they insert nodes that are in no list, a callback removes no node but its
own).  `ListSpec` is a sequence per head.

**Text**, **Printk** — `string.c` and the conversions of `printk.c` as recursive
functions; the state is the call being tried.  The properties compare with definitions
that do not compute in the code's way (`ValueOf` reads the digits that were put out).

**Shell** — the shell's loop, `readline`, `cat`, and a terminal row.  A key is a
step; `typed` and `ran` are history.

**TestLayout / MCFs** — the disk `fs_test_layout.c` builds, and a larger one for
TLC with everything the walk and the reads tell apart (see its header).

**MC modules** hold only constant values a `.cfg` cannot write; `MCLibrary` also puts
the library's parts and the shell side by side, one per behaviour.  Operators named
`X_something` with the comment "Mutant of X" are wrong variants of `X`; no
specification uses them.  Each property of each run is known to fail when the
code is changed to one of them (`mutants` in `PROJECT.json`).

## 3. Runs: what each asks and shows

`tlc -config <run>.cfg <module>`

| Run | Module | Instance | Shows |
|---|---|---|---|
| `proc_mixed` | MCProc | 4 slots, RAM for 4 processes, any mix and order of workers and user processes | `TypeOK`, `OneRunning`, `CpuMatchesCurrent`, `PrivateResources`, `ContextIntegrity`, `SchedulerNeverPanics`, `RoundRobin`, `NoStarvation` |
| `proc_rotation` | MCProcRotation | user processes only, 8 slots, RAM for 7 and a part of one | `ImplementsRotation`, `RotationGoesOn` |
| `spinlock` | Spinlock | 2 CPUs, 2 locks, nesting up to 3 | `TypeOK`, `HoldingExact`, `EnableRestored`, `HandOver`, `ImplementsMutex` |
| `fs_syscalls` | MCFs | 2 processes × 2 descriptors, 3 files, 4 cache slots, 5 inodes, 4 opens | `TypeOK`, `TableExact`, `CacheCoherent`, `OpenFilesPinned`, `NoFault`, `ImplementsDescriptors` |
| `fs_paths` | MCFs | 1 process, 11 paths, 8 modes, read sizes 0-3 | `ImplementsDescriptors` for every way a walk, an open or a read can end |
| `machine` | MCTrap | 3 slots, 27 pages of RAM of 8 words (two processes and a part of a third), an image of a page and a part of one | `TrapTypeOK`, `Isolation`, `KernelEverywhere`, `ImplementsMachines` |
| `library` | MCLibrary | 3 nodes, 2 heads; arrays of 4 bytes; paths of up to 6 characters; words of 8 bits; a line of 3 characters | `ListTypeOK`, `QueriesExact`, `WalkComplete`, `ImplementsSequences`, `StringsExact`, `PathSplit`, `NameFound`, `DecimalExact`, `HexReadable`, `StaysInFormat`, `ShellTypeOK`, `RunsWhatWasTyped`, `ScreenShowsLine`, `CatCloses` |
| `machine_copyout` | MCTrap | that of `machine` | a violation: section 6 |
| `proc_exit`, `proc_current`, `fs_refs`, `printk_hex` | | small | violations: section 6 |

**Bounds and why they are enough.**
- `PROC_MAX = 4`: the circular search has three interesting neighbours (current,
  next, one skipped) and slot 0 is special; four slots give all of them and a
  full table (the code has 64); `proc_rotation` uses 8.  `WORK = 2` gives a worker
  a first, a middle and a last iteration.  `MAP_PAGES = 1` stands for the pages a
  process's mappings take: it lets RAM run out in `proc_create` at the first
  page and later.  The proofs have none of these bounds.
- `MAX_NOFF = 3`: two locks and a bare section at once.  Two CPUs are what the
  races are between; the proofs are for any number.
- Files: each table is as small as lets it fill while another one is not full:
  3 files for 4 descriptors, 4 cache slots for 5 inodes.  `KBUF = 2` with reads
  of 3 and files of several blocks of `BSIZE = 3` cells makes reads cut at the
  kernel buffer, cross blocks, stop at a missing block and at the end of file.
  `MAX_OPENS = 4` opens exceed every table but keep the reference counts, which
  only grow, finite; `fs_paths` makes do with 2 because it is about one walk at a
  time, and still shows the second one finding what the first left in the cache.
- `machine`: pages of 8 words make a table cover 8 pages, so that the RAM crosses
  second-level tables, the two pages of the image lie under different ones, and
  the second page is filled in part.  RAM is not zero at power-up.  A third
  process runs out of memory in the middle of its address space.  Two values are
  enough to tell a register that was kept from one that was not: a program sets
  them as it likes between two calls.  Programs and `SYS_READ` store to five pages
  (`MCStores`), one for each thing a pointer can lead to: the program's own second page, a
  page of the kernel, a page that is not mapped, and by their own addresses the second
  process's root table and a page of its image (free RAM while there is one process).
- `library`: its parts share no state, so `part` picks one for each behaviour and
  their state spaces add up.  Three nodes give a first, an inner and a last one, and
  a callback can act before, at and behind the walk; `MAX_VISITS = 4` lets it append
  during a walk.  Bytes 0, 97 and 200 tell apart the end, and the two signs a
  char may have.  Paths of 6 characters are cut at 5 and elements at 2
  (`KPATH`, `DIRSIZ`; the code has 128 and 14), so every mix of slashes, cut and
  stale bytes comes up.  Words of 8 bits have every width of digits and the
  smallest int; widths below, at and beyond the word are tried.  A line of three
  characters fills with the longest command and is shorter than what is typed.
- `MCView` leaves the history variable `last` out of the fingerprint: no guard
  and no assignment reads it, and TLC evaluates a property of a step on each
  step it generates.

## 4. Fairness

- **Proc**: weak fairness of the running process's next visit to the kernel
  (`worker_yield \/ worker_return \/ user_yield`).  A worker's iteration is a
  `printk` and a `yield`; a user process comes back to `SYS_GETCHAR`, whose loop
  yields whenever the keyboard has nothing, and the polling loop is faster than
  any keyboard.  The one escape the code has is explicit: `user_exit` may
  happen at any time, is owed nothing, and `NoStarvation` exempts what follows.
  `RotationGoesOn` (the process at the head of the queue yields, again and again)
  rests on the same fairness.
  No fairness is assumed of creation or of the start.
- **Spinlock**: a CPU inside the lock code keeps executing it (weak fairness per
  CPU).  Callers owe nothing: no caller is assumed ever to release, and hence
  `HandOver` speaks of a lock whose release has begun.  Individual CPUs *can*
  starve: a test-and-set lock is not fair, and nothing here says it is.
- **Fs**, **Trap** and the library: none; their properties are safety.  Liveness of
  user processes is Proc's.

## 5. Proofs

`tlapm <module>.tla` for each of `ProcProofs`, `SpinlockProofs`, `Induction`,
`FsProofs`, `MmuProofs`, `TrapProofs`, `ListProofs`, `LibraryProofs`.  They hold for every
value of the constants that satisfies the named assumptions, which TLC evaluates on each
run:

- `RamAssumption` (PageAlloc): RAM starts above page 0 and ends more than one
  request below 2^32, so the 32-bit sum does not wrap (true of `linker.ld`);
- `ProcAssumption`: at least one slot, `NULL` is not a number, the two known
  bodies, and one `proc_create` is one request in the sense of `RamAssumption`;
- `SpinlockAssumption`: "no CPU" is not a CPU;
- `MmuAssumption`: two levels of tables cover the 32-bit space exactly, the kernel
  lies below the free RAM, and the image ends below the kernel (`linker.ld`);
  `TrapAssumption`: every process runs `user_entry`, and an address space takes
  `SpacePages` pages; `NullAssumption`: `NULL` is no frame and no user state;
- `FsAssumption`: sizes are positive, and the two inode numbers the kernel knows
  are inode numbers; `DiskAssumption`: what `fs_build_test_fs_basic` sees to, that
  dinodes and directory entries which can be read are such; `BootAssumption`: the
  tests in `fs_init` find and read `/hello` on the disk that was built just before;
  `DescriptorAssumption`: `NULL` is no descriptor;
- `ListAssumption`: finitely many nodes, nodes are no heads, and `NULL` is neither;
- `TextAssumption`: the arrays hold bytes, one of them NUL (else the code reads on beyond
  them), and have one length; `PathAssumption`: `KPATH` and `DIRSIZ` exceed 1, and what a
  program passes as a path ends somewhere;
- `ShellAssumption`: the line takes a character and its NUL, printable codes lie between
  the blank and DEL, the four commands are strings, and a file's text fits `cat`'s buffer;
- `PrintkAssumption`: a word is a positive number of nibbles, a format is a string without
  its NUL, arguments are integers.

Two theorems have a hypothesis of their own.  `RotationImplemented` is about processes
that never exit (`ENTRIES = {"user_entry"}`, what the kernel as shipped creates; `Rotation`
promises nothing of others).  `ScreenIsLine` is about texts without a backspace
(`TextsGoOn`): one in a file moves the cursor back into the row, and then the row does not
show the next line as it is typed.

**ProcProofs** proves `TypeOK`, `OneRunning`, `CpuMatchesCurrent`,
`PrivateResources`, `ContextIntegrity`, `SchedulerNeverPanics` and the action
property `RoundRobin`.  None is inductive alone.  The inductive invariant adds
- `CurrentInv`: `g_current_proc` is a used slot exactly while the hart runs a
  process;
- `SlotZeroInv`: if any slot is in use, slot 0 is.  With `OneRunning` this is
  why the search after `proc_exit`, which can only return slot 0, never finds
  nothing: either 0 is READY, or 0 is the process that is exiting, which was
  just made READY;
- `BlankInv`: an unused slot is blank, and pids given lie below `next_pid`;
- `StackInv`: the context of a live process keeps the stack it was created with,
  which links `sp` to `kstack` after the switch;
- `CounterInv`: the saved loop counters are right before the start as well;
- `MemoryInv`: the allocator is within the RAM unless it has panicked.

Its lemmas say what the circular search returns: the nearest READY slot
(`NearestReady`, from the well-foundedness of `<`), and that moving the start of
the search to that slot brings every slot beyond it nearer (`DistShrinks`),
which is `RoundRobin`.

`RotationImplemented` is the refinement `ImplementsRotation`.  Its invariant `TurnInv` says
that slots fill from 0 and are never given back, and that every slot in use has a live
process.  So with the current slot `c` of `n` in use the queue is c, c + 1, ... modulo n
(`QueueFrom`, `SlotAt`), a creation adds `n` at its end, and the search finds the neighbour
of `c`, which is the head of the queue that is left when `c` goes to the back.

**SpinlockProofs** proves `TypeOK`, `HoldingExact`, `EnableRestored` and that
the code implements `Mutex` (every behaviour of `Spec` is one of
`M!MutexSpec`).  The invariant is `LockInv` (the lock word is set exactly while
somebody holds the lock, and `lk->cpu` names the holder except in two windows
around its writes), `PlaceInv` (what each place in the code knows about the lock
it works on) and `CountInv` (`noff` = locks held + bare sections + the call in
progress, and what `SPIE` and `intena` are in each case).  `EnableRestored` is about
`SPIE` alone; nothing is proved of what masks interrupts.  The key to
`HoldingExact` is the third conjunct of `LockInv`: `lk->cpu = me` is written and
erased by me only, so the second read in `spinlock_holding` cannot be fooled by
a change of hands after the first.

**Induction** makes the proofs about loops possible.  A loop is a recursive function in the
models, and what such a function is defined to be is a `CHOOSE`: the module
shows that functions with such an unfolding exist (`RecursionExists`), and that what
holds at 0 and goes from `k - 1` to `k` holds up to `n` (`SegmentInduction`), by
looking at the least counterexample.  It speaks of *sets* of numbers, so it is cited
with any property.

**FsProofs** proves `TypeOK`, `TableExact`, `CacheCoherent`, `OpenFilesPinned` and
`NoFault` for any disk, any paths and any table sizes.  The inductive invariant adds
- `CacheGood`: a slot without references is empty, and a filled one is the disk's
  dinode;
- `RootCached`: some slot with references has the root.  This is why `namei` never goes
  through the null pointer that `iget(ROOT_INO)` may return: `fs_init`'s tests leave the
  root in the cache and nothing ever gives a reference back.  `BootProps` shows it of
  the state they leave, whatever the disk looks like otherwise;
- `AccountInv`: an entry of the file table is closed and nobody's, or is open for exactly
  one descriptor of one process.  `TableExact` counts; this says who;
- `PointedInv`: an open file points to a slot with references.

The action arguments rest on one notion: every function of `Inode` takes a good cache to a
good cache that has *grown* (`Taken`: no reference less, no slot recycled while it has
any, one reference more where the result points).  `namei`'s walk is the induction
(`NameiInduction`) that carries this over paths of any length.

`DescriptorsImplemented` is the refinement `ImplementsDescriptors` (every behaviour of `Spec`
is one of `FdSpec`).  It relates two recursions over the same data:
- `readi` copies block by block with `off / BSIZE` and `off % BSIZE`, and stops at a block
  that is missing; the abstract file is the blocks in front of the first missing one, laid
  end to end and cut at the size (`Contents`).  What one call returns is shown to be the
  cells of the contents from the offset on, by induction over the turns of the loop;
- `namei` walks through the cache, where an `iget` may fail; the abstract walk goes through
  the tree on disk.  `Follows` says how far the one is when the other is somewhere, and that
  the inodes known to the cache grow by those on the way.
The invariant gains `OffsetInv`: no descriptor's offset is beyond the contents.  A read that
stops early adds to the offset only what it copied.

**MmuProofs** are lemmas: for any image, RAM and page size, `AddressSpaceProps` says that
the three nested loops of `MMU.c`, which find the second-level tables they have made by
reading the root back, leave tables in which each page of the kernel and of the image
is found where it should be with the right bits, and everything else is not mapped; that
they write only pages they took; and that they take exactly `SpacePages` of them.

**TrapProofs** proves `TrapTypeOK`, `Isolation`, `KernelEverywhere` and the refinement
`ImplementsMachines` (every behaviour of `TrapSpec` is one of `UserMachines`).  On top
of ProcProofs' invariant, which holds until a trap panics or a `SYS_READ` goes over the
kernel's own pages, the inductive invariant has
- `SlotsInv`: the pages of a process are an interval from its kernel stack on, inside the
  RAM, below `next_paddr`, disjoint from any other process's;
- `SpacesInv`: unless the mode is *wild*, the tables in that interval are still what
  `AddressSpace` built.  It is inductive because of what it implies.  A program's store
  reaches its image pages only, and those hold no table (`PlainPage`).  A copyout may go
  anywhere, but every page of the RAM that is not one of `KernelsOwn` is plain in this
  sense, whoever's it is (`KernelsOwnProps`, `CopyoutProps`), and a store to a plain page
  leaves every address space as it is (`StoreLeaves`);
- `SatpInv`, `BootInv`, `FramesInv`: the page table in use belongs to a process, no frame
  exists before a program runs, and a frame's `sepc_` is a place the program can go to.

The refinement shows for every step that the machine of the process concerned makes its
step and the others keep registers, pc and memory (`OthersKept`, `StoreMem`): the frames
are on stacks of their own, and the memory is read through tables nobody has changed.  A
copyout to a page that is not the caller's shows as one word of the machine whose page it
is, or nowhere (`PageMem`): that is `Stray`.

What these theorems do *not* say: the kernel of this repository does not protect programs
from each other, or itself, against a `SYS_READ` with an arbitrary pointer.  `Isolation` and
`KernelEverywhere` are about what a page table opens *in user mode* and to the kernel, with the
condition `mode # "wild"`; `ImplementsMachines` lists, as `Stray` and `Lose`, what such a call
may change.

**ListProofs** proves `ListTypeOK`, `QueriesExact`, `WalkComplete` and the refinement
`ImplementsSequences`, for any number of nodes and heads.  The inductive invariant is
`Represents(next, prev, where, Lists)` with `WalkInv`:
- `Held`: the sequences hold a node once, and where its caller put it;
- `Ring`: the links go around head, sequence, head in *both* directions.  The queries
  read `next` only; without `prev` nothing could be said about `list_remove`;
- `Blank`: a node in no list holds `NULL` in both fields, and so does what lies at
  address `NULL`, which the code would read if it ever followed one;
- `OnTrack`: a walk stands at a place of the sequence such that what is left of the
  nodes it began with is what comes next.  `WalkComplete` speaks of what was visited;
  this is what survives a callback that removes its node and inserts others.

Each function is shown to do to any links which represent sequences what the sequence
operation does (the lemmas about `Represents`), its assignments one by one; the sequence the
links represent is unique and the model's `Contents` finds it.  `list_clear` is an induction.

**LibraryProofs** proves `StringsExact`, `ShellTypeOK`, `CatCloses`, `RunsWhatWasTyped`,
`ScreenShowsLine`, `PathSplit`, `NameFound`, `StaysInFormat`, `DecimalExact` and `HexReadable`:
for strings, paths, lines, formats and words of any length.
- *Loops.*  A loop of the code goes up an array until something stops it.  `Loops` is that
  as a recursive function, and the lemmas about it say that it ends at the first index
  that stops.  All string functions, `skipelem`'s two loops and the parsing of widths are
  instances, so `StringsCorrect` is what remains to be said of the first such index.
- *Shell.*  `ShellInv` has the types and that `cat`'s descriptor is the only one open;
  `LineInv` that the buffer begins with what was typed and, after Enter, ends there (what
  an earlier line left behind the NUL is never read); `ScreenInv` that the row shows the
  line up to the cursor and nothing behind it, so that "backspace, blank, backspace" leaves
  the row of the line that is one shorter.
- *Path.*  `PathInv` says that `kpath` holds the user's string as far as it fits
  (`KpathOK`), that the pointer is never inside an element (`PathAt`: it is at the start,
  behind a slash, or at the end), that the elements so far are those of the runs in front of it (`SplitInv`),
  and that `name` holds the last one, with whatever older bytes after its NUL (`NameInv`):
  which is why an entry is found by exactly its name.
- *Numbers.*  Repeated division leaves nothing exactly when the number is below the power of
  the base (`LeftNothing`), so `kprint_u64_dec` puts out as many digits as the number has
  and the word fits its nibbles (`WordFits`, `NibblesFit`); the digits read back as the number
  (`NumberRead`, an induction over them).  `LaidExact` says what blanks, sign and zeros in
  front of them amount to.  `HexReadable` excludes widths beyond the word, where the
  shift is undefined; `DecimalExact` covers the smallest int, which has no negative.

**Only model-checked.**  Every invariant and every action property of the passing runs, and
the five refinements, are stated by a theorem.  What stays with TLC is liveness:
`NoStarvation`, `RotationGoesOn` and `HandOver` rest on fairness, and `ENABLED` is out of
the prover's reach.  The violations of section 6 are counterexamples, and need no proof.

## 6. What the code does that its comments do not say

Each is a run in which TLC finds the violation; they state what a comment in the
repository says.

- `proc_exit` / `ExitedNeverRuns`: the comment over the assignment says "set the
  state to unused", `proc.h` says the function does not return; the assignment is
  `PROC_STATE_READY` (`proc.c:341`), so the exited process is picked again.
  (`SchedulerNeverPanics` depends on this: were it changed to UNUSED alone, the
  search after an exit, which looks at slot 0 only, would give up with other
  processes READY.  This is a mutant of `proc_mixed`.)
- `proc_current` / `CurrentIsRunning`: a process that yields alone goes on
  READY, never RUNNING (`proc.c:156`).  The kernel as shipped, one shell, runs in
  this state from its first poll on.  `OneRunning` therefore says "at most one".
- `fs_refs` / `ReferenceReturned`: nothing lowers an inode's reference count.
  Files come and go, references stay; a system that opens inodes it has not
  opened before fills the cache for good.  `NoFault` and `OpenFilesPinned` hold
  *because* of it.
- `printk_hex` / `HexFitsWidth`: the comment in `kprint_u64_hex` says that a number
  with a width is fitted to it; the function puts out the padding and then as many
  digits as the width says, leading zeros included (`printk.c:39-46`), so `%04x` of 10
  is `000000a`.  The digits read as the number all the same (`HexReadable`).
- `machine_copyout` / `CopyoutWritesUserSpace`: the comment over `copyout` says that it
  writes to a buffer in user space (`syscall_fs.c:72`); it stores to any address that is
  mapped for writing, and the page tables map the whole kernel and all RAM
  (`syscall_fs.c:81`, called at `:150`).  In TLC's trace the first call of the first
  program does it.

Read, and not a run:
- `interrupt.h` says that `intr_get` tells whether interrupts are enabled at the moment and
  that `intr_on` and `intr_off` change that; all three work on `SPIE`, which is for the code
  `sret` returns to (`interrupt.c:7, 13, 20`).  `SIE`, which masks interrupts in the kernel,
  is untouched, so "disables interrupts" (`spinlock.h:39`, `spinlock.c:14, 60`) is not what
  `push_off` does.  As `SIE` is clear in all kernel code nothing comes of it yet; a kernel
  that set it would be interrupted inside its sections.
- `alloc.h:10` promises 0 when the RAM is used up; `alloc_pages` panics (`alloc.c:12`), and
  the check for a failed `kalloc_page` in `proc_create` is never reached.
- `string.h:26` promises 1, 0 or -1 of `memcmp` and the code returns the difference of the
  bytes (its sign is right, `StringsExact`).
- `strcat` is declared and defined nowhere; `copyinstr` never fails, so the check for it in
  `sys_open` is dead.

## 7. Abstractions and what is not modelled

- Addresses are counted in pages, stacks and page tables are named by their page.
- The memory of a stack is its loop counter; registers other than that and
  `ra`, `sp`, `s0` are moved by the same instructions and left out.
- Names and arguments of processes are left out (nothing reads them).
- A disk cell is a byte of a file or a whole `dirent` of a directory (16 bytes
  divide the block, so no entry straddles two blocks).  Dinodes drop the link
  count and device numbers, which no code reads.
- A path is a sequence of names; `skipelem`'s splitting at slashes is not done
  character by character in `Fs`, but its cut of a name to `DIRSIZ - 1` characters
  is (`Elem`).  The characters, and `copyinstr`'s cut at 128, are module Path.
- `copyout` and `copyinstr` move data unchanged while SUM is set.  A pointer to a page
  that is not mapped is an exception, i.e. a panic (`trap_panics`); one into the kernel or
  the RAM is not, and a copyout goes through (module Trap).
- Trap: 29 of the 31 registers are moved by the same instructions and stand as one
  (`s0`); the bytes a read copies out are one word; what the calls do to files is
  `Fs`.  What a kernel does after a copyout has gone over its own pages (`mode = "wild"`) is
  not followed: the result depends on the bytes.  What a copyout into another program's
  pages does to *its* run is: the program computes anything and finds the word changed.
- No interrupt is enabled in any state (the register `sie` is never written, and
  `sstatus.SIE` is clear in all kernel code), so the interrupt
  branch of `handle_trap` cannot be entered and is not an action.  A trap inside the
  kernel would put its frame over the one on the stack; it can only be an
  exception, which panics.
- Kernel stacks are one page without a guard, and `sys_read` puts a buffer of 512
  bytes and a block of 1024 on it: how deep the stack gets is not modelled.
- `ref` of an inode is an `int` that grows with every open: after 2^31 of them it is
  negative, which no bounded run reaches.
- The locks have no order (two CPUs that take two locks in opposite orders
  deadlock) and `mycpu` trusts `tp`, which boot never sets: both are left to callers,
  and there are none.
- Printk: plain text and `%s` are left out; a shift by the width of the word or more
  (`%p`, widths above 8) is undefined and `Nibble` has both outcomes; an `%lld` loses
  the upper half of its number, as `uint64_t` has 32 bits.
- Shell: keys other than Enter, Backspace, Delete and the printable ones (a NUL or an
  escape would be stored and echoed like any other), and rows that wrap.
- The disk is well formed as `FsAssumption` says: the dinodes of the inode
  numbers in use are dinodes.  `ninodes` of the superblock is not checked by the
  code; an inode number past the *disk* is in the model (inode 99).
- Processes of `Fs` do not exit: `proc_exit` touches no descriptor, and slots
  are not reused since processes are created only before the scheduler starts.
- `file_write` returns -1 and no system call reaches it; `SYS_WRITE` is empty.
- Barriers in the spinlock code keep program order; the model is sequentially
  consistent for these accesses.  The kernel has one hart and does not use the
  locks yet: this checks the library, as its interface is meant.
- Not modelled, and staying so: console, SBI, boot code, banner, superblock
  self-tests (pure output or start-up).

## 8. Plan

Done, in this order: PageAlloc, Proc, Rotation; ProcProofs; Spinlock, Mutex,
SpinlockProofs; Inode, Fs, FdSpec; Mmu, Trap, UserMachines; List, Text, Path, Printk,
Shell; Induction, FsProofs, MmuProofs, TrapProofs, ListProofs; the refinements of Rotation and
FdSpec; LibraryProofs.

Nothing of the plan is left to prove but liveness, for which TLC's instances have to do.  What
would extend the models: timer preemption once the kernel arms a timer, `proc_exit` once it
frees what a process holds, and writing once `file_write` does anything.  Each of these
changes a module's actions and, with them, the inductive invariant of its proofs.
