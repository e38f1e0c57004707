-------------------------------- MODULE Proc --------------------------------
(***************************************************************************)
(* kernel/proc.c: the process table, the scheduler and the context switch  *)
(* of arch/riscv/kernel/switch.S, driven by kernel/main.c.                 *)
(*                                                                         *)
(* The kernel has one hart and is cooperative: nothing is switched but by  *)
(* yield and proc_exit, which run with no preemption.  An action is one    *)
(* visit of a process to the kernel: from the point where it runs its own  *)
(* code, through yield or proc_exit, __schedule and context_switch, to the *)
(* point where the process that got the CPU runs its own code.             *)
(*                                                                         *)
(* Two bodies run under the scheduler, as in main.c: worker, which yields  *)
(* WORK times and returns into proc_exit, and user_entry, which leaves for *)
(* user mode and comes back through SYS_GETCHAR, whose polling loop yields *)
(* while no key has been pressed (trap.c).                                 *)
(***************************************************************************)
EXTENDS PageAlloc

CONSTANTS
    PROC_MAX,   \* slots of g_procs
    NULL,       \* the null pointer
    WORK,       \* iterations of worker's loop (5 in main.c)
    MAP_PAGES,  \* pages kernel_map_page and user_map_page take for one process
    ENTRIES     \* the entry points kernel_main passes to proc_create

ASSUME ProcAssumption ==
    /\ PROC_MAX \in Nat \ {0}
    /\ NULL \notin Nat
    /\ WORK \in Nat
    /\ MAP_PAGES \in Nat
    /\ ENTRIES \subseteq {"worker", "user_entry"}
    /\ 2 + MAP_PAGES <= MAX_PAGES

VARIABLES
    \* g_procs, a function per field
    state,
    pid,            \* 0 until created and again after proc_exit
    context,
    kstack,         \* kstack_base and kstack_top, which always change together
    pagetable,
    \* the other globals
    g_current_proc,
    next_pid,
    \* the hart
    satp,
    sscratch,
    regs,           \* the callee-saved registers the switch moves
    mode,           \* what the hart is doing
    \* history, read by no action
    yields          \* how often the body in a slot has called yield

procVars == <<state, pid, context, kstack, pagetable>>
hartVars == <<satp, sscratch, regs>>
vars == <<procVars, g_current_proc, next_pid, next_paddr, hartVars, mode, yields>>

Slots == 0 .. PROC_MAX - 1

\* proc_create without a slot or a page, scheduler_start with nothing to start,
\* __schedule with nothing to run.
Panics == {"panic_slots", "panic_memory", "panic_start", "panic_schedule"}
Modes == {"boot", "run", "spin", "wild"} \union Panics

\* What a context holds, or the registers.  ra tells where the process goes on: nowhere yet,
\* in __proc_trampoline, or after the context_switch in __schedule.  sp is the
\* stack it runs on, s0 the body it runs, i the loop counter of that body,
\* which lives in a callee-saved register or in a frame on the stack at sp.
Contexts == [ra : {"0", "__proc_trampoline", "__schedule"}, sp : Nat \union {NULL},
             s0 : {"0"} \union ENTRIES, i : Nat]

\* memset(&p->context, 0, ...)
ZeroContext == [ra |-> "0", sp |-> NULL, s0 |-> "0", i |-> 0]

-----------------------------------------------------------------------------
(* start_kernel and proc_init: the table is empty and the boot code runs.   *)

Init ==
    /\ state = [s \in Slots |-> "UNUSED"]
    /\ pid = [s \in Slots |-> 0]
    /\ context = [s \in Slots |-> ZeroContext]
    /\ kstack = [s \in Slots |-> NULL]
    /\ pagetable = [s \in Slots |-> NULL]
    /\ g_current_proc = NULL
    /\ next_pid = 1
    /\ next_paddr = FREE_RAM
    /\ satp = NULL
    /\ sscratch = NULL
    /\ regs = ZeroContext
    /\ mode = "boot"
    /\ yields = [s \in Slots |-> 0]

-----------------------------------------------------------------------------
(* proc_create, called by kernel_main before the scheduler is started.      *)

Unused == {s \in Slots : state[s] = "UNUSED"}

\* A process whose creation ran out of memory never got a page table.
Created == {s \in Slots : pagetable[s] # NULL}

\* The first slot of a search that starts at slot 0.
First(S) == CHOOSE s \in S : \A t \in S : s <= t

\* __init_proc_context
InitialContext(stack, entry) ==
    [ra |-> "__proc_trampoline", sp |-> stack, s0 |-> entry, i |-> 0]

\* Mutant of AllocSlot: the pid counter is not advanced.
AllocSlot_same_pid(s) ==
    /\ state' = [state EXCEPT ![s] = "READY"]
    /\ pid' = [pid EXCEPT ![s] = next_pid]
    /\ next_pid' = next_pid

\* __alloc_proc: the slot is zeroed, made READY and given the next pid.
AllocSlot(s) ==
    /\ state' = [state EXCEPT ![s] = "READY"]
    /\ pid' = [pid EXCEPT ![s] = next_pid]
    /\ next_pid' = next_pid + 1

\* The kernel stack is the first page, the root page table the second, and
\* the mappings take MAP_PAGES more.
proc_create(entry) ==
    /\ mode = "boot"
    /\ Unused # {}
    /\ LET s == First(Unused)
       IN  /\ AllocSlot(s)
           /\ alloc_pages(2 + MAP_PAGES)
           /\ kstack' = [kstack EXCEPT ![s] = next_paddr]
           /\ pagetable' = [pagetable EXCEPT ![s] = next_paddr + 1]
           /\ context' = [context EXCEPT ![s] = InitialContext(next_paddr, entry)]
    /\ UNCHANGED <<g_current_proc, hartVars, mode, yields>>

\* __alloc_proc returned NULL.
proc_create_no_slot ==
    /\ mode = "boot"
    /\ Unused = {}
    /\ mode' = "panic_slots"
    /\ UNCHANGED <<procVars, g_current_proc, next_pid, next_paddr, hartVars, yields>>

\* alloc_pages panics with the slot already taken, and with the stack recorded
\* in it if that page could still be had.
proc_create_no_memory ==
    /\ mode = "boot"
    /\ Unused # {}
    /\ LET s == First(Unused)
       IN  /\ AllocSlot(s)
           /\ alloc_panics(2 + MAP_PAGES)
           /\ kstack' = [kstack EXCEPT ![s] = IF OutOfMemory(1) THEN NULL ELSE next_paddr]
    /\ mode' = "panic_memory"
    /\ UNCHANGED <<context, pagetable, g_current_proc, hartVars, yields>>

-----------------------------------------------------------------------------
(* __pickup_next_proc                                                       *)

\* Mutant of Dist: the search begins at the current slot itself.
Dist_from_self(cur, s) == IF s >= cur THEN s - cur ELSE s + PROC_MAX - cur

\* The iteration (from 1) in which the circular search from slot cur reaches slot s.
Dist(cur, s) == IF s > cur THEN s - cur ELSE s + PROC_MAX - cur

\* With no current process only slot 0 is looked at: the return that ends the
\* first loop stands inside its body.
Candidates(cur, st) ==
    {s \in Slots : st[s] = "READY" /\ (cur = NULL => s = 0)}

\* Mutant of Pickup: the search forgets current_idx and starts at slot 0.
Pickup_from_zero(cur, st) ==
    LET others == Candidates(cur, st) \ {cur}
    IN  IF Candidates(cur, st) = {} THEN NULL
        ELSE IF others = {} THEN cur ELSE First(others)

\* Mutant of Pickup: the search runs backwards.
Pickup_backwards(cur, st) ==
    LET others == Candidates(cur, st) \ {cur}
    IN  IF Candidates(cur, st) = {} THEN NULL
        ELSE IF others = {} THEN cur
        ELSE IF cur = NULL THEN 0
        ELSE CHOOSE s \in others : \A t \in others : Dist(cur, s) >= Dist(cur, t)

\* cur and st are g_current_proc and the states when the search begins.
Pickup(cur, st) ==
    IF Candidates(cur, st) = {} THEN NULL
    ELSE IF cur = NULL THEN 0
    ELSE CHOOSE s \in Candidates(cur, st) :
           \A t \in Candidates(cur, st) : Dist(cur, s) <= Dist(cur, t)

-----------------------------------------------------------------------------
(* __schedule and context_switch                                            *)

\* Coming back from yield, worker goes to its next iteration; user_entry polls again.
NextIter(c) == [c EXCEPT !.i = IF c.s0 = "worker" THEN @ + 1 ELSE @]

\* Registers after context_switch loaded c and the process ran on to its own code.
Resumed(c) == IF c.ra = "__schedule" THEN NextIter(c) ELSE c

\* Mutant of Saved: the register with the loop counter is not stored.
Saved_drops_register(r) == [r EXCEPT !.ra = "__schedule", !.i = 0]

\* Registers as context_switch stores them: ra points after its call in __schedule.
Saved(r) == [r EXCEPT !.ra = "__schedule"]

\* Mutant of Dispatch: sscratch keeps the stack of the previous process.
Dispatch_old_sscratch(next, st) ==
    /\ g_current_proc' = next
    /\ state' = [st EXCEPT ![next] = "RUNNING"]
    /\ satp' = pagetable[next]
    /\ regs' = Resumed(context[next])
    /\ mode' = IF pid'[next] = 0 /\ context[next].ra = "__schedule" THEN "wild" ELSE mode
    /\ UNCHANGED sscratch

\* next gets the CPU.  A process that has been through proc_exit (its pid is
\* 0) and is resumed in the middle of __schedule returns through stack frames
\* that were popped and overwritten since: from there on anything may happen.
\* One that never lost the CPU still has its first context and starts over.
Dispatch(next, st) ==
    /\ g_current_proc' = next
    /\ state' = [st EXCEPT ![next] = "RUNNING"]
    /\ satp' = pagetable[next]
    /\ sscratch' = kstack'[next]
    /\ regs' = Resumed(context[next])
    /\ mode' = IF pid'[next] = 0 /\ context[next].ra = "__schedule" THEN "wild" ELSE mode

\* yield by the current process: it is marked READY and __schedule is called.
\* If the search finds nobody else, __schedule returns without switching, and
\* without marking the process RUNNING again.
yield ==
    LET cur  == g_current_proc
        st   == [state EXCEPT ![cur] = "READY"]
        next == Pickup(cur, st)
    IN  /\ cur # NULL
        /\ UNCHANGED <<kstack, pid>>
        /\ \/ /\ next = cur
              /\ state' = st
              /\ regs' = NextIter(regs)
              /\ UNCHANGED <<context, g_current_proc, satp, sscratch, mode>>
           \/ /\ next # NULL
              /\ next # cur
              /\ Dispatch(next, st)
              /\ context' = [context EXCEPT ![cur] = Saved(regs)]
           \/ /\ next = NULL
              /\ mode' = "panic_schedule"
              /\ state' = st
              /\ UNCHANGED <<context, g_current_proc, satp, sscratch, regs>>

\* Mutants of ExitState: the other states an exited process might be given.
ExitState_unused == "UNUSED"
ExitState_running == "RUNNING"
ExitState_zombie == "ZOMBIE"

\* The state proc_exit leaves the process in.
ExitState == "READY"

\* proc_exit by the current process.  kfree_page does nothing.  The registers
\* go to g_boot_context, which nothing ever reads.
proc_exit ==
    LET cur  == g_current_proc
        st   == [state EXCEPT ![cur] = ExitState]
        next == Pickup(NULL, st)
    IN  /\ cur # NULL
        /\ kstack' = [kstack EXCEPT ![cur] = NULL]
        /\ pid' = [pid EXCEPT ![cur] = 0]
        /\ \/ /\ next # NULL
              /\ Dispatch(next, st)
           \/ /\ next = NULL
              /\ mode' = "panic_schedule"
              /\ state' = st
              /\ g_current_proc' = NULL
              /\ UNCHANGED <<satp, sscratch, regs>>
        /\ UNCHANGED context

\* scheduler_start: the first READY slot gets the CPU.
scheduler_start ==
    LET ready == {s \in Slots : state[s] = "READY"}
        next  == First(ready)
    IN  /\ mode = "boot"
        /\ ready # {}
        /\ g_current_proc' = next
        /\ state' = [state EXCEPT ![next] = "RUNNING"]
        /\ satp' = pagetable[next]
        /\ sscratch' = kstack[next]
        /\ regs' = Resumed(context[next])
        /\ mode' = "run"
        /\ UNCHANGED <<pid, context, kstack, pagetable, next_pid, next_paddr, yields>>

scheduler_start_empty ==
    /\ mode = "boot"
    /\ \A s \in Slots : state[s] # "READY"
    /\ mode' = "panic_start"
    /\ UNCHANGED <<procVars, g_current_proc, next_pid, next_paddr, hartVars, yields>>

-----------------------------------------------------------------------------
(* The bodies                                                               *)

\* worker calls yield in an iteration of its loop.
worker_yield ==
    /\ mode = "run"
    /\ regs.s0 = "worker"
    /\ regs.i < WORK
    /\ yield
    /\ yields' = [yields EXCEPT ![g_current_proc] = @ + 1]
    /\ UNCHANGED <<pagetable, next_pid, next_paddr>>

\* worker returns to __proc_trampoline, which calls proc_exit.
worker_return ==
    /\ mode = "run"
    /\ regs.s0 = "worker"
    /\ regs.i >= WORK
    /\ proc_exit
    /\ yields' = [yields EXCEPT ![g_current_proc] = 0]
    /\ UNCHANGED <<pagetable, next_pid, next_paddr>>

\* A user process is in SYS_GETCHAR and no key has been pressed.
user_yield ==
    /\ mode = "run"
    /\ regs.s0 = "user_entry"
    /\ yield
    /\ UNCHANGED <<pagetable, next_pid, next_paddr, yields>>

\* The shell was told to exit: user mode loops in exit() and never traps again.
user_exit ==
    /\ mode = "run"
    /\ regs.s0 = "user_entry"
    /\ mode' = "spin"
    /\ UNCHANGED <<procVars, g_current_proc, next_pid, next_paddr, hartVars, yields>>

\* A panic sits in wfi, exit() in its loop; after "wild" nothing is claimed.
Halted ==
    /\ mode \notin {"boot", "run"}
    /\ UNCHANGED vars

Next ==
    \/ \E entry \in ENTRIES : proc_create(entry)
    \/ proc_create_no_slot
    \/ proc_create_no_memory
    \/ scheduler_start
    \/ scheduler_start_empty
    \/ worker_yield
    \/ worker_return
    \/ user_yield
    \/ user_exit
    \/ Halted

\* A running body gets to its next kernel visit: a worker's iteration is
\* finite, and a user process comes to a poll that finds no key, because the
\* keyboard is slower than the polling loop.
Fairness == WF_vars(worker_yield \/ worker_return \/ user_yield)

Spec == Init /\ [][Next]_vars /\ Fairness

-----------------------------------------------------------------------------
(* Properties                                                               *)

TypeOK ==
    /\ state \in [Slots -> {"UNUSED", "READY", "RUNNING"}]
    /\ pid \in [Slots -> Nat]
    /\ context \in [Slots -> Contexts]
    /\ kstack \in [Slots -> Nat \union {NULL}]
    /\ pagetable \in [Slots -> Nat \union {NULL}]
    /\ g_current_proc \in Slots \union {NULL}
    /\ next_pid \in Nat
    /\ next_paddr \in Nat
    /\ satp \in Nat \union {NULL}
    /\ sscratch \in Nat \union {NULL}
    /\ regs \in Contexts
    /\ mode \in Modes
    /\ yields \in [Slots -> Nat]

Live(s) == pid[s] # 0

\* At most one process is RUNNING, and it is the one g_current_proc names: the
\* state changes of __schedule, yield, proc_exit and scheduler_start never leave
\* a stale RUNNING behind, which __pickup_next_proc would skip for ever.
OneRunning == \A s \in Slots : state[s] = "RUNNING" => s = g_current_proc

\* The hart is set up for the process that is current: its page table in satp,
\* its kernel stack in sscratch (kernel_entry of trap.c takes the stack of the
\* next trap from there) and its stack in sp.  __schedule writes the three in
\* three places, two before the switch and one inside it.
CpuMatchesCurrent ==
    mode \in {"run", "spin"} /\ Live(g_current_proc) =>
        /\ satp = pagetable[g_current_proc]
        /\ sscratch = kstack[g_current_proc]
        /\ regs.sp = kstack[g_current_proc]
        /\ regs.sp # NULL

\* No two live processes share a pid, a kernel stack or a page table, no page is
\* both a stack and a page table, and all of them are RAM that was handed out.
PrivateResources ==
    /\ \A s, t \in Slots : Live(s) /\ Live(t) /\ s # t =>
          /\ pid[s] # pid[t]
          /\ kstack[s] # NULL => kstack[s] # kstack[t]
          /\ pagetable[s] # NULL => pagetable[s] \notin {pagetable[t], kstack[t]}
    /\ \A s \in Slots : {kstack[s], pagetable[s]} \ {NULL} \subseteq FREE_RAM .. next_paddr - 1
    /\ mode \in {"run", "spin"} => next_paddr <= FREE_RAM_END

\* A worker finds its loop counter as it left it, however many others ran in
\* between: what its registers or its saved context say it has done is what it did.
ContextIntegrity ==
    mode = "run" =>
      \A s \in Slots :
        LET c == IF s = g_current_proc THEN regs ELSE Resumed(context[s])
        IN  Live(s) /\ c.s0 = "worker" => c.i = yields[s] /\ c.i <= WORK

\* Once a process has been started __schedule finds one to run: the panic "no
\* runnable process" is never reached.  This leans on proc_exit leaving its
\* process READY, since the search without a current process sees only slot 0.
SchedulerNeverPanics == mode # "panic_schedule"

\* The order is round robin (the @note on __pickup_next_proc): a switch by yield
\* brings every process that goes on waiting closer to its turn.
RoundRobinStep ==
    g_current_proc \in Slots /\ g_current_proc' # g_current_proc /\ pid'[g_current_proc] # 0 =>
      \A s \in Slots :
        state[s] = "READY" /\ s \notin {g_current_proc, g_current_proc'} =>
          Dist(g_current_proc', s) < Dist(g_current_proc, s)
RoundRobin == [][RoundRobinStep]_vars

\* A READY process gets the CPU, unless the system has stopped, or is kept by a
\* process in exit().
NoStarvation ==
    \A s \in Slots :
      mode = "run" /\ state[s] = "READY" ~> mode # "run" \/ g_current_proc = s

\* proc_exit "sets the process state to unused" (the comment above the
\* assignment) and does not return (proc.h): a process that has exited is never
\* dispatched.
ExitedNeverRuns == mode \in {"run", "wild"} => Live(g_current_proc)

\* g_current_proc is "the process that is running" and RUNNING means "running"
\* (proc.h): the process that has the CPU is marked RUNNING.
CurrentIsRunning == mode = "run" => state[g_current_proc] = "RUNNING"
=============================================================================
