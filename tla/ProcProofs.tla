----------------------------- MODULE ProcProofs -----------------------------
(***************************************************************************)
(* Proofs about Proc for any number of slots, any RAM, any worker loop and *)
(* any mix of bodies.  The inductive invariant IInv below adds to the      *)
(* properties what keeps them true: where g_current_proc points (and that  *)
(* slot 0 is always there for the search without a current process), what  *)
(* a slot holds that was never used, whose stack each context runs on, and *)
(* that pages and pids are handed out in increasing order.  TurnInv, for   *)
(* processes that never exit, is what the refinement of Rotation needs.    *)
(***************************************************************************)
EXTENDS ProcRotation, Induction, FiniteSetTheorems, FunctionTheorems, SequenceTheorems

\* The circular search reaches every slot in one of its PROC_MAX iterations, and no two
\* in the same one.
LEMMA DistProps ==
    ASSUME NEW c \in Slots, NEW s \in Slots
    PROVE  /\ Dist(c, s) \in 1 .. PROC_MAX
           /\ \A t \in Slots : Dist(c, s) = Dist(c, t) => s = t
BY ProcAssumption DEF Dist, Slots

\* Moving the start of the search to a slot it meets earlier brings a later slot closer.
LEMMA DistShrinks ==
    ASSUME NEW c \in Slots, NEW n \in Slots, NEW s \in Slots,
           s # n, s # c, n # c, Dist(c, n) <= Dist(c, s)
    PROVE  Dist(n, s) < Dist(c, s)
BY ProcAssumption DEF Dist, Slots

\* With a current process and a READY slot the search returns the nearest READY slot.
LEMMA NearestReady ==
    ASSUME NEW cur \in Slots, NEW st, NEW t \in Slots, st[t] = "READY"
    PROVE  /\ Pickup(cur, st) \in Slots
           /\ st[Pickup(cur, st)] = "READY"
           /\ \A u \in Slots : st[u] = "READY" => Dist(cur, Pickup(cur, st)) <= Dist(cur, u)
<1> DEFINE C == Candidates(cur, st)
           D == {Dist(cur, s) : s \in C}
<1>1. cur # NULL
  BY ProcAssumption DEF Slots
<1>2. C = {s \in Slots : st[s] = "READY"}
  BY <1>1 DEF Candidates
<1>3. D \in SUBSET Nat /\ D # {}
  BY <1>2, DistProps
<1>4. PICK m \in D : \A k \in D : m <= k
  BY <1>3, LeastExists
<1>5. \E s \in C : \A u \in C : Dist(cur, s) <= Dist(cur, u)
  BY <1>4
<1>6. Pickup(cur, st) \in C /\ \A u \in C : Dist(cur, Pickup(cur, st)) <= Dist(cur, u)
  BY <1>1, <1>2, <1>5 DEF Pickup
<1> QED
  BY <1>2, <1>6

\* A search from slot 0 returns the first of the slots it looks for.
LEMMA FirstProps ==
    ASSUME NEW S \in SUBSET Slots, S # {}
    PROVE  First(S) \in S /\ \A t \in S : First(S) <= t
<1>1. PICK m \in S : \A k \in S : m <= k
  BY LeastExists DEF Slots
<1> QED
  BY <1>1 DEF First

-----------------------------------------------------------------------------
(* The inductive invariant.                                                 *)

OnCpu == mode \in {"run", "spin", "wild"}

\* Somebody is current exactly when the scheduler has been started.
CurrentInv ==
    /\ OnCpu => g_current_proc \in Slots /\ state[g_current_proc] # "UNUSED"
    /\ ~OnCpu => g_current_proc = NULL

\* Slots fill from 0, so slot 0 is in use as soon as any is: with OneRunning this
\* is why the search after proc_exit, which sees only slot 0, finds it READY.
SlotZeroInv == \A s \in Slots : state[s] # "UNUSED" => state[0] # "UNUSED"

\* Free slots are blank; pids below next_pid have been given.
BlankInv ==
    /\ next_pid >= 1
    /\ \A s \in Slots : pid[s] < next_pid
    /\ \A s \in Slots : state[s] = "UNUSED" =>
          pid[s] = 0 /\ yields[s] = 0 /\ kstack[s] = NULL /\ pagetable[s] = NULL

\* The context of a live process keeps the stack it was created with.
StackInv ==
    mode # "panic_memory" =>
      \A s \in Slots : Live(s) => kstack[s] \in Nat /\ context[s].sp = kstack[s]

\* The loop counter of every live worker is right before the start, too.
CounterInv ==
    mode \in {"boot", "run"} =>
      \A s \in Slots :
        LET c == IF s = g_current_proc THEN regs ELSE Resumed(context[s])
        IN  Live(s) /\ c.s0 = "worker" => c.i = yields[s] /\ c.i <= WORK

MemoryInv ==
    /\ FREE_RAM <= next_paddr
    /\ mode # "panic_memory" => next_paddr <= FREE_RAM_END

IInv ==
    /\ TypeOK
    /\ CurrentInv
    /\ SlotZeroInv
    /\ BlankInv
    /\ StackInv
    /\ CounterInv
    /\ MemoryInv
    /\ OneRunning
    /\ CpuMatchesCurrent
    /\ PrivateResources
    /\ SchedulerNeverPanics

-----------------------------------------------------------------------------
(* Facts about the operators.                                               *)

\* A save and the restore that follows keep the stack and the body, and the loop
\* counter moves by the one iteration that the resumed process goes through.
LEMMA ResumedProps ==
    ASSUME NEW c \in Contexts
    PROVE  /\ NextIter(c) \in Contexts
           /\ Resumed(c) \in Contexts
           /\ Saved(c) \in Contexts
           /\ NextIter(c).sp = c.sp /\ Resumed(c).sp = c.sp /\ Saved(c).sp = c.sp
           /\ NextIter(c).s0 = c.s0 /\ Resumed(c).s0 = c.s0
           /\ Resumed(Saved(c)).s0 = c.s0
           /\ Resumed(Saved(c)).i = NextIter(c).i
           /\ c.s0 = "worker" => NextIter(c).i = c.i + 1
BY DEF Contexts, NextIter, Resumed, Saved

\* __init_proc_context puts the process on its own stack, before its first iteration.
LEMMA InitialProps ==
    ASSUME NEW p \in Nat, NEW entry \in ENTRIES
    PROVE  /\ InitialContext(p, entry) \in Contexts
           /\ InitialContext(p, entry).sp = p
           /\ Resumed(InitialContext(p, entry)).i = 0
BY DEF InitialContext, Contexts, Resumed

\* The table has a slot 0, and NULL is no slot.
LEMMA ZeroInSlots == 0 \in Slots /\ NULL \notin Slots
BY ProcAssumption DEF Slots

\* The 32-bit addition is exact for the requests that are made.
LEMMA AfterProps ==
    ASSUME next_paddr \in Nat, next_paddr <= FREE_RAM_END,
           NEW n \in Nat, n <= MAX_PAGES
    PROVE  After(n) = next_paddr + n
BY RamAssumption, SMTT(30) DEF After

\* The boot state satisfies the inductive invariant.
LEMMA InitIInv == Init => IInv
<1> SUFFICES ASSUME Init PROVE IInv
  OBVIOUS
<1> USE ProcAssumption, RamAssumption
<1>1. ZeroContext \in Contexts
  BY DEF ZeroContext, Contexts
<1>2. TypeOK
  BY <1>1 DEF Init, TypeOK, Modes
<1>3. CurrentInv /\ SlotZeroInv /\ BlankInv /\ MemoryInv
  BY DEF Init, CurrentInv, SlotZeroInv, BlankInv, MemoryInv, OnCpu
<1>4. StackInv /\ CounterInv /\ OneRunning /\ CpuMatchesCurrent /\ SchedulerNeverPanics
  BY DEF Init, StackInv, CounterInv, OneRunning, CpuMatchesCurrent, SchedulerNeverPanics, Live
<1>5. PrivateResources
  BY DEF Init, PrivateResources, Live
<1> QED
  BY <1>2, <1>3, <1>4, <1>5 DEF IInv

-----------------------------------------------------------------------------
(* One lemma per action.                                                    *)

\* proc_create with a slot and enough memory keeps the invariant.
LEMMA CreateStep ==
    ASSUME IInv, NEW entry \in ENTRIES, proc_create(entry)
    PROVE  IInv'
<1> DEFINE s == First(Unused)
<1> USE ProcAssumption, RamAssumption
<1>1. s \in Slots /\ state[s] = "UNUSED" /\ \A t \in Unused : s <= t
  BY FirstProps DEF proc_create, Unused
<1>2. g_current_proc = NULL /\ mode = "boot"
  BY DEF proc_create, IInv, CurrentInv, OnCpu
<1>3. /\ next_paddr \in Nat /\ next_paddr <= FREE_RAM_END
      /\ After(2 + MAP_PAGES) = next_paddr + 2 + MAP_PAGES
  BY <1>2, AfterProps DEF IInv, TypeOK, MemoryInv
<1>4. /\ next_paddr' = next_paddr + 2 + MAP_PAGES
      /\ next_paddr' <= FREE_RAM_END
      /\ FREE_RAM <= next_paddr
  BY <1>3 DEF proc_create, alloc_pages, OutOfMemory, IInv, MemoryInv
<1>5. /\ state' = [state EXCEPT ![s] = "READY"]
      /\ pid' = [pid EXCEPT ![s] = next_pid]
      /\ next_pid' = next_pid + 1
      /\ kstack' = [kstack EXCEPT ![s] = next_paddr]
      /\ pagetable' = [pagetable EXCEPT ![s] = next_paddr + 1]
      /\ context' = [context EXCEPT ![s] = InitialContext(next_paddr, entry)]
      /\ UNCHANGED <<g_current_proc, satp, sscratch, regs, mode, yields>>
  BY DEF proc_create, AllocSlot, hartVars
<1> HIDE DEF s
<1>6. InitialContext(next_paddr, entry) \in Contexts
  BY <1>3, InitialProps
<1>7. TypeOK'
  BY <1>1, <1>3, <1>4, <1>5, <1>6 DEF IInv, TypeOK
<1>8. CurrentInv'
  BY <1>2, <1>5 DEF CurrentInv, OnCpu
<1>9. SlotZeroInv'
  <2>1. state[0] = "UNUSED" => s = 0
    BY <1>1, ZeroInSlots DEF Unused, Slots
  <2>2. state'[0] # "UNUSED"
    BY <2>1, <1>1, <1>5, ZeroInSlots DEF IInv, TypeOK
  <2> QED
    BY <2>2 DEF SlotZeroInv
<1>10. BlankInv'
  BY <1>1, <1>5 DEF IInv, TypeOK, BlankInv
<1>11. StackInv'
  BY <1>1, <1>2, <1>3, <1>5, InitialProps DEF IInv, TypeOK, StackInv, Live
<1>12. CounterInv'
  <2> SUFFICES ASSUME NEW t \in Slots, pid'[t] # 0, Resumed(context'[t]).s0 = "worker"
               PROVE  Resumed(context'[t]).i = yields'[t] /\ Resumed(context'[t]).i <= WORK
    BY <1>2, <1>5, ZeroInSlots DEF CounterInv, Live
  <2>1. CASE t = s
    <3>1. context'[t] = InitialContext(next_paddr, entry) /\ yields'[t] = 0
      BY <2>1, <1>1, <1>5 DEF IInv, TypeOK, BlankInv
    <3> QED
      BY <3>1, <1>3, InitialProps
  <2>2. CASE t # s
    BY <2>2, <1>1, <1>2, <1>5, ZeroInSlots DEF IInv, TypeOK, CounterInv, Live
  <2> QED
    BY <2>1, <2>2
<1>13. MemoryInv'
  <2>1. next_paddr' \in Nat /\ next_paddr' >= next_paddr
    BY <1>3, <1>4
  <2>2. FREE_RAM <= next_paddr'
    BY <1>3, <1>4, <2>1
  <2> QED
    BY <1>4, <2>2 DEF MemoryInv
<1>14. OneRunning' /\ CpuMatchesCurrent' /\ SchedulerNeverPanics'
  BY <1>1, <1>2, <1>5 DEF IInv, TypeOK, OneRunning, CpuMatchesCurrent, SchedulerNeverPanics
<1>15. PrivateResources'
  <2>1. \A t \in Slots : t # s => pid'[t] = pid[t] /\ kstack'[t] = kstack[t] /\ pagetable'[t] = pagetable[t]
    BY <1>5 DEF IInv, TypeOK
  <2>2. pid'[s] = next_pid /\ kstack'[s] = next_paddr /\ pagetable'[s] = next_paddr + 1
    BY <1>1, <1>5 DEF IInv, TypeOK
  <2>3. \A t \in Slots : pid[t] < next_pid /\ pid[t] \in Nat
    BY DEF IInv, TypeOK, BlankInv
  <2>4. \A t \in Slots : /\ kstack[t] # NULL => kstack[t] \in Nat /\ FREE_RAM <= kstack[t] /\ kstack[t] < next_paddr
                         /\ pagetable[t] # NULL => pagetable[t] \in Nat /\ FREE_RAM <= pagetable[t] /\ pagetable[t] < next_paddr
    BY <1>3 DEF IInv, PrivateResources, TypeOK
  <2>5. \A t, u \in Slots : Live(t)' /\ Live(u)' /\ t # u =>
          /\ pid'[t] # pid'[u]
          /\ kstack'[t] # NULL => kstack'[t] # kstack'[u]
          /\ pagetable'[t] # NULL => pagetable'[t] \notin {pagetable'[u], kstack'[u]}
    BY <1>3, <2>1, <2>2, <2>3, <2>4 DEF IInv, PrivateResources, Live, TypeOK
  <2>6. \A t \in Slots : {kstack'[t], pagetable'[t]} \ {NULL} \subseteq FREE_RAM .. next_paddr' - 1
    BY <1>3, <1>4, <2>1, <2>2, <2>4
  <2> QED
    BY <1>4, <2>5, <2>6 DEF PrivateResources
<1> QED
  BY <1>7, <1>8, <1>9, <1>10, <1>11, <1>12, <1>13, <1>14, <1>15 DEF IInv

\* A step that ends the boot in a panic without touching the process table.
LEMMA GiveUpStep ==
    ASSUME IInv, proc_create_no_slot \/ scheduler_start_empty
    PROVE  IInv'
<1>1. /\ mode = "boot" /\ g_current_proc = NULL
      /\ mode' \in {"panic_slots", "panic_start"}
      /\ UNCHANGED <<state, pid, context, kstack, pagetable, g_current_proc, next_pid,
                     next_paddr, satp, sscratch, regs, yields>>
  BY DEF proc_create_no_slot, scheduler_start_empty, procVars, hartVars, IInv, CurrentInv, OnCpu
<1>2. TypeOK' /\ CurrentInv'
  BY <1>1 DEF IInv, TypeOK, CurrentInv, OnCpu, Modes, Panics
<1>3. SlotZeroInv' /\ BlankInv' /\ MemoryInv' /\ OneRunning'
  BY <1>1 DEF IInv, SlotZeroInv, BlankInv, MemoryInv, OneRunning
<1>4. StackInv' /\ CounterInv' /\ CpuMatchesCurrent' /\ SchedulerNeverPanics'
  BY <1>1 DEF IInv, StackInv, CounterInv, CpuMatchesCurrent, SchedulerNeverPanics, Live
<1>5. PrivateResources'
  BY <1>1 DEF IInv, PrivateResources, Live
<1> QED
  BY <1>2, <1>3, <1>4, <1>5 DEF IInv

\* A proc_create that runs out of memory keeps the invariant.
LEMMA NoMemoryStep ==
    ASSUME IInv, proc_create_no_memory
    PROVE  IInv'
<1> DEFINE s == First(Unused)
           k == IF OutOfMemory(1) THEN NULL ELSE next_paddr
<1> USE ProcAssumption, RamAssumption
<1>1. s \in Slots /\ state[s] = "UNUSED" /\ \A t \in Unused : s <= t
  BY FirstProps DEF proc_create_no_memory, Unused
<1>2. g_current_proc = NULL /\ mode = "boot"
  BY DEF proc_create_no_memory, IInv, CurrentInv, OnCpu
<1>3. /\ next_paddr \in Nat /\ FREE_RAM <= next_paddr /\ next_paddr <= FREE_RAM_END
      /\ After(1) = next_paddr + 1
  BY <1>2, AfterProps DEF IInv, TypeOK, MemoryInv
<1>4. /\ state' = [state EXCEPT ![s] = "READY"]
      /\ pid' = [pid EXCEPT ![s] = next_pid]
      /\ next_pid' = next_pid + 1
      /\ kstack' = [kstack EXCEPT ![s] = k]
      /\ next_paddr' = FREE_RAM_END + 1
      /\ mode' = "panic_memory"
      /\ UNCHANGED <<context, pagetable, g_current_proc, satp, sscratch, regs, yields>>
  BY DEF proc_create_no_memory, AllocSlot, alloc_panics, hartVars
<1>5. k = NULL \/ (k = next_paddr /\ k \in Nat /\ k + 1 <= FREE_RAM_END)
  <2>1. CASE OutOfMemory(1)
    BY <2>1
  <2>2. CASE ~OutOfMemory(1)
    <3>1. next_paddr + 1 <= FREE_RAM_END
      BY <1>3, <2>2 DEF OutOfMemory
    <3> QED
      BY <1>3, <2>2, <3>1
  <2> QED
    BY <2>1, <2>2
<1> HIDE DEF s, k
<1>6. TypeOK'
  BY <1>1, <1>3, <1>4, <1>5 DEF IInv, TypeOK, Modes, Panics
<1>7. CurrentInv'
  BY <1>2, <1>4 DEF CurrentInv, OnCpu
<1>8. SlotZeroInv'
  <2>1. state[0] = "UNUSED" => s = 0
    BY <1>1, ZeroInSlots DEF Unused, Slots
  <2>2. state'[0] # "UNUSED"
    BY <2>1, <1>1, <1>4, ZeroInSlots DEF IInv, TypeOK
  <2> QED
    BY <2>2 DEF SlotZeroInv
<1>9. BlankInv'
  BY <1>1, <1>4 DEF IInv, TypeOK, BlankInv
<1>10. StackInv' /\ CounterInv' /\ MemoryInv'
  BY <1>3, <1>4 DEF StackInv, CounterInv, MemoryInv
<1>11. OneRunning' /\ CpuMatchesCurrent' /\ SchedulerNeverPanics'
  BY <1>1, <1>2, <1>4 DEF IInv, TypeOK, OneRunning, CpuMatchesCurrent, SchedulerNeverPanics
<1>12. PrivateResources'
  <2>1. \A t \in Slots : t # s => pid'[t] = pid[t] /\ kstack'[t] = kstack[t] /\ pagetable'[t] = pagetable[t]
    BY <1>4 DEF IInv, TypeOK
  <2>2. /\ pid'[s] = next_pid /\ pagetable'[s] = NULL
        /\ kstack'[s] = NULL \/ (kstack'[s] = next_paddr /\ next_paddr < FREE_RAM_END)
    BY <1>1, <1>3, <1>4, <1>5 DEF IInv, TypeOK, BlankInv
  <2>3. \A t \in Slots : pid[t] < next_pid /\ pid[t] \in Nat
    BY DEF IInv, TypeOK, BlankInv
  <2>4. \A t \in Slots : /\ kstack[t] # NULL => kstack[t] \in Nat /\ FREE_RAM <= kstack[t] /\ kstack[t] < next_paddr
                         /\ pagetable[t] # NULL => pagetable[t] \in Nat /\ FREE_RAM <= pagetable[t] /\ pagetable[t] < next_paddr
    BY <1>3 DEF IInv, PrivateResources, TypeOK
  <2>5. \A t, u \in Slots : Live(t)' /\ Live(u)' /\ t # u =>
          /\ pid'[t] # pid'[u]
          /\ kstack'[t] # NULL => kstack'[t] # kstack'[u]
          /\ pagetable'[t] # NULL => pagetable'[t] \notin {pagetable'[u], kstack'[u]}
    BY <1>3, <2>1, <2>2, <2>3, <2>4 DEF IInv, PrivateResources, Live, TypeOK
  <2>6. \A t \in Slots : {kstack'[t], pagetable'[t]} \ {NULL} \subseteq FREE_RAM .. next_paddr' - 1
    BY <1>3, <1>4, <2>1, <2>2, <2>4
  <2> QED
    BY <1>4, <2>5, <2>6 DEF PrivateResources
<1> QED
  BY <1>6, <1>7, <1>8, <1>9, <1>10, <1>11, <1>12 DEF IInv

\* scheduler_start keeps the invariant.
LEMMA StartStep ==
    ASSUME IInv, scheduler_start
    PROVE  IInv'
<1> DEFINE ready == {s \in Slots : state[s] = "READY"}
           next == First(ready)
<1> USE ProcAssumption
<1>1. next \in Slots /\ state[next] = "READY"
  BY FirstProps DEF scheduler_start
<1>2. g_current_proc = NULL /\ mode = "boot"
  BY DEF scheduler_start, IInv, CurrentInv, OnCpu
<1>3. /\ g_current_proc' = next
      /\ state' = [state EXCEPT ![next] = "RUNNING"]
      /\ satp' = pagetable[next]
      /\ sscratch' = kstack[next]
      /\ regs' = Resumed(context[next])
      /\ mode' = "run"
      /\ UNCHANGED <<pid, context, kstack, pagetable, next_pid, next_paddr, yields>>
  BY DEF scheduler_start
<1> HIDE DEF next
<1>4. /\ regs' \in Contexts
      /\ regs'.sp = context[next].sp
  BY <1>1, <1>3, ResumedProps DEF IInv, TypeOK
<1>5. TypeOK'
  BY <1>1, <1>3, <1>4 DEF IInv, TypeOK, Modes
<1>6. CurrentInv' /\ SlotZeroInv' /\ BlankInv' /\ MemoryInv'
  BY <1>1, <1>2, <1>3, ZeroInSlots
     DEF IInv, TypeOK, CurrentInv, OnCpu, SlotZeroInv, BlankInv, MemoryInv
<1>7. StackInv' /\ SchedulerNeverPanics'
  BY <1>2, <1>3 DEF IInv, StackInv, SchedulerNeverPanics, Live
<1>8. CounterInv'
  BY <1>1, <1>2, <1>3, ZeroInSlots DEF IInv, CounterInv, Live
<1>9. OneRunning'
  BY <1>1, <1>2, <1>3, ZeroInSlots DEF IInv, TypeOK, OneRunning
<1>10. CpuMatchesCurrent'
  BY <1>1, <1>2, <1>3, <1>4 DEF IInv, StackInv, CpuMatchesCurrent, Live
<1>11. PrivateResources'
  BY <1>2, <1>3 DEF IInv, PrivateResources, Live, MemoryInv
<1> QED
  BY <1>5, <1>6, <1>7, <1>8, <1>9, <1>10, <1>11 DEF IInv

-----------------------------------------------------------------------------
(* yield: the search finds somebody, at worst the caller, so __schedule never *)
(* panics.                                                                    *)

\* What a yield by the process in slot cur does.
Stays(cur) ==
    /\ state' = [state EXCEPT ![cur] = "READY"]
    /\ regs' = NextIter(regs)
    /\ UNCHANGED <<context, g_current_proc, satp, sscratch, mode>>

Switches(cur, next) ==
    /\ next \in Slots /\ next # cur /\ state[next] = "READY"
    /\ \A u \in Slots : state[u] = "READY" => Dist(cur, next) <= Dist(cur, u)
    /\ g_current_proc' = next
    /\ state' = [state EXCEPT ![cur] = "READY", ![next] = "RUNNING"]
    /\ satp' = pagetable[next]
    /\ sscratch' = kstack[next]
    /\ regs' = Resumed(context[next])
    /\ context' = [context EXCEPT ![cur] = Saved(regs)]
    /\ mode' = IF pid[next] = 0 /\ context[next].ra = "__schedule" THEN "wild" ELSE mode

\* yield has two outcomes: the process goes on because nobody else is READY, or the
\* nearest READY process gets the CPU.  The panic in __schedule is not one of them.
LEMMA YieldCases ==
    ASSUME IInv, mode = "run", yield
    PROVE  /\ g_current_proc \in Slots /\ state[g_current_proc] # "UNUSED"
           /\ UNCHANGED <<kstack, pid>>
           /\ \/ Stays(g_current_proc)
              \/ \E next \in Slots : Switches(g_current_proc, next)
<1> DEFINE cur == g_current_proc
           st == [state EXCEPT ![cur] = "READY"]
           next == Pickup(cur, st)
<1>1. cur \in Slots /\ state[cur] # "UNUSED"
  BY DEF IInv, CurrentInv, OnCpu
<1>2. st[cur] = "READY" /\ \A u \in Slots : u # cur => st[u] = state[u]
  BY <1>1 DEF IInv, TypeOK
<1>3. /\ next \in Slots /\ st[next] = "READY"
      /\ \A u \in Slots : st[u] = "READY" => Dist(cur, next) <= Dist(cur, u)
  BY <1>1, <1>2, NearestReady
<1>4. next # NULL
  BY <1>3, ZeroInSlots
<1>5. UNCHANGED <<kstack, pid>>
  BY DEF yield
<1>6. \/ /\ next = cur /\ state' = st /\ regs' = NextIter(regs)
         /\ UNCHANGED <<context, g_current_proc, satp, sscratch, mode>>
      \/ /\ next # cur /\ Dispatch(next, st)
         /\ context' = [context EXCEPT ![cur] = Saved(regs)]
  BY <1>4 DEF yield
<1> HIDE DEF next
<1>7. CASE /\ next = cur /\ state' = st /\ regs' = NextIter(regs)
           /\ UNCHANGED <<context, g_current_proc, satp, sscratch, mode>>
  BY <1>1, <1>5, <1>7 DEF Stays
<1>8. CASE /\ next # cur /\ Dispatch(next, st)
           /\ context' = [context EXCEPT ![cur] = Saved(regs)]
  <2>1. state[next] = "READY"
    BY <1>2, <1>3, <1>8
  <2>2. \A u \in Slots : state[u] = "READY" => Dist(cur, next) <= Dist(cur, u)
    BY <1>2, <1>3
  <2>3. state' = [state EXCEPT ![cur] = "READY", ![next] = "RUNNING"]
    BY <1>8 DEF Dispatch
  <2>4. Switches(cur, next)
    BY <1>3, <1>5, <1>8, <2>1, <2>2, <2>3 DEF Dispatch, Switches
  <2> QED
    BY <1>1, <1>3, <1>5, <2>4
<1> QED
  BY <1>6, <1>7, <1>8

\* A yield of either body.
Yielded ==
    \/ /\ regs.s0 = "worker" /\ regs.i < WORK
       /\ yields' = [yields EXCEPT ![g_current_proc] = @ + 1]
    \/ regs.s0 # "worker" /\ yields' = yields

\* A yield by either body keeps the invariant.
LEMMA YieldStep ==
    ASSUME IInv, mode = "run", yield, Yielded, UNCHANGED <<pagetable, next_pid, next_paddr>>
    PROVE  IInv'
<1> DEFINE cur == g_current_proc
<1> USE ProcAssumption
<1>1. cur \in Slots /\ state[cur] # "UNUSED" /\ UNCHANGED <<kstack, pid>>
  BY YieldCases
<1>2. /\ yields' \in [Slots -> Nat]
      /\ \A s \in Slots : s # cur => yields'[s] = yields[s]
      /\ regs.s0 = "worker" => yields'[cur] = yields[cur] + 1 /\ regs.i < WORK
  BY <1>1 DEF Yielded, IInv, TypeOK
<1>3. regs \in Contexts /\ NextIter(regs) \in Contexts /\ Saved(regs) \in Contexts
  BY ResumedProps DEF IInv, TypeOK
<1>4. Live(cur) => /\ regs.sp = kstack[cur] /\ satp = pagetable[cur] /\ sscratch = kstack[cur]
                   /\ kstack[cur] \in Nat /\ context[cur].sp = kstack[cur]
                   /\ regs.s0 = "worker" => regs.i = yields[cur]
  BY <1>1 DEF IInv, CpuMatchesCurrent, StackInv, CounterInv
<1>5. CASE Stays(cur)
  <2>1. TypeOK'
    BY <1>1, <1>2, <1>3, <1>5 DEF IInv, TypeOK, Stays
  <2>2. CurrentInv' /\ SlotZeroInv' /\ MemoryInv' /\ OneRunning'
    BY <1>1, <1>5, ZeroInSlots
       DEF IInv, TypeOK, Stays, CurrentInv, OnCpu, SlotZeroInv, MemoryInv, OneRunning
  <2>3. BlankInv'
    BY <1>1, <1>2, <1>5 DEF IInv, TypeOK, Stays, BlankInv
  <2>4. StackInv' /\ SchedulerNeverPanics'
    BY <1>1, <1>5 DEF IInv, Stays, StackInv, SchedulerNeverPanics, Live
  <2>5. CounterInv'
    <3> SUFFICES ASSUME NEW s \in Slots, Live(s)
                 PROVE  LET c == IF s = cur THEN regs' ELSE Resumed(context[s])
                        IN  c.s0 = "worker" => c.i = yields'[s] /\ c.i <= WORK
      BY <1>1, <1>5 DEF CounterInv, Stays, Live
    <3>1. CASE s = cur
      <4>1. regs'.s0 = regs.s0 /\ (regs.s0 = "worker" => regs'.i = regs.i + 1)
        BY <1>5, <1>3, ResumedProps DEF Stays
      <4>2. regs.i \in Nat
        BY <1>3 DEF Contexts
      <4> QED
        BY <3>1, <1>2, <1>4, <4>1, <4>2
    <3>2. CASE s # cur
      BY <3>2, <1>2 DEF IInv, CounterInv
    <3> QED
      BY <3>1, <3>2
  <2>6. CpuMatchesCurrent'
    <3>1. regs'.sp = regs.sp
      BY <1>5, <1>3, ResumedProps DEF Stays
    <3> QED
      BY <3>1, <1>1, <1>4, <1>5 DEF Stays, CpuMatchesCurrent, Live, IInv
  <2>7. PrivateResources'
    BY <1>1, <1>5 DEF IInv, Stays, PrivateResources, Live
  <2> QED
    BY <2>1, <2>2, <2>3, <2>4, <2>5, <2>6, <2>7 DEF IInv
<1>6. ASSUME NEW next \in Slots, Switches(cur, next)
      PROVE  IInv'
  <2>1. /\ next # cur /\ state[next] = "READY"
        /\ g_current_proc' = next
        /\ state' = [state EXCEPT ![cur] = "READY", ![next] = "RUNNING"]
        /\ satp' = pagetable[next] /\ sscratch' = kstack[next]
        /\ regs' = Resumed(context[next])
        /\ context' = [context EXCEPT ![cur] = Saved(regs)]
        /\ mode' = IF pid[next] = 0 /\ context[next].ra = "__schedule" THEN "wild" ELSE mode
    BY <1>6 DEF Switches
  <2>2. mode' \in {"run", "wild"} /\ (Live(next) => mode' = "run")
    BY <2>1 DEF Live
  <2>3. regs' \in Contexts /\ regs'.sp = context[next].sp
    BY <1>6, <2>1, ResumedProps DEF IInv, TypeOK
  <2>4. /\ context'[cur] = Saved(regs) /\ context'[cur].sp = regs.sp
        /\ \A s \in Slots : s # cur => context'[s] = context[s]
    BY <1>1, <1>3, <2>1, ResumedProps DEF IInv, TypeOK
  <2>5. TypeOK'
    BY <1>1, <1>2, <1>3, <1>6, <2>1, <2>2, <2>3 DEF IInv, TypeOK, Modes
  <2>6. CurrentInv' /\ SlotZeroInv' /\ MemoryInv' /\ OneRunning'
    BY <1>1, <1>6, <2>1, <2>2, ZeroInSlots
       DEF IInv, TypeOK, CurrentInv, OnCpu, SlotZeroInv, MemoryInv, OneRunning
  <2>7. BlankInv'
    BY <1>1, <1>2, <1>6, <2>1 DEF IInv, TypeOK, BlankInv
  <2>8. StackInv' /\ SchedulerNeverPanics'
    BY <1>1, <1>4, <2>2, <2>4 DEF IInv, StackInv, SchedulerNeverPanics, Live
  <2>9. CounterInv'
    <3> SUFFICES ASSUME NEW s \in Slots, Live(s)
                 PROVE  LET c == IF s = next THEN regs' ELSE Resumed(context'[s])
                        IN  c.s0 = "worker" => c.i = yields'[s] /\ c.i <= WORK
      BY <1>1, <2>1 DEF CounterInv, Live
    <3>1. CASE s = cur
      <4>1. /\ Resumed(context'[cur]).s0 = regs.s0
            /\ regs.s0 = "worker" => Resumed(context'[cur]).i = regs.i + 1
        BY <1>3, <2>4, ResumedProps
      <4>2. regs.i \in Nat
        BY <1>3 DEF Contexts
      <4> QED
        BY <3>1, <1>2, <1>4, <2>1, <4>1, <4>2
    <3>2. CASE s # cur
      BY <3>2, <1>2, <2>1, <2>4 DEF IInv, CounterInv
    <3> QED
      BY <3>1, <3>2
  <2>10. CpuMatchesCurrent'
    BY <1>1, <1>6, <2>1, <2>3 DEF IInv, StackInv, CpuMatchesCurrent, Live
  <2>11. PrivateResources'
    BY <1>1, <2>2 DEF IInv, PrivateResources, Live, MemoryInv
  <2> QED
    BY <2>5, <2>6, <2>7, <2>8, <2>9, <2>10, <2>11 DEF IInv
<1> QED
  BY <1>5, <1>6, YieldCases

-----------------------------------------------------------------------------
(* proc_exit: the search without a current process sees only slot 0, and    *)
(* finds it READY.                                                          *)

\* proc_exit keeps the invariant: slot 0 is READY then, and gets the CPU.
LEMMA ExitStep ==
    ASSUME IInv, mode = "run", proc_exit,
           yields' = [yields EXCEPT ![g_current_proc] = 0],
           UNCHANGED <<pagetable, next_pid, next_paddr>>
    PROVE  IInv'
<1> DEFINE cur == g_current_proc
           st == [state EXCEPT ![cur] = ExitState]
<1> USE ProcAssumption
<1>1. cur \in Slots /\ state[cur] # "UNUSED" /\ 0 \in Slots /\ NULL \notin Slots
  BY ZeroInSlots DEF IInv, CurrentInv, OnCpu
<1>2. st[0] = "READY"
  <2>1. state[0] # "UNUSED"
    BY <1>1 DEF IInv, SlotZeroInv
  <2>2. 0 # cur => state[0] # "RUNNING"
    BY <1>1 DEF IInv, OneRunning
  <2> QED
    BY <1>1, <2>1, <2>2 DEF IInv, TypeOK, ExitState
<1>3. Pickup(NULL, st) = 0
  BY <1>1, <1>2 DEF Pickup, Candidates
<1>4. Pickup(NULL, st) # NULL
  BY <1>1, <1>3
<1>5. /\ kstack' = [kstack EXCEPT ![cur] = NULL]
      /\ pid' = [pid EXCEPT ![cur] = 0]
      /\ context' = context
      /\ Dispatch(0, st)
  BY <1>3, <1>4 DEF proc_exit
<1>6. /\ g_current_proc' = 0
      /\ state' = [state EXCEPT ![cur] = "READY", ![0] = "RUNNING"]
      /\ satp' = pagetable[0] /\ sscratch' = kstack'[0]
      /\ regs' = Resumed(context[0])
      /\ mode' = IF pid'[0] = 0 /\ context[0].ra = "__schedule" THEN "wild" ELSE mode
  BY <1>5 DEF Dispatch, ExitState
<1>7. mode' \in {"run", "wild"}
  BY <1>6
<1>8. regs' \in Contexts /\ regs'.sp = context[0].sp
  BY <1>1, <1>6, ResumedProps DEF IInv, TypeOK
<1>9. /\ pid'[cur] = 0 /\ kstack'[cur] = NULL
      /\ \A s \in Slots : s # cur => /\ pid'[s] = pid[s] /\ kstack'[s] = kstack[s]
                                     /\ yields'[s] = yields[s]
  BY <1>1, <1>5 DEF IInv, TypeOK
<1>10. TypeOK'
  BY <1>1, <1>5, <1>6, <1>7, <1>8 DEF IInv, TypeOK, Modes
<1>11. CurrentInv' /\ SlotZeroInv' /\ MemoryInv' /\ OneRunning'
  BY <1>1, <1>6, <1>7
     DEF IInv, TypeOK, CurrentInv, OnCpu, SlotZeroInv, MemoryInv, OneRunning
<1>12. BlankInv'
  BY <1>1, <1>5, <1>6 DEF IInv, TypeOK, BlankInv
<1>13. StackInv' /\ SchedulerNeverPanics'
  BY <1>1, <1>5, <1>7, <1>9 DEF IInv, StackInv, SchedulerNeverPanics, Live
<1>14. CounterInv'
  <2> SUFFICES ASSUME NEW s \in Slots, pid'[s] # 0
               PROVE  LET c == IF s = 0 THEN regs' ELSE Resumed(context[s])
                      IN  c.s0 = "worker" => c.i = yields'[s] /\ c.i <= WORK
    BY <1>5, <1>6 DEF CounterInv, Live
  <2>1. s # cur /\ Live(s) /\ yields'[s] = yields[s]
    BY <1>9 DEF Live
  <2> QED
    BY <2>1, <1>6 DEF IInv, CounterInv
<1>15. CpuMatchesCurrent'
  BY <1>1, <1>6, <1>7, <1>8, <1>9 DEF IInv, StackInv, CpuMatchesCurrent, Live
<1>16. PrivateResources'
  BY <1>1, <1>7, <1>9 DEF IInv, PrivateResources, Live, MemoryInv
<1> QED
  BY <1>10, <1>11, <1>12, <1>13, <1>14, <1>15, <1>16 DEF IInv

\* A user process that exits spins and changes nothing.
LEMMA UserExitStep ==
    ASSUME IInv, user_exit
    PROVE  IInv'
<1>1. /\ mode = "run" /\ mode' = "spin"
      /\ UNCHANGED <<state, pid, context, kstack, pagetable, g_current_proc, next_pid,
                     next_paddr, satp, sscratch, regs, yields>>
  BY DEF user_exit, procVars, hartVars
<1>2. TypeOK' /\ CurrentInv'
  BY <1>1 DEF IInv, TypeOK, CurrentInv, OnCpu, Modes
<1>3. SlotZeroInv' /\ BlankInv' /\ MemoryInv' /\ OneRunning'
  BY <1>1 DEF IInv, SlotZeroInv, BlankInv, MemoryInv, OneRunning
<1>4. StackInv' /\ CounterInv' /\ CpuMatchesCurrent' /\ SchedulerNeverPanics'
  BY <1>1 DEF IInv, StackInv, CounterInv, CpuMatchesCurrent, SchedulerNeverPanics, Live
<1>5. PrivateResources'
  BY <1>1 DEF IInv, PrivateResources, Live, MemoryInv
<1> QED
  BY <1>2, <1>3, <1>4, <1>5 DEF IInv

\* A halted system changes nothing.
LEMMA StutterStep ==
    ASSUME IInv, UNCHANGED vars
    PROVE  IInv'
<1> USE DEF vars, procVars, hartVars
<1>1. TypeOK' /\ CurrentInv' /\ SlotZeroInv' /\ BlankInv' /\ MemoryInv' /\ OneRunning'
  BY DEF IInv, TypeOK, CurrentInv, OnCpu, SlotZeroInv, BlankInv, MemoryInv, OneRunning
<1>2. StackInv' /\ CounterInv' /\ CpuMatchesCurrent' /\ SchedulerNeverPanics'
  BY DEF IInv, StackInv, CounterInv, CpuMatchesCurrent, SchedulerNeverPanics, Live
<1>3. PrivateResources'
  BY DEF IInv, PrivateResources, Live
<1> QED
  BY <1>1, <1>2, <1>3 DEF IInv

\* Every step keeps the invariant.
LEMMA NextIInv == IInv /\ [Next]_vars => IInv'
<1> SUFFICES ASSUME IInv, [Next]_vars
             PROVE  IInv'
  OBVIOUS
<1>1. CASE \E entry \in ENTRIES : proc_create(entry)
  BY <1>1, CreateStep
<1>2. CASE proc_create_no_slot \/ scheduler_start_empty
  BY <1>2, GiveUpStep
<1>3. CASE proc_create_no_memory
  BY <1>3, NoMemoryStep
<1>4. CASE scheduler_start
  BY <1>4, StartStep
<1>5. CASE worker_yield
  BY <1>5, YieldStep DEF worker_yield, Yielded
<1>6. CASE worker_return
  BY <1>6, ExitStep DEF worker_return
<1>7. CASE user_yield
  BY <1>7, YieldStep DEF user_yield, Yielded
<1>8. CASE user_exit
  BY <1>8, UserExitStep
<1>9. CASE Halted \/ UNCHANGED vars
  BY <1>9, StutterStep DEF Halted
<1> QED
  BY <1>1, <1>2, <1>3, <1>4, <1>5, <1>6, <1>7, <1>8, <1>9 DEF Next

-----------------------------------------------------------------------------
(* The theorems.                                                            *)

\* The inductive invariant holds in every reachable state of kernel/proc.c.
THEOREM Invariance == Spec => []IInv
BY InitIInv, NextIInv, PTL DEF Spec

\* Every variable of the process table and the hart keeps its type.
THEOREM TypeCorrect == Spec => []TypeOK
<1>1. IInv => TypeOK
  BY DEF IInv
<1> QED
  BY <1>1, Invariance, PTL

\* At most one process is RUNNING, and it is the current one, whatever the
\* sequence of creations, yields and exits.
THEOREM OneRunningHolds == Spec => []OneRunning
<1>1. IInv => OneRunning
  BY DEF IInv
<1> QED
  BY <1>1, Invariance, PTL

\* satp, sscratch and sp always belong to the current process.
THEOREM CpuMatchesCurrentHolds == Spec => []CpuMatchesCurrent
<1>1. IInv => CpuMatchesCurrent
  BY DEF IInv
<1> QED
  BY <1>1, Invariance, PTL

\* Pids, kernel stacks and page tables of live processes are never shared.
THEOREM PrivateResourcesHolds == Spec => []PrivateResources
<1>1. IInv => PrivateResources
  BY DEF IInv
<1> QED
  BY <1>1, Invariance, PTL

\* A process finds its loop counter as it left it.
THEOREM ContextIntegrityHolds == Spec => []ContextIntegrity
<1>1. IInv => ContextIntegrity
  BY DEF IInv, CounterInv, ContextIntegrity
<1> QED
  BY <1>1, Invariance, PTL

\* __schedule never panics once the scheduler has been started, for any number of
\* slots and processes.
THEOREM SchedulerNeverPanicsHolds == Spec => []SchedulerNeverPanics
<1>1. IInv => SchedulerNeverPanics
  BY DEF IInv
<1> QED
  BY <1>1, Invariance, PTL

\* Every switch by yield brings each waiting process closer to its turn, so with
\* PROC_MAX slots nobody is overtaken more than PROC_MAX - 1 times.
THEOREM RoundRobinHolds == Spec => RoundRobin
<1>1. ASSUME IInv, [Next]_vars
      PROVE  RoundRobinStep
  <2> USE ProcAssumption
  <2> SUFFICES ASSUME g_current_proc \in Slots, g_current_proc' # g_current_proc,
                      pid'[g_current_proc] # 0, NEW s \in Slots, state[s] = "READY",
                      s # g_current_proc, s # g_current_proc'
               PROVE  Dist(g_current_proc', s) < Dist(g_current_proc, s)
    BY DEF RoundRobinStep
  <2>1. mode # "boot"
    BY <1>1, ZeroInSlots DEF IInv, CurrentInv, OnCpu
  <2>2. CASE mode = "run" /\ yield
    <3>1. PICK next \in Slots : Switches(g_current_proc, next)
      BY <1>1, <2>2, YieldCases DEF Stays
    <3>2. /\ next = g_current_proc'
          /\ Dist(g_current_proc, next) <= Dist(g_current_proc, s)
      BY <3>1 DEF Switches
    <3> QED
      BY <3>1, <3>2, DistShrinks DEF Switches
  <2>3. CASE worker_return
    <3>1. pid' = [pid EXCEPT ![g_current_proc] = 0]
      BY <2>3 DEF worker_return, proc_exit
    <3> QED
      BY <1>1, <3>1 DEF IInv, TypeOK
  <2>4. CASE user_exit \/ Halted \/ UNCHANGED vars
    BY <2>4 DEF user_exit, Halted, vars
  <2> QED
    BY <1>1, <2>1, <2>2, <2>3, <2>4
       DEF Next, proc_create, proc_create_no_slot, proc_create_no_memory, scheduler_start,
           scheduler_start_empty, worker_yield, user_yield
<1> QED
  BY <1>1, Invariance, PTL DEF Spec, RoundRobin
-----------------------------------------------------------------------------
(* Processes that never exit take turns: Proc implements Rotation.          *)

\* Slots fill from 0 and are never given back; in the table of a kernel that boots or runs
\* a slot in use has a live process, and nobody is resumed that has exited.
TurnInv ==
    /\ \E n \in 0 .. PROC_MAX : Created = 0 .. n - 1
    /\ mode \in {"boot", "run"} => \A s \in Slots : state[s] # "UNUSED" <=> s \in Created
    /\ mode \in {"boot", "run"} => \A s \in Created : Live(s)
    /\ mode # "wild"

\* The queue that ProcRotation reads off the table, for any set of slots and current process.
PlaceFrom(cur, s) == IF cur = NULL THEN s ELSE IF s = cur THEN 0 ELSE Dist(cur, s)

QueueFrom(slots, cur) ==
    [k \in 1 .. Cardinality(slots) |->
       CHOOSE s \in slots :
         Cardinality({t \in slots : PlaceFrom(cur, t) < PlaceFrom(cur, s)}) = k - 1]

LEMMA QueueIs == Queue = QueueFrom(Created, g_current_proc)
BY DEF Queue, QueueFrom, Ahead, Place, PlaceFrom

LEMMA QueueIsNext == Queue' = QueueFrom(Created', g_current_proc')
BY DEF Queue, QueueFrom, Ahead, Place, PlaceFrom

\* Among the slots 0 .. n - 1, from c on: the one that comes k-th, and how many come before s.
SlotAt(c, n, k) == IF c + k - 1 < n THEN c + k - 1 ELSE c + k - 1 - n
Before(c, n, s) == IF s >= c THEN s - c ELSE s + n - c

LEMMA TurnProps ==
    ASSUME NEW n \in Nat, NEW c \in 0 .. n - 1
    PROVE  /\ \A k \in 1 .. n : SlotAt(c, n, k) \in 0 .. n - 1 /\ Before(c, n, SlotAt(c, n, k)) = k - 1
           /\ \A s \in 0 .. n - 1 : Before(c, n, s) \in 0 .. n - 1 /\ SlotAt(c, n, Before(c, n, s) + 1) = s
BY DEF SlotAt, Before

\* The slot the search starts from when c is current, or nobody is.
Starts(cur, n) == IF cur = NULL THEN 0 ELSE cur

\* The circular search meets the slots in use in that order, and passes over the others.
LEMMA PlaceOrder ==
    ASSUME NEW n \in 1 .. PROC_MAX, NEW cur \in 0 .. n - 1 \union {NULL},
           NEW s \in 0 .. n - 1, NEW t \in 0 .. n - 1
    PROVE  /\ Starts(cur, n) \in 0 .. n - 1
           /\ PlaceFrom(cur, t) < PlaceFrom(cur, s)
                <=> Before(Starts(cur, n), n, t) < Before(Starts(cur, n), n, s)
<1> USE ProcAssumption
<1>1. CASE cur = NULL
  BY <1>1 DEF Starts, PlaceFrom, Before
<1>2. CASE cur \in 0 .. n - 1
  BY <1>2 DEF Starts, PlaceFrom, Before, Dist
<1> QED
  BY <1>1, <1>2

\* So many slots come before a slot.
LEMMA BeforeCounts ==
    ASSUME NEW n \in Nat, NEW c \in 0 .. n - 1, NEW s \in 0 .. n - 1
    PROVE  Cardinality({t \in 0 .. n - 1 : Before(c, n, t) < Before(c, n, s)}) = Before(c, n, s)
<1> DEFINE b == Before(c, n, s)
           E == {t \in 0 .. n - 1 : Before(c, n, t) < b}
           f == [k \in 1 .. b |-> SlotAt(c, n, k)]
<1>1. b \in 0 .. n - 1
  BY TurnProps
<1> HIDE DEF b
<1>2. \A k \in 1 .. b : k \in 1 .. n /\ f[k] \in E /\ Before(c, n, f[k]) = k - 1
  BY <1>1, TurnProps
<1>3. ASSUME NEW t \in E PROVE Before(c, n, t) + 1 \in 1 .. b /\ f[Before(c, n, t) + 1] = t
  <2>1. t \in 0 .. n - 1 /\ Before(c, n, t) < b
    OBVIOUS
  <2>2. Before(c, n, t) \in 0 .. n - 1 /\ SlotAt(c, n, Before(c, n, t) + 1) = t
    BY <2>1, TurnProps
  <2>3. Before(c, n, t) + 1 \in 1 .. b
    BY <1>1, <2>1, <2>2
  <2> QED
    BY <2>2, <2>3
<1>4. f \in [1 .. b -> E]
  BY <1>2
<1>5. \A j, k \in 1 .. b : f[j] = f[k] => j = k
  BY <1>2
<1> HIDE DEF f, E
<1>6. \A t \in E : \E k \in 1 .. b : f[k] = t
  BY <1>3
<1>7. f \in Bijection(1 .. b, E)
  BY <1>4, <1>5, <1>6, Fun_IsBij
<1> QED
  BY <1>1, <1>7, FS_CountingElements DEF ExistsBijection, E, b

\* With the slots 0 .. n - 1 in use the queue has them in their turns.
LEMMA QueueTurns ==
    ASSUME NEW n \in 1 .. PROC_MAX, NEW cur \in 0 .. n - 1 \union {NULL}
    PROVE  QueueFrom(0 .. n - 1, cur) = [k \in 1 .. n |-> SlotAt(Starts(cur, n), n, k)]
<1> DEFINE c == Starts(cur, n)
           C == 0 .. n - 1
           Ahd(s) == {t \in C : PlaceFrom(cur, t) < PlaceFrom(cur, s)}
<1>1. n \in Nat /\ 0 \in C
  BY ProcAssumption
<1>2. c \in C
  BY <1>1, PlaceOrder
<1>3. Cardinality(C) = n
  BY <1>1, FS_Interval
<1>4. ASSUME NEW s \in C PROVE Cardinality(Ahd(s)) = Before(c, n, s)
  <2>1. Ahd(s) = {t \in C : Before(c, n, t) < Before(c, n, s)}
    BY PlaceOrder
  <2> QED
    BY <1>1, <1>2, <2>1, BeforeCounts
<1> HIDE DEF c, C, Ahd
<1>5. ASSUME NEW k \in 1 .. n
      PROVE  (CHOOSE s \in C : Cardinality(Ahd(s)) = k - 1) = SlotAt(c, n, k)
  <2>1. SlotAt(c, n, k) \in C /\ Before(c, n, SlotAt(c, n, k)) = k - 1
    BY <1>1, <1>2, TurnProps DEF C
  <2>2. \A s \in C : SlotAt(c, n, Before(c, n, s) + 1) = s
    BY <1>1, <1>2, TurnProps DEF C
  <2>3. \A s \in C : Before(c, n, s) = k - 1 => s = SlotAt(c, n, k)
    BY <1>1, <2>2
  <2> QED
    BY <1>4, <2>1, <2>3
<1>6. QueueFrom(C, cur) = [k \in 1 .. n |-> CHOOSE s \in C : Cardinality(Ahd(s)) = k - 1]
  BY <1>3 DEF QueueFrom, Ahd
<1> QED
  BY <1>5, <1>6 DEF C, c

\* With no slot in use it is empty.
LEMMA QueueEmpty ==
    ASSUME NEW cur
    PROVE  QueueFrom(0 .. 0 - 1, cur) = <<>>
<1>1. 0 .. 0 - 1 = {} /\ Cardinality({}) = 0
  BY FS_EmptySet
<1>2. 1 .. 0 = {}
  OBVIOUS
<1> QED
  BY <1>1, <1>2 DEF QueueFrom

\* While the kernel boots, which is before anybody is current, slots stand in their order.
LEMMA QueueAtBoot ==
    ASSUME NEW n \in 0 .. PROC_MAX
    PROVE  QueueFrom(0 .. n - 1, NULL) = [k \in 1 .. n |-> k - 1]
<1>1. CASE n = 0
  <2>1. 1 .. 0 = {}
    OBVIOUS
  <2> QED
    BY <1>1, <2>1, QueueEmpty
<1>2. CASE n # 0
  <2>1. n \in 1 .. PROC_MAX
    BY <1>2, ProcAssumption
  <2>2. QueueFrom(0 .. n - 1, NULL) = [k \in 1 .. n |-> SlotAt(Starts(NULL, n), n, k)]
    BY <2>1, QueueTurns
  <2>3. \A k \in 1 .. n : SlotAt(Starts(NULL, n), n, k) = k - 1
    BY <2>1 DEF SlotAt, Starts
  <2> QED
    BY <2>2, <2>3
<1> QED
  BY <1>1, <1>2

\* A turn later everybody has moved up by one, and the head is at the back.
LEMMA QueueRotates ==
    ASSUME NEW n \in Nat, NEW c \in 0 .. n - 1, n > 1
    PROVE  LET q == [k \in 1 .. n |-> SlotAt(c, n, k)]
           IN  [k \in 1 .. n |-> SlotAt(SlotAt(c, n, 2), n, k)] = Append(Tail(q), Head(q))
<1> DEFINE q == [k \in 1 .. n |-> SlotAt(c, n, k)]
           r == [k \in 1 .. n |-> SlotAt(SlotAt(c, n, 2), n, k)]
           a == Append(Tail(q), Head(q))
<1>1. \A k \in 1 .. n : SlotAt(c, n, k) \in Nat
  BY TurnProps
<1>2. q \in Seq(Nat) /\ Len(q) = n /\ q # <<>>
  BY <1>1
<1>3. \A k \in 1 .. n : q[k] = SlotAt(c, n, k)
  OBVIOUS
<1>4. \A k \in 1 .. n : r[k] = IF k < n THEN SlotAt(c, n, k + 1) ELSE SlotAt(c, n, 1)
  BY DEF SlotAt
<1>5. DOMAIN r = 1 .. n
  OBVIOUS
<1> HIDE DEF q, r
<1>6. Head(q) = SlotAt(c, n, 1) /\ Head(q) \in Nat
  BY <1>1, <1>2, <1>3
<1>7. /\ Tail(q) \in Seq(Nat) /\ Len(Tail(q)) = n - 1
      /\ \A k \in 1 .. n - 1 : Tail(q)[k] = SlotAt(c, n, k + 1)
  BY <1>2, <1>3
<1>8. a \in Seq(Nat) /\ Len(a) = n
  BY <1>6, <1>7
<1>9. \A k \in 1 .. n : a[k] = IF k < n THEN SlotAt(c, n, k + 1) ELSE SlotAt(c, n, 1)
  BY <1>6, <1>7
<1> HIDE DEF a
<1>10. DOMAIN a = 1 .. n /\ a = [k \in DOMAIN a |-> a[k]] /\ r = [k \in DOMAIN r |-> r[k]]
  <2>1. a = [k \in DOMAIN a |-> a[k]] /\ DOMAIN a = 1 .. n
    BY <1>8
  <2>2. r = [k \in DOMAIN r |-> r[k]]
    BY DEF r
  <2> QED
    BY <2>1, <2>2
<1>11. r = a
  BY <1>4, <1>5, <1>9, <1>10
<1> QED
  BY <1>11 DEF q, r, a

\* The table is empty at first.
LEMMA InitTurns == Init => TurnInv /\ R!RotationInit
<1> SUFFICES ASSUME Init PROVE TurnInv /\ R!RotationInit
  OBVIOUS
<1>1. Created = 0 .. 0 - 1 /\ 0 \in 0 .. PROC_MAX
  BY ProcAssumption DEF Init, Created
<1>2. TurnInv
  BY <1>1 DEF Init, TurnInv, Created
<1>3. Queue = <<>>
  BY <1>1, QueueIs, QueueEmpty
<1>4. Phase = "boot"
  BY DEF Init, Phase
<1> QED
  BY <1>2, <1>3, <1>4 DEF R!RotationInit

\* What does not touch the table, nor the current process, keeps the queue.
LEMMA SameQueue ==
    ASSUME UNCHANGED <<pagetable, g_current_proc>>
    PROVE  UNCHANGED <<Queue, Created>>
BY QueueIs, QueueIsNext DEF Created

\* A creation puts the first slot that is not in use at the back.
LEMMA CreateAdmits ==
    ASSUME IInv, TurnInv, NEW entry \in ENTRIES, proc_create(entry)
    PROVE  TurnInv' /\ R!Admit
<1> USE ProcAssumption
<1> DEFINE s == First(Unused)
<1>1. PICK n \in 0 .. PROC_MAX : Created = 0 .. n - 1
  BY DEF TurnInv
<1>2. /\ mode = "boot" /\ mode' = "boot" /\ Unused # {}
      /\ state' = [state EXCEPT ![s] = "READY"]
      /\ pid' = [pid EXCEPT ![s] = next_pid]
      /\ pagetable' = [pagetable EXCEPT ![s] = next_paddr + 1]
      /\ g_current_proc' = g_current_proc
  BY DEF proc_create, AllocSlot
<1>3. /\ state \in [Slots -> {"UNUSED", "READY", "RUNNING"}] /\ pid \in [Slots -> Nat]
      /\ pagetable \in [Slots -> Nat \union {NULL}] /\ next_paddr \in Nat /\ next_pid >= 1
      /\ next_pid \in Nat
  BY DEF IInv, TypeOK, BlankInv
<1>4. g_current_proc = NULL
  BY <1>2 DEF IInv, CurrentInv, OnCpu
<1>5. Unused = {t \in Slots : t \notin 0 .. n - 1}
  BY <1>1, <1>2 DEF TurnInv, Unused
<1>6. s \in Unused /\ \A t \in Unused : s <= t
  BY <1>2, FirstProps DEF Unused
<1> HIDE DEF s
<1>7. s = n /\ n + 1 \in 0 .. PROC_MAX /\ n < PROC_MAX
  BY <1>5, <1>6 DEF Slots
<1>8. Created' = 0 .. n + 1 - 1
  <2>1. Created' = Created \union {s}
    BY <1>2, <1>3, <1>6 DEF Created, Unused
  <2> QED
    BY <1>1, <1>7, <2>1
<1>9. TurnInv'
  <2>1. \A t \in Slots : state'[t] # "UNUSED" <=> t \in Created'
    BY <1>1, <1>2, <1>3, <1>6, <1>7, <1>8 DEF TurnInv, Unused
  <2>2. \A t \in Created' : pid'[t] # 0
    <3>1. \A t \in Created : pid[t] # 0
      BY <1>2 DEF TurnInv, Live
    <3>2. \A t \in Created : t \in Slots
      BY DEF Created
    <3> QED
      BY <1>1, <1>2, <1>3, <1>6, <1>7, <1>8, <3>1, <3>2 DEF Unused
  <2> QED
    BY <1>2, <1>7, <1>8, <2>1, <2>2 DEF TurnInv, Live
<1>10. Queue = [k \in 1 .. n |-> k - 1] /\ Queue' = [k \in 1 .. n + 1 |-> k - 1]
  BY <1>1, <1>2, <1>4, <1>7, <1>8, QueueIs, QueueIsNext, QueueAtBoot
<1>11. Len(Queue) = n /\ Queue \in Seq(Nat)
  BY <1>10
<1>12. Queue' = Append(Queue, Len(Queue))
  BY <1>10, <1>11
<1>13. Phase = "boot" /\ Phase' = "boot"
  BY <1>2 DEF Phase
<1> QED
  BY <1>7, <1>9, <1>11, <1>12, <1>13 DEF R!Admit

\* A creation that fails, an empty start and exit() stop the taking of turns.
LEMMA StopsTurning ==
    ASSUME TurnInv, mode \in {"boot", "run"}, mode' \notin {"boot", "run", "wild"},
           UNCHANGED <<pagetable, g_current_proc>>
    PROVE  TurnInv' /\ R!Stop
<1>1. UNCHANGED <<Queue, Created>>
  BY SameQueue
<1>2. Phase \in {"boot", "run"} /\ Phase' = "stopped"
  BY DEF Phase
<1>3. TurnInv'
  BY <1>1 DEF TurnInv
<1> QED
  BY <1>1, <1>2, <1>3 DEF R!Stop

\* The scheduler starts with slot 0, which is the head.
LEMMA StartTurns ==
    ASSUME IInv, TurnInv, scheduler_start
    PROVE  TurnInv' /\ R!Start
<1> USE ProcAssumption
<1> DEFINE ready == {s \in Slots : state[s] = "READY"}
<1>1. PICK n \in 0 .. PROC_MAX : Created = 0 .. n - 1
  BY DEF TurnInv
<1>2. /\ mode = "boot" /\ mode' = "run" /\ ready # {}
      /\ g_current_proc' = First(ready)
      /\ state' = [state EXCEPT ![First(ready)] = "RUNNING"]
      /\ UNCHANGED <<pid, pagetable>>
  BY DEF scheduler_start
<1>3. g_current_proc = NULL
  BY <1>2 DEF IInv, CurrentInv, OnCpu
<1>4. state \in [Slots -> {"UNUSED", "READY", "RUNNING"}]
  BY DEF IInv, TypeOK
<1>5. ready = 0 .. n - 1
  <2>1. \A s \in Slots : s # NULL
    BY ZeroInSlots
  <2>2. \A s \in Slots : state[s] = "READY" <=> s \in 0 .. n - 1
    BY <1>1, <1>2, <1>3, <1>4, <2>1 DEF IInv, OneRunning, TurnInv
  <2> QED
    BY <2>2 DEF Slots
<1>6. First(ready) \in ready /\ \A t \in ready : First(ready) <= t
  BY <1>2, FirstProps
<1>7. n \in 1 .. PROC_MAX /\ g_current_proc' = 0
  <2>1. 0 \in ready /\ n > 0
    BY <1>2, <1>5
  <2>2. First(ready) \in 0 .. n - 1 /\ First(ready) <= 0
    BY <1>5, <1>6, <2>1
  <2> HIDE DEF ready
  <2> QED
    BY <1>2, <2>1, <2>2
<1>8. Created' = Created
  BY <1>2 DEF Created
<1>9. TurnInv'
  <2>1. \A s \in Slots : state'[s] # "UNUSED" <=> state[s] # "UNUSED"
    BY <1>2, <1>4, <1>6
  <2> QED
    BY <1>1, <1>2, <1>8, <2>1 DEF TurnInv, Live
<1>10. Queue = [k \in 1 .. n |-> k - 1]
  BY <1>1, <1>3, QueueIs, QueueAtBoot
<1>11. Queue' = [k \in 1 .. n |-> k - 1]
  <2>1. Queue' = [k \in 1 .. n |-> SlotAt(Starts(0, n), n, k)]
    BY <1>1, <1>7, <1>8, QueueIsNext, QueueTurns
  <2>2. \A k \in 1 .. n : SlotAt(Starts(0, n), n, k) = k - 1
    BY <1>7 DEF SlotAt, Starts
  <2> QED
    BY <2>1, <2>2
<1>12. Queue # <<>>
  <2>1. Len(Queue) = n
    BY <1>7, <1>10
  <2> QED
    BY <1>7, <2>1
<1>13. Phase = "boot" /\ Phase' = "run"
  BY <1>2 DEF Phase
<1> QED
  BY <1>9, <1>10, <1>11, <1>12, <1>13 DEF R!Start

\* A yield that finds nobody else changes no queue; any other gives the CPU to the second
\* in the queue, because everybody in it but the one who yields is READY.
LEMMA YieldTurns ==
    ASSUME IInv, TurnInv, mode = "run", yield, UNCHANGED pagetable
    PROVE  /\ TurnInv'
           /\ R!Rotate \/ UNCHANGED R!rotationVars
<1> USE ProcAssumption
<1> DEFINE cur == g_current_proc
<1>1. PICK n \in 0 .. PROC_MAX : Created = 0 .. n - 1
  BY DEF TurnInv
<1>2. /\ cur \in Slots /\ state[cur] # "UNUSED" /\ UNCHANGED pid
      /\ Stays(cur) \/ \E next \in Slots : Switches(cur, next)
  BY YieldCases
<1>3. Created' = Created
  BY DEF Created
<1>4. state \in [Slots -> {"UNUSED", "READY", "RUNNING"}]
  BY DEF IInv, TypeOK
<1>5. CASE Stays(cur)
  <2>1. UNCHANGED <<g_current_proc, mode>> /\ state' = [state EXCEPT ![cur] = "READY"]
    BY <1>5 DEF Stays
  <2>2. UNCHANGED <<Queue, Phase>>
    BY <2>1, SameQueue DEF Phase
  <2>3. \A s \in Slots : state'[s] # "UNUSED" <=> state[s] # "UNUSED"
    BY <1>2, <1>4, <2>1
  <2>4. TurnInv'
    BY <1>1, <1>2, <1>3, <2>1, <2>3 DEF TurnInv, Live
  <2> QED
    BY <2>2, <2>4 DEF R!rotationVars
<1>6. ASSUME NEW next \in Slots, Switches(cur, next)
      PROVE  TurnInv' /\ R!Rotate
  <2>1. /\ next # cur /\ state[next] = "READY"
        /\ \A u \in Slots : state[u] = "READY" => Dist(cur, next) <= Dist(cur, u)
        /\ g_current_proc' = next
        /\ state' = [state EXCEPT ![cur] = "READY", ![next] = "RUNNING"]
        /\ mode' = IF pid[next] = 0 /\ context[next].ra = "__schedule" THEN "wild" ELSE mode
    BY <1>6 DEF Switches
  <2>2. cur \in 0 .. n - 1 /\ next \in 0 .. n - 1
    BY <1>1, <1>2, <2>1 DEF TurnInv
  <2>3. pid[next] # 0 /\ mode' = "run"
    BY <1>1, <2>1, <2>2 DEF TurnInv, Live
  <2>4. \A s \in 0 .. n - 1 : s # cur => s \in Slots /\ state[s] = "READY"
    BY <1>1, <1>4 DEF IInv, OneRunning, TurnInv, Slots
  <2>5. n \in 1 .. PROC_MAX /\ n > 1 /\ n \in Nat
    BY <2>1, <2>2
  <2>6. next = SlotAt(cur, n, 2)
    <3>1. SlotAt(cur, n, 2) \in 0 .. n - 1 /\ SlotAt(cur, n, 2) # cur
      BY <2>2, <2>5 DEF SlotAt
    <3>2. Dist(cur, next) <= Dist(cur, SlotAt(cur, n, 2))
      BY <2>1, <2>4, <3>1
    <3> QED
      BY <2>1, <2>2, <2>5, <3>2 DEF SlotAt, Dist
  <2>7. \A s \in Slots : state'[s] # "UNUSED" <=> state[s] # "UNUSED"
    BY <1>2, <1>4, <2>1
  <2>8. TurnInv'
    BY <1>1, <1>2, <1>3, <2>3, <2>7 DEF TurnInv, Live
  <2>9. Queue = [k \in 1 .. n |-> SlotAt(cur, n, k)]
    <3>1. Starts(cur, n) = cur
      BY <2>2 DEF Starts
    <3> QED
      BY <1>1, <2>2, <2>5, <3>1, QueueIs, QueueTurns
  <2>10. Queue' = [k \in 1 .. n |-> SlotAt(next, n, k)]
    <3>1. Starts(next, n) = next
      BY <2>2 DEF Starts
    <3> QED
      BY <1>1, <1>3, <2>1, <2>2, <2>5, <3>1, QueueIsNext, QueueTurns
  <2>11. Queue' = Append(Tail(Queue), Head(Queue))
    <3> DEFINE q == [k \in 1 .. n |-> SlotAt(cur, n, k)]
    <3>1. [k \in 1 .. n |-> SlotAt(SlotAt(cur, n, 2), n, k)] = Append(Tail(q), Head(q))
      BY <2>2, <2>5, QueueRotates
    <3>2. Queue' = [k \in 1 .. n |-> SlotAt(SlotAt(cur, n, 2), n, k)]
      BY <2>6, <2>10
    <3>3. Queue = q
      BY <2>9
    <3> HIDE DEF q
    <3> QED
      BY <3>1, <3>2, <3>3
  <2>12. Phase = "run" /\ Phase' = "run"
    BY <2>3 DEF Phase
  <2> QED
    BY <2>8, <2>11, <2>12 DEF R!Rotate
<1> QED
  BY <1>2, <1>5, <1>6

\* Every visit to the kernel is a step of the rotation, or none.
LEMMA NextTurns ==
    ASSUME ENTRIES = {"user_entry"}
    PROVE  IInv /\ TurnInv /\ [Next]_vars => TurnInv' /\ [R!RotationNext]_(R!rotationVars)
<1> SUFFICES ASSUME IInv, TurnInv, [Next]_vars
             PROVE  TurnInv' /\ [R!RotationNext]_(R!rotationVars)
  OBVIOUS
<1> USE DEF R!RotationNext
<1>1. CASE \E entry \in ENTRIES : proc_create(entry)
  BY <1>1, CreateAdmits
<1>2. CASE proc_create_no_slot \/ proc_create_no_memory \/ scheduler_start_empty \/ user_exit
  BY <1>2, StopsTurning
     DEF proc_create_no_slot, proc_create_no_memory, scheduler_start_empty, user_exit, procVars
<1>3. CASE scheduler_start
  BY <1>3, StartTurns
<1>4. CASE worker_yield \/ worker_return
  BY <1>4 DEF worker_yield, worker_return, IInv, TypeOK, Contexts
<1>5. CASE user_yield
  BY <1>5, YieldTurns DEF user_yield
<1>6. CASE Halted \/ UNCHANGED vars
  <2>1. UNCHANGED <<state, pid, pagetable, g_current_proc, mode>>
    BY <1>6 DEF Halted, vars, procVars
  <2>2. UNCHANGED <<Queue, Created, Phase>>
    BY <2>1, SameQueue DEF Phase
  <2>3. TurnInv'
    BY <2>1, <2>2 DEF TurnInv, Live
  <2> QED
    BY <2>2, <2>3 DEF R!rotationVars
<1> QED
  BY <1>1, <1>2, <1>3, <1>4, <1>5, <1>6 DEF Next

\* With user processes only, for any number of slots and any RAM, the table, its states and
\* the circular search are a queue in which whoever yields goes to the back.
THEOREM RotationImplemented ==
    ASSUME ENTRIES = {"user_entry"}
    PROVE  Spec => ImplementsRotation
<1>1. Init => TurnInv /\ R!RotationInit
  BY InitTurns
<1>2. IInv /\ TurnInv /\ [Next]_vars => TurnInv' /\ [R!RotationNext]_(R!rotationVars)
  BY NextTurns
<1> QED
  BY <1>1, <1>2, Invariance, PTL DEF Spec, ImplementsRotation, R!RotationSpec

=============================================================================
