------------------------------ MODULE Spinlock ------------------------------
(***************************************************************************)
(* lib/spinlock.c on arch/riscv/kernel/interrupt.c: spinlocks taken by     *)
(* several CPUs, with sstatus.SPIE of the CPU clear while it holds one.    *)
(* SPIE is the interrupt enable that sret restores for the code it returns *)
(* to; what masks interrupts while kernel code runs is SIE, which the      *)
(* firmware and every trap leave clear and no code here writes.            *)
(*                                                                         *)
(* One action per access to the shared words lk->locked and lk->cpu, in    *)
(* the order of the code; spinlock_holding reads the two one after the     *)
(* other.  push_off and pop_off touch only their own CPU, so each is one   *)
(* step.  The barriers in the code keep these accesses in program order.   *)
(*                                                                         *)
(* Nothing in the kernel calls this code yet.  The callers here nest locks *)
(* and bare push_off sections as they like, and also misuse the interface: *)
(* they take a lock they have, release one they have not, or pop too often.*)
(***************************************************************************)
EXTENDS Naturals, FiniteSets

CONSTANTS
    Cpus,       \* cpus[]: what mycpu() tells apart
    Locks,
    NoCpu,      \* lk->cpu = 0
    MAX_NOFF    \* bound on the nesting of push_off by a caller

ASSUME SpinlockAssumption == NoCpu \notin Cpus /\ MAX_NOFF \in Nat

VARIABLES
    locked, lkcpu,          \* struct spinlock
    noff, intena,           \* struct cpu
    spie,                   \* sstatus.SPIE, which intr_get/on/off work on; not SIE
    pc, arg,                \* where each CPU is, and the lock it is working on
    \* history, read by no step of the code
    held,                   \* the locks each CPU has taken and not released
    bare,                   \* push_off calls of each caller that await their pop_off
    enabled                 \* spie as the caller last set it

cpuVars == <<noff, intena, spie, bare, enabled>>
vars == <<locked, lkcpu, cpuVars, pc, arg, held>>

Panics == {"panic_acquire", "panic_release", "panic_interruptible", "panic_unmatched"}
Pcs == {"idle", "acquire_holding", "acquire_holding_cpu", "acquire_tas", "acquire_owner",
        "release_holding_cpu", "release_clear", "release_unlock", "release_pop"} \union Panics

\* spinlock_init has been called on every lock.
Init ==
    /\ locked = [l \in Locks |-> FALSE]
    /\ lkcpu = [l \in Locks |-> NoCpu]
    /\ noff = [c \in Cpus |-> 0]
    /\ intena = [c \in Cpus |-> FALSE]
    /\ spie = [c \in Cpus |-> FALSE]
    /\ pc = [c \in Cpus |-> "idle"]
    /\ arg \in [Cpus -> Locks]
    /\ held = [c \in Cpus |-> {}]
    /\ bare = [c \in Cpus |-> 0]
    /\ enabled = [c \in Cpus |-> FALSE]

At(c, where) == pc[c] = where
Goto(c, where) == pc' = [pc EXCEPT ![c] = where]

-----------------------------------------------------------------------------
(* push_off, pop_off, and the intr_on and intr_off of a caller              *)

\* Mutant of PushOff: every push_off records the interrupt state, not only the outermost.
PushOff_always_records(c) ==
    /\ spie' = [spie EXCEPT ![c] = FALSE]
    /\ intena' = [intena EXCEPT ![c] = spie[c]]
    /\ noff' = [noff EXCEPT ![c] = @ + 1]

PushOff(c) ==
    /\ spie' = [spie EXCEPT ![c] = FALSE]
    /\ intena' = [intena EXCEPT ![c] = IF noff[c] = 0 THEN spie[c] ELSE @]
    /\ noff' = [noff EXCEPT ![c] = @ + 1]

\* Mutant of PopOff: the count is not checked before it is taken down.
PopOff_unchecked(c) ==
    \/ /\ spie[c]
       /\ Goto(c, "panic_interruptible")
       /\ UNCHANGED <<noff, spie>>
    \/ /\ ~spie[c]
       /\ noff' = [noff EXCEPT ![c] = @ - 1]
       /\ spie' = [spie EXCEPT ![c] = noff[c] = 1 /\ intena[c]]
       /\ Goto(c, "idle")

\* pop_off gives a panic, or counts down and at 0 restores what the outermost push_off saw.
PopOff(c) ==
    \/ /\ spie[c]
       /\ Goto(c, "panic_interruptible")
       /\ UNCHANGED <<noff, spie>>
    \/ /\ ~spie[c]
       /\ noff[c] < 1
       /\ Goto(c, "panic_unmatched")
       /\ UNCHANGED <<noff, spie>>
    \/ /\ ~spie[c]
       /\ noff[c] >= 1
       /\ noff' = [noff EXCEPT ![c] = @ - 1]
       /\ spie' = [spie EXCEPT ![c] = noff[c] = 1 /\ intena[c]]
       /\ Goto(c, "idle")

push_off(c) ==
    /\ At(c, "idle")
    /\ noff[c] < MAX_NOFF
    /\ PushOff(c)
    /\ bare' = [bare EXCEPT ![c] = @ + 1]
    /\ UNCHANGED <<locked, lkcpu, pc, arg, held, enabled>>

\* The caller pops what it pushed, or, with nothing pushed at all, once too often.
pop_off(c) ==
    /\ At(c, "idle")
    /\ bare[c] > 0 \/ noff[c] = 0
    /\ PopOff(c)
    /\ bare' = [bare EXCEPT ![c] = IF @ > 0 THEN @ - 1 ELSE 0]
    /\ UNCHANGED <<locked, lkcpu, intena, arg, held, enabled>>

\* Outside of any section the caller calls intr_on or intr_off.
intr_set(c) ==
    /\ At(c, "idle")
    /\ noff[c] = 0
    /\ spie' = [spie EXCEPT ![c] = ~@]
    /\ enabled' = [enabled EXCEPT ![c] = ~spie[c]]
    /\ UNCHANGED <<locked, lkcpu, noff, intena, bare, pc, arg, held>>

-----------------------------------------------------------------------------
(* spinlock_acquire                                                         *)

acquire(c, l) ==
    /\ At(c, "idle")
    /\ noff[c] < MAX_NOFF
    /\ PushOff(c)
    /\ arg' = [arg EXCEPT ![c] = l]
    /\ Goto(c, "acquire_holding")
    /\ UNCHANGED <<locked, lkcpu, held, bare, enabled>>

\* spinlock_holding: lk->locked, and lk->cpu only if that was set.
acquire_holding(c) ==
    /\ At(c, "acquire_holding")
    /\ Goto(c, IF locked[arg[c]] THEN "acquire_holding_cpu" ELSE "acquire_tas")
    /\ UNCHANGED <<locked, lkcpu, cpuVars, arg, held>>

acquire_holding_cpu(c) ==
    /\ At(c, "acquire_holding_cpu")
    /\ Goto(c, IF lkcpu[arg[c]] = c THEN "panic_acquire" ELSE "acquire_tas")
    /\ UNCHANGED <<locked, lkcpu, cpuVars, arg, held>>

\* Mutant of acquire_tas: a plain store, whatever was in the word.
acquire_tas_plain(c) ==
    /\ At(c, "acquire_tas")
    /\ locked' = [locked EXCEPT ![arg[c]] = TRUE]
    /\ held' = [held EXCEPT ![c] = @ \union {arg[c]}]
    /\ Goto(c, "acquire_owner")
    /\ UNCHANGED <<lkcpu, cpuVars, arg>>

\* __sync_lock_test_and_set stored 1; it returned 0 only if the lock was free.
acquire_tas(c) ==
    /\ At(c, "acquire_tas")
    /\ ~locked[arg[c]]
    /\ locked' = [locked EXCEPT ![arg[c]] = TRUE]
    /\ held' = [held EXCEPT ![c] = @ \union {arg[c]}]
    /\ Goto(c, "acquire_owner")
    /\ UNCHANGED <<lkcpu, cpuVars, arg>>

acquire_spin(c) ==
    /\ At(c, "acquire_tas")
    /\ locked[arg[c]]
    /\ UNCHANGED vars

acquire_owner(c) ==
    /\ At(c, "acquire_owner")
    /\ lkcpu' = [lkcpu EXCEPT ![arg[c]] = c]
    /\ Goto(c, "idle")
    /\ UNCHANGED <<locked, cpuVars, arg, held>>

-----------------------------------------------------------------------------
(* spinlock_release                                                         *)

release(c, l) ==
    /\ At(c, "idle")
    /\ arg' = [arg EXCEPT ![c] = l]
    /\ Goto(c, IF locked[l] THEN "release_holding_cpu" ELSE "panic_release")
    /\ UNCHANGED <<locked, lkcpu, cpuVars, held>>

release_holding_cpu(c) ==
    /\ At(c, "release_holding_cpu")
    /\ Goto(c, IF lkcpu[arg[c]] = c THEN "release_clear" ELSE "panic_release")
    /\ UNCHANGED <<locked, lkcpu, cpuVars, arg, held>>

\* Mutant of release_clear: the owner stays in the lock.
release_clear_keeps_owner(c) ==
    /\ At(c, "release_clear")
    /\ Goto(c, "release_unlock")
    /\ UNCHANGED <<locked, lkcpu, cpuVars, arg, held>>

release_clear(c) ==
    /\ At(c, "release_clear")
    /\ lkcpu' = [lkcpu EXCEPT ![arg[c]] = NoCpu]
    /\ Goto(c, "release_unlock")
    /\ UNCHANGED <<locked, cpuVars, arg, held>>

\* Mutant of release_unlock: the lock word is not cleared.
release_unlock_forgotten(c) ==
    /\ At(c, "release_unlock")
    /\ held' = [held EXCEPT ![c] = @ \ {arg[c]}]
    /\ Goto(c, "release_pop")
    /\ UNCHANGED <<locked, lkcpu, cpuVars, arg>>

release_unlock(c) ==
    /\ At(c, "release_unlock")
    /\ locked' = [locked EXCEPT ![arg[c]] = FALSE]
    /\ held' = [held EXCEPT ![c] = @ \ {arg[c]}]
    /\ Goto(c, "release_pop")
    /\ UNCHANGED <<lkcpu, cpuVars, arg>>

release_pop(c) ==
    /\ At(c, "release_pop")
    /\ PopOff(c)
    /\ UNCHANGED <<locked, lkcpu, intena, arg, held, bare, enabled>>

-----------------------------------------------------------------------------

Inside(c) ==
    \/ acquire_holding(c) \/ acquire_holding_cpu(c) \/ acquire_tas(c) \/ acquire_owner(c)
    \/ release_holding_cpu(c) \/ release_clear(c) \/ release_unlock(c) \/ release_pop(c)

Call(c) ==
    \/ push_off(c) \/ pop_off(c) \/ intr_set(c)
    \/ \E l \in Locks : acquire(c, l) \/ release(c, l)

\* A panic stops its CPU, the others go on.
Stopped(c) == pc[c] \in Panics /\ UNCHANGED vars

Next == \E c \in Cpus : Inside(c) \/ acquire_spin(c) \/ Call(c) \/ Stopped(c)

\* A CPU that is inside the lock code keeps running it.  Callers owe nothing.
Fairness == \A c \in Cpus : WF_vars(Inside(c))

Spec == Init /\ [][Next]_vars /\ Fairness

-----------------------------------------------------------------------------
(* Properties                                                               *)

TypeOK ==
    /\ locked \in [Locks -> BOOLEAN]
    /\ lkcpu \in [Locks -> Cpus \union {NoCpu}]
    /\ noff \in [Cpus -> Nat]
    /\ intena \in [Cpus -> BOOLEAN]
    /\ spie \in [Cpus -> BOOLEAN]
    /\ pc \in [Cpus -> Pcs]
    /\ arg \in [Cpus -> Locks]
    /\ held \in [Cpus -> SUBSET Locks]
    /\ bare \in [Cpus -> Nat]
    /\ enabled \in [Cpus -> BOOLEAN]

\* The panics of spinlock_acquire and spinlock_release hit exactly the callers
\* that misuse the lock: taking a lock twice is caught and never spins for ever,
\* nobody else is accused of it although spinlock_holding reads two words that
\* other CPUs write, and pop_off panics only where nothing was pushed.
HoldingExact ==
    \A c \in Cpus :
      /\ pc[c] = "panic_acquire" => arg[c] \in held[c]
      /\ pc[c] = "acquire_tas" => arg[c] \notin held[c]
      /\ pc[c] = "panic_release" => arg[c] \notin held[c]
      /\ pc[c] \in {"release_clear", "release_unlock"} => arg[c] \in held[c]
      /\ pc[c] \in {"panic_interruptible", "panic_unmatched"} => held[c] = {} /\ bare[c] = 0

\* The enable bit of a CPU, the one intr_get reads, is clear from the first acquire or
\* push_off to the last release or pop_off, in whatever order they nest, and is then again
\* as the caller had it: no nested pop_off sets it early, none leaves it clear for good, and
\* pop_off's own panic on it is never met in a section.  Whether an interrupt can come
\* meanwhile is not this bit's to say, although the comments of interrupt.h and spinlock.h
\* speak of masking.
EnableRestored ==
    \A c \in Cpus :
      /\ held[c] # {} \/ bare[c] > 0 \/ pc[c] = "release_pop" => ~spie[c] /\ noff[c] > 0
      /\ held[c] = {} /\ bare[c] = 0 /\ pc[c] = "idle" => spie[c] = enabled[c] /\ noff[c] = 0

\* A lock that is being released while another CPU spins on it is taken again.
HandOver ==
    \A l \in Locks :
      (\E c \in Cpus : At(c, "release_clear") /\ arg[c] = l)
        /\ (\E c \in Cpus : At(c, "acquire_tas") /\ arg[c] = l)
      ~> (\E c \in Cpus : At(c, "acquire_owner") /\ arg[c] = l)

M == INSTANCE Mutex WITH holders <- [l \in Locks |-> {c \in Cpus : l \in held[c]}]

\* The two words of a spinlock and the order in which they are written implement
\* a mutual exclusion lock that only its holder releases.
ImplementsMutex == M!MutexSpec
=============================================================================
