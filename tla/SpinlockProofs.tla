--------------------------- MODULE SpinlockProofs ---------------------------
(***************************************************************************)
(* Proofs about Spinlock for any CPUs and locks: the lock is exact, the    *)
(* counting of push_off is exact, and the two words implement Mutex.         *)
(***************************************************************************)
EXTENDS Spinlock, FiniteSetTheorems, TLAPS

\* lk->locked is set exactly while somebody has the lock, nobody else has it, and
\* lk->cpu names its holder except in the two short windows around its writes.
LockInv ==
    /\ \A l \in Locks : locked[l] <=> \E c \in Cpus : l \in held[c]
    /\ \A c, d \in Cpus, l \in Locks : l \in held[c] /\ l \in held[d] => c = d
    /\ \A c \in Cpus, l \in Locks : lkcpu[l] = c => l \in held[c]
    /\ \A c \in Cpus, l \in Locks : l \in held[c] =>
          \/ lkcpu[l] = c
          \/ pc[c] \in {"acquire_owner", "release_unlock"} /\ arg[c] = l

\* What the place a CPU has reached says about the lock it is working on.
PlaceInv ==
    \A c \in Cpus :
      /\ pc[c] \in {"acquire_owner", "release_clear", "release_unlock", "panic_acquire"} =>
            arg[c] \in held[c]
      /\ pc[c] \in {"acquire_tas", "panic_release"} => arg[c] \notin held[c]
      /\ pc[c] = "release_unlock" => lkcpu[arg[c]] # c

\* Push_off calls of a CPU that stand for no lock it holds and no bare section.
Pending(c) ==
    IF pc[c] \in {"acquire_holding", "acquire_holding_cpu", "acquire_tas",
                  "panic_acquire", "release_pop"}
    THEN 1 ELSE 0

\* noff counts locks, bare sections and the step in progress; SPIE is clear while
\* it is positive and as the caller left it while it is 0.
CountInv ==
    \A c \in Cpus :
      /\ IsFiniteSet(held[c])
      /\ noff[c] = Cardinality(held[c]) + bare[c] + Pending(c)
      /\ noff[c] > 0 => ~spie[c] /\ intena[c] = enabled[c]
      /\ noff[c] = 0 => spie[c] = enabled[c]
      /\ pc[c] \in {"panic_interruptible", "panic_unmatched"} => noff[c] = 0

IInv == TypeOK /\ LockInv /\ PlaceInv /\ CountInv

\* The initial state satisfies the inductive invariant.
LEMMA InitIInv == Init => IInv
<1> SUFFICES ASSUME Init PROVE IInv
  OBVIOUS
<1>1. TypeOK
  BY DEF Init, TypeOK, Pcs
<1>2. LockInv
  BY SpinlockAssumption DEF Init, LockInv
<1>3. PlaceInv
  BY DEF Init, PlaceInv
<1>4. CountInv
  BY FS_EmptySet DEF Init, CountInv, Pending
<1> QED
  BY <1>1, <1>2, <1>3, <1>4 DEF IInv

\* A step that leaves the locks, the places they speak of and the counting of
\* every other CPU alone has to be checked for its own CPU only.
LEMMA CountLocal ==
    ASSUME IInv, NEW c \in Cpus,
           \A d \in Cpus : d # c => /\ held'[d] = held[d] /\ noff'[d] = noff[d]
                                    /\ bare'[d] = bare[d] /\ spie'[d] = spie[d]
                                    /\ intena'[d] = intena[d] /\ enabled'[d] = enabled[d]
                                    /\ pc'[d] = pc[d],
           IsFiniteSet(held'[c]),
           noff'[c] = Cardinality(held'[c]) + bare'[c] + Pending(c)',
           noff'[c] > 0 => ~spie'[c] /\ intena'[c] = enabled'[c],
           noff'[c] = 0 => spie'[c] = enabled'[c],
           pc'[c] \in {"panic_interruptible", "panic_unmatched"} => noff'[c] = 0
    PROVE  CountInv'
BY DEF IInv, CountInv, Pending

\* What the counting part says of one CPU, with the types it needs.
LEMMA CountFacts ==
    ASSUME IInv, NEW c \in Cpus
    PROVE  /\ Cardinality(held[c]) \in Nat /\ bare[c] \in Nat /\ noff[c] \in Nat
           /\ Pending(c) \in {0, 1}
           /\ noff[c] = Cardinality(held[c]) + bare[c] + Pending(c)
           /\ Cardinality(held[c]) = 0 <=> held[c] = {}
           /\ IsFiniteSet(held[c])
BY FS_CardinalityType, FS_EmptySet DEF IInv, CountInv, TypeOK, Pending

-----------------------------------------------------------------------------
(* Steps that touch no lock word.                                           *)

\* push_off, alone or at the start of spinlock_acquire, keeps the invariant.
LEMMA PushStep ==
    ASSUME IInv, NEW c \in Cpus,
           \/ push_off(c)
           \/ \E l \in Locks : acquire(c, l)
    PROVE  IInv'
<1>1. /\ pc[c] = "idle" /\ PushOff(c) /\ UNCHANGED <<locked, lkcpu, held, enabled>>
      /\ \/ bare' = [bare EXCEPT ![c] = @ + 1] /\ UNCHANGED <<pc, arg>>
         \/ /\ UNCHANGED bare
            /\ pc' = [pc EXCEPT ![c] = "acquire_holding"]
            /\ \E l \in Locks : arg' = [arg EXCEPT ![c] = l]
  BY DEF push_off, acquire, At, Goto
<1>2. TypeOK'
  BY <1>1 DEF IInv, TypeOK, PushOff, Pcs
<1>3. LockInv'
  BY <1>1 DEF IInv, TypeOK, LockInv
<1>4. PlaceInv'
  BY <1>1 DEF IInv, TypeOK, PlaceInv
<1>5. CountInv'
  <2>1. /\ noff'[c] = noff[c] + 1 /\ ~spie'[c]
        /\ intena'[c] = IF noff[c] = 0 THEN spie[c] ELSE intena[c]
        /\ held'[c] = held[c] /\ enabled'[c] = enabled[c]
        /\ pc'[c] \in {"idle", "acquire_holding"}
    BY <1>1 DEF IInv, TypeOK, PushOff
  <2>2. \/ bare'[c] = bare[c] + 1 /\ pc'[c] = "idle"
        \/ bare'[c] = bare[c] /\ pc'[c] = "acquire_holding"
    BY <1>1 DEF IInv, TypeOK
  <2>3. intena'[c] = enabled'[c]
    BY <2>1, CountFacts DEF IInv, CountInv
  <2>4. noff'[c] = Cardinality(held'[c]) + bare'[c] + Pending(c)'
    <3>1. Pending(c) = 0
      BY <1>1 DEF Pending
    <3>2. bare'[c] + Pending(c)' = bare[c] + 1
      BY <2>2, CountFacts DEF Pending
    <3>3. noff[c] + 1 = Cardinality(held[c]) + (bare[c] + 1)
      BY <3>1, CountFacts
    <3>4. bare'[c] \in Nat /\ Pending(c)' \in Nat
      BY <2>2, CountFacts DEF Pending
    <3> QED
      BY <2>1, <3>2, <3>3, <3>4, CountFacts
  <2>5. noff'[c] > 0
    BY <2>1, CountFacts
  <2>6. \A d \in Cpus : d # c => /\ held'[d] = held[d] /\ noff'[d] = noff[d]
                                 /\ bare'[d] = bare[d] /\ spie'[d] = spie[d]
                                 /\ intena'[d] = intena[d] /\ enabled'[d] = enabled[d]
                                 /\ pc'[d] = pc[d]
    BY <1>1 DEF IInv, TypeOK, PushOff
  <2> QED
    BY <2>1, <2>3, <2>4, <2>5, <2>6, CountFacts, CountLocal
<1> QED
  BY <1>2, <1>3, <1>4, <1>5 DEF IInv

\* pop_off by a caller or at the end of spinlock_release.
LEMMA PopStep ==
    ASSUME IInv, NEW c \in Cpus, pop_off(c) \/ release_pop(c)
    PROVE  IInv'
<1>1. /\ PopOff(c) /\ UNCHANGED <<locked, lkcpu, intena, arg, held, enabled>>
      /\ \/ /\ pc[c] = "idle" /\ (bare[c] > 0 \/ noff[c] = 0)
            /\ bare' = [bare EXCEPT ![c] = IF @ > 0 THEN @ - 1 ELSE 0]
         \/ pc[c] = "release_pop" /\ bare' = bare
  BY DEF pop_off, release_pop, At
<1>2. /\ noff' \in [Cpus -> Nat] /\ bare' \in [Cpus -> Nat] /\ spie' \in [Cpus -> BOOLEAN]
      /\ pc' = [pc EXCEPT ![c] = pc'[c]]
      /\ pc'[c] \in {"idle", "panic_interruptible", "panic_unmatched"}
  <2>1. pc' = [pc EXCEPT ![c] = pc'[c]] /\ pc'[c] \in {"idle", "panic_interruptible", "panic_unmatched"}
    BY <1>1 DEF IInv, TypeOK, PopOff, Goto
  <2>2. bare' \in [Cpus -> Nat]
    BY <1>1 DEF IInv, TypeOK
  <2>3. noff' \in [Cpus -> Nat] /\ spie' \in [Cpus -> BOOLEAN]
    BY <1>1 DEF IInv, TypeOK, PopOff, Goto
  <2> QED
    BY <2>1, <2>2, <2>3
<1>3. TypeOK'
  BY <1>1, <1>2 DEF IInv, TypeOK, Pcs, Panics
<1>4. LockInv'
  BY <1>1, <1>2 DEF IInv, TypeOK, LockInv
<1>5. PlaceInv'
  BY <1>1, <1>2 DEF IInv, TypeOK, PlaceInv
<1>6. CountInv'
  <2>1. \A d \in Cpus : d # c => /\ held'[d] = held[d] /\ noff'[d] = noff[d]
                                 /\ bare'[d] = bare[d] /\ spie'[d] = spie[d]
                                 /\ intena'[d] = intena[d] /\ enabled'[d] = enabled[d]
                                 /\ pc'[d] = pc[d]
    BY <1>1, <1>2 DEF IInv, TypeOK, PopOff
  <2>2. /\ held'[c] = held[c] /\ intena'[c] = intena[c] /\ enabled'[c] = enabled[c]
        /\ Pending(c)' = 0
    BY <1>1, <1>2 DEF Pending
  <2>3. CASE noff[c] = 0
    <3>1. Pending(c) = 0 /\ bare[c] = 0 /\ Cardinality(held[c]) = 0
      BY <2>3, CountFacts
    <3>2. pc[c] = "idle" /\ bare'[c] = 0
      BY <1>1, <3>1 DEF Pending, IInv, TypeOK
    <3>3. noff'[c] = 0 /\ spie'[c] = spie[c]
      BY <1>1, <2>3 DEF PopOff, IInv, TypeOK
    <3>4. spie[c] = enabled[c]
      BY <2>3 DEF IInv, CountInv
    <3> QED
      BY <2>1, <2>2, <3>1, <3>2, <3>3, <3>4, CountFacts, CountLocal
  <2>4. CASE noff[c] > 0
    <3>1. ~spie[c] /\ intena[c] = enabled[c]
      BY <2>4 DEF IInv, CountInv
    <3>2. /\ noff'[c] = noff[c] - 1
          /\ spie'[c] = (noff[c] = 1 /\ intena[c])
          /\ pc'[c] = "idle"
      BY <1>1, <2>4, <3>1 DEF PopOff, Goto, IInv, TypeOK
    <3>3. bare'[c] + 1 = bare[c] + Pending(c) /\ bare'[c] \in Nat
      BY <1>1, <1>2, <2>4, CountFacts DEF Pending, IInv, TypeOK
    <3>4. noff'[c] = Cardinality(held'[c]) + bare'[c] + Pending(c)'
      BY <2>2, <3>2, <3>3, CountFacts
    <3>5. /\ noff'[c] > 0 => ~spie'[c] /\ intena'[c] = enabled'[c]
          /\ noff'[c] = 0 => spie'[c] = enabled'[c]
      BY <2>2, <3>1, <3>2, CountFacts DEF IInv, TypeOK
    <3> QED
      BY <2>1, <2>2, <3>2, <3>4, <3>5, CountFacts, CountLocal
  <2> QED
    BY <2>3, <2>4, CountFacts
<1> QED
  BY <1>3, <1>4, <1>5, <1>6 DEF IInv

\* A caller that calls intr_on or intr_off outside of any section keeps the invariant.
LEMMA SetStep ==
    ASSUME IInv, NEW c \in Cpus, intr_set(c)
    PROVE  IInv'
<1>1. /\ pc[c] = "idle" /\ noff[c] = 0
      /\ spie' = [spie EXCEPT ![c] = ~@]
      /\ enabled' = [enabled EXCEPT ![c] = ~spie[c]]
      /\ UNCHANGED <<locked, lkcpu, noff, intena, bare, pc, arg, held>>
  BY DEF intr_set, At
<1>2. TypeOK' /\ LockInv' /\ PlaceInv'
  BY <1>1 DEF IInv, TypeOK, LockInv, PlaceInv
<1>3. CountInv'
  BY <1>1 DEF IInv, TypeOK, CountInv, Pending
<1> QED
  BY <1>2, <1>3 DEF IInv

\* A CPU moves on without writing anything but pc and arg, in a way that keeps
\* what PlaceInv says and its share of noff.
LEMMA MoveStep ==
    ASSUME IInv, NEW c \in Cpus, NEW where \in Pcs,
           pc[c] \notin {"acquire_owner", "release_unlock", "panic_interruptible", "panic_unmatched"},
           pc' = [pc EXCEPT ![c] = where],
           arg' \in [Cpus -> Locks], \A d \in Cpus : d # c => arg'[d] = arg[d],
           where \notin {"panic_interruptible", "panic_unmatched"},
           where # "release_unlock",
           where \in {"acquire_owner", "release_clear", "panic_acquire"} => arg'[c] \in held[c],
           where \in {"acquire_tas", "panic_release"} => arg'[c] \notin held[c],
           Pending(c)' = Pending(c),
           UNCHANGED <<locked, lkcpu, noff, intena, spie, bare, enabled, held>>
    PROVE  IInv'
<1>1. TypeOK'
  BY DEF IInv, TypeOK
<1>2. LockInv'
  BY DEF IInv, TypeOK, LockInv
<1>3. PlaceInv'
  BY DEF IInv, TypeOK, PlaceInv
<1>4. \A d \in Cpus : d # c => pc'[d] = pc[d]
  BY DEF IInv, TypeOK
<1>5. pc'[c] = where
  BY DEF IInv, TypeOK
<1>6. CountInv'
  BY <1>4, <1>5, CountFacts, CountLocal DEF IInv, CountInv
<1> QED
  BY <1>1, <1>2, <1>3, <1>6 DEF IInv

\* A reading of the lock words that finds the CPU's own number there, or not,
\* tells whether it holds the lock, although the words are read one by one.
LEMMA HoldingFacts ==
    ASSUME IInv, NEW c \in Cpus, NEW l \in Locks
    PROVE  /\ ~locked[l] => l \notin held[c]
           /\ lkcpu[l] = c => l \in held[c]
           /\ lkcpu[l] # c /\ pc[c] \notin {"acquire_owner", "release_unlock"} => l \notin held[c]
BY DEF IInv, LockInv

\* The reads of spinlock_holding keep the invariant.
LEMMA ReadStep ==
    ASSUME IInv, NEW c \in Cpus,
           \/ acquire_holding(c) \/ acquire_holding_cpu(c) \/ release_holding_cpu(c)
           \/ \E l \in Locks : release(c, l)
    PROVE  IInv'
<1> USE DEF At, Goto, cpuVars
<1>1. CASE acquire_holding(c)
  <2> DEFINE where == IF locked[arg[c]] THEN "acquire_holding_cpu" ELSE "acquire_tas"
  <2>1. /\ pc[c] = "acquire_holding" /\ pc' = [pc EXCEPT ![c] = where]
        /\ UNCHANGED <<locked, lkcpu, noff, intena, spie, bare, enabled, arg, held>>
    BY <1>1 DEF acquire_holding
  <2>2. /\ arg \in [Cpus -> Locks] /\ where \in Pcs /\ arg[c] \in Locks
        /\ where \in {"acquire_holding_cpu", "acquire_tas"}
    BY DEF IInv, TypeOK, Pcs
  <2>3. Pending(c)' = Pending(c)
    BY <2>1 DEF Pending, IInv, TypeOK
  <2>4. where = "acquire_tas" => arg[c] \notin held[c]
    BY <2>2, HoldingFacts
  <2> HIDE DEF where
  <2> QED
    BY <2>1, <2>2, <2>3, <2>4, MoveStep
<1>2. CASE acquire_holding_cpu(c)
  <2> DEFINE where == IF lkcpu[arg[c]] = c THEN "panic_acquire" ELSE "acquire_tas"
  <2>1. /\ pc[c] = "acquire_holding_cpu" /\ pc' = [pc EXCEPT ![c] = where]
        /\ UNCHANGED <<locked, lkcpu, noff, intena, spie, bare, enabled, arg, held>>
    BY <1>2 DEF acquire_holding_cpu
  <2>2. /\ arg \in [Cpus -> Locks] /\ where \in Pcs /\ arg[c] \in Locks
        /\ where \in {"panic_acquire", "acquire_tas"}
    BY DEF IInv, TypeOK, Pcs, Panics
  <2>3. Pending(c)' = Pending(c)
    BY <2>1 DEF Pending, IInv, TypeOK
  <2>4. /\ where = "acquire_tas" => arg[c] \notin held[c]
        /\ where = "panic_acquire" => arg[c] \in held[c]
    BY <2>1, <2>2, HoldingFacts
  <2> HIDE DEF where
  <2> QED
    BY <2>1, <2>2, <2>3, <2>4, MoveStep
<1>3. CASE release_holding_cpu(c)
  <2> DEFINE where == IF lkcpu[arg[c]] = c THEN "release_clear" ELSE "panic_release"
  <2>1. /\ pc[c] = "release_holding_cpu" /\ pc' = [pc EXCEPT ![c] = where]
        /\ UNCHANGED <<locked, lkcpu, noff, intena, spie, bare, enabled, arg, held>>
    BY <1>3 DEF release_holding_cpu
  <2>2. /\ arg \in [Cpus -> Locks] /\ where \in Pcs /\ arg[c] \in Locks
        /\ where \in {"release_clear", "panic_release"}
    BY DEF IInv, TypeOK, Pcs, Panics
  <2>3. Pending(c)' = Pending(c)
    BY <2>1 DEF Pending, IInv, TypeOK
  <2>4. /\ where = "panic_release" => arg[c] \notin held[c]
        /\ where = "release_clear" => arg[c] \in held[c]
    BY <2>1, <2>2, HoldingFacts
  <2> HIDE DEF where
  <2> QED
    BY <2>1, <2>2, <2>3, <2>4, MoveStep
<1>4. ASSUME NEW l \in Locks, release(c, l)
      PROVE  IInv'
  <2> DEFINE where == IF locked[l] THEN "release_holding_cpu" ELSE "panic_release"
  <2>1. /\ pc[c] = "idle" /\ pc' = [pc EXCEPT ![c] = where]
        /\ arg' = [arg EXCEPT ![c] = l]
        /\ UNCHANGED <<locked, lkcpu, noff, intena, spie, bare, enabled, held>>
    BY <1>4 DEF release
  <2>2. /\ where \in Pcs /\ where \in {"release_holding_cpu", "panic_release"}
    BY DEF IInv, TypeOK, Pcs, Panics
  <2>3. /\ arg' \in [Cpus -> Locks] /\ arg'[c] = l
        /\ \A d \in Cpus : d # c => arg'[d] = arg[d]
    BY <1>4, <2>1 DEF IInv, TypeOK
  <2>4. Pending(c)' = Pending(c)
    BY <2>1 DEF Pending, IInv, TypeOK
  <2>5. where = "panic_release" => l \notin held[c]
    BY <1>4, <2>2, HoldingFacts
  <2> HIDE DEF where
  <2> QED
    BY <2>1, <2>2, <2>3, <2>4, <2>5, MoveStep
<1> QED
  BY <1>1, <1>2, <1>3, <1>4

-----------------------------------------------------------------------------
(* Steps that write lk->locked or lk->cpu.                                  *)

\* Taking the lock word keeps the invariant.
LEMMA TasStep ==
    ASSUME IInv, NEW c \in Cpus, acquire_tas(c)
    PROVE  IInv'
<1>1. /\ pc[c] = "acquire_tas" /\ ~locked[arg[c]] /\ arg[c] \in Locks
      /\ locked' = [locked EXCEPT ![arg[c]] = TRUE]
      /\ held' = [held EXCEPT ![c] = @ \union {arg[c]}]
      /\ pc' = [pc EXCEPT ![c] = "acquire_owner"]
      /\ UNCHANGED <<lkcpu, noff, intena, spie, bare, enabled, arg>>
  BY DEF acquire_tas, At, Goto, cpuVars, IInv, TypeOK
<1>2. \A d \in Cpus : arg[c] \notin held[d]
  BY <1>1, HoldingFacts
<1>3. /\ held'[c] = held[c] \union {arg[c]}
      /\ \A d \in Cpus : d # c => held'[d] = held[d] /\ pc'[d] = pc[d]
      /\ pc'[c] = "acquire_owner"
  BY <1>1 DEF IInv, TypeOK
<1>4. TypeOK'
  BY <1>1 DEF IInv, TypeOK, Pcs
<1>5. LockInv'
  <2>1. \A l \in Locks : locked'[l] <=> \E d \in Cpus : l \in held'[d]
    <3> SUFFICES ASSUME NEW l \in Locks
                 PROVE  locked'[l] <=> \E d \in Cpus : l \in held'[d]
      OBVIOUS
    <3>1. CASE l = arg[c]
      BY <3>1, <1>1, <1>3 DEF IInv, TypeOK
    <3>2. CASE l # arg[c]
      <4>1. locked'[l] = locked[l] /\ \A d \in Cpus : l \in held'[d] <=> l \in held[d]
        BY <3>2, <1>1, <1>3 DEF IInv, TypeOK
      <4> QED
        BY <4>1 DEF IInv, LockInv
    <3> QED
      BY <3>1, <3>2
  <2>2. \A d, e \in Cpus, l \in Locks : l \in held'[d] /\ l \in held'[e] => d = e
    BY <1>2, <1>3 DEF IInv, LockInv
  <2>3. \A d \in Cpus, l \in Locks : lkcpu'[l] = d => l \in held'[d]
    BY <1>1, <1>3 DEF IInv, LockInv
  <2>4. \A d \in Cpus, l \in Locks : l \in held'[d] =>
          \/ lkcpu'[l] = d
          \/ pc'[d] \in {"acquire_owner", "release_unlock"} /\ arg'[d] = l
    BY <1>1, <1>3 DEF IInv, LockInv
  <2> QED
    BY <2>1, <2>2, <2>3, <2>4 DEF LockInv
<1>6. PlaceInv'
  BY <1>1, <1>3 DEF IInv, PlaceInv
<1>7. CountInv'
  <2>1. IsFiniteSet(held'[c]) /\ Cardinality(held'[c]) = Cardinality(held[c]) + 1
    <3>1. arg[c] \notin held[c] /\ IsFiniteSet(held[c])
      BY <1>2, CountFacts
    <3>2. /\ IsFiniteSet(held[c] \union {arg[c]})
          /\ Cardinality(held[c] \union {arg[c]}) = Cardinality(held[c]) + 1
      BY <3>1, FS_AddElement
    <3> QED
      BY <3>2, <1>3
  <2>2. Pending(c) = 1 /\ Pending(c)' = 0
    <3>1. Pending(c) = 1
      BY <1>1 DEF Pending
    <3>2. Pending(c)' = 0
      BY <1>3 DEF Pending
    <3> QED
      BY <3>1, <3>2
  <2>3. noff'[c] = Cardinality(held'[c]) + bare'[c] + Pending(c)'
    BY <1>1, <2>1, <2>2, CountFacts
  <2>4. /\ noff[c] > 0 => ~spie[c] /\ intena[c] = enabled[c]
        /\ noff[c] = 0 => spie[c] = enabled[c]
    BY DEF IInv, CountInv
  <2> QED
    BY <1>1, <1>3, <2>1, <2>3, <2>4, CountLocal
<1> QED
  BY <1>4, <1>5, <1>6, <1>7 DEF IInv

\* Clearing the lock word keeps the invariant.
LEMMA UnlockStep ==
    ASSUME IInv, NEW c \in Cpus, release_unlock(c)
    PROVE  IInv'
<1>1. /\ pc[c] = "release_unlock" /\ arg[c] \in Locks /\ arg[c] \in held[c] /\ lkcpu[arg[c]] # c
      /\ locked' = [locked EXCEPT ![arg[c]] = FALSE]
      /\ held' = [held EXCEPT ![c] = @ \ {arg[c]}]
      /\ pc' = [pc EXCEPT ![c] = "release_pop"]
      /\ UNCHANGED <<lkcpu, noff, intena, spie, bare, enabled, arg>>
  BY DEF release_unlock, At, Goto, cpuVars, IInv, TypeOK, PlaceInv
<1>2. \A d \in Cpus : d # c => arg[c] \notin held[d]
  BY <1>1 DEF IInv, LockInv
<1>3. /\ held'[c] = held[c] \ {arg[c]}
      /\ \A d \in Cpus : d # c => held'[d] = held[d] /\ pc'[d] = pc[d]
      /\ pc'[c] = "release_pop"
  BY <1>1 DEF IInv, TypeOK
<1>4. TypeOK'
  BY <1>1 DEF IInv, TypeOK, Pcs
<1>5. LockInv'
  <2>1. \A l \in Locks : locked'[l] <=> \E d \in Cpus : l \in held'[d]
    <3> SUFFICES ASSUME NEW l \in Locks
                 PROVE  locked'[l] <=> \E d \in Cpus : l \in held'[d]
      OBVIOUS
    <3>1. CASE l = arg[c]
      BY <3>1, <1>1, <1>2, <1>3 DEF IInv, TypeOK
    <3>2. CASE l # arg[c]
      <4>1. locked'[l] = locked[l] /\ \A d \in Cpus : l \in held'[d] <=> l \in held[d]
        BY <3>2, <1>1, <1>3 DEF IInv, TypeOK
      <4> QED
        BY <4>1 DEF IInv, LockInv
    <3> QED
      BY <3>1, <3>2
  <2>2. \A d, e \in Cpus, l \in Locks : l \in held'[d] /\ l \in held'[e] => d = e
    BY <1>3 DEF IInv, LockInv
  <2>3. \A d \in Cpus, l \in Locks : lkcpu'[l] = d => l \in held'[d]
    BY <1>1, <1>2, <1>3 DEF IInv, LockInv
  <2>4. \A d \in Cpus, l \in Locks : l \in held'[d] =>
          \/ lkcpu'[l] = d
          \/ pc'[d] \in {"acquire_owner", "release_unlock"} /\ arg'[d] = l
    BY <1>1, <1>3 DEF IInv, LockInv
  <2> QED
    BY <2>1, <2>2, <2>3, <2>4 DEF LockInv
<1>6. PlaceInv'
  BY <1>1, <1>3 DEF IInv, PlaceInv
<1>7. CountInv'
  <2>1. IsFiniteSet(held'[c]) /\ Cardinality(held'[c]) = Cardinality(held[c]) - 1
    <3>1. arg[c] \in held[c] /\ IsFiniteSet(held[c])
      BY <1>1, CountFacts
    <3> QED
      BY <3>1, <1>3, FS_RemoveElement
  <2>2. Pending(c) = 0 /\ Pending(c)' = 1
    BY <1>1, <1>3 DEF Pending
  <2>3. noff'[c] = Cardinality(held'[c]) + bare'[c] + Pending(c)'
    BY <1>1, <2>1, <2>2, CountFacts
  <2>4. /\ noff[c] > 0 => ~spie[c] /\ intena[c] = enabled[c]
        /\ noff[c] = 0 => spie[c] = enabled[c]
    BY DEF IInv, CountInv
  <2> QED
    BY <1>1, <1>3, <2>1, <2>3, <2>4, CountLocal
<1> QED
  BY <1>4, <1>5, <1>6, <1>7 DEF IInv

\* Writing lk->cpu after the lock was taken keeps the invariant.
LEMMA OwnerStep ==
    ASSUME IInv, NEW c \in Cpus, acquire_owner(c)
    PROVE  IInv'
<1>1. /\ pc[c] = "acquire_owner" /\ arg[c] \in Locks /\ arg[c] \in held[c]
      /\ lkcpu' = [lkcpu EXCEPT ![arg[c]] = c]
      /\ pc' = [pc EXCEPT ![c] = "idle"]
      /\ UNCHANGED <<locked, held, noff, intena, spie, bare, enabled, arg>>
  BY DEF acquire_owner, At, Goto, cpuVars, IInv, TypeOK, PlaceInv
<1>2. \A d \in Cpus : d # c => arg[c] \notin held[d]
  BY <1>1 DEF IInv, LockInv
<1>3. TypeOK'
  BY <1>1 DEF IInv, TypeOK, Pcs
<1>4. LockInv'
  <2>1. /\ \A l \in Locks : locked'[l] <=> \E d \in Cpus : l \in held'[d]
        /\ \A d, e \in Cpus, l \in Locks : l \in held'[d] /\ l \in held'[e] => d = e
    BY <1>1 DEF IInv, LockInv
  <2>2. \A d \in Cpus, l \in Locks : lkcpu'[l] = d => l \in held'[d]
    BY <1>1 DEF IInv, TypeOK, LockInv
  <2>3. \A d \in Cpus, l \in Locks : l \in held'[d] =>
          \/ lkcpu'[l] = d
          \/ pc'[d] \in {"acquire_owner", "release_unlock"} /\ arg'[d] = l
    BY <1>1, <1>2 DEF IInv, TypeOK, LockInv
  <2> QED
    BY <2>1, <2>2, <2>3 DEF LockInv
<1>5. PlaceInv'
  BY <1>1, <1>2 DEF IInv, TypeOK, PlaceInv
<1>6. CountInv'
  BY <1>1 DEF IInv, TypeOK, CountInv, Pending
<1> QED
  BY <1>3, <1>4, <1>5, <1>6 DEF IInv

\* Clearing lk->cpu before the lock is given up keeps the invariant.
LEMMA ClearStep ==
    ASSUME IInv, NEW c \in Cpus, release_clear(c)
    PROVE  IInv'
<1>1. /\ pc[c] = "release_clear" /\ arg[c] \in Locks /\ arg[c] \in held[c]
      /\ lkcpu' = [lkcpu EXCEPT ![arg[c]] = NoCpu]
      /\ pc' = [pc EXCEPT ![c] = "release_unlock"]
      /\ UNCHANGED <<locked, held, noff, intena, spie, bare, enabled, arg>>
  BY DEF release_clear, At, Goto, cpuVars, IInv, TypeOK, PlaceInv
<1>2. \A d \in Cpus : d # c => arg[c] \notin held[d]
  BY <1>1 DEF IInv, LockInv
<1>3. TypeOK'
  BY <1>1 DEF IInv, TypeOK, Pcs
<1>4. LockInv'
  <2>1. /\ \A l \in Locks : locked'[l] <=> \E d \in Cpus : l \in held'[d]
        /\ \A d, e \in Cpus, l \in Locks : l \in held'[d] /\ l \in held'[e] => d = e
    BY <1>1 DEF IInv, LockInv
  <2>2. \A d \in Cpus, l \in Locks : lkcpu'[l] = d => l \in held'[d]
    BY <1>1, SpinlockAssumption DEF IInv, TypeOK, LockInv
  <2>3. \A d \in Cpus, l \in Locks : l \in held'[d] =>
          \/ lkcpu'[l] = d
          \/ pc'[d] \in {"acquire_owner", "release_unlock"} /\ arg'[d] = l
    BY <1>1, <1>2 DEF IInv, TypeOK, LockInv
  <2> QED
    BY <2>1, <2>2, <2>3 DEF LockInv
<1>5. PlaceInv'
  BY <1>1, <1>2, SpinlockAssumption DEF IInv, TypeOK, PlaceInv
<1>6. CountInv'
  BY <1>1 DEF IInv, TypeOK, CountInv, Pending
<1> QED
  BY <1>3, <1>4, <1>5, <1>6 DEF IInv

\* A spinning or stopped CPU changes nothing.
LEMMA StutterStep ==
    ASSUME IInv, UNCHANGED vars
    PROVE  IInv'
<1> USE DEF vars, cpuVars
<1>1. TypeOK' /\ LockInv' /\ PlaceInv'
  BY DEF IInv, TypeOK, LockInv, PlaceInv
<1>2. CountInv'
  BY DEF IInv, CountInv, Pending
<1> QED
  BY <1>1, <1>2 DEF IInv

\* Every step keeps the invariant.
LEMMA NextIInv == IInv /\ [Next]_vars => IInv'
<1> SUFFICES ASSUME IInv, [Next]_vars
             PROVE  IInv'
  OBVIOUS
<1>1. ASSUME NEW c \in Cpus, Inside(c)
      PROVE  IInv'
  BY <1>1, ReadStep, TasStep, OwnerStep, ClearStep, UnlockStep, PopStep DEF Inside
<1>2. ASSUME NEW c \in Cpus, Call(c)
      PROVE  IInv'
  BY <1>2, PushStep, PopStep, SetStep, ReadStep DEF Call
<1>3. CASE UNCHANGED vars
  BY <1>3, StutterStep
<1> QED
  BY <1>1, <1>2, <1>3 DEF Next, acquire_spin, Stopped

-----------------------------------------------------------------------------
(* The theorems.                                                            *)

\* The inductive invariant holds in every reachable state of lib/spinlock.c.
THEOREM Invariance == Spec => []IInv
BY InitIInv, NextIInv, PTL DEF Spec

\* Lock words, per-CPU counters and places keep their types.
THEOREM TypeCorrect == Spec => []TypeOK
<1>1. IInv => TypeOK
  BY DEF IInv
<1> QED
  BY <1>1, Invariance, PTL

\* spinlock_holding, read in two parts, convicts exactly the callers that misuse a lock.
THEOREM HoldingExactHolds == Spec => []HoldingExact
<1>1. ASSUME IInv, NEW c \in Cpus, pc[c] \in {"panic_interruptible", "panic_unmatched"}
      PROVE  held[c] = {} /\ bare[c] = 0
  <2>1. noff[c] = 0
    BY <1>1 DEF IInv, CountInv
  <2>2. Cardinality(held[c]) = 0 /\ bare[c] = 0
    BY <1>1, <2>1, CountFacts
  <2> QED
    BY <1>1, <2>2, CountFacts
<1>2. IInv => HoldingExact
  BY <1>1 DEF IInv, PlaceInv, HoldingExact
<1> QED
  BY <1>2, Invariance, PTL

\* SPIE, the bit intr_get reads, stays clear while any lock or bare section is open, and comes
\* back as it was.
THEOREM EnableRestoredHolds == Spec => []EnableRestored
<1>1. ASSUME IInv, NEW c \in Cpus, held[c] # {} \/ bare[c] > 0 \/ pc[c] = "release_pop"
      PROVE  ~spie[c] /\ noff[c] > 0
  <2>1. Cardinality(held[c]) > 0 \/ bare[c] > 0 \/ Pending(c) > 0
    BY <1>1, CountFacts DEF Pending
  <2>2. noff[c] > 0
    BY <1>1, <2>1, CountFacts
  <2> QED
    BY <1>1, <2>2 DEF IInv, CountInv
<1>2. ASSUME IInv, NEW c \in Cpus, held[c] = {}, bare[c] = 0, pc[c] = "idle"
      PROVE  spie[c] = enabled[c] /\ noff[c] = 0
  <2>1. Cardinality(held[c]) = 0 /\ Pending(c) = 0
    BY <1>2, CountFacts DEF Pending
  <2>2. noff[c] = 0
    BY <1>2, <2>1, CountFacts
  <2> QED
    BY <1>2, <2>2 DEF IInv, CountInv
<1>3. IInv => EnableRestored
  BY <1>1, <1>2 DEF EnableRestored
<1> QED
  BY <1>3, Invariance, PTL

-----------------------------------------------------------------------------
(* Refinement: the store that succeeds in the test-and-set is the abstract  *)
(* Acquire, the store of 0 the abstract Release, everything else a stutter. *)

Holders == [l \in Locks |-> {c \in Cpus : l \in held[c]}]

\* Only a change of held changes the holders.
LEMMA SameHolders ==
    ASSUME held' = held
    PROVE  Holders' = Holders
BY DEF Holders

\* Every behaviour of the lock code, for any number of CPUs and locks, is one of
\* the abstract lock.
THEOREM MutexImplemented == Spec => ImplementsMutex
<1>1. Init => M!MutexInit
  BY DEF Init, M!MutexInit
<1>2. ASSUME IInv, [Next]_vars
      PROVE  [M!MutexNext]_Holders
  <2>1. ASSUME NEW c \in Cpus, acquire_tas(c)
        PROVE  /\ arg[c] \in Locks /\ Holders[arg[c]] = {}
               /\ Holders' = [Holders EXCEPT ![arg[c]] = {c}]
    <3>1. arg[c] \in Locks /\ ~locked[arg[c]] /\ held' = [held EXCEPT ![c] = @ \union {arg[c]}]
      BY <1>2, <2>1 DEF acquire_tas, IInv, TypeOK
    <3>2. \A d \in Cpus : arg[c] \notin held[d]
      BY <1>2, <3>1, HoldingFacts
    <3>3. Holders[arg[c]] = {}
      BY <3>1, <3>2 DEF Holders
    <3>4. \A l \in Locks : Holders'[l] = IF l = arg[c] THEN {c} ELSE Holders[l]
      BY <1>2, <2>1, <3>1, <3>2 DEF Holders, IInv, TypeOK
    <3>5. Holders' = [Holders EXCEPT ![arg[c]] = {c}]
      BY <3>1, <3>4 DEF Holders
    <3> QED
      BY <3>1, <3>3, <3>5
  <2>2. ASSUME NEW c \in Cpus, release_unlock(c)
        PROVE  /\ arg[c] \in Locks /\ Holders[arg[c]] = {c}
               /\ Holders' = [Holders EXCEPT ![arg[c]] = {}]
    <3>1. arg[c] \in Locks /\ arg[c] \in held[c] /\ held' = [held EXCEPT ![c] = @ \ {arg[c]}]
      BY <1>2, <2>2 DEF release_unlock, At, IInv, TypeOK, PlaceInv
    <3>2. \A d \in Cpus : d # c => arg[c] \notin held[d]
      BY <1>2, <3>1 DEF IInv, LockInv
    <3>3. Holders[arg[c]] = {c}
      BY <2>2, <3>1, <3>2 DEF Holders
    <3>4. \A l \in Locks : Holders'[l] = IF l = arg[c] THEN {} ELSE Holders[l]
      BY <1>2, <2>2, <3>1, <3>2 DEF Holders, IInv, TypeOK
    <3>5. Holders' = [Holders EXCEPT ![arg[c]] = {}]
      BY <3>1, <3>4 DEF Holders
    <3> QED
      BY <3>1, <3>3, <3>5
  <2>3. ASSUME NEW c \in Cpus, acquire_tas(c) \/ release_unlock(c)
        PROVE  M!MutexNext
    <3>1. \E d \in Cpus, l \in Locks :
            \/ Holders[l] = {} /\ Holders' = [Holders EXCEPT ![l] = {d}]
            \/ Holders[l] = {d} /\ Holders' = [Holders EXCEPT ![l] = {}]
      BY <2>1, <2>2, <2>3
    <3> QED
      BY <3>1, Zenon DEF M!MutexNext, M!Acquire, M!Release, Holders
  <2>4. \/ \E c \in Cpus : acquire_tas(c) \/ release_unlock(c)
        \/ held' = held
    BY <1>2 DEF Next, Inside, Call, Stopped, vars, push_off, pop_off, intr_set, acquire,
                acquire_holding, acquire_holding_cpu, acquire_spin, acquire_owner, release,
                release_holding_cpu, release_clear, release_pop
  <2> QED
    BY <2>3, <2>4, SameHolders
<1> QED
  BY <1>1, <1>2, Invariance, PTL DEF Spec, ImplementsMutex, M!MutexSpec, Holders
=============================================================================
