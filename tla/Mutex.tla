------------------------------- MODULE Mutex -------------------------------
(***************************************************************************)
(* What a spinlock promises: a lock goes to one CPU at a time, and only    *)
(* the CPU that has it gives it up.                                        *)
(***************************************************************************)
CONSTANTS Cpus, Locks

VARIABLE holders    \* the CPUs that hold each lock

MutexInit == holders = [l \in Locks |-> {}]

Acquire(c, l) ==
    /\ holders[l] = {}
    /\ holders' = [holders EXCEPT ![l] = {c}]

Release(c, l) ==
    /\ holders[l] = {c}
    /\ holders' = [holders EXCEPT ![l] = {}]

MutexNext == \E c \in Cpus, l \in Locks : Acquire(c, l) \/ Release(c, l)

MutexSpec == MutexInit /\ [][MutexNext]_holders
=============================================================================
