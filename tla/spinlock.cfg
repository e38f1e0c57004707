\* Two CPUs, two locks, push_off nested up to three deep (two locks and one more).
SPECIFICATION Spec
CONSTANTS
    Cpus = {c1, c2}
    Locks = {l1, l2}
    NoCpu = NoCpu
    MAX_NOFF = 3
INVARIANTS
    TypeOK
    HoldingExact
    EnableRestored
PROPERTIES
    HandOver
    ImplementsMutex
