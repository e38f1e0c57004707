\* Four slots, every mix of workers and user processes; the RAM holds four
\* processes, and a fifth finds no slot.
SPECIFICATION Spec
CONSTANTS
    FREE_RAM = 1
    FREE_RAM_END = 13
    PFN_SPACE = 32
    MAX_PAGES = 3
    PROC_MAX = 4
    NULL = NULL
    WORK = 2
    MAP_PAGES = 1
    ENTRIES <- MCMixed
INVARIANTS
    TypeOK
    OneRunning
    CpuMatchesCurrent
    PrivateResources
    ContextIntegrity
    SchedulerNeverPanics
PROPERTIES
    RoundRobin
    NoStarvation
