\* One worker and one other process are enough to see an exited process run.
SPECIFICATION Spec
CONSTANTS
    FREE_RAM = 1
    FREE_RAM_END = 7
    PFN_SPACE = 16
    MAX_PAGES = 3
    PROC_MAX = 2
    NULL = NULL
    WORK = 2
    MAP_PAGES = 1
    ENTRIES <- MCMixed
INVARIANT
    ExitedNeverRuns
