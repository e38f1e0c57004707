\* One process is enough: it yields and nobody else is there.
SPECIFICATION Spec
CONSTANTS
    FREE_RAM = 1
    FREE_RAM_END = 7
    PFN_SPACE = 16
    MAX_PAGES = 3
    PROC_MAX = 2
    NULL = NULL
    WORK = 2
    MAP_PAGES = 1
    ENTRIES <- MCMixed
INVARIANT
    CurrentIsRunning
