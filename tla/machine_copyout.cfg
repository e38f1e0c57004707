\* The instance of machine.cfg: what copyout may write.
SPECIFICATION TrapSpec
CONSTANTS
    FREE_RAM = 25
    FREE_RAM_END = 52
    PFN_SPACE = 64
    MAX_PAGES = 10
    PROC_MAX = 3
    NULL = NULL
    WORK = 0
    MAP_PAGES = 8
    ENTRIES <- MCEntries
    PAGE_WORDS = 8
    KERNEL_BASE = 24
    USER_BASE = 7
    IMAGE <- MCImage
    Vals = {0, 1}
    Stores <- MCStores
PROPERTIES
    CopyoutWritesUserSpace
