\* User processes only, up to seven in eight slots: the RAM holds seven processes
\* and part of an eighth.
SPECIFICATION Spec
CONSTANTS
    FREE_RAM = 1
    FREE_RAM_END = 23
    PFN_SPACE = 32
    MAX_PAGES = 3
    PROC_MAX = 8
    NULL = NULL
    WORK = 0
    MAP_PAGES = 1
    ENTRIES <- MCUsers
PROPERTIES
    ImplementsRotation
    RotationGoesOn
