\* Two processes with two descriptors each, three files in the system, a cache
\* of four slots for the five inodes that the paths lead to.
SPECIFICATION Spec
CONSTANTS
    NULL = NULL
    DISK_NBLOCKS = 12
    BSIZE = 3
    INODESTART = 2
    BMAPSTART = 4
    IPB = 4
    NDIRECT = 2
    NINODE = 4
    Inums = {1, 2, 3, 4, 99}
    Disk <- MCDisk
    Names <- MCNames
    Elem <- MCElem
    Procs = {p1, p2}
    NFILE = 3
    NOFILE = 2
    KBUF = 2
    Paths <- MCPaths
    Omodes <- MCOmodes
    Sizes = {3}
    HelloPath <- MCHello
    MAX_OPENS = 4
INVARIANTS
    TypeOK
    TableExact
    CacheCoherent
    OpenFilesPinned
    NoFault
PROPERTIES
    ImplementsDescriptors
VIEW MCView
