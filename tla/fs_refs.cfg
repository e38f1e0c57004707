\* One open and one close are enough.
SPECIFICATION Spec
CONSTANTS
    NULL = NULL
    DISK_NBLOCKS = 12
    BSIZE = 3
    INODESTART = 2
    BMAPSTART = 4
    IPB = 4
    NDIRECT = 2
    NINODE = 4
    Inums = {1, 2}
    Disk <- MCShipped
    Names <- MCNames
    Elem <- MCElem
    Procs = {p1}
    NFILE = 2
    NOFILE = 2
    KBUF = 2
    Paths <- MCHelloOnly
    Omodes <- MCReadOnly
    Sizes = {2}
    HelloPath <- MCHello
    MAX_OPENS = 1
PROPERTIES
    ReferenceReturned
