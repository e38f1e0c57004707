\* One process with two descriptors and two files, every path, mode and size.
SPECIFICATION Spec
CONSTANTS
    NULL = NULL
    DISK_NBLOCKS = 12
    BSIZE = 3
    INODESTART = 2
    BMAPSTART = 4
    IPB = 4
    NDIRECT = 2
    NINODE = 4
    Inums = {1, 2, 3, 4, 99}
    Disk <- MCDisk
    Names <- MCNames
    Elem <- MCElem
    Procs = {p1}
    NFILE = 2
    NOFILE = 2
    KBUF = 2
    Paths <- MCAllPaths
    Omodes <- MCAllOmodes
    Sizes = {0, 1, 2, 3}
    HelloPath <- MCHello
    MAX_OPENS = 2
PROPERTIES
    ImplementsDescriptors
VIEW MCView
