\* As library.cfg.  The comment in kprint_u64_hex against what it puts out.
SPECIFICATION LibrarySpec
CONSTANTS
    Nodes = {a, b, c}
    Heads = {h, g}
    NULL = NULL
    MAX_VISITS = 4
    BITS = 8
    Formats <- MCFormats
    Args <- MCArgs
    Arrays <- MCArrays
    KPATH = 6
    DIRSIZ = 3
    UserPaths <- MCUserPaths
    Dirents <- MCDirents
    BUF_SIZE = 4
    CAT_SIZE = 3
    Printable = {97, 98}
    hello <- MCHello
    exit <- MCExit
    kinako <- MCKinako
    cat <- MCCat
    Texts <- MCTexts
INVARIANTS
    HexFitsWidth
