\* Three nodes and two heads; bytes for words; a line of three characters.
SPECIFICATION LibrarySpec
CONSTANTS
    Nodes = {a, b, c}
    Heads = {h, g}
    NULL = NULL
    MAX_VISITS = 4
    BITS = 8
    Formats <- MCFormats
    Args <- MCArgs
    Arrays <- MCArrays
    KPATH = 6
    DIRSIZ = 3
    UserPaths <- MCUserPaths
    Dirents <- MCDirents
    BUF_SIZE = 4
    CAT_SIZE = 3
    Printable = {97, 98}
    hello <- MCHello
    exit <- MCExit
    kinako <- MCKinako
    cat <- MCCat
    Texts <- MCTexts
INVARIANTS
    ListTypeOK
    QueriesExact
    WalkComplete
    StringsExact
    PathSplit
    NameFound
    DecimalExact
    HexReadable
    StaysInFormat
    ShellTypeOK
    ScreenShowsLine
    CatCloses
PROPERTIES
    ImplementsSequences
    RunsWhatWasTyped
