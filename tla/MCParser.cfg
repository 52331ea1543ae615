SPECIFICATION ParserSpec
CONSTANTS
    MaxU64 = 40
    Files = {0}
    Lengths = {}
    Offsets = {}
    MaxClaims = 100
    Elfs <- AllElfs
    IdentTable <- Pair
    EhdrTable <- PairAfter
    PhdrTable <- Pair
    ShdrTable <- Pair
    SizeField = 1
    InfoField = 2
    PN_XNUM = 9
    MaxU32 = 20
    EntrySize <- Sizes
    WordBytes = 2
    RelrBits = 2
    NoteHeader = 3
    NoteAlign = 2
    HoleWorth = 2
    HoleLarge = 4
INVARIANTS
    NoClaimIsRefused
    OverlapIsTheFiles
    RelrIsUnpacked
    InitArrayIsPaired
    HoverIsTheLeaf
    BandsTile
    StatsCountBytes
    AppendedIsReported
PROPERTIES
    ParseReturns
CHECK_DEADLOCK FALSE
