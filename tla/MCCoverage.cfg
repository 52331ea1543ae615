SPECIFICATION Spec
CONSTANTS
    MaxU64 = 3
    Files = {0}
    Lengths = {2, 3}
    Offsets <- UpTo3
    MaxClaims = 3
INVARIANTS
    TypeOK
    Forest
    AcceptedIsPartition
    RefusalIsTrue
PROPERTIES
    FillLeavesNoHole
    FillOnlyAddsFiller
    ImplementsContract
CHECK_DEADLOCK FALSE
