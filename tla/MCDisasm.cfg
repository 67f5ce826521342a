SPECIFICATION FairSpec
CONSTANTS
    Roms <- NoRoms
    Files <- SmallFiles
    SizeRange = 12
    MaxDepth = 5
INVARIANTS
    TypeOK
    NoReentry
    ReachableIsPrinted
    TextFits
PROPERTIES
    Terminates
CHECK_DEADLOCK FALSE
