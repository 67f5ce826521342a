SPECIFICATION HSpec
CONSTANTS
    Roms <- SmallRoms
    MaxFuncs = 4
    MaxSize = 6
    MaxNodes = 9
    MaxCalls = 17
INVARIANTS
    MachineTypeOK
    SkipsLandBehind
PROPERTIES
    ImplementsInterp
CHECK_DEADLOCK FALSE
