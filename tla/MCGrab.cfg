SPECIFICATION GrabSpec
CONSTANTS
    Roms <- SmallRoms
    MaxFuncs = 4
    MaxSize = 5
INVARIANTS
    TypeOK
    GrabbedOnce
    TargetsGrabbed
    ReachableIsGrabbed
PROPERTIES
    Terminates
CHECK_DEADLOCK FALSE
