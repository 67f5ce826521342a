SPECIFICATION Spec
CONSTANTS
    Roms <- AllRoms
    TimerRange = 4
INVARIANTS
    TypeOK
    StackHoldsCallSites
CHECK_DEADLOCK FALSE
