SPECIFICATION HSpec
CONSTANTS
    Roms <- AllRoms
    ExecBufferSize = 120
    TimerRange = 4
INVARIANTS
    TypeOK
    StackHoldsCallSites
    BufferDelivers
PROPERTIES
    ImplementsInterp
CHECK_DEADLOCK FALSE
