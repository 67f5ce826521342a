SPECIFICATION LoopedSpec
CONSTANTS
    Roms <- BlockedRoms
    ExecBufferSize = 100
    MaxEvents = 2
PROPERTIES
    QuitServed
CHECK_DEADLOCK FALSE
