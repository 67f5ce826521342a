SPECIFICATION LoopedSpec
CONSTANTS
    Roms <- SpinningRoms
    ExecBufferSize = 100
    MaxEvents = 2
PROPERTIES
    QuitServed
CHECK_DEADLOCK FALSE
