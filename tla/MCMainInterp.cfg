SPECIFICATION LoopedSpec
CONSTANTS
    Roms <- LoopRoms
    TimerRange = 64
    MaxEvents = 2
PROPERTIES
    QuitServed
    WaitEnds
CHECK_DEADLOCK FALSE
