SPECIFICATION GrabSpec
CONSTANTS
    Roms <- KeyRoms
    MaxFuncs = 4
    MaxSize = 5
PROPERTIES
    SkippedJumpGoesOn
CHECK_DEADLOCK FALSE
