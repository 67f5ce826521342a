SPECIFICATION Spec
CONSTANTS
    Roms <- NoRoms
    Files <- KeyFiles
    SizeRange = 256
    MaxDepth = 5
PROPERTIES
    SkippedJumpGoesOn
CHECK_DEADLOCK FALSE
