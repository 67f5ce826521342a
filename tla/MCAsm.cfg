SPECIFICATION Spec
CONSTANTS
    Roms <- NoRoms
    Sources <- AllSources
    MaxLineLen = 5
    PcRange = 526
    Opcodes <- FewOpcodes
    a = a
    b = b
INVARIANTS
    TypeOK
    PatchesAwaited
    Reassembles
PROPERTIES
    ImplementsTwoPass
CHECK_DEADLOCK FALSE
