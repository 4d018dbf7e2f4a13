SPECIFICATION FairSpec
CONSTANTS
    Node = {0, 1, 2}
    Tables <- RowAndLoop
    INIT_TTL = 1
    Stray = Stray
    None = None
    Origin <- ThereAndBack
    MaxFrames = 2
    MaxDamage = 1
CHECK_DEADLOCK FALSE
INVARIANTS
    TypeOK
    HopsBounded
    AllArrive
PROPERTIES
    FallsSilent
    ImplementsLine
