SPECIFICATION Spec
SYMMETRY Symmetry
CHECK_DEADLOCK FALSE
CONSTANTS
    Proc = {p1, p2}
    Block = {b1, b2, b3, b4}
    v0 = v0
    Value = {v0, v1}
    InitDisk <- MCDisk
    NoProc = NoProc
    NoBlock = NoBlock
    NBUF = 3
    MaxPins = 2
INVARIANTS
    TypeOK
    RefCounts
    SleepersWoken
    PanicsOnlyWhenFull
PROPERTY
    RefinesLockedBlocks
