SPECIFICATION Spec
SYMMETRY Symmetry
CONSTANTS
    Proc = {p1, p2, p3}
    Value = {v0, v1}
    InitValue = v0
    NoProc = NoProc
    Intr = Intr
    NUM = 8
    IDX = 16
INVARIANTS
    TypeOK
    DescriptorsOwned
    NoLostCompletion
    NoLostDescriptors
PROPERTY
    RefinesSyncDisk
