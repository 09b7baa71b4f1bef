SPECIFICATION Spec
CONSTANTS
    Proc = {p1, p2, p3}
    InitProc = p1
    Readers = {}
    Block = {b1, b2, b3}
    Value = {v1}
    p1 = p1
    p2 = p2
    p3 = p3
    b1 = b1
    b2 = b2
    b3 = b3
    v1 = v1
    NoProc = NoProc
    NoValue = NoValue
    NoBlock = NoBlock
    MAXOPBLOCKS = 1
    OpBlocks = 1
    nlog = 3
SYMMETRY Symmetry
INVARIANTS NoPanic
