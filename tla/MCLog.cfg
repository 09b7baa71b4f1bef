SPECIFICATION LiveSpec
CONSTANTS
    Proc = {p1, p2}
    InitProc = p1
    Readers = {p2}
    Block = {b1, b2}
    Value = {v1, v2}
    p1 = p1
    p2 = p2
    b1 = b1
    b2 = b2
    v1 = v1
    v2 = v2
    NoProc = NoProc
    NoValue = NoValue
    NoBlock = NoBlock
    MAXOPBLOCKS = 1
    OpBlocks = 1
    nlog = 4
INVARIANTS QuiescentDurable PinBalance SpaceReserved
PROPERTIES RefinesAtomicDisk BeginOpReturns
