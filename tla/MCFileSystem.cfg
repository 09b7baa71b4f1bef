SPECIFICATION Spec
SYMMETRY Symmetry
CONSTANTS
    a = a
    b = b
    Thread = {t1, t2}
    NoThread = NoThread
    NInode = 3
    Name = {a, b}
    DotDot = DotDot
    Slash = Slash
    Paths <- MeetingPaths
INVARIANTS
    TypeOK
    NoPanic
    PutNeverBlocks
    NoWaitCycle
    RefCounts
    LinksCovered
