SPECIFICATION Spec
SYMMETRY Symmetry
CONSTANTS
    a = a
    b = b
    Thread = {t1, t2}
    NoThread = NoThread
    NInode = 3
    Name = {a}
    DotDot = DotDot
    Slash = Slash
    Paths <- ParentPaths
INVARIANT
    NoPanic
