SPECIFICATION Spec
SYMMETRY Symmetry
CONSTANTS
    NPROC = 3
    Cpu = {c1, c2}
    NoCpu = NoCpu
    KillPids = {0, 2}
PROPERTY
    BornAlive
