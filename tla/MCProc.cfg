SPECIFICATION LiveSpec
CONSTANTS
    NPROC = 3
    Cpu = {c1, c2}
    NoCpu = NoCpu
    KillPids = {2}
INVARIANTS
    InterruptsMatched
    StackSafe
    NoLostWakeup
    ParentsLive
    SchedLocks
PROPERTIES
    BornAlive InitReaps
