SPECIFICATION Spec
CHECK_DEADLOCK FALSE
CONSTANTS
    h1 = h1
    h2 = h2
    h3 = h3
    Hart = {h1, h2, h3}
    NoHart = NoHart
    Booted = {h1, h2, h3}
    a1 = a1
    a2 = a2
    Addr = {a1, a2}
    BootAddr = a1
    Entries = 1
    MaxWord = 7
    FlushLimit = 3
    Fence <- MCFence
    Fences <- MCFences
    Notices <- MCNotices
    Starts <- MCStarts
    Suspends <- MCSuspends
    Stops = {h3}
    MaxCalls = 2
INVARIANT EveryFenceDone
