SPECIFICATION LiveSpec
\* In the end every process may have closed the pipe.
CHECK_DEADLOCK FALSE
CONSTANTS
    Proc = {p1, p2}
    Killable = {p1}
    NoProc = NoProc
    Byte = {x, y}
    NoByte = NoByte
    PIPESIZE = 2
    UINT = 4
    MaxCount = 3
INVARIANTS
    TypeOK
    NoUseAfterFree
    SleepersHaveReason
PROPERTIES
    RefinesByteQueue
    ReadersSeeEOF
    WritersSeeEPIPE
