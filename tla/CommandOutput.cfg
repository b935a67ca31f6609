\* A child that writes more to each stream than a pipe holds or a read takes,
\* and pipes that may refuse the non-blocking mode.
CONSTANTS
    PipeSize = 2
    Chunk = 2
    MaxWrite = 3
    MaxIntr = 1
    NonblockMayFail = TRUE
SPECIFICATION OutSpec
CHECK_DEADLOCK FALSE
INVARIANTS CompleteCapture
PROPERTIES OutputReturns
