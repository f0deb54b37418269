CONSTANTS
    Writers = {w1, w2}
    LogThread = lt
    MaxLines = 2
    Switching = TRUE
    Stopping = TRUE
    max_queue_size = 2
    None = None
SPECIFICATION FairSpec
INVARIANTS EachLineInOnePlace WriterOrder
PROPERTIES QueuedLineWritten StopReturnsUnlessIdle
\* When all lines are logged nothing is left to do.
CHECK_DEADLOCK FALSE
