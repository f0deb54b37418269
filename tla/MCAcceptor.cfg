\* Two connections on a queue with one place; requests of one chunk, and
\* files that may be missing.
CONSTANTS
    Conn = {c1, c2}
    Workers = {w1, w2}
    max_queue_size = 1
    Chunk = {"last"}
    MaxChunks = 1
    MaxFiles = 3
    MissingFiles = TRUE
SPECIFICATION FairSpec
\* Without clients the server only waits.
CHECK_DEADLOCK FALSE
INVARIANT NeverForgotten
PROPERTIES RequestAnswered ClosedIsDeleted
