CONSTANTS
    c1 = c1  c2 = c2  w1 = w1  w2 = w2  host1 = host1  host2 = host2
    Conn = {c1, c2}
    IP = {host1, host2}
    ip <- TwoHosts
    Workers = {w1, w2}
    Setups <- ShortOrSequential
SPECIFICATION FairSpec
INVARIANTS NothingForgotten RelationsSound
PROPERTIES EveryMessageRead ClosedIsDeleted
\* Without clients the server only waits.
CHECK_DEADLOCK FALSE
