CONSTANTS
    Methods <- MethodWords
    Names = {"a", "b"}
    Values = {"v", "w"}
    Queries <- ParamLists
    MaxHeaders = 2
    MaxReads = 2
    BUFSIZE = 40
    ContentSize = 13
SPECIFICATION Spec
INVARIANTS CutsDecide OnePiece NotEarly MethodIsFound
CHECK_DEADLOCK FALSE
