CONSTANTS
    Key = {1, 2, 3, 4, 5, 6}
    Null = Null
    N = N
    Ops = {"splay", "insert", "delete"}
SPECIFICATION FairSpec
INVARIANTS HoldsTheKeys SizesExact SplitInOrder KeyOrNeighbour
PROPERTIES OperationReturns
