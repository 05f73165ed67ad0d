CONSTANTS
    Threads = {t1}
    NumWorkers = 2
    Shapes <- AllShapes
    HolderQueries = 2
    MaxOps = 3
    MaxMixed = 2
    MaxStmts = 1
    Limited = TRUE
SPECIFICATION FairSpec
INVARIANTS TypeOK ExecutedOnce HaltDrains LoginSeesSaves SerialOrder CallbackOnce UnsafeInOrder
PROPERTIES CallbackRuns StopReturns
