CONSTANTS
    Threads = {t1}
    NumWorkers = 1
    Shapes <- UnsafeShapes
    HolderQueries = 1
    MaxOps = 2
    MaxMixed = 2
    MaxStmts = 0
    Limited = TRUE
SPECIFICATION Spec
INVARIANT CancelsScheduled
