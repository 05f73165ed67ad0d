CONSTANTS
    Operations <- AllOperations
    MaxLosses = 3
SPECIFICATION FairSpec
INVARIANTS TypeOK NoOpenTransaction AtomicUntilLoss
PROPERTIES Recovers
