CONSTANTS
    m_size = 2
    MaxTasks = 3
    MaxRounds = 2
    ClearModes <- AllClearModes
    ErrorModes <- AllErrorModes
    Queues <- BothQueues
SPECIFICATION FairSpec
INVARIANTS TypeOK ExactlyOnce QuietWhenResolved NoRerun OwnerFindsReady
PROPERTIES ImplementsBarrier OwnerReturns
\* under TERMINATE a task that throws leaves the owner waiting for good:
\* loop_wrapper ends the thread without --m_active
CHECK_DEADLOCK FALSE
