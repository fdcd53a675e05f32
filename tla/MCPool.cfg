SPECIFICATION FairSpec
CONSTANTS
    c1 = c1
    c2 = c2
    c3 = c3
    t1 = t1
    t2 = t2
    t3 = t3
    t4 = t4
    Outside = Outside
    Nil = Nil
    Free = Free
    Ok = Ok
    ErrNotStarted = ErrNotStarted
    Callers <- MCCallers
    Tasks <- MCTasks
    Batch <- MCBatch
    Parent <- MCParent
    Size = 1
    MaxStarts = 2
CHECK_DEADLOCK FALSE
INVARIANT NoSendOnClosed
INVARIANT TasksAreAccounted
PROPERTY CallsReturn
PROPERTY StopDrains
