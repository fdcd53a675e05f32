SPECIFICATION FairFutureSpec
CONSTANTS
    c1 = c1
    c2 = c2
    c3 = c3
    t1 = t1
    t2 = t2
    t3 = t3
    g1 = g1
    g2 = g2
    v1 = v1
    e1 = e1
    Outside = Outside
    Nil = Nil
    Free = Free
    Ok = Ok
    ErrNotStarted = ErrNotStarted
    CtxErr = CtxErr
    Callers <- MCCallers
    Tasks <- MCTasks
    Batch <- MCBatch
    Parent <- MCParent
    OnDefault <- MCOnDefault
    Getters <- MCGetters
    Target <- MCTarget
    Results <- MCResults
    Size = 1
    MaxStarts = 1
CHECK_DEADLOCK FALSE
PROPERTY FuturesSettle
