SPECIFICATION FairSpec
CONSTANTS
    g1 = g1
    g2 = g2
    s1 = s1
    c1 = c1
    c2 = c2
    v1 = v1
    v2 = v2
    e1 = e1
    Getters <- MCGetters
    Subscribers <- MCSubscribers
    Completers <- MCCompleters
    Values <- MCValues
    Errors <- MCErrors
    Nil = Nil
    Free = Free
    CtxErr = CtxErr
    ErrChannelClosed = ErrChannelClosed
    ErrPromiseResolved = ErrPromiseResolved
    ErrAlreadyResolved = ErrAlreadyResolved
    ErrNilError = ErrNilError
    Ok = Ok
CHECK_DEADLOCK FALSE
INVARIANT RegisteredChannelsOpen
INVARIANT SingleWinner
PROPERTY ImplementsCell
PROPERTY CallsReturn
