SPECIFICATION Spec
CONSTANTS
    p1 = p1
    p2 = p2
    None = None
    Partitions <- MCPartitions
    Undecodable <- MCUndecodable
    EndOffset <- MCEndOffset
    MaxPoll = 2
    Configs <- MCOneAttempt
INVARIANT NeverPastFailed
