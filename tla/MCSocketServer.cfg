SPECIFICATION FairSpec
CONSTANTS
    k1 = k1
    k2 = k2
    Peers <- MCPeers
    Transports <- MCTransports
    MaxStarts = 2
CHECK_DEADLOCK FALSE
INVARIANT HandlerClosedLast
 
 
PROPERTY StopEndsStart
