SPECIFICATION Spec
CONSTANTS
    g1 = g1
    g2 = g2
    p1 = p1
    Calls <- MCCalls
    Idempotent <- MCIdempotent
    MaxAttempts = 2
    InitialInterval = 4
    BackoffCoefficient = 2
    MaxInterval = 3
    Width = 8
    ConsecutiveFailures = 2
    MaxRequests = 1
    MaxGenerations = 5
CHECK_DEADLOCK FALSE
PROPERTY SendsWithReason
 
