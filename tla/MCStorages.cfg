SPECIFICATION Spec
CONSTANTS
    p1 = p1
    p2 = p2
    x = x
    y = y
    NoFile = NoFile
    NoCall = NoCall
    N = 3
    Paths <- MCPaths
    Contents <- MCContents
    UploadPath = p1
    ChunkData <- MCChunkData
    MaxCalls = 6
    MaxFaults = 2
    Clients = {c1, c2}
    Backends = {"gcs", "s3"}
    Names = {"dir/a", "dir2"}
    Dirs = {"dir"}
    Matches <- MCMatches
    Data = {"small", "large"}
    LargeData = {"large"}
    Uploads = {"u1", "u2"}
    TargetOf <- MCTargetOf
    ChunkNumbers = {1, 2, 3, 4, 5}
    ChunkLists <- MCLists
    Seeds <- MCSeeds
    ComposeLimit = 2
    MaxAttempts = 2
    MaxObjectCalls = 2
INVARIANT NilMeansEverywhere
INVARIANT FailureIsUndone
INVARIANT MoveLosesNothing
INVARIANT WholeObjects
INVARIANT ChunksSurvive
PROPERTY NilMeansDone
CHECK_DEADLOCK FALSE
