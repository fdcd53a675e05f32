SPECIFICATION Spec
CONSTANTS
    c1 = c1
    c2 = c2
    p1 = p1
    p2 = p2
    u1 = u1
    x = x
    y = y
    NoFile = NoFile
    NoCall = NoCall
    Calls = {c1, c2}
    Paths <- MCPaths
    Uploads <- MCUploads
    PathOf <- MCPathOf
    Numbers = {1, 2}
    ChunkLists <- MCChunkLists
    Contents <- MCContents
    MaxCrashes = 1
SYMMETRY MCSymmetry
CHECK_DEADLOCK FALSE
 
PROPERTY ImplementsStore
