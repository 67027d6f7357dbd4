CONSTANTS
    Tags <- MCTags
    UnknownTag = "unknown"
    Writable = {"d0"}
    Undecodable = {"d1"}
    Chunks <- MCChunks
    ChunkTags <- MCChunkTags
    GroupTags <- MCGroupTags
    DrainMax = 1
    SidMod = 2
    MaxRequests = 0
    MaxStray = 0
    Faults = {"silence"}
SPECIFICATION FairSpec
PROPERTIES
    OutageDetected
