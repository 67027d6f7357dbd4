CONSTANTS
    Tags <- E2ETags
    UnknownTag = "unknown"
    Writable = {"u16"}
    RegisterTags <- E2ETags
    Undecodable = {}
    Chunks <- E2EChunks
    ChunkTags <- E2EChunkTags
    GroupTags <- E2EChunkTags
    Plans <- E2EPlans
    DrainMax = 1
    MaxRequests = 1
    HealthCap = 1
    Faults = {"transport"}
SPECIFICATION FairSpec
PROPERTIES
    Recovers
