CONSTANTS
    Tags <- MCTags
    UnknownTag = "unknown"
    Writable = {"d0"}
    Undecodable = {"d1"}
    Chunks <- MCChunks
    ChunkTags <- MCChunkTags
    GroupTags <- MCGroupTags
    DrainMax = 1
    SidMod = 2
    MaxRequests = 2
    MaxStray = 1
    Faults = {"endcode", "garbled", "short", "silence", "transport"}
SPECIFICATION FairSpec
INVARIANTS
    TypeOK
    MissedIsNotGood
    OwnAnswerOnly
PROPERTIES
    FulfilsContract
    Recovers
