CONSTANTS
    Tags <- MixTags
    UnknownTag = "unknown"
    Writable = {"a", "coil"}
    RegisterTags = {"a", "b"}
    Undecodable = {"b"}
    Chunks <- MixChunks
    ChunkTags <- MixChunkTags
    GroupTags <- MixGroupTags
    Plans <- MixPlans
    DrainMax = 1
    MaxRequests = 2
    HealthCap = 1
    Faults = {"illegal", "exception", "timeout", "transport"}
SPECIFICATION FairSpec
INVARIANTS
    TypeOK
    FailedCycleIsReported
    MissedIsNotGood
PROPERTIES
    FulfilsContract
    RecoversFromLoss
    OutageDetected
