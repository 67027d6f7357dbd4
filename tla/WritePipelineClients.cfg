CONSTANTS
    MaxWrites = 2
    NumDrivers = 2
    Tags <- PipeTags
    Writable = {"hr", "coil", "dm"}
    Route <- PipeRoute
    Protocol <- PipeProtocol
    RegisterTags = {"hr", "ro"}
    QueueCap = 1
    DrainMax = 1
    WriteMode = "ConfirmedAck"
SPECIFICATION LiveSpec
INVARIANTS
    TypeOK
    ConfirmedMeansApplied
    ReadYourWrite
    StrandedIsToldBad
    NoDuplicateExecution
PROPERTIES
    PlcFollowsIssueOrder
    DriversFulfilContract
    EveryWriteAnswered
    BridgeNeverStuck
    ShutdownCompletes
