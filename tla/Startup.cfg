CONSTANTS
    Configs <- MCConfigs
SPECIFICATION FairSpec
INVARIANTS
    TypeOK
    FailureHasCause
    ServingIsWired
PROPERTIES
    StartupEnds
