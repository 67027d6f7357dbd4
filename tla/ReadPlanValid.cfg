CONSTANTS
    Spaces = {"registers", "coils", "area"}
    Mappings <- SmallMappings
    MaxTags = 3
    AddrMod = 8
    FinsMod = 16
    MaxCells <- SmallLimits
    CoilsPerWord = 2
SPECIFICATION FairSpec
INVARIANTS
    TypeOK
    ReadsEachCellOnce
    WholeIsShown
    EveryTagJudged
PROPERTIES
    CycleCompletes
