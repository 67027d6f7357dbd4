CONSTANTS
    Spaces = {"coils"}
    Mappings <- Coils
    MaxTags = 3
    AddrMod = 8
    FinsMod = 16
    MaxCells <- CoilLimits
    CoilsPerWord = 2
SPECIFICATION Spec
INVARIANTS
    GoodIsOwnValue
