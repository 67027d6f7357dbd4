CONSTANTS
    Tags <- MCTags
    Layouts <- MCLayouts
    Protocols = {"modbus", "fins"}
    MemWords = 9
    TextLengths = {1, 4, 5}
    Values <- MCValues
    IsDate <- MCIsDate
    IsUtf8 <- MCIsUtf8
    MaxWrites = 3
SPECIFICATION Spec
INVARIANTS
    TypeOK
    WrittenStaysShown
CHECK_DEADLOCK FALSE
