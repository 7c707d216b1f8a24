CONSTANTS
    BufferSize = 4
    HighWaterMark = 2
    Sizes <- MCSizes
    MaxCalls = 6
    MayFail = TRUE
    MayStop = TRUE
SPECIFICATION Spec
INVARIANTS TypeOK NothingStranded SmallMessagesFit
PROPERTIES OrderedWrites WritesReturn
CHECK_DEADLOCK FALSE
