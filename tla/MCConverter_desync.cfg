CONSTANTS
    i1 = i1
    i2 = i2
    none = none
    NoName = none
    Services <- MCServices
    SessionUrls <- MCBothServices
    Items <- MCItems
    SymbolFile <- MCSymbolFile
    Switches <- MCReplay
    NoValue = NoValue
    LogName = "user1"
    FieldNames = {"BID"}
    Frames <- FramesDesync
    MaxFrames = 3
SPECIFICATION Spec
INVARIANT RowsComplete
CHECK_DEADLOCK FALSE
