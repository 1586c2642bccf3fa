CONSTANTS
    i1 = i1
    i2 = i2
    none = none
    NoName = none
    Services <- MCServices
    SessionUrls <- MCBothServices
    Items <- MCItems
    SymbolFile <- MCSymbolFile
    Switches <- MCReplay
    NoValue = NoValue
    LogName = "user1"
    FieldNames = {"BID", "ASK"}
    Frames <- FramesBasic
    MaxFrames = 3
SPECIFICATION Spec
INVARIANT TypeOK
INVARIANT CellsUnderTheirHeader
INVARIANT RowsComplete
INVARIANT NoUndefinedBehaviour
CHECK_DEADLOCK FALSE
