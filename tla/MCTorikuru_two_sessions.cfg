CONSTANTS
  a = a
  b = b
  Symbols <- MCSymbols
  SymbolFile <- MCOneSymbolFile
  NoValue = NoValue
  LogName = "user1"
  Switches <- MCSyncOnce
  SessionUrls <- MCTwoSsled
  MsgTypes = {"Image", "Update", "Status", "ClosingRun", "Rename"}
  DataFormats = {"Marketfeed"}
  SetupFails = TRUE
  ConsumerInitFails = TRUE
  RegisterOutcomes = {"ok", "throw"}
  Signalled = FALSE
  MaxItemEvents = 2
  MaxLogins = 0

SPECIFICATION FairSpec

INVARIANT AllSessionsSyncOnce
 


CHECK_DEADLOCK FALSE
