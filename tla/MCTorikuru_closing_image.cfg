CONSTANTS
  a = a
  b = b
  NoValue = NoValue
  LogName = "user1"
  Symbols <- MCSymbols
  SymbolFile <- MCOneSymbolFile
  Switches <- MCToSyncNoLimit
  SessionUrls <- MCOneSsled
  MsgTypes = {"Image", "Update", "Status"}
  DataFormats = {"Marketfeed"}
  SetupFails = FALSE
  ConsumerInitFails = FALSE
  RegisterOutcomes = {"ok"}
  Signalled = FALSE
  MaxItemEvents = 1
  MaxLogins = 0
SPECIFICATION FairSpec
PROPERTY EventuallyExits
CHECK_DEADLOCK FALSE
