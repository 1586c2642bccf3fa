CONSTANTS
  a = a
  b = b
  NoValue = NoValue
  LogName = "user1"
  Symbols <- MCSymbols
  SymbolFile <- MCSymbolFile
  Switches <- MCWatch
  SessionUrls <- MCSsledAndRssl
  MsgTypes = {"Image", "Update", "Status"}
  DataFormats = {"Marketfeed", "ANSI_Page"}
  SetupFails = TRUE
  ConsumerInitFails = TRUE
  RegisterOutcomes = {"ok", "null", "throw"}
  Signalled = TRUE
  MaxItemEvents = 1
  MaxLogins = 3
SPECIFICATION Spec
INVARIANT TypeOK
INVARIANT NoDuplicateSubscription
INVARIANT UnmutedOnlyAfterLoginSuccess
CHECK_DEADLOCK FALSE
