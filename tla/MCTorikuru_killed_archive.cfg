CONSTANTS
  a = a
  b = b
  Symbols <- MCSymbols
  SymbolFile <- MCSymbolFile
  NoValue = NoValue
  LogName = "user1"
  Switches <- MCCaptureNoLimit
  SessionUrls <- MCOneSsled
  MsgTypes = {"Image", "Update", "Status", "ClosingRun", "Rename"}
  DataFormats = {"Marketfeed"}
  SetupFails = FALSE
  ConsumerInitFails = FALSE
  RegisterOutcomes = {"ok"}
  Signalled = TRUE
  MaxItemEvents = 2
  MaxLogins = 0

SPECIFICATION Spec

INVARIANT ArchiveComplete

CHECK_DEADLOCK FALSE
