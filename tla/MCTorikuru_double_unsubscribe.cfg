CONSTANTS
  a = a
  b = b
  Symbols <- MCSymbols
  SymbolFile <- MCSymbolFile
  NoValue = NoValue
  LogName = "user1"
  Switches <- MCCaptureToSync
  SessionUrls <- MCOneSsled
  MsgTypes = {"Image", "Update", "Status", "ClosingRun", "Rename"}
  DataFormats = {"Marketfeed", "ANSI_Page"}
  SetupFails = FALSE
  ConsumerInitFails = FALSE
  RegisterOutcomes = {"ok"}
  Signalled = FALSE
  MaxItemEvents = 2
  MaxLogins = 0

SPECIFICATION Spec

INVARIANT UnsubscribeAtMostOnce

CHECK_DEADLOCK FALSE
