CONSTANTS
  a = a
  b = b
  Symbols <- MCSymbols
  SymbolFile <- MCSymbolFile
  NoValue = NoValue
  LogName = "user1"
  Switches <- MCCaptureToSync
  SessionUrls <- MCOneRssl
  MsgTypes = {"Image", "Update", "Status", "ClosingRun", "Rename"}
  DataFormats = {"Marketfeed"}
  SetupFails = FALSE
  ConsumerInitFails = FALSE
  RegisterOutcomes = {"ok"}
  Signalled = FALSE
  MaxItemEvents = 2
  MaxLogins = 2

SPECIFICATION Spec

INVARIANT SyncWhenAllResolved

CHECK_DEADLOCK FALSE
