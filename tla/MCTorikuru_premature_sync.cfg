CONSTANTS
  a = a
  b = b
  Symbols <- MCSymbols
  SymbolFile <- MCSymbolFile
  NoValue = NoValue
  LogName = "user1"
  Switches <- MCCapture
  SessionUrls <- MCOneSsled
  MsgTypes = {"Image", "Update", "Status", "ClosingRun", "Rename"}
  DataFormats = {"Marketfeed"}
  SetupFails = FALSE
  ConsumerInitFails = FALSE
  RegisterOutcomes = {"ok"}
  Signalled = FALSE
  MaxItemEvents = 2
  MaxLogins = 0

SPECIFICATION Spec

PROPERTY BarrierSafe

CHECK_DEADLOCK FALSE
