SPECIFICATION ServiceSpec
CONSTANTS
  Calls <- TwoCalls
  SafeName <- OneName
  Messages <- OneAndTwo
  TTL = 0
  Overlap = FALSE
  NoEntry = NoEntry
  MaxTime = 1
  MaxCrashes = 0
  MayStop = FALSE
  Unlogged = {}
PROPERTIES
  OneWorker
CHECK_DEADLOCK FALSE
