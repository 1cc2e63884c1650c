SPECIFICATION FairServiceSpec
CONSTANTS
  Calls <- TwoCalls
  SafeName <- OneName
  Messages <- OneEach
  TTL = 0
  Overlap = FALSE
  NoEntry = NoEntry
  MaxTime = 1
  MaxCrashes = 1
  MayStop = TRUE
  Unlogged = {2}
INVARIANTS
  ServiceTypeOK
  SpokenWhole
  HeardInOrder
  RenderedInOwnVoice
PROPERTIES
  UsesSpool
  Settled
  IdleReturns
CHECK_DEADLOCK FALSE
