SPECIFICATION Spec
CONSTANTS
  Calls <- ThreeCalls
  SafeName <- TwoNames
  TTL = 1
  Overlap = TRUE
  NoEntry = NoEntry
  MaxTime = 0
  MaxCrashes = 0
INVARIANTS
  Accounted
