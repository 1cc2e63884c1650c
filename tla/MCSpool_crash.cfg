SPECIFICATION Spec
CONSTANTS
  Calls <- ThreeCalls
  SafeName <- TwoNames
  TTL = 0
  Overlap = FALSE
  NoEntry = NoEntry
  MaxTime = 1
  MaxCrashes = 1
INVARIANTS
  Accounted
  InOrder
  AgeDecides
  TakenIsEntry
  IInv
PROPERTIES
  FateIsFinal
  QueueSpec
