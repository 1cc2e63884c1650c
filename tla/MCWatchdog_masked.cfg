SPECIFICATION WatchFairSpec
CONSTANTS
  Interval = 3
  Grace = 3
  GenMax = 2
  FailMax = 0
  PlayMax = 4
  Texts = 2
  MaxPending = 2
  Failures = {"loop", "worker"}
  InWindows = FALSE
PROPERTIES
  WedgesEnd
