SPECIFICATION InstallSpec
CONSTANT
  AtCheckout = FALSE
INVARIANT
  RerunSucceeds
