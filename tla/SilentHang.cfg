SPECIFICATION Spec
CONSTANTS
  Empty = Empty
  TestNames = {"alpha", "beta"}
  SuiteNames = {"S1", "S2"}
  Driven = FALSE
  Tests <- TwoTests
  HangTimeout = 1
  Annotated <- BetaLonger
  Fragile = {"READY", "DISCONNECT", "RECONNECT"}
  MaxTime = 4
  MaxLines = 7
  Plugins = {"cov", "mem", "log"}
  Broken = {"log"}
  Raising = {"cov"}
CHECK_DEADLOCK FALSE
INVARIANT SilenceDetected
