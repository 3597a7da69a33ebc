SPECIFICATION FairSpec
CONSTANTS
  Empty = Empty
  TestNames = {"alpha", "beta", "gamma"}
  SuiteNames = {"S1", "S2"}
  NTests = 3
  NameOf <- DistinctNames
  SuiteOf <- TwoSuites
  SkipMark <- OnlyThird
  NeedsEnv <- NoTests
  Match <- FirstAndThird
  Outcomes = {"pass", "sleep", "restart", "hang", "crash", "drop", "reset", "reboot", "boardfail", "busy"}
  UsbCdc = TRUE
  LateWake = TRUE
  MaxInFlight = 4
  MaxSleepRetries = 2
PROPERTIES Terminates 
