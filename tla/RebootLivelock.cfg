SPECIFICATION FairSpec
CONSTANTS
  Empty = Empty
  TestNames = {"alpha", "beta"}
  SuiteNames = {"S1"}
  NTests = 2
  NameOf <- TwoNames
  SuiteOf <- OneSuite
  SkipMark <- NoTests
  NeedsEnv <- NoTests
  Match <- AllTests
  Outcomes = {"pass", "reboot"}
  UsbCdc = FALSE
  LateWake = FALSE
  MaxInFlight = 3
  MaxSleepRetries = 3
PROPERTIES Terminates
