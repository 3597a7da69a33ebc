SPECIFICATION FairSpec
CONSTANTS
  Empty = Empty
  TestNames = {"alpha", "beta"}
  SuiteNames = {"S1"}
  NTests = 2
  NameOf <- TwoNames
  SuiteOf <- OneSuite
  SkipMark <- NoTests
  NeedsEnv <- NoTests
  Match <- AllTests
  Outcomes = {"pass", "fail", "sleep", "slow", "error"}
  UsbCdc = FALSE
  LateWake = FALSE
  MaxInFlight = 3
  MaxSleepRetries = 1
INVARIANTS GreenMeansPassed RightSleeper
PROPERTIES WakeFlagMeansSlept Terminates
