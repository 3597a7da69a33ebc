SPECIFICATION Spec
CONSTANTS
  Empty = Empty
  TestNames = {"alpha", "beta", "gamma", "delta"}
  SuiteNames = {"S1", "S2"}
  NTests = 4
  NameOf <- FourNames
  SuiteOf <- FourSuites
  SkipMark <- OnlyFourth
  NeedsEnv <- NoTests
  Match <- AllTests
  Outcomes = {"pass", "fail", "sleep", "restart"}
  UsbCdc = TRUE
  LateWake = FALSE
  MaxInFlight = 4
  MaxSleepRetries = 3
INVARIANTS TypeOK GreenMeansPassed FailuresReported RightSleeper
PROPERTIES NoReexecution WakeFlagMeansSlept ImplementsTestRun
