SPECIFICATION Spec
CONSTANTS
  Empty = Empty
  TestNames = {"alpha", "beta", "gamma"}
  SuiteNames = {"S1", "S2"}
  NTests = 3
  NameOf <- DistinctNames
  SuiteOf <- TwoSuites
  SkipMark <- NoTests
  NeedsEnv <- NoTests
  Match <- AllTests
  Outcomes = {"pass", "fail", "crash", "hang", "boardfail", "busy"}
  UsbCdc = TRUE
  LateWake = FALSE
  MaxInFlight = 4
  MaxSleepRetries = 3
INVARIANTS NoFalsePass FailuresReported
