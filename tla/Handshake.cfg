SPECIFICATION FairSpec
CONSTANTS
  Empty = Empty
  TestNames = {"alpha"}
  SuiteNames = {"S1"}
  NArgs = 3
  Fragile <- CommandOnly
  MaxNoise = 4
  Timely = TRUE
  MaxInFlight = 6
  MaxRuns = 2
INVARIANTS TypeOK ExecutedOnce
PROPERTIES ResentOnlyIfLost Completes
