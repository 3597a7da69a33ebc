SPECIFICATION Spec
CONSTANTS
  NoName = NoName
  NTests = 3
  NameOf <- SharedNames
  SkipMark <- NoTests
  NeedsEnv <- OnlySecond
  Required = "GPS"
  Falsy = {"GPS=0"}
  KeyOf <- Keys
  Matches <- Match
  Words <- AllWords
  Requests <- Asks
INVARIANTS ResumeRunsTheRest CountsTold OptionsArrive
