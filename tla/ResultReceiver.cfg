SPECIFICATION Spec
CONSTANTS
  Names = {alpha, beta}
  Unknown = Unknown
  AllTests = AllTests
  NoName = NoName
  MaxLines = 7
CHECK_DEADLOCK FALSE
SYMMETRY Symmetry
INVARIANTS FailuresKept PassesEarned
