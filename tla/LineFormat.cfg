SPECIFICATION Spec
CONSTANTS
  Chars <- Letters
  Noise <- BitErrors
  MaxHits = 2
CHECK_DEADLOCK FALSE
INVARIANTS TypeOK CleanAccepted SingleByteCaught OddDamageCaught
