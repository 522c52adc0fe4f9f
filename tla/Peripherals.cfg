SPECIFICATION Spec
CHECK_DEADLOCK FALSE
CONSTANTS
  MacBytes = 2
  DigitBits = {0, 1}
  NumBits = 4
  NumBytes = 2
  Family = 112
  OtherBytes = {0, 1}
  Repeats = TRUE
  RecvTimeout = 10
  Sleep = 25
  Conversion = 12
  max_retries = 3
  MaxDelay = 9
  IdMod = 4
INVARIANTS
  IInv
  NoDigitLost
  NumberIsChips
  FreshReading
  CallsAreShort
PROPERTY
  DelayIsWidth
