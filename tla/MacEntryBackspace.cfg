SPECIFICATION MacSpec
CHECK_DEADLOCK FALSE
CONSTANTS
  MacBytes = 2
  DigitBits = {0, 1}
INVARIANT AcceptedAsTyped
