CONSTANTS
  Minima <- FourDigits
  Ranges <- TenSteps
  Units <- NoUnit
SPECIFICATION Spec
INVARIANT MinMeetsEnd
CHECK_DEADLOCK FALSE
