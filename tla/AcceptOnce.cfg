CONSTANTS
  Requests = {r1, r2, r3}
  Ids = {1, 2}
  StampOf <- MCStampOf
  Skew = 2
  MaxClock = 7
SPECIFICATION Spec
INVARIANTS TypeOK Spacing SecondNeedsLeadOrDelay AtMostTwiceWhenPrompt
CHECK_DEADLOCK FALSE
