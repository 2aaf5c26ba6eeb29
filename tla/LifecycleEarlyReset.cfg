SPECIFICATION Spec
CONSTANTS
  Capacity = 1
  Plans <- ResetPlans
PROPERTY ResetFactIsTrue
CHECK_DEADLOCK FALSE
