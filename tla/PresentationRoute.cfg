SPECIFICATION Spec
CONSTANTS
  Plans <- RoutePlans
  SerialMod = 10
  FirstSerial = 9
INVARIANT RouteBelongsToRun
CHECK_DEADLOCK FALSE
