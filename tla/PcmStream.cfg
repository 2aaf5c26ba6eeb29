CONSTANTS
  Capacity = 2
  Batch = 2
  Device = 1
  Plans <- CheckedPlans
SPECIFICATION FairSpec
INVARIANTS
  StreamInOrder
  NeverContradicted
PROPERTIES
  ControlsReturn
  RingDrains
CHECK_DEADLOCK FALSE
