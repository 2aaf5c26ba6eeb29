SPECIFICATION Spec
CONSTANTS
  Capacity = 2
  Plans <- SafetyPlans
INVARIANTS
  ResultIsFresh
  InputBelongsToRun
  PausedGuestIsParked
  IdleSessionIsCurrent
PROPERTIES
  NoInputAfterCapture
CHECK_DEADLOCK FALSE
