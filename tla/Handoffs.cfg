SPECIFICATION SpecEach
CONSTANTS
  Event = {e1, e2}
  NoEvent = none
  InputEvent = {e1, e2}
  NoInput = none
  Producer = {p1, p2}
  InitialCapacity = 2
  MaxCapacity = 4
  MaxFailures = 2
  Capacity = 4
  Pictures = {f1, f2}
  Specs = {text, graphics}
  Empty = Empty
  Torn = Torn
INVARIANTS SignalIsExact HeldFramesAreComplete
PROPERTIES IsControlFifo LossIsHeard IsFifo ConsumerInputImmutable
  ImplementsLatestFrame LatestIsEventuallyDisplayed
CHECK_DEADLOCK FALSE
