SPECIFICATION Spec
CONSTANTS
  Plans <- ClosePlans
  SerialMod = 10
  FirstSerial = 9
INVARIANT EffectIsAnswered
CHECK_DEADLOCK FALSE
