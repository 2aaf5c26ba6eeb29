SPECIFICATION Spec
CONSTANTS
  Plans <- ModePlans
  SerialMod = 10
  FirstSerial = 9
INVARIANT GraphicsGoToTheWindow
CHECK_DEADLOCK FALSE
