SPECIFICATION SpecEach
CONSTANTS
  Keys = {"ctrl", "ctrlR", "p", "a"}
  ModifierBit <- MCModifierBit
  ModifierKey <- MCModifierKey
  Registry <- MCRegistry
  Characters <- MCCharacters
  Sources = {"w", "c"}
  Windows = {"w"}
  Plans <- MCPlans
  SerialMod = 10
  FirstSerial = 9
  ViewPlans <- MCViewPlans
INVARIANTS
  MakeHasItsBreak
  NoStuckKey
  ViewSettles
  LastFrameIsShown
  OperatorIsServed
PROPERTIES
  KeysComeUp
CHECK_DEADLOCK FALSE
