CONSTANTS
  Ldts <- MCLdts
  RealLimit <- MCRealLimit
  Plans <- MCParameters
SPECIFICATION Spec
INVARIANT FaultChangesNothing
CHECK_DEADLOCK FALSE
