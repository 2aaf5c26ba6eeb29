SPECIFICATION SpecEach
CONSTANTS
  NrPages = 6
  TableSize = 2
  Frames = {0, 1, 2, 3, 4, 5}
  Dirs <- MCDirs
  Tables <- MCTables
  NrSets = 2
  NrEntries = 2
  PageSize = 8
  SegmentSize = 48
  Plans <- MCPlans
  Programs <- MCPrograms
  NrLines = 3
  Cascade = 1
  NestLimit = 3
  LinePlans <- MCLinePlans
  Ldts <- MCLdts
  RealLimit <- MCRealLimit
  RingPlans <- MCRingPlans
INVARIANTS ComputesItsResult FastAgreesWithTlb IntIsSeen EoiEndsItsHandler
  DeliverableIsSignalled RingsHold FaultIsPrecise ReturnRestores RightHandlerRuns
  BackLinksNameWaiting VerifyPredictsLoad
PROPERTY CachesAreTransparent
CHECK_DEADLOCK FALSE
