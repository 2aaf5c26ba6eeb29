SPECIFICATION SpecEach
CONSTANTS
  Consoles = {"monitor", "vm"}
  Mode <- MCMode
  Initial = "monitor"
  InputLimit = 2
  BrokerPlans <- MCScripts
  Capacity = 1
  RequestPlans <- MCRequestPlans
INVARIANTS
  IoBelongsToItsBinding
  SettledBroker
PROPERTIES
  CallsReturn
  RequestsComplete
  ShutdownCompletes
CHECK_DEADLOCK FALSE
