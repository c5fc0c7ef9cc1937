\* A behaviour ends once the object is freed or the calls are used up.
CONSTANTS
  CallThreads <- MCCallThreads
  Settings <- MCSettings
  MaxSenders = 2
  MaxCalls = 3
  MaxHeard = 1
SPECIFICATION RtcSpec
INVARIANTS
  StreamEndsFirst
  NobodyUsesFreed
PROPERTIES
  CloseReturns
CHECK_DEADLOCK FALSE
