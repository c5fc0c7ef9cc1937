\* A behaviour ends when the starts are used up, or when stop waits for ever.
CONSTANTS
  MaxStarts = 2
  MaxEvents = 2
  MaxLinks = 5
  MaxSignalingQueue = 2
  MaxEnding = 2
SPECIFICATION Spec
INVARIANT LateUsesAreKnown
PROPERTIES
  Contract
  StopReturns
CHECK_DEADLOCK FALSE
