\* Add an audio stream, add it anew, and reset.
CONSTANTS
  Players <- MCAudioOnly
  Room = 2
  Threshold = 2
  MaxFed = 2
  MaxCalls = 3
  Receivers = {"r1"}
  number = 2
  MaxSent = 4
  MaxFrames = 4
  Samples = {0, 3}
  MaxAdded = 2
  Fifo = 1
SPECIFICATION Spec
INVARIANTS
  TwoRoundsSuffice
CHECK_DEADLOCK FALSE
