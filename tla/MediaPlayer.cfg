\* The player's owner may stop calling, the queue may be freed, the display may
\* stop: a behaviour may end.
CONSTANTS
  Players <- MCPlayers
  Room = 2
  Threshold = 2
  MaxFed = 2
  MaxCalls = 2
  Receivers = {"r1", "r2"}
  number = 2
  MaxSent = 4
  MaxFrames = 4
  Samples = {0, 3}
  MaxAdded = 2
  Fifo = 1
SPECIFICATION Spec
INVARIANTS
  ThreadsEndFirst
  FlushLeavesNothing
  DrawnIsWhole
  PlayedAsAsked
  MessagesInOrder
PROPERTIES
  CallsReturn
  EosReported
  EndsReturn
CHECK_DEADLOCK FALSE
