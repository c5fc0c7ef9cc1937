\* The page is what is looked at here: the other parts are kept small.
CONSTANTS
  Boards <- MCBoards
  reuse_dev = FALSE
  Modes <- MCModes
  MaxCalls = 1
  Tracers = {t1, t2}
  Addrs = {1, 2, 3}
  record_num = 2
  MaxMallocs = 1
  SAVE_SLICE_NUM = 2
  cache_size = 2
  RecordSizes = {1, 3}
  MaxUnits = 3
  Clients = {1, 2}
  MaxChanges = 1
  Links = {1}
  Sessions = {1}
  Handles = {1, 2, 3, 4}
  MaxEvents = 4
  Requests <- MCRequests
  Pieces = {1, 2}
  MaxBody = 1
  MaxRequests = 1
  Wrap = 16
  sync_tolerance = 2
  QueueLen = 1
  Positions = {0}
  MaxPts = 3
  MaxClock = 1
  MaxSeeks = 0
SPECIFICATION Spec
INVARIANT StallsEscalate
CHECK_DEADLOCK FALSE
