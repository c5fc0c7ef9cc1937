\* The callers may stop calling, the link may stay up, the page may be left alone:
\* a behaviour may end.
CONSTANTS
  Boards <- MCBoards
  reuse_dev = FALSE
  Modes <- MCModes
  MaxCalls = 4
  Tracers = {t1, t2}
  Addrs = {1, 2, 3}
  record_num = 2
  MaxMallocs = 3
  SAVE_SLICE_NUM = 2
  cache_size = 2
  RecordSizes = {1, 3}
  MaxUnits = 9
  Clients = {1, 2}
  MaxChanges = 3
  Links = {1, 2}
  Sessions = {1, 2}
  Handles = {1, 2, 3}
  MaxEvents = 3
  Requests <- MCRequests
  Pieces = {1, 2}
  MaxBody = 3
  MaxRequests = 1
  Wrap = 16
  sync_tolerance = 2
  QueueLen = 2
  Positions = {0, 2, 14}
  MaxPts = 4
  MaxClock = 3
  MaxSeeks = 1
SPECIFICATION Spec
INVARIANTS
  BoardIsWhole
  TableIsTrue
  FileIsWhole
  BridgeIsWhole
  PageIsWhole
  BodyIsTheAnswer
  WantedIsShown
CHECK_DEADLOCK FALSE
