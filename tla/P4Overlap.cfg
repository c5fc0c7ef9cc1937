SPECIFICATION Spec
CONSTANTS
  h1 = h1
  h2 = h2
  r1 = r1
  r2 = r2
  NULL = NULL
  None = None
  Callers <- TimelessCallers
  JanusMayFail = TRUE
  PeerMayFail = TRUE
  CallsOverlap = TRUE
  HbTimeout = 0
  RecoverTimeout = 0
  RecoverCooldown = 0
  Handles <- TwoHandles
  RetryTasks <- TwoRetryTasks
SYMMETRY Symmetry
INVARIANTS NoCommandSessionOffline SessionsAreKept
PROPERTIES NoneOpenedUnasked
CHECK_DEADLOCK FALSE
VIEW TimelessView
CONSTRAINT OneCrossing
