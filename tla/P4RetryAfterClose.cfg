SPECIFICATION Spec
CONSTANTS
  h1 = h1
  h2 = h2
  r1 = r1
  r2 = r2
  NULL = NULL
  None = None
  Callers <- FieldCallers
  JanusMayFail = TRUE
  PeerMayFail = FALSE
  CallsOverlap = TRUE
  HbTimeout = 1
  RecoverTimeout = 0
  RecoverCooldown = 0
  Handles <- OneHandle
  RetryTasks <- OneRetryTask
PROPERTIES OpenedOnRequest
CHECK_DEADLOCK FALSE
