SPECIFICATION Spec
CONSTANTS
  h1 = h1
  h2 = h2
  r1 = r1
  r2 = r2
  NULL = NULL
  None = None
  Callers <- HeartbeatCallers
  JanusMayFail = TRUE
  PeerMayFail = FALSE
  CallsOverlap = FALSE
  HbTimeout = 2
  RecoverTimeout = 1
  RecoverCooldown = 1
  Handles <- TwoHandles
  RetryTasks <- TwoRetryTasks
PROPERTIES SilenceStopsStreaming
CHECK_DEADLOCK FALSE
