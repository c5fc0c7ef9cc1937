SPECIFICATION Spec
CONSTANTS
  QSize = 7
  HeadSize = 1
  Sizes <- SomeSizes
INVARIANTS ReadsOldest GrantIsFree WakeupLeavesNobody
PROPERTIES WaitersServed
CHECK_DEADLOCK FALSE
