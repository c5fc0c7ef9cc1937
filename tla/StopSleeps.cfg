SPECIFICATION Spec
CONSTANTS
  forward = forward
  backward = backward
  stop = stop
  none = none
  short = short
  Motions <- MCMotions
  MOTION_STOP <- stop
  NoDirection <- none
  MaxSpeed = 5
  AccelStep = 2
  DecelStep = 3
  DefaultSpeed = 4
  SpeedArgs <- MCSpeedArgs
  NoSpeed <- short
  NoMessageStopDelay = 1
  LoopPeriod = 1
  MaxDelay = 1
  MaxAngle = 180
  InitAngle = 90
  DefaultStep = 45
  MaxStep = 60
  StepArgs <- MCStepArgs
  NoStep <- short
  LrInvert = TRUE
  UdInvert = FALSE
  IdleTimeout = 1
  Moves <- SomeMoves
  Heads <- SomeHeads
  ConfigArgs <- SomeSteps
  QueueLen = 2
  RxLen = 1
  None = None
  Boards = {"servo"}
PROPERTIES StopLetsSleep
