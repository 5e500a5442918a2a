SPECIFICATION Spec
CONSTANTS
  Names <- MCNames
  Xids <- MCXids
  NoRun = NoRun
  Config <- OneConfig
  Runs <- TwiceRuns
  MoveXids = {}
  MaxLive = 3
  DoneLimit = 0
INVARIANT AllMachinesReturned
CHECK_DEADLOCK FALSE
