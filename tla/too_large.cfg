SPECIFICATION FairSpec
CONSTANTS
  Names <- MCNames
  Xids <- MCXids
  NoRun = NoRun
  Config <- OneConfig
  Runs <- HugeRuns
  MoveXids = {}
  MaxLive = 2
  DoneLimit = 0
PROPERTY EveryRunStarts
CHECK_DEADLOCK FALSE
