SPECIFICATION FairSpec
CONSTANTS
  Names <- MCNames
  Xids <- MCXids
  NoRun = NoRun
  Config <- MCConfig
  Runs <- GoodRuns
  MoveXids <- TwoXids
  MaxLive = 3
  DoneLimit = 1
INVARIANTS
  TypeOK
  CapacityRespected
  ReservationsExact
  NoOversubscription
  ActiveRunsExact
  NoMissedStart
PROPERTIES
  ImplementsAllocation
  QueueKeepsMoving
  EveryRunStarts
CHECK_DEADLOCK FALSE
