SPECIFICATION BusySpec
CONSTANTS
  Producers = {asio, other}
  Main = main
  Messages = {m1, m2}
  Cap = 2
  Nothing = nothing
INVARIANTS TypeOK NeverPopsEmpty NoLockCycle
PROPERTY EveryMessageHandled
