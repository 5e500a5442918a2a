SPECIFICATION FairSpec
CONSTANTS
  Producers = {asio}
  Main = main
  Messages = {m1}
  Cap = 2
  Nothing = nothing
PROPERTY EveryMessageHandled
