SPECIFICATION FairSpec
CONSTANTS
  Bare = {accept, ping}
  Bodied = {run}
  ServerAccept = accept
  NoMsg = none
  MaxSends = 1
  Eager = TRUE
  MayFail = FALSE
PROPERTY EverySendArrives
CHECK_DEADLOCK FALSE
