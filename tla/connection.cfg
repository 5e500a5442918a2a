SPECIFICATION FairSpec
CONSTANTS
  Bare = {accept}
  Bodied = {run}
  ServerAccept = accept
  NoMsg = none
  MaxSends = 2
  Eager = TRUE
  MayFail = TRUE
INVARIANTS TypeOK ReceivedInOrder ReadersInStep FrontIsWritten ValidatedFirst KeepsListening
PROPERTIES ImplementsDialogue Delivered BothNotice
CHECK_DEADLOCK FALSE
