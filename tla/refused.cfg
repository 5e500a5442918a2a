SPECIFICATION FairSpec
CONSTANTS
  Base = 2
  Numbers = {0, 1, 2, 5}
  Archives <- MCArchives
  Text <- MCText
  Answers <- MCAnswers
  MaxPicks = 2
  MaxOthers = 1
PROPERTY RefusalIsNoticed
CHECK_DEADLOCK FALSE
