SPECIFICATION Spec
CONSTANTS
  Conns = {c1, c2}
  None = none
  Cap = 1
  MaxMessages = 3
INVARIANTS TypeOK NobodyElseCutOff NoNullVisited WalkComplete
CHECK_DEADLOCK FALSE
SYMMETRY Symmetric
