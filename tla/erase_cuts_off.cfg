SPECIFICATION Spec
CONSTANTS
  Conns = {c1, c2, c3}
  None = none
  Cap = 1
  MaxMessages = 1
INVARIANT NobodyCutOff
CHECK_DEADLOCK FALSE
SYMMETRY Symmetric
