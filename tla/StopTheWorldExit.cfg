SPECIFICATION Spec
CONSTANTS
  Main = m
  Workers = {w1}
  Foreign = {}
  Kept = {}
  Detaching = {}
  AttachEarly = FALSE
  MaxDepth = 1
  None = none
CHECK_DEADLOCK FALSE
INVARIANT NoUseAfterFree
