\* fork() may fail.
SPECIFICATION FaultySpec
CONSTANTS
  SmallPools = {{s1, s2}}
  LargePools = {{l1}}
  Arrays = {s1}
  Fork = TRUE
  Null = null
CHECK_DEADLOCK FALSE
INVARIANT WorldRuns
