\* A pool of two small objects and one of a large one; nothing fails.
SPECIFICATION FairSpec
CONSTANTS
  SmallPools = {{s1, s2}}
  LargePools = {{l1}}
  Arrays = {s1}
  Fork = TRUE
  Null = null
INVARIANTS NothingLiveFreed CachesClean GarbageFreed WorldRuns
PROPERTY CollectReturns
