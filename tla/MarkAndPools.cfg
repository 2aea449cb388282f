\* Two scan threads mark a heap of five objects; or one pool of seven pages for
\* large objects, or two for small ones.
SPECIFICATION MCSpec
CONSTANTS
  N = 2
  ma = ma
  mb = mb
  mc = mc
  md = md
  me = me
  Objects <- MCObjects
  Succ <- MCSucc
  StackSize = 1
  RootLists <- MCRootLists
  None = none
  NPages = 7
  BasePage = 1
  Aligns = {1, 2}
  Pools = {1, 2}
  PoolPages <- MCPoolPages
  PerPage <- MCPerPage
  Finals <- MCFinals
  Null = null
CHECK_DEADLOCK FALSE
INVARIANTS NothingMissed QuietWorld EventsOutlive
  OffsetsRight RoomFound ChainsRight FreeListsExact
PROPERTIES CallsReturn LargeImplements SmallImplements
