\* Two workers, or a worker and a foreign thread; two threads and two fibers,
\* or one fiber and deeper stacks; three threads and two libraries, or two
\* threads and three libraries.
SPECIFICATION MCSpec
CONSTANTS
  Main = m
  Workers = {w1, w2}
  Foreign = {f}
  Kept = {}
  Detaching = {"this", "instance"}
  AttachEarly = FALSE
  MaxDepth = 2
  None = none
  Groups = {{m, w1, w2}, {m, w1, f}}
  Carriers = {t1, t2}
  Fibers = {f1, f2}
  MaxFrames = 2
  NoFiber = null
  FiberGroups = {{t1, t2, f1, f2}, {t1, t2, f1}}
  lx = lx
  ly = ly
  lz = lz
  NoLibrary = null
  Library = {lx, ly, lz}
  Needs <- MCNeeds
  First = l0
  Others = {l1, l2}
  MaxOpens = 3
  MaxTogether = 5
  LibraryGroups = {{l1, l2, lx, ly}, {l1, lx, ly, lz}}
CHECK_DEADLOCK FALSE
INVARIANTS MutatorsStopped SignalAccounting
  ObjectsSafe JoinAllComplete
  ScanComplete FinalizesEnded StateKept
  RefsCounted OpensAccounted UsedAreMapped
PROPERTY StopsEnd
