\* One thread calls a fiber, another collects.
SPECIFICATION FiberSpec
CONSTANTS
  Carriers = {t1, t2}
  Fibers = {f1}
  MaxFrames = 1
  NoFiber = null
INVARIANT ScanComplete
