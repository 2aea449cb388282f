SPECIFICATION Spec
CONSTANTS
  Threads = {t1, t2, t3}
  TimedWriters = {t1}
INVARIANT QueuedReadersAlerted
