\* Four threads with a ReadWriteMutex, or five with a Barrier for three.
SPECIFICATION MCSpec
CONSTANTS
  Threads = {t1, t2, t3, t4}
  TimedWriters = {t1, t2}
  Parties = {t1, t2, t3, t4, t5}
  Limit = 3
  MaxGroup = 4
CHECK_DEADLOCK FALSE
INVARIANTS CountersMatch Exclusion NoStrandedWriter NoStrandedReader
PROPERTIES ImplementsRWLock PreferredServed ImplementsRendezvous ReleasedLeave
