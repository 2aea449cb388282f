\* Two threads; an object without a destructor, one with a destructor that may
\* be given the monitor of another, and one that brings its own.
SPECIFICATION Spec
CONSTANTS
  Threads = {t1, t2}
  Objects = {o1, o2, q}
  Dtor = {o2, q}
  User = {q}
  Ownees = {o2}
  Addresses = {m1, m2}
  Events = {e1}
  GrowBy = 1
  MaxHeld = 2
  Sections = {s1, s2}
  Pointers = {p}
  gcs = gcs
  Mutexes = {m1, m2, q, s1, s2, p, gcs}
  None = none
SYMMETRY Symmetry
CHECK_DEADLOCK FALSE
INVARIANTS StatementsExclude MutexesReady MonitorsCounted
