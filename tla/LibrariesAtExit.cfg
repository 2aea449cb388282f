\* A thread is started while a library is loaded, and ends after the library
\* was unloaded by its parent.
SPECIFICATION LibrariesSpec
CONSTANTS
  Library = {x}
  Needs <- NothingNeeded
  NoLibrary = null
  First = l0
  Others = {l1}
  MaxOpens = 2
CHECK_DEADLOCK FALSE
INVARIANT TLSDestroyedOnce
