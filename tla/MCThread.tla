------------------------------ MODULE MCThread ------------------------------
(***************************************************************************)
(* The instances of StopTheWorld, Fiber and Libraries that are             *)
(* model-checked: several choices of threads, fibers and libraries in one  *)
(* run.  A behaviour is one of either module, and those outside the group  *)
(* chosen at the start do nothing.                                         *)
(***************************************************************************)
EXTENDS StopTheWorld, Fiber, Libraries

CONSTANTS
  lx, ly, lz,
  Groups,        \* sets of threads that are started or attached
  FiberGroups,   \* sets of threads and fibers that do something
  LibraryGroups, \* sets of threads that are started and libraries they load
  MaxTogether    \* bound: dlopen calls in force

VARIABLE group

\* Two libraries need a third.
MCNeeds == [l \in Library |-> IF l = ly THEN <<>> ELSE <<ly>>]

\* With everybody, stacks have one frame, and fibers are neither given up nor
\* used a second time.
Simpler ==
  /\ held \subseteq held'
  /\ \A s \in Stacks : frames'[s] <= 1
  /\ \A f \in Fibers : at'[f] = "new" => at[f] \in {"unmapped", "new"}

MCInit ==
  /\ Init /\ FiberInit /\ LibrariesInit
  /\ group \in Groups \cup FiberGroups \cup LibraryGroups

RegistryNext ==
  /\ Next
  /\ \A t \in Threads \ group : pc'[t] = pc[t]
  /\ \A t \in group : target'[t] \in group

\* No thread is suspended again between m_lock and fiber_switchContext after a
\* suspension between the store of the stack top and m_lock: such a thread's
\* stack is not scanned (ScanComplete).
NoSecondStop == SuspendedOnce'

FiberGroupNext ==
  /\ FiberNext
  /\ NoSecondStop
  /\ \A s \in Stacks \ group : at'[s] = at[s] /\ stopper' # s
  /\ group = Stacks => Simpler

\* A thread that counts is not interrupted.  It touches only what is its own
\* and reads nothing of the others meanwhile.
CountsAtOnce ==
  \A t \in Users : calls[t] # <<>> => calls'[t] # calls[t]

LibraryGroupNext ==
  /\ LibrariesNext
  /\ OthersHaveIt
  /\ CountsAtOnce
  /\ opens'[lx] + opens'[ly] + opens'[lz] <= MaxTogether
  /\ \A u \in Others \ group : doing'[u] = "none"
  /\ \A l \in Library \ group : opens'[l] = 0
  /\ Others \subseteq group => \A l \in Library : opens'[l] < MaxOpens

MCNext ==
  /\ UNCHANGED group
  /\ \/ group \in Groups /\ RegistryNext /\ UNCHANGED <<fvars, libvars>>
     \/ group \in FiberGroups /\ FiberGroupNext /\ UNCHANGED <<vars, libvars>>
     \/ group \in LibraryGroups /\ LibraryGroupNext /\ UNCHANGED <<vars, fvars>>

MCSpec == MCInit /\ [][MCNext]_<<vars, fvars, libvars, group>> /\ Fairness
=============================================================================
