------------------------- MODULE StopTheWorldProofs -------------------------
(***************************************************************************)
(* Proofs about StopTheWorld and Libraries, for any number of threads and  *)
(* of libraries.                                                           *)
(***************************************************************************)
EXTENDS StopTheWorld, Libraries,
        FiniteSetTheorems, SequenceTheorems, WellFoundedInduction, TLAPS

Halting == {"suspending", "waiting", "stopped", "resuming"}

\* Places of the three kinds of threads.
MainPlaces == {"run", "starting", "joinAll", "join", "joined"} \cup Halting
WorkerPlaces == {"new", "entry", "addctx", "run", "detached", "remove", "removed", "destroy",
                 "dead", "starting"} \cup Halting
ForeignPlaces == {"foreign", "attach", "attachctx", "attachflag", "run", "detached",
                  "starting"} \cup Halting

Kinds ==
  /\ pc[Main] \in MainPlaces
  /\ \A u \in Workers : pc[u] \in WorkerPlaces
  /\ \A u \in Foreign : pc[u] \in ForeignPlaces

\* Places in which a thread is on the list; it may stay there when it has died,
\* and a thread that is ending may have been taken off.
Listed == Mutating \cup {"addctx", "attachctx", "attachflag"}

\* The life of one thread: where it is, and what the registry says of it.
Lived(u) ==
  /\ pc[u] \in Listed => u \in registered
  /\ pc[u] = "remove" /\ "exiting" \notin Detaching => u \in registered
  /\ u \in registered => pc[u] \in Listed \cup {"remove", "dead"}
  /\ pc[u] \in Mutating \cup {"attachflag"} => u \in contexts
  /\ u \in aboutToStart <=> pc[u] = "entry"
  /\ u \in registered => (isRunning[u] <=> pc[u] # "dead")
  /\ pc[u] \in {"entry", "attach"} => isRunning[u]

\* A thread that is being started has not begun, and has one starter.
Starting ==
  \A t \in Threads : pc[t] = "starting" =>
    /\ target[t] \in Workers /\ pc[target[t]] = "new"
    /\ \A v \in Threads \ {t, target[t]} : target[v] # target[t]

LifeTypes ==
  /\ pc \in [Threads -> Places]
  /\ target \in [Threads -> Threads] /\ wasThreaded \in [Threads -> BOOLEAN]
  /\ registered \subseteq Threads /\ contexts \subseteq Threads
  /\ aboutToStart \subseteq Threads /\ tlen \in Int
  /\ isRunning \in [Threads -> BOOLEAN] /\ multiThreaded \in BOOLEAN
  /\ todo \subseteq Threads /\ freed \subseteq Workers

Lives == LifeTypes /\ Kinds /\ Starting /\ \A u \in Threads : Lived(u)

\* multiThreadedFlag is set as soon as there is another thread, and stays so.
Alone == \A u \in Threads \ {Main} : pc[u] \in {"new", "foreign"}

Threaded ==
  /\ ~multiThreaded => Alone
  /\ \A t \in Threads : pc[t] = "starting" => multiThreaded /\ (wasThreaded[t] \/ Alone)

\* Who stops the world holds slock, once for each bracket; without other
\* threads the brackets are only counted.
Holder(t) ==
  /\ pc[t] \in Halting => (multiThreaded => slock = t) /\ (~multiThreaded => pc[t] = "stopped")
  /\ pc[t] \in {"suspending", "waiting"} => suspendDepth = 1 /\ lockCount = 1
  /\ pc[t] = "stopped" => suspendDepth >= 1 /\ (multiThreaded => lockCount = suspendDepth)
  /\ pc[t] = "resuming" => suspendDepth = 0 /\ lockCount = 1

Held ==
  /\ slock \in Threads \cup {None} /\ lockCount \in Nat /\ suspendDepth \in Nat
  /\ \A t \in Threads : Holder(t)
  /\ slock # None => multiThreaded /\ pc[slock] \in Halting
  /\ slock = None => lockCount = 0
  /\ (\A t \in Threads : pc[t] \notin Halting) => suspendDepth = 0

\* u executes its own code, or is about to leave the handler.
Going(u) ==
  \/ mode[u] = "code" /\ u \notin sigResume
  \/ mode[u] = "posted" /\ u \in sigResume

\* u is not asked to stop.
Free(u) == u \notin sigSuspend /\ Going(u)

\* u is asked to stop; before it does it may have to leave the handler it was
\* in for the last stop.
Called(u) ==
  \/ u \in sigSuspend /\ Going(u)
  \/ u \notin sigSuspend /\ u \notin sigResume /\ mode[u] \in {"handler", "posted"}

\* Whom the thread that stops the world has sent the suspend signal and not
\* yet the resume signal.
Summoned(u) ==
  /\ slock # None /\ u # slock /\ u \in registered
  /\ IF pc[slock] = "resuming" THEN u \in todo ELSE u \notin todo

Handling == {u \in Threads : mode[u] = "handler"}

SignalTypes ==
  /\ mode \in [Threads -> Modes]
  /\ sigSuspend \subseteq Threads /\ sigResume \subseteq Threads
  /\ cnt \in Nat /\ suspendCount \in Nat

Signalled ==
  /\ \A u \in Threads : (Summoned(u) => Called(u)) /\ (~Summoned(u) => Free(u))
  /\ slock # None => mode[slock] = "code" /\ todo \subseteq registered
  /\ slock # None /\ pc[slock] \in {"waiting", "stopped"} => todo = {}
  /\ slock # None /\ pc[slock] = "resuming" => slock \notin todo
  /\ slock = None => cnt = 0
  /\ slock # None /\ pc[slock] \in {"stopped", "resuming"} => cnt = 0

\* Every notification suspendAll waits for is on its way.
Counted == cnt = Cardinality(sigSuspend) + Cardinality(Handling) + suspendCount

Inv == Lives /\ Threaded /\ Held /\ SignalTypes /\ Counted /\ Signalled

-----------------------------------------------------------------------------
(* The life of a thread *)

LEMMA ThreadsFacts ==
  /\ IsFiniteSet(Threads) /\ None \notin Threads
  /\ Main \in Threads /\ Workers \subseteq Threads /\ Foreign \subseteq Threads
  /\ Main \notin Workers /\ Main \notin Foreign /\ Workers \cap Foreign = {}
<1>1. IsFiniteSet({Main} \cup (Workers \cup Foreign))
  BY ThreadsAssumption, FS_Union, FS_Singleton
<1>2. Threads = {Main} \cup (Workers \cup Foreign)
  BY DEF Threads
<1> QED
  BY <1>1, <1>2, ThreadsAssumption DEF Threads

\* Taking threads off the list.
LEMMA RemoveFacts ==
  ASSUME LifeTypes, NEW ts \in SUBSET Threads, Remove(ts)
  PROVE  /\ tlen' \in Int /\ registered' \subseteq Threads /\ contexts' \subseteq Threads
         /\ registered' = registered \ ts /\ contexts' = contexts \ ts
<1>1. IsFiniteSet(ts)
  BY ThreadsFacts, FS_Subset
<1>2. Cardinality(ts) \in Int
  BY <1>1, FS_CardinalityType
<1> QED
  BY <1>2 DEF Remove, LifeTypes

LEMMA LivesInit == Init => Lives
<1> SUFFICES ASSUME Init PROVE Lives
  OBVIOUS
<1> USE ThreadsFacts DEF Init
<1>p. pc \in [Threads -> Places]
  BY DEF Places
<1>r. isRunning \in [Threads -> BOOLEAN]
  BY Zenon
<1>f. target \in [Threads -> Threads] /\ wasThreaded \in [Threads -> BOOLEAN]
  BY Zenon
<1>l. registered \subseteq Threads /\ contexts \subseteq Threads /\ aboutToStart \subseteq Threads
  OBVIOUS
<1>n. tlen \in Int
  OBVIOUS
<1>m. multiThreaded \in BOOLEAN
  OBVIOUS
<1>o. todo \subseteq Threads /\ freed \subseteq Workers
  OBVIOUS
<1>1. LifeTypes
  BY <1>p, <1>r, <1>f, <1>l, <1>n, <1>m, <1>o, Zenon DEF LifeTypes
<1>2. Kinds
  BY DEF Kinds, MainPlaces, WorkerPlaces, ForeignPlaces, Halting
<1>3. Starting
  BY DEF Starting
<1>4. \A u \in Threads : Lived(u)
  BY DEF Lived, Listed, Mutating
<1> QED
  BY <1>1, <1>2, <1>3, <1>4 DEF Lives

\* The steps by which a thread comes to be.
LEMMA LivesStart ==
  ASSUME Lives, NEW t \in Threads, NEW u \in Threads,
         StartBegin(t, u) \/ StartCreate(t) \/ StartFail(t)
  PROVE  Lives'
<1> USE ThreadsFacts DEF Lives, LifeTypes
<1>1. CASE StartBegin(t, u)
  <2> USE <1>1 DEF StartBegin, Go, registry, stopping
  <2>p. pc' \in [Threads -> Places]
    BY DEF Places
  <2>1. LifeTypes'
    BY <2>p
  <2>2. Kinds'
    BY DEF Kinds, MainPlaces, WorkerPlaces, ForeignPlaces, Halting
  <2>3. Starting'
    BY DEF Starting
  <2>4. \A v \in Threads : Lived(v)'
    BY DEF Lived, Listed, Mutating
  <2> QED
    BY <2>1, <2>2, <2>3, <2>4
<1>2. CASE StartCreate(t)
  <2> USE <1>2 DEF StartCreate, stopping
  <2>1. target[t] \in Workers /\ pc[target[t]] = "new" /\ target[t] # t
    BY DEF Starting
  <2>p. pc' \in [Threads -> Places]
    BY DEF Places
  <2>2. LifeTypes'
    BY <2>1, <2>p
  <2>3. Kinds'
    BY <2>1 DEF Kinds, MainPlaces, WorkerPlaces, ForeignPlaces
  <2>4. Starting'
    BY <2>1 DEF Starting
  <2>5. \A v \in Threads : Lived(v)'
    BY <2>1 DEF Lived, Listed, Mutating
  <2> QED
    BY <2>2, <2>3, <2>4, <2>5
<1>3. CASE StartFail(t)
  <2> USE <1>3 DEF StartFail, Go, registry, stopping
  <2>p. pc' \in [Threads -> Places]
    BY DEF Places
  <2>1. LifeTypes'
    BY <2>p
  <2>2. Kinds'
    BY DEF Kinds, MainPlaces, WorkerPlaces, ForeignPlaces, Halting
  <2>3. Starting'
    BY DEF Starting
  <2>4. \A v \in Threads : Lived(v)'
    BY DEF Lived, Listed, Mutating
  <2> QED
    BY <2>1, <2>2, <2>3, <2>4
<1> QED
  BY <1>1, <1>2, <1>3

\* The steps of a thread between its start and its end.
LEMMA LivesLife ==
  ASSUME Lives, NEW t \in Threads,
         \/ Register(t) \/ AddContext(t) \/ RemoveCheck(t) \/ RemoveLocked(t)
         \/ StopRunning(t) \/ DestroyDataStorage(t) \/ AbnormalExit(t)
  PROVE  Lives'
<1> USE ThreadsFacts DEF Lives, LifeTypes
<1>1. CASE Register(t)
  <2> USE <1>1 DEF Register, Go, Add, local, stopping
  <2>p. pc' \in [Threads -> Places]
    BY DEF Places
  <2>1. LifeTypes'
    BY <2>p
  <2>2. Kinds'
    BY DEF Kinds, MainPlaces, WorkerPlaces, ForeignPlaces, Halting
  <2>3. Starting'
    BY DEF Starting
  <2>4. \A v \in Threads : Lived(v)'
    BY DEF Lived, Listed, Mutating
  <2> QED
    BY <2>1, <2>2, <2>3, <2>4
<1>2. CASE AddContext(t)
  <2> USE <1>2 DEF AddContext, Go, local, stopping
  <2>p. pc' \in [Threads -> Places]
    BY DEF Places
  <2>1. LifeTypes'
    BY <2>p
  <2>2. Kinds'
    BY DEF Kinds, MainPlaces, WorkerPlaces, ForeignPlaces, Halting
  <2>3. Starting'
    BY DEF Starting
  <2>4. \A v \in Threads : Lived(v)'
    BY DEF Lived, Listed, Mutating
  <2> QED
    BY <2>1, <2>2, <2>3, <2>4
<1>3. CASE RemoveCheck(t)
  <2> USE <1>3 DEF RemoveCheck, Go, local, registry, stopping
  <2>p. pc' \in [Threads -> Places]
    BY DEF Places
  <2>1. LifeTypes'
    BY <2>p
  <2>2. Kinds'
    BY DEF Kinds, MainPlaces, WorkerPlaces, ForeignPlaces, Halting
  <2>3. Starting'
    BY DEF Starting
  <2>4. \A v \in Threads : Lived(v)'
    BY DEF Lived, Listed, Mutating
  <2> QED
    BY <2>1, <2>2, <2>3, <2>4
<1>4. CASE RemoveLocked(t)
  <2> USE <1>4 DEF RemoveLocked, Go, local, stopping
  <2>r. tlen' \in Int /\ registered' = registered \ {t} /\ contexts' = contexts \ {t}
    BY RemoveFacts
  <2>p. pc' \in [Threads -> Places]
    BY DEF Places
  <2>1. LifeTypes'
    BY <2>p, <2>r
  <2>2. Kinds'
    BY DEF Kinds, MainPlaces, WorkerPlaces, ForeignPlaces, Halting
  <2>3. Starting'
    BY DEF Starting
  <2>4. \A v \in Threads : Lived(v)'
    BY <2>r DEF Lived, Listed, Mutating
  <2> QED
    BY <2>1, <2>2, <2>3, <2>4
<1>5. CASE StopRunning(t)
  <2> USE <1>5 DEF StopRunning, Go, local, registry, stopping
  <2>p. pc' \in [Threads -> Places]
    BY DEF Places
  <2>1. LifeTypes'
    BY <2>p
  <2>2. Kinds'
    BY DEF Kinds, MainPlaces, WorkerPlaces, ForeignPlaces, Halting
  <2>3. Starting'
    BY DEF Starting
  <2>4. \A v \in Threads : Lived(v)'
    BY DEF Lived, Listed, Mutating
  <2> QED
    BY <2>1, <2>2, <2>3, <2>4
<1>6. CASE DestroyDataStorage(t)
  <2> USE <1>6 DEF DestroyDataStorage, Go, local, registry, stopping
  <2>p. pc' \in [Threads -> Places]
    BY DEF Places
  <2>1. LifeTypes'
    BY <2>p
  <2>2. Kinds'
    BY DEF Kinds, MainPlaces, WorkerPlaces, ForeignPlaces, Halting
  <2>3. Starting'
    BY DEF Starting
  <2>4. \A v \in Threads : Lived(v)'
    BY DEF Lived, Listed, Mutating
  <2> QED
    BY <2>1, <2>2, <2>3, <2>4
<1>7. CASE AbnormalExit(t)
  <2> USE <1>7 DEF AbnormalExit, Go, local, registry, stopping
  <2>p. pc' \in [Threads -> Places]
    BY DEF Places
  <2>1. LifeTypes'
    BY <2>p
  <2>2. Kinds'
    BY DEF Kinds, MainPlaces, WorkerPlaces, ForeignPlaces, Halting
  <2>3. Starting'
    BY DEF Starting
  <2>4. \A v \in Threads : Lived(v)'
    BY DEF Lived, Listed, Mutating
  <2> QED
    BY <2>1, <2>2, <2>3, <2>4
<1> QED
  BY <1>1, <1>2, <1>3, <1>4, <1>5, <1>6, <1>7

\* Threads that are detached or attached.
LEMMA LivesAttach ==
  ASSUME Lives, NEW t \in Threads, NEW u \in Threads,
         \/ DetachThis(t) \/ DetachInstance(t, u)
         \/ Attach(t) \/ AttachAdd(t) \/ AttachContext(t) \/ AttachFlag(t)
  PROVE  Lives'
<1> USE ThreadsFacts DEF Lives, LifeTypes
<1>1. CASE DetachThis(t)
  <2> USE <1>1 DEF DetachThis, Go, local, stopping
  <2>r. tlen' \in Int /\ registered' = registered \ {t} /\ contexts' = contexts \ {t}
    BY RemoveFacts
  <2>p. pc' \in [Threads -> Places]
    BY DEF Places
  <2>1. LifeTypes'
    BY <2>p, <2>r
  <2>2. Kinds'
    BY DEF Kinds, MainPlaces, WorkerPlaces, ForeignPlaces, Halting
  <2>3. Starting'
    BY DEF Starting
  <2>4. \A v \in Threads : Lived(v)'
    BY <2>r DEF Lived, Listed, Mutating
  <2> QED
    BY <2>1, <2>2, <2>3, <2>4
<1>2. CASE DetachInstance(t, u)
  <2> USE <1>2 DEF DetachInstance, local, stopping
  <2>r. tlen' \in Int /\ registered' = registered \ {u} /\ contexts' = contexts \ {u}
    BY RemoveFacts
  <2>p. pc' \in [Threads -> Places]
    BY DEF Places
  <2>1. LifeTypes'
    BY <2>p, <2>r
  <2>2. Kinds'
    BY DEF Kinds, MainPlaces, WorkerPlaces, ForeignPlaces, Halting
  <2>3. Starting'
    BY DEF Starting
  <2>4. \A v \in Threads : Lived(v)'
    BY <2>r DEF Lived, Listed, Mutating
  <2> QED
    BY <2>1, <2>2, <2>3, <2>4
<1>3. CASE Attach(t)
  <2> USE <1>3 DEF Attach, Go, local, registry, stopping
  <2>p. pc' \in [Threads -> Places]
    BY DEF Places
  <2>1. LifeTypes'
    BY <2>p
  <2>2. Kinds'
    BY DEF Kinds, MainPlaces, WorkerPlaces, ForeignPlaces, Halting
  <2>3. Starting'
    BY DEF Starting
  <2>4. \A v \in Threads : Lived(v)'
    BY DEF Lived, Listed, Mutating
  <2> QED
    BY <2>1, <2>2, <2>3, <2>4
<1>4. CASE AttachAdd(t)
  <2> USE <1>4 DEF AttachAdd, Go, Add, local, stopping
  <2>p. pc' \in [Threads -> Places]
    BY DEF Places
  <2>1. LifeTypes'
    BY <2>p
  <2>2. Kinds'
    BY DEF Kinds, MainPlaces, WorkerPlaces, ForeignPlaces, Halting
  <2>3. Starting'
    BY DEF Starting
  <2>4. \A v \in Threads : Lived(v)'
    BY DEF Lived, Listed, Mutating
  <2> QED
    BY <2>1, <2>2, <2>3, <2>4
<1>5. CASE AttachContext(t)
  <2> USE <1>5 DEF AttachContext, Go, local, stopping
  <2>p. pc' \in [Threads -> Places]
    BY DEF Places
  <2>1. LifeTypes'
    BY <2>p
  <2>2. Kinds'
    BY DEF Kinds, MainPlaces, WorkerPlaces, ForeignPlaces, Halting
  <2>3. Starting'
    BY DEF Starting
  <2>4. \A v \in Threads : Lived(v)'
    BY DEF Lived, Listed, Mutating
  <2> QED
    BY <2>1, <2>2, <2>3, <2>4
<1>6. CASE AttachFlag(t)
  <2> USE <1>6 DEF AttachFlag, Go, local, registry, stopping
  <2>p. pc' \in [Threads -> Places]
    BY DEF Places
  <2>1. LifeTypes'
    BY <2>p
  <2>2. Kinds'
    BY DEF Kinds, MainPlaces, WorkerPlaces, ForeignPlaces, Halting
  <2>3. Starting'
    BY DEF Starting
  <2>4. \A v \in Threads : Lived(v)'
    BY DEF Lived, Listed, Mutating
  <2> QED
    BY <2>1, <2>2, <2>3, <2>4
<1> QED
  BY <1>1, <1>2, <1>3, <1>4, <1>5, <1>6

\* Stopping and resuming does nothing to the registry but for the removal of
\* threads that have died.
LEMMA LivesStay ==
  ASSUME Lives, NEW t \in Threads,
         UNCHANGED <<local, registry, isRunning, multiThreaded>>,
         todo' \subseteq Threads, freed' \subseteq Workers,
         \/ pc' = pc
         \/ /\ pc[t] \in Halting \cup {"run"}
            /\ \E to \in Halting \cup {"run"} : pc' = [pc EXCEPT ![t] = to]
  PROVE  Lives'
<1> USE ThreadsFacts DEF Lives, LifeTypes, local, registry
<1>1. CASE pc' = pc
  <2> USE <1>1
  <2>1. LifeTypes'
    OBVIOUS
  <2>2. Kinds'
    BY DEF Kinds
  <2>3. Starting'
    BY DEF Starting
  <2>4. \A v \in Threads : Lived(v)'
    BY DEF Lived
  <2> QED
    BY <2>1, <2>2, <2>3, <2>4
<1>2. ASSUME NEW to \in Halting \cup {"run"},
             pc[t] \in Halting \cup {"run"}, pc' = [pc EXCEPT ![t] = to]
      PROVE  Lives'
  <2> USE <1>2
  <2>p. pc' \in [Threads -> Places]
    BY DEF Places, Halting
  <2>1. LifeTypes'
    BY <2>p
  <2>2. Kinds'
    BY DEF Kinds, MainPlaces, WorkerPlaces, ForeignPlaces, Halting
  <2>3. Starting'
    BY DEF Starting, Halting
  <2>4. \A v \in Threads : Lived(v)'
    BY DEF Lived, Listed, Mutating, Halting
  <2> QED
    BY <2>1, <2>2, <2>3, <2>4
<1> QED
  BY <1>1, <1>2

LEMMA LivesStop ==
  ASSUME Lives, NEW t \in Threads, NEW u \in Threads,
         \/ SuspendSelf(t) \/ SuspendBegin(t) \/ SuspendNested(t)
         \/ u \in todo /\ SuspendOne(t, u)
         \/ SuspendWait(t) \/ SemWait(t) \/ SuspendDone(t) \/ Collect(t)
         \/ ResumeSelf(t) \/ ResumeNested(t) \/ ResumeBegin(t)
         \/ u \in todo /\ ResumeOne(t, u)
         \/ ResumeDone(t) \/ Signal(t)
  PROVE  Lives'
<1>t. todo \subseteq Threads /\ registered \subseteq Threads /\ freed \subseteq Workers
  BY DEF Lives, LifeTypes
<1>1. CASE SuspendSelf(t) \/ SuspendBegin(t) \/ SuspendNested(t)
  BY <1>1, <1>t, LivesStay
  DEF SuspendSelf, SuspendBegin, SuspendNested, Go, Acquire, Halting, registry
<1>2. CASE u \in todo /\ SuspendOne(t, u)
  <2>1. CASE isRunning[u]
    BY <1>2, <2>1, <1>t, LivesStay DEF SuspendOne, Go, Halting, registry
  <2>2. CASE ~isRunning[u]
    <3> USE <1>2, <2>2, ThreadsFacts DEF SuspendOne, Go, Lives, LifeTypes, local
    <3>r. tlen' \in Int /\ registered' = registered \ {u} /\ contexts' = contexts \ {u}
      BY RemoveFacts
    <3>p. pc' = pc
      OBVIOUS
    <3>1. LifeTypes'
      BY <3>p, <3>r
    <3>2. Kinds'
      BY <3>p DEF Kinds
    <3>3. Starting'
      BY <3>p DEF Starting
    <3>4. \A v \in Threads : Lived(v)'
      BY <3>p, <3>r DEF Lived, Listed, Mutating
    <3> QED
      BY <3>1, <3>2, <3>3, <3>4
  <2> QED
    BY <2>1, <2>2
<1>3. CASE SuspendWait(t) \/ SemWait(t) \/ SuspendDone(t) \/ Collect(t)
  BY <1>3, <1>t, LivesStay
  DEF SuspendWait, SemWait, SuspendDone, Collect, Go, Halting, stopping
<1>4. CASE ResumeSelf(t) \/ ResumeNested(t)
  BY <1>4, <1>t, LivesStay DEF ResumeSelf, ResumeNested, Go, Halting
<1>5. CASE ResumeBegin(t) \/ (u \in todo /\ ResumeOne(t, u)) \/ ResumeDone(t)
  BY <1>5, <1>t, LivesStay DEF ResumeBegin, ResumeOne, ResumeDone, Go, Halting, stopping
<1>6. CASE Signal(t)
  BY <1>6, <1>t, LivesStay DEF Signal, Deliver, SemPost, SigSuspend, stopping
<1> QED
  BY <1>1, <1>2, <1>3, <1>4, <1>5, <1>6

\* thread_joinAll
LEMMA LivesJoin ==
  ASSUME Lives, JoinAllBegin \/ JoinAllScan \/ Join
  PROVE  Lives'
<1> USE ThreadsFacts DEF Lives, LifeTypes
<1>1. CASE JoinAllBegin
  <2> USE <1>1 DEF JoinAllBegin, Go, local, registry, stopping
  <2>p. pc' \in [Threads -> Places]
    BY DEF Places
  <2>1. LifeTypes'
    BY <2>p
  <2>2. Kinds'
    BY DEF Kinds, MainPlaces, WorkerPlaces, ForeignPlaces, Halting
  <2>3. Starting'
    BY DEF Starting
  <2>4. \A v \in Threads : Lived(v)'
    BY DEF Lived, Listed, Mutating
  <2> QED
    BY <2>1, <2>2, <2>3, <2>4
<1>2. CASE JoinAllScan
  <2>1. PICK gone \in SUBSET {u \in registered : ~isRunning[u]} :
          /\ Remove(gone)
          /\ \/ /\ pc' = [pc EXCEPT ![Main] = "joined"]
                /\ UNCHANGED target
             \/ /\ pc' = [pc EXCEPT ![Main] = "join"]
                /\ \E u \in registered \cap Workers : target' = [target EXCEPT ![Main] = u]
    BY <1>2 DEF JoinAllScan
  <2> USE <1>2, <2>1 DEF JoinAllScan, stopping
  <2>r. tlen' \in Int /\ registered' = registered \ gone /\ contexts' = contexts \ gone
    BY RemoveFacts
  <2>p. pc' \in [Threads -> Places]
    BY DEF Places
  <2>t. target' \in [Threads -> Threads]
    OBVIOUS
  <2>1a. LifeTypes'
    BY <2>p, <2>r, <2>t
  <2>2. Kinds'
    BY DEF Kinds, MainPlaces, WorkerPlaces, ForeignPlaces, Halting
  <2>3. Starting'
    BY DEF Starting, Lived, Listed, Mutating
  <2>4. \A v \in Threads : Lived(v)'
    BY <2>r DEF Lived, Listed, Mutating
  <2> QED
    BY <2>1a, <2>2, <2>3, <2>4
<1>3. CASE Join
  <2> USE <1>3 DEF Join, Go, registry, stopping
  <2>p. pc' \in [Threads -> Places]
    BY DEF Places
  <2>1. LifeTypes'
    BY <2>p
  <2>2. Kinds'
    BY DEF Kinds, MainPlaces, WorkerPlaces, ForeignPlaces, Halting
  <2>3. Starting'
    BY DEF Starting
  <2>4. \A v \in Threads : Lived(v)'
    BY DEF Lived, Listed, Mutating
  <2> QED
    BY <2>1, <2>2, <2>3, <2>4
<1> QED
  BY <1>1, <1>2, <1>3

LEMMA LivesStep == Lives /\ [Next]_vars => Lives'
<1> SUFFICES ASSUME Lives, [Next]_vars PROVE Lives'
  OBVIOUS
<1>1. ASSUME NEW t \in Threads, Life(t) PROVE Lives'
  BY <1>1, LivesStart, LivesLife DEF Life
<1>2. ASSUME NEW t \in Threads, Choice(t) PROVE Lives'
  BY <1>2, LivesStart, LivesLife, LivesAttach DEF Choice
<1>3. ASSUME NEW t \in Threads, AttachSteps(t) PROVE Lives'
  BY <1>3, LivesAttach DEF AttachSteps
<1>4. ASSUME NEW t \in Threads,
             \/ SuspendSelf(t) \/ SuspendBegin(t) \/ SuspendNested(t) \/ Stop(t) \/ Collect(t)
             \/ ResumeSelf(t) \/ ResumeNested(t) \/ Restart(t) \/ Signal(t)
      PROVE  Lives'
  <2>1. todo \subseteq Threads
    BY DEF Lives, LifeTypes
  <2> QED
    BY <1>4, <2>1, LivesStop DEF Stop, Restart
<1>5. CASE JoinAllBegin \/ JoinAllScan \/ Join
  BY <1>5, LivesJoin
<1>6. CASE UNCHANGED vars
  BY <1>6, LivesStay, ThreadsFacts DEF vars, Lives, LifeTypes, stopping
<1> QED
  BY <1>1, <1>2, <1>3, <1>4, <1>5, <1>6 DEF Next

-----------------------------------------------------------------------------
(* multiThreadedFlag *)

LEMMA ThreadedInit == Init => Threaded
BY ThreadsFacts DEF Init, Threaded, Alone, Threads

\* A step that neither sets the flag nor brings a thread to life.
LEMMA ThreadedStay ==
  ASSUME Threaded, UNCHANGED <<multiThreaded, wasThreaded>>,
         \A u \in Threads : pc'[u] \in {"new", "foreign"} <=> pc[u] \in {"new", "foreign"},
         \A u \in Threads : pc'[u] = "starting" => pc[u] = "starting"
  PROVE  Threaded'
BY DEF Threaded, Alone

\* Which steps do not matter here.
LEMMA NoNewThread ==
  ASSUME Lives, [Next]_vars,
         \A t, u \in Threads :
           ~StartBegin(t, u) /\ ~StartCreate(t) /\ ~StartFail(t) /\ ~Attach(t) /\ ~AttachFlag(t)
  PROVE  /\ UNCHANGED <<multiThreaded, wasThreaded>>
         /\ \A u \in Threads : pc'[u] \in {"new", "foreign"} <=> pc[u] \in {"new", "foreign"}
         /\ \A u \in Threads : pc'[u] = "starting" => pc[u] = "starting"
<1> DEFINE P ==
      /\ UNCHANGED <<multiThreaded, wasThreaded>>
      /\ \A u \in Threads : pc'[u] \in {"new", "foreign"} <=> pc[u] \in {"new", "foreign"}
      /\ \A u \in Threads : pc'[u] = "starting" => pc[u] = "starting"
<1> SUFFICES P
  OBVIOUS
<1>0. pc \in [Threads -> Places] /\ Main \in Threads
  BY ThreadsFacts DEF Lives, LifeTypes
<1> USE <1>0 DEF local
<1>1. ASSUME NEW t \in Threads, Life(t) PROVE P
  BY <1>1 DEF Life, Register, AddContext, RemoveCheck, RemoveLocked, StopRunning,
              DestroyDataStorage, Go
<1>2. ASSUME NEW t \in Threads, Choice(t) PROVE P
  BY <1>2 DEF Choice, AbnormalExit, DetachThis, DetachInstance, Go
<1>3. ASSUME NEW t \in Threads, AttachSteps(t) PROVE P
  BY <1>3 DEF AttachSteps, AttachAdd, AttachContext, Go
<1>4. ASSUME NEW t \in Threads, SuspendSelf(t) \/ SuspendBegin(t) \/ SuspendNested(t)
      PROVE  P
  BY <1>4 DEF SuspendSelf, SuspendBegin, SuspendNested, Go
<1>5. ASSUME NEW t \in Threads, Stop(t) \/ Collect(t) PROVE P
  BY <1>5 DEF Stop, SuspendOne, SuspendWait, SemWait, SuspendDone, Collect, Go
<1>6. ASSUME NEW t \in Threads, ResumeSelf(t) \/ ResumeNested(t) \/ Restart(t)
      PROVE  P
  BY <1>6 DEF ResumeSelf, ResumeNested, Restart, ResumeBegin, ResumeOne, ResumeDone, Go
<1>7. ASSUME NEW t \in Threads, Signal(t) PROVE P
  BY <1>7 DEF Signal, Deliver, SemPost, SigSuspend
<1>8. CASE JoinAllBegin \/ JoinAllScan \/ Join
  BY <1>8 DEF JoinAllBegin, JoinAllScan, Join, Go
<1>9. CASE UNCHANGED vars
  BY <1>9 DEF vars
<1> QED
  BY <1>1, <1>2, <1>3, <1>4, <1>5, <1>6, <1>7, <1>8, <1>9 DEF Next

LEMMA ThreadedStep ==
  ASSUME Lives, Threaded, ~AttachEarly, [Next]_vars
  PROVE  Threaded'
<1> USE ThreadsFacts DEF Lives, LifeTypes
<1>1. ASSUME NEW t \in Threads, NEW u \in Threads, StartBegin(t, u) PROVE Threaded'
  BY <1>1 DEF StartBegin, Go, Threaded, Alone
<1>2. ASSUME NEW t \in Threads, StartCreate(t) PROVE Threaded'
  <2>1. target[t] \in Workers /\ pc[target[t]] = "new" /\ multiThreaded
    BY <1>2 DEF StartCreate, Starting, Threaded
  <2>2. \A v \in Threads : pc'[v] = "starting" => v # t /\ pc[v] = "starting"
    BY <1>2, <2>1 DEF StartCreate
  <2>3. \A v \in Threads : pc'[v] = "starting" => wasThreaded[v]
    BY <1>2, <2>2 DEF StartCreate, Threaded, Alone
  <2>4. multiThreaded' /\ wasThreaded' = wasThreaded
    BY <1>2, <2>1 DEF StartCreate
  <2> QED
    BY <2>3, <2>4 DEF Threaded
<1>3. ASSUME NEW t \in Threads, StartFail(t) PROVE Threaded'
  BY <1>3 DEF StartFail, Go, Threaded, Alone, local
<1>4. ASSUME NEW t \in Threads, Attach(t) PROVE Threaded'
  <2>1. multiThreaded /\ ~Alone
    BY <1>4 DEF Attach, Threaded, Alone, Kinds, WorkerPlaces, Halting
  <2> QED
    BY <1>4, <2>1 DEF Attach, Go, Threaded, Alone, local
<1>5. ASSUME NEW t \in Threads, AttachFlag(t) PROVE Threaded'
  BY <1>5 DEF AttachFlag, Go, Threaded, Alone, local
<1> QED
  BY <1>1, <1>2, <1>3, <1>4, <1>5, NoNewThread, ThreadedStay

-----------------------------------------------------------------------------
(* slock and suspendDepth *)

\* A step that has no part in stopping or resuming the world.
Aside ==
  /\ UNCHANGED <<lock, stopping, signals>>
  /\ \A u \in Threads : pc[u] \in Halting \/ pc'[u] \in Halting => pc'[u] = pc[u]
  /\ slock # None => UNCHANGED registered

\* Who is not about to stop the world and can take slock finds it free.
LEMMA LockFree ==
  ASSUME Held, NEW t \in Threads, Locked(t), pc[t] \notin Halting
  PROVE  slock = None
BY DEF Held, Locked

LEMMA AsideSteps ==
  ASSUME Lives, Held,
         \/ \E t \in Threads : Life(t) \/ Choice(t) \/ AttachSteps(t) \/ Collect(t)
         \/ JoinAllBegin \/ JoinAllScan \/ Join \/ UNCHANGED vars
  PROVE  Aside
<1>0. pc \in [Threads -> Places] /\ Main \in Threads /\ Starting
  BY ThreadsFacts DEF Lives, LifeTypes
<1> USE <1>0 DEF Aside, lock, signals
<1>1. ASSUME NEW t \in Threads, StartCreate(t) PROVE Aside
  <2>1. target[t] \in Workers /\ pc[target[t]] = "new"
    BY <1>1 DEF StartCreate, Starting
  <2> QED
    BY <1>1, <2>1 DEF StartCreate, Halting
<1>2. ASSUME NEW t \in Threads, Register(t) \/ RemoveLocked(t) PROVE Aside
  <2>1. slock = None
    BY <1>2, LockFree DEF Register, RemoveLocked, Go, Halting
  <2> QED
    BY <1>2, <2>1 DEF Register, RemoveLocked, Go, Halting
<1>3. ASSUME NEW t \in Threads,
             AddContext(t) \/ RemoveCheck(t) \/ StopRunning(t) \/ DestroyDataStorage(t)
      PROVE  Aside
  BY <1>3 DEF AddContext, RemoveCheck, StopRunning, DestroyDataStorage, Go, Halting, registry
<1>4. ASSUME NEW t \in Threads, NEW u \in Threads, DetachThis(t) \/ DetachInstance(t, u)
      PROVE  Aside
  <2>1. slock = None
    BY <1>4, LockFree DEF DetachThis, DetachInstance, Go, Halting
  <2> QED
    BY <1>4, <2>1 DEF DetachThis, DetachInstance, Go, Halting
<1>5. ASSUME NEW t \in Threads, NEW u \in Threads,
             StartFail(t) \/ AbnormalExit(t) \/ StartBegin(t, u)
      PROVE  Aside
  BY <1>5 DEF StartFail, AbnormalExit, StartBegin, Go, Halting, registry
<1>6. ASSUME NEW t \in Threads, AttachAdd(t) PROVE Aside
  <2>1. slock = None
    BY <1>6, LockFree DEF AttachAdd, Go, Halting
  <2> QED
    BY <1>6, <2>1 DEF AttachAdd, Go, Halting
<1>7. ASSUME NEW t \in Threads, Attach(t) \/ AttachContext(t) \/ AttachFlag(t) \/ Collect(t)
      PROVE  Aside
  BY <1>7 DEF Attach, AttachContext, AttachFlag, Collect, Go, Halting, registry
<1>8. CASE JoinAllScan
  <2>1. slock = None
    BY <1>8, LockFree DEF JoinAllScan, Halting
  <2> QED
    BY <1>8, <2>1 DEF JoinAllScan, Halting
<1>9. CASE JoinAllBegin \/ Join
  BY <1>9 DEF JoinAllBegin, Join, Go, Halting, registry
<1>10. CASE UNCHANGED vars
  BY <1>10 DEF vars, registry
<1> QED
  BY <1>1, <1>2, <1>3, <1>4, <1>5, <1>6, <1>7, <1>8, <1>9, <1>10
  DEF Life, Choice, AttachSteps

\* Such a step changes multiThreadedFlag only in a running world.
LEMMA FlagChanged ==
  ASSUME Lives, Threaded, Held, [Next]_vars, multiThreaded' # multiThreaded
  PROVE  slock = None /\ \A u \in Threads : pc[u] \notin Halting
<1> USE ThreadsFacts DEF Lives, LifeTypes
<1>1. ASSUME NEW t \in Threads, NEW u \in Threads, StartBegin(t, u)
      PROVE  slock = None /\ \A v \in Threads : pc[v] \notin Halting
  BY <1>1 DEF StartBegin, Go, Threaded, Alone, Held, Halting
<1>2. ASSUME NEW t \in Threads, StartFail(t)
      PROVE  slock = None /\ \A v \in Threads : pc[v] \notin Halting
  BY <1>2 DEF StartFail, Go, Threaded, Alone, Held, Halting, Locked
<1>3. ASSUME NEW t \in Threads, AttachFlag(t) PROVE multiThreaded' = multiThreaded
  BY <1>3 DEF AttachFlag, Go, Threaded, Alone, Kinds, MainPlaces, Halting
<1>4. ASSUME NEW t \in Threads, StartCreate(t) \/ Attach(t) PROVE multiThreaded' = multiThreaded
  BY <1>4 DEF StartCreate, Attach
<1> QED
  BY <1>1, <1>2, <1>3, <1>4, NoNewThread

LEMMA HeldInit == Init => Held
BY ThreadsFacts DEF Init, Held, Holder, Halting

LEMMA HeldStep ==
  ASSUME Lives, Threaded, Held, [Next]_vars
  PROVE  Held'
<1> USE ThreadsFacts DEF Lives, LifeTypes, Held
<1>1. ASSUME Aside PROVE Held'
  <2>1. CASE multiThreaded' = multiThreaded
    BY <1>1, <2>1 DEF Aside, Holder, Halting, lock, stopping
  <2>2. CASE multiThreaded' # multiThreaded
    BY <1>1, <2>2, FlagChanged DEF Aside, Holder, Halting, lock, stopping
  <2> QED
    BY <2>1, <2>2
<1>2. ASSUME NEW t \in Threads, SuspendSelf(t) PROVE Held'
  BY <1>2 DEF SuspendSelf, Go, Holder, Halting, lock, Threaded, Alone
<1>3. ASSUME NEW t \in Threads, SuspendBegin(t) PROVE Held'
  <2>1. slock = None /\ lockCount = 0 /\ \A u \in Threads : pc[u] \notin Halting
    BY <1>3 DEF SuspendBegin, Acquire, Locked, Go, Holder, Halting
  <2>2. suspendDepth = 0
    BY <2>1
  <2> QED
    BY <1>3, <2>1, <2>2 DEF SuspendBegin, Acquire, Go, Holder, Halting
<1>4. ASSUME NEW t \in Threads, SuspendNested(t) PROVE Held'
  BY <1>4 DEF SuspendNested, Acquire, Locked, Go, Holder, Halting
<1>5. ASSUME NEW t \in Threads, NEW u \in todo, SuspendOne(t, u) \/ ResumeOne(t, u)
      PROVE  Held'
  BY <1>5 DEF SuspendOne, ResumeOne, Go, Holder, Halting, lock
<1>6. ASSUME NEW t \in Threads, SuspendWait(t) \/ SemWait(t) \/ SuspendDone(t) PROVE Held'
  BY <1>6 DEF SuspendWait, SemWait, SuspendDone, Go, Holder, Halting, lock, stopping
<1>7. ASSUME NEW t \in Threads, ResumeSelf(t) PROVE Held'
  BY <1>7 DEF ResumeSelf, Go, Holder, Halting, lock, Threaded, Alone
<1>8. ASSUME NEW t \in Threads, ResumeNested(t) PROVE Held'
  BY <1>8 DEF ResumeNested, Unlock, Go, Holder, Halting
<1>9. ASSUME NEW t \in Threads, ResumeBegin(t) \/ ResumeDone(t) PROVE Held'
  BY <1>9 DEF ResumeBegin, ResumeDone, Unlock, Go, Holder, Halting, lock, stopping
<1>10. ASSUME NEW t \in Threads, Signal(t) PROVE Held'
  BY <1>10 DEF Signal, Deliver, SemPost, SigSuspend, Holder, Halting, lock, stopping
<1> QED
  BY <1>1, <1>2, <1>3, <1>4, <1>5, <1>6, <1>7, <1>8, <1>9, <1>10, AsideSteps
  DEF Next, Stop, Restart

-----------------------------------------------------------------------------
(* The signals and the notifications *)

LEMMA SignalsInit == Init => SignalTypes /\ Counted /\ Signalled
<1> SUFFICES ASSUME Init PROVE SignalTypes /\ Counted /\ Signalled
  OBVIOUS
<1> USE DEF Init
<1>1. SignalTypes
  BY DEF SignalTypes, Modes
<1>2. sigSuspend = {} /\ Handling = {}
  BY DEF Handling
<1>3. Counted
  BY <1>2, FS_EmptySet DEF Counted
<1>4. Signalled
  BY DEF Signalled, Summoned, Free, Called, Going
<1> QED
  BY <1>1, <1>3, <1>4

\* One more, or one fewer, in a set of threads.
LEMMA OneMore ==
  ASSUME NEW S \in SUBSET Threads, NEW u \in Threads, u \notin S
  PROVE  /\ Cardinality(S) \in Nat
         /\ Cardinality(S \cup {u}) = Cardinality(S) + 1
BY ThreadsFacts, FS_Subset, FS_CardinalityType, FS_AddElement

LEMMA OneFewer ==
  ASSUME NEW S \in SUBSET Threads, NEW u \in S
  PROVE  /\ Cardinality(S) \in Nat /\ Cardinality(S \ {u}) \in Nat
         /\ Cardinality(S) = Cardinality(S \ {u}) + 1
<1>1. S = (S \ {u}) \cup {u} /\ u \notin S \ {u} /\ S \ {u} \in SUBSET Threads
  OBVIOUS
<1>2. Cardinality(S \ {u}) \in Nat /\ Cardinality((S \ {u}) \cup {u}) = Cardinality(S \ {u}) + 1
  BY <1>1, OneMore
<1> QED
  BY <1>1, <1>2

\* When nothing is waited for, no signal and no notification is on its way.
LEMMA NothingPending ==
  ASSUME SignalTypes, Counted, cnt = 0
  PROVE  sigSuspend = {} /\ Handling = {}
<1>1. IsFiniteSet(sigSuspend) /\ IsFiniteSet(Handling)
  BY ThreadsFacts, FS_Subset DEF SignalTypes, Handling
<1>2. Cardinality(sigSuspend) \in Nat /\ Cardinality(Handling) \in Nat
  BY <1>1, FS_CardinalityType
<1>3. Cardinality(sigSuspend) = 0 /\ Cardinality(Handling) = 0
  BY <1>2 DEF Counted, SignalTypes
<1> QED
  BY <1>1, <1>3, FS_EmptySet

\* A step that leaves the notifications alone.
LEMMA CountedStay ==
  ASSUME SignalTypes, Counted, UNCHANGED <<cnt, signals>>
  PROVE  SignalTypes' /\ Counted'
BY DEF SignalTypes, Counted, Handling, signals

\* Neither sets the stopper back.
LEMMA SignalledStay ==
  ASSUME Held, Signalled, UNCHANGED <<slock, todo, cnt, signals>>,
         slock # None => registered' = registered /\ pc'[slock] = pc[slock]
  PROVE  Signalled'
BY DEF Held, Signalled, Summoned, Called, Free, Going, signals

\* The stop.
LEMMA SignalsStop ==
  ASSUME Lives, Held, SignalTypes, Counted, Signalled, NEW t \in Threads,
         SuspendBegin(t) \/ Stop(t)
  PROVE  SignalTypes' /\ Counted' /\ Signalled'
<1> USE ThreadsFacts DEF Lives, LifeTypes
<1>1. CASE SuspendBegin(t)
  <2>1. slock = None /\ cnt = 0 /\ slock' = t
    BY <1>1, LockFree DEF SuspendBegin, Acquire, Go, Halting, Signalled
  <2>2. UNCHANGED <<cnt, signals>>
    BY <1>1, <2>1 DEF SuspendBegin
  <2>3. SignalTypes' /\ Counted'
    BY <2>2, CountedStay
  <2>4. /\ mode[t] = "code" /\ pc'[t] = "suspending"
        /\ registered' = registered /\ todo' = registered
    BY <1>1 DEF SuspendBegin, Go, registry
  <2>5. \A u \in Threads : ~Summoned(u) /\ ~Summoned(u)'
    BY <2>1, <2>4 DEF Summoned
  <2>6. \A u \in Threads : Free(u)'
    BY <2>2, <2>5 DEF Signalled, Free, Going, signals
  <2>7. Signalled'
    BY <2>1, <2>2, <2>4, <2>5, <2>6 DEF Signalled, signals
  <2> QED
    BY <2>3, <2>7
<1>2. ASSUME NEW u \in todo, SuspendOne(t, u)
      PROVE  SignalTypes' /\ Counted' /\ Signalled'
  <2>0. slock = t /\ slock # None /\ pc[t] = "suspending"
    BY <1>2 DEF SuspendOne, Go, Held, Holder, Halting
  <2>1. Free(u) /\ u \in Threads
    BY <2>0 DEF Signalled, Summoned
  <2>2. CASE isRunning[u] /\ u # t
    <3>1. /\ sigSuspend' = sigSuspend \cup {u} /\ cnt' = cnt + 1
          /\ UNCHANGED <<slock, registered, pc, mode, suspendCount, sigResume>>
          /\ todo' = todo \ {u}
      BY <1>2, <2>2 DEF SuspendOne, Go, lock
    <3>h. Handling' = Handling /\ Cardinality(Handling) \in Nat
      BY <3>1, FS_Subset, FS_CardinalityType DEF Handling
    <3>c. /\ Cardinality(sigSuspend) \in Nat
          /\ Cardinality(sigSuspend') = Cardinality(sigSuspend) + 1
      BY <2>1, <3>1, OneMore DEF SignalTypes, Free
    <3>2. SignalTypes' /\ Counted'
      BY <2>1, <3>1, <3>h, <3>c DEF SignalTypes, Counted
    <3>3. Signalled'
      BY <2>0, <2>1, <2>2, <3>1 DEF Signalled, Summoned, Free, Called, Going
    <3> QED
      BY <3>2, <3>3
  <2>3. CASE ~isRunning[u] \/ u = t
    <3>1. UNCHANGED <<cnt, slock, pc, signals>> /\ todo' = todo \ {u}
      BY <1>2, <2>3 DEF SuspendOne, Go, lock, signals
    <3>2. registered' \in {registered, registered \ {u}} /\ (u = t \/ registered' = registered \ {u})
      <4>1. isRunning[t]
        BY <2>0 DEF Lived, Listed, Mutating
      <4> QED
        BY <1>2, <2>3, <4>1 DEF SuspendOne, Remove
    <3>3. SignalTypes' /\ Counted'
      BY <3>1, CountedStay
    <3>4. Signalled'
      BY <2>0, <2>1, <3>1, <3>2 DEF Signalled, Summoned, Free, Called, Going, signals
    <3> QED
      BY <3>3, <3>4
  <2> QED
    BY <2>2, <2>3
<1>3. CASE SuspendWait(t) \/ SuspendDone(t)
  <2>0. slock = t /\ slock # None /\ pc[t] \in {"suspending", "waiting"} /\ todo = {}
    BY <1>3 DEF SuspendWait, SuspendDone, Go, Held, Holder, Halting, Signalled
  <2>1. UNCHANGED <<slock, registered, todo, cnt, signals>>
    BY <1>3 DEF SuspendWait, SuspendDone, lock, registry, stopping
  <2>2. pc'[t] = "waiting" \/ (pc'[t] = "stopped" /\ cnt = 0)
    BY <1>3 DEF SuspendWait, SuspendDone, Go
  <2>3. SignalTypes' /\ Counted'
    BY <2>1, CountedStay
  <2>4. Signalled'
    BY <2>0, <2>1, <2>2 DEF Signalled, Summoned, Free, Called, Going, signals
  <2> QED
    BY <2>3, <2>4
<1>4. CASE SemWait(t)
  <2>0. slock = t /\ slock # None /\ pc[t] = "waiting" /\ pc' = pc
    BY <1>4 DEF SemWait, Go, Held, Holder, Halting
  <2>1. /\ cnt' = cnt - 1 /\ suspendCount' = suspendCount - 1 /\ cnt > 0 /\ suspendCount > 0
        /\ UNCHANGED <<slock, registered, todo, sigSuspend, sigResume, mode>>
    BY <1>4 DEF SemWait, lock, registry
  <2>2. Cardinality(sigSuspend) \in Nat /\ Cardinality(Handling) \in Nat
    BY FS_Subset, FS_CardinalityType DEF SignalTypes, Handling
  <2>3. SignalTypes' /\ Counted'
    BY <2>1, <2>2 DEF SignalTypes, Counted, Handling
  <2>4. Signalled'
    BY <2>0, <2>1 DEF Signalled, Summoned, Free, Called, Going
  <2> QED
    BY <2>3, <2>4
<1> QED
  BY <1>1, <1>2, <1>3, <1>4 DEF Stop

\* The end of the stop.
LEMMA SignalsRestart ==
  ASSUME Lives, Held, SignalTypes, Counted, Signalled, NEW t \in Threads, Restart(t)
  PROVE  SignalTypes' /\ Counted' /\ Signalled'
<1> USE ThreadsFacts DEF Lives, LifeTypes
<1>0. slock = t /\ slock # None /\ cnt = 0 /\ pc[t] \in {"stopped", "resuming"}
  BY DEF Restart, ResumeBegin, ResumeOne, ResumeDone, Go, Held, Holder, Halting, Signalled
<1>1. CASE ResumeBegin(t)
  <2>1. UNCHANGED <<slock, registered, cnt, signals>> /\ todo' = registered \ {t}
    BY <1>1 DEF ResumeBegin, lock, registry
  <2>2. pc[t] = "stopped" /\ pc'[t] = "resuming" /\ todo = {}
    BY <1>0, <1>1 DEF ResumeBegin, Go, Signalled
  <2>3. Signalled'
    BY <1>0, <2>1, <2>2 DEF Signalled, Summoned, Free, Called, Going, signals
  <2> QED
    BY <2>1, <2>3, CountedStay
<1>2. ASSUME NEW u \in todo, ResumeOne(t, u)
      PROVE  SignalTypes' /\ Counted' /\ Signalled'
  <2>1. /\ todo' = todo \ {u} /\ sigResume' = sigResume \cup {u}
        /\ UNCHANGED <<slock, registered, cnt, pc, suspendCount, sigSuspend, mode>>
    BY <1>2 DEF ResumeOne, Go, lock, registry
  <2>2. Summoned(u) /\ u \in Threads /\ pc[t] = "resuming"
    BY <1>0, <1>2 DEF ResumeOne, Go, Signalled, Summoned
  <2>3. mode[u] = "posted" /\ u \notin sigResume /\ u \notin sigSuspend
    BY <1>0, <2>2, NothingPending DEF Signalled, Called, Handling
  <2>4. SignalTypes' /\ Counted'
    BY <2>1, <2>2 DEF SignalTypes, Counted, Handling
  <2>5. Signalled'
    BY <1>0, <2>1, <2>2, <2>3 DEF Signalled, Summoned, Free, Called, Going
  <2> QED
    BY <2>4, <2>5
<1>3. CASE ResumeDone(t)
  <2>1. UNCHANGED <<registered, todo, cnt, signals>> /\ todo = {} /\ slock' = None
    BY <1>3 DEF ResumeDone, Unlock, Go, Held, Holder, registry, stopping
  <2>2. pc[t] = "resuming"
    BY <1>3 DEF ResumeDone, Go
  <2>3. Signalled'
    BY <1>0, <2>1, <2>2 DEF Signalled, Summoned, Free, Called, Going, signals
  <2> QED
    BY <2>1, <2>3, CountedStay
<1> QED
  BY <1>1, <1>2, <1>3 DEF Restart

\* What the signal handlers do.
LEMMA SignalsHandled ==
  ASSUME Lives, Held, SignalTypes, Counted, Signalled, NEW u \in Threads, Signal(u)
  PROVE  SignalTypes' /\ Counted' /\ Signalled'
<1> USE ThreadsFacts DEF Lives, LifeTypes
<1>0. UNCHANGED <<slock, registered, todo, cnt, pc>>
  BY DEF Signal, Deliver, SemPost, SigSuspend, lock, registry, stopping
<1>s. Handling \in SUBSET Threads
  BY DEF Handling
<1>1. CASE Deliver(u)
  <2>1. /\ u \in sigSuspend /\ mode[u] = "code"
        /\ sigSuspend' = sigSuspend \ {u} /\ mode' = [mode EXCEPT ![u] = "handler"]
        /\ UNCHANGED <<suspendCount, sigResume>>
    BY <1>1 DEF Deliver
  <2>2. Handling' = Handling \cup {u} /\ u \notin Handling
    BY <2>1 DEF Handling, SignalTypes
  <2>3. SignalTypes'
    BY <1>0, <2>1 DEF SignalTypes, Modes
  <2>4. Counted'
    BY <1>0, <1>s, <2>1, <2>2, OneMore, OneFewer DEF SignalTypes, Counted
  <2>5. Summoned(u) /\ u # slock
    BY <2>1 DEF Signalled, Free, Summoned
  <2>6. Signalled'
    BY <1>0, <2>1, <2>5 DEF Signalled, Summoned, Free, Called, Going, SignalTypes
  <2> QED
    BY <2>3, <2>4, <2>6
<1>2. CASE SemPost(u)
  <2>1. /\ mode[u] = "handler" /\ mode' = [mode EXCEPT ![u] = "posted"]
        /\ suspendCount' = suspendCount + 1
        /\ UNCHANGED <<sigSuspend, sigResume>>
    BY <1>2 DEF SemPost
  <2>2. Handling' = Handling \ {u} /\ u \in Handling
    BY <2>1 DEF Handling, SignalTypes
  <2>3. SignalTypes'
    BY <1>0, <2>1 DEF SignalTypes, Modes
  <2>4. Counted'
    <3>1. Cardinality(sigSuspend) \in Nat
      BY FS_Subset, FS_CardinalityType DEF SignalTypes
    <3> QED
      BY <1>0, <1>s, <2>1, <2>2, <3>1, OneFewer DEF SignalTypes, Counted
  <2>5. Summoned(u) /\ u # slock
    BY <2>1 DEF Signalled, Free, Going, Summoned
  <2>6. Signalled'
    BY <1>0, <2>1, <2>5 DEF Signalled, Summoned, Free, Called, Going, SignalTypes
  <2> QED
    BY <2>3, <2>4, <2>6
<1>3. CASE SigSuspend(u)
  <2>1. /\ mode[u] = "posted" /\ u \in sigResume /\ mode' = [mode EXCEPT ![u] = "code"]
        /\ sigResume' = sigResume \ {u}
        /\ UNCHANGED <<sigSuspend, suspendCount>>
    BY <1>3 DEF SigSuspend
  <2>2. Handling' = Handling
    BY <2>1 DEF Handling, SignalTypes
  <2>3. SignalTypes'
    BY <1>0, <2>1 DEF SignalTypes, Modes
  <2>4. Counted'
    BY <1>0, <2>1, <2>2 DEF Counted
  <2>5. Signalled'
    BY <1>0, <2>1 DEF Signalled, Summoned, Free, Called, Going, SignalTypes
  <2> QED
    BY <2>3, <2>4, <2>5
<1> QED
  BY <1>1, <1>2, <1>3 DEF Signal

LEMMA SignalsStep ==
  ASSUME Lives, Threaded, Held, SignalTypes, Counted, Signalled, [Next]_vars
  PROVE  SignalTypes' /\ Counted' /\ Signalled'
<1>1. CASE Aside
  <2>1. UNCHANGED <<slock, todo, cnt, signals>>
    BY <1>1 DEF Aside, lock, stopping
  <2>2. slock # None => registered' = registered /\ pc'[slock] = pc[slock]
    BY <1>1 DEF Aside, Held
  <2> QED
    BY <2>1, <2>2, CountedStay, SignalledStay
<1>2. ASSUME NEW t \in Threads,
             SuspendSelf(t) \/ SuspendNested(t) \/ ResumeSelf(t) \/ ResumeNested(t)
      PROVE  SignalTypes' /\ Counted' /\ Signalled'
  <2>1. UNCHANGED <<slock, todo, cnt, signals, registered>>
    BY <1>2 DEF SuspendSelf, SuspendNested, ResumeSelf, ResumeNested, Go, Acquire, Unlock,
                Held, Holder, Halting, lock, registry
  <2>2. slock # None => pc'[slock] = pc[slock]
    BY <1>2 DEF SuspendSelf, SuspendNested, ResumeSelf, ResumeNested, Go, Held, Lives, LifeTypes
  <2> QED
    BY <2>1, <2>2, CountedStay, SignalledStay
<1> QED
  BY <1>1, <1>2, SignalsStop, SignalsRestart, SignalsHandled, AsideSteps DEF Next

-----------------------------------------------------------------------------
(* Theorems.  AttachEarly is a foreign thread that attaches itself while   *)
(* the main thread is alone and may be in the path of suspendAll without   *)
(* slock; "exiting" is thread_detachInstance of a thread between its own   *)
(* test of remove and its removal.  Neither is excluded by the code; where *)
(* a theorem excludes it, the property does not hold with it.              *)

LEMMA LivesAlways == Spec => []Lives
BY LivesInit, LivesStep, PTL DEF Spec

LEMMA InvAlways ==
  ASSUME ~AttachEarly
  PROVE  Spec => []Inv
<1>1. Init => Inv
  BY LivesInit, ThreadedInit, HeldInit, SignalsInit DEF Inv
<1>2. Inv /\ [Next]_vars => Inv'
  BY LivesStep, ThreadedStep, HeldStep, SignalsStep DEF Inv
<1> QED
  BY <1>1, <1>2, PTL DEF Spec

\* Who is not registered any more stays so, and who is not started yet, too,
\* unless somebody starts him; only a collection frees objects.
Gone == {"detached", "removed", "destroy", "dead"}

LEMMA GoneStays ==
  ASSUME Lives, [Next]_vars
  PROVE  /\ (\A t \in Threads : ~Collect(t)) => freed' = freed
         /\ \A u \in Threads : pc[u] \in Gone => pc'[u] \in Gone
         /\ (\A t \in Threads : ~StartCreate(t)) =>
              \A u \in Threads : pc[u] = "new" => pc'[u] = "new"
<1> DEFINE P == /\ (\A t \in Threads : ~Collect(t)) => freed' = freed
                /\ \A u \in Threads : pc[u] \in Gone => pc'[u] \in Gone
                /\ (\A t \in Threads : ~StartCreate(t)) =>
                     \A u \in Threads : pc[u] = "new" => pc'[u] = "new"
<1> SUFFICES P
  OBVIOUS
<1>0. pc \in [Threads -> Places] /\ Main \in Threads /\ Starting
  BY ThreadsFacts DEF Lives, LifeTypes
<1> USE <1>0 DEF Gone
<1>1. ASSUME NEW t \in Threads, Life(t) PROVE P
  BY <1>1 DEF Life, StartCreate, Register, AddContext, RemoveCheck, RemoveLocked, StopRunning,
              DestroyDataStorage, Starting, Go
<1>2. ASSUME NEW t \in Threads, Choice(t) PROVE P
  BY <1>2 DEF Choice, StartFail, AbnormalExit, DetachThis, StartBegin, DetachInstance, Go
<1>3. ASSUME NEW t \in Threads, AttachSteps(t) PROVE P
  BY <1>3 DEF AttachSteps, Attach, AttachAdd, AttachContext, AttachFlag, Go
<1>4. ASSUME NEW t \in Threads, SuspendSelf(t) \/ SuspendBegin(t) \/ SuspendNested(t)
      PROVE  P
  BY <1>4 DEF SuspendSelf, SuspendBegin, SuspendNested, Go
<1>5. ASSUME NEW t \in Threads, Stop(t) \/ Collect(t) PROVE P
  BY <1>5 DEF Stop, SuspendOne, SuspendWait, SemWait, SuspendDone, Collect, Go
<1>6. ASSUME NEW t \in Threads, ResumeSelf(t) \/ ResumeNested(t) \/ Restart(t)
      PROVE  P
  BY <1>6 DEF ResumeSelf, ResumeNested, Restart, ResumeBegin, ResumeOne, ResumeDone, Go
<1>7. ASSUME NEW t \in Threads, Signal(t) PROVE P
  BY <1>7 DEF Signal, Deliver, SemPost, SigSuspend
<1>8. CASE JoinAllBegin \/ JoinAllScan \/ Join
  BY <1>8 DEF JoinAllBegin, JoinAllScan, Join, Go
<1>9. CASE UNCHANGED vars
  BY <1>9 DEF vars
<1> QED
  BY <1>1, <1>2, <1>3, <1>4, <1>5, <1>6, <1>7, <1>8, <1>9 DEF Next

\* Every variable keeps its type; the semaphore and the depths never go below
\* zero.
THEOREM TypeCorrect ==
  ASSUME ~AttachEarly
  PROVE  Spec => []TypeOK
<1>1. Inv => TypeOK
  BY DEF Inv, Lives, LifeTypes, Held, SignalTypes, TypeOK
<1> QED
  BY <1>1, InvAlways, PTL

\* suspendAll waits for exactly the notifications that are on their way, and
\* the resume signal goes only to threads that sleep in the suspend handler.
THEOREM NotificationsAccounted ==
  ASSUME ~AttachEarly
  PROVE  Spec => []SignalAccounting
<1>1. Inv => SignalAccounting
  <2> SUFFICES ASSUME Inv PROVE SignalAccounting
    OBVIOUS
  <2>1. sigResume \subseteq {u \in Threads : mode[u] = "posted"}
    BY DEF Inv, SignalTypes, Signalled, Free, Called, Going
  <2> QED
    BY <2>1 DEF Inv, Counted, Handling, SignalAccounting
<1> QED
  BY <1>1, InvAlways, PTL

\* When thread_suspendAll has returned, every other registered thread sleeps
\* in its signal handler, every thread that executes code of the program is
\* registered, and its stack is on the list that is going to be scanned.
THEOREM WorldStopped ==
  ASSUME ~AttachEarly
  PROVE  Spec => []MutatorsStopped
<1>1. Inv => MutatorsStopped
  <2> SUFFICES ASSUME Inv, NEW t \in Threads, NEW u \in Threads, pc[t] = "stopped", t # u
               PROVE  /\ u \in registered => mode[u] = "posted"
                      /\ pc[u] \in Mutating => u \in registered /\ u \in contexts
    BY DEF MutatorsStopped
  <2>1. pc[u] \in Mutating => u \in registered /\ u \in contexts
    BY DEF Inv, Lives, Lived, Listed
  <2>2. ASSUME u \in registered PROVE mode[u] = "posted"
    <3>1. ~Alone
      BY <2>2, ThreadsFacts DEF Inv, Lives, Kinds, Lived, Listed, Mutating, Alone,
                                MainPlaces, WorkerPlaces, ForeignPlaces, Halting
    <3>2. slock = t /\ slock # None
      BY <3>1, ThreadsFacts DEF Inv, Threaded, Held, Holder, Halting
    <3>3. Summoned(u) /\ cnt = 0
      BY <2>2, <3>2 DEF Inv, Signalled, Summoned
    <3>4. sigSuspend = {} /\ Handling = {}
      BY <3>3, NothingPending DEF Inv
    <3>5. Called(u)
      BY <3>3 DEF Inv, Signalled
    <3> QED
      BY <3>4, <3>5 DEF Called, Handling
  <2> QED
    BY <2>1, <2>2
<1> QED
  BY <1>1, InvAlways, PTL

\* slock is held once per nested suspendAll by the thread that stopped the
\* world, and nobody holds it when the world runs.
THEOREM BracketsNested ==
  ASSUME ~AttachEarly
  PROVE  Spec => []LockDiscipline
<1>1. Inv => LockDiscipline
  BY ThreadsFacts DEF Inv, Held, Holder, Halting, LockDiscipline
<1> QED
  BY <1>1, InvAlways, PTL

\* The collector does not free the Thread object of a thread between start()
\* and its removal from the list, in whatever order starting, registration,
\* detachment and collections happen.
THEOREM ThreadObjectsKept ==
  ASSUME "exiting" \notin Detaching
  PROVE  Spec => []ObjectsSafe
<1>1. Init => ObjectsSafe
  BY DEF Init, ObjectsSafe
<1>2. Lives /\ ObjectsSafe /\ [Next]_vars => ObjectsSafe'
  <2> SUFFICES ASSUME Lives, ObjectsSafe, [Next]_vars PROVE ObjectsSafe'
    OBVIOUS
  <2> USE DEF ObjectsSafe, Gone
  <2>1. ASSUME NEW t \in Threads, Collect(t) PROVE ObjectsSafe'
    <3>1. \A u \in Workers : ~Reachable(u) => pc[u] \in Gone
      BY ThreadsFacts DEF Lives, Kinds, Lived, Listed, Mutating, Reachable, WorkerPlaces, Halting
    <3> QED
      BY <2>1, <3>1 DEF Collect, Go, Lives, LifeTypes
  <2>2. ASSUME freed' = freed, \A u \in Threads : pc[u] \in Gone => pc'[u] \in Gone
        PROVE  ObjectsSafe'
    BY <2>2, ThreadsFacts DEF Lives, LifeTypes
  <2> QED
    BY <2>1, <2>2, GoneStays
<1> QED
  BY <1>1, <1>2, LivesAlways, PTL DEF Spec

\* When thread_joinAll has found no thread to join, only attached threads can
\* still start others.
LEMMA JoinedStays ==
  ASSUME Lives, JoinAllComplete, [Next]_vars, ~JoinAllScan
  PROVE  JoinAllComplete'
<1> DEFINE Over == Gone \cup {"new"}
<1> USE ThreadsFacts DEF Lives, LifeTypes
<1> SUFFICES ASSUME pc'[Main] = "joined", \A f \in Foreign : pc'[f] = "foreign",
                    NEW u \in Workers
             PROVE  pc'[u] \in Over
  BY DEF JoinAllComplete, Gone
<1>1. pc[Main] = "joined" /\ \A f \in Foreign : pc[f] = "foreign"
  <2> DEFINE P ==
        /\ pc'[Main] = "joined" => pc[Main] = "joined"
        /\ \A f \in Foreign : pc'[f] = "foreign" => pc[f] = "foreign"
  <2> SUFFICES P
    OBVIOUS
  <2>1. ASSUME NEW t \in Threads, Life(t) PROVE P
    BY <2>1 DEF Life, StartCreate, Register, AddContext, RemoveCheck, RemoveLocked, StopRunning,
                DestroyDataStorage, Starting, Go
  <2>2. ASSUME NEW t \in Threads, Choice(t) PROVE P
    <3>1. CASE StartFail(t) \/ AbnormalExit(t) \/ DetachThis(t)
      BY <3>1 DEF StartFail, AbnormalExit, DetachThis, Go
    <3>2. CASE \E w \in Threads : StartBegin(t, w)
      BY <3>2 DEF StartBegin, Go
    <3>3. ASSUME NEW w \in Threads, DetachInstance(t, w) PROVE P
      BY <3>3 DEF DetachInstance
    <3> QED
      BY <2>2, <3>1, <3>2, <3>3 DEF Choice
  <2>3. ASSUME NEW t \in Threads, AttachSteps(t) PROVE P
    BY <2>3 DEF AttachSteps, Attach, AttachAdd, AttachContext, AttachFlag, Go
  <2>4. ASSUME NEW t \in Threads, SuspendSelf(t) \/ SuspendBegin(t) \/ SuspendNested(t)
        PROVE  P
    BY <2>4 DEF SuspendSelf, SuspendBegin, SuspendNested, Go
  <2>5. ASSUME NEW t \in Threads, Stop(t) \/ Collect(t) PROVE P
    BY <2>5 DEF Stop, SuspendOne, SuspendWait, SemWait, SuspendDone, Collect, Go
  <2>6. ASSUME NEW t \in Threads, ResumeSelf(t) \/ ResumeNested(t) \/ Restart(t)
        PROVE  P
    BY <2>6 DEF ResumeSelf, ResumeNested, Restart, ResumeBegin, ResumeOne, ResumeDone, Go
  <2>7. ASSUME NEW t \in Threads, Signal(t) PROVE P
    BY <2>7 DEF Signal, Deliver, SemPost, SigSuspend
  <2>8. CASE JoinAllBegin \/ Join
    BY <2>8 DEF JoinAllBegin, Join, Go
  <2>9. CASE UNCHANGED vars
    BY <2>9 DEF vars
  <2> QED
    BY <2>1, <2>2, <2>3, <2>4, <2>5, <2>6, <2>7, <2>8, <2>9 DEF Next
<1>2. pc[u] \in Over
  BY <1>1 DEF JoinAllComplete, Gone
<1>3. \A t \in Threads : ~StartCreate(t)
  BY <1>1 DEF StartCreate, JoinAllComplete, Threads
<1> QED
  BY <1>2, <1>3, GoneStays

\* "Joins all non-daemon threads that are currently running": afterwards none
\* of them executes code of the program, nor will any other that was being
\* started meanwhile.
THEOREM AllJoined ==
  ASSUME "exiting" \notin Detaching
  PROVE  Spec => []JoinAllComplete
<1>1. Init => JoinAllComplete
  BY ThreadsFacts DEF Init, JoinAllComplete
<1>2. Lives /\ JoinAllComplete /\ [Next]_vars => JoinAllComplete'
  <2> SUFFICES ASSUME Lives, JoinAllComplete, [Next]_vars PROVE JoinAllComplete'
    OBVIOUS
  <2>1. CASE JoinAllScan
    <3> SUFFICES ASSUME pc'[Main] = "joined", NEW u \in Workers
                 PROVE  pc'[u] \in Gone \cup {"new"}
      BY DEF JoinAllComplete, Gone
    <3>1. /\ aboutToStart = {} /\ \A v \in registered \cap Workers : ~isRunning[v]
          /\ pc'[u] = pc[u]
      BY <2>1, ThreadsFacts DEF JoinAllScan, Lives, LifeTypes
    <3> QED
      BY <3>1, ThreadsFacts
      DEF Lives, Kinds, Lived, Listed, Mutating, WorkerPlaces, Halting, Gone
  <2> QED
    BY <2>1, JoinedStays
<1> QED
  BY <1>1, <1>2, LivesAlways, PTL DEF Spec

\* sm_tlen is the length of the list of threads: every removal is of a thread
\* that is on it.
THEOREM LengthKept ==
  ASSUME ~AttachEarly, "exiting" \notin Detaching
  PROVE  Spec => []LengthCorrect
<1>1. Init => LengthCorrect
  BY FS_Singleton DEF Init, LengthCorrect
<1>2. Inv /\ LengthCorrect /\ [Next]_vars => LengthCorrect'
  <2> SUFFICES ASSUME Inv, LengthCorrect, [Next]_vars PROVE LengthCorrect'
    OBVIOUS
  <2> USE ThreadsFacts DEF LengthCorrect
  <2>0. registered \subseteq Threads /\ IsFiniteSet(registered)
    BY FS_Subset DEF Inv, Lives, LifeTypes
  <2>1. ASSUME NEW u \in Threads \ registered, Add(u) PROVE LengthCorrect'
    BY <2>0, <2>1, FS_AddElement DEF Add
  <2>2. ASSUME NEW ts \in SUBSET registered, Remove(ts) PROVE LengthCorrect'
    <3>1. registered \cap ts = ts
      OBVIOUS
    <3> QED
      BY <2>0, <2>2, <3>1, FS_Difference DEF Remove
  <2>3. CASE UNCHANGED <<registered, tlen>>
    BY <2>3
  <2>4. ASSUME NEW t \in Threads, Life(t) PROVE LengthCorrect'
    <3>1. ASSUME Register(t) PROVE LengthCorrect'
      <4>1. t \notin registered
        BY <3>1 DEF Register, Go, Inv, Lives, Lived, Listed, Mutating
      <4> QED
        BY <3>1, <4>1, <2>1 DEF Register
    <3>2. ASSUME RemoveLocked(t) PROVE LengthCorrect'
      <4>1. t \in registered
        BY <3>2 DEF RemoveLocked, Go, Inv, Lives, Lived
      <4> QED
        BY <3>2, <4>1, <2>2 DEF RemoveLocked
    <3> QED
      BY <2>4, <3>1, <3>2, <2>3
      DEF Life, StartCreate, AddContext, RemoveCheck, StopRunning, DestroyDataStorage, registry
  <2>5. ASSUME NEW t \in Threads, Choice(t) PROVE LengthCorrect'
    <3>1. ASSUME DetachThis(t) PROVE LengthCorrect'
      <4>1. t \in registered
        BY <3>1 DEF DetachThis, Go, Inv, Lives, Lived, Listed, Mutating
      <4> QED
        BY <3>1, <4>1, <2>2 DEF DetachThis
    <3>2. ASSUME NEW u \in Threads, DetachInstance(t, u) PROVE LengthCorrect'
      BY <3>2, <2>2 DEF DetachInstance
    <3> QED
      BY <2>5, <3>1, <3>2, <2>3 DEF Choice, StartFail, AbnormalExit, StartBegin, registry
  <2>6. ASSUME NEW t \in Threads, AttachSteps(t) PROVE LengthCorrect'
    <3>1. ASSUME AttachAdd(t) PROVE LengthCorrect'
      <4>1. t \notin registered
        BY <3>1 DEF AttachAdd, Go, Inv, Lives, Lived, Listed, Mutating
      <4> QED
        BY <3>1, <4>1, <2>1 DEF AttachAdd
    <3> QED
      BY <2>6, <3>1, <2>3 DEF AttachSteps, Attach, AttachContext, AttachFlag, registry
  <2>7. ASSUME NEW t \in Threads, Stop(t) PROVE LengthCorrect'
    <3>1. ASSUME NEW u \in todo, SuspendOne(t, u) PROVE LengthCorrect'
      <4>1. u \in registered
        BY <3>1 DEF SuspendOne, Go, Inv, Held, Holder, Halting, Signalled
      <4> QED
        BY <3>1, <4>1, <2>2, <2>3 DEF SuspendOne
    <3> QED
      BY <2>7, <3>1, <2>3 DEF Stop, SuspendWait, SemWait, SuspendDone, registry
  <2>8. ASSUME NEW t \in Threads,
               \/ SuspendSelf(t) \/ SuspendBegin(t) \/ SuspendNested(t) \/ Collect(t)
               \/ ResumeSelf(t) \/ ResumeNested(t) \/ Restart(t) \/ Signal(t)
        PROVE  UNCHANGED <<registered, tlen>>
    BY <2>8 DEF SuspendSelf, SuspendBegin, SuspendNested, Collect, ResumeSelf, ResumeNested,
                Restart, ResumeBegin, ResumeOne, ResumeDone, Signal, Deliver, SemPost, SigSuspend,
                registry
  <2>9. CASE JoinAllScan
    BY <2>9, <2>2 DEF JoinAllScan
  <2>10. CASE JoinAllBegin \/ Join \/ UNCHANGED vars
    BY <2>10, <2>3 DEF JoinAllBegin, Join, registry, vars
  <2> QED
    BY <2>3, <2>4, <2>5, <2>6, <2>7, <2>8, <2>9, <2>10 DEF Next
<1> QED
  BY <1>1, <1>2, InvAlways, PTL DEF Spec

-----------------------------------------------------------------------------
(* Shared libraries *)

Entries == [dso : Library, ref : Nat, add : Nat]
Calls == [dso : Library, next : Nat]

\* A library is in the list once.
Distinct(list) == \A i, j \in DOMAIN list : list[i].dso = list[j].dso => i = j

\* What a library needs is in the list before it.
Ordered(list) ==
  \A i \in DOMAIN list : \A y \in Library :
    Depends(list[i].dso, y) => \E j \in 1 .. i - 1 : list[j].dso = y

\* The i-th dependency of x is counted for x in thread t.
Adds(c, x, i) == \E k \in DOMAIN c : c[k].dso = x /\ i < c[k].next
Drops(c, x, i) == \E k \in DOMAIN c : c[k].dso = x /\ i >= c[k].next
Holds(t, x, i) ==
  \/ x \in Named(loaded[t])
  \/ IF doing[t] = "adding" THEN Adds(calls[t], x, i) ELSE Drops(calls[t], x, i)

Holding(t, y) == {d \in Dependency : Needs[d[1]][d[2]] = y /\ Holds(t, d[1], d[2])}

\* The references to y, and the one that is for the calls of rt_loadLibrary;
\* a library that is about to be inserted has its first.
Given(t, y) ==
  IF y \in Named(loaded[t]) THEN EntryOf(loaded[t], y).ref
  ELSE IF doing[t] = "adding" /\ y \in Named(calls[t]) THEN 1 ELSE 0
Own(t, y) ==
  IF y \in Named(loaded[t]) THEN IF EntryOf(loaded[t], y).add > 0 THEN 1 ELSE 0
  ELSE IF doing[t] = "adding" /\ y = subject[t] THEN 1 ELSE 0

\* Calls are nested along the dependencies.
Nested(c) ==
  /\ c \in Seq(Calls) /\ Distinct(c)
  /\ \A k \in DOMAIN c : c[k].next \in 1 .. Len(Needs[c[k].dso]) + 1
  /\ \A j, k \in DOMAIN c : j <= k => c[k].dso \in Requires[c[j].dso]

\* What the calls in progress are for is not in the list yet, or not any more.
CallsFit(t) ==
  LET c == calls[t] IN
  /\ Nested(c) /\ Named(c) \cap Named(loaded[t]) = {}
  /\ doing[t] \notin {"adding", "dropping"} => c = <<>>
  /\ doing[t] = "adding" => c # <<>>
  /\ doing[t] \in InCall => subject[t] \in Library
  /\ c # <<>> => c[1].dso = subject[t]

ListFits(t) ==
  /\ loaded[t] \in Seq(Entries) /\ Distinct(loaded[t]) /\ Ordered(loaded[t])
  /\ \A y \in Named(loaded[t]) : EntryOf(loaded[t], y).ref > 0
  /\ \A y \in Library : /\ IsFiniteSet(Holding(t, y))
                        /\ Given(t, y) = Own(t, y) + Cardinality(Holding(t, y))

ThreadFits(t) ==
  /\ doing[t] \in {"none", "cleanup", "closing"} => calls[t] = <<>>
  /\ doing[t] = "none" => loaded[t] = <<>>
  /\ doing[t] \in Using => CallsFit(t) /\ ListFits(t)

Doings == {"none", "cleanup", "closing"} \cup Using

LibInv ==
  /\ doing \in [Users -> Doings]
  /\ DOMAIN loaded = Users /\ DOMAIN calls = Users /\ DOMAIN subject = Users
  /\ \A t \in Users : ThreadFits(t)

\* What the operations do to a list and to the calls in progress.
Entry(x, r, a) == [dso |-> x, ref |-> r, add |-> a]
Changed(l, x, e) == [l EXCEPT ![Place(l, x)] = e]
Added(l, e) == Append(l, e)
Caller(c) == c[Len(c)].dso
Position(c) == c[Len(c)].next
Stepped(c) == [c EXCEPT ![Len(c)].next = @ + 1]
Pushed(c, y) == Append(c, Visit(y))
Popped(c) == SubSeq(c, 1, Len(c) - 1)

-----------------------------------------------------------------------------
(* Requires *)

\* A library is mapped along with itself.
LEMMA RequiresSelf ==
  ASSUME NEW x \in Library
  PROVE  x \in Requires[x]
BY DEF Requires

\* What something that is mapped needs is mapped along.
LEMMA RequiresNext ==
  ASSUME NEW x \in Library, NEW z \in Requires[x], NEW y \in Library, Depends(z, y)
  PROVE  y \in Requires[x]
<1>1. z \in Library /\ \A S \in SUBSET Library :
        x \in S /\ (\A v \in S, d \in Library : Depends(v, d) => d \in S) => z \in S
  BY DEF Requires
<1>2. ASSUME NEW S \in SUBSET Library, x \in S,
             \A v \in S, d \in Library : Depends(v, d) => d \in S
      PROVE  y \in S
  BY <1>1, <1>2
<1> QED
  BY <1>2 DEF Requires

\* What is mapped along with something that is mapped along is, too.
LEMMA RequiresTrans ==
  ASSUME NEW x \in Library, NEW y \in Requires[x], NEW z \in Requires[y]
  PROVE  z \in Requires[x] /\ y \in Library /\ z \in Library
<1>1. y \in Library /\ Requires[x] \in SUBSET Library
  BY DEF Requires
<1>2. \A v \in Requires[x], d \in Library : Depends(v, d) => d \in Requires[x]
  BY RequiresNext
<1> DEFINE R == Requires[x]
<1>3. z \in Library /\ \A S \in SUBSET Library :
        y \in S /\ (\A v \in S, d \in Library : Depends(v, d) => d \in S) => z \in S
  BY <1>1 DEF Requires
<1>4. R \in SUBSET Library /\ y \in R /\ \A v \in R, d \in Library : Depends(v, d) => d \in R
  BY <1>1, <1>2
<1> HIDE DEF R
<1>5. z \in R
  BY <1>3, <1>4
<1> QED
  BY <1>1, <1>3, <1>5 DEF R

-----------------------------------------------------------------------------
(* Lists of libraries *)

\* A library that is named has a place.
LEMMA Placed ==
  ASSUME NEW l, NEW x \in Named(l)
  PROVE  Place(l, x) \in DOMAIN l /\ l[Place(l, x)].dso = x
BY DEF Named, Place

\* It has one place.
LEMMA PlacedAt ==
  ASSUME NEW l, Distinct(l), NEW i \in DOMAIN l
  PROVE  l[i].dso \in Named(l) /\ Place(l, l[i].dso) = i
<1>1. l[i].dso \in Named(l)
  BY DEF Named
<1> QED
  BY <1>1, Placed DEF Distinct

\* The entry of a library in the list.
LEMMA EntryIn ==
  ASSUME NEW l \in Seq(Entries), NEW x \in Named(l)
  PROVE  /\ EntryOf(l, x) \in Entries /\ EntryOf(l, x).dso = x /\ x \in Library
         /\ EntryOf(l, x).ref \in Nat /\ EntryOf(l, x).add \in Nat
<1>1. EntryOf(l, x) \in Entries /\ EntryOf(l, x).dso = x
  BY Placed DEF EntryOf
<1> QED
  BY <1>1 DEF Entries

\* The entry of a library changes.
LEMMA Replaced ==
  ASSUME NEW l \in Seq(Entries), Distinct(l), NEW x \in Named(l), NEW e \in Entries, e.dso = x,
         NEW k, k = Changed(l, x, e)
  PROVE  /\ k \in Seq(Entries) /\ Distinct(k) /\ Named(k) = Named(l)
         /\ \A y \in Named(l) : EntryOf(k, y) = IF y = x THEN e ELSE EntryOf(l, y)
         /\ Ordered(l) => Ordered(k)
<1> DEFINE i == Place(l, x)
<1>1. i \in DOMAIN l /\ l[i].dso = x
  BY Placed
<1> HIDE DEF i
<1>2. k = [l EXCEPT ![i] = e]
  BY DEF i, Changed
<1>3. k \in Seq(Entries) /\ DOMAIN k = DOMAIN l /\ DOMAIN l = 1 .. Len(l)
  <2>1. Len(l) \in Nat /\ DOMAIN l = 1 .. Len(l) /\ l \in [1 .. Len(l) -> Entries]
    OBVIOUS
  <2>2. k \in [1 .. Len(l) -> Entries]
    BY <1>1, <1>2, <2>1
  <2> QED
    BY <2>1, <2>2
<1>4. \A j \in DOMAIN l : k[j] = (IF j = i THEN e ELSE l[j]) /\ k[j].dso = l[j].dso
  BY <1>1, <1>2, <1>3
<1>5. Named(k) = Named(l) /\ Distinct(k)
  BY <1>3, <1>4 DEF Named, Distinct
<1>6. ASSUME NEW y \in Named(l) PROVE EntryOf(k, y) = IF y = x THEN e ELSE EntryOf(l, y)
  <2>1. Place(k, y) \in DOMAIN l /\ l[Place(k, y)].dso = y
    BY <1>3, <1>4, <1>5, Placed
  <2>2. Place(k, y) = Place(l, y)
    BY <2>1, PlacedAt
  <2>3. Place(l, y) = i <=> y = x
    BY <1>1, <2>1, <2>2 DEF Distinct
  <2> QED
    BY <1>4, <2>1, <2>2, <2>3 DEF EntryOf
<1>7. ASSUME Ordered(l) PROVE Ordered(k)
  <2> SUFFICES ASSUME NEW n \in DOMAIN k, NEW y \in Library, Depends(k[n].dso, y)
               PROVE  \E j \in 1 .. n - 1 : k[j].dso = y
    BY DEF Ordered
  <2>1. PICK j \in 1 .. n - 1 : l[j].dso = y
    BY <1>3, <1>4, <1>7 DEF Ordered
  <2>2. j \in DOMAIN l
    BY <1>3, <2>1
  <2> QED
    BY <1>4, <2>1, <2>2
<1> QED
  BY <1>3, <1>5, <1>6, <1>7

\* A library is added at the end.
LEMMA Inserted ==
  ASSUME NEW l \in Seq(Entries), Distinct(l), NEW e \in Entries, e.dso \notin Named(l),
         NEW k, k = Added(l, e)
  PROVE  /\ k \in Seq(Entries) /\ Distinct(k) /\ Named(k) = Named(l) \cup {e.dso}
         /\ \A y \in Named(k) : EntryOf(k, y) = IF y = e.dso THEN e ELSE EntryOf(l, y)
         /\ Ordered(l) /\ (\A y \in Library : Depends(e.dso, y) => y \in Named(l)) => Ordered(k)
<1> DEFINE n == Len(l)
<1>1. n \in Nat /\ DOMAIN l = 1 .. n /\ DOMAIN k = 1 .. n + 1 /\ k \in Seq(Entries)
  BY DEF Added
<1>2. k[n + 1] = e /\ \A j \in 1 .. n : k[j] = l[j]
  BY DEF Added
<1> HIDE DEF n
<1>3. \A j \in DOMAIN k : j \in DOMAIN l \/ j = n + 1
  BY <1>1
<1>4. n + 1 \in DOMAIN k /\ n + 1 \notin DOMAIN l /\ DOMAIN l \subseteq DOMAIN k
  BY <1>1
<1>5. Named(k) = Named(l) \cup {e.dso}
  BY <1>1, <1>2, <1>3, <1>4 DEF Named
<1>6. Distinct(k)
  BY <1>1, <1>2, <1>3 DEF Distinct, Named
<1>7. ASSUME NEW y \in Named(k) PROVE EntryOf(k, y) = IF y = e.dso THEN e ELSE EntryOf(l, y)
  <2>1. Place(k, y) \in DOMAIN k /\ k[Place(k, y)].dso = y
    BY Placed
  <2>2. CASE y = e.dso
    <3>1. Place(k, y) = n + 1
      BY <1>2, <1>4, <1>6, <2>1, <2>2 DEF Distinct
    <3> QED
      BY <1>2, <2>2, <3>1 DEF EntryOf
  <2>3. CASE y # e.dso
    <3>1. Place(k, y) \in DOMAIN l
      BY <1>2, <1>3, <2>1, <2>3
    <3>2. k[Place(k, y)] = l[Place(k, y)]
      BY <1>1, <1>2, <3>1
    <3>3. Place(k, y) = Place(l, y)
      BY <2>1, <3>1, <3>2, PlacedAt
    <3> QED
      BY <2>3, <3>2, <3>3 DEF EntryOf
  <2> QED
    BY <2>2, <2>3
<1>8. ASSUME Ordered(l), \A y \in Library : Depends(e.dso, y) => y \in Named(l)
      PROVE  Ordered(k)
  <2> SUFFICES ASSUME NEW m \in DOMAIN k, NEW y \in Library, Depends(k[m].dso, y)
               PROVE  \E j \in 1 .. m - 1 : k[j].dso = y
    BY DEF Ordered
  <2>1. \E j \in 1 .. m - 1 : j \in 1 .. n /\ l[j].dso = y
    <3>1. CASE m = n + 1
      BY <1>1, <1>2, <1>8, <3>1 DEF Named
    <3>2. CASE m \in DOMAIN l
      <4>1. PICK j \in 1 .. m - 1 : l[j].dso = y
        BY <1>1, <1>2, <1>8, <3>2 DEF Ordered
      <4>2. j \in 1 .. n
        BY <1>1, <3>2, <4>1
      <4> QED
        BY <4>1, <4>2
    <3> QED
      BY <1>3, <3>1, <3>2
  <2> QED
    BY <1>2, <2>1
<1> QED
  BY <1>1, <1>5, <1>6, <1>7, <1>8

\* A library that nobody in the list needs is taken off it.
LEMMA TakenOff ==
  ASSUME NEW l \in Seq(Entries), Distinct(l), NEW x \in Named(l),
         NEW k, k = Removed(l, Place(l, x))
  PROVE  /\ k \in Seq(Entries) /\ Distinct(k) /\ Named(k) = Named(l) \ {x}
         /\ \A y \in Named(k) : EntryOf(k, y) = EntryOf(l, y)
         /\ Ordered(l) /\ (\A z \in Named(l) : ~Depends(z, x)) => Ordered(k)
<1> DEFINE n == Len(l)
           i == Place(l, x)
           old(j) == IF j < i THEN j ELSE j + 1
<1>1. n \in Nat /\ DOMAIN l = 1 .. n /\ i \in 1 .. n /\ l[i].dso = x
  BY Placed
<1>2. k = [j \in 1 .. n - 1 |-> IF j < i THEN l[j] ELSE l[j + 1]]
  BY DEF Removed
<1> HIDE DEF n, i
<1>3. DOMAIN k = 1 .. n - 1
  BY <1>2
<1>4. \A j \in 1 .. n - 1 : old(j) \in 1 .. n /\ old(j) # i /\ k[j] = l[old(j)]
  BY <1>1, <1>2
<1>5. \A m \in 1 .. n : m # i => \E j \in 1 .. n - 1 : old(j) = m
  <2> SUFFICES ASSUME NEW m \in 1 .. n, m # i PROVE \E j \in 1 .. n - 1 : old(j) = m
    OBVIOUS
  <2>1. CASE m < i
    <3>1. m \in 1 .. n - 1 /\ old(m) = m
      BY <1>1, <2>1
    <3> QED
      BY <3>1
  <2>2. CASE ~(m < i)
    <3>1. m - 1 \in 1 .. n - 1 /\ old(m - 1) = m
      BY <1>1, <2>2
    <3> QED
      BY <3>1
  <2> QED
    BY <2>1, <2>2
<1>6. \A j, m \in 1 .. n - 1 : (old(j) = old(m) => j = m) /\ (j < m <=> old(j) < old(m))
  BY <1>1
<1> HIDE DEF old
<1>7. k \in Seq(Entries)
  <2>1. \A j \in 1 .. n - 1 : k[j] \in Entries
    BY <1>1, <1>4
  <2>2. n - 1 \in Nat
    BY <1>1
  <2> QED
    BY <1>2, <1>3, <2>1, <2>2
<1>8. Distinct(k)
  <2> SUFFICES ASSUME NEW j \in 1 .. n - 1, NEW m \in 1 .. n - 1, k[j].dso = k[m].dso PROVE j = m
    BY <1>3 DEF Distinct
  <2>1. old(j) = old(m)
    BY <1>1, <1>4 DEF Distinct
  <2> QED
    BY <1>6, <2>1
<1>9. Named(k) = Named(l) \ {x}
  <2>1. ASSUME NEW j \in 1 .. n - 1 PROVE k[j].dso \in Named(l) \ {x}
    BY <1>1, <1>4, PlacedAt DEF Distinct
  <2>2. ASSUME NEW m \in 1 .. n, l[m].dso # x PROVE l[m].dso \in Named(k)
    <3>1. PICK j \in 1 .. n - 1 : old(j) = m
      BY <1>1, <1>5, <2>2
    <3> QED
      BY <1>3, <1>4, <3>1 DEF Named
  <2>3. Named(k) \subseteq Named(l) \ {x}
    BY <1>3, <2>1 DEF Named
  <2>4. \A y \in Named(l) : \E m \in 1 .. n : l[m].dso = y
    BY <1>1 DEF Named
  <2>5. Named(l) \ {x} \subseteq Named(k)
    BY <2>2, <2>4
  <2> QED
    BY <2>3, <2>5
<1>10. ASSUME NEW y \in Named(k) PROVE EntryOf(k, y) = EntryOf(l, y)
  <2>1. Place(k, y) \in 1 .. n - 1 /\ k[Place(k, y)].dso = y
    BY <1>3, Placed
  <2>2. old(Place(k, y)) \in DOMAIN l /\ l[old(Place(k, y))] = k[Place(k, y)]
    BY <1>1, <1>4, <2>1
  <2>3. old(Place(k, y)) = Place(l, y)
    BY <2>1, <2>2, PlacedAt
  <2> QED
    BY <2>2, <2>3 DEF EntryOf
<1>11. ASSUME Ordered(l), \A z \in Named(l) : ~Depends(z, x) PROVE Ordered(k)
  <2> SUFFICES ASSUME NEW m \in 1 .. n - 1, NEW y \in Library, Depends(k[m].dso, y)
               PROVE  \E j \in 1 .. m - 1 : k[j].dso = y
    BY <1>3 DEF Ordered
  <2>1. old(m) \in DOMAIN l /\ k[m] = l[old(m)] /\ l[old(m)].dso \in Named(l)
    BY <1>1, <1>4, PlacedAt
  <2>2. PICK a \in 1 .. old(m) - 1 : l[a].dso = y
    BY <1>11, <2>1 DEF Ordered
  <2>3. a \in 1 .. n /\ a < old(m) /\ a # i
    BY <1>1, <1>11, <2>1, <2>2
  <2>4. PICK j \in 1 .. n - 1 : old(j) = a
    BY <1>5, <2>3
  <2>5. j < m /\ k[j].dso = y
    BY <1>4, <1>6, <2>2, <2>3, <2>4
  <2>6. j \in 1 .. m - 1
    BY <2>5
  <2> QED
    BY <2>5, <2>6
<1> QED
  BY <1>7, <1>8, <1>9, <1>10, <1>11

-----------------------------------------------------------------------------
(* Calls in progress *)

\* What the innermost call visits is not being visited.
LEMMA NotCalled ==
  ASSUME NEW c, Nested(c), c # <<>>, NEW y \in Library, Depends(Caller(c), y)
  PROVE  y \notin Named(c)
<1>1. Len(c) \in DOMAIN c /\ (\A k \in DOMAIN c : k <= Len(c)) /\ Caller(c) \in Library
  <2>1. c \in Seq(Calls)
    BY DEF Nested
  <2>2. Len(c) \in DOMAIN c /\ \A k \in DOMAIN c : k <= Len(c)
    BY <2>1
  <2>3. c[Len(c)] \in Calls
    BY <2>1, <2>2
  <2> QED
    BY <2>2, <2>3 DEF Calls, Caller
<1>2. SUFFICES ASSUME NEW k \in DOMAIN c, c[k].dso = y PROVE FALSE
  BY DEF Named
<1>3. Caller(c) \in Requires[y]
  BY <1>1, <1>2 DEF Nested, Caller
<1> QED
  BY <1>1, <1>3, NeedsAssumption

\* A call goes on with the next library.
LEMMA WentOn ==
  ASSUME NEW c, Nested(c), c # <<>>, Position(c) <= Len(Needs[Caller(c)]),
         NEW d, d = Stepped(c)
  PROVE  /\ Nested(d) /\ d # <<>> /\ Named(d) = Named(c)
         /\ d[1].dso = c[1].dso /\ Caller(d) = Caller(c)
         /\ \A x \in Library : \A i \in DOMAIN Needs[x] :
              /\ Adds(d, x, i) <=> Adds(c, x, i) \/ (x = Caller(c) /\ i = Position(c))
              /\ Drops(d, x, i) <=> Drops(c, x, i) /\ ~(x = Caller(c) /\ i = Position(c))
<1> DEFINE n == Len(c)
<1>1. /\ c \in Seq(Calls) /\ n \in Nat /\ n >= 1 /\ DOMAIN c = 1 .. n
      /\ \A k \in 1 .. n : c[k] \in Calls
  BY DEF Nested
<1>2. \A k \in 1 .. n : c[k].dso \in Library /\ c[k].next \in Nat
  BY <1>1 DEF Calls
<1>3. d = [c EXCEPT ![n].next = @ + 1]
  BY DEF Stepped
<1>10. Caller(c) = c[n].dso /\ Position(c) = c[n].next
  BY DEF Caller, Position
<1>4. n = Len(c)
  OBVIOUS
<1> HIDE DEF n
<1>5. /\ DOMAIN d = 1 .. n /\ d[n] = [c[n] EXCEPT !.next = @ + 1]
      /\ \A k \in 1 .. n : k # n => d[k] = c[k]
  BY <1>1, <1>3
<1>6. d[n].dso = c[n].dso /\ d[n].next = c[n].next + 1 /\ d[n] \in Calls
  BY <1>1, <1>2, <1>5 DEF Calls
<1>7. d \in Seq(Calls) /\ Len(d) = n /\ d # <<>>
  <2>1. d \in [1 .. n -> Calls]
    BY <1>1, <1>3, <1>5, <1>6
  <2> QED
    BY <1>1, <2>1
<1>8. \A k \in 1 .. n : d[k].dso = c[k].dso
  BY <1>5, <1>6
<1>9. Distinct(d) /\ Named(d) = Named(c)
  <2>1. Distinct(c)
    BY DEF Nested
  <2>2. Distinct(d)
    BY ONLY <1>1, <1>5, <1>8, <2>1 DEF Distinct
  <2>3. Named(d) = Named(c)
    BY ONLY <1>1, <1>5, <1>8 DEF Named
  <2> QED
    BY <2>2, <2>3
<1>11. Nested(d)
  <2>1. \A k \in 1 .. n : d[k].next \in 1 .. Len(Needs[d[k].dso]) + 1
    <3>1. ASSUME NEW k \in 1 .. n, k # n PROVE d[k].next \in 1 .. Len(Needs[d[k].dso]) + 1
      BY <1>1, <1>5, <3>1 DEF Nested
    <3>2. d[n].next \in 1 .. Len(Needs[d[n].dso]) + 1
      <4>1. Len(Needs[c[n].dso]) \in Nat /\ c[n].next <= Len(Needs[c[n].dso])
        BY <1>1, <1>2, <1>10, NeedsAssumption
      <4> QED
        BY <1>1, <1>2, <1>6, <4>1
    <3> QED
      BY <3>1, <3>2
  <2>2. \A j, k \in 1 .. n : j <= k => d[k].dso \in Requires[d[j].dso]
    BY <1>1, <1>8 DEF Nested
  <2> QED
    BY <1>5, <1>7, <1>9, <2>1, <2>2 DEF Nested
<1>12. ASSUME NEW x, NEW i \in Nat
       PROVE  /\ Adds(d, x, i) <=> Adds(c, x, i) \/ (x = c[n].dso /\ i = c[n].next)
              /\ Drops(d, x, i) <=> Drops(c, x, i) /\ ~(x = c[n].dso /\ i = c[n].next)
  <2>1. c[n].next \in Nat /\ n \in 1 .. n
    BY <1>1, <1>2
  <2>2. CASE x = c[n].dso
    <3>1. \A k \in 1 .. n : c[k].dso = x <=> k = n
      BY <1>1, <2>1, <2>2 DEF Nested, Distinct
    <3>2. (Adds(c, x, i) <=> i < c[n].next) /\ (Drops(c, x, i) <=> i >= c[n].next)
      BY <1>1, <2>1, <3>1 DEF Adds, Drops
    <3>3. (Adds(d, x, i) <=> i < d[n].next) /\ (Drops(d, x, i) <=> i >= d[n].next)
      BY <1>5, <1>8, <2>1, <3>1 DEF Adds, Drops
    <3>4. /\ i < d[n].next <=> i < c[n].next \/ i = c[n].next
          /\ i >= d[n].next <=> i >= c[n].next /\ i # c[n].next
      BY <1>6, <2>1
    <3> QED
      BY <2>2, <3>2, <3>3, <3>4
  <2>3. CASE x # c[n].dso
    <3>1. (Adds(d, x, i) <=> Adds(c, x, i)) /\ (Drops(d, x, i) <=> Drops(c, x, i))
      BY <1>1, <1>5, <1>8, <2>3 DEF Adds, Drops
    <3> QED
      BY <2>3, <3>1
  <2> QED
    BY <2>2, <2>3
<1>13. d[1].dso = c[1].dso /\ Caller(d) = d[n].dso
  BY <1>1, <1>7, <1>8 DEF Caller
<1>14. ASSUME NEW x \in Library, NEW i \in DOMAIN Needs[x]
       PROVE  /\ Adds(d, x, i) <=> Adds(c, x, i) \/ (x = Caller(c) /\ i = Position(c))
              /\ Drops(d, x, i) <=> Drops(c, x, i) /\ ~(x = Caller(c) /\ i = Position(c))
  <2>1. i \in Nat
    BY NeedsAssumption
  <2> QED
    BY <1>10, <1>12, <2>1
<1> QED
  BY <1>6, <1>7, <1>9, <1>10, <1>11, <1>13, <1>14

\* A call is entered.
LEMMA Entered ==
  ASSUME NEW c, Nested(c), NEW y \in Library, y \notin Named(c),
         c # <<>> => Depends(Caller(c), y),
         NEW d, d = Pushed(c, y)
  PROVE  /\ Nested(d) /\ d # <<>> /\ Named(d) = Named(c) \cup {y}
         /\ d[1].dso = IF c = <<>> THEN y ELSE c[1].dso
         /\ \A x \in Library : \A i \in DOMAIN Needs[x] :
              /\ Adds(d, x, i) <=> Adds(c, x, i)
              /\ Drops(d, x, i) <=> Drops(c, x, i) \/ x = y
<1> DEFINE n == Len(c)
<1>1. c \in Seq(Calls) /\ n \in Nat /\ DOMAIN c = 1 .. n /\ (c = <<>> <=> n = 0)
  BY DEF Nested
<1>v. Visit(y) \in Calls /\ Visit(y).dso = y /\ Visit(y).next = 1
  BY DEF Visit, Calls
<1>2. d \in Seq(Calls) /\ DOMAIN d = 1 .. n + 1 /\ d # <<>>
  BY <1>1, <1>v DEF Pushed
<1>3. d[n + 1] = Visit(y) /\ \A k \in 1 .. n : d[k] = c[k]
  BY <1>1, <1>v DEF Pushed
<1> HIDE DEF n
<1>4. \A k \in 1 .. n + 1 : k \in 1 .. n \/ k = n + 1
  BY <1>1
<1>5. n + 1 \in 1 .. n + 1 /\ n + 1 \notin 1 .. n /\ 1 .. n \subseteq 1 .. n + 1
  BY <1>1
<1>6. Named(d) = Named(c) \cup {y}
  BY <1>1, <1>2, <1>3, <1>4, <1>5, <1>v DEF Named
<1>7. Distinct(d)
  BY <1>1, <1>2, <1>3, <1>4, <1>v DEF Nested, Distinct, Named
<1>8. \A k \in 1 .. n + 1 : d[k].next \in 1 .. Len(Needs[d[k].dso]) + 1
  <2>1. Len(Needs[y]) \in Nat
    BY NeedsAssumption
  <2>2. d[n + 1].next \in 1 .. Len(Needs[d[n + 1].dso]) + 1
    BY <1>3, <1>v, <2>1
  <2>3. \A k \in 1 .. n : d[k].next \in 1 .. Len(Needs[d[k].dso]) + 1
    BY <1>1, <1>3 DEF Nested
  <2> QED
    BY <1>4, <2>2, <2>3
<1>9. \A j, k \in 1 .. n + 1 : j <= k => d[k].dso \in Requires[d[j].dso]
  <2> SUFFICES ASSUME NEW j \in 1 .. n + 1, NEW k \in 1 .. n + 1, j <= k
               PROVE  d[k].dso \in Requires[d[j].dso]
    OBVIOUS
  <2>1. CASE k \in 1 .. n
    <3>1. j \in 1 .. n
      BY <1>1, <2>1
    <3> QED
      BY <1>1, <1>3, <2>1, <3>1 DEF Nested
  <2>2. CASE k = n + 1 /\ j = n + 1
    BY <1>3, <1>v, <2>2, RequiresSelf
  <2>3. CASE k = n + 1 /\ j \in 1 .. n
    <3>1. n \in 1 .. n /\ j <= n /\ c # <<>>
      BY <1>1, <2>3
    <3>2. c[n].dso \in Requires[c[j].dso] /\ c[j].dso \in Library
      <4>1. c[j] \in Calls
        BY <1>1, <2>3
      <4>2. c[n].dso \in Requires[c[j].dso]
        BY <1>1, <2>3, <3>1 DEF Nested
      <4> QED
        BY <4>1, <4>2 DEF Calls
    <3>3. Depends(c[n].dso, y)
      BY <3>1 DEF n, Caller
    <3>4. y \in Requires[c[j].dso]
      BY <3>2, <3>3, RequiresNext
    <3> QED
      BY <1>3, <1>v, <2>3, <3>4
  <2> QED
    BY <1>4, <2>1, <2>2, <2>3
<1>10. d[1].dso = IF c = <<>> THEN y ELSE c[1].dso
  <2>1. CASE c = <<>>
    BY <1>1, <1>3, <1>v, <2>1
  <2>2. CASE c # <<>>
    BY <1>1, <1>3, <2>2
  <2> QED
    BY <2>1, <2>2
<1>11. ASSUME NEW x \in Library, NEW i \in DOMAIN Needs[x]
       PROVE  /\ Adds(d, x, i) <=> Adds(c, x, i)
              /\ Drops(d, x, i) <=> Drops(c, x, i) \/ x = y
  <2>1. i \in Nat \ {0}
    BY NeedsAssumption
  <2>2. ~(i < Visit(y).next) /\ i >= Visit(y).next
    BY <1>v, <2>1
  <2> QED
    BY <1>1, <1>2, <1>3, <1>4, <1>5, <1>v, <2>2 DEF Adds, Drops
<1> QED
  BY <1>2, <1>6, <1>7, <1>8, <1>9, <1>10, <1>11 DEF Nested

\* A call returns.
LEMMA Returned ==
  ASSUME NEW c, Nested(c), c # <<>>, NEW d, d = Popped(c)
  PROVE  /\ Nested(d) /\ Named(d) = Named(c) \ {Caller(c)}
         /\ d # <<>> => d[1] = c[1]
         /\ d = <<>> <=> Caller(c) = c[1].dso
         /\ \A x, i : /\ Adds(d, x, i) <=> Adds(c, x, i) /\ x # Caller(c)
                      /\ Drops(d, x, i) <=> Drops(c, x, i) /\ x # Caller(c)
<1> PICK n : n = Len(c)
  OBVIOUS
<1>1. c \in Seq(Calls) /\ n \in Nat /\ n >= 1 /\ DOMAIN c = 1 .. n
  BY DEF Nested
<1>2. d \in Seq(Calls) /\ DOMAIN d = 1 .. n - 1 /\ Len(d) = n - 1
  BY <1>1 DEF Popped
<1>3. \A k \in 1 .. n - 1 : d[k] = c[k]
  BY <1>1 DEF Popped
<1>4. /\ \A k \in 1 .. n : k \in 1 .. n - 1 \/ k = n
      /\ n \in 1 .. n /\ n \notin 1 .. n - 1 /\ 1 .. n - 1 \subseteq 1 .. n
  BY <1>1
<1>5. \A k \in 1 .. n - 1 : c[k].dso # c[n].dso
  BY <1>1, <1>4 DEF Nested, Distinct
<1>6. Named(d) = Named(c) \ {c[n].dso}
  <2>1. ASSUME NEW x \in Named(d) PROVE x \in Named(c) /\ x # c[n].dso
    <3>1. PICK k \in 1 .. n - 1 : d[k].dso = x
      BY <1>2, <2>1 DEF Named
    <3> QED
      BY <1>1, <1>3, <1>4, <1>5, <3>1 DEF Named
  <2>2. ASSUME NEW x \in Named(c), x # c[n].dso PROVE x \in Named(d)
    <3>1. PICK k \in 1 .. n : c[k].dso = x
      BY <1>1, <2>2 DEF Named
    <3>2. k \in 1 .. n - 1
      BY <1>4, <2>2, <3>1
    <3> QED
      BY <1>2, <1>3, <3>1, <3>2 DEF Named
  <2> QED
    BY <2>1, <2>2
<1>7. Nested(d)
  BY <1>1, <1>2, <1>3, <1>4 DEF Nested, Distinct
<1>8. (d # <<>> => d[1] = c[1]) /\ (d = <<>> <=> Caller(c) = c[1].dso)
  <2>1. d = <<>> <=> n - 1 = 0
    <3>1. d \in Seq(Calls) /\ Len(d) = n - 1
      BY <1>2
    <3> QED
      BY ONLY <3>1, EmptySeq
  <2>2. n - 1 # 0 => 1 \in 1 .. n - 1
    BY <1>1
  <2>3. c[n].dso = c[1].dso <=> n = 1
    BY <1>1, <1>4 DEF Nested, Distinct
  <2> QED
    BY <1>1, <1>3, <2>1, <2>2, <2>3 DEF Caller
<1>9. ASSUME NEW x, NEW i
      PROVE  /\ Adds(d, x, i) <=> Adds(c, x, i) /\ x # c[n].dso
             /\ Drops(d, x, i) <=> Drops(c, x, i) /\ x # c[n].dso
  BY <1>1, <1>2, <1>3, <1>4, <1>5 DEF Adds, Drops
<1>10. Caller(c) = c[n].dso
  BY DEF Caller
<1> QED
  BY <1>6, <1>7, <1>8, <1>9, <1>10

-----------------------------------------------------------------------------
(* References *)

\* A dependency is a library and a place among its dependencies.
LEMMA Dependencies ==
  ASSUME NEW d \in Dependency
  PROVE  /\ d = <<d[1], d[2]>> /\ d[1] \in Library /\ d[2] \in DOMAIN Needs[d[1]]
         /\ d[2] \in Nat \ {0} /\ Needs[d[1]][d[2]] \in Library
<1>1. PICK x \in Library : d \in {x} \X DOMAIN Needs[x]
  BY DEF Dependency
<1>2. d = <<d[1], d[2]>> /\ d[1] = x /\ d[2] \in DOMAIN Needs[x]
  BY <1>1
<1>3. Needs[x] \in Seq(Library)
  BY NeedsAssumption
<1> QED
  BY <1>2, <1>3

\* Every such pair is one.
LEMMA DependencyIn ==
  ASSUME NEW x \in Library, NEW i \in DOMAIN Needs[x]
  PROVE  <<x, i>> \in Dependency
<1>1. <<x, i>> \in {x} \X DOMAIN Needs[x]
  OBVIOUS
<1> QED
  BY <1>1 DEF Dependency

\* Nothing is counted more or less.
LEMMA HoldingSame ==
  ASSUME NEW t, \A x \in Library : \A i \in DOMAIN Needs[x] : Holds(t, x, i)' <=> Holds(t, x, i)
  PROVE  \A y : Holding(t, y)' = Holding(t, y)
<1>1. \A d \in Dependency : Holds(t, d[1], d[2])' <=> Holds(t, d[1], d[2])
  BY Dependencies
<1> QED
  BY <1>1 DEF Holding

\* One dependency more is counted.
LEMMA HoldingMore ==
  ASSUME NEW t, NEW a \in Library, NEW b \in DOMAIN Needs[a], ~Holds(t, a, b),
         \A x \in Library : \A i \in DOMAIN Needs[x] :
           Holds(t, x, i)' <=> Holds(t, x, i) \/ (x = a /\ i = b),
         \A y \in Library : IsFiniteSet(Holding(t, y))
  PROVE  \A y \in Library :
           /\ IsFiniteSet(Holding(t, y)')
           /\ Cardinality(Holding(t, y)') =
                Cardinality(Holding(t, y)) + (IF y = Needs[a][b] THEN 1 ELSE 0)
           /\ Cardinality(Holding(t, y)) \in Nat
<1> SUFFICES ASSUME NEW y \in Library
             PROVE  /\ IsFiniteSet(Holding(t, y)')
                    /\ Cardinality(Holding(t, y)') =
                         Cardinality(Holding(t, y)) + (IF y = Needs[a][b] THEN 1 ELSE 0)
                    /\ Cardinality(Holding(t, y)) \in Nat
  OBVIOUS
<1>1. \A d \in Dependency : Holds(t, d[1], d[2])' <=> Holds(t, d[1], d[2]) \/ d = <<a, b>>
  BY Dependencies
<1>2. <<a, b>> \in Dependency /\ <<a, b>> \notin Holding(t, y)
  BY DependencyIn DEF Holding
<1>3. IsFiniteSet(Holding(t, y)) /\ Cardinality(Holding(t, y)) \in Nat
  BY FS_CardinalityType
<1>4. CASE y = Needs[a][b]
  <2>1. Holding(t, y)' = Holding(t, y) \cup {<<a, b>>}
    BY <1>1, <1>2, <1>4 DEF Holding
  <2>2. /\ IsFiniteSet(Holding(t, y) \cup {<<a, b>>})
        /\ Cardinality(Holding(t, y) \cup {<<a, b>>}) = Cardinality(Holding(t, y)) + 1
    BY <1>2, <1>3, FS_AddElement
  <2> QED
    BY <1>3, <1>4, <2>1, <2>2
<1>5. CASE y # Needs[a][b]
  <2>1. Holding(t, y)' = Holding(t, y)
    BY <1>1, <1>5 DEF Holding
  <2> QED
    BY <1>3, <1>5, <2>1
<1> QED
  BY <1>4, <1>5

\* One dependency less is counted.
LEMMA HoldingLess ==
  ASSUME NEW t, NEW a \in Library, NEW b \in DOMAIN Needs[a], Holds(t, a, b),
         \A x \in Library : \A i \in DOMAIN Needs[x] :
           Holds(t, x, i)' <=> Holds(t, x, i) /\ ~(x = a /\ i = b),
         \A y \in Library : IsFiniteSet(Holding(t, y))
  PROVE  \A y \in Library :
           /\ IsFiniteSet(Holding(t, y)')
           /\ Cardinality(Holding(t, y)') =
                Cardinality(Holding(t, y)) - (IF y = Needs[a][b] THEN 1 ELSE 0)
           /\ Cardinality(Holding(t, y)) \in Nat /\ Cardinality(Holding(t, y)') \in Nat
<1> SUFFICES ASSUME NEW y \in Library
             PROVE  /\ IsFiniteSet(Holding(t, y)')
                    /\ Cardinality(Holding(t, y)') =
                         Cardinality(Holding(t, y)) - (IF y = Needs[a][b] THEN 1 ELSE 0)
                    /\ Cardinality(Holding(t, y)) \in Nat /\ Cardinality(Holding(t, y)') \in Nat
  OBVIOUS
<1>1. \A d \in Dependency : Holds(t, d[1], d[2])' <=> Holds(t, d[1], d[2]) /\ d # <<a, b>>
  BY Dependencies
<1>2. <<a, b>> \in Dependency /\ (y = Needs[a][b] => <<a, b>> \in Holding(t, y))
  BY DependencyIn DEF Holding
<1>3. IsFiniteSet(Holding(t, y)) /\ Cardinality(Holding(t, y)) \in Nat
  BY FS_CardinalityType
<1>4. CASE y = Needs[a][b]
  <2>1. Holding(t, y)' = Holding(t, y) \ {<<a, b>>}
    BY <1>1, <1>2, <1>4 DEF Holding
  <2>2. /\ IsFiniteSet(Holding(t, y) \ {<<a, b>>})
        /\ Cardinality(Holding(t, y) \ {<<a, b>>}) = Cardinality(Holding(t, y)) - 1
    BY <1>2, <1>3, <1>4, FS_RemoveElement
  <2> QED
    BY <1>3, <1>4, <2>1, <2>2, FS_CardinalityType
<1>5. CASE y # Needs[a][b]
  <2>1. Holding(t, y)' = Holding(t, y)
    BY <1>1, <1>5 DEF Holding
  <2> QED
    BY <1>3, <1>5, <2>1
<1> QED
  BY <1>4, <1>5

\* Nobody in the list needs a library that is not held.
LEMMA NotNeeded ==
  ASSUME NEW t, NEW y \in Library, Holding(t, y) = {}, NEW z \in Library \cap Named(loaded[t])
  PROVE  ~Depends(z, y)
<1> SUFFICES ASSUME NEW i \in DOMAIN Needs[z], Needs[z][i] = y PROVE FALSE
  BY DEF Depends
<1>1. <<z, i>> \in Dependency
  BY DependencyIn
<1> QED
  BY <1>1 DEF Holding, Holds

\* What a library is counted for is there, or about to be.
LEMMA HeldIsThere ==
  ASSUME NEW t, ListFits(t), NEW a \in Library, NEW b \in DOMAIN Needs[a], Holds(t, a, b)
  PROVE  /\ Needs[a][b] \in Library
         /\ Cardinality(Holding(t, Needs[a][b])) \in Nat \ {0}
         /\ \/ Needs[a][b] \in Named(loaded[t])
            \/ doing[t] = "adding" /\ Needs[a][b] \in Named(calls[t])
<1> DEFINE y == Needs[a][b]
           H == Holding(t, y)
<1>1. <<a, b>> \in Dependency /\ y \in Library
  BY DependencyIn, NeedsAssumption
<1>2. <<a, b>> \in H /\ IsFiniteSet(H)
  BY <1>1 DEF Holding, ListFits
<1> HIDE DEF H
<1>3. Cardinality(H) \in Nat \ {0}
  BY <1>2, FS_CardinalityType, FS_EmptySet
<1>4. Given(t, y) = Own(t, y) + Cardinality(H)
  BY <1>1 DEF ListFits, H
<1>5. Own(t, y) \in Nat
  BY DEF Own
<1>6. Given(t, y) # 0
  BY <1>3, <1>4, <1>5
<1> QED
  BY <1>1, <1>3, <1>6 DEF Given, H

-----------------------------------------------------------------------------
(* Every step of a thread keeps what fits *)

\* A thread whose part of the state stays is none of the others' business.
LEMMA ThreadSame ==
  ASSUME NEW t, ThreadFits(t), loaded'[t] = loaded[t], doing'[t] = doing[t], calls'[t] = calls[t],
         subject'[t] = subject[t] \/ doing[t] \notin Using
  PROVE  ThreadFits(t)'
<1>1. \A x, i : Holds(t, x, i)' <=> Holds(t, x, i)
  BY DEF Holds
<1>2. \A y : Holding(t, y)' = Holding(t, y)
  BY <1>1, HoldingSame
<1>3. CASE doing[t] \in Using
  <2>1. subject'[t] = subject[t]
    BY <1>3
  <2>2. \A y : Given(t, y)' = Given(t, y) /\ Own(t, y)' = Own(t, y)
    BY <2>1 DEF Given, Own
  <2>3. ListFits(t)'
    BY <1>2, <1>3, <2>2 DEF ThreadFits, ListFits
  <2>4. CallsFit(t)'
    BY <1>3, <2>1 DEF ThreadFits, CallsFit
  <2> QED
    BY <1>3, <2>3, <2>4 DEF ThreadFits, Using, InCall
<1>4. CASE doing[t] \notin Using
  BY <1>4 DEF ThreadFits
<1> QED
  BY <1>3, <1>4

\* A step that leaves the list and the calls alone.
LEMMA QuietFits ==
  ASSUME NEW t, ListFits(t), doing[t] # "adding", doing'[t] # "adding",
         loaded'[t] = loaded[t], calls'[t] = calls[t]
  PROVE  ListFits(t)'
<1>1. \A x, i : Holds(t, x, i)' <=> Holds(t, x, i)
  BY DEF Holds
<1>2. \A y : Holding(t, y)' = Holding(t, y)
  BY <1>1, HoldingSame
<1>3. \A y : Given(t, y)' = Given(t, y) /\ Own(t, y)' = Own(t, y)
  BY DEF Given, Own
<1> QED
  BY <1>2, <1>3 DEF ListFits

\* rt_loadLibrary: dlopen.
LEMMA LoadOpenFits ==
  ASSUME NEW t \in Users, LibInv, NEW x \in Library, LoadOpen(t, x)
  PROVE  ThreadFits(t)'
<1>1. /\ doing[t] = "run" /\ doing'[t] = "opened" /\ subject'[t] = x
      /\ loaded'[t] = loaded[t] /\ calls'[t] = calls[t]
  BY DEF LoadOpen, Goes, LibInv
<1>2. CallsFit(t) /\ ListFits(t)
  BY <1>1 DEF LibInv, ThreadFits, Using
<1>3. ListFits(t)'
  BY <1>1, <1>2, QuietFits
<1>4. CallsFit(t)'
  BY <1>1, <1>2 DEF CallsFit, InCall
<1> QED
  BY <1>1, <1>3, <1>4 DEF ThreadFits

\* rt_unloadLibrary: dlclose.
LEMMA UnloadCloseFits ==
  ASSUME NEW t \in Users, LibInv, UnloadClose(t)
  PROVE  ThreadFits(t)'
<1>1. /\ doing[t] = "dropping" /\ doing'[t] = "run" /\ calls[t] = <<>>
      /\ loaded'[t] = loaded[t] /\ calls'[t] = calls[t]
  BY DEF UnloadClose, Goes, LibInv
<1>2. CallsFit(t) /\ ListFits(t)
  BY <1>1 DEF LibInv, ThreadFits, Using, InCall
<1>3. ListFits(t)'
  BY <1>1, <1>2, QuietFits
<1>4. CallsFit(t)'
  BY <1>1, <1>2 DEF CallsFit, InCall
<1> QED
  BY <1>1, <1>3, <1>4 DEF ThreadFits

\* inheritLoadedLibraries.
LEMMA InheritFits ==
  ASSUME NEW t \in Users, LibInv, Inherit(t)
  PROVE  ThreadFits(t)'
<1>1. /\ doing[t] = "started" /\ doing'[t] = "run"
      /\ loaded'[t] = loaded[t] /\ calls'[t] = calls[t]
  BY DEF Inherit, Goes, LibInv
<1>2. CallsFit(t) /\ ListFits(t)
  BY <1>1 DEF LibInv, ThreadFits, Using, InCall
<1>3. ListFits(t)'
  BY <1>1, <1>2, QuietFits
<1>4. CallsFit(t)'
  BY <1>1, <1>2 DEF CallsFit, InCall
<1> QED
  BY <1>1, <1>3, <1>4 DEF ThreadFits

\* The fields of an entry.
LEMMA EntryIs ==
  ASSUME NEW x \in Library, NEW r \in Nat, NEW a \in Nat, NEW f,
         f = [dso |-> x, ref |-> r, add |-> a]
  PROVE  f \in Entries /\ f.dso = x /\ f.ref = r /\ f.add = a
BY DEF Entries

\* What another reference does to an entry.
LEMMA AgainIs ==
  ASSUME NEW e \in Entries
  PROVE  /\ Again(e, TRUE) \in Entries /\ Again(e, TRUE).dso = e.dso
         /\ Again(e, TRUE).add = e.add + 1
         /\ Again(e, TRUE).ref = IF e.add > 0 THEN e.ref ELSE e.ref + 1
         /\ Again(e, FALSE) \in Entries /\ Again(e, FALSE).dso = e.dso
         /\ Again(e, FALSE).add = e.add /\ Again(e, FALSE).ref = e.ref + 1
<1> PICK x, r, a : x = e.dso /\ r = e.ref /\ a = e.add
  OBVIOUS
<1> PICK r1, a1 : r1 = r + 1 /\ a1 = a + 1
  OBVIOUS
<1>1. e = [dso |-> x, ref |-> r, add |-> a] /\ x \in Library /\ r \in Nat /\ a \in Nat
  BY DEF Entries
<1>n. r1 \in Nat /\ a1 \in Nat
  BY <1>1
<1>2. /\ Again(e, FALSE) \in Entries /\ Again(e, FALSE).dso = x
      /\ Again(e, FALSE).add = a /\ Again(e, FALSE).ref = r1
  <2> PICK f : f = Again(e, FALSE)
    OBVIOUS
  <2>1. f = [e EXCEPT !.ref = @ + 1, !.add = @]
    BY DEF Again
  <2>2. f = [dso |-> x, ref |-> r1, add |-> a]
    BY <1>1, <2>1
  <2>3. f \in Entries /\ f.dso = x /\ f.ref = r1 /\ f.add = a
    BY ONLY <1>1, <1>n, <2>2, EntryIs
  <2> QED
    BY <2>3
<1>3. CASE e.add > 0
  <2> PICK f : f = Again(e, TRUE)
    OBVIOUS
  <2>1. f = [e EXCEPT !.add = @ + 1]
    BY <1>3 DEF Again
  <2>2. f = [dso |-> x, ref |-> r, add |-> a1]
    BY <1>1, <2>1
  <2>3. f \in Entries /\ f.dso = x /\ f.ref = r /\ f.add = a1
    BY ONLY <1>1, <1>n, <2>2, EntryIs
  <2> QED
    BY <1>2, <1>3, <2>3
<1>4. CASE ~(e.add > 0)
  <2> PICK f : f = Again(e, TRUE)
    OBVIOUS
  <2>1. f = [e EXCEPT !.ref = @ + 1, !.add = 1]
    BY <1>4 DEF Again
  <2>2. a1 = 1
    BY <1>1, <1>4
  <2>3. f = [dso |-> x, ref |-> r1, add |-> a1]
    BY <1>1, <2>1, <2>2
  <2>4. f \in Entries /\ f.dso = x /\ f.ref = r1 /\ f.add = a1
    BY ONLY <1>1, <1>n, <2>3, EntryIs
  <2> QED
    BY <1>2, <1>4, <2>4
<1> QED
  BY <1>3, <1>4

\* incThreadRef finds the library that is loaded.
LEMMA LoadAgainFits ==
  ASSUME NEW t \in Users, LibInv, LoadAgain(t)
  PROVE  ThreadFits(t)'
<1> PICK l, x, k : l = loaded[t] /\ x = subject[t] /\ k = loaded'[t]
  OBVIOUS
<1> PICK o : o = EntryOf(l, x)
  OBVIOUS
<1> PICK e : e = Again(o, TRUE)
  OBVIOUS
<1>1. /\ doing[t] = "opened" /\ doing'[t] = "run" /\ calls'[t] = calls[t]
      /\ x \in Named(l) /\ k = Changed(l, x, e)
  BY DEF LoadAgain, Goes, LibInv, EntryOf, Changed
<1>2. CallsFit(t) /\ ListFits(t) /\ calls[t] = <<>>
  BY <1>1 DEF LibInv, ThreadFits, Using, InCall, CallsFit
<1>3. l \in Seq(Entries) /\ Distinct(l) /\ Ordered(l) /\ \A y \in Named(l) : EntryOf(l, y).ref > 0
  BY <1>2 DEF ListFits
<1>4. o \in Entries /\ o.dso = x /\ o.ref \in Nat /\ o.add \in Nat
  BY <1>1, <1>3, EntryIn
<1>5. /\ e \in Entries /\ e.dso = x /\ e.add = o.add + 1
      /\ e.ref = IF o.add > 0 THEN o.ref ELSE o.ref + 1
  BY <1>4, AgainIs
<1>6. /\ k \in Seq(Entries) /\ Distinct(k) /\ Named(k) = Named(l) /\ Ordered(k)
      /\ \A y \in Named(l) : EntryOf(k, y) = IF y = x THEN e ELSE EntryOf(l, y)
  BY ONLY <1>1, <1>3, <1>5, Replaced
<1>7. \A z, i : Holds(t, z, i)' <=> Holds(t, z, i)
  BY <1>1, <1>6 DEF Holds
<1>8. \A y : Holding(t, y)' = Holding(t, y)
  BY <1>7, HoldingSame
<1>9. ASSUME NEW y \in Library PROVE Given(t, y)' = Own(t, y)' + Cardinality(Holding(t, y)')
  <2>1. Given(t, y) = Own(t, y) + Cardinality(Holding(t, y))
    BY <1>2 DEF ListFits
  <2>2. CASE y # x \/ y \notin Named(l)
    BY <1>1, <1>6, <1>8, <2>1, <2>2 DEF Given, Own
  <2>3. CASE y = x /\ y \in Named(l)
    <3>1. /\ Given(t, y) = o.ref /\ Given(t, y)' = e.ref
          /\ Own(t, y) = (IF o.add > 0 THEN 1 ELSE 0)
          /\ Own(t, y)' = IF e.add > 0 THEN 1 ELSE 0
      BY <1>6, <2>3 DEF Given, Own
    <3>2. Cardinality(Holding(t, y)) \in Nat /\ Holding(t, y)' = Holding(t, y)
      BY <1>2, <1>8, FS_CardinalityType DEF ListFits
    <3> QED
      BY <1>4, <1>5, <2>1, <3>1, <3>2
  <2> QED
    BY <2>2, <2>3
<1>10. \A y \in Named(k) : EntryOf(k, y).ref > 0
  <2>1. e.ref > 0
    <3>1. o.ref > 0
      BY <1>1, <1>3
    <3>2. CASE o.add > 0
      BY <1>5, <3>1, <3>2
    <3>3. CASE ~(o.add > 0)
      <4>1. e.ref = o.ref + 1 /\ o.ref \in Nat
        BY <1>4, <1>5, <3>3
      <4> QED
        BY ONLY <4>1
    <3> QED
      BY <3>2, <3>3
  <2> QED
    BY <1>3, <1>6, <2>1
<1>11. ListFits(t)'
  BY <1>2, <1>6, <1>8, <1>9, <1>10 DEF ListFits
<1>12. CallsFit(t)'
  BY <1>1, <1>2, <1>6 DEF CallsFit, InCall
<1> QED
  BY <1>1, <1>11, <1>12 DEF ThreadFits

\* incThreadRef does not find it.
LEMMA LoadNewFits ==
  ASSUME NEW t \in Users, LibInv, LoadNew(t)
  PROVE  ThreadFits(t)'
<1> PICK x, l, d : x = subject[t] /\ l = loaded[t] /\ d = calls'[t]
  OBVIOUS
<1>1. /\ doing[t] = "opened" /\ doing'[t] = "adding" /\ d = Pushed(<<>>, x)
      /\ subject'[t] = x /\ x \notin Named(l) /\ loaded'[t] = l
  BY DEF LoadNew, Goes, LibInv, Pushed
<1>2. CallsFit(t) /\ ListFits(t) /\ calls[t] = <<>> /\ x \in Library /\ Nested(<<>>)
  BY <1>1 DEF LibInv, ThreadFits, Using, InCall, CallsFit
<1>3. Named(<<>>) = {} /\ \A z, i : ~Adds(<<>>, z, i) /\ ~Drops(<<>>, z, i)
  BY DEF Named, Adds, Drops
<1>4. /\ Nested(d) /\ d # <<>> /\ Named(d) = {x} /\ d[1].dso = x
      /\ \A z \in Library : \A i \in DOMAIN Needs[z] : Adds(d, z, i) <=> Adds(<<>>, z, i)
  <2>1. PICK c : c = <<>>
    OBVIOUS
  <2>2. Nested(c) /\ x \in Library /\ x \notin Named(c) /\ d = Pushed(c, x) /\ Named(c) = {}
    BY <1>1, <1>2, <1>3, <2>1
  <2>3. /\ Nested(d) /\ d # <<>> /\ Named(d) = Named(c) \cup {x}
        /\ d[1].dso = IF c = <<>> THEN x ELSE c[1].dso
        /\ \A z \in Library : \A i \in DOMAIN Needs[z] : Adds(d, z, i) <=> Adds(c, z, i)
    BY ONLY <2>1, <2>2, Entered
  <2> QED
    BY <2>1, <2>2, <2>3
<1>5. \A z \in Library : \A i \in DOMAIN Needs[z] : Holds(t, z, i)' <=> Holds(t, z, i)
  BY <1>1, <1>2, <1>3, <1>4 DEF Holds
<1>6. \A y : Holding(t, y)' = Holding(t, y)
  BY <1>5, HoldingSame
<1>7. ASSUME NEW y \in Library PROVE Given(t, y)' = Own(t, y)' + Cardinality(Holding(t, y)')
  <2>1. Given(t, y) = Own(t, y) + Cardinality(Holding(t, y))
    BY <1>2 DEF ListFits
  <2>2. CASE y # x \/ y \in Named(l)
    <3>1. Given(t, y)' = Given(t, y) /\ Own(t, y)' = Own(t, y)
      BY <1>1, <1>4, <2>2 DEF Given, Own
    <3> QED
      BY <1>6, <2>1, <3>1
  <2>3. CASE y = x /\ y \notin Named(l)
    <3>1. Given(t, y) = 0 /\ Own(t, y) = 0 /\ Given(t, y)' = 1 /\ Own(t, y)' = 1
      BY <1>1, <1>4, <2>3 DEF Given, Own
    <3>2. Cardinality(Holding(t, y)) \in Nat /\ Holding(t, y)' = Holding(t, y)
      BY <1>2, <1>6, FS_CardinalityType DEF ListFits
    <3> QED
      BY <2>1, <3>1, <3>2
  <2> QED
    BY <2>2, <2>3
<1>8. ListFits(t)'
  BY <1>1, <1>2, <1>6, <1>7 DEF ListFits
<1>9. CallsFit(t)'
  BY <1>1, <1>2, <1>4 DEF CallsFit, InCall
<1> QED
  BY <1>1, <1>8, <1>9 DEF ThreadFits

\* What the innermost call visits next.
LEMMA Visiting ==
  ASSUME NEW t, CallsFit(t), calls[t] # <<>>,
         NEW c, c = calls[t], NEW a, a = Caller(c), NEW b, b = Position(c)
  PROVE  /\ Nested(c) /\ c # <<>>
         /\ a \in Library /\ a \in Named(c) /\ a \notin Named(loaded[t])
         /\ Innermost(t).dso = a
         /\ Visited(t) => \A i \in DOMAIN Needs[a] : Adds(c, a, i) /\ ~Drops(c, a, i)
         /\ ~Visited(t) =>
              /\ b \in DOMAIN Needs[a] /\ b <= Len(Needs[a])
              /\ ToVisit(t) = Needs[a][b] /\ Needs[a][b] \in Library /\ Depends(a, Needs[a][b])
              /\ Drops(c, a, b) /\ ~Adds(c, a, b)
<1> PICK n : n = Len(c)
  OBVIOUS
<1>1. Nested(c) /\ c # <<>> /\ Named(c) \cap Named(loaded[t]) = {}
  BY DEF CallsFit
<1>2. c \in Seq(Calls) /\ n \in DOMAIN c /\ n \in Nat \ {0} /\ DOMAIN c = 1 .. n
  BY <1>1 DEF Nested
<1>3. c[n] \in Calls /\ a = c[n].dso /\ b = c[n].next
  BY <1>2 DEF Caller, Position
<1>4. a \in Library /\ b \in Nat
  BY <1>3 DEF Calls
<1>5. Needs[a] \in Seq(Library)
  BY <1>4, NeedsAssumption
<1>6. Len(Needs[a]) \in Nat /\ DOMAIN Needs[a] = 1 .. Len(Needs[a])
  BY <1>5
<1>7. b \in 1 .. Len(Needs[a]) + 1
  BY <1>1, <1>2, <1>3 DEF Nested
<1>8. a \in Named(c) /\ a \notin Named(loaded[t])
  BY <1>1, <1>2, <1>3 DEF Named
<1>9. Innermost(t).dso = a /\ (Visited(t) <=> b > Len(Needs[a])) /\ ToVisit(t) = Needs[a][b]
  BY <1>3 DEF Innermost, Visited, ToVisit
<1>10. \A k \in DOMAIN c : c[k].dso = a => k = n
  BY <1>1, <1>2, <1>3 DEF Nested, Distinct
<1>11. ASSUME ~Visited(t)
       PROVE  /\ b \in DOMAIN Needs[a] /\ b <= Len(Needs[a])
              /\ ToVisit(t) = Needs[a][b] /\ Needs[a][b] \in Library /\ Depends(a, Needs[a][b])
              /\ Drops(c, a, b) /\ ~Adds(c, a, b)
  <2>1. b \in DOMAIN Needs[a] /\ b <= Len(Needs[a])
    BY <1>6, <1>7, <1>9, <1>11
  <2>2. Needs[a][b] \in Library
    BY <1>5, <2>1
  <2>3. Depends(a, Needs[a][b])
    BY <2>1 DEF Depends
  <2>4. Drops(c, a, b)
    BY <1>2, <1>3, <1>4 DEF Drops
  <2>5. ~Adds(c, a, b)
    BY <1>3, <1>4, <1>10 DEF Adds
  <2> QED
    BY <1>9, <2>1, <2>2, <2>3, <2>4, <2>5
<1>12. ASSUME Visited(t)
       PROVE  \A i \in DOMAIN Needs[a] : Adds(c, a, i) /\ ~Drops(c, a, i)
  <2> SUFFICES ASSUME NEW i \in DOMAIN Needs[a] PROVE Adds(c, a, i) /\ ~Drops(c, a, i)
    OBVIOUS
  <2>1. i \in Nat /\ i < b
    BY <1>4, <1>6, <1>9, <1>12
  <2> QED
    BY <1>2, <1>3, <1>4, <1>10, <2>1 DEF Adds, Drops
<1> QED
  BY <1>1, <1>4, <1>8, <1>9, <1>11, <1>12

\* What is counted for a thread that is in a call.
LEMMA CountedIn ==
  ASSUME NEW t, ListFits(t), NEW l, l = loaded[t], NEW z \in Library
  PROVE  /\ Given(t, z) = Own(t, z) + Cardinality(Holding(t, z)) /\ IsFiniteSet(Holding(t, z))
         /\ Cardinality(Holding(t, z)) \in Nat /\ Own(t, z) \in {0, 1} /\ Given(t, z) \in Nat
         /\ z \in Named(l) =>
              /\ Given(t, z) = EntryOf(l, z).ref
              /\ Own(t, z) = IF EntryOf(l, z).add > 0 THEN 1 ELSE 0
         /\ z \notin Named(l) =>
              /\ Given(t, z) = IF doing[t] = "adding" /\ z \in Named(calls[t]) THEN 1 ELSE 0
              /\ Own(t, z) = IF doing[t] = "adding" /\ z = subject[t] THEN 1 ELSE 0
<1>1. Given(t, z) = Own(t, z) + Cardinality(Holding(t, z)) /\ IsFiniteSet(Holding(t, z))
  BY DEF ListFits
<1>2. Cardinality(Holding(t, z)) \in Nat
  BY <1>1, FS_CardinalityType
<1>3. Own(t, z) \in {0, 1}
  BY DEF Own
<1>4. z \in Named(l) =>
        /\ Given(t, z) = EntryOf(l, z).ref
        /\ Own(t, z) = IF EntryOf(l, z).add > 0 THEN 1 ELSE 0
  BY DEF Given, Own
<1>5. z \notin Named(l) =>
        /\ Given(t, z) = IF doing[t] = "adding" /\ z \in Named(calls[t]) THEN 1 ELSE 0
        /\ Own(t, z) = IF doing[t] = "adding" /\ z = subject[t] THEN 1 ELSE 0
  BY DEF Given, Own
<1>6. Given(t, z) \in Nat
  BY <1>1, <1>2, <1>3
<1> QED
  BY <1>1, <1>2, <1>3, <1>4, <1>5, <1>6

\* incThreadRef goes on with what the innermost library depends on.
LEMMA IncThreadRefFits ==
  ASSUME NEW t \in Users, LibInv, IncThreadRef(t)
  PROVE  ThreadFits(t)'
<1>1. /\ doing[t] = "adding" /\ doing'[t] = "adding" /\ subject'[t] = subject[t] /\ ~Visited(t)
      /\ DOMAIN loaded = Users /\ DOMAIN calls = Users
  BY DEF IncThreadRef, LibInv
<1>2. CallsFit(t) /\ ListFits(t) /\ calls[t] # <<>>
  BY <1>1 DEF LibInv, ThreadFits, Using, InCall, CallsFit
<1> PICK c, l, k : c = calls[t] /\ l = loaded[t] /\ k = loaded'[t]
  OBVIOUS
<1> PICK a, b : a = Caller(c) /\ b = Position(c)
  OBVIOUS
<1> PICK y, d : y = Needs[a][b] /\ d = Stepped(c)
  OBVIOUS
<1>3. /\ Nested(c) /\ c # <<>>
      /\ a \in Library /\ a \in Named(c) /\ a \notin Named(l)
      /\ b \in DOMAIN Needs[a] /\ b <= Len(Needs[a])
      /\ ToVisit(t) = y /\ y \in Library /\ Depends(a, y) /\ ~Adds(c, a, b)
  BY <1>1, <1>2, Visiting
<1>4. /\ Nested(d) /\ d # <<>> /\ Named(d) = Named(c)
      /\ d[1].dso = c[1].dso /\ Caller(d) = a
      /\ \A x \in Library : \A i \in DOMAIN Needs[x] :
           Adds(d, x, i) <=> Adds(c, x, i) \/ (x = a /\ i = b)
  BY ONLY <1>3, WentOn, a = Caller(c), b = Position(c), d = Stepped(c)
<1>5. GoOn(t) = d
  BY DEF GoOn, Stepped
<1>6. /\ l \in Seq(Entries) /\ Distinct(l) /\ Ordered(l)
      /\ \A z \in Named(l) : EntryOf(l, z).ref > 0
      /\ Named(c) \cap Named(l) = {}
      /\ subject[t] \in Library /\ c[1].dso = subject[t]
  BY <1>1, <1>2 DEF ListFits, CallsFit, InCall
<1>7. ~Holds(t, a, b)
  BY <1>1, <1>3 DEF Holds
<1>8. \A z \in Library :
        /\ Given(t, z) = Own(t, z) + Cardinality(Holding(t, z)) /\ IsFiniteSet(Holding(t, z))
        /\ Cardinality(Holding(t, z)) \in Nat /\ Own(t, z) \in {0, 1} /\ Given(t, z) \in Nat
        /\ z \in Named(l) =>
             /\ Given(t, z) = EntryOf(l, z).ref
             /\ Own(t, z) = IF EntryOf(l, z).add > 0 THEN 1 ELSE 0
        /\ z \notin Named(l) =>
             /\ Given(t, z) = IF z \in Named(c) THEN 1 ELSE 0
             /\ Own(t, z) = IF z = subject[t] THEN 1 ELSE 0
  BY <1>1, <1>2, CountedIn
<1>9. CASE y \in Named(l)
  <2> PICK o : o = EntryOf(l, y)
    OBVIOUS
  <2> PICK e : e = Again(o, FALSE)
    OBVIOUS
  <2>1. k = Changed(l, y, e) /\ calls'[t] = d
    <3>1. /\ loaded' = [loaded EXCEPT ![t][Place(l, y)] = Again(@, FALSE)]
          /\ calls' = [calls EXCEPT ![t] = d]
      BY <1>3, <1>5, <1>9 DEF IncThreadRef
    <3> QED
      BY <1>1, <3>1 DEF Changed, EntryOf
  <2>2. o \in Entries /\ o.dso = y /\ o.ref \in Nat /\ o.add \in Nat /\ o.ref > 0
    BY <1>6, <1>9, EntryIn
  <2>3. e \in Entries /\ e.dso = y /\ e.add = o.add /\ e.ref = o.ref + 1
    BY <2>2, AgainIs
  <2>4. /\ k \in Seq(Entries) /\ Distinct(k) /\ Named(k) = Named(l) /\ Ordered(k)
        /\ \A z \in Named(l) : EntryOf(k, z) = IF z = y THEN e ELSE EntryOf(l, z)
    BY ONLY <1>6, <1>9, <2>1, <2>3, Replaced
  <2>5. \A x \in Library : \A i \in DOMAIN Needs[x] :
          Holds(t, x, i)' <=> Holds(t, x, i) \/ (x = a /\ i = b)
    BY <1>1, <1>4, <2>1, <2>4 DEF Holds
  <2>6. \A z \in Library :
          /\ IsFiniteSet(Holding(t, z)')
          /\ Cardinality(Holding(t, z)') = Cardinality(Holding(t, z)) + (IF z = y THEN 1 ELSE 0)
    <3>1. \A z \in Library : IsFiniteSet(Holding(t, z))
      BY <1>8
    <3> QED
      BY ONLY <1>3, <1>7, <2>5, <3>1, HoldingMore, y = Needs[a][b]
  <2>7. ASSUME NEW z \in Library
        PROVE  Own(t, z)' = Own(t, z) /\ Given(t, z)' = Given(t, z) + IF z = y THEN 1 ELSE 0
    <3>1. CASE z = y
      <4>1. Given(t, z)' = e.ref /\ Own(t, z)' = IF e.add > 0 THEN 1 ELSE 0
        BY <1>9, <2>4, <3>1 DEF Given, Own
      <4>2. Given(t, z) = o.ref /\ Own(t, z) = IF o.add > 0 THEN 1 ELSE 0
        BY <1>8, <1>9, <3>1
      <4> QED
        BY <2>3, <3>1, <4>1, <4>2
    <3>2. CASE z # y
      <4>1. Own(t, z)' = Own(t, z) /\ Given(t, z)' = Given(t, z)
        BY <1>1, <1>4, <2>1, <2>4, <3>2 DEF Given, Own
      <4> QED
        BY <1>8, <3>2, <4>1
    <3> QED
      BY <3>1, <3>2
  <2>8. \A z \in Library : Given(t, z)' = Own(t, z)' + Cardinality(Holding(t, z)')
    BY <1>8, <2>6, <2>7
  <2>9. \A z \in Named(k) : EntryOf(k, z).ref > 0
    <3>1. e.ref > 0
      BY ONLY <2>2, <2>3
    <3> QED
      BY <1>6, <2>4, <3>1
  <2>10. ListFits(t)'
    BY <2>4, <2>6, <2>8, <2>9 DEF ListFits
  <2>11. CallsFit(t)'
    BY <1>1, <1>4, <1>6, <2>1, <2>4 DEF CallsFit
  <2> QED
    BY <1>1, <2>10, <2>11 DEF ThreadFits
<1>10. CASE y \notin Named(l)
  <2> PICK f : f = Pushed(d, y)
    OBVIOUS
  <2>1. k = l /\ calls'[t] = f
    <3>1. loaded' = loaded /\ calls' = [calls EXCEPT ![t] = Append(d, Visit(y))]
      BY <1>3, <1>5, <1>10 DEF IncThreadRef
    <3> QED
      BY <1>1, <3>1 DEF Pushed
  <2>2. y \notin Named(c)
    BY ONLY <1>3, NotCalled, a = Caller(c)
  <2>3. /\ Nested(f) /\ f # <<>> /\ Named(f) = Named(c) \cup {y} /\ f[1].dso = c[1].dso
        /\ \A x \in Library : \A i \in DOMAIN Needs[x] : Adds(f, x, i) <=> Adds(d, x, i)
    <3>1. y \notin Named(d) /\ Depends(Caller(d), y)
      BY <1>3, <1>4, <2>2
    <3>2. /\ Nested(f) /\ f # <<>> /\ Named(f) = Named(d) \cup {y}
          /\ f[1].dso = IF d = <<>> THEN y ELSE d[1].dso
          /\ \A x \in Library : \A i \in DOMAIN Needs[x] : Adds(f, x, i) <=> Adds(d, x, i)
      BY ONLY <1>3, <1>4, <3>1, Entered, f = Pushed(d, y)
    <3> QED
      BY <1>4, <3>2
  <2>4. \A x \in Library : \A i \in DOMAIN Needs[x] :
          Holds(t, x, i)' <=> Holds(t, x, i) \/ (x = a /\ i = b)
    BY <1>1, <1>4, <2>1, <2>3 DEF Holds
  <2>5. \A z \in Library :
          /\ IsFiniteSet(Holding(t, z)')
          /\ Cardinality(Holding(t, z)') = Cardinality(Holding(t, z)) + (IF z = y THEN 1 ELSE 0)
    <3>1. \A z \in Library : IsFiniteSet(Holding(t, z))
      BY <1>8
    <3> QED
      BY ONLY <1>3, <1>7, <2>4, <3>1, HoldingMore, y = Needs[a][b]
  <2>6. y # subject[t]
    <3>1. c \in Seq(Calls) /\ c # <<>>
      BY <1>3 DEF Nested
    <3>2. 1 \in DOMAIN c
      BY ONLY <3>1
    <3> QED
      BY <1>6, <2>2, <3>2 DEF Named
  <2>7. ASSUME NEW z \in Library
        PROVE  Own(t, z)' = Own(t, z) /\ Given(t, z)' = Given(t, z) + IF z = y THEN 1 ELSE 0
    <3>1. CASE z = y
      <4>1. Given(t, z)' = 1 /\ Own(t, z)' = 0
        BY <1>1, <1>10, <2>1, <2>3, <2>6, <3>1 DEF Given, Own
      <4>2. Given(t, z) = 0 /\ Own(t, z) = 0
        BY <1>8, <1>10, <2>2, <2>6, <3>1
      <4> QED
        BY <3>1, <4>1, <4>2
    <3>2. CASE z # y
      <4>1. Own(t, z)' = Own(t, z) /\ Given(t, z)' = Given(t, z)
        BY <1>1, <1>4, <2>1, <2>3, <3>2 DEF Given, Own
      <4> QED
        BY <1>8, <3>2, <4>1
    <3> QED
      BY <3>1, <3>2
  <2>8. \A z \in Library : Given(t, z)' = Own(t, z)' + Cardinality(Holding(t, z)')
    BY <1>8, <2>5, <2>7
  <2>9. ListFits(t)'
    BY <1>6, <2>1, <2>5, <2>8 DEF ListFits
  <2>10. CallsFit(t)'
    BY <1>1, <1>6, <1>10, <2>1, <2>3 DEF CallsFit
  <2> QED
    BY <1>1, <2>9, <2>10 DEF ThreadFits
<1> QED
  BY <1>9, <1>10

\* insertBack.
LEMMA InsertBackFits ==
  ASSUME NEW t \in Users, LibInv, InsertBack(t)
  PROVE  ThreadFits(t)'
<1>1. /\ doing[t] = "adding" /\ Visited(t)
      /\ doing \in [Users -> Doings]
      /\ DOMAIN loaded = Users /\ DOMAIN calls = Users /\ DOMAIN subject = Users
  BY DEF InsertBack, LibInv
<1>2. CallsFit(t) /\ ListFits(t) /\ calls[t] # <<>>
  BY <1>1 DEF LibInv, ThreadFits, Using, InCall, CallsFit
<1> PICK c, l, k : c = calls[t] /\ l = loaded[t] /\ k = loaded'[t]
  OBVIOUS
<1> PICK a, b, d : a = Caller(c) /\ b = Position(c) /\ d = Popped(c)
  OBVIOUS
<1>3. /\ Nested(c) /\ c # <<>>
      /\ a \in Library /\ a \in Named(c) /\ a \notin Named(l) /\ Innermost(t).dso = a
      /\ \A i \in DOMAIN Needs[a] : Adds(c, a, i)
  BY ONLY <1>1, <1>2, Visiting, c = calls[t], l = loaded[t], a = Caller(c), b = Position(c)
<1>4. /\ Nested(d) /\ Named(d) = Named(c) \ {a} /\ (d # <<>> => d[1] = c[1])
      /\ d = <<>> <=> a = c[1].dso
      /\ \A x, i : Adds(d, x, i) <=> Adds(c, x, i) /\ x # a
  BY ONLY <1>3, Returned, a = Caller(c), d = Popped(c)
<1>5. /\ l \in Seq(Entries) /\ Distinct(l) /\ Ordered(l)
      /\ \A z \in Named(l) : EntryOf(l, z).ref > 0
      /\ Named(c) \cap Named(l) = {}
      /\ subject[t] \in Library /\ c[1].dso = subject[t]
  BY <1>1, <1>2 DEF ListFits, CallsFit, InCall
<1>6. d = <<>> <=> a = subject[t]
  BY <1>4, <1>5
<1>7. /\ calls'[t] = d
      /\ doing'[t] = (IF a = subject[t] THEN "run" ELSE "adding")
      /\ a # subject[t] => subject'[t] = subject[t]
  BY <1>1, <1>3 DEF InsertBack, Callers, Popped
<1> PICK e : e = [dso |-> a, ref |-> 1, add |-> IF a = subject[t] THEN 1 ELSE 0]
  OBVIOUS
<1>8. k = Added(l, e)
  BY <1>1, <1>3 DEF InsertBack, Added
<1>9. e \in Entries /\ e.dso = a /\ e.ref = 1 /\ (e.add > 0 <=> a = subject[t])
  BY <1>3 DEF Entries
<1>10. \A y \in Library : Depends(a, y) => y \in Named(l)
  <2> SUFFICES ASSUME NEW y \in Library, Depends(a, y) PROVE y \in Named(l)
    OBVIOUS
  <2>1. PICK i \in DOMAIN Needs[a] : Needs[a][i] = y
    BY DEF Depends
  <2>2. Holds(t, a, i)
    BY <1>1, <1>3 DEF Holds
  <2>3. y \in Named(l) \/ y \in Named(c)
    BY <1>2, <1>3, <2>1, <2>2, HeldIsThere
  <2>4. Depends(Caller(c), y)
    OBVIOUS
  <2>5. y \notin Named(c)
    BY ONLY <1>3, <2>4, NotCalled, y \in Library
  <2> QED
    BY <2>3, <2>5
<1>11. /\ k \in Seq(Entries) /\ Distinct(k) /\ Named(k) = Named(l) \cup {a} /\ Ordered(k)
       /\ \A y \in Named(k) : EntryOf(k, y) = IF y = a THEN e ELSE EntryOf(l, y)
  BY ONLY <1>3, <1>5, <1>8, <1>9, <1>10, Inserted
<1>12. ASSUME NEW x \in Library, NEW i \in DOMAIN Needs[x]
       PROVE  Holds(t, x, i)' <=> Holds(t, x, i)
  <2>1. x = a => Adds(c, x, i)
    BY <1>3
  <2>2. Holds(t, x, i) <=> x \in Named(l) \/ Adds(c, x, i)
    BY <1>1 DEF Holds
  <2>3. Holds(t, x, i)' <=> x \in Named(k) \/ Adds(d, x, i)
    <3>1. CASE a = subject[t]
      <4>1. ~Adds(<<>>, x, i) /\ ~Drops(<<>>, x, i)
        BY DEF Adds, Drops
      <4>2. doing'[t] = "run" /\ calls'[t] = <<>> /\ d = <<>>
        BY <1>6, <1>7, <3>1
      <4> QED
        BY <4>1, <4>2 DEF Holds
    <3>2. CASE a # subject[t]
      BY <1>7, <3>2 DEF Holds
    <3> QED
      BY <3>1, <3>2
  <2> QED
    BY <1>4, <1>11, <2>1, <2>2, <2>3
<1>13. \A y : Holding(t, y)' = Holding(t, y)
  BY ONLY <1>12, HoldingSame
<1>14. ASSUME NEW z \in Library
       PROVE  Given(t, z)' = Given(t, z) /\ Own(t, z)' = Own(t, z)
  <2>1. CASE z = a
    <3>1. Given(t, z) = 1 /\ Own(t, z) = IF a = subject[t] THEN 1 ELSE 0
      BY <1>1, <1>3, <2>1 DEF Given, Own
    <3>2. Given(t, z)' = 1 /\ Own(t, z)' = IF a = subject[t] THEN 1 ELSE 0
      BY <1>9, <1>11, <2>1 DEF Given, Own
    <3> QED
      BY <3>1, <3>2
  <2>2. CASE z # a /\ z \in Named(l)
    BY <1>11, <2>2 DEF Given, Own
  <2>3. CASE z # a /\ z \notin Named(l)
    <3>1. Given(t, z) = (IF z \in Named(c) THEN 1 ELSE 0) /\ Own(t, z) = IF z = subject[t] THEN 1 ELSE 0
      BY <1>1, <2>3 DEF Given, Own
    <3>2. z \notin Named(k)
      BY <1>11, <2>3
    <3>3. CASE a = subject[t]
      <4>1. z \notin Named(c)
        <5>1. Named(d) = {}
          BY <1>6, <3>3 DEF Named
        <5> QED
          BY <1>4, <2>3, <5>1
      <4>2. doing'[t] = "run"
        BY <1>7, <3>3
      <4> QED
        BY <2>3, <3>1, <3>2, <3>3, <4>1, <4>2 DEF Given, Own
    <3>4. CASE a # subject[t]
      BY <1>4, <1>7, <2>3, <3>1, <3>2, <3>4 DEF Given, Own
    <3> QED
      BY <3>3, <3>4
  <2> QED
    BY <2>1, <2>2, <2>3
<1>15. ListFits(t)'
  <2>1. \A y \in Named(k) : EntryOf(k, y).ref > 0
    BY <1>5, <1>9, <1>11
  <2>2. \A y \in Library : /\ IsFiniteSet(Holding(t, y)')
                           /\ Given(t, y)' = Own(t, y)' + Cardinality(Holding(t, y)')
    BY <1>2, <1>13, <1>14 DEF ListFits
  <2> QED
    BY <1>11, <2>1, <2>2 DEF ListFits
<1>16. CallsFit(t)'
  <2>1. Named(d) \cap Named(k) = {}
    BY <1>4, <1>5, <1>11
  <2>2. CASE a = subject[t]
    <3>1. d = <<>> /\ doing'[t] = "run"
      BY <1>6, <1>7, <2>2
    <3> QED
      BY <1>4, <1>7, <2>1, <3>1 DEF CallsFit, InCall
  <2>3. CASE a # subject[t]
    <3>1. d # <<>> /\ doing'[t] = "adding" /\ subject'[t] = subject[t] /\ d[1].dso = subject[t]
      BY <1>4, <1>5, <1>6, <1>7, <2>3
    <3> QED
      BY <1>4, <1>5, <1>7, <2>1, <3>1 DEF CallsFit
  <2> QED
    BY <2>2, <2>3
<1>17. doing'[t] \in Using /\ doing'[t] \notin {"none", "cleanup", "closing"}
  BY <1>7 DEF Using, InCall
<1> QED
  BY <1>15, <1>16, <1>17 DEF ThreadFits

\* What Less does to the list and to the calls.
LEMMA LessIs ==
  ASSUME NEW t \in Users, DOMAIN loaded = Users, DOMAIN calls = Users,
         NEW x, NEW e \in Entries, NEW c, Less(t, x, e, c)
  PROVE  /\ e.ref > 0 => loaded'[t] = Changed(loaded[t], x, e) /\ calls'[t] = c
         /\ e.ref = 0 => /\ loaded'[t] = Removed(loaded[t], Place(loaded[t], x))
                         /\ calls'[t] = Pushed(c, x)
         /\ e.ref > 0 \/ e.ref = 0
<1>1. e.ref \in Nat
  BY DEF Entries
<1>2. ASSUME e.ref > 0
      PROVE  loaded'[t] = Changed(loaded[t], x, e) /\ calls'[t] = c
  <2>1. loaded' = [loaded EXCEPT ![t][Place(loaded[t], x)] = e] /\ calls' = [calls EXCEPT ![t] = c]
    BY <1>2 DEF Less
  <2> QED
    BY <2>1 DEF Changed
<1>3. ASSUME e.ref = 0
      PROVE  /\ loaded'[t] = Removed(loaded[t], Place(loaded[t], x))
             /\ calls'[t] = Pushed(c, x)
  <2>1. /\ loaded' = [loaded EXCEPT ![t] = Removed(@, Place(loaded[t], x))]
        /\ calls' = [calls EXCEPT ![t] = Append(c, Visit(x))]
    BY <1>3 DEF Less
  <2> QED
    BY <2>1 DEF Pushed
<1> QED
  BY <1>1, <1>2, <1>3

\* decThreadRef of the library that is unloaded.
LEMMA UnloadCountFits ==
  ASSUME NEW t \in Users, NEW x \in Library, LibInv, UnloadCount(t, x)
  PROVE  ThreadFits(t)'
<1> PICK l, e, k : l = loaded[t] /\ e = EntryOf(loaded[t], x) /\ k = loaded'[t]
  OBVIOUS
<1> PICK f : f = IF e.add > 1 THEN [e EXCEPT !.add = @ - 1]
                 ELSE [[e EXCEPT !.add = @ - 1] EXCEPT !.ref = @ - 1]
  OBVIOUS
<1>1. /\ doing[t] = "run" /\ doing'[t] = "dropping" /\ subject'[t] = x
      /\ DOMAIN loaded = Users /\ DOMAIN calls = Users
      /\ x \in Named(l) /\ e.add > 0 /\ Less(t, x, f, <<>>)
  BY DEF UnloadCount, Goes, LibInv
<1>2. CallsFit(t) /\ ListFits(t) /\ calls[t] = <<>>
  BY <1>1 DEF LibInv, ThreadFits, Using, CallsFit
<1>3. /\ l \in Seq(Entries) /\ Distinct(l) /\ Ordered(l)
      /\ \A z \in Named(l) : EntryOf(l, z).ref > 0
  BY <1>2 DEF ListFits
<1>4. e \in Entries /\ e.dso = x /\ e.ref \in Nat /\ e.add \in Nat /\ e.ref > 0
  BY <1>1, <1>3, EntryIn
<1>5. /\ f \in Entries /\ f.dso = x /\ f.add = e.add - 1
      /\ f.ref = IF e.add > 1 THEN e.ref ELSE e.ref - 1
  <2> PICK r, a : r = e.ref /\ a = e.add
    OBVIOUS
  <2> PICK r1, a1 : r1 = r - 1 /\ a1 = a - 1
    OBVIOUS
  <2>1. /\ e = [dso |-> x, ref |-> r, add |-> a]
        /\ r \in Nat /\ a \in Nat /\ r1 \in Nat /\ a1 \in Nat
    BY <1>1, <1>4 DEF Entries
  <2>2. CASE e.add > 1
    <3>1. f = [e EXCEPT !.add = @ - 1]
      BY <2>2
    <3>2. f = [dso |-> x, ref |-> r, add |-> a1]
      BY <2>1, <3>1
    <3>3. f \in Entries /\ f.dso = x /\ f.ref = r /\ f.add = a1
      BY ONLY <2>1, <3>2, EntryIs, x \in Library
    <3> QED
      BY <2>2, <3>3
  <2>3. CASE ~(e.add > 1)
    <3> PICK g : g = [e EXCEPT !.add = @ - 1]
      OBVIOUS
    <3>1. f = [g EXCEPT !.ref = @ - 1]
      BY <2>3
    <3>2. g = [dso |-> x, ref |-> r, add |-> a1]
      BY <2>1
    <3>3. f = [dso |-> x, ref |-> r1, add |-> a1]
      BY ONLY <2>1, <3>1, <3>2, r1 = r - 1
    <3>4. f \in Entries /\ f.dso = x /\ f.ref = r1 /\ f.add = a1
      BY ONLY <2>1, <3>3, EntryIs, x \in Library
    <3> QED
      BY <2>3, <3>4
  <2> QED
    BY <2>2, <2>3
<1>6. /\ f.ref > 0 => k = Changed(l, x, f) /\ calls'[t] = <<>>
      /\ f.ref = 0 => k = Removed(l, Place(l, x)) /\ calls'[t] = Pushed(<<>>, x)
      /\ f.ref > 0 \/ f.ref = 0
  <2>1. PICK c : c = <<>>
    OBVIOUS
  <2>2. Less(t, x, f, c)
    BY <1>1, <2>1
  <2>3. /\ f.ref > 0 => loaded'[t] = Changed(loaded[t], x, f) /\ calls'[t] = c
        /\ f.ref = 0 => /\ loaded'[t] = Removed(loaded[t], Place(loaded[t], x))
                        /\ calls'[t] = Pushed(c, x)
        /\ f.ref > 0 \/ f.ref = 0
    BY ONLY <1>1, <1>5, <2>2, LessIs, t \in Users
  <2> QED
    BY <2>1, <2>3
<1>7. \A z \in Library :
        /\ Given(t, z) = Own(t, z) + Cardinality(Holding(t, z)) /\ IsFiniteSet(Holding(t, z))
        /\ Cardinality(Holding(t, z)) \in Nat
        /\ z \in Named(l) =>
             /\ Given(t, z) = EntryOf(l, z).ref
             /\ Own(t, z) = IF EntryOf(l, z).add > 0 THEN 1 ELSE 0
        /\ z \notin Named(l) => Given(t, z) = 0 /\ Own(t, z) = 0
  BY <1>1, <1>2, CountedIn
<1>8. \A i, z : ~Adds(<<>>, z, i) /\ ~Drops(<<>>, z, i)
  BY DEF Adds, Drops
<1>9. Nested(<<>>) /\ Named(<<>>) = {}
  BY <1>2 DEF CallsFit, Named
<1>e. e.ref = 1 + Cardinality(Holding(t, x)) /\ Cardinality(Holding(t, x)) \in Nat
  BY <1>1, <1>7
<1>10. CASE f.ref > 0
  <2>1. /\ k \in Seq(Entries) /\ Distinct(k) /\ Named(k) = Named(l) /\ Ordered(k)
        /\ \A z \in Named(l) : EntryOf(k, z) = IF z = x THEN f ELSE EntryOf(l, z)
    BY ONLY <1>1, <1>3, <1>5, <1>6, <1>10, Replaced
  <2>2. \A z, i : Holds(t, z, i)' <=> Holds(t, z, i)
    BY <1>1, <1>2, <1>6, <1>8, <1>10, <2>1 DEF Holds
  <2>3. \A y : Holding(t, y)' = Holding(t, y)
    BY ONLY <2>2, HoldingSame
  <2>4. ASSUME NEW z \in Library PROVE Given(t, z)' = Own(t, z)' + Cardinality(Holding(t, z)')
    <3>1. CASE z = x
      <4>1. Given(t, z)' = f.ref /\ Own(t, z)' = IF f.add > 0 THEN 1 ELSE 0
        BY <1>1, <2>1, <3>1 DEF Given, Own
      <4>2. f.ref = (IF f.add > 0 THEN 1 ELSE 0) + Cardinality(Holding(t, x))
        BY <1>1, <1>4, <1>5, <1>e
      <4> QED
        BY <2>3, <3>1, <4>1, <4>2
    <3>2. CASE z # x
      <4>1. Given(t, z)' = Given(t, z) /\ Own(t, z)' = Own(t, z)
        BY <1>1, <2>1, <3>2 DEF Given, Own
      <4> QED
        BY <1>7, <2>3, <4>1
    <3> QED
      BY <3>1, <3>2
  <2>5. \A z \in Named(k) : EntryOf(k, z).ref > 0
    BY <1>3, <1>10, <2>1
  <2>6. ListFits(t)'
    BY <1>7, <2>1, <2>3, <2>4, <2>5 DEF ListFits
  <2>7. CallsFit(t)'
    BY <1>1, <1>6, <1>9, <1>10 DEF CallsFit
  <2> QED
    BY <1>1, <2>6, <2>7 DEF ThreadFits
<1>11. CASE f.ref = 0
  <2> PICK d : d = calls'[t]
    OBVIOUS
  <2>1. Holding(t, x) = {}
    <3>1. Cardinality(Holding(t, x)) = 0
      BY <1>1, <1>4, <1>5, <1>e, <1>11
    <3> QED
      BY <1>7, <3>1, FS_EmptySet
  <2>2. \A z \in Named(l) : ~Depends(z, x)
    <3>1. \A z \in Named(l) : z \in Library
      BY <1>3, EntryIn
    <3> QED
      BY <2>1, <3>1, NotNeeded
  <2>3. /\ k \in Seq(Entries) /\ Distinct(k) /\ Named(k) = Named(l) \ {x} /\ Ordered(k)
        /\ \A z \in Named(k) : EntryOf(k, z) = EntryOf(l, z)
    BY ONLY <1>1, <1>3, <1>6, <1>11, <2>2, TakenOff
  <2>4. /\ Nested(d) /\ d # <<>> /\ Named(d) = {x} /\ d[1].dso = x
        /\ \A z \in Library : \A i \in DOMAIN Needs[z] : Drops(d, z, i) <=> z = x
    <3>1. PICK c : c = <<>>
      OBVIOUS
    <3>2. d = Pushed(c, x) /\ x \notin Named(c) /\ Nested(c)
      BY <1>6, <1>9, <1>11, <3>1
    <3>3. /\ Nested(d) /\ d # <<>> /\ Named(d) = Named(c) \cup {x}
          /\ d[1].dso = IF c = <<>> THEN x ELSE c[1].dso
          /\ \A z \in Library : \A i \in DOMAIN Needs[z] : Drops(d, z, i) <=> Drops(c, z, i) \/ z = x
      BY ONLY <3>1, <3>2, Entered, x \in Library
    <3> QED
      BY <1>8, <1>9, <3>1, <3>3
  <2>5. \A z \in Library : \A i \in DOMAIN Needs[z] : Holds(t, z, i)' <=> Holds(t, z, i)
    BY <1>1, <1>2, <1>8, <2>3, <2>4 DEF Holds
  <2>6. \A y : Holding(t, y)' = Holding(t, y)
    BY ONLY <2>5, HoldingSame
  <2>7. ASSUME NEW z \in Library PROVE Given(t, z)' = Own(t, z)' + Cardinality(Holding(t, z)')
    <3>1. CASE z = x
      <4>1. Given(t, z)' = 0 /\ Own(t, z)' = 0
        BY <1>1, <2>3, <3>1 DEF Given, Own
      <4>2. Cardinality(Holding(t, z)') = 0
        BY <2>1, <2>6, <3>1, FS_EmptySet
      <4> QED
        BY <4>1, <4>2
    <3>2. CASE z # x
      <4>1. Given(t, z)' = Given(t, z) /\ Own(t, z)' = Own(t, z)
        BY <1>1, <2>3, <3>2 DEF Given, Own
      <4> QED
        BY <1>7, <2>6, <4>1
    <3> QED
      BY <3>1, <3>2
  <2>8. \A z \in Named(k) : EntryOf(k, z).ref > 0
    BY <1>3, <2>3
  <2>9. ListFits(t)'
    BY <1>7, <2>3, <2>6, <2>7, <2>8 DEF ListFits
  <2>10. CallsFit(t)'
    BY <1>1, <2>3, <2>4 DEF CallsFit
  <2> QED
    BY <1>1, <2>9, <2>10 DEF ThreadFits
<1> QED
  BY <1>6, <1>10, <1>11

\* decThreadRef goes on with what the innermost library depends on.
LEMMA DecThreadRefFits ==
  ASSUME NEW t \in Users, LibInv, DecThreadRef(t)
  PROVE  ThreadFits(t)'
<1>1. /\ doing[t] = "dropping" /\ doing'[t] = "dropping" /\ subject'[t] = subject[t]
      /\ calls[t] # <<>> /\ ~Visited(t) /\ DOMAIN loaded = Users /\ DOMAIN calls = Users
  BY DEF DecThreadRef, LibInv
<1>2. CallsFit(t) /\ ListFits(t)
  BY <1>1 DEF LibInv, ThreadFits, Using, InCall
<1> PICK c, l, k : c = calls[t] /\ l = loaded[t] /\ k = loaded'[t]
  OBVIOUS
<1> PICK a, b : a = Caller(c) /\ b = Position(c)
  OBVIOUS
<1> PICK y, d : y = Needs[a][b] /\ d = Stepped(c)
  OBVIOUS
<1>3. /\ Nested(c) /\ c # <<>>
      /\ a \in Library /\ a \in Named(c) /\ a \notin Named(l)
      /\ b \in DOMAIN Needs[a] /\ b <= Len(Needs[a])
      /\ ToVisit(t) = y /\ y \in Library /\ Depends(a, y) /\ Drops(c, a, b)
  BY <1>1, <1>2, Visiting
<1>4. /\ Nested(d) /\ d # <<>> /\ Named(d) = Named(c)
      /\ d[1].dso = c[1].dso /\ Caller(d) = a
      /\ \A x \in Library : \A i \in DOMAIN Needs[x] :
           Drops(d, x, i) <=> Drops(c, x, i) /\ ~(x = a /\ i = b)
  BY ONLY <1>3, WentOn, a = Caller(c), b = Position(c), d = Stepped(c)
<1>5. GoOn(t) = d
  BY DEF GoOn, Stepped
<1>6. /\ l \in Seq(Entries) /\ Distinct(l) /\ Ordered(l)
      /\ \A z \in Named(l) : EntryOf(l, z).ref > 0
      /\ Named(c) \cap Named(l) = {}
      /\ subject[t] \in Library /\ c[1].dso = subject[t]
  BY <1>1, <1>2 DEF ListFits, CallsFit, InCall
<1>7. Holds(t, a, b)
  BY <1>1, <1>3 DEF Holds
<1>8. y \in Named(l) /\ Cardinality(Holding(t, y)) \in Nat \ {0}
  BY <1>1, <1>2, <1>3, <1>7, HeldIsThere
<1>9. \A z \in Library :
        /\ Given(t, z) = Own(t, z) + Cardinality(Holding(t, z)) /\ IsFiniteSet(Holding(t, z))
        /\ Cardinality(Holding(t, z)) \in Nat /\ Own(t, z) \in {0, 1} /\ Given(t, z) \in Nat
        /\ z \in Named(l) =>
             /\ Given(t, z) = EntryOf(l, z).ref
             /\ Own(t, z) = IF EntryOf(l, z).add > 0 THEN 1 ELSE 0
        /\ z \notin Named(l) => Given(t, z) = 0 /\ Own(t, z) = 0
  BY <1>1, <1>2, CountedIn
<1> PICK o : o = EntryOf(l, y)
  OBVIOUS
<1> PICK e : e = [o EXCEPT !.ref = @ - 1]
  OBVIOUS
<1>10. o \in Entries /\ o.dso = y /\ o.ref \in Nat /\ o.add \in Nat /\ o.ref > 0
  BY <1>6, <1>8, EntryIn
<1>11. e \in Entries /\ e.dso = y /\ e.add = o.add /\ e.ref = o.ref - 1
  <2> PICK r, i : r = o.ref /\ i = o.ref - 1
    OBVIOUS
  <2>1. o = [dso |-> y, ref |-> r, add |-> o.add] /\ i \in Nat
    BY <1>10 DEF Entries
  <2>2. e = [dso |-> y, ref |-> i, add |-> o.add]
    BY <2>1
  <2>3. e \in Entries /\ e.dso = y /\ e.ref = i /\ e.add = o.add
    BY ONLY <1>3, <1>10, <2>1, <2>2, EntryIs
  <2> QED
    BY <2>3
<1>12. Less(t, y, e, d)
  BY <1>3, <1>5 DEF DecThreadRef
<1>13. /\ e.ref > 0 => k = Changed(l, y, e) /\ calls'[t] = d
       /\ e.ref = 0 => k = Removed(l, Place(l, y)) /\ calls'[t] = Pushed(d, y)
       /\ e.ref > 0 \/ e.ref = 0
  <2>1. /\ e.ref > 0 => loaded'[t] = Changed(loaded[t], y, e) /\ calls'[t] = d
        /\ e.ref = 0 => /\ loaded'[t] = Removed(loaded[t], Place(loaded[t], y))
                        /\ calls'[t] = Pushed(d, y)
        /\ e.ref > 0 \/ e.ref = 0
    <3>1. DOMAIN loaded = Users /\ DOMAIN calls = Users /\ e \in Entries
      BY <1>1, <1>11
    <3> QED
      BY ONLY <1>12, <3>1, LessIs, t \in Users
  <2> QED
    BY <2>1
<1>14. /\ o.ref = Own(t, y) + Cardinality(Holding(t, y))
       /\ Own(t, y) = IF o.add > 0 THEN 1 ELSE 0
  BY <1>3, <1>8, <1>9
<1>15. \A z \in Library : IsFiniteSet(Holding(t, z))
  BY <1>9
<1>16. CASE e.ref > 0
  <2>1. /\ k \in Seq(Entries) /\ Distinct(k) /\ Named(k) = Named(l) /\ Ordered(k)
        /\ \A z \in Named(l) : EntryOf(k, z) = IF z = y THEN e ELSE EntryOf(l, z)
    BY ONLY <1>6, <1>8, <1>11, <1>13, <1>16, Replaced
  <2>2. \A x \in Library : \A i \in DOMAIN Needs[x] :
          Holds(t, x, i)' <=> Holds(t, x, i) /\ ~(x = a /\ i = b)
    BY <1>1, <1>3, <1>4, <1>13, <1>16, <2>1 DEF Holds
  <2>3. \A z \in Library :
          /\ IsFiniteSet(Holding(t, z)')
          /\ Cardinality(Holding(t, z)') = Cardinality(Holding(t, z)) - (IF z = y THEN 1 ELSE 0)
    BY ONLY <1>3, <1>7, <1>15, <2>2, HoldingLess, y = Needs[a][b]
  <2>4. ASSUME NEW z \in Library
        PROVE  Given(t, z)' = Own(t, z)' + Cardinality(Holding(t, z)')
    <3>1. CASE z = y
      <4>1. Given(t, z)' = e.ref /\ Own(t, z)' = IF e.add > 0 THEN 1 ELSE 0
        BY <1>8, <2>1, <3>1 DEF Given, Own
      <4>2. o.ref = Own(t, y) + Cardinality(Holding(t, y)) /\ e.ref = o.ref - 1
        BY ONLY <1>11, <1>14
      <4>3. Own(t, y)' = Own(t, y)
        BY ONLY <1>11, <1>14, <3>1, <4>1
      <4>4. Cardinality(Holding(t, y)') = Cardinality(Holding(t, y)) - 1
        BY ONLY <2>3, <3>1, z \in Library
      <4>5. Own(t, y) \in Nat /\ Cardinality(Holding(t, y)) \in Nat
        BY <1>8, <1>14
      <4>6. e.ref = Own(t, y)' + Cardinality(Holding(t, y)')
        BY ONLY <4>2, <4>3, <4>4, <4>5
      <4> QED
        BY ONLY <3>1, <4>1, <4>6
    <3>2. CASE z # y
      <4>1. Own(t, z)' = Own(t, z) /\ Given(t, z)' = Given(t, z)
        BY <1>1, <2>1, <3>2 DEF Given, Own
      <4> QED
        BY <1>9, <2>3, <3>2, <4>1
    <3> QED
      BY <3>1, <3>2
  <2>5. \A z \in Named(k) : EntryOf(k, z).ref > 0
    BY <1>6, <1>16, <2>1
  <2>6. ListFits(t)'
    BY <2>1, <2>3, <2>4, <2>5 DEF ListFits
  <2>7. CallsFit(t)'
    BY <1>1, <1>4, <1>6, <1>13, <1>16, <2>1 DEF CallsFit
  <2> QED
    BY <1>1, <2>6, <2>7 DEF ThreadFits
<1>17. CASE e.ref = 0
  <2> PICK f : f = Pushed(d, y)
    OBVIOUS
  <2>1. /\ Nested(f) /\ f # <<>> /\ Named(f) = Named(c) \cup {y} /\ f[1].dso = c[1].dso
        /\ \A x \in Library : \A i \in DOMAIN Needs[x] : Drops(f, x, i) <=> Drops(d, x, i) \/ x = y
    <3>1. y \notin Named(d) /\ Depends(Caller(d), y)
      BY <1>3, <1>4, <1>6, <1>8
    <3>2. /\ Nested(f) /\ f # <<>> /\ Named(f) = Named(d) \cup {y}
          /\ f[1].dso = IF d = <<>> THEN y ELSE d[1].dso
          /\ \A x \in Library : \A i \in DOMAIN Needs[x] : Drops(f, x, i) <=> Drops(d, x, i) \/ x = y
      BY ONLY <1>3, <1>4, <3>1, Entered, f = Pushed(d, y)
    <3> QED
      BY <1>4, <3>2
  <2>2. Named(k) = Named(l) \ {y}
    BY ONLY <1>6, <1>8, <1>13, <1>17, TakenOff
  <2>3. \A x \in Library : \A i \in DOMAIN Needs[x] :
          Holds(t, x, i)' <=> Holds(t, x, i) /\ ~(x = a /\ i = b)
    <3> SUFFICES ASSUME NEW x \in Library, NEW i \in DOMAIN Needs[x]
                 PROVE  Holds(t, x, i)' <=> Holds(t, x, i) /\ ~(x = a /\ i = b)
      OBVIOUS
    <3>1. Holds(t, x, i) <=> x \in Named(l) \/ Drops(c, x, i)
      BY <1>1 DEF Holds
    <3>2. Holds(t, x, i)' <=> x \in Named(k) \/ Drops(f, x, i)
      BY <1>1, <1>13, <1>17 DEF Holds
    <3>3. Drops(f, x, i) <=> (Drops(c, x, i) /\ ~(x = a /\ i = b)) \/ x = y
      BY <1>4, <2>1
    <3>4. y \in Named(l) /\ a \notin Named(l)
      BY <1>3, <1>8
    <3> QED
      BY ONLY <2>2, <3>1, <3>2, <3>3, <3>4
  <2>4. \A z \in Library :
          /\ IsFiniteSet(Holding(t, z)')
          /\ Cardinality(Holding(t, z)') = Cardinality(Holding(t, z)) - (IF z = y THEN 1 ELSE 0)
    BY ONLY <1>3, <1>7, <1>15, <2>3, HoldingLess, y = Needs[a][b]
  <2>5. Cardinality(Holding(t, y)') = 0
    <3>1. /\ Cardinality(Holding(t, y)) \in Nat \ {0} /\ o.ref \in Nat /\ o.ref - 1 = 0
          /\ o.ref = Own(t, y) + Cardinality(Holding(t, y)) /\ Own(t, y) \in {0, 1}
      BY <1>3, <1>8, <1>9, <1>10, <1>11, <1>14, <1>17
    <3>2. Cardinality(Holding(t, y)) = 1
      BY ONLY <3>1
    <3>3. Cardinality(Holding(t, y)') = Cardinality(Holding(t, y)) - 1
      BY <1>3, <2>4
    <3> QED
      BY ONLY <3>2, <3>3
  <2>6. Holding(t, y)' = {}
    BY <1>3, <2>4, <2>5, FS_EmptySet
  <2>7. \A z \in Named(l) : ~Depends(z, y)
    <3> SUFFICES ASSUME NEW z \in Named(l), NEW i \in DOMAIN Needs[z], Needs[z][i] = y PROVE FALSE
      BY DEF Depends
    <3>1. z \in Library
      BY <1>6, EntryIn
    <3>2. <<z, i>> \in Dependency
      BY <3>1, DependencyIn
    <3>3. Holds(t, z, i)'
      <4>1. Holds(t, z, i) /\ z # a
        BY <1>3 DEF Holds
      <4> QED
        BY <2>3, <3>1, <4>1
    <3> QED
      BY <2>6, <3>2, <3>3 DEF Holding
  <2>8. /\ k \in Seq(Entries) /\ Distinct(k) /\ Named(k) = Named(l) \ {y} /\ Ordered(k)
        /\ \A z \in Named(k) : EntryOf(k, z) = EntryOf(l, z)
    BY ONLY <1>6, <1>8, <1>13, <1>17, <2>7, TakenOff
  <2>9. ASSUME NEW z \in Library
        PROVE  Given(t, z)' = Own(t, z)' + Cardinality(Holding(t, z)')
    <3>1. CASE z = y
      <4>1. Given(t, z)' = 0 /\ Own(t, z)' = 0
        BY <1>1, <2>8, <3>1 DEF Given, Own
      <4> QED
        BY <2>5, <3>1, <4>1
    <3>2. CASE z # y
      <4>1. Own(t, z)' = Own(t, z) /\ Given(t, z)' = Given(t, z)
        BY <1>1, <2>8, <3>2 DEF Given, Own
      <4> QED
        BY <1>9, <2>4, <3>2, <4>1
    <3> QED
      BY <3>1, <3>2
  <2>10. \A z \in Named(k) : EntryOf(k, z).ref > 0
    BY <1>6, <2>8
  <2>11. ListFits(t)'
    BY <2>4, <2>8, <2>9, <2>10 DEF ListFits
  <2>12. CallsFit(t)'
    BY <1>1, <1>6, <1>13, <1>17, <2>1, <2>8 DEF CallsFit
  <2> QED
    BY <1>1, <2>11, <2>12 DEF ThreadFits
<1> QED
  BY <1>13, <1>16, <1>17

\* A call of decThreadRef returns.
LEMMA DecReturnFits ==
  ASSUME NEW t \in Users, LibInv, DecReturn(t)
  PROVE  ThreadFits(t)'
<1>1. /\ doing[t] = "dropping" /\ doing'[t] = "dropping" /\ subject'[t] = subject[t]
      /\ calls[t] # <<>> /\ Visited(t) /\ DOMAIN calls = Users /\ loaded' = loaded
  BY DEF DecReturn, LibInv
<1>2. CallsFit(t) /\ ListFits(t)
  BY <1>1 DEF LibInv, ThreadFits, Using, InCall
<1> PICK c, l : c = calls[t] /\ l = loaded[t]
  OBVIOUS
<1> PICK a, b, d : a = Caller(c) /\ b = Position(c) /\ d = Popped(c)
  OBVIOUS
<1>3. /\ Nested(c) /\ c # <<>> /\ a \in Library /\ a \in Named(c) /\ a \notin Named(l)
      /\ \A i \in DOMAIN Needs[a] : ~Drops(c, a, i)
  <2>1. CallsFit(t) /\ calls[t] # <<>> /\ Visited(t)
    BY ONLY <1>1, <1>2
  <2>2. /\ Nested(c) /\ c # <<>> /\ a \in Library /\ a \in Named(c) /\ a \notin Named(loaded[t])
        /\ Visited(t) => \A i \in DOMAIN Needs[a] : Adds(c, a, i) /\ ~Drops(c, a, i)
    BY ONLY <2>1, Visiting, c = calls[t], a = Caller(c), b = Position(c)
  <2> QED
    BY ONLY <2>1, <2>2, l = loaded[t]
<1>4. /\ Nested(d) /\ Named(d) = Named(c) \ {a} /\ (d # <<>> => d[1] = c[1])
      /\ \A x, i : Drops(d, x, i) <=> Drops(c, x, i) /\ x # a
  BY ONLY <1>3, Returned, a = Caller(c), d = Popped(c)
<1>5. calls'[t] = d
  BY <1>1 DEF DecReturn, Callers, Popped
<1>6. \A x \in Library : \A i \in DOMAIN Needs[x] : Holds(t, x, i)' <=> Holds(t, x, i)
  BY <1>1, <1>3, <1>4, <1>5 DEF Holds
<1>7. \A y : Holding(t, y)' = Holding(t, y)
  BY <1>6, HoldingSame
<1>8. \A y : Given(t, y)' = Given(t, y) /\ Own(t, y)' = Own(t, y)
  BY <1>1 DEF Given, Own
<1>9. ListFits(t)'
  BY <1>1, <1>2, <1>7, <1>8 DEF ListFits
<1>10. CallsFit(t)'
  BY <1>1, <1>2, <1>4, <1>5 DEF CallsFit
<1> QED
  BY <1>1, <1>9, <1>10 DEF ThreadFits

-----------------------------------------------------------------------------
(* Threads that begin and end *)

\* What is pinned for a thread.
LEMMA PinnedIs ==
  ASSUME NEW l \in Seq(Entries), Distinct(l), NEW k, k = Pinned(l)
  PROVE  /\ k \in Seq(Entries) /\ Distinct(k) /\ Named(k) = Named(l)
         /\ Ordered(l) => Ordered(k)
         /\ \A y \in Named(l) :
              /\ EntryOf(k, y).ref = EntryOf(l, y).ref
              /\ EntryOf(k, y).add = IF EntryOf(l, y).add > 0 THEN 1 ELSE 0
<1>1. /\ Len(l) \in Nat /\ DOMAIN l = 1 .. Len(l) /\ DOMAIN k = DOMAIN l
      /\ \A i \in DOMAIN l : l[i] \in Entries
  BY DEF Pinned
<1>2. ASSUME NEW i \in DOMAIN l
      PROVE  /\ k[i] \in Entries /\ k[i].dso = l[i].dso /\ k[i].ref = l[i].ref
             /\ k[i].add = IF l[i].add > 0 THEN 1 ELSE 0
  <2> PICK e, f : e = l[i] /\ f = k[i]
    OBVIOUS
  <2>1. f = IF e.add > 0 THEN [e EXCEPT !.add = 1] ELSE e
    BY DEF Pinned
  <2> PICK x, r, a : x = e.dso /\ r = e.ref /\ a = e.add
    OBVIOUS
  <2>2. e = [dso |-> x, ref |-> r, add |-> a] /\ x \in Library /\ r \in Nat /\ a \in Nat
    BY <1>1 DEF Entries
  <2>3. CASE a > 0
    <3>1. f = [dso |-> x, ref |-> r, add |-> 1]
      BY <2>1, <2>2, <2>3
    <3>2. f \in Entries /\ f.dso = x /\ f.ref = r /\ f.add = 1
      BY ONLY <2>2, <3>1, EntryIs
    <3> QED
      BY <2>3, <3>2
  <2>4. CASE ~(a > 0)
    <3>1. a = 0 /\ f = e
      BY <2>1, <2>2, <2>4
    <3> QED
      BY <1>1, <2>4, <3>1
  <2> QED
    BY <2>3, <2>4
<1>3. k \in Seq(Entries)
  <2>1. \A i \in 1 .. Len(l) : k[i] \in Entries
    BY <1>1, <1>2
  <2>2. k = [i \in 1 .. Len(l) |-> k[i]]
    BY <1>1 DEF Pinned
  <2> QED
    BY <1>1, <2>1, <2>2
<1>4. Distinct(k) /\ Named(k) = Named(l)
  BY <1>1, <1>2 DEF Distinct, Named
<1>5. ASSUME Ordered(l) PROVE Ordered(k)
  <2> SUFFICES ASSUME NEW n \in DOMAIN k, NEW y \in Library, Depends(k[n].dso, y)
               PROVE  \E j \in 1 .. n - 1 : k[j].dso = y
    BY DEF Ordered
  <2>1. PICK j \in 1 .. n - 1 : l[j].dso = y
    BY <1>1, <1>2, <1>5 DEF Ordered
  <2>2. j \in DOMAIN l
    BY <1>1, <2>1
  <2> QED
    BY <1>2, <2>1, <2>2
<1>6. ASSUME NEW y \in Named(l)
      PROVE  /\ EntryOf(k, y).ref = EntryOf(l, y).ref
             /\ EntryOf(k, y).add = IF EntryOf(l, y).add > 0 THEN 1 ELSE 0
  <2>1. Place(k, y) \in DOMAIN l /\ l[Place(k, y)].dso = y
    BY <1>1, <1>2, <1>4, Placed
  <2>2. Place(k, y) = Place(l, y)
    BY <2>1, PlacedAt
  <2> QED
    BY <1>2, <2>1, <2>2 DEF EntryOf
<1> QED
  BY <1>3, <1>4, <1>5, <1>6

\* Thread.start: pinLoadedLibraries, for the thread that is started.
LEMMA StartPinFits ==
  ASSUME NEW t \in Users, NEW u \in Users, LibInv, StartPin(t, u)
  PROVE  ThreadFits(u)'
<1> PICK l, k : l = loaded[t] /\ k = loaded'[u]
  OBVIOUS
<1>1. /\ doing[t] = "run" /\ doing[u] = "none" /\ doing'[u] = "started"
      /\ calls'[u] = calls[u] /\ k = Pinned(l)
  BY DEF StartPin, Goes, LibInv
<1>2. CallsFit(t) /\ ListFits(t) /\ calls[t] = <<>> /\ calls[u] = <<>>
  BY <1>1 DEF LibInv, ThreadFits, Using, CallsFit
<1>3. /\ l \in Seq(Entries) /\ Distinct(l) /\ Ordered(l)
      /\ \A y \in Named(l) : EntryOf(l, y).ref > 0
  BY <1>2 DEF ListFits
<1>4. /\ k \in Seq(Entries) /\ Distinct(k) /\ Named(k) = Named(l) /\ Ordered(k)
      /\ \A y \in Named(l) :
           /\ EntryOf(k, y).ref = EntryOf(l, y).ref
           /\ EntryOf(k, y).add = IF EntryOf(l, y).add > 0 THEN 1 ELSE 0
  BY ONLY <1>1, <1>3, PinnedIs
<1>5. \A x, i : Holds(u, x, i)' <=> Holds(t, x, i)
  BY <1>1, <1>2, <1>4 DEF Holds, Drops
<1>6. ASSUME NEW y PROVE Holding(u, y)' = Holding(t, y)
  BY <1>5 DEF Holding
<1>7. ASSUME NEW y \in Library
      PROVE  IsFiniteSet(Holding(u, y)') /\ Given(u, y)' = Own(u, y)' + Cardinality(Holding(u, y)')
  <2>1. IsFiniteSet(Holding(t, y)) /\ Given(t, y) = Own(t, y) + Cardinality(Holding(t, y))
    BY <1>2 DEF ListFits
  <2>2. CASE y \in Named(l)
    <3>1. /\ Given(u, y)' = EntryOf(k, y).ref
          /\ Own(u, y)' = IF EntryOf(k, y).add > 0 THEN 1 ELSE 0
      BY <1>4, <2>2 DEF Given, Own
    <3>2. Given(t, y) = EntryOf(l, y).ref /\ Own(t, y) = IF EntryOf(l, y).add > 0 THEN 1 ELSE 0
      BY <2>2 DEF Given, Own
    <3>3. Own(u, y)' = Own(t, y)
      BY <1>4, <2>2, <3>1, <3>2
    <3> QED
      BY <1>4, <1>6, <2>1, <2>2, <3>1, <3>2, <3>3
  <2>3. CASE y \notin Named(l)
    <3>1. Given(u, y)' = 0 /\ Own(u, y)' = 0 /\ Given(t, y) = 0 /\ Own(t, y) = 0
      BY <1>1, <1>4, <2>3 DEF Given, Own
    <3> QED
      BY <1>6, <2>1, <3>1
  <2> QED
    BY <2>2, <2>3
<1>8. ListFits(u)'
  BY <1>3, <1>4, <1>7 DEF ListFits
<1>9. CallsFit(u)'
  <2>1. Nested(<<>>) /\ Named(<<>>) = {}
    BY <1>2 DEF CallsFit, Named
  <2> QED
    BY <1>1, <1>2, <2>1 DEF CallsFit, InCall
<1> QED
  BY <1>1, <1>8, <1>9 DEF ThreadFits

\* A thread that ends has no calls in progress.
LEMMA CleanupFits ==
  ASSUME NEW u \in Users, LibInv,
         CleanupBegin(u) \/ CleanupNext(u) \/ CleanupClose(u) \/ CleanupEnd(u)
  PROVE  ThreadFits(u)'
<1>1. calls'[u] = calls[u]
  BY DEF CleanupBegin, CleanupNext, CleanupClose, CleanupEnd
<1>2. doing[u] \in {"run", "cleanup", "closing"}
  BY DEF CleanupBegin, CleanupNext, CleanupClose, CleanupEnd, Goes
<1>3. calls[u] = <<>>
  BY <1>2 DEF LibInv, ThreadFits, CallsFit, Using
<1>4. \/ doing'[u] \in {"cleanup", "closing"}
      \/ doing'[u] = "none" /\ loaded'[u] = <<>>
  <2>1. DOMAIN doing = Users /\ DOMAIN loaded = Users
    BY DEF LibInv
  <2>2. CASE CleanupBegin(u)
    BY <2>1, <2>2 DEF CleanupBegin, Goes
  <2>3. CASE CleanupNext(u)
    BY <2>1, <2>3 DEF CleanupNext, Goes
  <2>4. CASE CleanupClose(u)
    BY <2>1, <2>4 DEF CleanupClose
  <2>5. CASE CleanupEnd(u)
    BY <2>1, <2>5 DEF CleanupEnd, Goes
  <2> QED
    BY <2>2, <2>3, <2>4, <2>5
<1> QED
  BY <1>1, <1>3, <1>4 DEF ThreadFits, Using, InCall

-----------------------------------------------------------------------------
(* The counts of the references *)

\* Only thread t does something, and its new place is one there is.
Only(t) ==
  /\ doing' \in [Users -> Doings]
  /\ DOMAIN loaded' = Users /\ DOMAIN calls' = Users /\ DOMAIN subject' = Users
  /\ \A s \in Users : s # t =>
       /\ loaded'[s] = loaded[s] /\ calls'[s] = calls[s]
       /\ doing'[s] = doing[s] /\ subject'[s] = subject[s]

\* What a thread does to its place.
LEMMA GoesOn ==
  ASSUME LibInv, NEW t \in Users, NEW d, Goes(t, d, doing'[t]), doing'[t] \in Doings
  PROVE  doing' \in [Users -> Doings] /\ \A s \in Users : s # t => doing'[s] = doing[s]
<1> PICK e : e = doing'[t]
  OBVIOUS
<1>1. doing' = [doing EXCEPT ![t] = e] /\ e \in Doings
  BY DEF Goes
<1> QED
  BY <1>1 DEF LibInv

\* Loading touches only the thread that loads.
LEMMA LoadOnly ==
  ASSUME LibInv, NEW t \in Users, NEW x \in Library,
         LoadOpen(t, x) \/ LoadAgain(t) \/ LoadNew(t) \/ IncThreadRef(t) \/ InsertBack(t)
  PROVE  Only(t)
<1>1. CASE LoadOpen(t, x)
  BY <1>1 DEF LoadOpen, Goes, LibInv, Only, Doings, Using, InCall
<1>2. CASE LoadAgain(t)
  BY <1>2 DEF LoadAgain, Goes, LibInv, Only, Doings, Using, InCall
<1>3. CASE LoadNew(t)
  BY <1>3 DEF LoadNew, Goes, LibInv, Only, Doings, Using, InCall
<1>4. CASE IncThreadRef(t)
  <2>1. UNCHANGED <<doing, subject>> /\ DOMAIN calls' = DOMAIN calls /\ DOMAIN loaded' = DOMAIN loaded
    BY <1>4 DEF IncThreadRef
  <2>2. ASSUME NEW s \in Users, s # t PROVE loaded'[s] = loaded[s] /\ calls'[s] = calls[s]
    BY <1>4, <2>2 DEF IncThreadRef, LibInv
  <2> QED
    BY <2>1, <2>2 DEF Only, LibInv
<1>5. CASE InsertBack(t)
  <2>1. /\ DOMAIN loaded' = Users /\ DOMAIN calls' = Users /\ DOMAIN subject' = Users
        /\ \A s \in Users : s # t =>
             loaded'[s] = loaded[s] /\ calls'[s] = calls[s] /\ subject'[s] = subject[s]
    BY <1>5 DEF InsertBack, LibInv
  <2>2. doing' \in [Users -> Doings] /\ \A s \in Users : s # t => doing'[s] = doing[s]
    <3>1. doing' = [doing EXCEPT ![t] = "run"] \/ doing' = [doing EXCEPT ![t] = @]
      BY <1>5 DEF InsertBack
    <3> QED
      BY <3>1 DEF LibInv, Doings, Using
  <2> QED
    BY <2>1, <2>2 DEF Only
<1> QED
  BY <1>1, <1>2, <1>3, <1>4, <1>5

\* Unloading touches only the thread that unloads.
LEMMA UnloadOnly ==
  ASSUME LibInv, NEW t \in Users, NEW x \in Library,
         UnloadCount(t, x) \/ DecThreadRef(t) \/ DecReturn(t) \/ UnloadClose(t)
  PROVE  Only(t)
<1>0. ASSUME NEW y, NEW e, NEW c, Less(t, y, e, c)
      PROVE  /\ DOMAIN loaded' = Users /\ DOMAIN calls' = Users
             /\ \A s \in Users : s # t => loaded'[s] = loaded[s] /\ calls'[s] = calls[s]
  BY <1>0 DEF Less, LibInv
<1>1. CASE UnloadCount(t, x)
  <2>1. /\ doing' = [doing EXCEPT ![t] = "dropping"] /\ subject' = [subject EXCEPT ![t] = x]
        /\ \E e, c : Less(t, x, e, c)
    BY <1>1 DEF UnloadCount, Goes
  <2> QED
    BY <1>0, <2>1 DEF Only, LibInv, Doings, Using, InCall
<1>2. CASE DecThreadRef(t)
  <2>1. UNCHANGED <<doing, subject>> /\ \E y, e, c : Less(t, y, e, c)
    BY <1>2 DEF DecThreadRef
  <2> QED
    BY <1>0, <2>1 DEF Only, LibInv
<1>3. CASE DecReturn(t)
  BY <1>3 DEF DecReturn, LibInv, Only
<1>4. CASE UnloadClose(t)
  BY <1>4 DEF UnloadClose, Goes, LibInv, Only, Doings, Using
<1> QED
  BY <1>1, <1>2, <1>3, <1>4

\* Starting and ending touch only the thread that is started or ends.
LEMMA ThreadOnly ==
  ASSUME LibInv, NEW u \in Users,
         \/ \E t \in Users : StartPin(t, u)
         \/ Inherit(u) \/ CleanupBegin(u) \/ CleanupNext(u) \/ CleanupClose(u) \/ CleanupEnd(u)
  PROVE  Only(u)
<1>1. CASE \E t \in Users : StartPin(t, u)
  <2>1. PICK t \in Users : StartPin(t, u)
    BY <1>1
  <2> PICK k : k = Pinned(loaded[t])
    OBVIOUS
  <2>2. /\ doing' = [doing EXCEPT ![u] = "started"] /\ loaded' = [loaded EXCEPT ![u] = k]
        /\ UNCHANGED <<subject, calls>>
    BY <2>1 DEF StartPin, Goes
  <2> QED
    BY <2>2 DEF LibInv, Only, Doings, Using
<1>2. CASE Inherit(u)
  BY <1>2 DEF Inherit, Goes, LibInv, Only, Doings, Using
<1>3. CASE CleanupBegin(u)
  BY <1>3 DEF CleanupBegin, Goes, LibInv, Only, Doings
<1>4. CASE CleanupNext(u)
  BY <1>4 DEF CleanupNext, Goes, LibInv, Only, Doings
<1>5. CASE CleanupClose(u)
  <2>1. /\ DOMAIN loaded' = Users /\ UNCHANGED <<subject, calls>>
        /\ \A s \in Users : s # u => loaded'[s] = loaded[s]
    BY <1>5 DEF CleanupClose, LibInv
  <2>2. doing' = doing \/ doing' = [doing EXCEPT ![u] = "cleanup"]
    BY <1>5 DEF CleanupClose
  <2> QED
    BY <2>1, <2>2 DEF LibInv, Only, Doings
<1>6. CASE CleanupEnd(u)
  BY <1>6 DEF CleanupEnd, Goes, LibInv, Only, Doings
<1> QED
  BY <1>1, <1>2, <1>3, <1>4, <1>5, <1>6

\* When only one thread does something and it fits, everything does.
LEMMA OnlyFits ==
  ASSUME LibInv, NEW t \in Users, Only(t), ThreadFits(t)'
  PROVE  LibInv'
<1>1. ASSUME NEW s \in Users PROVE ThreadFits(s)'
  <2>1. CASE s = t
    BY <2>1
  <2>2. CASE s # t
    <3>1. /\ loaded'[s] = loaded[s] /\ calls'[s] = calls[s]
          /\ doing'[s] = doing[s] /\ subject'[s] = subject[s] /\ ThreadFits(s)
      BY <2>2 DEF Only, LibInv
    <3> QED
      BY <3>1, ThreadSame
  <2> QED
    BY <2>1, <2>2
<1> QED
  BY <1>1 DEF Only, LibInv

\* At the beginning nobody has a library.
LEMMA LibInvInit ==
  ASSUME LibrariesInit
  PROVE  LibInv
<1>1. /\ doing \in [Users -> Doings]
      /\ DOMAIN loaded = Users /\ DOMAIN calls = Users /\ DOMAIN subject = Users
  BY DEF LibrariesInit, Doings, Using
<1>2. ASSUME NEW t \in Users PROVE ThreadFits(t)
  <2>1. loaded[t] = <<>> /\ calls[t] = <<>> /\ doing[t] \in {"run", "none"}
    BY <1>2 DEF LibrariesInit
  <2>2. Named(<<>>) = {} /\ \A x, i : ~Drops(<<>>, x, i)
    BY DEF Named, Drops
  <2>3. Nested(<<>>)
    BY DEF Nested, Distinct
  <2>4. CallsFit(t)
    BY <2>1, <2>2, <2>3 DEF CallsFit, InCall
  <2>5. \A y : Holding(t, y) = {} /\ Given(t, y) = 0 /\ Own(t, y) = 0
    BY <2>1, <2>2 DEF Holding, Holds, Given, Own
  <2>6. \A y : IsFiniteSet(Holding(t, y)) /\ Given(t, y) = Own(t, y) + Cardinality(Holding(t, y))
    BY <2>5, FS_EmptySet
  <2>7. loaded[t] \in Seq(Entries) /\ Distinct(loaded[t]) /\ Ordered(loaded[t])
    BY <2>1 DEF Distinct, Ordered
  <2>8. ListFits(t)
    BY <2>1, <2>2, <2>6, <2>7 DEF ListFits
  <2> QED
    BY <2>1, <2>4, <2>8 DEF ThreadFits
<1> QED
  BY <1>1, <1>2 DEF LibInv

\* Every step keeps it.
LEMMA LibInvStep ==
  ASSUME LibInv, [LibrariesNext]_libvars
  PROVE  LibInv'
<1>1. ASSUME NEW t \in Users, NEW x \in Library, LoadOpen(t, x) \/ UnloadCount(t, x) PROVE LibInv'
  BY <1>1, LoadOnly, UnloadOnly, LoadOpenFits, UnloadCountFits, OnlyFits
<1>2. ASSUME NEW t \in Users, LoadAgain(t) \/ LoadNew(t) \/ IncThreadRef(t) \/ InsertBack(t)
      PROVE  LibInv'
  <2>1. ThreadFits(t)'
    BY <1>2, LoadAgainFits, LoadNewFits, IncThreadRefFits, InsertBackFits
  <2>2. subject[t] \in Library
    BY <1>2 DEF LoadAgain, LoadNew, IncThreadRef, InsertBack, Goes, LibInv, ThreadFits, CallsFit, Using, InCall
  <2>3. Only(t)
    BY <1>2, <2>2, LoadOnly
  <2> QED
    BY <2>1, <2>3, OnlyFits
<1>3. ASSUME NEW t \in Users, DecThreadRef(t) \/ DecReturn(t) \/ UnloadClose(t)
      PROVE  LibInv'
  <2>1. ThreadFits(t)'
    BY <1>3, DecThreadRefFits, DecReturnFits, UnloadCloseFits
  <2>2. subject[t] \in Library
    BY <1>3 DEF DecThreadRef, DecReturn, UnloadClose, Goes, LibInv, ThreadFits, CallsFit, Using, InCall
  <2>3. Only(t)
    BY <1>3, <2>2, UnloadOnly
  <2> QED
    BY <2>1, <2>3, OnlyFits
<1>4. ASSUME NEW t \in Users, NEW u \in Users, StartPin(t, u) PROVE LibInv'
  BY <1>4, ThreadOnly, StartPinFits, OnlyFits
<1>5. ASSUME NEW u \in Users,
             Inherit(u) \/ CleanupBegin(u) \/ CleanupNext(u) \/ CleanupClose(u) \/ CleanupEnd(u)
      PROVE  LibInv'
  BY <1>5, ThreadOnly, InheritFits, CleanupFits, OnlyFits
<1>6. ASSUME UNCHANGED libvars PROVE LibInv'
  <2>1. /\ loaded' = loaded /\ doing' = doing /\ calls' = calls /\ subject' = subject
    BY <1>6 DEF libvars
  <2>2. \A t \in Users : ThreadFits(t)'
    BY <2>1, ThreadSame DEF LibInv
  <2> QED
    BY <2>1, <2>2 DEF LibInv
<1>7. Others \subseteq Users
  BY DEF Users
<1> QED
  BY <1>1, <1>2, <1>3, <1>4, <1>5, <1>6, <1>7 DEF LibrariesNext

\* It says that references are counted.
LEMMA LibInvCounts ==
  ASSUME LibInv
  PROVE  RefsCounted
<1> SUFFICES ASSUME NEW t \in Users
             PROVE  /\ doing[t] \in Using /\ calls[t] = <<>> =>
                         \A i \in DOMAIN loaded[t] :
                           /\ loaded[t][i].ref > 0
                           /\ loaded[t][i].ref = (IF loaded[t][i].add > 0 THEN 1 ELSE 0)
                                + Cardinality(Needing(Named(loaded[t]), loaded[t][i].dso))
                           /\ \A y \in Library : Depends(loaded[t][i].dso, y) =>
                                \E j \in 1 .. i - 1 : loaded[t][j].dso = y
                    /\ doing[t] = "dropping" /\ calls[t] # <<>> /\ ~Visited(t) =>
                         ToVisit(t) \in Named(loaded[t])
  BY DEF RefsCounted
<1> PICK l : l = loaded[t]
  OBVIOUS
<1>1. ASSUME doing[t] \in Using, calls[t] = <<>>, NEW i \in DOMAIN l
      PROVE  /\ l[i].ref > 0
             /\ l[i].ref = (IF l[i].add > 0 THEN 1 ELSE 0) + Cardinality(Needing(Named(l), l[i].dso))
             /\ \A y \in Library : Depends(l[i].dso, y) => \E j \in 1 .. i - 1 : l[j].dso = y
  <2>1. CallsFit(t) /\ ListFits(t)
    BY <1>1 DEF LibInv, ThreadFits
  <2>2. doing[t] # "adding"
    BY <1>1, <2>1 DEF CallsFit
  <2> PICK y : y = l[i].dso
    OBVIOUS
  <2>3. y \in Named(l) /\ Place(l, y) = i /\ EntryOf(l, y) = l[i] /\ y \in Library
    <3>1. l \in Seq(Entries) /\ Distinct(l)
      BY <2>1 DEF ListFits
    <3> QED
      BY <1>1, <3>1, PlacedAt, EntryIn DEF EntryOf
  <2>4. /\ Given(t, y) = Own(t, y) + Cardinality(Holding(t, y))
        /\ Given(t, y) = l[i].ref /\ Own(t, y) = IF l[i].add > 0 THEN 1 ELSE 0
    BY <2>1, <2>3, CountedIn
  <2>5. Holding(t, y) = Needing(Named(l), y)
    <3>1. \A x, n : Holds(t, x, n) <=> x \in Named(l)
      BY <1>1, <2>2 DEF Holds, Drops
    <3> QED
      BY <3>1 DEF Holding, Needing
  <2>6. l[i].ref > 0 /\ Ordered(l)
    BY <2>1, <2>3 DEF ListFits
  <2> QED
    BY <1>1, <2>4, <2>5, <2>6 DEF Ordered
<1>2. ASSUME doing[t] = "dropping", calls[t] # <<>>, ~Visited(t)
      PROVE  ToVisit(t) \in Named(l)
  <2>1. CallsFit(t) /\ ListFits(t)
    BY <1>2 DEF LibInv, ThreadFits, Using, InCall
  <2> PICK c : c = calls[t]
    OBVIOUS
  <2> PICK a, b : a = Caller(c) /\ b = Position(c)
    OBVIOUS
  <2>2. a \in Library /\ b \in DOMAIN Needs[a] /\ ToVisit(t) = Needs[a][b] /\ Drops(c, a, b)
    BY <1>2, <2>1, Visiting
  <2>3. Holds(t, a, b)
    BY <1>2, <2>2 DEF Holds
  <2> QED
    BY <1>2, <2>1, <2>2, <2>3, HeldIsThere
<1> QED
  BY <1>1, <1>2

\* incThreadRef and decThreadRef count what they should, in every thread and
\* whatever the others do: RefsCounted for all libraries and dependencies.
THEOREM LibrariesCounted == LibrariesSpec => []RefsCounted
<1>1. LibrariesInit => LibInv
  BY LibInvInit
<1>2. LibInv /\ [LibrariesNext]_libvars => LibInv'
  BY LibInvStep
<1>3. LibInv => RefsCounted
  BY LibInvCounts
<1> QED
  BY <1>1, <1>2, <1>3, PTL DEF LibrariesSpec

-----------------------------------------------------------------------------
(* How often a list has loaded a library *)

AddOf(l, x) == IF x \in Named(l) THEN EntryOf(l, x).add ELSE 0

\* It is a number.
LEMMA AddOfNat ==
  ASSUME NEW l \in Seq(Entries), NEW x
  PROVE  AddOf(l, x) \in Nat
BY EntryIn DEF AddOf

\* A list that is empty has loaded nothing.
LEMMA AddOfEmpty ==
  ASSUME NEW x
  PROVE  AddOf(<<>>, x) = 0
BY DEF AddOf, Named

\* The entry of a library changes.
LEMMA AddOfChanged ==
  ASSUME NEW l \in Seq(Entries), Distinct(l), NEW x \in Named(l), NEW e \in Entries, e.dso = x,
         NEW k, k = Changed(l, x, e)
  PROVE  Named(k) = Named(l) /\ \A y : AddOf(k, y) = IF y = x THEN e.add ELSE AddOf(l, y)
<1>1. Named(k) = Named(l) /\ \A y \in Named(l) : EntryOf(k, y) = IF y = x THEN e ELSE EntryOf(l, y)
  BY Replaced
<1> QED
  BY <1>1 DEF AddOf

\* A library is added.
LEMMA AddOfAdded ==
  ASSUME NEW l \in Seq(Entries), Distinct(l), NEW e \in Entries, e.dso \notin Named(l),
         NEW k, k = Added(l, e)
  PROVE  /\ Named(k) = Named(l) \cup {e.dso}
         /\ \A y : AddOf(k, y) = IF y = e.dso THEN e.add ELSE AddOf(l, y)
<1>1. /\ Named(k) = Named(l) \cup {e.dso}
      /\ \A y \in Named(k) : EntryOf(k, y) = IF y = e.dso THEN e ELSE EntryOf(l, y)
  BY Inserted
<1> QED
  BY <1>1 DEF AddOf

\* A library is taken off.
LEMMA AddOfTakenOff ==
  ASSUME NEW l \in Seq(Entries), Distinct(l), NEW x \in Named(l),
         NEW k, k = Removed(l, Place(l, x))
  PROVE  Named(k) = Named(l) \ {x} /\ \A y : AddOf(k, y) = IF y = x THEN 0 ELSE AddOf(l, y)
<1>1. Named(k) = Named(l) \ {x} /\ \A y \in Named(k) : EntryOf(k, y) = EntryOf(l, y)
  BY TakenOff
<1> QED
  BY <1>1 DEF AddOf


\* Less, with the entry e without the reference.
LEMMA LessLists ==
  ASSUME NEW t \in Users, DOMAIN loaded = Users, DOMAIN calls = Users,
         loaded[t] \in Seq(Entries), Distinct(loaded[t]),
         NEW x \in Named(loaded[t]), NEW e \in Entries, e.dso = x, NEW c, Less(t, x, e, c),
         e.ref = 0 => e.add = 0
  PROVE  /\ Named(loaded'[t]) = IF e.ref = 0 THEN Named(loaded[t]) \ {x} ELSE Named(loaded[t])
         /\ \A y : AddOf(loaded'[t], y) = IF y = x THEN e.add ELSE AddOf(loaded[t], y)
<1>1. /\ e.ref > 0 => loaded'[t] = Changed(loaded[t], x, e)
      /\ e.ref = 0 => loaded'[t] = Removed(loaded[t], Place(loaded[t], x))
      /\ e.ref > 0 \/ e.ref = 0
  BY LessIs
<1> PICK l, k : l = loaded[t] /\ k = loaded'[t]
  OBVIOUS
<1>2. CASE e.ref = 0
  <2>1. /\ Named(k) = Named(l) \ {x}
        /\ \A y : AddOf(k, y) = IF y = x THEN 0 ELSE AddOf(l, y)
    BY <1>1, <1>2, AddOfTakenOff
  <2> QED
    BY <1>2, <2>1
<1>3. CASE e.ref > 0
  <2>1. Named(k) = Named(l) /\ \A y : AddOf(k, y) = IF y = x THEN e.add ELSE AddOf(l, y)
    BY <1>1, <1>3, AddOfChanged
  <2>2. e.ref # 0
    BY <1>3 DEF Entries
  <2> QED
    BY <2>1, <2>2
<1> QED
  BY <1>1, <1>2, <1>3

-----------------------------------------------------------------------------
(* How often the process has a library open *)

Opened(t, x) == AddCount(t, x) + Between(t, x)

EndFits(t) ==
  doing[t] \in {"cleanup", "closing"} =>
    /\ loaded[t] \in Seq(Entries) /\ Distinct(loaded[t]) /\ slot[t] \in Nat \ {0}
    /\ \A i \in DOMAIN loaded[t] : i < slot[t] => loaded[t][i].add = 0
    /\ doing[t] = "closing" =>
         /\ slot[t] \in DOMAIN loaded[t] /\ loaded[t][slot[t]].add > 0
         /\ subject[t] = loaded[t][slot[t]].dso

OpensFit(x) ==
  opens[x] \in Nat /\ IsFiniteSet(OpensOf(x)) /\ opens[x] = Cardinality(OpensOf(x))

TLSFit(t) == doing[t] \in {"run"} \cup InCall => tls[t] = Named(loaded[t])

OpenInv ==
  /\ LibInv
  /\ DOMAIN opens = Library /\ DOMAIN slot = Users /\ DOMAIN tls = Users
  /\ \A t \in Users : EndFits(t) /\ TLSFit(t)
  /\ \A x \in Library : OpensFit(x)

\* What a thread has open is a number.
LEMMA OpenedNat ==
  ASSUME OpenInv, NEW t \in Users, NEW x
  PROVE  /\ Opened(t, x) = AddOf(loaded[t], x) + Between(t, x)
         /\ AddOf(loaded[t], x) \in Nat /\ Between(t, x) \in Nat
         /\ loaded[t] \in Seq(Entries) /\ Distinct(loaded[t])
<1>1. loaded[t] \in Seq(Entries) /\ Distinct(loaded[t])
  <2>1. ThreadFits(t) /\ EndFits(t) /\ doing[t] \in Doings
    BY DEF OpenInv, LibInv
  <2>2. CASE doing[t] \in Using
    BY <2>1, <2>2 DEF ThreadFits, ListFits
  <2>3. CASE doing[t] \in {"cleanup", "closing"}
    BY <2>1, <2>3 DEF EndFits
  <2>4. CASE doing[t] = "none"
    <3>1. loaded[t] = <<>>
      BY <2>1, <2>4 DEF ThreadFits
    <3>2. <<>> \in Seq(Entries) /\ Distinct(<<>>)
      BY DEF Distinct
    <3> QED
      BY <3>1, <3>2
  <2> QED
    BY <2>1, <2>2, <2>3, <2>4 DEF Doings
<1>2. AddOf(loaded[t], x) \in Nat
  BY <1>1, AddOfNat
<1>3. Between(t, x) \in Nat
  BY DEF Between
<1> QED
  BY <1>1, <1>2, <1>3 DEF Opened, AddCount, AddOf

\* What is in OpensOf.
LEMMA OpensIn ==
  ASSUME NEW x, NEW p
  PROVE  p \in OpensOf(x) <=> \E t \in Users : \E i \in 1 .. Opened(t, x) : p = <<t, i>>
BY DEF OpensOf, Opened

\* Nobody has it open more often or less.
LEMMA OpensSame ==
  ASSUME NEW x, \A s \in Users : Opened(s, x)' = Opened(s, x)
  PROVE  OpensOf(x)' = OpensOf(x)
BY DEF OpensOf, Opened

\* A thread has it open once more.
LEMMA OpensMore ==
  ASSUME NEW x, NEW t \in Users, Opened(t, x) \in Nat, Opened(t, x)' = Opened(t, x) + 1,
         \A s \in Users : s # t => Opened(s, x)' = Opened(s, x),
         IsFiniteSet(OpensOf(x))
  PROVE  IsFiniteSet(OpensOf(x)') /\ Cardinality(OpensOf(x)') = Cardinality(OpensOf(x)) + 1
<1> PICK n, O : n = Opened(t, x) /\ O = OpensOf(x)
  OBVIOUS
<1>1. <<t, n + 1>> \notin O
  <2> SUFFICES ASSUME <<t, n + 1>> \in OpensOf(x) PROVE FALSE
    OBVIOUS
  <2>1. PICK s \in Users : \E i \in 1 .. Opened(s, x) : <<t, n + 1>> = <<s, i>>
    BY OpensIn
  <2>2. s = t /\ n + 1 \in 1 .. n
    BY <2>1
  <2> QED
    BY <2>2
<1>2. OpensOf(x)' = O \cup {<<t, n + 1>>}
  <2>1. OpensOf(x)' = UNION {{s} \X (1 .. Opened(s, x)') : s \in Users}
    BY DEF OpensOf, Opened
  <2>2. O = UNION {{s} \X (1 .. Opened(s, x)) : s \in Users}
    BY DEF OpensOf, Opened
  <2>3. 1 .. n + 1 = (1 .. n) \cup {n + 1}
    OBVIOUS
  <2>4. \A s \in Users : Opened(s, x)' = IF s = t THEN n + 1 ELSE Opened(s, x)
    OBVIOUS
  <2>5. \A p : p \in OpensOf(x)' <=> \E s \in Users : p \in {s} \X (1 .. Opened(s, x)')
    BY <2>1
  <2>6. \A p : p \in O <=> \E s \in Users : p \in {s} \X (1 .. Opened(s, x))
    BY <2>2
  <2>7. {t} \X (1 .. n + 1) = ({t} \X (1 .. n)) \cup {<<t, n + 1>>}
    BY <2>3
  <2>8. ASSUME NEW p PROVE p \in OpensOf(x)' <=> p \in O \/ p = <<t, n + 1>>
    <3>1. p \in {t} \X (1 .. Opened(t, x)') <=> p \in {t} \X (1 .. Opened(t, x)) \/ p = <<t, n + 1>>
      BY <2>7
    <3>2. \A s \in Users : s # t => {s} \X (1 .. Opened(s, x)') = {s} \X (1 .. Opened(s, x))
      OBVIOUS
    <3> QED
      BY <2>5, <2>6, <3>1, <3>2
  <2> QED
    BY <2>8
<1>3. IsFiniteSet(O)
  OBVIOUS
<1>4. IsFiniteSet(O \cup {<<t, n + 1>>}) /\ Cardinality(O \cup {<<t, n + 1>>}) = Cardinality(O) + 1
  BY ONLY <1>1, <1>3, FS_AddElement
<1> QED
  BY <1>2, <1>4

\* A thread has it open once less.
LEMMA OpensLess ==
  ASSUME NEW x, NEW t \in Users, Opened(t, x)' \in Nat, Opened(t, x) = Opened(t, x)' + 1,
         \A s \in Users : s # t => Opened(s, x)' = Opened(s, x),
         IsFiniteSet(OpensOf(x))
  PROVE  IsFiniteSet(OpensOf(x)') /\ Cardinality(OpensOf(x)') = Cardinality(OpensOf(x)) - 1
<1> PICK n, O, P : n = Opened(t, x)' /\ O = OpensOf(x) /\ P = OpensOf(x)'
  OBVIOUS
<1>1. <<t, n + 1>> \in O
  <2>1. \E i \in 1 .. Opened(t, x) : <<t, n + 1>> = <<t, i>>
    OBVIOUS
  <2> QED
    BY <2>1, OpensIn
<1>2. P = O \ {<<t, n + 1>>}
  <2>1. OpensOf(x)' = UNION {{s} \X (1 .. Opened(s, x)') : s \in Users}
    BY DEF OpensOf, Opened
  <2>2. O = UNION {{s} \X (1 .. Opened(s, x)) : s \in Users}
    BY DEF OpensOf, Opened
  <2>3. 1 .. n = (1 .. n + 1) \ {n + 1}
    OBVIOUS
  <2>5. \A p : p \in P <=> \E s \in Users : p \in {s} \X (1 .. Opened(s, x)')
    BY <2>1
  <2>6. \A p : p \in O <=> \E s \in Users : p \in {s} \X (1 .. Opened(s, x))
    BY <2>2
  <2>7. {t} \X (1 .. n) = ({t} \X (1 .. n + 1)) \ {<<t, n + 1>>}
    BY <2>3
  <2>8. ASSUME NEW p PROVE p \in P <=> p \in O /\ p # <<t, n + 1>>
    <3>1. p \in {t} \X (1 .. Opened(t, x)') <=> p \in {t} \X (1 .. Opened(t, x)) /\ p # <<t, n + 1>>
      BY <2>7
    <3>2. \A s \in Users : s # t => {s} \X (1 .. Opened(s, x)') = {s} \X (1 .. Opened(s, x))
      OBVIOUS
    <3>3. \A s \in Users : s # t => <<t, n + 1>> \notin {s} \X (1 .. Opened(s, x))
      OBVIOUS
    <3> QED
      BY <2>5, <2>6, <3>1, <3>2, <3>3
  <2> QED
    BY <2>8
<1>3. IsFiniteSet(O)
  OBVIOUS
<1>4. IsFiniteSet(O \ {<<t, n + 1>>}) /\ Cardinality(O \ {<<t, n + 1>>}) = Cardinality(O) - 1
  BY ONLY <1>1, <1>3, FS_RemoveElement
<1> QED
  BY <1>2, <1>4

\* What a step of thread t does to a library: nothing, or one dlopen or
\* dlclose and what it accounts for.
Balanced(t, x) ==
  \/ opens'[x] = opens[x] /\ Opened(t, x)' = Opened(t, x)
  \/ opens'[x] = opens[x] + 1 /\ Opened(t, x)' = Opened(t, x) + 1
  \/ opens'[x] = opens[x] - 1 /\ Opened(t, x)' \in Nat /\ Opened(t, x) = Opened(t, x)' + 1

\* Such a step leaves the library open as often as it should.
LEMMA BalancedFits ==
  ASSUME OpenInv, NEW t \in Users, Only(t), NEW x \in Library, Balanced(t, x)
  PROVE  OpensFit(x)'
<1>1. \A s \in Users : s # t => Opened(s, x)' = Opened(s, x)
  BY DEF Only, Opened, AddCount, Between
<1>2. OpensFit(x) /\ Opened(t, x) \in Nat
  <2>1. Opened(t, x) \in Nat
    BY OpenedNat
  <2> QED
    BY <2>1 DEF OpenInv
<1>3. CASE opens'[x] = opens[x] /\ Opened(t, x)' = Opened(t, x)
  <2>1. OpensOf(x)' = OpensOf(x)
    BY <1>1, <1>3, OpensSame
  <2> QED
    BY <1>2, <1>3, <2>1 DEF OpensFit
<1>4. CASE opens'[x] = opens[x] + 1 /\ Opened(t, x)' = Opened(t, x) + 1
  <2>1. IsFiniteSet(OpensOf(x)') /\ Cardinality(OpensOf(x)') = Cardinality(OpensOf(x)) + 1
    BY <1>1, <1>2, <1>4, OpensMore DEF OpensFit
  <2> QED
    BY <1>2, <1>4, <2>1 DEF OpensFit
<1>5. CASE opens'[x] = opens[x] - 1 /\ Opened(t, x)' \in Nat /\ Opened(t, x) = Opened(t, x)' + 1
  <2>1. IsFiniteSet(OpensOf(x)') /\ Cardinality(OpensOf(x)') = Cardinality(OpensOf(x)) - 1
    BY <1>1, <1>2, <1>5, OpensLess DEF OpensFit
  <2>2. Cardinality(OpensOf(x)') \in Nat
    BY <2>1, FS_CardinalityType
  <2> QED
    BY <1>2, <1>5, <2>1, <2>2 DEF OpensFit
<1> QED
  BY <1>3, <1>4, <1>5 DEF Balanced

\* Thread t alone has other variables, and fits.
Fits(t) ==
  /\ DOMAIN opens' = Library /\ DOMAIN slot' = Users /\ DOMAIN tls' = Users
  /\ \A s \in Users : s # t => slot'[s] = slot[s] /\ tls'[s] = tls[s]
  /\ EndFits(t)' /\ TLSFit(t)'
  /\ \A x \in Library : Balanced(t, x)

\* Such a step keeps everything accounted.
LEMMA FitsKeep ==
  ASSUME OpenInv, LibInv', NEW t \in Users, Only(t), Fits(t)
  PROVE  OpenInv'
<1>1. \A x \in Library : OpensFit(x)'
  BY BalancedFits DEF Fits
<1>2. ASSUME NEW s \in Users PROVE EndFits(s)' /\ TLSFit(s)'
  <2>1. CASE s = t
    BY <2>1 DEF Fits
  <2>2. CASE s # t
    <3>1. /\ loaded'[s] = loaded[s] /\ doing'[s] = doing[s] /\ subject'[s] = subject[s]
          /\ slot'[s] = slot[s] /\ tls'[s] = tls[s] /\ EndFits(s) /\ TLSFit(s)
      BY <2>2 DEF Only, Fits, OpenInv
    <3> QED
      BY <3>1 DEF EndFits, TLSFit
  <2> QED
    BY <2>1, <2>2
<1> QED
  BY <1>1, <1>2 DEF OpenInv, Fits

-----------------------------------------------------------------------------
(* Every step is accounted for *)

\* rt_loadLibrary: dlopen.
LEMMA LoadOpenOpens ==
  ASSUME OpenInv, NEW t \in Users, NEW x \in Library, LoadOpen(t, x)
  PROVE  Fits(t)
<1>1. /\ doing[t] = "run" /\ doing'[t] = "opened" /\ subject'[t] = x
      /\ loaded'[t] = loaded[t] /\ slot' = slot /\ tls' = tls
  BY DEF LoadOpen, Goes, OpenInv, LibInv
<1>2. /\ DOMAIN opens' = Library
      /\ \A z \in Library : opens'[z] = IF z = x THEN opens[z] + 1 ELSE opens[z]
  BY DEF LoadOpen, OpenInv
<1>3. ASSUME NEW z \in Library PROVE Balanced(t, z)
  <2>1. /\ Opened(t, z) = AddOf(loaded[t], z) + Between(t, z) /\ AddOf(loaded[t], z) \in Nat
    BY OpenedNat
  <2>2. Between(t, z) = 0 /\ Between(t, z)' = IF z = x THEN 1 ELSE 0
    BY <1>1 DEF Between, InCall
  <2>3. Opened(t, z)' = AddOf(loaded[t], z) + Between(t, z)'
    BY <1>1 DEF Opened, AddCount, AddOf
  <2>4. CASE z = x
    BY <1>2, <2>1, <2>2, <2>3, <2>4 DEF Balanced
  <2>5. CASE z # x
    BY <1>2, <2>1, <2>2, <2>3, <2>5 DEF Balanced
  <2> QED
    BY <2>4, <2>5
<1>4. EndFits(t)' /\ TLSFit(t)'
  BY <1>1 DEF EndFits, TLSFit, InCall, OpenInv
<1> QED
  BY <1>1, <1>2, <1>3, <1>4 DEF Fits, OpenInv

\* A step in which a thread has a library as often as before, and the calls and
\* its list add up.
LEMMA SameOpens ==
  ASSUME OpenInv, NEW t \in Users, opens' = opens, slot' = slot,
         DOMAIN tls' = Users, \A s \in Users : s # t => tls'[s] = tls[s],
         doing'[t] \notin {"cleanup", "closing"}, TLSFit(t)',
         \A x \in Library : AddOf(loaded'[t], x) + Between(t, x)' = AddOf(loaded[t], x) + Between(t, x)
  PROVE  Fits(t)
<1>1. ASSUME NEW x \in Library PROVE Balanced(t, x)
  BY DEF Balanced, Opened, AddCount, AddOf
<1> QED
  BY <1>1 DEF Fits, EndFits, OpenInv

\* incThreadRef finds the library that is loaded.
LEMMA LoadAgainOpens ==
  ASSUME OpenInv, NEW t \in Users, LoadAgain(t)
  PROVE  Fits(t)
<1> PICK l, x, k : l = loaded[t] /\ x = subject[t] /\ k = loaded'[t]
  OBVIOUS
<1> PICK o : o = EntryOf(l, x)
  OBVIOUS
<1> PICK e : e = Again(o, TRUE)
  OBVIOUS
<1>1. /\ doing[t] = "opened" /\ doing'[t] = "run" /\ opens' = opens /\ slot' = slot /\ tls' = tls
      /\ x \in Named(l) /\ k = Changed(l, x, e)
  BY DEF LoadAgain, Goes, OpenInv, LibInv, EntryOf, Changed
<1>2. l \in Seq(Entries) /\ Distinct(l)
  BY OpenedNat
<1>3. o \in Entries /\ o.dso = x /\ o.add \in Nat
  BY <1>1, <1>2, EntryIn
<1>4. e \in Entries /\ e.dso = x /\ e.add = o.add + 1
  BY <1>3, AgainIs
<1>5. Named(k) = Named(l) /\ \A y : AddOf(k, y) = IF y = x THEN e.add ELSE AddOf(l, y)
  BY ONLY <1>1, <1>2, <1>4, AddOfChanged
<1>6. AddOf(l, x) = o.add
  BY <1>1 DEF AddOf
<1>7. ASSUME NEW z \in Library
      PROVE  AddOf(k, z) + Between(t, z)' = AddOf(l, z) + Between(t, z)
  <2>1. Between(t, z)' = 0 /\ Between(t, z) = IF z = x THEN 1 ELSE 0
    BY <1>1 DEF Between, InCall
  <2>2. AddOf(l, z) \in Nat
    BY <1>2, AddOfNat
  <2>3. CASE z = x
    <3>1. /\ AddOf(k, z) = o.add + 1 /\ AddOf(l, z) = o.add
          /\ Between(t, z) = 1 /\ Between(t, z)' = 0
      BY <1>4, <1>5, <1>6, <2>1, <2>3
    <3> QED
      BY ONLY <1>3, <3>1
  <2>4. CASE z # x
    BY <1>5, <2>1, <2>2, <2>4
  <2> QED
    BY <2>3, <2>4
<1>8. TLSFit(t)'
  BY <1>1, <1>5 DEF TLSFit, InCall, OpenInv
<1>9. DOMAIN tls' = Users /\ (\A s \in Users : s # t => tls'[s] = tls[s])
  BY <1>1 DEF OpenInv
<1> QED
  BY <1>1, <1>7, <1>8, <1>9, SameOpens

\* incThreadRef begins.
LEMMA LoadNewOpens ==
  ASSUME OpenInv, NEW t \in Users, LoadNew(t)
  PROVE  Fits(t)
<1>1. /\ doing[t] = "opened" /\ doing'[t] = "adding" /\ opens' = opens /\ slot' = slot
      /\ tls' = tls /\ loaded' = loaded /\ subject' = subject
  BY DEF LoadNew, Goes, OpenInv, LibInv
<1>2. \A x : Between(t, x)' = Between(t, x)
  BY <1>1 DEF Between, InCall
<1>3. TLSFit(t)'
  BY <1>1 DEF TLSFit, InCall, OpenInv
<1>4. DOMAIN tls' = Users /\ (\A s \in Users : s # t => tls'[s] = tls[s])
  BY <1>1 DEF OpenInv
<1> QED
  BY <1>1, <1>2, <1>3, <1>4, SameOpens

\* incThreadRef of what a library depends on.
LEMMA IncThreadRefOpens ==
  ASSUME OpenInv, NEW t \in Users, IncThreadRef(t)
  PROVE  Fits(t)
<1> PICK l, y, k : l = loaded[t] /\ y = ToVisit(t) /\ k = loaded'[t]
  OBVIOUS
<1>1. /\ doing[t] = "adding" /\ doing' = doing /\ opens' = opens /\ slot' = slot
      /\ tls' = tls /\ subject' = subject
  BY DEF IncThreadRef
<1>2. l \in Seq(Entries) /\ Distinct(l)
  BY OpenedNat
<1>3. Named(k) = Named(l) /\ \A z : AddOf(k, z) = AddOf(l, z)
  <2>1. CASE y \in Named(l)
    <3> PICK o : o = EntryOf(l, y)
      OBVIOUS
    <3> PICK e : e = Again(o, FALSE)
      OBVIOUS
    <3>1. k = Changed(l, y, e)
      <4>1. loaded' = [loaded EXCEPT ![t][Place(l, y)] = Again(@, FALSE)]
        BY <2>1 DEF IncThreadRef
      <4> QED
        BY <4>1 DEF OpenInv, LibInv, Changed, EntryOf
    <3>2. o \in Entries /\ o.dso = y /\ o.add \in Nat
      BY <1>2, <2>1, EntryIn
    <3>3. e \in Entries /\ e.dso = y /\ e.add = o.add
      BY <3>2, AgainIs
    <3>4. Named(k) = Named(l) /\ \A z : AddOf(k, z) = IF z = y THEN e.add ELSE AddOf(l, z)
      BY ONLY <1>2, <2>1, <3>1, <3>3, AddOfChanged
    <3>5. AddOf(l, y) = o.add
      BY <2>1 DEF AddOf
    <3> QED
      BY <3>3, <3>4, <3>5
  <2>2. CASE y \notin Named(l)
    <3>1. loaded' = loaded
      BY <2>2 DEF IncThreadRef
    <3> QED
      BY <3>1
  <2> QED
    BY <2>1, <2>2
<1>4. \A x : Between(t, x)' = Between(t, x)
  BY <1>1 DEF Between, InCall
<1>5. TLSFit(t)'
  BY <1>1, <1>3 DEF TLSFit, InCall, OpenInv
<1>6. DOMAIN tls' = Users /\ (\A s \in Users : s # t => tls'[s] = tls[s])
  BY <1>1 DEF OpenInv
<1> QED
  BY <1>1, <1>3, <1>4, <1>5, <1>6, SameOpens

\* The end of incThreadRef.
LEMMA InsertBackOpens ==
  ASSUME OpenInv, NEW t \in Users, InsertBack(t)
  PROVE  Fits(t)
<1> PICK l, c, k : l = loaded[t] /\ c = calls[t] /\ k = loaded'[t]
  OBVIOUS
<1> PICK x, b : x = Caller(c) /\ b = Position(c)
  OBVIOUS
<1> PICK n : n = IF x = subject[t] THEN 1 ELSE 0
  OBVIOUS
<1>1. doing[t] = "adding" /\ opens' = opens /\ slot' = slot /\ Visited(t)
  BY DEF InsertBack
<1>2. CallsFit(t) /\ ListFits(t) /\ c # <<>>
  BY <1>1 DEF OpenInv, LibInv, ThreadFits, CallsFit, Using, InCall
<1>3. x \in Library /\ x \notin Named(l) /\ Innermost(t).dso = x
  BY <1>2, Visiting
<1>4. l \in Seq(Entries) /\ Distinct(l)
  BY OpenedNat
<1> PICK e : e = [dso |-> x, ref |-> 1, add |-> n]
  OBVIOUS
<1>5. e \in Entries /\ e.dso = x /\ e.add = n
  <2>1. n \in Nat /\ 1 \in Nat
    OBVIOUS
  <2> QED
    BY ONLY <1>3, <2>1, EntryIs, e = [dso |-> x, ref |-> 1, add |-> n]
<1>6. k = Added(l, e)
  <2>1. loaded' = [loaded EXCEPT ![t] = Append(@, e)]
    BY <1>3 DEF InsertBack
  <2> QED
    BY <2>1 DEF OpenInv, LibInv, Added
<1>7. Named(k) = Named(l) \cup {x} /\ \A y : AddOf(k, y) = IF y = x THEN n ELSE AddOf(l, y)
  BY ONLY <1>3, <1>4, <1>5, <1>6, AddOfAdded
<1>8. /\ doing'[t] = IF x = subject[t] THEN "run" ELSE "adding"
      /\ subject'[t] = IF x = subject[t] THEN NoLibrary ELSE subject[t]
  BY <1>1, <1>3 DEF InsertBack, OpenInv, LibInv
<1>9. AddOf(l, x) = 0
  BY <1>3 DEF AddOf
<1>10. ASSUME NEW z \in Library
       PROVE  AddOf(k, z) + Between(t, z)' = AddOf(l, z) + Between(t, z)
  <2>1. Between(t, z) = IF subject[t] = z THEN 1 ELSE 0
    BY <1>1 DEF Between, InCall
  <2>2. CASE x = subject[t]
    <3>1. Between(t, z)' = 0
      BY <1>8, <2>2 DEF Between, InCall
    <3> QED
      BY <1>7, <1>9, <2>1, <2>2, <3>1
  <2>3. CASE x # subject[t]
    <3>1. Between(t, z)' = Between(t, z)
      BY <1>1, <1>8, <2>3 DEF Between
    <3> QED
      BY <1>7, <1>9, <2>3, <3>1
  <2> QED
    BY <2>2, <2>3
<1>11. tls' = [tls EXCEPT ![t] = @ \cup {x}]
  BY <1>3 DEF InsertBack
<1>12. TLSFit(t)' /\ doing'[t] \notin {"cleanup", "closing"}
  BY <1>1, <1>7, <1>8, <1>11 DEF TLSFit, InCall, OpenInv
<1>13. DOMAIN tls' = Users /\ (\A s \in Users : s # t => tls'[s] = tls[s])
  BY <1>11 DEF OpenInv
<1> QED
  BY <1>1, <1>10, <1>12, <1>13, SameOpens

\* What Less does to the thread-local variables.
LEMMA LessTLS ==
  ASSUME NEW t \in Users, DOMAIN tls = Users, NEW x, NEW e \in Entries, NEW c, Less(t, x, e, c)
  PROVE  /\ DOMAIN tls' = Users /\ \A s \in Users : s # t => tls'[s] = tls[s]
         /\ tls'[t] = IF e.ref = 0 THEN tls[t] \ {x} ELSE tls[t]
<1>1. e.ref \in Nat
  BY DEF Entries
<1>2. CASE e.ref > 0
  <2>1. tls' = tls /\ e.ref # 0
    BY <1>1, <1>2 DEF Less
  <2> QED
    BY <2>1
<1>3. CASE e.ref = 0
  <2>1. tls' = [tls EXCEPT ![t] = @ \ {x}]
    BY <1>3 DEF Less, DestroyTLS
  <2> QED
    BY <1>3, <2>1
<1> QED
  BY <1>1, <1>2, <1>3

\* decThreadRef of the library that is unloaded.
LEMMA UnloadCountOpens ==
  ASSUME OpenInv, NEW t \in Users, NEW x \in Library, UnloadCount(t, x)
  PROVE  Fits(t)
<1> PICK l, e, k : l = loaded[t] /\ e = EntryOf(loaded[t], x) /\ k = loaded'[t]
  OBVIOUS
<1> PICK f : f = IF e.add > 1 THEN [e EXCEPT !.add = @ - 1]
                 ELSE [[e EXCEPT !.add = @ - 1] EXCEPT !.ref = @ - 1]
  OBVIOUS
<1> PICK c : c = <<>>
  OBVIOUS
<1>1. /\ doing[t] = "run" /\ doing'[t] = "dropping" /\ subject'[t] = x
      /\ opens' = opens /\ slot' = slot
      /\ DOMAIN loaded = Users /\ DOMAIN calls = Users /\ DOMAIN tls = Users
      /\ x \in Named(l) /\ e.add > 0 /\ Less(t, x, f, c)
  BY DEF UnloadCount, Goes, OpenInv, LibInv
<1>2. ListFits(t)
  BY <1>1 DEF OpenInv, LibInv, ThreadFits, Using
<1>3. l \in Seq(Entries) /\ Distinct(l) /\ e.ref > 0
  BY <1>1, <1>2 DEF ListFits
<1>4. e \in Entries /\ e.dso = x /\ e.ref \in Nat /\ e.add \in Nat
  BY <1>1, <1>3, EntryIn
<1>5. f \in Entries /\ f.dso = x /\ f.add = e.add - 1 /\ (f.ref = 0 => f.add = 0)
  <2> PICK r, a : r = e.ref /\ a = e.add
    OBVIOUS
  <2> PICK r1, a1 : r1 = r - 1 /\ a1 = a - 1
    OBVIOUS
  <2>1. /\ e = [dso |-> x, ref |-> r, add |-> a]
        /\ r \in Nat /\ a \in Nat /\ r1 \in Nat /\ a1 \in Nat /\ r > 0 /\ a > 0
    BY <1>1, <1>3, <1>4 DEF Entries
  <2>2. CASE e.add > 1
    <3>1. f = [e EXCEPT !.add = @ - 1]
      BY <2>2
    <3>2. f = [dso |-> x, ref |-> r, add |-> a1]
      BY <2>1, <3>1
    <3>3. f \in Entries /\ f.dso = x /\ f.ref = r /\ f.add = a1
      BY ONLY <2>1, <3>2, EntryIs, x \in Library
    <3>4. f.ref # 0
      BY ONLY <2>1, <3>3
    <3> QED
      BY <3>3, <3>4
  <2>3. CASE ~(e.add > 1)
    <3> PICK g : g = [e EXCEPT !.add = @ - 1]
      OBVIOUS
    <3>1. f = [g EXCEPT !.ref = @ - 1]
      BY <2>3
    <3>2. g = [dso |-> x, ref |-> r, add |-> a1]
      BY <2>1
    <3>3. f = [dso |-> x, ref |-> r1, add |-> a1]
      BY ONLY <2>1, <3>1, <3>2, r1 = r - 1
    <3>4. f \in Entries /\ f.dso = x /\ f.ref = r1 /\ f.add = a1
      BY ONLY <2>1, <3>3, EntryIs, x \in Library
    <3>5. a1 = 0
      BY <2>1, <2>3
    <3> QED
      BY <3>4, <3>5
  <2> QED
    BY <2>2, <2>3
<1>6. /\ Named(k) = IF f.ref = 0 THEN Named(l) \ {x} ELSE Named(l)
      /\ \A y : AddOf(k, y) = IF y = x THEN f.add ELSE AddOf(l, y)
  <2>1. Less(t, x, f, c)
    BY <1>1
  <2>2. /\ Named(loaded'[t]) = IF f.ref = 0 THEN Named(loaded[t]) \ {x} ELSE Named(loaded[t])
        /\ \A y : AddOf(loaded'[t], y) = IF y = x THEN f.add ELSE AddOf(loaded[t], y)
    BY ONLY <1>1, <1>3, <1>5, <2>1, LessLists, t \in Users, l = loaded[t]
  <2> QED
    BY <2>2
<1>7. /\ DOMAIN tls' = Users /\ \A s \in Users : s # t => tls'[s] = tls[s]
      /\ tls'[t] = IF f.ref = 0 THEN tls[t] \ {x} ELSE tls[t]
  BY ONLY <1>1, <1>5, LessTLS, t \in Users
<1>8. AddOf(l, x) = e.add
  BY <1>1 DEF AddOf
<1>9. ASSUME NEW z \in Library
      PROVE  AddOf(k, z) + Between(t, z)' = AddOf(l, z) + Between(t, z)
  <2>1. Between(t, z) = 0 /\ Between(t, z)' = IF z = x THEN 1 ELSE 0
    BY <1>1 DEF Between, InCall
  <2>2. AddOf(l, z) \in Nat
    BY <1>3, AddOfNat
  <2>3. CASE z = x
    <3>1. /\ AddOf(k, z) = e.add - 1 /\ AddOf(l, z) = e.add
          /\ Between(t, z) = 0 /\ Between(t, z)' = 1
      BY <1>5, <1>6, <1>8, <2>1, <2>3
    <3> QED
      BY ONLY <1>4, <3>1
  <2>4. CASE z # x
    BY <1>6, <2>1, <2>2, <2>4
  <2> QED
    BY <2>3, <2>4
<1>10. TLSFit(t)' /\ doing'[t] \notin {"cleanup", "closing"}
  <2>1. tls[t] = Named(l)
    BY <1>1 DEF OpenInv, TLSFit
  <2> QED
    BY <1>1, <1>6, <1>7, <2>1 DEF TLSFit
<1> QED
  BY <1>1, <1>7, <1>9, <1>10, SameOpens

\* decThreadRef goes on with what the innermost library depends on.
LEMMA DecThreadRefOpens ==
  ASSUME OpenInv, NEW t \in Users, DecThreadRef(t)
  PROVE  Fits(t)
<1> PICK l, c, k, y, d : /\ l = loaded[t] /\ c = calls[t] /\ k = loaded'[t]
                         /\ y = ToVisit(t) /\ d = GoOn(t)
  OBVIOUS
<1> PICK a, b : a = Caller(c) /\ b = Position(c)
  OBVIOUS
<1> PICK o : o = EntryOf(l, y)
  OBVIOUS
<1> PICK e : e = [o EXCEPT !.ref = @ - 1]
  OBVIOUS
<1>1. /\ doing[t] = "dropping" /\ doing' = doing /\ subject' = subject
      /\ opens' = opens /\ slot' = slot /\ calls[t] # <<>> /\ ~Visited(t)
      /\ DOMAIN loaded = Users /\ DOMAIN calls = Users /\ DOMAIN tls = Users
  BY DEF DecThreadRef, OpenInv, LibInv
<1>2. Less(t, y, e, d)
  BY DEF DecThreadRef
<1>3. CallsFit(t) /\ ListFits(t)
  BY <1>1 DEF OpenInv, LibInv, ThreadFits, Using, InCall
<1>4. /\ a \in Library /\ b \in DOMAIN Needs[a] /\ y = Needs[a][b] /\ y \in Library
      /\ Drops(c, a, b)
  BY <1>1, <1>3, Visiting
<1>5. Holds(t, a, b)
  BY <1>1, <1>4 DEF Holds
<1>6. y \in Named(l) /\ Cardinality(Holding(t, y)) \in Nat \ {0}
  BY <1>1, <1>3, <1>4, <1>5, HeldIsThere
<1>7. l \in Seq(Entries) /\ Distinct(l) /\ o.ref > 0
  BY <1>3, <1>6 DEF ListFits
<1>8. o \in Entries /\ o.dso = y /\ o.ref \in Nat /\ o.add \in Nat
  BY <1>6, <1>7, EntryIn
<1>9. o.ref = (IF o.add > 0 THEN 1 ELSE 0) + Cardinality(Holding(t, y))
  BY <1>3, <1>4, <1>6, CountedIn
<1>10. e \in Entries /\ e.dso = y /\ e.add = o.add /\ (e.ref = 0 => e.add = 0)
  <2> PICK r, i : r = o.ref /\ i = o.ref - 1
    OBVIOUS
  <2>1. o = [dso |-> y, ref |-> r, add |-> o.add] /\ i \in Nat
    BY <1>7, <1>8 DEF Entries
  <2>2. e = [dso |-> y, ref |-> i, add |-> o.add]
    BY <2>1
  <2>3. e \in Entries /\ e.dso = y /\ e.ref = i /\ e.add = o.add
    BY ONLY <1>4, <1>8, <2>1, <2>2, EntryIs
  <2>4. i = 0 => ~(o.add > 0)
    BY ONLY <1>6, <1>8, <1>9, i = o.ref - 1
  <2> QED
    BY <1>8, <2>3, <2>4
<1>11. /\ Named(k) = IF e.ref = 0 THEN Named(l) \ {y} ELSE Named(l)
       /\ \A z : AddOf(k, z) = IF z = y THEN e.add ELSE AddOf(l, z)
  <2>1. /\ Named(loaded'[t]) = IF e.ref = 0 THEN Named(loaded[t]) \ {y} ELSE Named(loaded[t])
        /\ \A z : AddOf(loaded'[t], z) = IF z = y THEN e.add ELSE AddOf(loaded[t], z)
    <3>1. /\ loaded[t] \in Seq(Entries) /\ Distinct(loaded[t]) /\ y \in Named(loaded[t])
          /\ DOMAIN loaded = Users /\ DOMAIN calls = Users
      BY <1>1, <1>6, <1>7
    <3> QED
      BY ONLY <1>2, <1>10, <3>1, LessLists, t \in Users
  <2> QED
    BY <2>1
<1>12. /\ DOMAIN tls' = Users /\ \A s \in Users : s # t => tls'[s] = tls[s]
       /\ tls'[t] = IF e.ref = 0 THEN tls[t] \ {y} ELSE tls[t]
  BY ONLY <1>1, <1>2, <1>10, LessTLS, t \in Users
<1>13. AddOf(l, y) = o.add /\ \A z : AddOf(k, z) = AddOf(l, z)
  <2>1. AddOf(l, y) = o.add
    BY <1>6 DEF AddOf
  <2> QED
    BY <1>10, <1>11, <2>1
<1>14. \A x : Between(t, x)' = Between(t, x)
  BY <1>1 DEF Between
<1>15. TLSFit(t)' /\ doing'[t] \notin {"cleanup", "closing"}
  <2>1. tls[t] = Named(l)
    BY <1>1 DEF OpenInv, TLSFit, InCall
  <2> QED
    BY <1>1, <1>11, <1>12, <2>1 DEF TLSFit
<1> QED
  BY <1>1, <1>12, <1>13, <1>14, <1>15, SameOpens

\* A call of decThreadRef returns.
LEMMA DecReturnOpens ==
  ASSUME OpenInv, NEW t \in Users, DecReturn(t)
  PROVE  Fits(t)
<1>1. /\ doing[t] = "dropping" /\ doing' = doing /\ subject' = subject /\ loaded' = loaded
      /\ opens' = opens /\ slot' = slot /\ tls' = tls
  BY DEF DecReturn
<1>2. \A x : Between(t, x)' = Between(t, x)
  BY <1>1 DEF Between
<1>3. TLSFit(t)' /\ doing'[t] \notin {"cleanup", "closing"}
  BY <1>1 DEF TLSFit, InCall, OpenInv
<1>4. DOMAIN tls' = Users /\ (\A s \in Users : s # t => tls'[s] = tls[s])
  BY <1>1 DEF OpenInv
<1> QED
  BY <1>1, <1>2, <1>3, <1>4, SameOpens

\* rt_unloadLibrary: dlclose.
LEMMA UnloadCloseOpens ==
  ASSUME OpenInv, NEW t \in Users, UnloadClose(t)
  PROVE  Fits(t)
<1> PICK x : x = subject[t]
  OBVIOUS
<1>1. /\ doing[t] = "dropping" /\ doing'[t] = "run"
      /\ loaded'[t] = loaded[t] /\ slot' = slot /\ tls' = tls
  BY DEF UnloadClose, Goes, OpenInv, LibInv
<1>2. /\ DOMAIN opens' = Library
      /\ \A z \in Library : opens'[z] = IF z = x THEN opens[z] - 1 ELSE opens[z]
  BY DEF UnloadClose, OpenInv
<1>3. ASSUME NEW z \in Library PROVE Balanced(t, z)
  <2>1. /\ Opened(t, z) = AddOf(loaded[t], z) + Between(t, z) /\ AddOf(loaded[t], z) \in Nat
    BY OpenedNat
  <2>2. Between(t, z)' = 0 /\ Between(t, z) = IF z = x THEN 1 ELSE 0
    BY <1>1 DEF Between, InCall
  <2>3. Opened(t, z)' = AddOf(loaded[t], z) + Between(t, z)'
    BY <1>1 DEF Opened, AddCount, AddOf
  <2>4. CASE z = x
    BY <1>2, <2>1, <2>2, <2>3, <2>4 DEF Balanced
  <2>5. CASE z # x
    BY <1>2, <2>1, <2>2, <2>3, <2>5 DEF Balanced
  <2> QED
    BY <2>4, <2>5
<1>4. EndFits(t)' /\ TLSFit(t)'
  BY <1>1 DEF EndFits, TLSFit, InCall, OpenInv
<1> QED
  BY <1>1, <1>2, <1>3, <1>4 DEF Fits, OpenInv

\* Thread.start: pinLoadedLibraries opens what the new list has loaded.
LEMMA StartPinOpens ==
  ASSUME OpenInv, NEW t \in Users, NEW u \in Users, StartPin(t, u)
  PROVE  Fits(u)
<1> PICK l, k : l = loaded[t] /\ k = loaded'[u]
  OBVIOUS
<1>1. /\ doing[u] = "none" /\ doing'[u] = "started" /\ k = Pinned(l)
      /\ slot' = slot /\ tls' = tls
  BY DEF StartPin, Goes, OpenInv, LibInv
<1>2. /\ DOMAIN opens' = Library
      /\ \A x \in Library :
           opens'[x] = IF x \in Named(l) /\ EntryOf(l, x).add > 0 THEN opens[x] + 1 ELSE opens[x]
  BY DEF StartPin
<1>3. l \in Seq(Entries) /\ Distinct(l)
  BY OpenedNat
<1>4. Named(k) = Named(l) /\ \A y \in Named(l) : EntryOf(k, y).add = IF EntryOf(l, y).add > 0 THEN 1 ELSE 0
  BY ONLY <1>1, <1>3, PinnedIs
<1>5. loaded[u] = <<>>
  BY <1>1 DEF OpenInv, LibInv, ThreadFits
<1>6. ASSUME NEW x \in Library PROVE Balanced(u, x)
  <2>1. Opened(u, x) = 0
    <3>1. Between(u, x) = 0
      BY <1>1 DEF Between, InCall
    <3> QED
      BY <1>5, <3>1, OpenedNat, AddOfEmpty
  <2>2. Opened(u, x)' = AddOf(k, x)
    <3>1. Between(u, x)' = 0
      BY <1>1 DEF Between, InCall
    <3>2. Opened(u, x)' = AddOf(k, x) + 0
      BY <3>1 DEF Opened, AddCount, AddOf
    <3>3. AddOf(k, x) \in {0, 1}
      BY <1>4 DEF AddOf
    <3> QED
      BY <3>2, <3>3
  <2>3. CASE x \in Named(l) /\ EntryOf(l, x).add > 0
    <3>1. AddOf(k, x) = 1 /\ opens'[x] = opens[x] + 1
      BY <1>2, <1>4, <2>3 DEF AddOf
    <3> QED
      BY <2>1, <2>2, <3>1 DEF Balanced
  <2>4. CASE ~(x \in Named(l) /\ EntryOf(l, x).add > 0)
    <3>1. AddOf(k, x) = 0 /\ opens'[x] = opens[x]
      BY <1>2, <1>4, <2>4 DEF AddOf
    <3> QED
      BY <2>1, <2>2, <3>1 DEF Balanced
  <2> QED
    BY <2>3, <2>4
<1>7. EndFits(u)' /\ TLSFit(u)'
  BY <1>1 DEF EndFits, TLSFit, InCall
<1> QED
  BY <1>1, <1>2, <1>6, <1>7 DEF Fits, OpenInv

\* thread_entryPoint.
LEMMA InheritOpens ==
  ASSUME OpenInv, NEW u \in Users, Inherit(u)
  PROVE  Fits(u)
<1>1. /\ doing[u] = "started" /\ doing'[u] = "run" /\ loaded' = loaded /\ subject' = subject
      /\ opens' = opens /\ slot' = slot
      /\ tls' = [tls EXCEPT ![u] = Named(loaded[u])]
  BY DEF Inherit, Goes, OpenInv, LibInv
<1>2. \A x : Between(u, x)' = Between(u, x)
  BY <1>1 DEF Between, InCall
<1>3. TLSFit(u)' /\ doing'[u] \notin {"cleanup", "closing"}
  BY <1>1 DEF TLSFit, InCall, OpenInv
<1>4. DOMAIN tls' = Users /\ (\A s \in Users : s # u => tls'[s] = tls[s])
  BY <1>1 DEF OpenInv
<1> QED
  BY <1>1, <1>2, <1>3, <1>4, SameOpens

\* A step of a thread that ends in which it closes nothing.
LEMMA EndOpens ==
  ASSUME OpenInv, NEW u \in Users, opens' = opens,
         DOMAIN slot' = Users, DOMAIN tls' = Users,
         \A s \in Users : s # u => slot'[s] = slot[s] /\ tls'[s] = tls[s],
         doing[u] \notin InCall, doing'[u] \notin {"run"} \cup InCall, EndFits(u)',
         \A x \in Library : AddOf(loaded'[u], x) = AddOf(loaded[u], x)
  PROVE  Fits(u)
<1>1. \A x : Between(u, x) = 0 /\ Between(u, x)' = 0
  BY DEF Between
<1>2. ASSUME NEW x \in Library PROVE Balanced(u, x)
  BY <1>1 DEF Balanced, Opened, AddCount, AddOf
<1> QED
  BY <1>2 DEF Fits, TLSFit, OpenInv

\* A thread begins to end.
LEMMA CleanupBeginOpens ==
  ASSUME OpenInv, NEW u \in Users, CleanupBegin(u)
  PROVE  Fits(u)
<1>1. /\ doing[u] = "run" /\ doing'[u] = "cleanup" /\ loaded' = loaded /\ opens' = opens
      /\ DOMAIN slot' = Users /\ slot'[u] = 1 /\ DOMAIN tls' = Users
      /\ \A s \in Users : s # u => slot'[s] = slot[s] /\ tls'[s] = tls[s]
  BY DEF CleanupBegin, Goes, DestroyTLS, OpenInv, LibInv
<1>2. loaded[u] \in Seq(Entries) /\ Distinct(loaded[u])
  BY OpenedNat
<1>3. EndFits(u)'
  <2>1. \A i \in DOMAIN loaded[u] : ~(i < 1)
    BY <1>2
  <2> QED
    BY <1>1, <1>2, <2>1 DEF EndFits, Distinct
<1> QED
  BY <1>1, <1>3, EndOpens DEF InCall

\* cleanupLoadedLibraries comes to the next library that was loaded.
LEMMA CleanupNextOpens ==
  ASSUME OpenInv, NEW u \in Users, CleanupNext(u)
  PROVE  Fits(u)
<1>1. PICK i \in Explicit(u) :
        /\ \A j \in Explicit(u) : i <= j
        /\ Goes(u, "cleanup", "closing")
        /\ slot' = [slot EXCEPT ![u] = i]
        /\ subject' = [subject EXCEPT ![u] = loaded[u][i].dso]
        /\ UNCHANGED <<opens, loaded, calls, tls, twice>>
  BY DEF CleanupNext
<1> PICK l : l = loaded[u]
  OBVIOUS
<1>2. /\ doing[u] = "cleanup" /\ doing'[u] = "closing" /\ loaded'[u] = l /\ opens' = opens
      /\ DOMAIN slot' = Users /\ slot'[u] = i /\ subject'[u] = l[i].dso /\ tls' = tls
      /\ \A s \in Users : s # u => slot'[s] = slot[s]
  BY <1>1 DEF Goes, OpenInv, LibInv
<1>3. /\ l \in Seq(Entries) /\ Distinct(l) /\ slot[u] \in Nat
      /\ \A j \in DOMAIN l : j < slot[u] => l[j].add = 0
  BY <1>2 DEF OpenInv, EndFits
<1>4. i \in DOMAIN l /\ l[i].add > 0 /\ DOMAIN l = 1 .. Len(l) /\ Len(l) \in Nat
  BY <1>3 DEF Explicit
<1>5. ASSUME NEW j \in DOMAIN l, j < i PROVE l[j].add = 0
  <2>1. CASE j < slot[u]
    BY <1>3, <2>1
  <2>2. CASE ~(j < slot[u])
    <3>1. j >= slot[u] /\ ~(i <= j)
      BY <1>3, <1>4, <1>5, <2>2
    <3>2. ~(l[j].add > 0)
      BY <1>1, <3>1 DEF Explicit
    <3>3. l[j] \in Entries
      BY <1>3
    <3> QED
      BY <3>2, <3>3 DEF Entries
  <2> QED
    BY <2>1, <2>2
<1>6. EndFits(u)'
  BY <1>2, <1>3, <1>4, <1>5 DEF EndFits
<1>7. DOMAIN tls' = Users /\ \A s \in Users : tls'[s] = tls[s]
  BY <1>2 DEF OpenInv
<1> QED
  BY <1>2, <1>6, <1>7, EndOpens DEF InCall

\* cleanupLoadedLibraries has come to the end.
LEMMA CleanupEndOpens ==
  ASSUME OpenInv, NEW u \in Users, CleanupEnd(u)
  PROVE  Fits(u)
<1> PICK l : l = loaded[u]
  OBVIOUS
<1>1. /\ doing[u] = "cleanup" /\ doing'[u] = "none" /\ loaded'[u] = <<>> /\ opens' = opens
      /\ DOMAIN slot' = Users /\ tls' = tls /\ Explicit(u) = {}
      /\ \A s \in Users : s # u => slot'[s] = slot[s]
  BY DEF CleanupEnd, Goes, OpenInv, LibInv
<1>2. /\ l \in Seq(Entries) /\ Distinct(l) /\ slot[u] \in Nat
      /\ \A j \in DOMAIN l : j < slot[u] => l[j].add = 0
  BY <1>1 DEF OpenInv, EndFits
<1>3. ASSUME NEW j \in DOMAIN l PROVE l[j].add = 0
  <2>1. j \in Nat /\ l[j] \in Entries
    BY <1>2
  <2>2. CASE j < slot[u]
    BY <1>2, <2>2
  <2>3. CASE ~(j < slot[u])
    <3>1. j >= slot[u]
      BY <1>2, <2>1, <2>3
    <3>2. ~(l[j].add > 0)
      BY <1>1, <3>1 DEF Explicit
    <3> QED
      BY <2>1, <3>2 DEF Entries
  <2> QED
    BY <2>2, <2>3
<1>4. \A x : AddOf(l, x) = 0
  BY <1>3, Placed DEF AddOf, EntryOf
<1>5. \A x : AddOf(loaded'[u], x) = AddOf(loaded[u], x)
  BY <1>1, <1>4, AddOfEmpty
<1>6. EndFits(u)' /\ DOMAIN tls' = Users /\ \A s \in Users : tls'[s] = tls[s]
  BY <1>1 DEF EndFits, OpenInv
<1> QED
  BY <1>1, <1>5, <1>6, EndOpens DEF InCall

\* Nothing is left out when nothing is unmapped.
LEMMA WithoutNothing ==
  ASSUME NEW l \in Seq(Entries)
  PROVE  Without(l, {}) = l
<1> PICK n : n = Len(l)
  OBVIOUS
<1>1. n \in Nat /\ DOMAIN l = 1 .. n /\ l = [i \in 1 .. n |-> l[i]]
  OBVIOUS
<1>2. ASSUME NEW m \in Nat PROVE Cardinality(1 .. m) = m
  <2>1. 1 \in Int /\ m \in Int
    BY <1>2
  <2>2. Cardinality(1 .. m) = IF 1 > m THEN 0 ELSE m - 1 + 1
    BY <2>1, FS_Interval
  <2> QED
    BY <1>2, <2>2
<1> DEFINE S == {i \in DOMAIN l : l[i].dso \notin {}}
           At(m) == CHOOSE i \in S : Cardinality({j \in S : j <= i}) = m
<1>3. Without(l, {}) = [m \in 1 .. Cardinality(S) |-> l[At(m)]]
  BY DEF Without
<1>4. S = 1 .. n
  BY <1>1
<1> HIDE DEF S
<1>5. Cardinality(S) = n
  BY <1>1, <1>2, <1>4
<1>6. ASSUME NEW i \in S PROVE Cardinality({j \in S : j <= i}) = i
  <2>1. {j \in S : j <= i} = 1 .. i /\ i \in Nat
    BY <1>1, <1>4
  <2> QED
    BY <1>2, <2>1
<1>7. ASSUME NEW m \in S PROVE At(m) = m
  <2>1. At(m) \in S /\ Cardinality({j \in S : j <= At(m)}) = m
    BY <1>6
  <2>2. Cardinality({j \in S : j <= At(m)}) = At(m)
    BY <1>6, <2>1
  <2> QED
    BY <2>1, <2>2
<1> HIDE DEF At
<1>8. Without(l, {}) = [m \in 1 .. n |-> l[At(m)]]
  BY <1>3, <1>5
<1> QED
  BY <1>1, <1>4, <1>7, <1>8

\* cleanupLoadedLibraries: dlclose, when somebody else has the library open.
LEMMA CleanupCloseOpens ==
  ASSUME OpenInv, NEW u \in Others, u \in Users, CleanupClose(u), OthersHaveIt
  PROVE  Fits(u)
<1> PICK l, k, x, i : l = loaded[u] /\ k = loaded'[u] /\ x = subject[u] /\ i = slot[u]
  OBVIOUS
<1>1. doing[u] = "closing" /\ opens' = [opens EXCEPT ![x] = @ - 1]
  BY DEF CleanupClose
<1>2. /\ l \in Seq(Entries) /\ Distinct(l) /\ i \in Nat \ {0}
      /\ \A j \in DOMAIN l : j < i => l[j].add = 0
      /\ i \in DOMAIN l /\ l[i].add > 0 /\ x = l[i].dso
  BY <1>1 DEF OpenInv, EndFits
<1>3. Mapped \ MappedWhen(opens') = {}
  BY DEF OthersHaveIt
<1>4. Without(l, {}) = l
  BY <1>2, WithoutNothing
<1> PICK e : e = [l[i] EXCEPT !.add = @ - 1]
  OBVIOUS
<1>5. e \in Entries /\ e.dso = x /\ e.add = l[i].add - 1 /\ e.add \in Nat
  <2> PICK o, r, a : o = l[i] /\ r = l[i].ref /\ a = l[i].add - 1
    OBVIOUS
  <2>1. o \in Entries
    BY <1>2
  <2>2. o = [dso |-> x, ref |-> r, add |-> o.add] /\ r \in Nat /\ a \in Nat /\ x \in Library
    BY <1>2, <2>1 DEF Entries
  <2>3. e = [dso |-> x, ref |-> r, add |-> a]
    BY <2>2
  <2>4. e \in Entries /\ e.dso = x /\ e.add = a
    BY ONLY <2>2, <2>3, EntryIs
  <2> QED
    BY <2>2, <2>4
<1> DEFINE left == Without(loaded[u], Mapped \ MappedWhen(opens'))
<1>a. loaded' = [loaded EXCEPT ![u] =
        IF slot[u] \in DOMAIN left
          THEN [left EXCEPT ![slot[u]].add = IF @ > 0 THEN @ - 1 ELSE 65535] ELSE left]
  BY DEF CleanupClose
<1>c. IF slot[u] \in DOMAIN left /\ loaded'[u][slot[u]].add > 0
        THEN UNCHANGED <<doing, slot>>
        ELSE doing' = [doing EXCEPT ![u] = "cleanup"] /\ slot' = [slot EXCEPT ![u] = slot[u] + 1]
  BY DEF CleanupClose
<1>b. left = l
  BY <1>3, <1>4
<1> HIDE DEF left
<1>6. k = [l EXCEPT ![i] = e]
  <2>1. k = IF i \in DOMAIN l THEN [l EXCEPT ![i].add = IF @ > 0 THEN @ - 1 ELSE 65535] ELSE l
    BY <1>a, <1>b DEF OpenInv, LibInv
  <2>2. k = [l EXCEPT ![i].add = IF @ > 0 THEN @ - 1 ELSE 65535]
    BY <1>2, <2>1
  <2> QED
    BY <1>2, <2>2
<1>7. x \in Named(l) /\ Place(l, x) = i
  BY <1>2, PlacedAt
<1>8. k = Changed(l, x, e)
  BY <1>6, <1>7 DEF Changed
<1>9. Named(k) = Named(l) /\ \A y : AddOf(k, y) = IF y = x THEN e.add ELSE AddOf(l, y)
  BY ONLY <1>2, <1>5, <1>7, <1>8, AddOfChanged
<1>10. k \in Seq(Entries) /\ Distinct(k)
  BY ONLY <1>2, <1>5, <1>7, <1>8, Replaced
<1>11. DOMAIN k = DOMAIN l /\ k[i] = e /\ \A j \in DOMAIN l : j # i => k[j] = l[j]
  BY <1>2, <1>6
<1>12. IF e.add > 0 THEN UNCHANGED <<doing, slot>>
       ELSE doing' = [doing EXCEPT ![u] = "cleanup"] /\ slot' = [slot EXCEPT ![u] = i + 1]
  <2>1. IF i \in DOMAIN l /\ loaded'[u][i].add > 0
          THEN UNCHANGED <<doing, slot>>
          ELSE doing' = [doing EXCEPT ![u] = "cleanup"] /\ slot' = [slot EXCEPT ![u] = i + 1]
    BY <1>b, <1>c
  <2> QED
    BY <1>2, <1>11, <2>1
<1>13. /\ doing'[u] \in {"cleanup", "closing"} /\ subject'[u] = x
       /\ DOMAIN slot' = Users /\ \A s \in Users : s # u => slot'[s] = slot[s]
  <2>1. subject'[u] = x
    BY DEF CleanupClose
  <2> QED
    BY <1>1, <1>12, <2>1 DEF OpenInv, LibInv
<1>14. EndFits(u)'
  <2>1. CASE e.add > 0
    <3>1. slot'[u] = i
      BY <1>12, <2>1
    <3>2. \A j \in DOMAIN k : j < i => k[j].add = 0
      BY <1>2, <1>11
    <3> QED
      BY <1>2, <1>5, <1>10, <1>11, <1>13, <2>1, <3>1, <3>2 DEF EndFits
  <2>2. CASE ~(e.add > 0)
    <3>0. DOMAIN slot = Users /\ DOMAIN doing = Users /\ u \in Users
      BY DEF OpenInv, LibInv
    <3>4. slot' = [slot EXCEPT ![u] = i + 1] /\ doing' = [doing EXCEPT ![u] = "cleanup"]
      BY <1>12, <2>2
    <3>5. e.add = 0 /\ i + 1 \in Nat \ {0}
      <4>1. e.add \in Nat /\ i \in Nat
        BY <1>2, <1>5
      <4> QED
        BY ONLY <2>2, <4>1
    <3>1. slot'[u] = i + 1 /\ doing'[u] = "cleanup" /\ e.add = 0 /\ i + 1 \in Nat \ {0}
      BY <3>0, <3>4, <3>5
    <3>2. \A j \in DOMAIN k : j < i + 1 => j < i \/ j = i
      BY <1>2, <1>11
    <3>3. ASSUME NEW j \in DOMAIN k, j < i + 1 PROVE k[j].add = 0
      <4>1. CASE j < i
        <5>1. j \in DOMAIN l /\ j # i
          BY <1>2, <1>11, <4>1
        <5> QED
          BY <1>2, <1>11, <4>1, <5>1
      <4>2. CASE j = i
        BY <1>11, <3>1, <4>2
      <4> QED
        BY <3>2, <3>3, <4>1, <4>2
    <3> QED
      BY <1>10, <3>1, <3>3 DEF EndFits
  <2> QED
    BY <2>1, <2>2
<1>15. AddOf(l, x) = e.add + 1
  <2>1. AddOf(l, x) = l[i].add
    BY <1>7 DEF AddOf, EntryOf
  <2>3. l[i] \in Entries
    BY <1>2
  <2>2. l[i].add \in Nat
    BY <2>3 DEF Entries
  <2> QED
    BY <1>5, <2>1, <2>2
<1>16. DOMAIN opens' = Library /\ \A z \in Library : opens'[z] = IF z = x THEN opens[z] - 1 ELSE opens[z]
  BY <1>1 DEF OpenInv
<1>17. ASSUME NEW z \in Library PROVE Balanced(u, z)
  <2>1. Between(u, z) = 0 /\ Between(u, z)' = 0
    BY <1>1, <1>13 DEF Between, InCall
  <2>2. AddOf(l, z) \in Nat /\ AddOf(k, z) \in Nat
    BY <1>2, <1>10, AddOfNat
  <2>3. Opened(u, z) = AddOf(l, z) /\ Opened(u, z)' = AddOf(k, z)
    <3>1. Opened(u, z) = AddOf(l, z) + Between(u, z) /\ Opened(u, z)' = AddOf(k, z) + Between(u, z)'
      BY DEF Opened, AddCount, AddOf
    <3> QED
      BY <2>1, <2>2, <3>1
  <2>4. CASE z = x
    BY <1>9, <1>15, <1>16, <2>2, <2>3, <2>4 DEF Balanced
  <2>5. CASE z # x
    BY <1>9, <1>16, <2>3, <2>5 DEF Balanced
  <2> QED
    BY <2>4, <2>5
<1>18. TLSFit(u)'
  BY <1>13 DEF TLSFit, InCall
<1>19. DOMAIN tls' = Users /\ \A s \in Users : s # u => tls'[s] = tls[s]
  <2>1. tls' = [tls EXCEPT ![u] = @ \ (Mapped \ MappedWhen(opens'))]
    BY DEF CleanupClose, DestroyTLS
  <2> QED
    BY <2>1 DEF OpenInv
<1> QED
  BY <1>13, <1>14, <1>16, <1>17, <1>18, <1>19 DEF Fits

-----------------------------------------------------------------------------
(* What a thread has is mapped *)

\* A set of places in a list has a last one.
LEMMA LastOf ==
  ASSUME NEW n \in Nat, NEW S \in SUBSET (1 .. n), S # {}
  PROVE  \E i \in S : \A j \in S : j <= i
<1> DEFINE T == {n - j : j \in S}
           R == {ss \in Nat \X Nat : ss[1] < ss[2]}
<1>1. T \in SUBSET Nat /\ T # {}
  <2>1. ASSUME NEW t \in T PROVE t \in Nat
    <3>1. PICK j \in S : t = n - j
      BY <2>1
    <3>2. j \in 1 .. n
      OBVIOUS
    <3> QED
      BY <3>1, <3>2
  <2>2. PICK j \in S : TRUE
    OBVIOUS
  <2>3. n - j \in T
    OBVIOUS
  <2> QED
    BY <2>1, <2>3
<1>2. PICK m \in T : \A y \in T : m <= y
  <2>1. IsWellFoundedOn(R, Nat)
    BY NatLessThanWellFounded DEF OpToRel
  <2> HIDE DEF T, R
  <2>2. PICK m \in T : \A y \in T : ~(<<y, m>> \in R)
    BY <1>1, <2>1, WFMin
  <2>3. ASSUME NEW y \in T PROVE m <= y
    <3>1. y \in Nat /\ m \in Nat /\ <<y, m>> \notin R
      BY <1>1, <2>2
    <3> QED
      BY <3>1 DEF R
  <2> QED
    BY <2>2, <2>3
<1>3. PICK i \in S : m = n - i
  BY <1>2
<1>4. \A j \in S : n - i <= n - j
  BY <1>2, <1>3
<1>5. ASSUME NEW j \in S PROVE j <= i
  <2>1. i \in 1 .. n /\ j \in 1 .. n /\ n - i <= n - j
    BY <1>4
  <2> QED
    BY ONLY <2>1, n \in Nat
<1> QED
  BY <1>5

\* The library is loaded explicitly by the thread, or about to be, or not yet closed.
Root(t, x) == x \in Library /\ (AddOf(loaded[t], x) > 0 \/ (doing[t] \in InCall /\ x = subject[t]))

\* What a thread has is needed by something it has open.
LEMMA Rooted ==
  ASSUME NEW t, doing[t] \in Using, CallsFit(t), ListFits(t), NEW y \in Named(loaded[t])
  PROVE  \E x \in Library : Root(t, x) /\ y \in Requires[x]
<1> PICK l, n : l = loaded[t] /\ n = Len(l)
  OBVIOUS
<1> DEFINE Unrooted == {i \in 1 .. n : ~\E x \in Library : Root(t, x) /\ l[i].dso \in Requires[x]}
<1>1. /\ l \in Seq(Entries) /\ Distinct(l) /\ Ordered(l) /\ n \in Nat /\ DOMAIN l = 1 .. n
      /\ \A i \in 1 .. n : l[i] \in Entries
  BY DEF ListFits
<1>2. ASSUME Unrooted # {} PROVE FALSE
  <2>1. PICK i \in Unrooted : \A j \in Unrooted : j <= i
    <3>1. Unrooted \in SUBSET (1 .. n)
      OBVIOUS
    <3> HIDE DEF Unrooted
    <3> QED
      BY ONLY <1>1, <1>2, <3>1, LastOf
  <2> PICK z : z = l[i].dso
    OBVIOUS
  <2>2. i \in 1 .. n /\ z \in Library /\ z \in Named(l) /\ EntryOf(l, z) = l[i]
    <3>1. i \in 1 .. n /\ z \in Library
      BY <1>1 DEF Entries
    <3> QED
      BY <1>1, <3>1, PlacedAt DEF EntryOf
  <2>3. ~Root(t, z)
    BY <2>2, RequiresSelf
  <2>4. l[i].add \in Nat /\ ~(l[i].add > 0) /\ l[i].ref > 0
    <3>1. l[i].add \in Nat
      BY <1>1 DEF Entries
    <3>2. AddOf(l, z) = l[i].add
      BY <2>2 DEF AddOf
    <3>3. ~(AddOf(l, z) > 0)
      BY <2>2, <2>3 DEF Root
    <3>4. l[i].ref > 0
      BY <2>2 DEF ListFits
    <3> QED
      BY <3>1, <3>2, <3>3, <3>4
  <2>5. l[i].ref = 0 + Cardinality(Holding(t, z))
    BY <2>2, <2>4, CountedIn
  <2>6. Holding(t, z) # {}
    <3>1. Cardinality(Holding(t, z)) # 0
      BY <2>4, <2>5
    <3>2. Cardinality({}) = 0
      BY FS_EmptySet
    <3> QED
      BY <3>1, <3>2
  <2>7. PICK d \in Dependency : Needs[d[1]][d[2]] = z /\ Holds(t, d[1], d[2])
    BY <2>6 DEF Holding
  <2> PICK a : a = d[1]
    OBVIOUS
  <2>8. a \in Library /\ Depends(a, z)
    BY <2>7, Dependencies DEF Depends
  <2>9. CASE a \in Named(l)
    <3>1. PICK j \in 1 .. n : l[j].dso = a
      BY <1>1, <2>9 DEF Named
    <3>2. PICK m \in 1 .. j - 1 : l[m].dso = z
      BY <1>1, <2>2, <2>8, <3>1 DEF Ordered
    <3>3. m = i
      BY <1>1, <2>2, <3>1, <3>2 DEF Distinct
    <3>4. j \notin Unrooted
      BY <2>1, <2>2, <3>1, <3>2, <3>3
    <3>5. PICK x \in Library : Root(t, x) /\ a \in Requires[x]
      BY <3>1, <3>4
    <3>6. z \in Requires[x]
      BY <2>2, <2>8, <3>5, RequiresNext
    <3> QED
      BY <3>5, <3>6
  <2>10. CASE a \notin Named(l)
    <3> PICK c : c = calls[t]
      OBVIOUS
    <3>1. PICK k \in DOMAIN c : c[k].dso = a
      BY <2>7, <2>10 DEF Holds, Adds, Drops
    <3>2. Nested(c) /\ c # <<>> /\ c[1].dso = subject[t]
      BY <3>1 DEF CallsFit
    <3>3. 1 \in DOMAIN c /\ 1 <= k
      BY <3>1, <3>2 DEF Nested
    <3>4. a \in Requires[subject[t]]
      BY <3>1, <3>2, <3>3 DEF Nested
    <3>5. doing[t] \in InCall
      BY <3>2 DEF CallsFit, InCall
    <3>6. subject[t] \in Library
      BY <3>5 DEF CallsFit
    <3>7. Root(t, subject[t])
      BY <3>5, <3>6 DEF Root
    <3>8. z \in Requires[subject[t]]
      BY <2>2, <2>8, <3>4, <3>6, RequiresNext
    <3> QED
      BY <2>1, <3>6, <3>7, <3>8
  <2> QED
    BY <2>9, <2>10
<1>3. PICK i \in 1 .. n : l[i].dso = y
  BY <1>1 DEF Named
<1> QED
  BY <1>2, <1>3

\* What a thread has open, the process has open.
LEMMA RootOpen ==
  ASSUME OpenInv, NEW t \in Users, NEW x, Root(t, x)
  PROVE  opens[x] > 0
<1>1. Opened(t, x) \in Nat \ {0}
  <2>1. /\ Opened(t, x) = AddOf(loaded[t], x) + Between(t, x)
        /\ AddOf(loaded[t], x) \in Nat /\ Between(t, x) \in Nat
    BY OpenedNat
  <2>2. AddOf(loaded[t], x) > 0 \/ Between(t, x) = 1
    BY DEF Root, Between
  <2> QED
    BY <2>1, <2>2
<1>2. <<t, 1>> \in OpensOf(x)
  <2>1. 1 \in 1 .. Opened(t, x)
    BY <1>1
  <2> QED
    BY <2>1, OpensIn
<1>3. OpensFit(x)
  BY DEF Root, OpenInv
<1>4. Cardinality(OpensOf(x)) # 0
  BY <1>2, <1>3, FS_EmptySet DEF OpensFit
<1> QED
  BY <1>3, <1>4 DEF OpensFit

\* The invariant says what is accounted.
LEMMA OpenInvAccounts ==
  ASSUME OpenInv
  PROVE  OpensAccounted /\ UsedAreMapped
<1>1. OpensAccounted
  BY DEF OpenInv, OpensFit, OpensAccounted
<1>2. ASSUME NEW t \in Users, doing[t] \in Using, NEW y \in Named(loaded[t]) PROVE y \in Mapped
  <2>1. CallsFit(t) /\ ListFits(t)
    BY <1>2 DEF OpenInv, LibInv, ThreadFits
  <2>2. PICK x \in Library : Root(t, x) /\ y \in Requires[x]
    BY <1>2, <2>1, Rooted
  <2>3. opens[x] > 0
    BY <2>2, RootOpen
  <2> QED
    BY <2>2, <2>3 DEF Mapped, MappedWhen
<1>3. \A t \in Users : doing[t] \in {"run"} \cup InCall => tls[t] = Named(loaded[t])
  BY DEF OpenInv, TLSFit
<1> QED
  BY <1>1, <1>2, <1>3 DEF UsedAreMapped

\* At the beginning nothing is open.
LEMMA OpenInvInit ==
  ASSUME LibrariesInit
  PROVE  OpenInv
<1>1. LibInv
  BY LibInvInit
<1>2. DOMAIN opens = Library /\ DOMAIN slot = Users /\ DOMAIN tls = Users
  BY DEF LibrariesInit
<1>3. ASSUME NEW t \in Users
      PROVE  loaded[t] = <<>> /\ doing[t] \in {"run", "none"} /\ tls[t] = {}
  BY <1>3 DEF LibrariesInit
<1>4. ASSUME NEW t \in Users PROVE EndFits(t) /\ TLSFit(t)
  BY <1>3, <1>4 DEF EndFits, TLSFit, Named
<1>5. ASSUME NEW x \in Library PROVE OpensFit(x)
  <2>1. \A t \in Users : Opened(t, x) = 0
    <3>1. ASSUME NEW t \in Users PROVE Opened(t, x) = 0
      <4>1. AddCount(t, x) = 0
        BY <1>3, <3>1 DEF AddCount, Named
      <4>2. Between(t, x) = 0
        BY <1>3, <3>1 DEF Between, InCall
      <4> QED
        BY <4>1, <4>2 DEF Opened
    <3> QED
      BY <3>1
  <2>2. OpensOf(x) = {}
    <3> SUFFICES ASSUME NEW p \in OpensOf(x) PROVE FALSE
      OBVIOUS
    <3>1. PICK t \in Users : \E i \in 1 .. Opened(t, x) : p = <<t, i>>
      BY OpensIn
    <3> QED
      BY <2>1, <3>1
  <2>3. opens[x] = 0
    BY DEF LibrariesInit
  <2> QED
    BY <2>2, <2>3, FS_EmptySet DEF OpensFit
<1> QED
  BY <1>1, <1>2, <1>4, <1>5 DEF OpenInv

\* Every step keeps it when no thread that ends unmaps a library.
LEMMA OpenInvStep ==
  ASSUME OpenInv, [LibrariesNext]_libvars, [OthersHaveIt]_libvars
  PROVE  OpenInv'
<1>0. LibInv /\ LibInv'
  BY LibInvStep DEF OpenInv
<1>1. ASSUME NEW t \in Users, NEW x \in Library, LoadOpen(t, x) \/ UnloadCount(t, x) PROVE OpenInv'
  BY <1>0, <1>1, LoadOnly, UnloadOnly, LoadOpenOpens, UnloadCountOpens, FitsKeep
<1>2. ASSUME NEW t \in Users, LoadAgain(t) \/ LoadNew(t) \/ IncThreadRef(t) \/ InsertBack(t)
      PROVE  OpenInv'
  <2>1. Fits(t)
    BY <1>2, LoadAgainOpens, LoadNewOpens, IncThreadRefOpens, InsertBackOpens
  <2>2. subject[t] \in Library
    BY <1>0, <1>2 DEF LoadAgain, LoadNew, IncThreadRef, InsertBack, Goes, LibInv, ThreadFits,
                      CallsFit, Using, InCall
  <2>3. Only(t)
    BY <1>0, <1>2, <2>2, LoadOnly
  <2> QED
    BY <1>0, <2>1, <2>3, FitsKeep
<1>3. ASSUME NEW t \in Users, DecThreadRef(t) \/ DecReturn(t) \/ UnloadClose(t)
      PROVE  OpenInv'
  <2>1. Fits(t)
    BY <1>3, DecThreadRefOpens, DecReturnOpens, UnloadCloseOpens
  <2>2. subject[t] \in Library
    BY <1>0, <1>3 DEF DecThreadRef, DecReturn, UnloadClose, Goes, LibInv, ThreadFits,
                      CallsFit, Using, InCall
  <2>3. Only(t)
    BY <1>0, <1>3, <2>2, UnloadOnly
  <2> QED
    BY <1>0, <2>1, <2>3, FitsKeep
<1>4. ASSUME NEW t \in Users, NEW u \in Users, StartPin(t, u) PROVE OpenInv'
  BY <1>0, <1>4, ThreadOnly, StartPinOpens, FitsKeep
<1>5. ASSUME NEW u \in Users, Inherit(u) \/ CleanupBegin(u) \/ CleanupNext(u) \/ CleanupEnd(u)
      PROVE  OpenInv'
  <2>1. Fits(u)
    BY <1>5, InheritOpens, CleanupBeginOpens, CleanupNextOpens, CleanupEndOpens
  <2> QED
    BY <1>0, <1>5, <2>1, ThreadOnly, FitsKeep
<1>6. ASSUME UNCHANGED libvars PROVE OpenInv'
  <2>1. /\ loaded' = loaded /\ doing' = doing /\ subject' = subject
        /\ slot' = slot /\ tls' = tls /\ opens' = opens
    BY <1>6 DEF libvars
  <2>2. \A t \in Users : EndFits(t)' /\ TLSFit(t)'
    BY <2>1 DEF OpenInv, EndFits, TLSFit
  <2>3. \A x : OpensOf(x)' = OpensOf(x)
    BY <2>1 DEF OpensOf, AddCount, Between
  <2>4. \A x \in Library : OpensFit(x)'
    BY <2>1, <2>3 DEF OpenInv, OpensFit
  <2> QED
    BY <1>0, <2>1, <2>2, <2>4 DEF OpenInv
<1>7. ASSUME NEW u \in Others, u \in Users, CleanupClose(u), OthersHaveIt PROVE OpenInv'
  <2>1. Fits(u)
    BY <1>7, CleanupCloseOpens
  <2> QED
    BY <1>0, <1>7, <2>1, ThreadOnly, FitsKeep
<1>8. Others \subseteq Users
  BY DEF Users
<1>9. ASSUME LibrariesNext, OthersHaveIt PROVE OpenInv'
  BY <1>1, <1>2, <1>3, <1>4, <1>5, <1>7, <1>8, <1>9 DEF LibrariesNext
<1> QED
  BY <1>6, <1>9

\* The loader's counts are those of the threads: OpensAccounted for all
\* libraries, as long as no thread that ends closes a library nobody else has
\* open.
THEOREM OpensAreAccounted == LibrariesSpec /\ [][OthersHaveIt]_libvars => []OpensAccounted
<1>1. LibrariesInit => OpenInv
  BY OpenInvInit
<1>2. OpenInv /\ [LibrariesNext]_libvars /\ [OthersHaveIt]_libvars => OpenInv'
  BY OpenInvStep
<1>3. OpenInv => OpensAccounted
  BY OpenInvAccounts
<1> QED
  BY <1>1, <1>2, <1>3, PTL DEF LibrariesSpec

\* A library a thread has is mapped, and its thread-local variables are there as
\* long: UsedAreMapped for all libraries, under the same hypothesis.
THEOREM LibrariesMapped == LibrariesSpec /\ [][OthersHaveIt]_libvars => []UsedAreMapped
<1>1. LibrariesInit => OpenInv
  BY OpenInvInit
<1>2. OpenInv /\ [LibrariesNext]_libvars /\ [OthersHaveIt]_libvars => OpenInv'
  BY OpenInvStep
<1>3. OpenInv => UsedAreMapped
  BY OpenInvAccounts
<1> QED
  BY <1>1, <1>2, <1>3, PTL DEF LibrariesSpec

\* Destructors run for libraries whose thread-local variables there are.
LEMMA DestroyedStep ==
  ASSUME OpenInv, TLSDestroyedOnce, [LibrariesNext]_libvars, [OthersHaveIt]_libvars
  PROVE  TLSDestroyedOnce'
<1>0. LibInv /\ \A t \in Users : doing[t] \in {"run"} \cup InCall => tls[t] = Named(loaded[t])
  BY DEF OpenInv, TLSFit
<1>1. ASSUME NEW t \in Users, NEW S, DestroyTLS(t, S), S \subseteq tls[t] PROVE twice' = twice
  <2>1. twice' = twice \cup ({t} \X (S \ tls[t])) /\ S \ tls[t] = {}
    BY <1>1 DEF DestroyTLS
  <2> QED
    BY <2>1
<1>2. ASSUME NEW t \in Users, NEW x, NEW e, NEW c, Less(t, x, e, c), x \in tls[t]
      PROVE  twice' = twice
  <2>1. twice' = twice \/ DestroyTLS(t, {x})
    BY <1>2 DEF Less
  <2> QED
    BY <1>1, <1>2, <2>1
<1>3. ASSUME NEW t \in Users, NEW x \in Library, UnloadCount(t, x) PROVE twice' = twice
  <2>1. doing[t] = "run" /\ x \in Named(loaded[t]) /\ \E e, c : Less(t, x, e, c)
    BY <1>3 DEF UnloadCount, Goes
  <2>2. x \in tls[t]
    BY <1>0, <2>1
  <2> QED
    BY <1>2, <2>1, <2>2
<1>4. ASSUME NEW t \in Users, DecThreadRef(t) PROVE twice' = twice
  <2>1. /\ doing[t] = "dropping" /\ calls[t] # <<>> /\ ~Visited(t)
        /\ \E e, c : Less(t, ToVisit(t), e, c)
    BY <1>4 DEF DecThreadRef
  <2>2. ToVisit(t) \in Named(loaded[t])
    BY <1>0, <2>1, LibInvCounts DEF RefsCounted
  <2>3. ToVisit(t) \in tls[t]
    BY <1>0, <2>1, <2>2 DEF InCall
  <2> QED
    BY <1>2, <2>1, <2>3
<1>5. ASSUME NEW u \in Users, CleanupBegin(u) PROVE twice' = twice
  BY <1>0, <1>1, <1>5 DEF CleanupBegin, Goes
<1>6. ASSUME NEW u \in Others, u \in Users, CleanupClose(u), OthersHaveIt PROVE twice' = twice
  <2>1. Mapped \ MappedWhen(opens') = {}
    BY <1>6 DEF OthersHaveIt
  <2>2. DestroyTLS(u, Mapped \ MappedWhen(opens'))
    BY <1>6 DEF CleanupClose
  <2>3. DestroyTLS(u, {})
    BY <2>1, <2>2
  <2> QED
    BY <1>1, <1>6, <2>3
<1>7. ASSUME NEW t \in Users, NEW x \in Library, LoadOpen(t, x) PROVE twice' = twice
  BY <1>7 DEF LoadOpen
<1>8. ASSUME NEW t \in Users,
             \/ LoadAgain(t) \/ LoadNew(t) \/ IncThreadRef(t) \/ InsertBack(t)
             \/ DecReturn(t) \/ UnloadClose(t) \/ Inherit(t) \/ CleanupNext(t) \/ CleanupEnd(t)
      PROVE  twice' = twice
  BY <1>8 DEF LoadAgain, LoadNew, IncThreadRef, InsertBack, DecReturn, UnloadClose,
              Inherit, CleanupNext, CleanupEnd
<1>9. ASSUME NEW t \in Users, NEW u \in Others, StartPin(t, u) PROVE twice' = twice
  BY <1>9 DEF StartPin
<1>10. Others \subseteq Users
  BY DEF Users
<1>11. ASSUME LibrariesNext, OthersHaveIt PROVE twice' = twice
  <2>1. CASE \E t \in Users, x \in Library : LoadOpen(t, x) \/ UnloadCount(t, x)
    BY <1>3, <1>7, <2>1
  <2>2. CASE \E t \in Users :
               \/ LoadAgain(t) \/ LoadNew(t) \/ IncThreadRef(t) \/ InsertBack(t)
               \/ DecThreadRef(t) \/ DecReturn(t) \/ UnloadClose(t)
    BY <1>4, <1>8, <2>2
  <2>3. CASE \E t \in Users, u \in Others : StartPin(t, u)
    BY <1>9, <2>3
  <2>4. CASE \E u \in Others :
               Inherit(u) \/ CleanupBegin(u) \/ CleanupNext(u) \/ CleanupClose(u) \/ CleanupEnd(u)
    BY <1>5, <1>6, <1>8, <1>10, <1>11, <2>4
  <2> QED
    BY <1>11, <2>1, <2>2, <2>3, <2>4 DEF LibrariesNext
<1>12. ASSUME UNCHANGED libvars PROVE twice' = twice
  BY <1>12 DEF libvars
<1> QED
  BY <1>11, <1>12 DEF TLSDestroyedOnce

\* Destructors of thread-local variables run once per thread, unless a thread
\* that ends closes a library nobody else has open (see the run
\* thread_ends_with_library): the only way to break TLSDestroyedOnce.
THEOREM DestroyedOnce == LibrariesSpec /\ [][OthersHaveIt]_libvars => []TLSDestroyedOnce
<1>1. LibrariesInit => OpenInv /\ TLSDestroyedOnce
  BY OpenInvInit DEF LibrariesInit, TLSDestroyedOnce
<1>2. OpenInv /\ [LibrariesNext]_libvars /\ [OthersHaveIt]_libvars => OpenInv'
  BY OpenInvStep
<1>3. OpenInv /\ TLSDestroyedOnce /\ [LibrariesNext]_libvars /\ [OthersHaveIt]_libvars
        => TLSDestroyedOnce'
  BY DestroyedStep
<1> QED
  BY <1>1, <1>2, <1>3, PTL DEF LibrariesSpec
=============================================================================
