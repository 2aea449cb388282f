----------------------------- MODULE SyncProofs -----------------------------
(***************************************************************************)
(* Proofs about ReadWriteMutex and Barrier, for any threads.  They share   *)
(* nothing but the lemmas of finite sets.                                  *)
(***************************************************************************)
EXTENDS RWMutex, Barrier, FiniteSetTheorems, TLAPS

-----------------------------------------------------------------------------
(* RWMutex, for both policies.  The counters decide who may enter, the     *)
(* program counters say who is inside: exclusion and the absence of        *)
(* forgotten threads follow from the two agreeing (CountersMatch), which   *)
(* is what makes the invariant inductive.  The wake-up invariants need,    *)
(* besides, that only a thread inside a timed call can give up (TimedOK).  *)

(* Counting *)

\* One more thread in a class is one more in its cardinality.
LEMMA CountAdd ==
  ASSUME NEW S, NEW t, IsFiniteSet(S), t \notin S
  PROVE  Cardinality(S \cup {t}) = Cardinality(S) + 1
BY FS_AddElement

\* One thread less in a class is one less in its cardinality.
LEMMA CountRemove ==
  ASSUME NEW S, NEW t, IsFiniteSet(S), t \in S
  PROVE  Cardinality(S \ {t}) = Cardinality(S) - 1
BY FS_RemoveElement

\* A class of threads is finite, and counted by a natural number that is 0
\* only for the empty class.
LEMMA CountThreads ==
  ASSUME NEW S, S \subseteq Threads
  PROVE  /\ IsFiniteSet(S)
         /\ Cardinality(S) \in Nat
         /\ Cardinality(S) > 0 <=> S # {}
<1>1. IsFiniteSet(S)
  BY FS_Subset, ThreadsAssumption
<1>2. Cardinality(S) \in Nat
  BY <1>1, FS_CardinalityType
<1>3. Cardinality(S) = 0 <=> S = {}
  BY <1>1, FS_EmptySet
<1> QED
  BY <1>1, <1>2, <1>3

-----------------------------------------------------------------------------
(* The inductive invariant *)

PCType == pc \in [Threads -> Places]

PolicyType == policy \in Policies

FlagType == timed \in [Threads -> BOOLEAN] /\ expired \in [Threads -> BOOLEAN]

\* Only a call with a Duration can be out of time, and only while it waits;
\* a writer's is one of TimedWriters'.
TimedOK ==
  \A t \in Threads :
    /\ expired[t] => timed[t]
    /\ timed[t] => t \in QueuedReaders \cup QueuedWriters
    /\ timed[t] /\ t \in QueuedWriters => t \in TimedWriters

Core == PolicyType /\ PCType /\ FlagType /\ CountersMatch /\ Exclusion

\* What the counters say about the classes of threads they count.
LEMMA CountersSay ==
  ASSUME CountersMatch
  PROVE  /\ numQueuedReaders \in Nat /\ (numQueuedReaders > 0 <=> QueuedReaders # {})
         /\ numActiveReaders \in Nat /\ (numActiveReaders > 0 <=> At("reading") # {})
         /\ numQueuedWriters \in Nat /\ (numQueuedWriters > 0 <=> QueuedWriters # {})
         /\ numActiveWriters \in Nat /\ (numActiveWriters > 0 <=> At("writing") # {})
<1>1. /\ QueuedReaders \subseteq Threads /\ QueuedWriters \subseteq Threads
      /\ At("reading") \subseteq Threads /\ At("writing") \subseteq Threads
  BY DEF QueuedReaders, QueuedWriters, At
<1> QED
  BY <1>1, CountThreads DEF CountersMatch

\* The same one step later.
LEMMA CountersSayNext ==
  ASSUME CountersMatch'
  PROVE  /\ numActiveReaders' > 0 <=> At("reading")' # {}
         /\ numActiveWriters' > 0 <=> At("writing")' # {}
<1>1. At("reading")' \subseteq Threads /\ At("writing")' \subseteq Threads
  BY DEF At
<1> QED
  BY <1>1, CountThreads DEF CountersMatch

\* Type correctness is part of the core invariant.
LEMMA CoreType == Core => TypeOK
BY CountersSay DEF Core, TypeOK, PolicyType, PCType, FlagType

LEMMA CoreInit == Init => Core
<1> SUFFICES ASSUME Init PROVE Core
  OBVIOUS
<1>1. /\ QueuedReaders = {} /\ QueuedWriters = {}
      /\ At("reading") = {} /\ At("writing") = {}
  BY DEF Init, QueuedReaders, QueuedWriters, At
<1>2. CountersMatch
  BY <1>1, FS_EmptySet DEF Init, CountersMatch
<1> QED
  BY <1>2 DEF Init, Core, PolicyType, Policies, PCType, FlagType, Places, Exclusion

\* A thread that asks and is let in, or whose wait ends with the lock, is the
\* only writer, or meets readers only.
LEMMA CoreStep ==
  ASSUME Core, NEW t \in Threads,
         Enter(t) \/ Resume(t) \/ Unlock(t) \/ Expire(t) \/ SpuriousWake(t),
         UNCHANGED policy
  PROVE  Core'
<1> DEFINE QR == QueuedReaders
           AR == At("reading")
           QW == QueuedWriters
           AW == At("writing")
<1> USE CountersSay DEF Core, PolicyType, Policies, preferWriters
<1>fin. /\ IsFiniteSet(QR) /\ IsFiniteSet(AR)
        /\ IsFiniteSet(QW) /\ IsFiniteSet(AW)
  <2>1. QR \subseteq Threads /\ AR \subseteq Threads
        /\ QW \subseteq Threads /\ AW \subseteq Threads
    BY DEF QueuedReaders, QueuedWriters, At
  <2> QED  BY <2>1, CountThreads
<1>noWriter. numActiveWriters > 0 \/ AW = {}
  BY DEF PCType
<1>noReader. numActiveReaders > 0 \/ AR = {}
  BY DEF PCType
<1>1. CASE ReaderAcquire(t)
  <2>1. QR' = QR /\ AR' = AR \cup {t} /\ QW' = QW /\ AW' = AW /\ t \notin AR
    BY <1>1 DEF ReaderAcquire, QueuedReaders, QueuedWriters, At, PCType
  <2>2. CountersMatch'
    BY <1>1, <2>1, <1>fin, CountAdd DEF ReaderAcquire, CountersMatch
  <2>3. Exclusion'
    BY <1>1, <1>noWriter DEF ReaderAcquire, shouldQueueReader, Exclusion, At, PCType
  <2> QED
    BY <1>1, <2>2, <2>3 DEF ReaderAcquire, PCType, FlagType, Places
<1>2. CASE WriterAcquire(t)
  <2>1. QR' = QR /\ AR' = AR /\ QW' = QW /\ AW' = AW \cup {t} /\ t \notin AW
    BY <1>2 DEF WriterAcquire, QueuedReaders, QueuedWriters, At, PCType
  <2>2. CountersMatch'
    BY <1>2, <2>1, <1>fin, CountAdd DEF WriterAcquire, CountersMatch
  <2>3. Exclusion'
    BY <1>2, <1>noWriter, <1>noReader
    DEF WriterAcquire, shouldQueueWriter, Exclusion, At, PCType
  <2> QED
    BY <1>2, <2>2, <2>3 DEF WriterAcquire, PCType, FlagType, Places
<1>3. ASSUME NEW isTimed \in BOOLEAN, ReaderQueue(t, isTimed)
      PROVE  Core'
  <2>1. QR' = QR \cup {t} /\ AR' = AR /\ QW' = QW /\ AW' = AW /\ t \notin QR
    BY <1>3 DEF ReaderQueue, QueuedReaders, QueuedWriters, At, PCType
  <2>2. CountersMatch'
    BY <1>3, <2>1, <1>fin, CountAdd DEF ReaderQueue, CountersMatch
  <2> QED
    BY <1>3, <2>2 DEF ReaderQueue, PCType, FlagType, Places, Exclusion
<1>4. ASSUME NEW isTimed \in BOOLEAN, WriterQueue(t, isTimed)
      PROVE  Core'
  <2>1. QR' = QR /\ AR' = AR /\ QW' = QW \cup {t} /\ AW' = AW /\ t \notin QW
    BY <1>4 DEF WriterQueue, QueuedReaders, QueuedWriters, At, PCType
  <2>2. CountersMatch'
    BY <1>4, <2>1, <1>fin, CountAdd DEF WriterQueue, CountersMatch
  <2> QED
    BY <1>4, <2>2 DEF WriterQueue, PCType, FlagType, Places, Exclusion
<1>5. CASE ReaderResume(t)
  <2>1. /\ QR' = QR \ {t} /\ AR' = AR \cup {t} /\ QW' = QW /\ AW' = AW
        /\ t \in QR /\ t \notin AR
    BY <1>5 DEF ReaderResume, QueuedReaders, QueuedWriters, At, PCType
  <2>2. CountersMatch'
    BY <1>5, <2>1, <1>fin, CountAdd, CountRemove DEF ReaderResume, CountersMatch
  <2>3. Exclusion'
    BY <1>5, <1>noWriter DEF ReaderResume, shouldQueueReader, Exclusion, At, PCType
  <2> QED
    BY <1>5, <2>2, <2>3 DEF ReaderResume, PCType, FlagType, Places
<1>6. CASE WriterResume(t)
  <2>1. /\ QR' = QR /\ AR' = AR /\ QW' = QW \ {t} /\ AW' = AW \cup {t}
        /\ t \in QW /\ t \notin AW
    BY <1>6 DEF WriterResume, QueuedReaders, QueuedWriters, At, PCType
  <2>2. CountersMatch'
    BY <1>6, <2>1, <1>fin, CountAdd, CountRemove DEF WriterResume, CountersMatch
  <2>3. Exclusion'
    BY <1>6, <1>noWriter, <1>noReader
    DEF WriterResume, shouldQueueWriter, Exclusion, At, PCType
  <2> QED
    BY <1>6, <2>2, <2>3 DEF WriterResume, PCType, FlagType, Places
<1>7. CASE ReaderRequeue(t) \/ WriterRequeue(t) \/ SpuriousWake(t) \/ Expire(t)
  <2>1. QR' = QR /\ AR' = AR /\ QW' = QW /\ AW' = AW
    BY <1>7 DEF ReaderRequeue, WriterRequeue, SpuriousWake, Expire, Wake,
                QueuedReaders, QueuedWriters, At, PCType
  <2>2. CountersMatch'
    BY <1>7, <2>1
    DEF ReaderRequeue, WriterRequeue, SpuriousWake, Expire, CountersMatch, counters
  <2>3. PCType' /\ Exclusion'
    BY <1>7 DEF ReaderRequeue, WriterRequeue, SpuriousWake, Expire, Wake,
                PCType, Places, Exclusion
  <2>4. FlagType'
    BY <1>7 DEF ReaderRequeue, WriterRequeue, SpuriousWake, Expire, FlagType
  <2> QED
    BY <2>2, <2>3, <2>4
<1>8. CASE ReaderGiveUp(t)
  <2>1. QR' = QR \ {t} /\ AR' = AR /\ QW' = QW /\ AW' = AW /\ t \in QR
    BY <1>8 DEF ReaderGiveUp, QueuedReaders, QueuedWriters, At, PCType
  <2>2. CountersMatch'
    BY <1>8, <2>1, <1>fin, CountRemove DEF ReaderGiveUp, CountersMatch
  <2> QED
    BY <1>8, <2>2 DEF ReaderGiveUp, PCType, FlagType, Places, Exclusion
<1>9. CASE WriterGiveUp(t)
  <2>1. QR' = QR /\ AR' = AR /\ QW' = QW \ {t} /\ AW' = AW /\ t \in QW
    BY <1>9 DEF WriterGiveUp, QueuedReaders, QueuedWriters, At, PCType
  <2>2. CountersMatch'
    BY <1>9, <2>1, <1>fin, CountRemove DEF WriterGiveUp, CountersMatch
  <2> QED
    BY <1>9, <2>2 DEF WriterGiveUp, PCType, FlagType, Places, Exclusion
<1>10. CASE ReaderUnlock(t)
  <2> DEFINE left == [pc EXCEPT ![t] = "idle"]
  <2>1. pc' = left \/ Notify("wwait", "wwoken", left)
    BY <1>10 DEF ReaderUnlock
  <2>2. \/ pc' = left
        \/ \E u \in Threads : left[u] = "wwait" /\ pc' = [left EXCEPT ![u] = "wwoken"]
    BY <2>1 DEF Notify
  <2>3. QR' = QR /\ AR' = AR \ {t} /\ QW' = QW /\ AW' = AW /\ t \in AR
    BY <1>10, <2>2 DEF ReaderUnlock, QueuedReaders, QueuedWriters, At, PCType
  <2>4. CountersMatch'
    BY <1>10, <2>3, <1>fin, CountRemove DEF ReaderUnlock, CountersMatch
  <2>5. PCType' /\ Exclusion'
    BY <1>10, <2>2 DEF ReaderUnlock, PCType, Places, Exclusion
  <2> QED
    BY <1>10, <2>4, <2>5 DEF ReaderUnlock, FlagType
<1>11. CASE WriterUnlock(t)
  <2> DEFINE left == [pc EXCEPT ![t] = "idle"]
  <2>1. \/ pc' = left
        \/ Notify("wwait", "wwoken", left)
        \/ NotifyAll("rwait", "rwoken", left)
    BY <1>11 DEF WriterUnlock
  <2>2. \/ pc' = left
        \/ \E u \in Threads : left[u] = "wwait" /\ pc' = [left EXCEPT ![u] = "wwoken"]
        \/ pc' = [u \in Threads |-> IF left[u] = "rwait" THEN "rwoken" ELSE left[u]]
    BY <2>1 DEF Notify, NotifyAll
  <2>3. QR' = QR /\ AR' = AR /\ QW' = QW /\ AW' = AW \ {t} /\ t \in AW
    BY <1>11, <2>2 DEF WriterUnlock, QueuedReaders, QueuedWriters, At, PCType
  <2>4. CountersMatch'
    BY <1>11, <2>3, <1>fin, CountRemove DEF WriterUnlock, CountersMatch
  <2>5. PCType' /\ Exclusion'
    BY <1>11, <2>2 DEF WriterUnlock, PCType, Places, Exclusion
  <2> QED
    BY <1>11, <2>4, <2>5 DEF WriterUnlock, FlagType
<1> QED
  BY <1>1, <1>2, <1>3, <1>4, <1>5, <1>6, <1>7, <1>8, <1>9, <1>10, <1>11
  DEF Enter, Resume, Unlock

Step(t) ==
  /\ Enter(t) \/ Resume(t) \/ Unlock(t) \/ Expire(t) \/ SpuriousWake(t)
  /\ UNCHANGED policy

\* A stuttering step changes none of the classes and none of the counters.
LEMMA CoreNext == Core /\ [Next]_vars => Core'
<1>1. ASSUME Core, NEW t \in Threads, Step(t) PROVE Core'
  BY <1>1, CoreStep DEF Step
<1>2. ASSUME Core, UNCHANGED vars PROVE Core'
  BY <1>2 DEF Core, PolicyType, PCType, FlagType, CountersMatch, Exclusion, At,
              QueuedReaders, QueuedWriters, vars, counters
<1> QED
  BY <1>1, <1>2 DEF Next, Step

\* ReadWriteMutex keeps its four counters equal to the number of threads that
\* wait and that hold the lock, through waits, time-outs and early returns.
THEOREM CountersCorrect == Spec => [](TypeOK /\ CountersMatch)
<1>1. Core => TypeOK /\ CountersMatch
  BY CoreType DEF Core
<1> QED
  BY <1>1, CoreInit, CoreNext, PTL DEF Spec

\* No reader and no second writer is inside while a writer is, for any number
\* of threads and either policy.
THEOREM MutualExclusion == Spec => []Exclusion
<1>1. Core => Exclusion
  BY DEF Core
<1> QED
  BY <1>1, CoreInit, CoreNext, PTL DEF Spec

-----------------------------------------------------------------------------
(* Wake-ups *)

\* What a step may do to the places of the threads: only t moves, except that
\* the threads an unlock alerts leave their wait set.
LEMMA Moves ==
  ASSUME Core, NEW t \in Threads, Unlock(t)
  PROVE  LET left == [pc EXCEPT ![t] = "idle"]
         IN  \/ pc' = left
             \/ \E u \in Threads : left[u] = "wwait" /\ pc' = [left EXCEPT ![u] = "wwoken"]
             \/ pc' = [u \in Threads |-> IF left[u] = "rwait" THEN "rwoken" ELSE left[u]]
<1> DEFINE left == [pc EXCEPT ![t] = "idle"]
<1>1. \/ pc' = left
      \/ Notify("wwait", "wwoken", left)
      \/ NotifyAll("rwait", "rwoken", left)
  BY DEF Unlock, ReaderUnlock, WriterUnlock
<1> QED
  BY <1>1 DEF Notify, NotifyAll

LEMMA TimedInit == Init => TimedOK
BY DEF Init, TimedOK

LEMMA TimedNext == Core /\ TimedOK /\ [Next]_vars => TimedOK'
<1> SUFFICES ASSUME Core, TimedOK, [Next]_vars PROVE TimedOK'
  OBVIOUS
<1> USE DEF Core, PCType, FlagType, TimedOK, QueuedReaders, QueuedWriters, At
<1>1. ASSUME NEW t \in Threads, Enter(t) PROVE TimedOK'
  BY <1>1 DEF Enter, ReaderAcquire, WriterAcquire, ReaderQueue, WriterQueue
<1>2. ASSUME NEW t \in Threads, Resume(t) PROVE TimedOK'
  BY <1>2 DEF Resume, ReaderResume, ReaderRequeue, ReaderGiveUp,
              WriterResume, WriterRequeue, WriterGiveUp
<1>3. ASSUME NEW t \in Threads, Unlock(t) PROVE TimedOK'
  <2>1. UNCHANGED <<timed, expired>> /\ pc[t] \in {"reading", "writing"}
    BY <1>3 DEF Unlock, ReaderUnlock, WriterUnlock
  <2> QED
    BY <1>3, <2>1, Moves
<1>4. ASSUME NEW t \in Threads, Expire(t) \/ SpuriousWake(t) PROVE TimedOK'
  BY <1>4 DEF Expire, SpuriousWake, Wake
<1>5. CASE UNCHANGED vars
  BY <1>5 DEF vars
<1> QED
  BY <1>1, <1>2, <1>3, <1>4, <1>5 DEF Next

\* The wake-up invariants in terms of places instead of counters.
Somebody(p) == \E u \in Threads : pc[u] = p

ReadersWatched ==
  Somebody("rwait") => Somebody("writing") \/ (preferWriters /\ QueuedWriters # {})

WritersWatched ==
  Somebody("wwait") =>
    \/ Somebody("writing") \/ Somebody("reading") \/ Somebody("wwoken")
    \/ ~preferWriters /\ Somebody("rwoken")

\* The two forms say the same once the counters are right.
LEMMA Watched ==
  Core => (NoStrandedReader <=> ReadersWatched) /\ (NoStrandedWriter <=> WritersWatched)
BY CountersSay DEF Core, NoStrandedReader, NoStrandedWriter,
   ReadersWatched, WritersWatched, Somebody, At

\* Either no writer ever gives up, or readers do not yield to queued writers.
NobodyDeserts == preferWriters => TimedWriters = {}

Wakeups == (NobodyDeserts => ReadersWatched) /\ WritersWatched

LEMMA WakeupsInit == Init => Wakeups
BY DEF Init, Wakeups, ReadersWatched, WritersWatched, Somebody

\* The counters' tests in a section, in terms of places.
LEMMA Tests ==
  ASSUME Core
  PROVE  /\ shouldQueueReader <=>
              Somebody("writing") \/ (preferWriters /\ QueuedWriters # {})
         /\ shouldQueueWriter <=>
              \/ Somebody("writing") \/ Somebody("reading")
              \/ ~preferWriters /\ QueuedReaders # {}
BY CountersSay DEF Core, shouldQueueReader, shouldQueueWriter, Somebody, At

LEMMA WakeupsStep ==
  ASSUME Core, TimedOK, Wakeups, NEW t \in Threads, Step(t)
  PROVE  Wakeups'
<1>policy. policy' = policy
  BY DEF Step
<1> USE Tests, <1>policy
    DEF Core, PolicyType, Policies, preferWriters, PCType, Wakeups, NobodyDeserts,
        ReadersWatched, WritersWatched, Somebody, QueuedReaders, QueuedWriters, At
<1>1. CASE Enter(t)
  <2>1. CASE ReaderAcquire(t) \/ WriterAcquire(t)
    BY <2>1 DEF ReaderAcquire, WriterAcquire
  <2>2. ASSUME NEW isTimed \in BOOLEAN, ReaderQueue(t, isTimed) PROVE Wakeups'
    BY <2>2 DEF ReaderQueue
  <2>3. ASSUME NEW isTimed \in BOOLEAN, WriterQueue(t, isTimed) PROVE Wakeups'
    BY <2>3 DEF WriterQueue
  <2> QED
    BY <1>1, <2>1, <2>2, <2>3 DEF Enter
<1>2. CASE ReaderResume(t) \/ ReaderRequeue(t) \/ ReaderGiveUp(t)
  BY <1>2 DEF ReaderResume, ReaderRequeue, ReaderGiveUp
<1>3. CASE WriterResume(t) \/ WriterRequeue(t)
  BY <1>3 DEF WriterResume, WriterRequeue
<1>4. CASE WriterGiveUp(t)
  <2>1. t \in TimedWriters
    BY <1>4 DEF WriterGiveUp, TimedOK
  <2>2. NobodyDeserts => ~preferWriters
    BY <2>1
  <2>3. (NobodyDeserts => ReadersWatched)'
    BY <1>4, <2>2 DEF WriterGiveUp
  <2>4. WritersWatched'
    BY <1>4 DEF WriterGiveUp
  <2> QED
    BY <2>3, <2>4
<1>5. CASE ReaderUnlock(t)
  <2> DEFINE left == [pc EXCEPT ![t] = "idle"]
  <2>1. \/ pc' = left
        \/ \E u \in Threads : left[u] = "wwait" /\ pc' = [left EXCEPT ![u] = "wwoken"]
    BY <1>5 DEF ReaderUnlock, Notify
  <2>2. (NobodyDeserts => ReadersWatched)'
    BY <1>5, <2>1 DEF ReaderUnlock
  <2>3. CASE pc' = left /\ Somebody("wwait")
    <3>1. PICK u \in Threads : pc[u] = "wwait"
      BY <2>3
    <3>2. left[u] = "wwait" /\ u \in QueuedWriters
      BY <1>5, <3>1 DEF ReaderUnlock
    <3>3. \A v \in Threads : left[v] = "wwait" => pc' # [left EXCEPT ![v] = "wwoken"]
      BY <2>3
    <3>4. ~Notify("wwait", "wwoken", left)
      BY <3>2, <3>3 DEF Notify
    <3>5. numQueuedWriters > 0
      BY <3>2, CountersSay
    <3>6. ~(numActiveReaders' < 1)
      BY <1>5, <3>4, <3>5 DEF ReaderUnlock
    <3>7. numActiveReaders' > 0
      BY <1>5, <3>6, CountersSay DEF ReaderUnlock
    <3>8. Core'
      BY <1>5, CoreStep DEF Unlock
    <3>9. Somebody("reading")'
      BY <3>7, <3>8, CountersSayNext
    <3> QED
      BY <2>2, <3>9
  <2>4. CASE ~Somebody("wwait") \/ pc' # left
    BY <1>5, <2>1, <2>2, <2>4 DEF ReaderUnlock
  <2> QED
    BY <2>3, <2>4
<1>6. CASE WriterUnlock(t)
  <2> DEFINE left == [pc EXCEPT ![t] = "idle"]
  <2>1. numActiveWriters' < 1
    <3>1. \A u \in Threads : pc[u] = "writing" => u = t
      BY <1>6 DEF WriterUnlock, Exclusion
    <3>2. \A u \in Threads : pc'[u] # "writing"
      BY <1>6, <3>1, Moves DEF WriterUnlock, Unlock
    <3>3. Core'
      BY <1>6, CoreStep DEF Unlock
    <3> QED
      BY <1>6, <3>2, <3>3, CountersSay, CountersSayNext DEF WriterUnlock
  <2>2. \A u \in Threads : pc[u] # "reading"
    BY <1>6 DEF WriterUnlock, Exclusion
  <2>3. CASE numQueuedWriters > 0 /\ (preferWriters \/ ~(numQueuedReaders > 0))
    <3>1. Notify("wwait", "wwoken", left)
      BY <1>6, <2>1, <2>3 DEF WriterUnlock
    <3>2. CASE pc' = left /\ ~Somebody("wwait")
      BY <1>6, <2>3, <3>2, CountersSay DEF WriterUnlock
    <3>3. ASSUME NEW u \in Threads, left[u] = "wwait", pc' = [left EXCEPT ![u] = "wwoken"]
          PROVE  Wakeups'
      BY <1>6, <2>3, <3>3, CountersSay DEF WriterUnlock
    <3>4. \A u \in Threads : pc[u] = "wwait" => left[u] = "wwait"
      BY <1>6 DEF WriterUnlock
    <3> QED
      BY <3>1, <3>2, <3>3, <3>4 DEF Notify
  <2>4. CASE /\ ~(numQueuedWriters > 0 /\ (preferWriters \/ ~(numQueuedReaders > 0)))
             /\ numQueuedReaders > 0 /\ (~preferWriters \/ ~(numQueuedWriters > 0))
    <3>1. NotifyAll("rwait", "rwoken", left)
      BY <1>6, <2>1, <2>4 DEF WriterUnlock
    <3>2. \A u \in Threads : pc'[u] = IF left[u] = "rwait" THEN "rwoken" ELSE left[u]
      BY <3>1 DEF NotifyAll
    <3>3. ~Somebody("rwait")'
      BY <1>6, <3>2 DEF WriterUnlock
    <3>4. Somebody("rwoken")'
      BY <1>6, <2>4, <3>2, CountersSay DEF WriterUnlock
    <3>5. Somebody("wwait")' => ~preferWriters
      BY <1>6, <2>4, <3>2, CountersSay DEF WriterUnlock
    <3> QED
      BY <3>3, <3>4, <3>5
  <2>5. CASE ~(numQueuedWriters > 0) /\ ~(numQueuedReaders > 0)
    <3>1. pc' = left
      BY <1>6, <2>5 DEF WriterUnlock
    <3> QED
      BY <1>6, <2>5, <3>1, CountersSay DEF WriterUnlock
  <2> QED
    BY <2>3, <2>4, <2>5
<1>7. CASE Expire(t) \/ SpuriousWake(t)
  BY <1>7 DEF Expire, SpuriousWake, Wake
<1> QED
  BY <1>1, <1>2, <1>3, <1>4, <1>5, <1>6, <1>7 DEF Step, Resume, Unlock

LEMMA WakeupsNext == Core /\ TimedOK /\ Wakeups /\ [Next]_vars => Wakeups'
<1>1. ASSUME Core, TimedOK, Wakeups, NEW t \in Threads, Step(t) PROVE Wakeups'
  BY <1>1, WakeupsStep
<1>2. ASSUME Wakeups, UNCHANGED vars PROVE Wakeups'
  BY <1>2 DEF Wakeups, ReadersWatched, WritersWatched, NobodyDeserts, preferWriters, Somebody,
              QueuedWriters, At, vars
<1> QED
  BY <1>1, <1>2 DEF Next, Step

\* A sleeping writer can count on somebody who will alert a writer, although
\* unlock() wakes only one and that one may be overtaken or give up.
THEOREM WritersNotStranded == Spec => []NoStrandedWriter
<1>1. Core /\ Wakeups => NoStrandedWriter
  BY Watched DEF Wakeups
<1> QED
  BY <1>1, CoreInit, CoreNext, TimedInit, TimedNext, WakeupsInit, WakeupsNext, PTL
  DEF Spec

\* A sleeping reader can count on a writer that will alert it, provided that
\* no writer uses tryLock(Duration) under PREFER_WRITERS.
THEOREM ReadersNotStranded == Spec => [](NobodyDeserts => NoStrandedReader)
<1>1. Core /\ Wakeups => (NobodyDeserts => NoStrandedReader)
  BY Watched DEF Wakeups
<1> QED
  BY <1>1, CoreInit, CoreNext, TimedInit, TimedNext, WakeupsInit, WakeupsNext, PTL
  DEF Spec

-----------------------------------------------------------------------------
(* Refinement *)

\* What each place means to the clients.
LEMMA PhaseOf ==
  ASSUME PCType
  PROVE  /\ phase \in [Threads -> Abstract!Phases]
         /\ \A t \in Threads :
              /\ phase[t] = "wantRead" <=> t \in QueuedReaders
              /\ phase[t] = "wantWrite" <=> t \in QueuedWriters
              /\ phase[t] = "read" <=> pc[t] = "reading"
              /\ phase[t] = "write" <=> pc[t] = "writing"
              /\ phase[t] = "idle" <=> pc[t] = "idle"
BY DEF PCType, Places, phase, Phase, QueuedReaders, QueuedWriters, At, Abstract!Phases

LEMMA PhaseOfNext ==
  ASSUME PCType'
  PROVE  /\ phase' \in [Threads -> Abstract!Phases]
         /\ \A t \in Threads :
              /\ phase'[t] = "wantRead" <=> pc'[t] \in {"rwait", "rwoken"}
              /\ phase'[t] = "wantWrite" <=> pc'[t] \in {"wwait", "wwoken"}
              /\ phase'[t] = "read" <=> pc'[t] = "reading"
              /\ phase'[t] = "write" <=> pc'[t] = "writing"
              /\ phase'[t] = "idle" <=> pc'[t] = "idle"
BY DEF PCType, Places, phase, Phase, Abstract!Phases

\* When one thread moves, its phase is the only one that changes.
LEMMA PhaseMoves ==
  ASSUME PCType, NEW t \in Threads, NEW p, pc' = [pc EXCEPT ![t] = p]
  PROVE  phase' = [phase EXCEPT ![t] = Phase(p)]
BY DEF phase, PCType

\* Every step grants, releases or asks as RWLock allows, or is invisible.
LEMMA StepSimulates ==
  ASSUME Core, NEW t \in Threads, Step(t)
  PROVE  [Abstract!Next]_<<policy, phase>>
<1> USE Tests, PhaseOf, PhaseOfNext
    DEF Core, PolicyType, Policies, preferWriters, Somebody, QueuedReaders, QueuedWriters, At
<1>0. PCType'
  BY CoreStep DEF Step
<1> SUFFICES phase' = phase \/ \E u \in Threads :
      Abstract!Ask(u) \/ Abstract!GrantRead(u) \/ Abstract!GrantWrite(u) \/ Abstract!Release(u)
  BY DEF Step, Abstract!Next
<1>1. CASE ReaderAcquire(t) \/ ReaderResume(t)
  <2>1. phase' = [phase EXCEPT ![t] = "read"]
    <3>1. PCType /\ \E p \in {"reading"} : pc' = [pc EXCEPT ![t] = p]
      BY <1>1 DEF ReaderAcquire, ReaderResume
    <3>2. phase' = [phase EXCEPT ![t] = Phase("reading")]
      BY ONLY <3>1, PhaseMoves, t \in Threads
    <3> QED
      BY ONLY <3>2 DEF Phase
  <2>2. Abstract!GrantRead(t)
    BY <1>0, <1>1, <2>1 DEF ReaderAcquire, ReaderResume, Abstract!GrantRead, Abstract!In, Abstract!Set
  <2> QED  BY <2>2
<1>2. CASE WriterAcquire(t) \/ WriterResume(t)
  <2>1. phase' = [phase EXCEPT ![t] = "write"]
    <3>1. PCType /\ \E p \in {"writing"} : pc' = [pc EXCEPT ![t] = p]
      BY <1>2 DEF WriterAcquire, WriterResume
    <3>2. phase' = [phase EXCEPT ![t] = Phase("writing")]
      BY ONLY <3>1, PhaseMoves, t \in Threads
    <3> QED
      BY ONLY <3>2 DEF Phase
  <2>2. Abstract!GrantWrite(t)
    BY <1>0, <1>2, <2>1 DEF WriterAcquire, WriterResume, Abstract!GrantWrite, Abstract!In, Abstract!Set
  <2> QED  BY <2>2
<1>3. ASSUME NEW b \in BOOLEAN, ReaderQueue(t, b) \/ WriterQueue(t, b)
      PROVE  Abstract!Ask(t)
  <2>1. \E p \in {"rwait", "wwait"} : phase' = [phase EXCEPT ![t] = Phase(p)]
    BY <1>3, PhaseMoves DEF ReaderQueue, WriterQueue
  <2>2. \E p \in {"wantRead", "wantWrite"} : phase' = [phase EXCEPT ![t] = p]
    BY <2>1 DEF Phase
  <2> QED
    BY <1>0, <1>3, <2>2 DEF ReaderQueue, WriterQueue, Abstract!Ask, Abstract!Set
<1>4. CASE ReaderGiveUp(t) \/ WriterGiveUp(t)
  <2>1. phase' = [phase EXCEPT ![t] = "idle"]
    BY <1>4, PhaseMoves DEF ReaderGiveUp, WriterGiveUp, Phase
  <2>2. Abstract!Ask(t)
    BY <1>0, <1>4, <2>1 DEF ReaderGiveUp, WriterGiveUp, Abstract!Ask, Abstract!Set
  <2> QED  BY <2>2
<1>5. CASE Unlock(t)
  <2>1. phase' = [phase EXCEPT ![t] = "idle"]
    <3>0. pc[t] \in {"reading", "writing"}
      BY <1>5 DEF Unlock, ReaderUnlock, WriterUnlock
    <3>1. pc'[t] = "idle"
      BY <1>5, <3>0, Moves DEF PCType
    <3>2. \A u \in Threads \ {t} :
             \/ pc'[u] = pc[u]
             \/ pc[u] = "wwait" /\ pc'[u] = "wwoken"
             \/ pc[u] = "rwait" /\ pc'[u] = "rwoken"
      BY <1>5, Moves DEF PCType
    <3>3. \A u \in Threads \ {t} : Phase(pc'[u]) = Phase(pc[u])
      BY ONLY <3>2 DEF Phase
    <3>4. Phase(pc'[t]) = "idle"
      BY ONLY <3>1 DEF Phase
    <3> QED
      BY ONLY <3>3, <3>4 DEF phase
  <2>2. Abstract!Release(t)
    BY <1>0, <1>5, <2>1 DEF Unlock, ReaderUnlock, WriterUnlock, Abstract!Release, Abstract!Set
  <2> QED  BY <2>2
<1>6. CASE ReaderRequeue(t) \/ WriterRequeue(t) \/ Expire(t) \/ SpuriousWake(t)
  BY <1>0, <1>6 DEF ReaderRequeue, WriterRequeue, Expire, SpuriousWake, Wake, phase, Phase, PCType
<1> QED
  BY <1>1, <1>2, <1>3, <1>4, <1>5, <1>6 DEF Step, Enter, Resume

\* ReadWriteMutex implements RWLock: every lock it grants is compatible with
\* those held and respects the precedence of its policy.
THEOREM Refinement == Spec => ImplementsRWLock
<1>1. Init => Abstract!Init
  BY DEF Init, Policies, Abstract!Init, phase, Phase
<1>2. Core /\ [Next]_vars => [Abstract!Next]_<<policy, phase>>
  <2>1. ASSUME UNCHANGED vars PROVE <<policy, phase>>' = <<policy, phase>>
    BY <2>1 DEF vars, phase
  <2> QED
    BY <2>1, StepSimulates DEF Next, Step
<1> QED
  BY <1>1, <1>2, CoreInit, CoreNext, PTL DEF Spec, ImplementsRWLock, Abstract!Spec

-----------------------------------------------------------------------------
(* Barrier, for any limit and number of groups: it releases threads in     *)
(* groups of the limit, and leaves none of them asleep.                    *)

\* A thread in wait() entered it during this group or an earlier one.
GroupsPast == \A t \in Parties : at[t] # "out" => group[t] <= m_group

\* m_count is what the group lacks.
CountMatches == m_count = Limit - Cardinality(Clients!Held)

Inductive == BarrierTypeOK /\ GroupsPast /\ CountMatches /\ ReleasedAwake

LEMMA HeldFinite ==
  IsFiniteSet(Clients!Held) /\ Cardinality(Clients!Held) \in Nat
<1>1. Clients!Held \subseteq Parties  BY DEF Clients!Held
<1>2. IsFiniteSet(Clients!Held)  BY <1>1, BarrierParties, FS_Subset
<1> QED  BY <1>2, FS_CardinalityType

LEMMA InitInductive == BarrierInit => Inductive
<1> SUFFICES ASSUME BarrierInit PROVE Inductive
  OBVIOUS
<1>1. Clients!Held = {}
  BY DEF BarrierInit, Clients!Held, place
<1>2. CountMatches
  BY <1>1, FS_EmptySet, BarrierLimit DEF CountMatches, BarrierInit
<1> QED
  BY <1>2, BarrierLimit DEF Inductive, BarrierTypeOK, GroupsPast, ReleasedAwake, BarrierInit

\* What each step of the code is to the clients, and what it does to the
\* threads that are held.

LEMMA WaitGathers ==
  ASSUME Inductive, NEW t \in Parties, Wait(t)
  PROVE  /\ Clients!Gather(t)
         /\ t \notin Clients!Held
         /\ Clients!Held' = Clients!Held \cup {t}
<1>1. place[t] = "out"  BY DEF Wait, place
<1>2. place' = [place EXCEPT ![t] = "held"]
  BY DEF Wait, place, Inductive, BarrierTypeOK
<1>3. Cardinality(Clients!Held) < Limit - 1
  BY HeldFinite, BarrierLimit DEF Wait, Inductive, CountMatches, BarrierTypeOK
<1>4. t \notin Clients!Held /\ Clients!Held' = Clients!Held \cup {t}
  BY <1>1, <1>2 DEF Clients!Held, place
<1> QED  BY <1>1, <1>2, <1>3, <1>4 DEF Clients!Gather, Clients!Cardinality, Cardinality

LEMMA LastCompletes ==
  ASSUME Inductive, NEW t \in Parties, Last(t)
  PROVE  Clients!Complete(t) /\ Clients!Held' = {}
<1>1. place[t] = "out"  BY DEF Last, place
<1>2. Cardinality(Clients!Held) = Limit - 1
  BY HeldFinite, BarrierLimit DEF Last, Inductive, CountMatches, BarrierTypeOK
<1>3. ASSUME NEW u \in Parties
      PROVE  /\ place'[u] = IF u \in Clients!Held THEN "released" ELSE place[u]
             /\ place'[u] # "held"
  <2>1. CASE at[u] = "out"
    BY <2>1 DEF Last, Broadcast, place, Clients!Held, Inductive, BarrierTypeOK
  <2>2. CASE at[u] # "out"
    <3>1. at'[u] # "out"  BY <2>2 DEF Last, Broadcast
    <3>2. group'[u] # m_group'
      BY <2>2 DEF Last, Inductive, GroupsPast, BarrierTypeOK
    <3> QED  BY <2>2, <3>1, <3>2 DEF place, Clients!Held
  <2> QED  BY <2>1, <2>2
<1>4. place' = [u \in Parties |-> IF u \in Clients!Held THEN "released" ELSE place[u]]
  BY <1>3 DEF place
<1>5. Clients!Held' = {}  BY <1>3 DEF Clients!Held
<1> QED  BY <1>1, <1>2, <1>4, <1>5 DEF Clients!Complete, Clients!Cardinality, Cardinality

LEMMA ResumeLeaves ==
  ASSUME Inductive, NEW t \in Parties, WaitReturns(t)
  PROVE  /\ Clients!Leave(t) \/ UNCHANGED place
         /\ Clients!Held' = Clients!Held
<1>1. CASE group[t] = m_group
  <2>1. place' = place  BY <1>1 DEF WaitReturns, place, Inductive, BarrierTypeOK
  <2> QED  BY <2>1 DEF Clients!Held
<1>2. CASE group[t] # m_group
  <2>1. place[t] = "released"  BY <1>2 DEF WaitReturns, place
  <2>2. place' = [place EXCEPT ![t] = "out"]
    BY <1>2 DEF WaitReturns, place, Inductive, BarrierTypeOK
  <2>3. Clients!Held' = Clients!Held  BY <2>1, <2>2 DEF Clients!Held, place
  <2> QED  BY <2>1, <2>2, <2>3 DEF Clients!Leave
<1> QED  BY <1>1, <1>2

LEMMA WakeUnseen ==
  ASSUME Inductive, NEW t \in Parties, WakeUnnotified(t)
  PROVE  UNCHANGED place /\ Clients!Held' = Clients!Held
<1>1. place' = place  BY DEF WakeUnnotified, place, Inductive, BarrierTypeOK
<1> QED  BY <1>1 DEF Clients!Held

LEMMA NextInductive ==
  ASSUME Inductive, [BarrierNext]_bvars
  PROVE  Inductive'
<1>1. ASSUME NEW t \in Parties, Wait(t) PROVE Inductive'
  <2>1. BarrierTypeOK' /\ GroupsPast' /\ ReleasedAwake'
    BY <1>1, BarrierLimit
    DEF Wait, Inductive, BarrierTypeOK, GroupsPast, ReleasedAwake
  <2>2. Cardinality(Clients!Held') = Cardinality(Clients!Held) + 1
    BY <1>1, WaitGathers, HeldFinite, FS_AddElement
  <2>3. CountMatches'
    BY <1>1, <2>2, HeldFinite, BarrierLimit
    DEF Wait, Inductive, BarrierTypeOK, CountMatches
  <2> QED  BY <2>1, <2>3 DEF Inductive
<1>2. ASSUME NEW t \in Parties, Last(t) PROVE Inductive'
  <2>1. BarrierTypeOK' /\ GroupsPast' /\ ReleasedAwake'
    BY <1>2, BarrierLimit
    DEF Last, Broadcast, Inductive, BarrierTypeOK, GroupsPast, ReleasedAwake
  <2>2. Cardinality(Clients!Held') = 0
    BY <1>2, LastCompletes, FS_EmptySet
  <2>3. CountMatches'
    BY <1>2, <2>2, BarrierLimit DEF Last, CountMatches
  <2> QED  BY <2>1, <2>3 DEF Inductive
<1>3. ASSUME NEW t \in Parties, WaitReturns(t) PROVE Inductive'
  <2>1. BarrierTypeOK' /\ GroupsPast' /\ ReleasedAwake'
    BY <1>3 DEF WaitReturns, Inductive, BarrierTypeOK, GroupsPast, ReleasedAwake
  <2>2. CountMatches'
    BY <1>3, ResumeLeaves DEF WaitReturns, Inductive, CountMatches
  <2> QED  BY <2>1, <2>2 DEF Inductive
<1>4. ASSUME NEW t \in Parties, WakeUnnotified(t) PROVE Inductive'
  <2>1. BarrierTypeOK' /\ GroupsPast' /\ ReleasedAwake'
    BY <1>4 DEF WakeUnnotified, Inductive, BarrierTypeOK, GroupsPast, ReleasedAwake
  <2>2. CountMatches'
    BY <1>4, WakeUnseen DEF WakeUnnotified, Inductive, CountMatches
  <2> QED  BY <2>1, <2>2 DEF Inductive
<1>5. ASSUME UNCHANGED bvars PROVE Inductive'
  <2>1. Clients!Held' = Clients!Held  BY <1>5 DEF bvars, Clients!Held, place
  <2> QED
    BY <1>5, <2>1
    DEF bvars, Inductive, BarrierTypeOK, GroupsPast, ReleasedAwake, CountMatches
<1> QED  BY <1>1, <1>2, <1>3, <1>4, <1>5 DEF BarrierNext

LEMMA AlwaysInductive == BarrierSpec => []Inductive
<1> QED  BY InitInductive, NextInductive, PTL DEF BarrierSpec

\* Whoever was released left the wait set of m_cond: notifyAll reached all of
\* the group, and nobody fell asleep again, for any number of threads.
THEOREM ReleasedAreAwake == BarrierSpec => []ReleasedAwake
<1>1. Inductive => ReleasedAwake  BY DEF Inductive
<1> QED  BY <1>1, AlwaysInductive, PTL

\* wait() releases threads in groups of m_limit, whatever the order in which
\* those of one group leave and those of the next arrive.
THEOREM BarrierIsRendezvous == BarrierSpec => ImplementsRendezvous
<1>1. BarrierInit => Clients!Init
  BY DEF BarrierInit, Clients!Init, place
<1>2. ASSUME Inductive, [BarrierNext]_bvars PROVE [Clients!Next]_place
  <2>1. ASSUME NEW t \in Parties, Wait(t) PROVE Clients!Next
    BY <1>2, <2>1, WaitGathers DEF Clients!Next
  <2>2. ASSUME NEW t \in Parties, Last(t) PROVE Clients!Next
    BY <1>2, <2>2, LastCompletes DEF Clients!Next
  <2>3. ASSUME NEW t \in Parties, WaitReturns(t) PROVE [Clients!Next]_place
    BY <1>2, <2>3, ResumeLeaves DEF Clients!Next
  <2>4. ASSUME NEW t \in Parties, WakeUnnotified(t) PROVE UNCHANGED place
    BY <1>2, <2>4, WakeUnseen
  <2>5. ASSUME UNCHANGED bvars PROVE UNCHANGED place
    BY <2>5 DEF bvars, place
  <2> QED  BY <1>2, <2>1, <2>2, <2>3, <2>4, <2>5 DEF BarrierNext
<1> QED  BY <1>1, <1>2, AlwaysInductive, PTL DEF BarrierSpec, ImplementsRendezvous, Clients!Spec
=============================================================================
