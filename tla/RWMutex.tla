------------------------------ MODULE RWMutex ------------------------------
(***************************************************************************)
(* core.sync.rwmutex.ReadWriteMutex (druntime/src/core/sync/rwmutex.d).    *)
(*                                                                         *)
(* Every method body is one synchronized(m_commonMutex) section, left only *)
(* by returning or by waiting on m_readerQueue or m_writerQueue.  A step   *)
(* of the model is therefore one stretch of code under m_commonMutex: from *)
(* the entry of the method, or from the return of a wait, to the next wait *)
(* or to the return.  Calls that return false without having waited leave  *)
(* the state unchanged and are stuttering steps.                           *)
(*                                                                         *)
(* Clients follow the class's contract: the mutex is not recursive, and a  *)
(* thread unlocks only what it has locked.                                 *)
(***************************************************************************)
EXTENDS Integers, FiniteSets

CONSTANTS
  Threads,         \* the threads that use the mutex
  TimedWriters     \* the threads that may call Writer.tryLock(Duration)

ASSUME ThreadsAssumption == IsFiniteSet(Threads)
ASSUME TimedAssumption == TimedWriters \subseteq Threads

VARIABLES
  policy,             \* m_policy, never changed
  pc,                 \* where each thread is, see Places
  timed,              \* timed[t]: t is inside a tryLock(Duration) that waits
  expired,            \* expired[t]: the Duration of that call is over
  numQueuedReaders,   \* m_numQueuedReaders
  numActiveReaders,   \* m_numActiveReaders
  numQueuedWriters,   \* m_numQueuedWriters
  numActiveWriters    \* m_numActiveWriters

counters == <<numQueuedReaders, numActiveReaders,
              numQueuedWriters, numActiveWriters>>
vars == <<policy, pc, timed, expired, counters>>

\* "rwait" and "wwait" are the wait sets of m_readerQueue and m_writerQueue;
\* a thread that left one of them but does not own m_commonMutex yet is
\* "rwoken" or "wwoken".
Places == {"idle", "rwait", "rwoken", "reading", "wwait", "wwoken", "writing"}

Policies == {"PREFER_READERS", "PREFER_WRITERS"}
preferWriters == policy = "PREFER_WRITERS"

At(p) == {t \in Threads : pc[t] = p}

QueuedReaders == At("rwait") \cup At("rwoken")
QueuedWriters == At("wwait") \cup At("wwoken")

-----------------------------------------------------------------------------
(* The guards of the wait loops *)

\* Fault: the policy is ignored and readers never yield to queued writers.
shouldQueueReader_AnyPolicy == numActiveWriters > 0

shouldQueueReader ==
  numActiveWriters > 0 \/ (preferWriters /\ numQueuedWriters > 0)

\* Fault: a writer looks at the other writers only.
shouldQueueWriter_WritersOnly == numActiveWriters > 0

\* Fault: writers never yield to queued readers.
shouldQueueWriter_AnyPolicy == numActiveWriters > 0 \/ numActiveReaders > 0

shouldQueueWriter ==
  \/ numActiveWriters > 0 \/ numActiveReaders > 0
  \/ ~preferWriters /\ numQueuedReaders > 0

(* Condition variables (external): a notification takes one thread, if     *)
(* there is one, or all threads out of the wait set.                       *)

Notify(from, to, f) ==
  IF \E t \in Threads : f[t] = from
    THEN \E t \in Threads : f[t] = from /\ pc' = [f EXCEPT ![t] = to]
    ELSE pc' = f

NotifyAll(from, to, f) ==
  pc' = [t \in Threads |-> IF f[t] = from THEN to ELSE f[t]]

Init ==
  /\ policy \in Policies
  /\ pc = [t \in Threads |-> "idle"]
  /\ timed = [t \in Threads |-> FALSE]
  /\ expired = [t \in Threads |-> FALSE]
  /\ numQueuedReaders = 0
  /\ numActiveReaders = 0
  /\ numQueuedWriters = 0
  /\ numActiveWriters = 0

-----------------------------------------------------------------------------
(* Reader *)

\* lock() and both tryLock(): the lock is free for readers.
ReaderAcquire(t) ==
  /\ pc[t] = "idle"
  /\ ~shouldQueueReader
  /\ pc' = [pc EXCEPT ![t] = "reading"]
  /\ numActiveReaders' = numActiveReaders + 1
  /\ UNCHANGED <<timed, expired, numQueuedReaders,
                 numQueuedWriters, numActiveWriters>>

\* lock() and tryLock(Duration) up to their first wait.
ReaderQueue(t, isTimed) ==
  /\ pc[t] = "idle"
  /\ shouldQueueReader
  /\ pc' = [pc EXCEPT ![t] = "rwait"]
  /\ timed' = [timed EXCEPT ![t] = isTimed]
  /\ numQueuedReaders' = numQueuedReaders + 1
  /\ UNCHANGED <<expired, numActiveReaders,
                 numQueuedWriters, numActiveWriters>>

\* The wait returned and the loop condition is false: the lock is taken,
\* whether or not the time is over.
ReaderResume(t) ==
  /\ pc[t] = "rwoken"
  /\ ~shouldQueueReader
  /\ pc' = [pc EXCEPT ![t] = "reading"]
  /\ timed' = [timed EXCEPT ![t] = FALSE]
  /\ expired' = [expired EXCEPT ![t] = FALSE]
  /\ numActiveReaders' = numActiveReaders + 1
  /\ numQueuedReaders' = numQueuedReaders - 1
  /\ UNCHANGED <<numQueuedWriters, numActiveWriters>>

\* The wait returned, the loop condition holds and there is time left.
ReaderRequeue(t) ==
  /\ pc[t] = "rwoken"
  /\ shouldQueueReader
  /\ ~expired[t]
  /\ pc' = [pc EXCEPT ![t] = "rwait"]
  /\ UNCHANGED <<timed, expired, counters>>

\* Fault: the early return misses the scope(exit).
ReaderGiveUp_StillCounted(t) ==
  /\ pc[t] = "rwoken" /\ shouldQueueReader /\ expired[t]
  /\ pc' = [pc EXCEPT ![t] = "idle"]
  /\ timed' = [timed EXCEPT ![t] = FALSE]
  /\ expired' = [expired EXCEPT ![t] = FALSE]
  /\ UNCHANGED counters

\* tryLock(Duration) gives up: scope(exit) takes it out of the queue count.
ReaderGiveUp(t) ==
  /\ pc[t] = "rwoken"
  /\ shouldQueueReader
  /\ expired[t]
  /\ pc' = [pc EXCEPT ![t] = "idle"]
  /\ timed' = [timed EXCEPT ![t] = FALSE]
  /\ expired' = [expired EXCEPT ![t] = FALSE]
  /\ numQueuedReaders' = numQueuedReaders - 1
  /\ UNCHANGED <<numActiveReaders, numQueuedWriters, numActiveWriters>>

\* Fault: the last reader leaves without alerting anybody.
ReaderUnlock_NoAlert(t) ==
  /\ pc[t] = "reading"
  /\ numActiveReaders' = numActiveReaders - 1
  /\ pc' = [pc EXCEPT ![t] = "idle"]
  /\ UNCHANGED <<timed, expired, numQueuedReaders,
                 numQueuedWriters, numActiveWriters>>

\* The last reader to leave alerts one queued writer.
ReaderUnlock(t) ==
  /\ pc[t] = "reading"
  /\ numActiveReaders' = numActiveReaders - 1
  /\ LET left == [pc EXCEPT ![t] = "idle"]
     IN  IF numActiveReaders' < 1 /\ numQueuedWriters > 0
           THEN Notify("wwait", "wwoken", left)
           ELSE pc' = left
  /\ UNCHANGED <<timed, expired, numQueuedReaders,
                 numQueuedWriters, numActiveWriters>>

-----------------------------------------------------------------------------
(* Writer *)

\* lock() increments and decrements m_numQueuedWriters around the acquisition
\* in the same section; tryLock() does not touch it.
WriterAcquire(t) ==
  /\ pc[t] = "idle"
  /\ ~shouldQueueWriter
  /\ pc' = [pc EXCEPT ![t] = "writing"]
  /\ numActiveWriters' = numActiveWriters + 1
  /\ UNCHANGED <<timed, expired, numQueuedReaders,
                 numActiveReaders, numQueuedWriters>>

WriterQueue(t, isTimed) ==
  /\ pc[t] = "idle"
  /\ isTimed => t \in TimedWriters
  /\ shouldQueueWriter
  /\ pc' = [pc EXCEPT ![t] = "wwait"]
  /\ timed' = [timed EXCEPT ![t] = isTimed]
  /\ numQueuedWriters' = numQueuedWriters + 1
  /\ UNCHANGED <<expired, numQueuedReaders,
                 numActiveReaders, numActiveWriters>>

WriterResume(t) ==
  /\ pc[t] = "wwoken"
  /\ ~shouldQueueWriter
  /\ pc' = [pc EXCEPT ![t] = "writing"]
  /\ timed' = [timed EXCEPT ![t] = FALSE]
  /\ expired' = [expired EXCEPT ![t] = FALSE]
  /\ numActiveWriters' = numActiveWriters + 1
  /\ numQueuedWriters' = numQueuedWriters - 1
  /\ UNCHANGED <<numQueuedReaders, numActiveReaders>>

WriterRequeue(t) ==
  /\ pc[t] = "wwoken"
  /\ shouldQueueWriter
  /\ ~expired[t]
  /\ pc' = [pc EXCEPT ![t] = "wwait"]
  /\ UNCHANGED <<timed, expired, counters>>

\* Nobody is alerted here, not even readers that queue only because of t.
WriterGiveUp(t) ==
  /\ pc[t] = "wwoken"
  /\ shouldQueueWriter
  /\ expired[t]
  /\ pc' = [pc EXCEPT ![t] = "idle"]
  /\ timed' = [timed EXCEPT ![t] = FALSE]
  /\ expired' = [expired EXCEPT ![t] = FALSE]
  /\ numQueuedWriters' = numQueuedWriters - 1
  /\ UNCHANGED <<numQueuedReaders, numActiveReaders, numActiveWriters>>

\* Fault: notify() where all queued readers have to be alerted.
WriterUnlock_OneReader(t) ==
  /\ pc[t] = "writing"
  /\ numActiveWriters' = numActiveWriters - 1
  /\ LET left == [pc EXCEPT ![t] = "idle"]
         readers == numQueuedReaders > 0
         writers == numQueuedWriters > 0
     IN  CASE numActiveWriters' < 1 /\ writers /\ (preferWriters \/ ~readers)
                -> Notify("wwait", "wwoken", left)
           [] numActiveWriters' < 1 /\ readers /\ (~preferWriters \/ ~writers)
                -> Notify("rwait", "rwoken", left)
           [] OTHER -> pc' = left
  /\ UNCHANGED <<timed, expired, numQueuedReaders,
                 numActiveReaders, numQueuedWriters>>

\* The side the policy prefers is alerted if somebody of it is queued.
WriterUnlock(t) ==
  /\ pc[t] = "writing"
  /\ numActiveWriters' = numActiveWriters - 1
  /\ LET left == [pc EXCEPT ![t] = "idle"]
         readers == numQueuedReaders > 0
         writers == numQueuedWriters > 0
     IN  CASE numActiveWriters' < 1 /\ writers /\ (preferWriters \/ ~readers)
                -> Notify("wwait", "wwoken", left)
           [] numActiveWriters' < 1 /\ readers /\ (~preferWriters \/ ~writers)
                -> NotifyAll("rwait", "rwoken", left)
           [] OTHER -> pc' = left
  /\ UNCHANGED <<timed, expired, numQueuedReaders,
                 numActiveReaders, numQueuedWriters>>

-----------------------------------------------------------------------------
(* The environment: time and the operating system's condition variables.   *)

Wake(p) == CASE p = "rwait" -> "rwoken" [] p = "wwait" -> "wwoken" [] OTHER -> p

\* The Duration of a waiting call is over; a thread still in a wait set
\* leaves it.
Expire(t) ==
  /\ timed[t] /\ ~expired[t]
  /\ expired' = [expired EXCEPT ![t] = TRUE]
  /\ pc' = [pc EXCEPT ![t] = Wake(pc[t])]
  /\ UNCHANGED <<timed, counters>>

\* A wait may return without a notification.
SpuriousWake(t) ==
  /\ pc[t] \in {"rwait", "wwait"}
  /\ pc' = [pc EXCEPT ![t] = Wake(pc[t])]
  /\ UNCHANGED <<timed, expired, counters>>

Resume(t) ==
  \/ ReaderResume(t) \/ ReaderRequeue(t) \/ ReaderGiveUp(t)
  \/ WriterResume(t) \/ WriterRequeue(t) \/ WriterGiveUp(t)

Unlock(t) == ReaderUnlock(t) \/ WriterUnlock(t)

Enter(t) ==
  \/ ReaderAcquire(t) \/ WriterAcquire(t)
  \/ \E isTimed \in BOOLEAN : ReaderQueue(t, isTimed) \/ WriterQueue(t, isTimed)

Next ==
  /\ \E t \in Threads : Enter(t) \/ Resume(t) \/ Unlock(t) \/ Expire(t) \/ SpuriousWake(t)
  /\ UNCHANGED policy

Spec == Init /\ [][Next]_vars

\* A thread whose wait returned gets m_commonMutex and runs its section, and
\* clients do not hold the lock forever.  Nothing obliges a client to enter,
\* a Duration to be over or a wait to return without a notification.
Fairness ==
  \A t \in Threads :
    /\ WF_vars(Resume(t) /\ UNCHANGED policy)
    /\ WF_vars(Unlock(t) /\ UNCHANGED policy)

FairSpec == Spec /\ Fairness

-----------------------------------------------------------------------------
(* Properties *)

TypeOK ==
  /\ policy \in Policies
  /\ pc \in [Threads -> Places]
  /\ timed \in [Threads -> BOOLEAN]
  /\ expired \in [Threads -> BOOLEAN]
  /\ numQueuedReaders \in Nat
  /\ numActiveReaders \in Nat
  /\ numQueuedWriters \in Nat
  /\ numActiveWriters \in Nat

\* The four counters, maintained in sections that are interrupted by waits,
\* time-outs and scope(exit), never drift from the threads they count.
CountersMatch ==
  /\ numQueuedReaders = Cardinality(QueuedReaders)
  /\ numActiveReaders = Cardinality(At("reading"))
  /\ numQueuedWriters = Cardinality(QueuedWriters)
  /\ numActiveWriters = Cardinality(At("writing"))

\* "when a writer enters, all other readers and writers are blocked"
Exclusion ==
  \A t, u \in Threads :
    pc[t] = "writing" /\ t # u => pc[u] \notin {"reading", "writing"}

\* A reader sleeps in m_readerQueue only while some writer is there whose
\* acquisition and unlock will alert it.
NoStrandedReader ==
  At("rwait") # {} => numActiveWriters > 0 \/ (preferWriters /\ numQueuedWriters > 0)

\* A writer sleeps in m_writerQueue only while somebody holds the lock, or
\* was woken up and is about to take it, and will alert a writer afterwards.
\* This is what unlock's notify(), one thread only, has to guarantee.
NoStrandedWriter ==
  At("wwait") # {} =>
    \/ numActiveWriters > 0 \/ numActiveReaders > 0
    \/ At("wwoken") # {}
    \/ ~preferWriters /\ At("rwoken") # {}

\* The mutex as its clients see it.
Phase(p) ==
  CASE p \in {"rwait", "rwoken"} -> "wantRead"
    [] p \in {"wwait", "wwoken"} -> "wantWrite"
    [] p = "reading" -> "read"
    [] p = "writing" -> "write"
    [] OTHER -> "idle"

phase == [t \in Threads |-> Phase(pc[t])]

Abstract == INSTANCE RWLock

\* Every grant respects exclusion and the precedence of the policy over
\* those who already asked.
ImplementsRWLock == Abstract!Spec

\* PREFER_READERS: a reader in lock() gets the lock, however many writers
\* come and go ("readers get preference").
ReadersServed ==
  ~preferWriters =>
    \A t \in Threads : (t \in QueuedReaders /\ ~timed[t]) ~> (pc[t] = "reading")

\* PREFER_WRITERS: while writers are queued the lock reaches one of them,
\* however many readers come and go, unless all of them give up.
WritersServed ==
  preferWriters =>
    ((QueuedWriters # {}) ~> (At("writing") # {} \/ QueuedWriters = {}))

\* Under either policy the preferred side is served.
PreferredServed == ReadersServed /\ WritersServed

\* "once there are no writers present, all queued readers will be alerted"
\* (Policy): no reader is left asleep when every other thread is idle.
QueuedReadersAlerted ==
  (\A t \in Threads : pc[t] \in {"idle", "rwait"}) => At("rwait") = {}
=============================================================================
