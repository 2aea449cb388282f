---------------------------- MODULE ConditionWin ----------------------------
(***************************************************************************)
(* core.sync.condition.Condition as built for Windows, which makes a       *)
(* condition variable of two semaphores, a critical section and three      *)
(* counters (druntime/src/core/sync/condition.d, "Algorithm 8c").          *)
(*                                                                         *)
(* m_blockLock is a gate: a thread passes it to begin a wait, and the      *)
(* first notification shuts it until everybody it is meant for is through. *)
(* m_blockQueue is what waiters sleep on; each one that wakes up lets the  *)
(* next one out.                                                           *)
(*                                                                         *)
(* A section under m_unblockLock is one step, unless it waits for the gate *)
(* inside ("overflow", "notifyGate").  The owner of the associated mutex   *)
(* and of m_unblockLock can be read off the places of the threads.  A      *)
(* failed assertion is recorded in failed and execution goes on, as in a   *)
(* build without assertions.                                               *)
(***************************************************************************)
EXTENDS Integers, FiniteSets

CONSTANTS
  Patient,     \* threads that call wait()
  Timed,       \* threads that call wait(Duration)
  Notifiers,   \* threads that call notify() and notifyAll()
  GoneLimit    \* int.max / 2

Waiters == Patient \cup Timed
Threads == Waiters \cup Notifiers

ASSUME ThreadsAssumption ==
  /\ IsFiniteSet(Threads)
  /\ Patient \cap Timed = {} /\ Waiters \cap Notifiers = {}
ASSUME GoneLimitAssumption == GoneLimit \in Nat \ {0}

VARIABLES
  pc,            \* where each thread is, see Places
  withMutex,     \* whether a notifier holds the associated mutex
  all,           \* the argument of notify_
  timedOut,      \* locals of timedWait (numSignalsLeft is in pc, see AfterUnblock)
  gone,
  blockLock,     \* count of the semaphore m_blockLock, the gate
  blockQueue,    \* count of the semaphore m_blockQueue
  waitersGone, waitersBlocked, waitersToUnblock,
  failed,        \* whether an assertion behind the release of m_blockLock failed
  notified,      \* waiters that were notified since they began to wait
  due            \* those for whom a notifyAll was meant

locals == <<timedOut, gone>>
counters == <<waitersGone, waitersBlocked, waitersToUnblock>>
history == <<notified, due>>
vars == <<pc, withMutex, all, locals, blockLock, blockQueue, counters, failed, history>>

Places == {"out", "in", "gate", "count", "queue", "enter", "overflow", "drain", "pass",
           "relock", "notify", "notifyGate", "post"}

\* The places of a thread that has the associated mutex, or m_unblockLock.
HasMutex(t) == pc[t] \in {"in", "gate", "count"} \/ (t \in Notifiers /\ withMutex[t])
MutexFree == \A t \in Threads : ~HasMutex(t)
UnblockLockFree == \A t \in Threads : pc[t] \notin {"overflow", "notifyGate"}

Go(t, from, to) == pc[t] = from /\ pc' = [pc EXCEPT ![t] = to]

\* Threads that have announced themselves and are not yet accounted as woken.
Waiting == {t \in Waiters : pc[t] \in {"queue", "enter"}}

Init ==
  /\ pc = [t \in Threads |-> "out"]
  /\ withMutex = [t \in Notifiers |-> FALSE]
  /\ all = [t \in Notifiers |-> FALSE]
  /\ timedOut = [t \in Waiters |-> FALSE]
  /\ gone = [t \in Waiters |-> 0]
  /\ blockLock = 1 /\ blockQueue = 0
  /\ waitersGone = 0 /\ waitersBlocked = 0 /\ waitersToUnblock = 0
  /\ failed = FALSE
  /\ notified = {} /\ due = {}

\* WaitForSingleObject(m_blockLock, INFINITE) succeeds.
PassGate == blockLock > 0 /\ blockLock' = blockLock - 1

\* ReleaseSemaphore(m_blockLock, 1): the maximum is 1, and the assertion
\* behind it wants success.
OpenGate ==
  /\ blockLock' = 1
  /\ failed' = (failed \/ blockLock = 1)

-----------------------------------------------------------------------------
(* The caller of wait: mutex.lock(); wait; mutex.unlock() *)

Lock(t) ==
  /\ t \in Waiters /\ MutexFree
  /\ Go(t, "out", "in")
  /\ UNCHANGED <<withMutex, all, locals, blockLock, blockQueue, counters, failed, history>>

Unlock(t) ==
  /\ Go(t, "in", "out")
  /\ UNCHANGED <<withMutex, all, locals, blockLock, blockQueue, counters, failed, history>>

-----------------------------------------------------------------------------
(* timedWait *)

WaitBegin(t) ==
  /\ Go(t, "in", "gate")
  /\ UNCHANGED <<withMutex, all, locals, blockLock, blockQueue, counters, failed, history>>

WaitGate(t) ==
  /\ Go(t, "gate", "count")
  /\ PassGate
  /\ UNCHANGED <<withMutex, all, locals, blockQueue, counters, failed, history>>

\* Fault: the waiter is not counted.
Announce_Uncounted(t) ==
  /\ Go(t, "count", "queue")
  /\ OpenGate
  /\ UNCHANGED <<withMutex, all, locals, blockQueue, counters, history>>

\* The waiter is counted, opens the gate again and unlocks the mutex.
Announce(t) ==
  /\ Go(t, "count", "queue")
  /\ waitersBlocked' = waitersBlocked + 1
  /\ OpenGate
  /\ UNCHANGED <<withMutex, all, locals, blockQueue, waitersGone, waitersToUnblock, history>>

\* WaitForSingleObject(m_blockQueue, timeout)
Dequeue(t) ==
  /\ Go(t, "queue", "enter")
  /\ blockQueue > 0 /\ blockQueue' = blockQueue - 1
  /\ timedOut' = [timedOut EXCEPT ![t] = FALSE]
  /\ UNCHANGED <<withMutex, all, gone, blockLock, counters, failed, history>>

TimeOut(t) ==
  /\ t \in Timed
  /\ Go(t, "queue", "enter")
  /\ timedOut' = [timedOut EXCEPT ![t] = TRUE]
  /\ UNCHANGED <<withMutex, all, gone, blockLock, blockQueue, counters, failed,
                 history>>

\* Where a thread goes with what it knows when it leaves m_unblockLock.
AfterUnblock(left) ==
  IF left = 1 THEN "drain" ELSE IF left = 0 THEN "relock" ELSE "pass"

\* The section under m_unblockLock when a notification is being handed out.
\* One that timed out makes up for it on the count of those still blocked, or
\* leaves a token behind; the last one opens the gate, here or later on.
Unblock(t) ==
  LET cancels == timedOut[t] /\ waitersBlocked # 0
      pending == timedOut[t] /\ waitersBlocked = 0
      blocked == IF cancels THEN waitersBlocked - 1 ELSE waitersBlocked
      goneNow == IF pending THEN 1 ELSE waitersGone
      last    == waitersToUnblock = 1
      left    == IF cancels \/ (last /\ blocked # 0) THEN 0 ELSE waitersToUnblock
  IN
  /\ UnblockLockFree /\ waitersToUnblock # 0
  /\ Go(t, "enter", AfterUnblock(left))
  /\ waitersBlocked' = blocked
  /\ waitersToUnblock' = waitersToUnblock - 1
  /\ IF last /\ blocked # 0 THEN OpenGate ELSE UNCHANGED <<blockLock, failed>>
  /\ waitersGone' = IF last /\ blocked = 0 THEN 0 ELSE goneNow
  /\ gone' = [gone EXCEPT ![t] = IF last /\ blocked = 0 THEN goneNow ELSE 0]
  /\ due' = due \ {t}
  /\ UNCHANGED <<withMutex, all, timedOut, blockQueue, notified>>

\* No notification is being handed out: a timeout, which is only counted.
Leave(t) ==
  /\ UnblockLockFree /\ waitersToUnblock = 0
  /\ Go(t, "enter", IF waitersGone + 1 = GoneLimit THEN "overflow" ELSE "relock")
  /\ waitersGone' = waitersGone + 1
  /\ gone' = [gone EXCEPT ![t] = 0]
  /\ due' = due \ {t}
  /\ UNCHANGED <<withMutex, all, timedOut, blockLock, blockQueue, waitersBlocked,
                 waitersToUnblock, failed, notified>>

\* The count of timeouts is full and both counts are corrected while the gate
\* is held.  (The assertion behind this ReleaseSemaphore compares its result,
\* which is not 0 on success, with WAIT_OBJECT_0, which is 0; it is left out.)
Overflow(t) ==
  /\ Go(t, "overflow", "relock")
  /\ blockLock > 0
  /\ waitersBlocked' = waitersBlocked - waitersGone
  /\ waitersGone' = 0
  /\ UNCHANGED <<withMutex, all, locals, blockLock, blockQueue, waitersToUnblock, failed,
                 history>>

\* The last one takes the tokens nobody is going to take, and opens the gate.
Drain(t) ==
  \/ /\ Go(t, "drain", "drain") /\ gone[t] > 0
     /\ blockQueue > 0 /\ blockQueue' = blockQueue - 1
     /\ gone' = [gone EXCEPT ![t] = @ - 1]
     /\ UNCHANGED <<withMutex, all, timedOut, blockLock, counters, failed, history>>
  \/ /\ Go(t, "drain", "relock") /\ gone[t] = 0
     /\ OpenGate
     /\ UNCHANGED <<withMutex, all, locals, blockQueue, counters, history>>

\* Fault: the chain breaks.
PassOn_Nothing(t) ==
  /\ Go(t, "pass", "relock")
  /\ UNCHANGED <<withMutex, all, locals, blockLock, blockQueue, counters, failed, history>>

\* Unblock the next waiter.
PassOn(t) ==
  /\ Go(t, "pass", "relock")
  /\ blockQueue' = blockQueue + 1
  /\ UNCHANGED <<withMutex, all, locals, blockLock, counters, failed, history>>

Relock(t) ==
  /\ MutexFree
  /\ Go(t, "relock", "in")
  /\ timedOut' = [timedOut EXCEPT ![t] = FALSE]
  /\ notified' = notified \ {t}
  /\ UNCHANGED <<withMutex, all, gone, blockLock, blockQueue, counters, failed, due>>

-----------------------------------------------------------------------------
(* notify_(all), with or without the mutex *)

NotifyBegin(t, m, a) ==
  /\ t \in Notifiers
  /\ m => MutexFree
  /\ Go(t, "out", "notify")
  /\ withMutex' = [withMutex EXCEPT ![t] = m]
  /\ all' = [all EXCEPT ![t] = a]
  /\ UNCHANGED <<locals, blockLock, blockQueue, counters, failed, history>>

\* What the section does once it has decided to notify: n waiters change
\* from blocked to being unblocked.
Hand(t, blocked) ==
  LET n == IF all[t] THEN blocked ELSE 1 IN
  /\ waitersToUnblock' = waitersToUnblock + n
  /\ waitersBlocked' = blocked - n
  /\ notified' = notified \cup Waiting
  /\ due' = IF all[t] THEN due \cup {w \in Waiting : pc[w] = "queue"} ELSE due

\* A return from notify_ is the end of the caller's section, too.
Return(t, from) ==
  /\ Go(t, from, "out")
  /\ withMutex' = [withMutex EXCEPT ![t] = FALSE]
  /\ all' = [all EXCEPT ![t] = FALSE]

\* Notifications are being handed out already: only count.
NotifyMore(t) ==
  /\ UnblockLockFree /\ waitersToUnblock # 0
  /\ Return(t, "notify")
  /\ IF waitersBlocked = 0 THEN UNCHANGED <<counters, history>>
       ELSE Hand(t, waitersBlocked) /\ UNCHANGED waitersGone
  /\ UNCHANGED <<locals, blockLock, blockQueue, failed>>

NotifyFirst(t) ==
  /\ UnblockLockFree /\ waitersToUnblock = 0
  /\ waitersBlocked > waitersGone
  /\ Go(t, "notify", "notifyGate")
  /\ UNCHANGED <<withMutex, all, locals, blockLock, blockQueue, counters, failed, history>>

NotifyNobody(t) ==
  /\ UnblockLockFree /\ waitersToUnblock = 0
  /\ waitersBlocked <= waitersGone
  /\ Return(t, "notify")
  /\ UNCHANGED <<locals, blockLock, blockQueue, counters, failed, history>>

\* Fault: the gate stays open while the notification is handed out.
NotifyGate_LeftOpen(t) ==
  /\ Go(t, "notifyGate", "post")
  /\ blockLock > 0
  /\ Hand(t, waitersBlocked - waitersGone)
  /\ waitersGone' = 0
  /\ UNCHANGED <<withMutex, all, locals, blockLock, blockQueue, failed>>

\* Shut the gate and hand over.
NotifyGate(t) ==
  /\ Go(t, "notifyGate", "post")
  /\ PassGate
  /\ Hand(t, waitersBlocked - waitersGone)
  /\ waitersGone' = 0
  /\ UNCHANGED <<withMutex, all, locals, blockQueue, failed>>

Post(t) ==
  /\ Return(t, "post")
  /\ blockQueue' = blockQueue + 1
  /\ UNCHANGED <<locals, blockLock, counters, failed, history>>

-----------------------------------------------------------------------------

\* The rest of a wait that found a token or timed out.
WaitEnd(t) ==
  \/ Unblock(t) \/ Leave(t) \/ Overflow(t) \/ Drain(t) \/ PassOn(t)

NotifyEnd(t) ==
  \/ NotifyMore(t) \/ NotifyFirst(t) \/ NotifyNobody(t) \/ NotifyGate(t) \/ Post(t)

Next ==
  \/ \E t \in Waiters :
       \/ Lock(t) \/ Unlock(t)
       \/ WaitBegin(t) \/ WaitGate(t) \/ Announce(t) \/ Dequeue(t) \/ TimeOut(t)
       \/ WaitEnd(t) \/ Relock(t)
  \/ \E t \in Notifiers :
       \/ \E m, a \in BOOLEAN : NotifyBegin(t, m, a)
       \/ NotifyEnd(t)

Spec == Init /\ [][Next]_vars

\* What a thread does once it has begun to wait, and the unlocking before.
WaiterStep(t) ==
  \/ Unlock(t) \/ WaitGate(t) \/ Announce(t) \/ Dequeue(t) \/ TimeOut(t)
  \/ WaitEnd(t) \/ Relock(t)

\* A thread that can go on does; a thread that waits for a semaphore, a lock
\* or a mutex gets it if it is free again and again; a period elapses (the
\* alternatives of a thread are at different places, so that fairness of
\* their disjunction is fairness of each).  Nobody needs to call wait or notify.
Fairness ==
  /\ \A t \in Waiters : SF_vars(WaiterStep(t))
  /\ \A t \in Notifiers : SF_vars(NotifyEnd(t))

FairSpec == Spec /\ Fairness

-----------------------------------------------------------------------------
(* Properties *)

TypeOK ==
  /\ pc \in [Threads -> Places]
  /\ withMutex \in [Notifiers -> BOOLEAN] /\ all \in [Notifiers -> BOOLEAN]
  /\ timedOut \in [Waiters -> BOOLEAN]
  /\ gone \in [Waiters -> Nat]
  /\ blockLock \in {0, 1} /\ blockQueue \in Nat
  /\ waitersGone \in Nat /\ waitersBlocked \in Nat /\ waitersToUnblock \in Nat
  /\ failed \in BOOLEAN
  /\ notified \subseteq Waiters /\ due \subseteq Waiters

\* The three counters know every waiter: nobody waits without being counted,
\* so that no notification passes a sleeping thread by.  The gate is opened
\* only by whoever shut it ("assert( rc )" behind releases of m_blockLock).
WaitersAccounted ==
  /\ waitersBlocked - waitersGone + waitersToUnblock = Cardinality(Waiting)
  /\ ~failed

\* A wait ends without a timeout only if a notification came after it began:
\* "true if notified before the timeout and false if not".
TrueMeansNotified ==
  \A t \in Waiters : pc[t] \in {"enter", "relock"} /\ ~timedOut[t] => t \in notified

\* A thread that was asleep when notifyAll came does not sleep on.
AllWoken == \A t \in Waiters : t \in due ~> t \notin due

\* "Suspends the calling thread until a notification occurs or until the
\* supplied time period has elapsed": a timed wait returns.
TimedWaitReturns == \A t \in Timed : pc[t] = "gate" ~> pc[t] = "in"

\* Both: no waiter is passed over, and none is stuck at the gate.
WaitsEnd == AllWoken /\ TimedWaitReturns
=============================================================================
