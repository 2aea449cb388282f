------------------------- MODULE ConditionWinProofs -------------------------
(***************************************************************************)
(* Proofs about ConditionWin, for any number of threads that call wait(),  *)
(* notify() and notifyAll().                                               *)
(***************************************************************************)
EXTENDS ConditionWin, FiniteSetTheorems, TLAPS

\* How many threads are at one of some places.
At(P) == {t \in Threads : pc[t] \in P}
Count(P) == Cardinality(At(P))

WaiterPlaces == {"out", "in", "gate", "count", "queue", "enter", "drain", "pass", "relock"}
NotifierPlaces == {"out", "notify", "notifyGate", "post"}

\* Nobody times out, and nothing is counted for those who do.
NoTimeouts ==
  /\ \A t \in Waiters : pc[t] \in WaiterPlaces /\ ~timedOut[t] /\ gone[t] = 0
  /\ \A t \in Notifiers : pc[t] \in NotifierPlaces
  /\ waitersGone = 0

\* Where a thread is that has shut the gate, or that has to let the next
\* waiter out before it is opened again.
Inside == {"count", "enter", "pass", "drain", "post"}

\* The gate is open, or one thread is inside, or a waiter is being woken.
GateOnce == blockLock + blockQueue + Count(Inside) = 1 /\ ~failed

\* Every waiter is counted once.
Sleeping == {"queue", "enter"}
AllCounted == waitersBlocked + waitersToUnblock = Count(Sleeping)

\* A waiter is woken because of a notification that is not handed out yet.
HandedOut ==
  /\ blockQueue > 0 \/ At({"enter", "pass", "post"}) # {} => waitersToUnblock > 0
  /\ At({"notifyGate"}) # {} => waitersBlocked > 0

\* While a notification is handed out, everybody who waits was notified.
AllNotified ==
  /\ blockQueue > 0 \/ At(Inside \ {"count"}) # {} => Waiting \subseteq notified
  /\ At({"pass", "drain", "relock"}) \subseteq notified

Inv == TypeOK /\ NoTimeouts /\ GateOnce /\ AllCounted /\ HandedOut /\ AllNotified

-----------------------------------------------------------------------------
(* Counting threads *)

\* One thread moves.
LEMMA CountMoves ==
  ASSUME TypeOK, NEW t \in Threads, NEW to, pc' = [pc EXCEPT ![t] = to], NEW P
  PROVE  /\ Count(P) \in Nat
         /\ pc[t] \in P /\ to \in P => At(P)' = At(P) /\ Count(P)' = Count(P)
         /\ pc[t] \notin P /\ to \notin P => At(P)' = At(P) /\ Count(P)' = Count(P)
         /\ pc[t] \in P /\ to \notin P => At(P)' = At(P) \ {t} /\ Count(P)' = Count(P) - 1
         /\ pc[t] \notin P /\ to \in P => At(P)' = At(P) \cup {t} /\ Count(P)' = Count(P) + 1
<1> USE DEF TypeOK
<1>0. IsFiniteSet(At(P)) /\ Count(P) \in Nat
  BY ThreadsAssumption, FS_Subset, FS_CardinalityType DEF At, Count
<1>1. CASE pc[t] \in P /\ to \in P
  <2>1. At(P)' = At(P)
    BY <1>1 DEF At
  <2> QED
    BY <1>0, <1>1, <2>1 DEF Count
<1>2. CASE pc[t] \notin P /\ to \notin P
  <2>1. At(P)' = At(P)
    BY <1>2 DEF At
  <2> QED
    BY <1>0, <1>2, <2>1 DEF Count
<1>3. CASE pc[t] \in P /\ to \notin P
  <2>1. At(P)' = At(P) \ {t} /\ t \in At(P)
    BY <1>3 DEF At
  <2> QED
    BY <1>0, <1>3, <2>1, FS_RemoveElement DEF Count
<1>4. CASE pc[t] \notin P /\ to \in P
  <2>1. At(P)' = At(P) \cup {t} /\ t \notin At(P)
    BY <1>4 DEF At
  <2> QED
    BY <1>0, <1>4, <2>1, FS_AddElement DEF Count
<1> QED
  BY <1>0, <1>1, <1>2, <1>3, <1>4

\* Whoever is there is counted.
LEMMA CountPositive ==
  ASSUME TypeOK, NEW P
  PROVE  /\ Count(P) \in Nat
         /\ Count(P) = 0 <=> At(P) = {}
<1>0. IsFiniteSet(At(P)) /\ Count(P) \in Nat
  BY ThreadsAssumption, FS_Subset, FS_CardinalityType DEF At, Count
<1> QED
  BY <1>0, FS_EmptySet DEF Count

\* As long as a thread is inside, nobody else is, no waiter is being woken and
\* the gate is shut.
LEMMA OnlyOneInside ==
  ASSUME Inv, NEW t \in Threads, pc[t] \in Inside
  PROVE  /\ blockLock = 0 /\ blockQueue = 0 /\ Count(Inside) = 1
         /\ \A u \in Threads : pc[u] \in Inside => u = t
<1>1. Count(Inside) # 0 /\ Count(Inside) \in Nat
  BY CountPositive DEF Inv, At
<1>2. blockLock = 0 /\ blockQueue = 0 /\ Count(Inside) = 1
  BY <1>1 DEF Inv, GateOnce, TypeOK
<1>3. ASSUME NEW u \in Threads, pc[u] \in Inside, u # t PROVE FALSE
  <2>1. IsFiniteSet(At(Inside)) /\ t \in At(Inside) /\ u \in At(Inside)
    BY <1>3, ThreadsAssumption, FS_Subset DEF At
  <2>2. IsFiniteSet(At(Inside) \ {t}) /\ Cardinality(At(Inside) \ {t}) = 0
    BY <1>2, <2>1, FS_RemoveElement DEF Count
  <2> QED
    BY <1>3, <2>1, <2>2, FS_EmptySet
<1> QED
  BY <1>2, <1>3

\* Nobody is inside when the gate is open.
LEMMA NobodyInside ==
  ASSUME Inv, blockLock > 0 \/ blockQueue > 0
  PROVE  /\ blockLock + blockQueue = 1 /\ Count(Inside) = 0
         /\ \A u \in Threads : pc[u] \notin Inside
<1>1. Count(Inside) \in Nat
  BY CountPositive DEF Inv
<1>2. blockLock + blockQueue = 1 /\ Count(Inside) = 0
  BY <1>1 DEF Inv, GateOnce, TypeOK
<1> QED
  BY <1>2, CountPositive DEF Inv, At

LEMMA WaitingAt ==
  ASSUME Inv
  PROVE  Waiting = At(Sleeping)
BY DEF Inv, Sleeping, NoTimeouts, NotifierPlaces, Waiting, At, Threads

LEMMA InvInit == Init => Inv
<1> SUFFICES ASSUME Init PROVE Inv
  OBVIOUS
<1> USE DEF Init
<1>1. TypeOK
  BY DEF TypeOK, Places, Threads
<1>2. NoTimeouts
  BY DEF NoTimeouts, WaiterPlaces, NotifierPlaces, Threads
<1>3. \A P : "out" \notin P => At(P) = {}
  BY DEF At
<1>4. Count(Inside) = 0 /\ Count(Sleeping) = 0
  BY <1>1, <1>3, CountPositive DEF Inside, Sleeping
<1>5. GateOnce /\ AllCounted
  BY <1>4 DEF GateOnce, AllCounted
<1>6. HandedOut /\ AllNotified
  BY <1>3 DEF HandedOut, AllNotified, Inside
<1> QED
  BY <1>1, <1>2, <1>5, <1>6 DEF Inv

-----------------------------------------------------------------------------
(* Every step keeps the invariant *)

\* A thread that waits for the gate to hand a notification out has m_unblockLock.
OneHands ==
  /\ pc \in [Threads -> Places]
  /\ \A t, u \in Threads : pc[t] = "notifyGate" /\ pc[u] = "notifyGate" => t = u

LEMMA OneHandsHolds == Spec => []OneHands
<1>1. Init => OneHands
  BY DEF Init, OneHands, Places
<1>2. OneHands /\ [Next]_vars => OneHands'
  <2> SUFFICES ASSUME OneHands, [Next]_vars PROVE OneHands'
    OBVIOUS
  <2>1. ASSUME NEW t \in Threads, NEW to \in Places \ {"notifyGate"},
               pc' = [pc EXCEPT ![t] = to]
        PROVE  OneHands'
    BY <2>1 DEF OneHands
  <2>2. ASSUME NEW t \in Waiters, Lock(t) \/ Unlock(t) \/ WaitBegin(t) \/ WaitGate(t)
                                  \/ Announce(t) \/ Dequeue(t) \/ TimeOut(t) \/ Relock(t)
        PROVE  OneHands'
    BY <2>1, <2>2 DEF Lock, Unlock, WaitBegin, WaitGate, Announce, Dequeue, TimeOut, Relock,
                      Go, Places, Threads
  <2>3. ASSUME NEW t \in Waiters, WaitEnd(t) PROVE OneHands'
    BY <2>1, <2>3 DEF WaitEnd, Unblock, AfterUnblock, Leave, Overflow, Drain, PassOn,
                      Go, Places, Threads
  <2>4. ASSUME NEW t \in Notifiers, (\E m, a \in BOOLEAN : NotifyBegin(t, m, a)) \/ NotifyMore(t)
                                    \/ NotifyNobody(t) \/ NotifyGate(t) \/ Post(t)
        PROVE  OneHands'
    BY <2>1, <2>4 DEF NotifyBegin, NotifyMore, NotifyNobody, NotifyGate, Post, Return,
                      Go, Places, Threads
  <2>5. ASSUME NEW t \in Notifiers, NotifyFirst(t) PROVE OneHands'
    BY <2>5 DEF OneHands, NotifyFirst, UnblockLockFree, Go, Places, Threads
  <2>6. CASE UNCHANGED vars
    BY <2>6 DEF OneHands, vars
  <2> QED
    BY <2>2, <2>3, <2>4, <2>5, <2>6 DEF Next, NotifyEnd
<1> QED
  BY <1>1, <1>2, PTL DEF Spec

\* A thread moves outside, and nothing is counted.
LEMMA InvOutside ==
  ASSUME Inv, NEW t \in Threads, NEW to,
         pc[t] \notin Inside \cup {"queue"}, to \notin Inside \cup {"queue"},
         pc' = [pc EXCEPT ![t] = to],
         TypeOK', NoTimeouts',
         to = "notifyGate" => waitersBlocked > 0,
         to # "relock",
         notified' \in {notified, notified \ {t}},
         UNCHANGED <<blockLock, blockQueue, counters, failed>>
  PROVE  Inv'
<1> USE DEF Inv, counters
<1>1. TypeOK
  OBVIOUS
<1>s. pc[t] \notin Inside /\ to \notin Inside /\ pc[t] \notin Sleeping /\ to \notin Sleeping
  BY DEF Inside, Sleeping
<1>2. UNCHANGED <<Count(Inside), Count(Sleeping)>>
  BY <1>1, <1>s, CountMoves
<1>3. GateOnce' /\ AllCounted'
  BY <1>2 DEF GateOnce, AllCounted
<1>4. HandedOut'
  BY <1>1 DEF HandedOut, At, Inside, TypeOK
<1>5. AllNotified'
  BY <1>1 DEF AllNotified, At, Inside, Waiting, TypeOK
<1> QED
  BY <1>3, <1>4, <1>5

LEMMA InvQuiet ==
  ASSUME Inv, Timed = {}, NEW t \in Threads,
         \/ t \in Waiters /\ (Lock(t) \/ Unlock(t) \/ WaitBegin(t) \/ Relock(t))
         \/ \E m, a \in BOOLEAN : NotifyBegin(t, m, a)
         \/ t \in Notifiers /\ (NotifyFirst(t) \/ NotifyNobody(t))
  PROVE  Inv'
<1> USE DEF Inv, TypeOK, NoTimeouts, Places, WaiterPlaces, NotifierPlaces, Go, locals, counters,
            history, Threads
<1>1. CASE t \in Waiters /\ (Lock(t) \/ Unlock(t) \/ WaitBegin(t))
  <2>0. \E to \in {"in", "out", "gate"} : pc' = [pc EXCEPT ![t] = to]
    BY <1>1 DEF Lock, Unlock, WaitBegin
  <2>1. /\ pc' \in [Threads -> Places]
        /\ \A u \in Waiters : pc'[u] \in WaiterPlaces
        /\ \A u \in Notifiers : pc'[u] \in NotifierPlaces
    BY <1>1, <2>0, ThreadsAssumption
  <2>2. UNCHANGED <<withMutex, all, locals, blockLock, blockQueue, counters, failed, history>>
    BY <1>1 DEF Lock, Unlock, WaitBegin
  <2>3. TypeOK' /\ NoTimeouts'
    BY <2>1, <2>2
  <2>4. pc[t] \in {"in", "out"}
    BY <1>1 DEF Lock, Unlock, WaitBegin
  <2>5. PICK to \in {"in", "out", "gate"} : pc' = [pc EXCEPT ![t] = to]
    BY <2>0
  <2>6. /\ pc[t] \notin Inside \cup {"queue"} /\ to \notin Inside \cup {"queue"}
        /\ to # "notifyGate" /\ to # "relock"
    BY <2>4, <2>5 DEF Inside
  <2>7. notified' = notified /\ UNCHANGED <<blockLock, blockQueue, counters, failed>>
    BY <2>2
  <2>8. Inv /\ t \in Threads
    OBVIOUS
  <2> QED
    BY ONLY <2>3, <2>5, <2>6, <2>7, <2>8, InvOutside
<1>2. CASE t \in Waiters /\ Relock(t)
  <2>1. TypeOK' /\ NoTimeouts'
    BY <1>2 DEF Relock
  <2> QED
    BY <1>2, <2>1, InvOutside DEF Relock, Inside
<1>3. ASSUME NEW m \in BOOLEAN, NEW a \in BOOLEAN, NotifyBegin(t, m, a) PROVE Inv'
  <2>1. TypeOK' /\ NoTimeouts'
    BY <1>3, ThreadsAssumption DEF NotifyBegin
  <2> QED
    BY <1>3, <2>1, InvOutside DEF NotifyBegin, Inside
<1>4. CASE t \in Notifiers /\ NotifyFirst(t)
  <2>1. TypeOK' /\ NoTimeouts'
    BY <1>4, ThreadsAssumption DEF NotifyFirst
  <2> QED
    BY <1>4, <2>1, InvOutside DEF NotifyFirst, Inside
<1>5. CASE t \in Notifiers /\ NotifyNobody(t)
  <2>1. TypeOK' /\ NoTimeouts'
    BY <1>5, ThreadsAssumption DEF NotifyNobody, Return
  <2> QED
    BY <1>5, <2>1, InvOutside DEF NotifyNobody, Return, Inside
<1> QED
  BY <1>1, <1>2, <1>3, <1>4, <1>5

\* A waiter passes the gate, is counted, and is woken up.
LEMMA InvWait ==
  ASSUME Inv, Timed = {}, NEW t \in Waiters,
         WaitGate(t) \/ Announce(t) \/ Dequeue(t) \/ TimeOut(t)
  PROVE  Inv'
<1> USE DEF Inv, TypeOK, Go, locals, counters, history, Threads
<1>0. TypeOK
  OBVIOUS
<1>1. CASE WaitGate(t)
  <2> USE <1>1 DEF WaitGate, PassGate
  <2>p. pc[t] = "gate" /\ pc' = [pc EXCEPT ![t] = "count"]
    OBVIOUS
  <2>s. /\ pc[t] \notin Inside /\ "count" \in Inside
        /\ pc[t] \notin Sleeping /\ "count" \notin Sleeping
    BY <2>p DEF Inside, Sleeping
  <2>c. /\ Count(Inside)' = Count(Inside) + 1 /\ Count(Inside) \in Nat
        /\ Count(Sleeping)' = Count(Sleeping) /\ Count(Sleeping) \in Nat
    BY <1>0, <2>p, <2>s, CountMoves
  <2>n. \A u \in Threads : pc[u] \notin Inside
    BY NobodyInside
  <2>1. TypeOK'
    BY DEF Places
  <2>2. NoTimeouts'
    BY DEF NoTimeouts, WaiterPlaces, NotifierPlaces
  <2>3. GateOnce'
    BY <2>c, NobodyInside DEF GateOnce
  <2>4. AllCounted'
    BY <2>c DEF AllCounted
  <2>5. HandedOut'
    BY DEF HandedOut, At
  <2>6. AllNotified'
    BY <2>n DEF AllNotified, At, Inside, Waiting
  <2> QED
    BY <2>1, <2>2, <2>3, <2>4, <2>5, <2>6
<1>2. CASE Announce(t)
  <2> USE <1>2 DEF Announce, OpenGate
  <2>p. pc[t] = "count" /\ pc' = [pc EXCEPT ![t] = "queue"]
    OBVIOUS
  <2>s. /\ pc[t] \in Inside /\ "queue" \notin Inside
        /\ pc[t] \notin Sleeping /\ "queue" \in Sleeping
    BY <2>p DEF Inside, Sleeping
  <2>c. /\ Count(Inside)' = Count(Inside) - 1 /\ Count(Inside) \in Nat
        /\ Count(Sleeping)' = Count(Sleeping) + 1 /\ Count(Sleeping) \in Nat
    BY <1>0, <2>p, <2>s, CountMoves
  <2>n. /\ blockLock = 0 /\ blockQueue = 0
        /\ \A u \in Threads : pc[u] \in Inside => u = t
    BY OnlyOneInside DEF Inside
  <2>1. TypeOK'
    BY DEF Places
  <2>2. NoTimeouts'
    BY DEF NoTimeouts, WaiterPlaces, NotifierPlaces
  <2>3. GateOnce'
    BY <2>c, <2>n DEF GateOnce
  <2>4. AllCounted'
    BY <2>c DEF AllCounted
  <2>5. HandedOut'
    BY <2>n DEF HandedOut, At
  <2>6. AllNotified'
    BY <2>n DEF AllNotified, At, Inside, Waiting
  <2> QED
    BY <2>1, <2>2, <2>3, <2>4, <2>5, <2>6
<1>3. CASE Dequeue(t)
  <2> USE <1>3 DEF Dequeue
  <2>p. pc[t] = "queue" /\ pc' = [pc EXCEPT ![t] = "enter"]
    OBVIOUS
  <2>s. /\ pc[t] \notin Inside /\ "enter" \in Inside
        /\ pc[t] \in Sleeping /\ "enter" \in Sleeping
    BY <2>p DEF Inside, Sleeping
  <2>c. /\ Count(Inside)' = Count(Inside) + 1 /\ Count(Inside) \in Nat
        /\ Count(Sleeping)' = Count(Sleeping) /\ Count(Sleeping) \in Nat
    BY <1>0, <2>p, <2>s, CountMoves
  <2>1. TypeOK'
    BY DEF Places
  <2>2. NoTimeouts'
    BY DEF NoTimeouts, WaiterPlaces, NotifierPlaces
  <2>3. GateOnce'
    BY <2>c DEF GateOnce
  <2>4. AllCounted'
    BY <2>c DEF AllCounted
  <2>5. HandedOut'
    BY DEF HandedOut, At
  <2>6. AllNotified'
    BY DEF AllNotified, At, Inside, Waiting
  <2> QED
    BY <2>1, <2>2, <2>3, <2>4, <2>5, <2>6
<1>4. ~TimeOut(t)
  BY DEF TimeOut
<1> QED
  BY <1>1, <1>2, <1>3, <1>4

\* A waiter that has been woken accounts for itself.  The last one of those
\* the notification is meant for opens the gate, here or in Drain; any other
\* one is going to let the next one out.
LEMMA InvUnblock ==
  ASSUME Inv, Timed = {}, NEW t \in Waiters, Unblock(t)
  PROVE  Inv'
<1> USE DEF Inv, TypeOK, Go, locals, counters, history, Threads
<1>0. TypeOK
  OBVIOUS
<1>1. pc[t] = "enter" /\ ~timedOut[t] /\ gone[t] = 0 /\ waitersGone = 0
  BY DEF NoTimeouts, Unblock
<1>2. waitersToUnblock > 0 /\ t \in notified /\ Waiting \subseteq notified
  BY <1>1 DEF HandedOut, AllNotified, At, Waiting, Inside
<1>3. /\ blockLock = 0 /\ blockQueue = 0
      /\ \A u \in Threads : pc[u] \in Inside => u = t
  BY <1>1, OnlyOneInside DEF Inside
<1>4. /\ waitersBlocked' = waitersBlocked /\ waitersToUnblock' = waitersToUnblock - 1
      /\ waitersGone' = 0 /\ gone' = [gone EXCEPT ![t] = 0]
      /\ due' = due \ {t}
      /\ UNCHANGED <<withMutex, all, timedOut, blockQueue, notified>>
      /\ \A u \in Threads : pc[u] # "notifyGate"
  BY <1>1 DEF Unblock, UnblockLockFree
<1>5. CASE waitersToUnblock = 1 /\ waitersBlocked # 0
  <2>p. pc' = [pc EXCEPT ![t] = "relock"]
    BY <1>1, <1>5 DEF Unblock, AfterUnblock
  <2>g. blockLock' = 1 /\ failed' = failed
    BY <1>1, <1>3, <1>5 DEF Unblock, OpenGate, GateOnce
  <2>s. /\ pc[t] \in Inside /\ "relock" \notin Inside
        /\ pc[t] \in Sleeping /\ "relock" \notin Sleeping
    BY <1>1 DEF Inside, Sleeping
  <2>c. /\ Count(Inside)' = Count(Inside) - 1 /\ Count(Inside) \in Nat
        /\ Count(Sleeping)' = Count(Sleeping) - 1 /\ Count(Sleeping) \in Nat
    BY <1>0, <2>p, <2>s, CountMoves
  <2>1. TypeOK'
    BY <1>2, <1>4, <2>p, <2>g DEF Places
  <2>2. NoTimeouts'
    BY <1>1, <1>4, <2>p DEF NoTimeouts, WaiterPlaces, NotifierPlaces
  <2>3. GateOnce'
    BY <1>3, <1>4, <2>c, <2>g DEF GateOnce
  <2>4. AllCounted'
    BY <1>4, <2>c DEF AllCounted
  <2>5. HandedOut'
    BY <1>3, <1>4, <2>p DEF HandedOut, At, Inside
  <2>6. AllNotified'
    BY <1>2, <1>3, <1>4, <2>p DEF AllNotified, At, Inside, Waiting
  <2> QED
    BY <2>1, <2>2, <2>3, <2>4, <2>5, <2>6
<1>6. CASE ~(waitersToUnblock = 1 /\ waitersBlocked # 0)
  <2>p. /\ pc' = [pc EXCEPT ![t] = IF waitersToUnblock = 1 THEN "drain" ELSE "pass"]
        /\ UNCHANGED <<blockLock, failed>>
    BY <1>1, <1>2, <1>6 DEF Unblock, AfterUnblock
  <2> DEFINE to == IF waitersToUnblock = 1 THEN "drain" ELSE "pass"
  <2>s. /\ pc[t] \in Inside /\ to \in Inside
        /\ pc[t] \in Sleeping /\ to \notin Sleeping
    BY <1>1 DEF Inside, Sleeping
  <2>t. to \in {"drain", "pass"} /\ (to = "pass" => waitersToUnblock > 1)
    BY <1>2
  <2>q. pc' = [pc EXCEPT ![t] = to]
    BY <2>p
  <2> HIDE DEF to
  <2>c. /\ Count(Inside)' = Count(Inside) /\ Count(Inside) \in Nat
        /\ Count(Sleeping)' = Count(Sleeping) - 1 /\ Count(Sleeping) \in Nat
    BY <1>0, <2>q, <2>s, CountMoves
  <2>1. TypeOK'
    BY <1>2, <1>4, <2>p, <2>q, <2>t DEF Places
  <2>2. NoTimeouts'
    BY <1>1, <1>4, <2>q, <2>t DEF NoTimeouts, WaiterPlaces, NotifierPlaces
  <2>3. GateOnce'
    BY <1>4, <2>c, <2>p DEF GateOnce
  <2>4. AllCounted'
    BY <1>4, <2>c DEF AllCounted
  <2>5. HandedOut'
    BY <1>3, <1>4, <2>q, <2>t DEF HandedOut, At, Inside
  <2>6. AllNotified'
    BY <1>2, <1>3, <1>4, <2>q, <2>t DEF AllNotified, At, Inside, Waiting
  <2> QED
    BY <2>1, <2>2, <2>3, <2>4, <2>5, <2>6
<1> QED
  BY <1>5, <1>6

\* A waiter leaves: it lets the next one out or opens the gate.
LEMMA InvWaitEnd ==
  ASSUME Inv, Timed = {}, NEW t \in Waiters, WaitEnd(t)
  PROVE  Inv'
<1> USE DEF Inv, TypeOK, Go, locals, counters, history, Threads
<1>0. TypeOK
  OBVIOUS
<1>1. ~Leave(t)
  BY DEF Leave, HandedOut, At
<1>2. ~Overflow(t)
  BY DEF Overflow, NoTimeouts, WaiterPlaces
<1>3. CASE Drain(t)
  <2>1. /\ pc[t] = "drain" /\ pc' = [pc EXCEPT ![t] = "relock"]
        /\ OpenGate
        /\ UNCHANGED <<withMutex, all, timedOut, gone, blockQueue, waitersGone,
                       waitersBlocked, waitersToUnblock, notified, due>>
    BY <1>3 DEF Drain, NoTimeouts
  <2>2. /\ blockLock = 0 /\ blockQueue = 0
        /\ \A u \in Threads : pc[u] \in Inside => u = t
    BY <2>1, OnlyOneInside DEF Inside
  <2>s. /\ pc[t] \in Inside /\ "relock" \notin Inside
        /\ pc[t] \notin Sleeping /\ "relock" \notin Sleeping
    BY <2>1 DEF Inside, Sleeping
  <2>c. /\ Count(Inside)' = Count(Inside) - 1 /\ Count(Inside) \in Nat
        /\ Count(Sleeping)' = Count(Sleeping)
    BY <1>0, <2>1, <2>s, CountMoves
  <2>3. TypeOK'
    BY <2>1, <2>2 DEF Places, OpenGate
  <2>4. NoTimeouts'
    BY <2>1 DEF NoTimeouts, WaiterPlaces, NotifierPlaces
  <2>5. GateOnce'
    BY <2>1, <2>2, <2>c DEF GateOnce, OpenGate
  <2>6. AllCounted'
    BY <2>1, <2>c DEF AllCounted
  <2>7. HandedOut'
    BY <2>1, <2>2 DEF HandedOut, At, Inside
  <2>8. AllNotified'
    BY <2>1, <2>2 DEF AllNotified, At, Inside, Waiting
  <2> QED
    BY <2>3, <2>4, <2>5, <2>6, <2>7, <2>8
<1>4. CASE PassOn(t)
  <2>1. /\ pc[t] = "pass" /\ pc' = [pc EXCEPT ![t] = "relock"]
        /\ blockQueue' = blockQueue + 1
        /\ UNCHANGED <<withMutex, all, timedOut, gone, blockLock, waitersGone,
                       waitersBlocked, waitersToUnblock, failed, notified, due>>
    BY <1>4 DEF PassOn
  <2>2. /\ blockLock = 0 /\ blockQueue = 0
        /\ \A u \in Threads : pc[u] \in Inside => u = t
    BY <2>1, OnlyOneInside DEF Inside
  <2>s. /\ pc[t] \in Inside /\ "relock" \notin Inside
        /\ pc[t] \notin Sleeping /\ "relock" \notin Sleeping
    BY <2>1 DEF Inside, Sleeping
  <2>c. /\ Count(Inside)' = Count(Inside) - 1 /\ Count(Inside) \in Nat
        /\ Count(Sleeping)' = Count(Sleeping)
    BY <1>0, <2>1, <2>s, CountMoves
  <2>3. TypeOK'
    BY <2>1 DEF Places
  <2>4. NoTimeouts'
    BY <2>1 DEF NoTimeouts, WaiterPlaces, NotifierPlaces
  <2>5. GateOnce'
    BY <2>1, <2>2, <2>c DEF GateOnce
  <2>6. AllCounted'
    BY <2>1, <2>c DEF AllCounted
  <2>7. HandedOut'
    BY <2>1, <2>2 DEF HandedOut, At, Inside
  <2>8. AllNotified'
    BY <2>1, <2>2 DEF AllNotified, At, Inside, Waiting
  <2> QED
    BY <2>3, <2>4, <2>5, <2>6, <2>7, <2>8
<1> QED
  BY <1>1, <1>2, <1>3, <1>4, InvUnblock DEF WaitEnd

\* A notification is handed out: NotifyGate keeps the gate shut until Post
\* has let the first waiter out, NotifyMore adds to one that is under way.
LEMMA InvNotify ==
  ASSUME Inv, OneHands, NEW t \in Notifiers, NotifyMore(t) \/ NotifyGate(t) \/ Post(t)
  PROVE  Inv'
<1> USE DEF Inv, TypeOK, Go, locals, counters, history, Threads
<1>0. TypeOK /\ t \notin Waiters /\ waitersGone = 0
  BY ThreadsAssumption DEF NoTimeouts
<1>w. Waiting \subseteq Waiters
  BY DEF Waiting
<1>1. CASE NotifyMore(t)
  <2>p. pc[t] = "notify" /\ pc' = [pc EXCEPT ![t] = "out"]
    BY <1>1 DEF NotifyMore, Return
  <2>1. /\ waitersGone' = 0
        /\ waitersBlocked' + waitersToUnblock' = waitersBlocked + waitersToUnblock
        /\ waitersBlocked' \in Nat /\ waitersToUnblock' \in Nat /\ waitersToUnblock' > 0
        /\ notified' \subseteq Waiters /\ notified \subseteq notified' /\ due' \subseteq Waiters
    BY <1>0, <1>1, <1>w DEF NotifyMore, Hand
  <2>2. /\ withMutex' \in [Notifiers -> BOOLEAN] /\ all' \in [Notifiers -> BOOLEAN]
        /\ UNCHANGED <<timedOut, gone, blockLock, blockQueue, failed>>
    BY <1>1 DEF NotifyMore, Return
  <2>3. \A u \in Threads : pc[u] # "notifyGate"
    BY <1>1 DEF NotifyMore, UnblockLockFree
  <2>s. /\ pc[t] \notin Inside /\ "out" \notin Inside
        /\ pc[t] \notin Sleeping /\ "out" \notin Sleeping
    BY <2>p DEF Inside, Sleeping
  <2>c. Count(Inside)' = Count(Inside) /\ Count(Sleeping)' = Count(Sleeping)
    BY <1>0, <2>p, <2>s, CountMoves
  <2>4. TypeOK'
    BY <2>p, <2>1, <2>2 DEF Places
  <2>5. NoTimeouts'
    BY <1>0, <2>p, <2>1, <2>2 DEF NoTimeouts, WaiterPlaces, NotifierPlaces
  <2>6. GateOnce'
    BY <2>2, <2>c DEF GateOnce
  <2>7. AllCounted'
    BY <2>1, <2>c DEF AllCounted
  <2>8. HandedOut'
    BY <2>p, <2>1, <2>3 DEF HandedOut, At
  <2>9. AllNotified'
    BY <2>p, <2>1, <2>2 DEF AllNotified, At, Inside, Waiting
  <2> QED
    BY <2>4, <2>5, <2>6, <2>7, <2>8, <2>9
<1>2. CASE NotifyGate(t)
  <2>p. pc[t] = "notifyGate" /\ pc' = [pc EXCEPT ![t] = "post"]
    BY <1>2 DEF NotifyGate
  <2>0. waitersBlocked > 0
    BY <2>p DEF HandedOut, At
  <2>1. /\ waitersGone' = 0
        /\ waitersBlocked' + waitersToUnblock' = waitersBlocked + waitersToUnblock
        /\ waitersBlocked' \in Nat /\ waitersToUnblock' \in Nat /\ waitersToUnblock' > 0
        /\ notified' = notified \cup Waiting /\ due' \subseteq Waiters
    BY <1>0, <1>2, <1>w, <2>0 DEF NotifyGate, Hand
  <2>2. /\ blockLock > 0 /\ blockLock' = blockLock - 1
        /\ UNCHANGED <<withMutex, all, timedOut, gone, blockQueue, failed>>
    BY <1>2 DEF NotifyGate, PassGate
  <2>3. /\ blockLock = 1 /\ blockQueue = 0
        /\ \A u \in Threads : pc[u] \notin Inside
    BY <2>2, NobodyInside
  <2>s. /\ pc[t] \notin Inside /\ "post" \in Inside
        /\ pc[t] \notin Sleeping /\ "post" \notin Sleeping
    BY <2>p DEF Inside, Sleeping
  <2>c. /\ Count(Inside)' = Count(Inside) + 1 /\ Count(Inside) \in Nat
        /\ Count(Sleeping)' = Count(Sleeping)
    <3>1. TypeOK /\ t \in Threads
      BY <1>0
    <3>2. Count(Inside)' = Count(Inside) + 1 /\ Count(Inside) \in Nat
      BY ONLY <3>1, <2>p, <2>s, CountMoves
    <3>3. Count(Sleeping)' = Count(Sleeping)
      BY ONLY <3>1, <2>p, <2>s, CountMoves
    <3> QED
      BY ONLY <3>2, <3>3
  <2>4. TypeOK'
    BY <1>w, <2>p, <2>1, <2>2, <2>3 DEF Places
  <2>5. NoTimeouts'
    BY <1>0, <2>p, <2>1, <2>2 DEF NoTimeouts, WaiterPlaces, NotifierPlaces
  <2>6. GateOnce'
    BY <2>2, <2>3, <2>c DEF GateOnce
  <2>7. AllCounted'
    BY <2>1, <2>c DEF AllCounted
  <2>w. Waiting' = Waiting
    BY <1>0, <2>p DEF Waiting
  <2>8. HandedOut'
    <3>1. At({"notifyGate"})' = {}
      BY <1>0, <2>p DEF At, OneHands
    <3> QED
      BY <2>1, <3>1 DEF HandedOut
  <2>9. AllNotified'
    BY <2>p, <2>1, <2>w DEF AllNotified, At, Inside
  <2> QED
    BY <2>4, <2>5, <2>6, <2>7, <2>8, <2>9
<1>3. CASE Post(t)
  <2>p. pc[t] = "post" /\ pc' = [pc EXCEPT ![t] = "out"]
    BY <1>3 DEF Post, Return
  <2>1. /\ withMutex' \in [Notifiers -> BOOLEAN] /\ all' \in [Notifiers -> BOOLEAN]
        /\ blockQueue' = blockQueue + 1
        /\ UNCHANGED <<timedOut, gone, blockLock, waitersGone, waitersBlocked,
                       waitersToUnblock, failed, notified, due>>
    BY <1>3 DEF Post, Return
  <2>2. /\ blockLock = 0 /\ blockQueue = 0
        /\ \A u \in Threads : pc[u] \in Inside => u = t
    BY <2>p, OnlyOneInside DEF Inside
  <2>s. /\ pc[t] \in Inside /\ "out" \notin Inside
        /\ pc[t] \notin Sleeping /\ "out" \notin Sleeping
    BY <2>p DEF Inside, Sleeping
  <2>c. /\ Count(Inside)' = Count(Inside) - 1 /\ Count(Inside) \in Nat
        /\ Count(Sleeping)' = Count(Sleeping)
    <3>1. TypeOK /\ t \in Threads
      BY <1>0
    <3>2. Count(Inside)' = Count(Inside) - 1 /\ Count(Inside) \in Nat
      BY ONLY <3>1, <2>p, <2>s, CountMoves
    <3>3. Count(Sleeping)' = Count(Sleeping)
      BY ONLY <3>1, <2>p, <2>s, CountMoves
    <3> QED
      BY ONLY <3>2, <3>3
  <2>3. TypeOK'
    BY <2>p, <2>1 DEF Places
  <2>4. NoTimeouts'
    BY <2>p, <2>1 DEF NoTimeouts, WaiterPlaces, NotifierPlaces
  <2>5. GateOnce'
    BY <2>1, <2>2, <2>c DEF GateOnce
  <2>6. AllCounted'
    BY <2>1, <2>c DEF AllCounted
  <2>7. HandedOut'
    BY <2>p, <2>1, <2>2 DEF HandedOut, At, Inside
  <2>8. AllNotified'
    BY <2>p, <2>1, <2>2 DEF AllNotified, At, Inside, Waiting
  <2> QED
    BY <2>3, <2>4, <2>5, <2>6, <2>7, <2>8
<1> QED
  BY <1>1, <1>2, <1>3

LEMMA InvStep ==
  ASSUME Inv, OneHands, Timed = {}, [Next]_vars
  PROVE  Inv'
<1>1. CASE UNCHANGED vars
  BY <1>1 DEF vars, locals, counters, history, Inv, TypeOK, NoTimeouts, GateOnce, AllCounted,
              HandedOut, AllNotified, At, Count, Waiting
<1>2. ASSUME NEW t \in Waiters,
             \/ Lock(t) \/ Unlock(t)
             \/ WaitBegin(t) \/ WaitGate(t) \/ Announce(t) \/ Dequeue(t) \/ TimeOut(t)
             \/ WaitEnd(t) \/ Relock(t)
      PROVE  Inv'
  BY <1>2, InvQuiet, InvWait, InvWaitEnd DEF Threads
<1>3. ASSUME NEW t \in Notifiers,
             (\E m, a \in BOOLEAN : NotifyBegin(t, m, a)) \/ NotifyEnd(t)
      PROVE  Inv'
  BY <1>3, InvQuiet, InvNotify DEF NotifyEnd, Threads
<1> QED
  BY <1>1, <1>2, <1>3 DEF Next

\* The inductive invariant, which timedWait and notify_ keep without time-outs.
THEOREM InvHolds ==
  ASSUME Timed = {}
  PROVE  Spec => []Inv
<1>1. Inv /\ OneHands /\ [Next]_vars => Inv'
  BY InvStep
<1> QED
  BY InvInit, OneHandsHolds, <1>1, PTL DEF Spec

-----------------------------------------------------------------------------

\* As long as nobody times out, whatever number of threads wait and notify:
\* the counters of timedWait and notify_ know every waiter, and a release of
\* m_blockLock never finds the gate open.
THEOREM WaitersCounted ==
  ASSUME Timed = {}
  PROVE  Spec => []WaitersAccounted
<1>1. Inv => WaitersAccounted
  <2> SUFFICES ASSUME Inv PROVE WaitersAccounted
    OBVIOUS
  <2>1. Cardinality(Waiting) = Count(Sleeping)
    BY WaitingAt DEF Count
  <2> QED
    BY <2>1 DEF Inv, TypeOK, NoTimeouts, GateOnce, AllCounted, WaitersAccounted
<1> QED
  BY InvHolds, <1>1, PTL

\* As long as nobody times out, a wait ends only after a notification that
\* came after the waiter had let go of the gate: no waiter that arrives while
\* a notification is handed out takes a token of it.
THEOREM OnlyNotifiedWake ==
  ASSUME Timed = {}
  PROVE  Spec => []TrueMeansNotified
<1>1. Inv => TrueMeansNotified
  BY DEF Inv, AllNotified, TrueMeansNotified, At, Inside, Waiting, Threads
<1> QED
  BY InvHolds, <1>1, PTL

-----------------------------------------------------------------------------
(* One thread waits, with a period, and may time out *)

AlonePlaces(w) ==
  /\ pc[w] \in {"out", "in", "gate", "count", "queue", "enter", "overflow", "drain", "relock"}
  /\ \A t \in Notifiers : pc[t] \in NotifierPlaces
  /\ pc[w] = "overflow" => At({"notifyGate"}) = {}

\* The gate is shut by the thread in front of its wait, or for a notification.
AloneGate(w) ==
  /\ blockLock = IF pc[w] \in {"count", "drain"} \/ waitersToUnblock = 1 THEN 0 ELSE 1
  /\ ~failed

\* A token is on its way for a notification until the thread has taken it: in
\* Dequeue, or in Drain if it timed out meanwhile.
Taken(w) == pc[w] = "enter" /\ ~timedOut[w]
AloneTokens(w) ==
  /\ Taken(w) => waitersToUnblock = 1
  /\ pc[w] = "drain" => gone[w] \in {0, 1}
  /\ blockQueue + Count({"post"}) =
       IF pc[w] = "drain" THEN gone[w]
       ELSE IF waitersToUnblock = 1 /\ ~Taken(w) THEN 1 ELSE 0

\* The thread is counted once, and its former waits as often in waitersGone as
\* in waitersBlocked.
AloneCounted(w) ==
  /\ waitersBlocked + waitersToUnblock
       = waitersGone + IF pc[w] \in Sleeping THEN 1 ELSE 0
  /\ waitersToUnblock \in {0, 1}
  /\ waitersToUnblock = 1 => pc[w] \in Sleeping /\ waitersBlocked = 0 /\ waitersGone = 0
  /\ waitersGone <= GoneLimit /\ (waitersGone = GoneLimit <=> pc[w] = "overflow")
  /\ At({"notifyGate"}) # {} => waitersBlocked > waitersGone

AloneNotified(w) ==
  /\ waitersToUnblock = 1 => w \in notified
  /\ pc[w] \in {"overflow", "drain", "relock"} /\ ~timedOut[w] => w \in notified

AloneInv(w) ==
  /\ TypeOK /\ AlonePlaces(w) /\ AloneGate(w) /\ AloneTokens(w) /\ AloneCounted(w)
  /\ AloneNotified(w)

\* The thread moves, and no notifier does.
LEMMA AloneMoves ==
  ASSUME NEW w, Waiters = {w}, AloneInv(w), NEW to,
         to \notin {"post", "notifyGate"}, pc' = [pc EXCEPT ![w] = to]
  PROVE  /\ pc'[w] = to /\ At({"notifyGate"})' = At({"notifyGate"})
         /\ Count({"post"})' = Count({"post"}) /\ Count({"post"}) \in Nat
         /\ \A t \in Notifiers : pc'[t] = pc[t]
<1>1. /\ TypeOK /\ w \in Threads /\ w \notin Notifiers
      /\ pc[w] \notin {"post"} /\ pc[w] \notin {"notifyGate"}
  BY ThreadsAssumption DEF AloneInv, AlonePlaces, Threads
<1>2. to \notin {"post"} /\ to \notin {"notifyGate"}
  OBVIOUS
<1>3. Count({"post"})' = Count({"post"}) /\ Count({"post"}) \in Nat
  BY ONLY <1>1, <1>2, CountMoves, pc' = [pc EXCEPT ![w] = to]
<1>4. At({"notifyGate"})' = At({"notifyGate"})
  BY ONLY <1>1, <1>2, CountMoves, pc' = [pc EXCEPT ![w] = to]
<1> QED
  BY <1>1, <1>3, <1>4 DEF TypeOK

LEMMA AloneInit ==
  ASSUME NEW w, Waiters = {w}, Init
  PROVE  AloneInv(w)
<1> USE DEF Init
<1>1. TypeOK
  BY DEF TypeOK, Places, Threads
<1>2. At({"notifyGate"}) = {} /\ Count({"post"}) = 0 /\ w \in Threads
  <2>1. At({"notifyGate"}) = {} /\ At({"post"}) = {}
    BY DEF At
  <2> QED
    BY <1>1, <2>1, CountPositive DEF Threads
<1>3. AlonePlaces(w)
  BY <1>2 DEF AlonePlaces, NotifierPlaces, Threads
<1>4. AloneGate(w) /\ AloneTokens(w) /\ AloneNotified(w)
  BY <1>2 DEF AloneGate, AloneTokens, AloneNotified, Taken
<1>5. AloneCounted(w)
  BY <1>2, GoneLimitAssumption DEF AloneCounted, Sleeping
<1> QED
  BY <1>1, <1>3, <1>4, <1>5 DEF AloneInv

\* What stands still when the thread moves without touching the counters.
LEMMA AloneStill ==
  ASSUME NEW w, Waiters = {w}, AloneInv(w), NEW to \in {"out", "in", "gate"},
         pc[w] \in {"out", "in", "relock"},
         pc' = [pc EXCEPT ![w] = to], TypeOK',
         UNCHANGED <<blockLock, blockQueue, counters, failed>>
  PROVE  AloneInv(w)'
<1> USE DEF counters
<1>1. /\ pc'[w] = to /\ At({"notifyGate"})' = At({"notifyGate"})
      /\ Count({"post"})' = Count({"post"}) /\ \A t \in Notifiers : pc'[t] = pc[t]
  BY AloneMoves
<1>2. AlonePlaces(w)'
  BY <1>1 DEF AloneInv, AlonePlaces
<1>3. waitersToUnblock = 0
  BY DEF AloneInv, AloneCounted, Sleeping
<1>4. AloneGate(w)' /\ AloneTokens(w)' /\ AloneNotified(w)'
  BY <1>1, <1>3 DEF AloneInv, AloneGate, AloneTokens, AloneNotified, Taken
<1>5. AloneCounted(w)'
  BY <1>1 DEF AloneInv, AloneCounted, Sleeping
<1> QED
  BY <1>2, <1>4, <1>5 DEF AloneInv

LEMMA AloneQuiet ==
  ASSUME NEW w, Waiters = {w}, AloneInv(w),
         Lock(w) \/ Unlock(w) \/ WaitBegin(w) \/ Relock(w)
  PROVE  AloneInv(w)'
<1> USE DEF Lock, Unlock, WaitBegin, Relock, Go
<1>1. PICK to \in {"out", "in", "gate"} : pc' = [pc EXCEPT ![w] = to]
  OBVIOUS
<1>2. pc[w] \in {"out", "in", "relock"} /\ UNCHANGED <<blockLock, blockQueue, counters, failed>>
  OBVIOUS
<1>3. TypeOK'
  BY <1>1, <1>2 DEF AloneInv, TypeOK, Places, locals, counters, history
<1> QED
  BY ONLY <1>1, <1>2, <1>3, AloneStill, AloneInv(w), Waiters = {w}

\* It passes the gate, is counted, and is woken or times out.
LEMMA AloneWait ==
  ASSUME NEW w, Waiters = {w}, AloneInv(w),
         WaitGate(w) \/ Announce(w) \/ Dequeue(w) \/ TimeOut(w)
  PROVE  AloneInv(w)'
<1> USE DEF Go, locals, counters, history
<1>0. TypeOK /\ w \in Waiters
  BY DEF AloneInv
<1>1. CASE WaitGate(w)
  <2>1. /\ pc[w] = "gate" /\ pc' = [pc EXCEPT ![w] = "count"] /\ blockLock > 0
        /\ blockLock' = blockLock - 1
        /\ UNCHANGED <<withMutex, all, locals, blockQueue, counters, failed, history>>
    BY <1>1 DEF WaitGate, PassGate
  <2>2. /\ pc'[w] = "count" /\ At({"notifyGate"})' = At({"notifyGate"})
        /\ Count({"post"})' = Count({"post"}) /\ \A t \in Notifiers : pc'[t] = pc[t]
    BY <2>1, AloneMoves
  <2>3. blockLock = 1 /\ waitersToUnblock = 0
    BY <2>1 DEF AloneInv, AloneGate, AloneCounted, Sleeping
  <2>4. TypeOK'
    <3>1. pc' \in [Threads -> Places]
      BY <1>0, <2>1 DEF TypeOK, Places
    <3> QED
      BY <1>0, <2>1, <2>3, <3>1 DEF TypeOK
  <2>5. AlonePlaces(w)'
    BY <2>2 DEF AloneInv, AlonePlaces
  <2>6. AloneGate(w)' /\ AloneTokens(w)' /\ AloneNotified(w)'
    BY <2>1, <2>2, <2>3 DEF AloneInv, AloneGate, AloneTokens, AloneNotified, Taken
  <2>7. AloneCounted(w)'
    BY <2>1, <2>2 DEF AloneInv, AloneCounted, Sleeping
  <2> QED
    BY <2>4, <2>5, <2>6, <2>7 DEF AloneInv
<1>2. CASE Announce(w)
  <2>1. /\ pc[w] = "count" /\ pc' = [pc EXCEPT ![w] = "queue"]
        /\ blockLock' = 1 /\ failed' = (failed \/ blockLock = 1)
        /\ waitersBlocked' = waitersBlocked + 1
        /\ UNCHANGED <<withMutex, all, locals, blockQueue, waitersGone, waitersToUnblock, history>>
    BY <1>2 DEF Announce, OpenGate
  <2>2. /\ pc'[w] = "queue" /\ At({"notifyGate"})' = At({"notifyGate"})
        /\ Count({"post"})' = Count({"post"}) /\ \A t \in Notifiers : pc'[t] = pc[t]
    BY <2>1, AloneMoves
  <2>3. blockLock = 0 /\ waitersToUnblock = 0 /\ ~failed
    BY <2>1 DEF AloneInv, AloneGate, AloneCounted, Sleeping
  <2>f. failed' = FALSE
    <3>1. (failed \/ blockLock = 1) = FALSE
      BY ONLY <2>3
    <3> QED
      BY ONLY <2>1, <3>1
  <2>4. TypeOK'
    <3>1. pc' \in [Threads -> Places]
      BY <1>0, <2>1 DEF TypeOK, Places
    <3> QED
      BY <1>0, <2>1, <2>f, <3>1 DEF TypeOK
  <2>5. AlonePlaces(w)'
    BY <2>2 DEF AloneInv, AlonePlaces
  <2>6. AloneGate(w)' /\ AloneTokens(w)' /\ AloneNotified(w)'
    BY <2>1, <2>2, <2>3, <2>f DEF AloneInv, AloneGate, AloneTokens, AloneNotified, Taken
  <2>7. AloneCounted(w)'
    BY <1>0, <2>1, <2>2, <2>3 DEF AloneInv, AloneCounted, Sleeping, TypeOK
  <2> QED
    BY <2>4, <2>5, <2>6, <2>7 DEF AloneInv
<1>3. CASE Dequeue(w)
  <2>1. /\ pc[w] = "queue" /\ pc' = [pc EXCEPT ![w] = "enter"]
        /\ blockQueue > 0 /\ blockQueue' = blockQueue - 1
        /\ timedOut' = [timedOut EXCEPT ![w] = FALSE]
        /\ UNCHANGED <<withMutex, all, gone, blockLock, counters, failed, history>>
    BY <1>3 DEF Dequeue
  <2>2. /\ pc'[w] = "enter" /\ At({"notifyGate"})' = At({"notifyGate"})
        /\ Count({"post"})' = Count({"post"}) /\ Count({"post"}) \in Nat
        /\ \A t \in Notifiers : pc'[t] = pc[t]
    BY <2>1, AloneMoves
  <2>3. blockQueue = 1 /\ Count({"post"}) = 0 /\ waitersToUnblock = 1
    BY <1>0, <2>1, <2>2 DEF AloneInv, AloneTokens, Taken, TypeOK
  <2>t. timedOut'[w] = FALSE
    BY <1>0, <2>1 DEF TypeOK
  <2>4. TypeOK'
    <3>1. pc' \in [Threads -> Places]
      BY <1>0, <2>1 DEF TypeOK, Places
    <3> QED
      BY <1>0, <2>1, <2>3, <3>1 DEF TypeOK
  <2>5. AlonePlaces(w)'
    BY <2>2 DEF AloneInv, AlonePlaces
  <2>6. AloneGate(w)' /\ AloneNotified(w)'
    BY <2>1, <2>2, <2>3 DEF AloneInv, AloneGate, AloneNotified
  <2>7. AloneTokens(w)'
    BY <2>1, <2>2, <2>3, <2>t DEF AloneTokens, Taken
  <2>8. AloneCounted(w)'
    BY <2>1, <2>2 DEF AloneInv, AloneCounted, Sleeping
  <2> QED
    BY <2>4, <2>5, <2>6, <2>7, <2>8 DEF AloneInv
<1>4. CASE TimeOut(w)
  <2>1. /\ pc[w] = "queue" /\ pc' = [pc EXCEPT ![w] = "enter"]
        /\ timedOut' = [timedOut EXCEPT ![w] = TRUE]
        /\ UNCHANGED <<withMutex, all, gone, blockLock, blockQueue, counters, failed, history>>
    BY <1>4 DEF TimeOut
  <2>2. /\ pc'[w] = "enter" /\ At({"notifyGate"})' = At({"notifyGate"})
        /\ Count({"post"})' = Count({"post"}) /\ \A t \in Notifiers : pc'[t] = pc[t]
    BY <2>1, AloneMoves
  <2>t. timedOut'[w] = TRUE
    BY <1>0, <2>1 DEF TypeOK
  <2>4. TypeOK'
    BY <1>0, <2>1 DEF TypeOK, Places
  <2>5. AlonePlaces(w)'
    BY <2>2 DEF AloneInv, AlonePlaces
  <2>6. AloneGate(w)' /\ AloneNotified(w)'
    BY <2>1, <2>2 DEF AloneInv, AloneGate, AloneNotified
  <2>7. AloneTokens(w)'
    BY <2>1, <2>2, <2>t DEF AloneInv, AloneTokens, Taken
  <2>8. AloneCounted(w)'
    BY <2>1, <2>2 DEF AloneInv, AloneCounted, Sleeping
  <2> QED
    BY <2>4, <2>5, <2>6, <2>7, <2>8 DEF AloneInv
<1> QED
  BY <1>1, <1>2, <1>3, <1>4

\* It takes m_unblockLock.  If it timed out while a notification is handed out,
\* it leaves the token for Drain.
LEMMA AloneUnblock ==
  ASSUME NEW w, Waiters = {w}, AloneInv(w), Unblock(w)
  PROVE  AloneInv(w)'
<1> PICK g : g = IF timedOut[w] THEN 1 ELSE 0
  OBVIOUS
<1>0. TypeOK /\ w \in Waiters /\ g \in {0, 1}
  BY DEF AloneInv
<1>1. /\ pc[w] = "enter" /\ waitersToUnblock # 0 /\ At({"notifyGate"}) = {}
  BY DEF Unblock, Go, UnblockLockFree, At
<1>2. waitersToUnblock = 1 /\ waitersBlocked = 0 /\ waitersGone = 0
  BY <1>1 DEF AloneInv, AloneCounted
<1>3. /\ pc' = [pc EXCEPT ![w] = "drain"]
      /\ waitersBlocked' = 0 /\ waitersToUnblock' = 0 /\ waitersGone' = 0
      /\ gone' = [gone EXCEPT ![w] = g] /\ due' = due \ {w}
      /\ UNCHANGED <<withMutex, all, timedOut, blockLock, blockQueue, failed, notified>>
  BY <1>1, <1>2 DEF Unblock, Go, AfterUnblock
<1>4. /\ pc'[w] = "drain" /\ At({"notifyGate"})' = At({"notifyGate"})
      /\ Count({"post"})' = Count({"post"}) /\ \A t \in Notifiers : pc'[t] = pc[t]
  BY <1>3, AloneMoves
<1>5. TypeOK'
  <2>1. pc' \in [Threads -> Places] /\ gone' \in [Waiters -> Nat]
    BY <1>0, <1>3 DEF TypeOK, Places
  <2> QED
    BY <1>0, <1>3, <2>1 DEF TypeOK
<1>6. AlonePlaces(w)'
  BY <1>4 DEF AloneInv, AlonePlaces
<1>7. AloneGate(w)'
  BY <1>2, <1>3, <1>4 DEF AloneInv, AloneGate
<1>8. AloneNotified(w)'
  BY <1>2, <1>3 DEF AloneInv, AloneNotified
<1>9. AloneTokens(w)'
  <2>1. blockQueue + Count({"post"}) = g
    BY <1>1, <1>2 DEF AloneInv, AloneTokens, Taken
  <2>2. gone'[w] = g
    BY <1>0, <1>3 DEF TypeOK
  <2> QED
    BY <1>0, <1>3, <1>4, <2>1, <2>2 DEF AloneTokens, Taken
<1>10. AloneCounted(w)'
  BY <1>1, <1>3, <1>4, GoneLimitAssumption DEF AloneCounted, Sleeping
<1> QED
  BY <1>5, <1>6, <1>7, <1>8, <1>9, <1>10 DEF AloneInv

\* Nothing is handed out: it timed out and counts itself out.
LEMMA AloneLeave ==
  ASSUME NEW w, Waiters = {w}, AloneInv(w), Leave(w) \/ Overflow(w)
  PROVE  AloneInv(w)'
<1>0. TypeOK /\ w \in Waiters
  BY DEF AloneInv
<1>1. CASE Leave(w)
  <2> PICK to : to = IF waitersGone + 1 = GoneLimit THEN "overflow" ELSE "relock"
    OBVIOUS
  <2>1. /\ pc[w] = "enter" /\ pc' = [pc EXCEPT ![w] = to]
        /\ waitersToUnblock = 0 /\ At({"notifyGate"}) = {}
        /\ waitersGone' = waitersGone + 1 /\ gone' = [gone EXCEPT ![w] = 0] /\ due' = due \ {w}
        /\ UNCHANGED <<withMutex, all, timedOut, blockLock, blockQueue, waitersBlocked,
                       waitersToUnblock, failed, notified>>
    BY <1>1 DEF Leave, Go, UnblockLockFree, At
  <2>2. /\ pc'[w] = to /\ At({"notifyGate"})' = At({"notifyGate"}) /\ to \in {"overflow", "relock"}
        /\ Count({"post"})' = Count({"post"}) /\ \A t \in Notifiers : pc'[t] = pc[t]
    BY <2>1, AloneMoves
  <2>3. TypeOK'
    <3>1. pc' \in [Threads -> Places] /\ gone' \in [Waiters -> Nat]
      BY <1>0, <2>1, <2>2 DEF TypeOK, Places
    <3> QED
      BY <1>0, <2>1, <3>1 DEF TypeOK
  <2>4. timedOut[w]
    BY <2>1 DEF AloneInv, AloneTokens, Taken
  <2>5. AlonePlaces(w)'
    BY <2>1, <2>2 DEF AloneInv, AlonePlaces
  <2>6. AloneGate(w)' /\ AloneNotified(w)'
    BY <2>1, <2>2, <2>4 DEF AloneInv, AloneGate, AloneNotified
  <2>7. AloneTokens(w)'
    BY <2>1, <2>2, <2>4 DEF AloneInv, AloneTokens, Taken
  <2>8. AloneCounted(w)'
    <3>1. /\ waitersBlocked = waitersGone + 1 /\ waitersGone <= GoneLimit /\ waitersGone # GoneLimit
          /\ waitersGone \in Nat /\ waitersBlocked \in Nat
      BY <1>0, <2>1 DEF AloneInv, AloneCounted, Sleeping, TypeOK
    <3>2. /\ waitersGone' <= GoneLimit
          /\ waitersGone' = GoneLimit <=> to = "overflow"
      BY <2>1, <3>1, GoneLimitAssumption
    <3> QED
      BY <2>1, <2>2, <3>1, <3>2 DEF AloneCounted, Sleeping
  <2> QED
    BY <2>3, <2>5, <2>6, <2>7, <2>8 DEF AloneInv
<1>2. CASE Overflow(w)
  <2>1. /\ pc[w] = "overflow" /\ pc' = [pc EXCEPT ![w] = "relock"]
        /\ waitersBlocked' = waitersBlocked - waitersGone /\ waitersGone' = 0
        /\ UNCHANGED <<withMutex, all, timedOut, gone, blockLock, blockQueue, waitersToUnblock,
                       failed, notified, due>>
    BY <1>2 DEF Overflow, Go, locals, history
  <2>2. /\ pc'[w] = "relock" /\ At({"notifyGate"})' = At({"notifyGate"})
        /\ Count({"post"})' = Count({"post"}) /\ \A t \in Notifiers : pc'[t] = pc[t]
    BY <2>1, AloneMoves
  <2>3. waitersToUnblock = 0 /\ waitersBlocked' = 0 /\ At({"notifyGate"}) = {}
    BY <1>0, <2>1 DEF AloneInv, AloneCounted, AlonePlaces, Sleeping, TypeOK
  <2>4. TypeOK'
    <3>1. pc' \in [Threads -> Places]
      BY <1>0, <2>1 DEF TypeOK, Places
    <3> QED
      BY <1>0, <2>1, <2>3, <3>1 DEF TypeOK
  <2>5. AlonePlaces(w)'
    BY <2>2 DEF AloneInv, AlonePlaces
  <2>6. AloneGate(w)' /\ AloneTokens(w)'
    BY <2>1, <2>2, <2>3 DEF AloneInv, AloneGate, AloneTokens, Taken
  <2>7. AloneNotified(w)'
    BY <2>1, <2>2 DEF AloneInv, AloneNotified
  <2>8. AloneCounted(w)'
    BY <2>1, <2>2, <2>3, GoneLimitAssumption DEF AloneCounted, Sleeping
  <2> QED
    BY <2>4, <2>5, <2>6, <2>7, <2>8 DEF AloneInv
<1> QED
  BY <1>1, <1>2

\* It is the one the notification was for, and takes the token it left behind.
LEMMA AloneDrain ==
  ASSUME NEW w, Waiters = {w}, AloneInv(w), Drain(w)
  PROVE  AloneInv(w)'
<1>0. TypeOK /\ w \in Waiters /\ pc[w] = "drain"
  BY DEF AloneInv, Drain, Go
<1>1. /\ blockLock = 0 /\ waitersToUnblock = 0 /\ ~failed /\ ~Taken(w) /\ gone[w] \in {0, 1}
      /\ blockQueue + Count({"post"}) = gone[w]
  BY <1>0 DEF AloneInv, AloneGate, AloneTokens, AloneCounted, Sleeping, Taken
<1>2. CASE gone[w] > 0
  <2>1. /\ pc' = [pc EXCEPT ![w] = "drain"]
        /\ blockQueue > 0 /\ blockQueue' = blockQueue - 1
        /\ gone' = [gone EXCEPT ![w] = @ - 1]
        /\ UNCHANGED <<withMutex, all, timedOut, blockLock, counters, failed, history>>
    BY <1>0, <1>2 DEF Drain, Go
  <2>2. /\ pc'[w] = "drain" /\ At({"notifyGate"})' = At({"notifyGate"})
        /\ Count({"post"})' = Count({"post"}) /\ Count({"post"}) \in Nat
        /\ \A t \in Notifiers : pc'[t] = pc[t]
    BY <2>1, AloneMoves
  <2>3. gone[w] = 1 /\ blockQueue = 1 /\ Count({"post"}) = 0 /\ gone'[w] = 0
    BY <1>0, <1>1, <1>2, <2>1, <2>2 DEF TypeOK
  <2>4. TypeOK'
    <3>1. pc' \in [Threads -> Places]
      BY <1>0, <2>1 DEF TypeOK, Places
    <3>2. gone' \in [Waiters -> Nat]
      BY <1>0, <2>1, <2>3 DEF TypeOK
    <3> QED
      BY <1>0, <2>1, <2>3, <3>1, <3>2 DEF TypeOK, counters, history
  <2>5. AlonePlaces(w)'
    BY <2>2 DEF AloneInv, AlonePlaces
  <2>6. AloneGate(w)' /\ AloneNotified(w)'
    BY <1>0, <2>1, <2>2 DEF AloneInv, AloneGate, AloneNotified, counters, history
  <2>7. AloneTokens(w)'
    BY <2>1, <2>2, <2>3 DEF AloneTokens, Taken
  <2>8. AloneCounted(w)'
    BY <1>0, <2>1, <2>2 DEF AloneInv, AloneCounted, Sleeping, counters
  <2> QED
    BY <2>4, <2>5, <2>6, <2>7, <2>8 DEF AloneInv
<1>3. CASE ~(gone[w] > 0)
  <2>1. /\ pc' = [pc EXCEPT ![w] = "relock"]
        /\ blockLock' = 1 /\ failed' = (failed \/ blockLock = 1)
        /\ UNCHANGED <<withMutex, all, locals, blockQueue, counters, history>>
    BY <1>3 DEF Drain, Go, OpenGate
  <2>f. failed' = FALSE
    <3>1. (failed \/ blockLock = 1) = FALSE
      BY ONLY <1>1
    <3> QED
      BY ONLY <2>1, <3>1
  <2>2. /\ pc'[w] = "relock" /\ At({"notifyGate"})' = At({"notifyGate"})
        /\ Count({"post"})' = Count({"post"}) /\ \A t \in Notifiers : pc'[t] = pc[t]
    BY <2>1, AloneMoves
  <2>3. blockQueue + Count({"post"}) = 0
    BY <1>1, <1>3
  <2>4. TypeOK'
    <3>1. pc' \in [Threads -> Places]
      BY <1>0, <2>1 DEF TypeOK, Places
    <3> QED
      BY <1>0, <2>1, <2>f, <3>1 DEF TypeOK, locals, counters, history
  <2>5. AlonePlaces(w)'
    BY <2>2 DEF AloneInv, AlonePlaces
  <2>6. AloneGate(w)' /\ AloneNotified(w)'
    BY <1>0, <1>1, <2>1, <2>2, <2>f DEF AloneInv, AloneGate, AloneNotified, locals, counters, history
  <2>7. AloneTokens(w)'
    BY <1>1, <2>1, <2>2, <2>3 DEF AloneTokens, Taken, counters
  <2>8. AloneCounted(w)'
    BY <1>0, <2>1, <2>2 DEF AloneInv, AloneCounted, Sleeping, counters
  <2> QED
    BY <2>4, <2>5, <2>6, <2>7, <2>8 DEF AloneInv
<1> QED
  BY <1>2, <1>3

-----------------------------------------------------------------------------

\* A notifier moves, and the thread does not.
LEMMA AloneNotifierMoves ==
  ASSUME NEW w, Waiters = {w}, AloneInv(w), NEW t \in Notifiers, NEW to \in NotifierPlaces,
         pc' = [pc EXCEPT ![t] = to]
  PROVE  /\ pc'[w] = pc[w] /\ t # w /\ pc' \in [Threads -> Places]
         /\ \A u \in Notifiers : pc'[u] \in NotifierPlaces
         /\ to # "notifyGate" => At({"notifyGate"})' = At({"notifyGate"}) \ {t}
         /\ to = "notifyGate" => At({"notifyGate"})' = At({"notifyGate"}) \cup {t}
<1>1. TypeOK /\ w \in Threads /\ t \in Threads /\ w \notin Notifiers
  BY ThreadsAssumption DEF AloneInv, Threads
<1>2. to \in Places
  BY DEF NotifierPlaces, Places
<1>3. pc'[w] = pc[w] /\ t # w /\ pc' \in [Threads -> Places] /\ pc'[t] = to
  BY <1>1, <1>2 DEF TypeOK
<1>4. \A u \in Notifiers : pc'[u] \in NotifierPlaces
  <2>1. \A u \in Notifiers : u \in Threads /\ pc[u] \in NotifierPlaces
    BY DEF AloneInv, AlonePlaces, Threads
  <2> QED
    BY <1>1, <2>1 DEF TypeOK
<1>5. \A u \in Threads : u # t => pc'[u] = pc[u]
  BY <1>1 DEF TypeOK
<1>6. to # "notifyGate" => At({"notifyGate"})' = At({"notifyGate"}) \ {t}
  BY <1>1, <1>3, <1>5 DEF At
<1>7. to = "notifyGate" => At({"notifyGate"})' = At({"notifyGate"}) \cup {t}
  BY <1>1, <1>3, <1>5 DEF At
<1> QED
  BY <1>3, <1>4, <1>6, <1>7

\* A notifier that neither shuts the gate nor posts a token.
LEMMA AloneNotifyQuiet ==
  ASSUME NEW w, Waiters = {w}, AloneInv(w), NEW t \in Notifiers,
         \/ \E m, a \in BOOLEAN : NotifyBegin(t, m, a)
         \/ NotifyMore(t) \/ NotifyFirst(t) \/ NotifyNobody(t)
  PROVE  AloneInv(w)'
<1> USE DEF Go, Return, locals, counters, history
<1>0. TypeOK /\ w \in Waiters /\ t \in Threads
  BY DEF AloneInv, Threads
<1>1. PICK to \in {"out", "notify", "notifyGate"} :
        /\ pc[t] \in {"out", "notify"} /\ pc' = [pc EXCEPT ![t] = to]
        /\ to = "notifyGate" =>
             waitersToUnblock = 0 /\ waitersBlocked > waitersGone /\ pc[w] # "overflow"
  BY <1>0 DEF NotifyBegin, NotifyMore, NotifyFirst, NotifyNobody, UnblockLockFree, Threads
<1>2. waitersToUnblock # 0 => waitersBlocked = 0
  BY DEF AloneInv, AloneCounted
<1>3. /\ UNCHANGED <<timedOut, gone, blockLock, blockQueue, counters, failed, history>>
      /\ withMutex' \in [Notifiers -> BOOLEAN] /\ all' \in [Notifiers -> BOOLEAN]
  <2>1. CASE \E m, a \in BOOLEAN : NotifyBegin(t, m, a)
    BY <1>0, <2>1 DEF NotifyBegin, TypeOK
  <2>2. CASE NotifyMore(t)
    BY <1>0, <1>2, <2>2 DEF NotifyMore, TypeOK
  <2>3. CASE NotifyFirst(t)
    BY <1>0, <2>3 DEF NotifyFirst, TypeOK
  <2>4. CASE NotifyNobody(t)
    BY <1>0, <2>4 DEF NotifyNobody, TypeOK
  <2> QED
    BY <2>1, <2>2, <2>3, <2>4
<1>4. to \in NotifierPlaces
  BY DEF NotifierPlaces
<1>5. /\ pc'[w] = pc[w] /\ pc' \in [Threads -> Places]
      /\ \A u \in Notifiers : pc'[u] \in NotifierPlaces
      /\ to # "notifyGate" => At({"notifyGate"})' = At({"notifyGate"}) \ {t}
  BY ONLY <1>1, <1>4, AloneNotifierMoves, Waiters = {w}, AloneInv(w), t \in Notifiers
<1>6. Count({"post"})' = Count({"post"})
  <2>1. pc[t] \notin {"post"} /\ to \notin {"post"}
    BY <1>1
  <2> QED
    BY ONLY <1>0, <1>1, <2>1, CountMoves
<1>7. TypeOK'
  BY <1>0, <1>3, <1>5 DEF TypeOK
<1>8. AlonePlaces(w)'
  BY <1>1, <1>5 DEF AloneInv, AlonePlaces
<1>9. AloneGate(w)' /\ AloneTokens(w)' /\ AloneNotified(w)'
  BY <1>3, <1>5, <1>6 DEF AloneInv, AloneGate, AloneTokens, AloneNotified, Taken
<1>10. AloneCounted(w)'
  BY <1>1, <1>3, <1>5 DEF AloneInv, AloneCounted
<1> QED
  BY <1>7, <1>8, <1>9, <1>10 DEF AloneInv

\* A notifier shuts the gate, and posts the token.
LEMMA AloneNotify ==
  ASSUME NEW w, Waiters = {w}, AloneInv(w), OneHands, NEW t \in Notifiers,
         NotifyGate(t) \/ Post(t)
  PROVE  AloneInv(w)'
<1> USE DEF Go, Return, locals, counters, history
<1>0. TypeOK /\ w \in Waiters /\ t \in Threads
  BY DEF AloneInv, Threads
<1>1. CASE NotifyGate(t)
  <2>1. /\ pc[t] = "notifyGate" /\ pc' = [pc EXCEPT ![t] = "post"]
        /\ blockLock > 0 /\ blockLock' = blockLock - 1 /\ waitersGone' = 0
        /\ Hand(t, waitersBlocked - waitersGone)
        /\ UNCHANGED <<withMutex, all, timedOut, gone, blockQueue, failed>>
    BY <1>1 DEF NotifyGate, PassGate
  <2>2. blockLock = 1 /\ waitersToUnblock = 0 /\ pc[w] \notin {"count", "drain"}
    BY <2>1 DEF AloneInv, AloneGate, AloneCounted
  <2>3. waitersBlocked - waitersGone = 1 /\ pc[w] \in Sleeping
    <3>1. waitersBlocked > waitersGone
      BY <1>0, <2>1 DEF AloneInv, AloneCounted, At
    <3> QED
      BY <1>0, <2>2, <3>1 DEF AloneInv, AloneCounted, TypeOK
  <2>4. /\ waitersToUnblock' = 1 /\ waitersBlocked' = 0
        /\ notified' = notified \cup Waiting /\ due' \subseteq Waiters
    BY <1>0, <2>1, <2>2, <2>3 DEF Hand, Waiting, TypeOK
  <2>5. w \in Waiting /\ Waiting \subseteq Waiters
    BY <1>0, <2>3 DEF Waiting, Sleeping
  <2>6. /\ pc'[w] = pc[w] /\ pc' \in [Threads -> Places]
        /\ \A u \in Notifiers : pc'[u] \in NotifierPlaces
        /\ At({"notifyGate"})' = At({"notifyGate"}) \ {t}
    BY <2>1, AloneNotifierMoves DEF NotifierPlaces
  <2>7. At({"notifyGate"})' = {}
    BY <1>0, <2>1, <2>6 DEF At, OneHands
  <2>8. Count({"post"})' = Count({"post"}) + 1 /\ Count({"post"}) \in Nat
    <3>1. pc[t] \notin {"post"} /\ "post" \in {"post"}
      BY <2>1
    <3> QED
      BY ONLY <1>0, <2>1, <3>1, CountMoves
  <2>9. ~Taken(w) /\ blockQueue + Count({"post"}) = 0
    BY <2>2 DEF AloneInv, AloneTokens
  <2>10. TypeOK'
    BY <1>0, <2>1, <2>2, <2>4, <2>5, <2>6 DEF TypeOK
  <2>11. AlonePlaces(w)'
    BY <2>6, <2>7 DEF AloneInv, AlonePlaces
  <2>12. AloneGate(w)'
    BY <2>1, <2>2, <2>4 DEF AloneInv, AloneGate
  <2>13. AloneTokens(w)'
    <3>1. ~Taken(w)' /\ pc'[w] # "drain" /\ waitersToUnblock' = 1
      BY <2>1, <2>2, <2>4, <2>6, <2>9 DEF Taken
    <3>2. blockQueue' + Count({"post"})' = 1
      BY <1>0, <2>1, <2>8, <2>9 DEF TypeOK
    <3> QED
      BY <3>1, <3>2 DEF AloneTokens
  <2>14. AloneNotified(w)'
    BY <2>4, <2>5 DEF AloneNotified
  <2>15. AloneCounted(w)'
    BY <2>1, <2>3, <2>4, <2>6, <2>7, GoneLimitAssumption DEF AloneCounted, Sleeping
  <2> QED
    BY <2>10, <2>11, <2>12, <2>13, <2>14, <2>15 DEF AloneInv
<1>2. CASE Post(t)
  <2>1. /\ pc[t] = "post" /\ pc' = [pc EXCEPT ![t] = "out"]
        /\ withMutex' \in [Notifiers -> BOOLEAN] /\ all' \in [Notifiers -> BOOLEAN]
        /\ blockQueue' = blockQueue + 1
        /\ UNCHANGED <<timedOut, gone, blockLock, counters, failed, history>>
    BY <1>0, <1>2 DEF Post, TypeOK
  <2>2. /\ pc'[w] = pc[w] /\ pc' \in [Threads -> Places]
        /\ \A u \in Notifiers : pc'[u] \in NotifierPlaces
        /\ At({"notifyGate"})' = At({"notifyGate"}) \ {t}
    BY <2>1, AloneNotifierMoves DEF NotifierPlaces
  <2>3. Count({"post"})' = Count({"post"}) - 1 /\ Count({"post"}) \in Nat
    <3>1. pc[t] \in {"post"} /\ "out" \notin {"post"}
      BY <2>1
    <3> QED
      BY ONLY <1>0, <2>1, <3>1, CountMoves
  <2>4. TypeOK'
    BY <1>0, <2>1, <2>2 DEF TypeOK
  <2>5. AlonePlaces(w)'
    BY <2>2 DEF AloneInv, AlonePlaces
  <2>6. AloneGate(w)' /\ AloneNotified(w)'
    BY <2>1, <2>2 DEF AloneInv, AloneGate, AloneNotified
  <2>7. AloneTokens(w)'
    <3>1. blockQueue' + Count({"post"})' = blockQueue + Count({"post"})
      BY <1>0, <2>1, <2>3 DEF TypeOK
    <3> QED
      BY <2>1, <2>2, <3>1 DEF AloneInv, AloneTokens, Taken
  <2>8. AloneCounted(w)'
    BY <2>1, <2>2 DEF AloneInv, AloneCounted
  <2> QED
    BY <2>4, <2>5, <2>6, <2>7, <2>8 DEF AloneInv
<1> QED
  BY <1>1, <1>2

LEMMA AloneStep ==
  ASSUME NEW w, Waiters = {w}, AloneInv(w), OneHands, [Next]_vars
  PROVE  AloneInv(w)'
<1>1. CASE UNCHANGED vars
  BY <1>1 DEF vars, locals, counters, history, AloneInv, TypeOK, AlonePlaces, AloneGate,
              AloneTokens, AloneCounted, AloneNotified, Taken, At, Count
<1>2. ~PassOn(w)
  BY DEF AloneInv, AlonePlaces, PassOn, Go
<1>3. ASSUME NEW t \in Waiters,
             \/ Lock(t) \/ Unlock(t)
             \/ WaitBegin(t) \/ WaitGate(t) \/ Announce(t) \/ Dequeue(t) \/ TimeOut(t)
             \/ WaitEnd(t) \/ Relock(t)
      PROVE  AloneInv(w)'
  <2>1. t = w
    OBVIOUS
  <2> QED
    BY <1>2, <1>3, <2>1, AloneQuiet, AloneWait, AloneUnblock, AloneLeave, AloneDrain DEF WaitEnd
<1>4. ASSUME NEW t \in Notifiers,
             (\E m, a \in BOOLEAN : NotifyBegin(t, m, a)) \/ NotifyEnd(t)
      PROVE  AloneInv(w)'
  BY <1>4, AloneNotifyQuiet, AloneNotify DEF NotifyEnd
<1> QED
  BY <1>1, <1>3, <1>4 DEF Next

\* The only thread that waits, with or without a period, and any number of
\* notifiers: a time-out that races a notification leaves the counters exact
\* and the gate to whoever shut it.
THEOREM AloneWaiterCounted ==
  ASSUME NEW CONSTANT w, Waiters = {w}
  PROVE  Spec => []WaitersAccounted
<1>1. Init => AloneInv(w)
  BY AloneInit
<1>2. AloneInv(w) /\ OneHands /\ [Next]_vars => AloneInv(w)'
  BY AloneStep
<1>3. AloneInv(w) => WaitersAccounted
  <2> SUFFICES ASSUME AloneInv(w) PROVE WaitersAccounted
    OBVIOUS
  <2>1. Cardinality(Waiting) = IF pc[w] \in Sleeping THEN 1 ELSE 0
    <3>1. CASE pc[w] \in Sleeping
      <4>1. Waiting = {w}
        BY <3>1 DEF Waiting, Sleeping
      <4> QED
        BY <3>1, <4>1, FS_Singleton
    <3>2. CASE pc[w] \notin Sleeping
      <4>1. Waiting = {}
        BY <3>2 DEF Waiting, Sleeping
      <4> QED
        BY <3>2, <4>1, FS_EmptySet
    <3> QED
      BY <3>1, <3>2
  <2>2. /\ waitersBlocked + waitersToUnblock = waitersGone + Cardinality(Waiting)
        /\ Cardinality(Waiting) \in Nat
    BY <2>1 DEF AloneInv, AloneCounted
  <2>3. waitersBlocked \in Nat /\ waitersToUnblock \in Nat /\ waitersGone \in Nat /\ ~failed
    BY DEF AloneInv, AloneGate, TypeOK
  <2>4. waitersBlocked - waitersGone + waitersToUnblock = Cardinality(Waiting)
    BY ONLY <2>2, <2>3
  <2> QED
    BY <2>3, <2>4 DEF WaitersAccounted
<1> QED
  BY <1>1, <1>2, <1>3, OneHandsHolds, PTL DEF Spec

\* It returns true only if it was notified, however the period and the
\* notification overlap.
THEOREM AloneWaiterNotified ==
  ASSUME NEW CONSTANT w, Waiters = {w}
  PROVE  Spec => []TrueMeansNotified
<1>1. Init => AloneInv(w)
  BY AloneInit
<1>2. AloneInv(w) /\ OneHands /\ [Next]_vars => AloneInv(w)'
  BY AloneStep
<1>3. AloneInv(w) => TrueMeansNotified
  BY DEF AloneInv, AloneTokens, AloneNotified, Taken, TrueMeansNotified
<1> QED
  BY <1>1, <1>2, <1>3, OneHandsHolds, PTL DEF Spec
=============================================================================
