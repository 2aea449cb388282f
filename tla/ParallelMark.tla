---------------------------- MODULE ParallelMark ----------------------------
(***************************************************************************)
(* Parallel marking of the conservative garbage collector: markParallel,   *)
(* mark, scanBackground and the start and stop of the scan threads         *)
(* (druntime/src/core/internal/gc/impl/conservative/gc.d), on the events   *)
(* of druntime/src/core/sync/event.d as built for POSIX.                   *)
(*                                                                         *)
(* Thread 0 is the thread that collects; the world is stopped while it is  *)
(* in markParallel.  1 .. N are the scan threads.  A range of memory to    *)
(* scan is named by the object that occupies it, or by the number of the   *)
(* scan thread for whom a part of the roots was put aside; what counts of  *)
(* it is the set of objects its words point to.  Each range is pushed at   *)
(* most once per collection, so that stacks are sets; which one is popped  *)
(* first does not matter.                                                  *)
(*                                                                         *)
(* A section under stackLock is one step.  So is a call of an event: what  *)
(* it does under its mutex does not wait, except for pthread_cond_wait.    *)
(***************************************************************************)
EXTENDS Integers, FiniteSets, Sequences

CONSTANTS
  N,           \* numScanThreads
  Objects,     \* allocated blocks of the heap
  Succ,        \* Succ[o]: the objects that words of o point to
  StackSize,   \* the length of mark's local stack
  RootLists,   \* what collectAllRoots may find: sequences of objects
  None         \* no object

Scanners == 1 .. N
Threads == 0 .. N

ASSUME NAssumption == N \in Nat
ASSUME HeapAssumption ==
  /\ IsFiniteSet(Objects) /\ Objects \cap Scanners = {}
  /\ Succ \in [Objects -> SUBSET Objects]
  /\ None \notin Objects
ASSUME StackSizeAssumption == StackSize \in Nat \ {0}
ASSUME RootsAssumption == RootLists \subseteq Seq(Objects)

VARIABLES
  pc,          \* where each thread is, see Places
  rng,         \* the rest of the range t scans: objects not looked at yet
  tgt,         \* a range t has found and has no room for, or None
  local,       \* t's stack of ranges
  scanStack,   \* the common stack of ranges
  share,       \* the parts of the roots put aside for the scan threads
  roots,       \* toscanRoots of this collection, as a set
  marked,      \* mark bits
  busy,        \* busyThreads
  filled,      \* state of the event evStackFilled (manual reset)
  done,        \* state of the event evDone (automatic reset)
  stopGC, stopped, started   \* stopGC, stoppedThreads, threads really created

scanning == <<rng, tgt, local>>
heap == <<share, roots, marked>>
stopping == <<stopGC, stopped, started>>
vars == <<pc, scanning, scanStack, heap, busy, filled, done, stopping>>

\* "scan" is mark on the range that markParallel keeps for itself, "mark" is
\* mark on a range from the common stack, "marked" the end of markParallel.
Places == {"none", "start", "run", "push", "scan", "mark", "pull", "pulled", "doneWait", "finish",
           "marked", "stopSet", "stopWait", "join", "terminated",
           "check", "wait", "asleep", "signal", "stopping", "stopped", "ended"}

InMark(t) == pc[t] \in {"scan", "mark"}

Ranges == Objects \cup Scanners
Content(r) == IF r \in Scanners THEN share[r] ELSE Succ[r]

\* The objects that must survive, given the roots: the smallest set that has
\* the roots and is closed under Succ.
Closed(S) == \A o \in S : Succ[o] \subseteq S
Reachable(R) == {o \in Objects : \A S \in SUBSET Objects : R \subseteq S /\ Closed(S) => o \in S}

Go(t, from, to) == pc[t] = from /\ pc' = [pc EXCEPT ![t] = to]

\* Event.setIfInitialized on evStackFilled: whoever waits is woken, after the
\* step moved the threads to the places pcs.
Awake(pcs) == [t \in Threads |-> IF pcs[t] = "asleep" THEN "pull" ELSE pcs[t]]

Init ==
  /\ pc = [t \in Threads |-> IF t = 0 THEN "start" ELSE "none"]
  /\ rng = [t \in Threads |-> {}]
  /\ tgt = [t \in Threads |-> None]
  /\ local = [t \in Threads |-> {}]
  /\ scanStack = {}
  /\ share = [i \in Scanners |-> {}]
  /\ roots = {} /\ marked = {}
  /\ busy = 0
  /\ filled = FALSE /\ done = FALSE
  /\ stopGC = FALSE /\ stopped = 0 /\ started = {}

-----------------------------------------------------------------------------
(* The thread that collects *)

\* startScanThreads; createLowLevelThread may fail for some of them.
StartScanThreads ==
  /\ pc[0] = "start"
  /\ started' \in SUBSET Scanners
  /\ pc' = [t \in Threads |-> IF t = 0 THEN "run" ELSE
                              IF t \in started' THEN "check" ELSE "none"]
  /\ UNCHANGED <<scanning, scanStack, heap, busy, filled, done, stopGC, stopped>>

\* The mark bits are cleared and the roots collected; without roots
\* markParallel returns.
MarkBegin ==
  /\ \E r \in RootLists \ {<<>>} :
       LET n == Len(r)
           k == n \div (N + 1)
       IN
       /\ roots' = {r[j] : j \in 1 .. n}
       /\ share' = [i \in Scanners |-> {r[j] : j \in (i - 1) * k + 1 .. i * k}]
       /\ rng' = [rng EXCEPT ![0] = {r[j] : j \in N * k + 1 .. n}]
       /\ Go(0, "run", IF k > 0 THEN "push" ELSE "scan")
  /\ marked' = {}
  /\ UNCHANGED <<tgt, local, scanStack, busy, filled, done, stopping>>

\* pushRanges
PushRanges ==
  /\ pc[0] = "push"
  /\ pc' = Awake([pc EXCEPT ![0] = "scan"])
  /\ scanStack' = scanStack \cup Scanners
  /\ filled' = TRUE
  /\ UNCHANGED <<scanning, heap, busy, done, stopping>>

\* evDone.wait(1.msecs): the state is reset unless the wait timed out.
DoneWait(from, to) ==
  /\ Go(0, from, to)
  /\ done' \in {done, FALSE}
  /\ UNCHANGED <<scanning, scanStack, heap, busy, filled, stopping>>

\* The last statement of markParallel.
Finish ==
  /\ Go(0, "finish", "marked")
  /\ filled' = FALSE
  /\ UNCHANGED <<scanning, scanStack, heap, busy, done, stopping>>

\* The world runs again; the roots are not used any more, nor, after the
\* sweep, are the mark bits.
Return ==
  /\ Go(0, "marked", "run")
  /\ roots' = {} /\ marked' = {}
  /\ share' = [i \in Scanners |-> {}]
  /\ UNCHANGED <<scanning, scanStack, busy, filled, done, stopping>>

StopBegin ==
  /\ Go(0, "run", "stopSet")
  /\ stopGC' = TRUE
  /\ UNCHANGED <<scanning, scanStack, heap, busy, filled, done, stopped, started>>

\* Fault: the threads are not woken.
StopSet_Silent ==
  /\ Go(0, "stopSet", IF stopped < Cardinality(started) THEN "stopWait" ELSE "join")
  /\ UNCHANGED <<scanning, scanStack, heap, busy, filled, done, stopping>>

StopSet ==
  /\ pc[0] = "stopSet"
  /\ IF stopped < Cardinality(started)
       THEN pc' = Awake([pc EXCEPT ![0] = "stopWait"]) /\ filled' = TRUE
       ELSE pc' = [pc EXCEPT ![0] = "join"] /\ UNCHANGED filled
  /\ UNCHANGED <<scanning, scanStack, heap, busy, done, stopping>>

\* Fault: the events are destroyed without waiting for the threads.
Join_NoWait ==
  /\ Go(0, "join", "terminated")
  /\ UNCHANGED <<scanning, scanStack, heap, busy, filled, done, stopping>>

\* joinLowLevelThread on each of them; then the events are destroyed.
Join ==
  /\ \A t \in started : pc[t] = "ended"
  /\ Go(0, "join", "terminated")
  /\ UNCHANGED <<scanning, scanStack, heap, busy, filled, done, stopping>>

-----------------------------------------------------------------------------
(* mark, in any thread *)

\* A word of the range.  An object that was not marked yet is scanned next if
\* it was the last word, otherwise its range is put aside.
Visit(t, o) ==
  LET rest == rng[t] \ {o}
      new  == o \notin marked
      full == Cardinality(local[t]) >= StackSize
  IN
  /\ InMark(t) /\ tgt[t] = None /\ o \in rng[t]
  /\ marked' = marked \cup {o}
  /\ rng' = [rng EXCEPT ![t] = IF new /\ rest = {} THEN Succ[o] ELSE rest]
  /\ local' = [local EXCEPT ![t] = IF new /\ rest # {} /\ ~full THEN @ \cup {o} ELSE @]
  /\ tgt' = [tgt EXCEPT ![t] = IF new /\ rest # {} /\ full THEN o ELSE None]
  /\ UNCHANGED <<pc, scanStack, share, roots, busy, filled, done, stopping>>

\* Fault: the range in hand is forgotten.
PushLocked_Loses(t) ==
  /\ tgt[t] # None
  /\ scanStack' = scanStack \cup local[t]
  /\ local' = [local EXCEPT ![t] = {}]
  /\ tgt' = [tgt EXCEPT ![t] = None]
  /\ IF scanStack = {} THEN filled' = TRUE /\ pc' = Awake(pc) ELSE UNCHANGED <<filled, pc>>
  /\ UNCHANGED <<rng, heap, busy, done, stopping>>

\* scanStackPushLocked: all of the full local stack is given away.
PushLocked(t) ==
  /\ tgt[t] # None
  /\ scanStack' = scanStack \cup local[t]
  /\ local' = [local EXCEPT ![t] = {tgt[t]}]
  /\ tgt' = [tgt EXCEPT ![t] = None]
  /\ IF scanStack = {} THEN filled' = TRUE /\ pc' = Awake(pc) ELSE UNCHANGED <<filled, pc>>
  /\ UNCHANGED <<rng, heap, busy, done, stopping>>

PopLocal(t, r) ==
  /\ InMark(t) /\ tgt[t] = None /\ rng[t] = {}
  /\ r \in local[t]
  /\ local' = [local EXCEPT ![t] = @ \ {r}]
  /\ rng' = [rng EXCEPT ![t] = Content(r)]
  /\ UNCHANGED <<pc, tgt, scanStack, heap, busy, filled, done, stopping>>

\* ToScanStack.pop, with evStackFilled.reset() when it was the last one.
Pop(t, r) ==
  /\ r \in scanStack
  /\ scanStack' = scanStack \ {r}
  /\ filled' = (filled /\ scanStack' # {})
  /\ rng' = [rng EXCEPT ![t] = Content(r)]

\* scanStackPopLocked; mark ends when the common stack is empty, too.
PopLocked(t) ==
  /\ InMark(t) /\ tgt[t] = None /\ rng[t] = {} /\ local[t] = {}
  /\ \/ \E r \in scanStack : Pop(t, r) /\ UNCHANGED pc
     \/ /\ scanStack = {}
        /\ pc' = [pc EXCEPT ![t] = IF @ = "scan" THEN "pull" ELSE "pulled"]
        /\ UNCHANGED <<scanStack, filled, rng>>
  /\ UNCHANGED <<tgt, local, heap, busy, done, stopping>>

-----------------------------------------------------------------------------
(* pullFromScanStackImpl *)

AfterPull(t, cont) ==
  IF t = 0 THEN IF cont THEN "doneWait" ELSE "finish" ELSE "signal"

\* Fault: a thread counts as busy only while it holds the lock.
Pull_Uncounted(t) ==
  /\ pc[t] \in {"pull", "pulled"}
  /\ \/ \E r \in scanStack : Pop(t, r) /\ pc' = [pc EXCEPT ![t] = "mark"]
     \/ /\ scanStack = {}
        /\ pc' = [pc EXCEPT ![t] = AfterPull(t, busy > 0)]
        /\ UNCHANGED <<scanStack, filled, rng>>
  /\ UNCHANGED <<tgt, local, heap, busy, done, stopping>>

\* A section under stackLock: the end of the previous round ("pulled") and
\* the test of the loop, with the beginning of the next round or the return.
Pull(t) ==
  LET others == IF pc[t] = "pulled" THEN busy - 1 ELSE busy IN
  /\ pc[t] \in {"pull", "pulled"}
  /\ \/ \E r \in scanStack :
          /\ Pop(t, r)
          /\ busy' = others + 1
          /\ pc' = [pc EXCEPT ![t] = "mark"]
     \/ /\ scanStack = {}
        /\ busy' = others
        /\ pc' = [pc EXCEPT ![t] = AfterPull(t, others > 0)]
        /\ UNCHANGED <<scanStack, filled, rng>>
  /\ UNCHANGED <<tgt, local, heap, done, stopping>>

-----------------------------------------------------------------------------
(* scanBackground *)

CheckStop(t) ==
  /\ Go(t, "check", IF stopGC THEN "stopping" ELSE "wait")
  /\ UNCHANGED <<scanning, scanStack, heap, busy, filled, done, stopping>>

\* evStackFilled.wait()
Wait(t) ==
  /\ Go(t, "wait", IF filled THEN "pull" ELSE "asleep")
  /\ UNCHANGED <<scanning, scanStack, heap, busy, filled, done, stopping>>

\* pthread_cond_wait may return without a reason, and Event.wait with it.
SpuriousWake(t) ==
  /\ Go(t, "asleep", "pull")
  /\ UNCHANGED <<scanning, scanStack, heap, busy, filled, done, stopping>>

SignalDone(t) ==
  /\ Go(t, "signal", "check")
  /\ done' = TRUE
  /\ UNCHANGED <<scanning, scanStack, heap, busy, filled, stopping>>

CountStopped(t) ==
  /\ Go(t, "stopping", "stopped")
  /\ stopped' = stopped + 1
  /\ UNCHANGED <<scanning, scanStack, heap, busy, filled, done, stopGC, started>>

End(t) ==
  /\ Go(t, "stopped", "ended")
  /\ done' = TRUE
  /\ UNCHANGED <<scanning, scanStack, heap, busy, filled, stopping>>

-----------------------------------------------------------------------------

Collector ==
  \/ PushRanges \/ DoneWait("doneWait", "pull") \/ Finish \/ Return
  \/ StopSet \/ DoneWait("stopWait", "stopSet") \/ Join

Scan(t) ==
  \/ \E o \in rng[t] : Visit(t, o)
  \/ \E r \in local[t] : PopLocal(t, r)
  \/ PushLocked(t) \/ PopLocked(t) \/ Pull(t)

Background(t) ==
  CheckStop(t) \/ Wait(t) \/ SignalDone(t) \/ CountStopped(t) \/ End(t)

Next ==
  \/ StartScanThreads \/ MarkBegin \/ StopBegin \/ Collector
  \/ \E t \in Threads : Scan(t)
  \/ \E t \in Scanners : Background(t) \/ SpuriousWake(t)

Spec == Init /\ [][Next]_vars

\* Every thread that can go on does; stackLock is not withheld from a thread
\* that wants it.
Fairness ==
  /\ WF_vars(Collector)
  /\ \A t \in Threads : WF_vars(Scan(t))
  /\ \A t \in Scanners : WF_vars(Background(t))

FairSpec == Spec /\ Fairness

-----------------------------------------------------------------------------
(* Properties *)

TypeOK ==
  /\ pc \in [Threads -> Places]
  /\ rng \in [Threads -> SUBSET Objects]
  /\ tgt \in [Threads -> Objects \cup {None}]
  /\ local \in [Threads -> SUBSET Ranges]
  /\ scanStack \subseteq Ranges
  /\ share \in [Scanners -> SUBSET Objects]
  /\ roots \subseteq Objects /\ marked \subseteq Objects
  /\ busy \in Nat
  /\ filled \in BOOLEAN /\ done \in BOOLEAN
  /\ stopGC \in BOOLEAN /\ stopped \in Nat /\ started \subseteq Scanners

\* When markParallel returns exactly the objects that can be reached from the
\* roots are marked: nothing that is in use is going to be swept.
NothingMissed == pc[0] = "marked" => marked = Reachable(roots)

\* Nobody scans, or has anything left to scan, when the world runs.
Collecting == {"push", "scan", "mark", "pull", "pulled", "doneWait"}
QuietWorld ==
  pc[0] \notin Collecting =>
    /\ scanStack = {} /\ busy = 0
    /\ \A t \in Threads : ~InMark(t) /\ rng[t] = {} /\ tgt[t] = None /\ local[t] = {}

\* No scan thread sleeps, or is going to, while the common stack has work.
WorkSignalled ==
  scanStack # {} => filled /\ \A t \in Scanners : pc[t] # "asleep"

\* busyThreads is exactly the number of threads that work on a range they
\* took from the common stack.
BusyExact == busy = Cardinality({t \in Threads : pc[t] \in {"mark", "pulled"}})

\* The events are destroyed after their last use.
EventsOutlive ==
  pc[0] = "terminated" => \A t \in Scanners : pc[t] \in {"none", "ended"}

MarkingEnds == pc[0] \in Collecting ~> pc[0] = "marked"
StoppingEnds == pc[0] = "stopSet" ~> pc[0] = "terminated"

\* markParallel and stopScanThreads return, with any number of scan threads
\* that were really created: nobody waits for an event that nobody will set.
CallsReturn == MarkingEnds /\ StoppingEnds
=============================================================================
