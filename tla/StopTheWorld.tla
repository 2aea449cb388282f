---------------------------- MODULE StopTheWorld ----------------------------
(***************************************************************************)
(* The registry of threads and stop-the-world, as built for Linux and the  *)
(* BSDs: druntime/src/core/thread/threadbase.d, osthread.d, posix_impl.d.  *)
(*                                                                         *)
(* A thread is a Thread object and, once started, an operating-system      *)
(* thread that runs thread_entryPoint.  The registry is the pair of lists  *)
(* sm_tbeg (threads) and sm_cbeg (stacks to scan) with the array           *)
(* pAboutToStart, all guarded by the recursive mutex slock; their order    *)
(* does not matter and they are sets here.  thread_suspendAll sends every  *)
(* registered thread a signal, whose handler posts suspendCount and sleeps *)
(* in sigsuspend until the resume signal comes.                            *)
(*                                                                         *)
(* Signals are sent with slock held, and slock is held until the world     *)
(* runs again, so a section under slock that neither waits nor sends       *)
(* signals is one step.  What is read or written without slock             *)
(* (multiThreadedFlag, m_isRunning, the first test of remove, the fast     *)
(* paths of suspendAll and resumeAll) has steps of its own.                *)
(***************************************************************************)
EXTENDS Integers, FiniteSets

CONSTANTS
  Main,            \* the thread that ran thread_init
  Workers,         \* Thread objects that are passed to start()
  Foreign,         \* threads of other origin that call thread_attachThis
  Kept,            \* Thread objects to which the program keeps a reference
  Detaching,       \* what is detached: the calling thread ("this"), another one
                   \* ("instance"), even when that one is ending ("exiting")
  AttachEarly,     \* whether a foreign thread may be the first thread besides Main
  MaxDepth,        \* bound on nested calls of thread_suspendAll
  None             \* no owner of slock

Threads == {Main} \cup Workers \cup Foreign

ASSUME ThreadsAssumption ==
  /\ IsFiniteSet(Workers) /\ IsFiniteSet(Foreign)
  /\ Main \notin Workers \cup Foreign /\ Workers \cap Foreign = {}
  /\ None \notin Threads
ASSUME KeptAssumption == Kept \subseteq Workers
ASSUME DetachAssumption == Detaching \subseteq {"this", "instance", "exiting"}
ASSUME AttachAssumption == AttachEarly \in BOOLEAN
ASSUME MaxDepthAssumption == MaxDepth \in Nat \ {0}

VARIABLES
  pc,             \* where each thread is in its own code, see Places
  target,         \* target[t]: the object t is starting, or joining
  wasThreaded,    \* wasThreaded of a thread in start()
  registered,     \* sm_tbeg
  tlen,           \* sm_tlen
  contexts,       \* sm_cbeg, main stacks only
  aboutToStart,   \* pAboutToStart
  isRunning,      \* m_isRunning of each object
  slock,          \* the owner of slock, or None
  lockCount,      \* how often the owner has locked it
  multiThreaded,  \* multiThreadedFlag
  suspendDepth,   \* suspendDepth
  todo,           \* the threads suspendAll or resumeAll has still to visit
  cnt,            \* suspendAll's cnt, without the calling thread
  suspendCount,   \* the semaphore
  sigSuspend,     \* threads with a pending suspend signal
  sigResume,      \* threads with a pending resume signal
  mode,           \* "code", or where in thread_suspendHandler a thread is
  freed           \* Thread objects the collector has finalized and freed

local == <<target, wasThreaded>>
registry == <<registered, tlen, contexts, aboutToStart>>
lock == <<slock, lockCount>>
stopping == <<suspendDepth, todo, cnt>>
signals == <<suspendCount, sigSuspend, sigResume, mode>>
vars == <<pc, local, registry, isRunning, lock, multiThreaded, stopping, signals, freed>>

Places ==
  {"new", "entry", "addctx", "run", "detached", "remove", "removed", "destroy", "dead",
   "starting", "suspending", "waiting", "stopped", "resuming",
   "joinAll", "join", "joined",
   "foreign", "attach", "attachctx", "attachflag"}

\* Places before and after the life of an operating-system thread.
Lifeless == {"new", "foreign", "dead"}

-----------------------------------------------------------------------------
(* Control: t executes its own code and moves from one place to another.   *)

Go(t, from, to) ==
  /\ pc[t] = from
  /\ mode[t] = "code"
  /\ pc' = [pc EXCEPT ![t] = to]

\* The section of t under slock that this step is.
Locked(t) == slock \in {None, t}

Acquire(t) == Locked(t) /\ slock' = t /\ lockCount' = lockCount + 1

Unlock(t) ==
  /\ lockCount' = lockCount - 1
  /\ slock' = IF lockCount = 1 THEN None ELSE t

\* ThreadBase.add and ThreadBase.remove, under slock
Add(t) == registered' = registered \cup {t} /\ tlen' = tlen + 1

Remove(ts) ==
  /\ registered' = registered \ ts
  /\ contexts' = contexts \ ts
  /\ tlen' = tlen - Cardinality(ts)

Init ==
  /\ pc = [t \in Threads |-> IF t = Main THEN "run" ELSE
                              IF t \in Workers THEN "new" ELSE "foreign"]
  /\ target = [t \in Threads |-> t]
  /\ wasThreaded = [t \in Threads |-> FALSE]
  /\ registered = {Main} /\ tlen = 1 /\ contexts = {Main}
  /\ aboutToStart = {}
  /\ isRunning = [t \in Threads |-> t = Main]
  /\ slock = None /\ lockCount = 0
  /\ multiThreaded = FALSE
  /\ suspendDepth = 0 /\ todo = {} /\ cnt = 0
  /\ suspendCount = 0 /\ sigSuspend = {} /\ sigResume = {}
  /\ mode = [t \in Threads |-> "code"]
  /\ freed = {}

-----------------------------------------------------------------------------
(* Thread.start *)

\* The flag is set before slock is taken.
StartBegin(t, u) ==
  /\ u \in Workers /\ pc[u] = "new" /\ \A v \in Threads : v # u => target[v] # u
  /\ Go(t, "run", "starting")
  /\ target' = [target EXCEPT ![t] = u]
  /\ wasThreaded' = [wasThreaded EXCEPT ![t] = multiThreaded]
  /\ multiThreaded' = TRUE
  /\ UNCHANGED <<registry, isRunning, lock, stopping, signals, freed>>

\* Fault: the new thread is not recorded until it registers itself.
StartCreate_Unrecorded(t) ==
  LET u == target[t] IN
  /\ pc[t] = "starting" /\ mode[t] = "code" /\ Locked(t)
  /\ pc' = [pc EXCEPT ![t] = "run", ![u] = "entry"]
  /\ target' = [target EXCEPT ![t] = t]
  /\ isRunning' = [isRunning EXCEPT ![u] = TRUE]
  /\ UNCHANGED <<wasThreaded, registry, lock, multiThreaded, stopping, signals, freed>>

\* incrementAboutToStart, m_isRunning and pthread_create under slock.
StartCreate(t) ==
  LET u == target[t] IN
  /\ pc[t] = "starting" /\ mode[t] = "code" /\ Locked(t)
  /\ pc' = [pc EXCEPT ![t] = "run", ![u] = "entry"]
  /\ target' = [target EXCEPT ![t] = t]
  /\ aboutToStart' = aboutToStart \cup {u}
  /\ isRunning' = [isRunning EXCEPT ![u] = TRUE]
  /\ UNCHANGED <<wasThreaded, registered, tlen, contexts, lock, multiThreaded, stopping,
                 signals, freed>>

\* pthread_create failed: what the section did is undone, and the flag goes
\* back to what it was.
StartFail(t) ==
  /\ Go(t, "starting", "run") /\ Locked(t)
  /\ target' = [target EXCEPT ![t] = t]
  /\ multiThreaded' = (multiThreaded /\ wasThreaded[t])
  /\ UNCHANGED <<wasThreaded, registry, isRunning, lock, stopping, signals, freed>>

-----------------------------------------------------------------------------
(* thread_entryPoint *)

\* initDataStorage touches only the object; registerThis is one section.
Register(u) ==
  /\ Go(u, "entry", "addctx") /\ Locked(u)
  /\ aboutToStart' = aboutToStart \ {u}
  /\ Add(u)
  /\ UNCHANGED <<local, contexts, isRunning, lock, multiThreaded, stopping, signals, freed>>

AddContext(u) ==
  /\ Go(u, "addctx", "run") /\ Locked(u)
  /\ contexts' = contexts \cup {u}
  /\ UNCHANGED <<local, registered, tlen, aboutToStart, isRunning, lock, multiThreaded,
                 stopping, signals, freed>>

\* The thread function is over; remove(obj) first looks, without slock,
\* whether the thread was detached before.
RemoveCheck(u) ==
  /\ u \in Workers
  /\ \/ u \in registered /\ Go(u, "run", "remove")
     \/ u \notin registered /\ Go(u, "detached", "removed")
  /\ UNCHANGED <<local, registry, isRunning, lock, multiThreaded, stopping, signals, freed>>

RemoveLocked(u) ==
  /\ Go(u, "remove", "removed") /\ Locked(u)
  /\ Remove({u})
  /\ UNCHANGED <<local, aboutToStart, isRunning, lock, multiThreaded, stopping, signals, freed>>

\* The rest of scope(exit), on an object that is not registered any more.
StopRunning(u) ==
  /\ Go(u, "removed", "destroy")
  /\ isRunning' = [isRunning EXCEPT ![u] = FALSE]
  /\ UNCHANGED <<local, registry, lock, multiThreaded, stopping, signals, freed>>

DestroyDataStorage(u) ==
  /\ Go(u, "destroy", "dead")
  /\ UNCHANGED <<local, registry, isRunning, lock, multiThreaded, stopping, signals, freed>>

\* pthread_exit or cancellation: thread_cleanupHandler only resets the flag.
\* A signal that is pending is handled before the thread ends.
AbnormalExit(u) ==
  /\ u \in Workers /\ u \notin sigSuspend
  /\ Go(u, "run", "dead")
  /\ isRunning' = [isRunning EXCEPT ![u] = FALSE]
  /\ UNCHANGED <<local, registry, lock, multiThreaded, stopping, signals, freed>>

-----------------------------------------------------------------------------
(* thread_detachThis, thread_detachInstance, thread_attachThis *)

DetachThis(u) ==
  /\ "this" \in Detaching /\ u # Main
  /\ Go(u, "run", "detached") /\ Locked(u)
  /\ Remove({u})
  /\ UNCHANGED <<local, aboutToStart, isRunning, lock, multiThreaded, stopping, signals, freed>>

\* u may be anywhere between the start of its function and its own remove.
DetachInstance(t, u) ==
  /\ "instance" \in Detaching /\ t # u /\ u \in Workers /\ u \in registered
  /\ pc[t] = "run" /\ mode[t] = "code" /\ Locked(t)
  /\ pc[u] = "run" \/ ("exiting" \in Detaching /\ pc[u] = "remove")
  /\ pc' = [pc EXCEPT ![u] = IF @ = "run" THEN "detached" ELSE @]
  /\ Remove({u})
  /\ UNCHANGED <<local, aboutToStart, isRunning, lock, multiThreaded, stopping, signals, freed>>

\* attachThread, up to its first use of slock
Attach(f) ==
  /\ AttachEarly \/ \E u \in Workers : pc[u] # "new"
  /\ Go(f, "foreign", "attach")
  /\ isRunning' = [isRunning EXCEPT ![f] = TRUE]
  /\ UNCHANGED <<local, registry, lock, multiThreaded, stopping, signals, freed>>

AttachAdd(f) ==
  /\ Go(f, "attach", "attachctx") /\ Locked(f)
  /\ Add(f)
  /\ UNCHANGED <<local, contexts, aboutToStart, isRunning, lock, multiThreaded, stopping,
                 signals, freed>>

AttachContext(f) ==
  /\ Go(f, "attachctx", "attachflag") /\ Locked(f)
  /\ contexts' = contexts \cup {f}
  /\ UNCHANGED <<local, registered, tlen, aboutToStart, isRunning, lock, multiThreaded,
                 stopping, signals, freed>>

AttachFlag(f) ==
  /\ Go(f, "attachflag", "run")
  /\ multiThreaded' = TRUE
  /\ UNCHANGED <<local, registry, isRunning, lock, stopping, signals, freed>>

-----------------------------------------------------------------------------
(* thread_suspendAll *)

\* The fast path: no slock, no signal.
SuspendSelf(t) ==
  /\ ~multiThreaded /\ registered # {}
  /\ suspendDepth < MaxDepth
  /\ Go(t, "run", "stopped") \/ Go(t, "stopped", "stopped")
  /\ suspendDepth' = suspendDepth + 1
  /\ UNCHANGED <<local, registry, isRunning, lock, multiThreaded, todo, cnt, signals, freed>>

SuspendBegin(t) ==
  /\ multiThreaded
  /\ Go(t, "run", "suspending") /\ Acquire(t)
  /\ suspendDepth' = suspendDepth + 1
  /\ todo' = registered /\ cnt' = 0
  /\ UNCHANGED <<local, registry, isRunning, multiThreaded, signals, freed>>

\* A call within a stopped world only counts.
SuspendNested(t) ==
  /\ multiThreaded
  /\ suspendDepth \in 1 .. MaxDepth - 1
  /\ Go(t, "stopped", "stopped") /\ Acquire(t)
  /\ suspendDepth' = suspendDepth + 1
  /\ UNCHANGED <<local, registry, isRunning, multiThreaded, todo, cnt, signals, freed>>

\* Fault: the calling thread counts itself and waits for its own notification.
SuspendOne_CountsSelf(t, u) ==
  /\ u \in todo
  /\ Go(t, "suspending", "suspending")
  /\ todo' = todo \ {u}
  /\ IF isRunning[u]
       THEN /\ sigSuspend' = sigSuspend \cup ({u} \ {t})
            /\ cnt' = cnt + 1
            /\ UNCHANGED <<registered, tlen, contexts>>
       ELSE Remove({u}) /\ UNCHANGED <<cnt, sigSuspend>>
  /\ UNCHANGED <<local, aboutToStart, isRunning, lock, multiThreaded, suspendDepth,
                 suspendCount, sigResume, mode, freed>>

\* suspend(u): a thread that does not run any more is removed, whether
\* m_isRunning says so before the signal or after pthread_kill failed.
SuspendOne(t, u) ==
  /\ u \in todo
  /\ Go(t, "suspending", "suspending")
  /\ todo' = todo \ {u}
  /\ \/ /\ ~isRunning[u]
        /\ Remove({u}) /\ UNCHANGED <<cnt, sigSuspend>>
     \/ /\ isRunning[u] /\ u = t
        /\ UNCHANGED <<registered, tlen, contexts, cnt, sigSuspend>>
     \/ /\ isRunning[u] /\ u # t
        /\ sigSuspend' = sigSuspend \cup {u} /\ cnt' = cnt + 1
        /\ UNCHANGED <<registered, tlen, contexts>>
  /\ UNCHANGED <<local, aboutToStart, isRunning, lock, multiThreaded, suspendDepth,
                 suspendCount, sigResume, mode, freed>>

\* afterStopTheWorld
SuspendWait(t) ==
  /\ todo = {}
  /\ Go(t, "suspending", "waiting")
  /\ UNCHANGED <<local, registry, isRunning, lock, multiThreaded, stopping, signals, freed>>

SemWait(t) ==
  /\ cnt > 0 /\ suspendCount > 0
  /\ Go(t, "waiting", "waiting")
  /\ cnt' = cnt - 1
  /\ suspendCount' = suspendCount - 1
  /\ UNCHANGED <<local, registry, isRunning, lock, multiThreaded, suspendDepth, todo,
                 sigSuspend, sigResume, mode, freed>>

\* Fault: one notification is enough.
SuspendDone_FirstPost(t) ==
  /\ cnt <= 1
  /\ Go(t, "waiting", "stopped")
  /\ UNCHANGED <<local, registry, isRunning, lock, multiThreaded, stopping, signals, freed>>

SuspendDone(t) ==
  /\ cnt = 0
  /\ Go(t, "waiting", "stopped")
  /\ UNCHANGED <<local, registry, isRunning, lock, multiThreaded, stopping, signals, freed>>

-----------------------------------------------------------------------------
(* What the collector does with a stopped world, as far as threads are     *)
(* concerned: it frees Thread objects it cannot reach.  thread_scanAll     *)
(* scans pAboutToStart, the registered stacks and their TLS; the list      *)
(* itself is reachable from sm_tbeg.                                       *)

Reachable(u) ==
  \/ u \in registered \cup aboutToStart \cup Kept
  \/ \E t \in Threads : target[t] = u /\ t # u
  \/ pc[u] = "new"

Collect(t) ==
  /\ Go(t, "stopped", "stopped")
  /\ freed' = freed \cup {u \in Workers : ~Reachable(u)}
  /\ UNCHANGED <<local, registry, isRunning, lock, multiThreaded, stopping, signals>>

-----------------------------------------------------------------------------
(* thread_resumeAll *)

ResumeSelf(t) ==
  /\ ~multiThreaded /\ registered # {}
  /\ Go(t, "stopped", IF suspendDepth = 1 THEN "run" ELSE "stopped")
  /\ suspendDepth' = suspendDepth - 1
  /\ UNCHANGED <<local, registry, isRunning, lock, multiThreaded, todo, cnt, signals, freed>>

ResumeNested(t) ==
  /\ multiThreaded /\ suspendDepth > 1
  /\ Go(t, "stopped", "stopped")
  /\ suspendDepth' = suspendDepth - 1
  /\ Unlock(t)
  /\ UNCHANGED <<local, registry, isRunning, multiThreaded, todo, cnt, signals, freed>>

\* Fault: the list of stacks is walked instead of the list of threads.
ResumeBegin_Contexts(t) ==
  /\ multiThreaded /\ suspendDepth = 1
  /\ Go(t, "stopped", "resuming")
  /\ suspendDepth' = 0
  /\ todo' = contexts \ {t}
  /\ UNCHANGED <<local, registry, isRunning, lock, multiThreaded, cnt, signals, freed>>

ResumeBegin(t) ==
  /\ multiThreaded /\ suspendDepth = 1
  /\ Go(t, "stopped", "resuming")
  /\ suspendDepth' = 0
  /\ todo' = registered \ {t}
  /\ UNCHANGED <<local, registry, isRunning, lock, multiThreaded, cnt, signals, freed>>

ResumeOne(t, u) ==
  /\ u \in todo
  /\ Go(t, "resuming", "resuming")
  /\ todo' = todo \ {u}
  /\ sigResume' = sigResume \cup {u}
  /\ UNCHANGED <<local, registry, isRunning, lock, multiThreaded, suspendDepth, cnt,
                 suspendCount, sigSuspend, mode, freed>>

\* thread_postRestartTheWorld
ResumeDone(t) ==
  /\ todo = {}
  /\ Go(t, "resuming", "run")
  /\ Unlock(t)
  /\ UNCHANGED <<local, registry, isRunning, multiThreaded, stopping, signals, freed>>

-----------------------------------------------------------------------------
(* Signals.  thread_suspendHandler runs with all signals blocked, so a     *)
(* resume signal stays pending until sigsuspend.                           *)

Deliver(u) ==
  /\ u \in sigSuspend /\ mode[u] = "code" /\ pc[u] \notin Lifeless
  /\ sigSuspend' = sigSuspend \ {u}
  /\ mode' = [mode EXCEPT ![u] = "handler"]
  /\ UNCHANGED <<pc, local, registry, isRunning, lock, multiThreaded, stopping,
                 suspendCount, sigResume, freed>>

SemPost(u) ==
  /\ mode[u] = "handler"
  /\ suspendCount' = suspendCount + 1
  /\ mode' = [mode EXCEPT ![u] = "posted"]
  /\ UNCHANGED <<pc, local, registry, isRunning, lock, multiThreaded, stopping,
                 sigSuspend, sigResume, freed>>

\* sigsuspend returns after the resume handler, and the handler ends.
SigSuspend(u) ==
  /\ mode[u] = "posted" /\ u \in sigResume
  /\ sigResume' = sigResume \ {u}
  /\ mode' = [mode EXCEPT ![u] = "code"]
  /\ UNCHANGED <<pc, local, registry, isRunning, lock, multiThreaded, stopping,
                 suspendCount, sigSuspend, freed>>

-----------------------------------------------------------------------------
(* thread_joinAll, called by the main thread at the end of the program.    *)

JoinAllBegin ==
  /\ Go(Main, "run", "joinAll")
  /\ UNCHANGED <<local, registry, isRunning, lock, multiThreaded, stopping, signals, freed>>

\* Fault: threads that are about to start are overlooked.
JoinAllScan_NotStarting ==
  LET dead == {u \in registered : ~isRunning[u]}
      live == {u \in registered \cap Workers : isRunning[u]}
  IN
  /\ pc[Main] = "joinAll" /\ mode[Main] = "code" /\ Locked(Main)
  /\ \/ /\ live = {}
        /\ Remove(dead)
        /\ pc' = [pc EXCEPT ![Main] = "joined"]
        /\ UNCHANGED target
     \/ \E u \in live, gone \in SUBSET dead :
        /\ Remove(gone)
        /\ pc' = [pc EXCEPT ![Main] = "join"]
        /\ target' = [target EXCEPT ![Main] = u]
  /\ UNCHANGED <<wasThreaded, aboutToStart, isRunning, lock, multiThreaded, stopping,
                 signals, freed>>

\* One scan under slock; it is repeated while threads are about to start.
JoinAllScan ==
  LET dead == {u \in registered : ~isRunning[u]}
      live == {u \in registered \cap Workers : isRunning[u]}
  IN
  /\ pc[Main] = "joinAll" /\ mode[Main] = "code" /\ Locked(Main)
  /\ aboutToStart = {}
  /\ \/ /\ live = {}
        /\ Remove(dead)
        /\ pc' = [pc EXCEPT ![Main] = "joined"]
        /\ UNCHANGED target
     \/ \E u \in live, gone \in SUBSET dead :   \* those before u in the list
        /\ Remove(gone)
        /\ pc' = [pc EXCEPT ![Main] = "join"]
        /\ target' = [target EXCEPT ![Main] = u]
  /\ UNCHANGED <<wasThreaded, aboutToStart, isRunning, lock, multiThreaded, stopping,
                 signals, freed>>

\* pthread_join returned: tid is reset, and with it isRunning.
Join ==
  LET u == target[Main] IN
  /\ pc[u] = "dead"
  /\ Go(Main, "join", "joinAll")
  /\ target' = [target EXCEPT ![Main] = Main]
  /\ isRunning' = [isRunning EXCEPT ![u] = FALSE]
  /\ UNCHANGED <<wasThreaded, registry, lock, multiThreaded, stopping, signals, freed>>

-----------------------------------------------------------------------------

Life(t) ==
  \/ StartCreate(t) \/ Register(t) \/ AddContext(t)
  \/ RemoveCheck(t) \/ RemoveLocked(t) \/ StopRunning(t) \/ DestroyDataStorage(t)

Choice(t) ==
  \/ StartFail(t) \/ AbnormalExit(t) \/ DetachThis(t)
  \/ \E u \in Threads : StartBegin(t, u) \/ DetachInstance(t, u)

AttachSteps(t) == Attach(t) \/ AttachAdd(t) \/ AttachContext(t) \/ AttachFlag(t)

Stop(t) ==
  \/ (\E u \in todo : SuspendOne(t, u)) \/ SuspendWait(t) \/ SemWait(t) \/ SuspendDone(t)

Restart(t) ==
  ResumeBegin(t) \/ (\E u \in todo : ResumeOne(t, u)) \/ ResumeDone(t)

Signal(t) == Deliver(t) \/ SemPost(t) \/ SigSuspend(t)

Next ==
  \/ \E t \in Threads :
       \/ Life(t) \/ Choice(t) \/ AttachSteps(t)
       \/ SuspendSelf(t) \/ SuspendBegin(t) \/ SuspendNested(t) \/ Stop(t)
       \/ Collect(t)
       \/ ResumeSelf(t) \/ ResumeNested(t) \/ Restart(t)
       \/ Signal(t)
  \/ JoinAllBegin \/ JoinAllScan \/ Join

Spec == Init /\ [][Next]_vars

\* A thread that stops the world goes on, a pending signal is delivered and
\* handled, and whoever stopped the world leaves the outermost bracket in the
\* end.  Nothing is assumed about who gets slock.
Fairness ==
  \A t \in Threads :
    SF_vars(Stop(t) \/ Restart(t)) /\ WF_vars(ResumeNested(t)) /\ WF_vars(Signal(t))

FairSpec == Spec /\ Fairness

-----------------------------------------------------------------------------
(* Properties *)

Modes == {"code", "handler", "posted"}

TypeOK ==
  /\ pc \in [Threads -> Places]
  /\ target \in [Threads -> Threads] /\ wasThreaded \in [Threads -> BOOLEAN]
  /\ registered \subseteq Threads /\ contexts \subseteq Threads
  /\ aboutToStart \subseteq Threads /\ tlen \in Int
  /\ isRunning \in [Threads -> BOOLEAN]
  /\ slock \in Threads \cup {None} /\ lockCount \in Nat
  /\ multiThreaded \in BOOLEAN
  /\ suspendDepth \in Nat /\ todo \subseteq Threads /\ cnt \in Nat
  /\ suspendCount \in Nat
  /\ sigSuspend \subseteq Threads /\ sigResume \subseteq Threads
  /\ mode \in [Threads -> Modes]
  /\ freed \subseteq Workers

\* Places in which a thread executes code of the program, whose stack can
\* hold the only reference to an object.
Mutating == {"run", "starting", "suspending", "waiting", "stopped", "resuming",
             "joinAll", "join", "joined"}

\* Between the return of suspendAll and resumeAll no other thread executes
\* code of the program, each of them sleeps in its handler, and its stack is
\* on the list that is going to be scanned.
MutatorsStopped ==
  \A t, u \in Threads :
    pc[t] = "stopped" /\ t # u =>
      /\ u \in registered => mode[u] = "posted"
      /\ pc[u] \in Mutating => u \in registered /\ u \in contexts

\* The notifications suspendAll waits for are exactly those on their way, so
\* that no stop returns early because of a notification left by an earlier
\* one, and none waits for a notification that will never come; and
\* "resumeSignalNumber should only be issued for threads within the suspend
\* handler" (posix_impl.d:737).
SignalAccounting ==
  /\ cnt = Cardinality(sigSuspend) + Cardinality({u \in Threads : mode[u] = "handler"})
             + suspendCount
  /\ sigResume \subseteq {u \in Threads : mode[u] = "posted"}

\* Nested brackets: slock is held once per suspendAll by the thread that
\* stopped the world, and is free when the world runs.
LockDiscipline ==
  /\ slock = None <=> lockCount = 0
  /\ \A t \in Threads :
       multiThreaded /\ pc[t] = "stopped" => slock = t /\ lockCount = suspendDepth

\* sm_tlen is the length of the list ("sm_tlen == 1" in thread_term).
LengthCorrect == tlen = Cardinality(registered)

\* The Thread object of a thread is not collected from start() until the
\* thread takes itself, or is taken, off the list.
ObjectsSafe ==
  \A u \in freed : pc[u] \in {"detached", "removed", "destroy", "dead"}

\* "Joins all non-daemon threads that are currently running": none of them
\* executes code of the program afterwards, also if it was being started, or
\* started by another thread, during the scans.  Attached threads are daemons,
\* which may go on and start others.
JoinAllComplete ==
  pc[Main] = "joined" /\ (\A f \in Foreign : pc[f] = "foreign") =>
    \A u \in Workers : pc[u] \in {"new", "detached", "removed", "destroy", "dead"}

StopCompletes ==
  \A t \in Threads : pc[t] = "suspending" ~> pc[t] = "stopped"

AllResumed ==
  \A u \in Threads : mode[u] = "posted" ~> mode[u] = "code"

\* Stopping the world takes finitely long: no notification is waited for that
\* nobody is going to send; and no thread is left in its signal handler.
StopsEnd == StopCompletes /\ AllResumed

\* "Once the thread is removed from the runtime, it must not use the GC":
\* scope(exit) in thread_entryPoint still writes to the Thread object.
NoUseAfterFree ==
  \A u \in Workers : pc[u] \in {"removed", "destroy"} => u \notin freed
=============================================================================
