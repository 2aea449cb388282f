------------------------------- MODULE Fiber -------------------------------
(***************************************************************************)
(* Fibers (druntime/src/core/thread/fiber/base.d) with the part of the     *)
(* thread registry that lets the collector scan their stacks               *)
(* (core/thread/threadbase.d, core/thread/posix_impl.d).                   *)
(*                                                                         *)
(* Every thread and every fiber has a stack with a context; the contexts   *)
(* are on a list, and the collector scans each from bstack to tstack.  The *)
(* tstack of a stack in use is set when its thread is suspended, unless    *)
(* m_lock says that the thread is switching stacks.  A step is one of the  *)
(* stores a suspend signal may fall between.  What code does goes with the *)
(* stack it runs on, because a fiber that yielded may be called by another *)
(* thread.  How the world is stopped is StopTheWorld's subject; here a     *)
(* thread is halted anywhere and later goes on.                            *)
(***************************************************************************)
EXTENDS Naturals, FiniteSets

CONSTANTS
  Carriers,    \* the threads
  Fibers,
  MaxFrames,   \* bound: frames on a stack that may hold references
  NoFiber      \* null

ASSUME FiberNames ==
  IsFiniteSet(Carriers) /\ IsFiniteSet(Fibers)
    /\ Carriers \cap Fibers = {} /\ NoFiber \notin Carriers \cup Fibers
ASSUME FrameBound == MaxFrames \in Nat \ {0}

Stacks == Carriers \cup Fibers

\* An address in a stack, by the number of frames below it.
Address(s, n) == [stack |-> s, frames |-> n]
Bottom(s) == Address(s, 0)    \* bstack

VARIABLES
  sp,         \* the stack pointer of each thread
  frames,     \* how many frames with references each stack has
  at,         \* where the code on each stack is
  tstack,     \* StackContext.tstack
  within,     \* StackContext.within
  ehContext,  \* StackContext.ehContext: the stack whose exceptions are in it
  listed,     \* fibers with a stack, and a context in the list from sm_cbeg
  state,      \* m_state of each fiber
  held,       \* fibers the program has a reference to
  curr,       \* m_curr of each thread
  switching,  \* threads with m_lock set
  smThis,     \* sm_this of each thread
  ehSlot,     \* what swapContext swaps, for each thread
  callee,     \* "this" of the callImpl each stack is in
  locals,     \* cur, tobj, oldp, newp of callImpl, switchIn and switchOut
  stopper,    \* the thread that stops the world for a collection
  halted,     \* threads in thread_suspendHandler
  condemned   \* fibers the collector found unreachable and will finalize

codeVars == <<sp, frames, at, callee, locals>>
contextVars == <<tstack, within, ehContext, listed>>
threadVars == <<curr, switching, smThis, ehSlot>>
worldVars == <<stopper, halted, condemned>>
fvars == <<codeVars, contextVars, threadVars, worldVars, state, held>>

FiberInit ==
  /\ sp = [t \in Carriers |-> Address(t, 1)]
  /\ frames = [s \in Stacks |-> IF s \in Carriers THEN 1 ELSE 0]
  /\ at = [s \in Stacks |-> IF s \in Carriers THEN "run" ELSE "unmapped"]
  /\ tstack = [s \in Stacks |-> Bottom(s)]
  /\ within = [s \in Stacks |-> NoFiber]
  /\ ehContext = [s \in Stacks |-> s]
  /\ listed = {} /\ held = {}
  /\ state = [f \in Fibers |-> "TERM"]
  /\ curr = [t \in Carriers |-> t]
  /\ switching = {}
  /\ smThis = [t \in Carriers |-> NoFiber]
  /\ ehSlot = [t \in Carriers |-> t]
  /\ callee = [s \in Stacks |-> NoFiber]
  /\ locals = [s \in Stacks |-> NoFiber]
  /\ stopper = NoFiber /\ halted = {} /\ condemned = {}

-----------------------------------------------------------------------------
\* The stack thread t is on, and that its code is at p.
On(t) == sp[t].stack
At(t, p) == t \notin halted /\ stopper # t /\ at[On(t)] = p
Goto(s, p) == at' = [at EXCEPT ![s] = p]

\* A fiber is called by one thread at a time and not while it is executing:
\* that is up to the program.
Called(f) == \E s \in Stacks : callee[s] = f

\* The program calls and returns from functions.
Push(t) ==
  /\ At(t, "run") /\ frames[On(t)] < MaxFrames
  /\ frames' = [frames EXCEPT ![On(t)] = @ + 1]
  /\ sp' = [sp EXCEPT ![t] = Address(@.stack, @.frames + 1)]
  /\ UNCHANGED <<at, callee, locals, contextVars, threadVars, worldVars, state, held>>

Pop(t) ==
  /\ At(t, "run") /\ frames[On(t)] > 1
  /\ frames' = [frames EXCEPT ![On(t)] = @ - 1]
  /\ sp' = [sp EXCEPT ![t] = Address(@.stack, @.frames - 1)]
  /\ UNCHANGED <<at, callee, locals, contextVars, threadVars, worldVars, state, held>>

\* The constructor: allocStack, which adds the context under slock, and reset.
Create(t, f) ==
  /\ At(t, "run") /\ stopper = NoFiber
  /\ f \notin listed
  /\ listed' = listed \cup {f} /\ held' = held \cup {f}
  /\ tstack' = [tstack EXCEPT ![f] = Bottom(f)]
  /\ ehContext' = [ehContext EXCEPT ![f] = f]
  /\ state' = [state EXCEPT ![f] = "HOLD"]
  /\ Goto(f, "new")
  /\ UNCHANGED <<sp, frames, callee, locals, within, threadVars, worldVars>>

Drop(f) ==
  /\ f \in held
  /\ held' = held \ {f}
  /\ UNCHANGED <<codeVars, contextVars, threadVars, worldVars, state>>

\* Of a fiber that is not executing; what was on its stack is gone.
Reset(t, f) ==
  /\ At(t, "run") /\ f \in held /\ ~Called(f)
  /\ state[f] \in {"TERM", "HOLD"}
  /\ tstack' = [tstack EXCEPT ![f] = Bottom(f)]
  /\ state' = [state EXCEPT ![f] = "HOLD"]
  /\ frames' = [frames EXCEPT ![f] = 0]
  /\ Goto(f, "new")
  /\ UNCHANGED <<sp, callee, locals, within, ehContext, listed, held, threadVars, worldVars>>

-----------------------------------------------------------------------------
(* Switching.                                                              *)

\* callImpl up to the store of the stack top in switchIn.
CallBegin(t, f) ==
  /\ At(t, "run") /\ f \in held /\ ~Called(f)
  /\ state[f] = "HOLD"
  /\ locals' = [locals EXCEPT ![On(t)] =
       [cur |-> smThis[t], tobj |-> t, oldp |-> curr[t], newp |-> tstack[f]]]
  /\ callee' = [callee EXCEPT ![On(t)] = f]
  /\ smThis' = [smThis EXCEPT ![t] = f]
  /\ tstack' = [tstack EXCEPT ![curr[t]] = sp[t]]
  /\ Goto(On(t), "in saved")
  /\ UNCHANGED <<sp, frames, within, ehContext, listed, state, held,
                 curr, switching, ehSlot, worldVars>>

\* yield, or the end of fiber_entryPoint, up to the store in switchOut; f is
\* the fiber, as getThis gives it or as the entry point remembers it.
LeaveBegin(t, f, newState) ==
  /\ At(t, "run") /\ f # NoFiber
  /\ state' = [state EXCEPT ![f] = newState]
  /\ locals' = [locals EXCEPT ![On(t)] =
       [cur |-> f, tobj |-> t, oldp |-> f, newp |-> tstack[within[curr[t]]]]]
  /\ tstack' = [tstack EXCEPT ![f] = sp[t]]
  /\ Goto(On(t), "out saved")
  /\ UNCHANGED <<sp, frames, callee, within, ehContext, listed, held, threadVars, worldVars>>

Yield(t) == LeaveBegin(t, smThis[t], "HOLD")

Finish(t) == On(t) \in Fibers /\ frames[On(t)] = 1 /\ LeaveBegin(t, On(t), "TERM")

\* m_lock is set.
SetLock(t) ==
  /\ \/ At(t, "in saved") /\ Goto(On(t), "in locked")
     \/ At(t, "out saved") /\ Goto(On(t), "out locked")
  /\ switching' = switching \cup {locals[On(t)].tobj}
  /\ UNCHANGED <<sp, frames, callee, locals, contextVars, curr, smThis, ehSlot, worldVars, state, held>>

PushContext(t) ==
  LET f == callee[On(t)]
      tobj == locals[On(t)].tobj
  IN /\ At(t, "in locked")
     /\ ehContext' = [ehContext EXCEPT ![curr[tobj]] = ehSlot[t]]
     /\ ehSlot' = [ehSlot EXCEPT ![t] = ehContext[f]]
     /\ within' = [within EXCEPT ![f] = curr[tobj]]
     /\ curr' = [curr EXCEPT ![tobj] = f]
     /\ Goto(On(t), "in pushed")
     /\ UNCHANGED <<sp, frames, callee, locals, tstack, listed, switching, smThis,
                    worldVars, state, held>>

\* Where a stack goes on when it is switched to.
Arrival(p) ==
  IF p = "new" THEN "entry" ELSE IF p = "in away" THEN "in back" ELSE "out back"

\* The code goes on at *newp, on the stack of a thread or of a fiber.  A fiber
\* that has ended is not switched to again.
Jump(t) ==
  LET s == On(t)
      to == locals[s].newp
      away == IF at[s] = "in pushed" THEN "in away"
              ELSE IF state[s] = "TERM" THEN "ended" ELSE "out away"
  IN /\ At(t, "in pushed") \/ At(t, "out locked")
     /\ sp' = [sp EXCEPT ![t] = to]
     /\ at' = [at EXCEPT ![s] = away, ![to.stack] = Arrival(@)]
     /\ frames' = IF away = "ended" THEN [frames EXCEPT ![s] = 0] ELSE frames
     /\ UNCHANGED <<callee, locals, within, ehContext, listed, threadVars, worldVars, state, held>>

\* Fault: the stack top is not stored again.
Switch_StoresNothing(t) == Jump(t) /\ UNCHANGED tstack

\* fiber_switchContext(oldp, newp)
Switch(t) == Jump(t) /\ tstack' = [tstack EXCEPT ![locals[On(t)].oldp] = sp[t]]

\* Fault: the exceptions of the fiber stay with the thread.
PopContext_KeepsExceptions(t) ==
  LET tobj == locals[On(t)].tobj
      c == curr[tobj]
  IN /\ At(t, "in back") /\ within[c] # NoFiber
     /\ curr' = [curr EXCEPT ![tobj] = within[c]]
     /\ within' = [within EXCEPT ![c] = NoFiber]
     /\ Goto(On(t), "in popped")
     /\ UNCHANGED <<sp, frames, callee, locals, tstack, ehContext, listed, switching,
                    smThis, ehSlot, worldVars, state, held>>

\* switchIn after its fiber has left: popContext ...
PopContext(t) ==
  LET tobj == locals[On(t)].tobj
      c == curr[tobj]
  IN /\ At(t, "in back") /\ within[c] # NoFiber
     /\ curr' = [curr EXCEPT ![tobj] = within[c]]
     /\ ehContext' = [ehContext EXCEPT ![c] = ehSlot[t]]
     /\ ehSlot' = [ehSlot EXCEPT ![t] = ehContext[within[c]]]
     /\ within' = [within EXCEPT ![c] = NoFiber]
     /\ Goto(On(t), "in popped")
     /\ UNCHANGED <<sp, frames, callee, locals, tstack, listed, switching, smThis,
                    worldVars, state, held>>

\* ... m_lock is cleared ...
CallUnlock(t) ==
  /\ At(t, "in popped")
  /\ switching' = switching \ {locals[On(t)].tobj}
  /\ Goto(On(t), "in unlocked")
  /\ UNCHANGED <<sp, frames, callee, locals, contextVars, curr, smThis, ehSlot, worldVars, state, held>>

\* Gives up the stacks in S, which are not in use or whose thread will tell.
EndCall(t, S) ==
  LET s == On(t)
  IN /\ At(t, "in unlocked")
     /\ tstack' = [x \in Stacks |-> IF x \in S THEN Bottom(x) ELSE tstack[x]]
     /\ smThis' = [smThis EXCEPT ![t] = locals[s].cur]
     /\ callee' = [callee EXCEPT ![s] = NoFiber]
     /\ locals' = [locals EXCEPT ![s] = NoFiber]
     /\ Goto(s, "run")
     /\ UNCHANGED <<sp, frames, within, ehContext, listed, curr, switching, ehSlot,
                    worldVars, state, held>>

\* Fault: the stack of a fiber that has ended is not given up.
CallEnd_KeepsStack(t) == EndCall(t, {curr[locals[On(t)].tobj]})

\* ... and the rest of switchIn and callImpl.
CallEnd(t) ==
  EndCall(t, {curr[locals[On(t)].tobj]} \cup {f \in {callee[On(t)]} : state[f] = "TERM"})

\* Fault: the thread is taken for the one that executed the fiber before.
YieldUnlock_SameThread(t) ==
  /\ At(t, "out back")
  /\ switching' = switching \ {locals[On(t)].tobj}
  /\ Goto(On(t), "out unlocked")
  /\ UNCHANGED <<sp, frames, callee, locals, contextVars, curr, smThis, ehSlot, worldVars, state, held>>

\* switchOut after its fiber was called again, maybe by another thread.
YieldUnlock(t) ==
  /\ At(t, "out back")
  /\ switching' = switching \ {t}
  /\ locals' = [locals EXCEPT ![On(t)] =
       [cur |-> @.cur, tobj |-> t, oldp |-> @.oldp, newp |-> @.newp]]
  /\ Goto(On(t), "out unlocked")
  /\ UNCHANGED <<sp, frames, callee, contextVars, curr, smThis, ehSlot, worldVars, state, held>>

YieldEnd(t) ==
  LET c == curr[locals[On(t)].tobj]
  IN /\ At(t, "out unlocked")
     /\ tstack' = [tstack EXCEPT ![c] = Bottom(c)]
     /\ state' = [state EXCEPT ![locals[On(t)].cur] = "EXEC"]
     /\ locals' = [locals EXCEPT ![On(t)] = NoFiber]
     /\ Goto(On(t), "run")
     /\ UNCHANGED <<sp, frames, callee, within, ehContext, listed, held, threadVars, worldVars>>

\* fiber_entryPoint.  Its frame counts from run() on; before that it refers to
\* the fiber only, as sm_this does.
EntryUnlock(t) ==
  /\ At(t, "entry")
  /\ switching' = switching \ {t}
  /\ Goto(On(t), "entered")
  /\ UNCHANGED <<sp, frames, callee, locals, contextVars, curr, smThis, ehSlot, worldVars, state, held>>

EntryRun(t) ==
  LET obj == smThis[t]
  IN /\ At(t, "entered")
     /\ tstack' = [tstack EXCEPT ![obj] = Bottom(obj)]
     /\ state' = [state EXCEPT ![obj] = "EXEC"]
     /\ frames' = [frames EXCEPT ![On(t)] = 1]
     /\ sp' = [sp EXCEPT ![t] = Address(On(t), 1)]
     /\ Goto(On(t), "run")
     /\ UNCHANGED <<callee, locals, within, ehContext, listed, held, threadVars, worldVars>>

-----------------------------------------------------------------------------
(* Collections.                                                            *)

\* suspendAll with suspend() of the calling thread itself.  gcLock is held
\* until the finalizers of the last collection have run.
StopWorld(t) ==
  /\ At(t, "run") /\ stopper = NoFiber /\ halted = {} /\ condemned = {}
  /\ stopper' = t
  /\ tstack' = IF t \in switching THEN tstack ELSE [tstack EXCEPT ![curr[t]] = sp[t]]
  /\ UNCHANGED <<codeVars, within, ehContext, listed, threadVars, halted, condemned, state, held>>

\* thread_preSuspend
PreSuspend(u) ==
  /\ stopper \notin {NoFiber, u} /\ u \notin halted
  /\ halted' = halted \cup {u}
  /\ tstack' = IF u \in switching THEN tstack ELSE [tstack EXCEPT ![curr[u]] = sp[u]]
  /\ UNCHANGED <<codeVars, within, ehContext, listed, threadVars, stopper, condemned, state, held>>

WorldStopped == stopper # NoFiber /\ halted = Carriers \ {stopper}

\* Stack s is scanned up to frame n.
Scanned(s, n) == tstack[s].stack = s /\ tstack[s].frames >= n

\* What refers to a fiber: the program, sm_this, its own stack from the entry
\* point on, and the callImpl that is in progress for it.
Found(f) ==
  \/ f \in held
  \/ \E t \in Carriers : smThis[t] = f
  \/ Scanned(f, 1)
  \/ \E s \in Stacks : callee[s] = f /\ Scanned(s, frames[s])

\* The collector marks from all stacks and resumes; its own stack was scanned
\* like the others.
CollectWorld(t) ==
  /\ stopper = t /\ WorldStopped
  /\ stopper' = NoFiber
  /\ condemned' = {f \in listed : ~Found(f)}
  /\ tstack' = IF t \in switching THEN tstack ELSE [tstack EXCEPT ![curr[t]] = Bottom(curr[t])]
  /\ UNCHANGED <<codeVars, within, ehContext, listed, threadVars, halted, state, held>>

\* thread_postSuspend
PostSuspend(u) ==
  /\ u \in halted /\ stopper = NoFiber
  /\ halted' = halted \ {u}
  /\ tstack' = IF u \in switching THEN tstack ELSE [tstack EXCEPT ![curr[u]] = Bottom(curr[u])]
  /\ UNCHANGED <<codeVars, within, ehContext, listed, threadVars, stopper, condemned, state, held>>

\* ~this: freeStack, under slock.
FreeStack(f) ==
  /\ f \in condemned /\ stopper = NoFiber
  /\ condemned' = condemned \ {f}
  /\ listed' = listed \ {f}
  /\ Goto(f, "unmapped")
  /\ frames' = [frames EXCEPT ![f] = 0]
  /\ tstack' = [tstack EXCEPT ![f] = Bottom(f)]
  /\ state' = [state EXCEPT ![f] = "TERM"]
  /\ UNCHANGED <<sp, callee, locals, within, ehContext, threadVars, stopper, halted, held>>

-----------------------------------------------------------------------------
Program(t) ==
  \/ Push(t) \/ Pop(t)
  \/ \E f \in Fibers : Create(t, f) \/ Reset(t, f) \/ CallBegin(t, f)
  \/ Yield(t) \/ Finish(t)

Switching(t) ==
  \/ SetLock(t) \/ PushContext(t) \/ Switch(t)
  \/ PopContext(t) \/ CallUnlock(t) \/ CallEnd(t)
  \/ YieldUnlock(t) \/ YieldEnd(t)
  \/ EntryUnlock(t) \/ EntryRun(t)

Collection(t) == StopWorld(t) \/ PreSuspend(t) \/ CollectWorld(t) \/ PostSuspend(t)

FiberNext ==
  \/ \E t \in Carriers : Program(t) \/ Switching(t) \/ Collection(t)
  \/ \E f \in Fibers : Drop(f) \/ FreeStack(f)

FiberSpec == FiberInit /\ [][FiberNext]_fvars

-----------------------------------------------------------------------------
(* Properties.                                                             *)

\* When the world is stopped, every range the collector scans lies in one
\* stack and has all frames that stack has: those of fibers that run, that
\* yielded, or that called another, wherever in a switch their thread is.
ScanComplete == WorldStopped => \A s \in Stacks : Scanned(s, frames[s])

\* No thread is suspended between m_lock and fiber_switchContext after a
\* suspension between the store of the stack top and m_lock, which took the
\* top back.
SuspendedOnce ==
  \A t \in halted :
    at[On(t)] \in {"in locked", "in pushed", "out locked"} => tstack[On(t)] # Bottom(On(t))

\* The collector finalizes a fiber exactly when the program has no reference
\* to it, nobody is calling it, and it has not begun or has ended.  ~this
\* unmaps the stack, so it must not be in use; and a stack that is no longer
\* in use must not keep its fiber.
FinalizesEnded ==
  WorldStopped =>
    \A f \in listed : Found(f) <=> f \in held \/ Called(f) \/ frames[f] > 0

\* Code of the program runs on the context its thread has as m_curr, with the
\* stack pointer where it was left, knows the fiber it is in, and is not
\* taken to be switching.  Whoever it returns to is on the same thread.
ContextsNested ==
  /\ \A t \in Carriers : at[On(t)] = "run" =>
       /\ curr[t] = On(t) /\ t \notin switching
       /\ sp[t] = Address(On(t), frames[On(t)])
       /\ smThis[t] = IF On(t) \in Fibers THEN On(t) ELSE NoFiber
  /\ \A t, u \in Carriers : t # u => On(t) # On(u)
  /\ \A s \in Stacks : at[s] = "in away" =>
       LET f == callee[s]
       IN /\ within[f] = s
          /\ at[f] = "in away" => locals[f].tobj = locals[s].tobj
          /\ \A t \in Carriers : On(t) = f => locals[s].tobj = t

\* Exceptions in flight stay with the stack they were thrown on, also when it
\* yields in a finally block and another thread calls it.
ExceptionsStay ==
  /\ \A t \in Carriers : at[On(t)] = "run" => ehSlot[t] = On(t)
  /\ \A s \in Stacks :
       at[s] = "in away" \/ (at[s] = "out away" /\ ~Called(s)) => ehContext[s] = s

\* Both: what a fiber finds when it goes on is what it left.
StateKept == ContextsNested /\ ExceptionsStay
=============================================================================
