---------------------------- MODULE ForkCollect ----------------------------
(***************************************************************************)
(* A collection of the conservative collector, Gcx.fullcollect             *)
(* (core/internal/gc/impl/conservative/gc.d), with the marking either in   *)
(* the stopped program or, with the option "fork", in a child process that *)
(* marks a snapshot of the memory while the program goes on.  The mark     *)
(* bits are in memory both processes share; everything else the child sees *)
(* is a copy.                                                              *)
(*                                                                         *)
(* Whoever is in the collector holds gcLock, so one program counter is     *)
(* enough: pc says how far that thread is, and the actions of the program  *)
(* are those of all other threads, which go on unless they are stopped.    *)
(* A block has one pointer; roots stands for stacks, registers, globals    *)
(* and registered ranges, cached for the block caches of the threads       *)
(* (core/internal/gc/blkcache.d), which are not roots.                     *)
(***************************************************************************)
EXTENDS Integers, FiniteSets

CONSTANTS
  SmallPools, LargePools,   \* each pool is the set of its blocks
  Arrays,                   \* blocks that arrays which can grow are in
  Fork,                     \* the option "fork"
  Null                      \* no block

Pools == SmallPools \cup LargePools
Blocks == UNION Pools
Kinds == {"small", "big"}
PoolsOf(kind) == IF kind = "small" THEN SmallPools ELSE LargePools

ASSUME PoolsAssumption ==
  /\ \A P, Q \in Pools : P # Q => P \cap Q = {}
  /\ SmallPools \cap LargePools = {}
  /\ Arrays \subseteq Blocks /\ Null \notin Blocks
ASSUME ForkAssumption == Fork \in BOOLEAN

VARIABLES
  mapped,          \* pools in pooltable
  alloc,           \* blocks handed out and not freed (~freebits, B_PAGE)
  mark,            \* the mark bits, shared with the child
  roots, next,     \* the pointers of the program
  cached,          \* a block in some thread's block cache
  shouldFork,
  markProcPid,     \* whether a marking process is recorded (markProcPid # 0)
  minimizeNext,    \* minimizeAfterNextCollection
  suspendDepth,
  pc,              \* "idle", or how far the thread that holds gcLock is
  call,            \* what it was called for: "collect" or the kind of an allocation
  block,           \* argument of fullcollect
  toSweep,         \* pools sweep has not visited yet
  child,           \* the marking process: none, running, exited or reaped
  toMark,          \* what the child has found in its snapshot but not marked yet
  recent           \* history: reachable when the marking began, or allocated since

program == <<roots, next, cached>>
heap == <<mapped, alloc>>
config == <<shouldFork, minimizeNext>>
process == <<child, toMark>>
request == <<call, block>>
vars == <<heap, mark, program, config, markProcPid, suspendDepth, pc, request,
          toSweep, process, recent>>

\* Reachable: in every set that holds the roots and what its members point to.
Closed(S) == roots \subseteq S /\ \A b \in S : next[b] \in S \cup {Null}
Reach == {b \in Blocks : \A S \in SUBSET Blocks : Closed(S) => b \in S}

FreeOf(kind) == (UNION (mapped \cap PoolsOf(kind))) \ alloc
collectInProgress == markProcPid

Init ==
  /\ mapped = {} /\ alloc = {} /\ mark = {}
  /\ roots = {} /\ next = [b \in Blocks |-> Null] /\ cached = Null
  /\ shouldFork = Fork /\ markProcPid = FALSE /\ minimizeNext = FALSE
  /\ suspendDepth = 0
  /\ pc = "idle" /\ call = "collect" /\ block = FALSE /\ toSweep = {}
  /\ child = "none" /\ toMark = {} /\ recent = {}

-----------------------------------------------------------------------------
(* The program.  With the world stopped only the thread that stopped it goes *)
(* on, once it has left the collector.                                       *)

MayRun == pc = "idle" \/ suspendDepth = 0

OnlyProgram ==
  UNCHANGED <<heap, mark, config, markProcPid, suspendDepth, pc, request, toSweep,
              process, recent>>

Load(b) ==
  /\ MayRun /\ b \in Reach
  /\ roots' = roots \cup {b}
  /\ OnlyProgram /\ UNCHANGED <<next, cached>>

Drop(b) ==
  /\ MayRun /\ b \in roots
  /\ roots' = roots \ {b}
  /\ OnlyProgram /\ UNCHANGED <<next, cached>>

Store(a, b) ==
  /\ MayRun /\ a \in roots /\ b \in roots \cup {Null}
  /\ next' = [next EXCEPT ![a] = b]
  /\ OnlyProgram /\ UNCHANGED <<roots, cached>>

\* An append or a change of length looks its block up and keeps what it found.
Lookup(b) ==
  /\ MayRun /\ b \in roots \cap Arrays
  /\ cached' = b
  /\ OnlyProgram /\ UNCHANGED <<roots, next>>

\* GC.free of a block nothing else refers to.
Free(b) ==
  /\ pc = "idle" /\ b \in roots /\ b \in alloc
  /\ \A a \in Reach \ {b} : next[a] # b
  /\ alloc' = alloc \ {b}
  /\ roots' = roots \ {b} /\ next' = [next EXCEPT ![b] = Null]
  /\ UNCHANGED <<mapped, mark, cached, config, markProcPid, suspendDepth, pc, request,
                 toSweep, process, recent>>

-----------------------------------------------------------------------------
(* alloc *)

\* The caller gets the block.
Hand(b) ==
  /\ alloc' = alloc \cup {b}
  /\ roots' = roots \cup {b} /\ next' = [next EXCEPT ![b] = Null]
  /\ recent' = IF collectInProgress THEN recent \cup {b} ELSE recent

\* Fault: the child is not told of the new block.
MarkNew_Forgotten(b) == mark

\* "be sure that the child is aware of the page being used"
MarkNew(b) == IF collectInProgress THEN mark \cup {b} ELSE mark

\* newPool: fresh mark bits, all set while a child is marking.
NewPool(P) ==
  /\ mapped' = mapped \cup {P}
  /\ mark' = IF collectInProgress THEN mark \cup P ELSE mark \ P

Take(kind) ==
  \E b \in FreeOf(kind) : Hand(b) /\ mark' = MarkNew(b) /\ UNCHANGED mapped

Grow(kind) ==
  /\ FreeOf(kind) = {}
  /\ \E P \in PoolsOf(kind) \ mapped : NewPool(P) /\ \E b \in P : Hand(b)

AllocNow(kind) ==
  /\ pc = "idle"
  /\ Take(kind) \/ Grow(kind)
  /\ UNCHANGED <<cached, config, markProcPid, suspendDepth, pc, request, toSweep, process>>

\* Nothing is free: collect, because the threshold is reached or, and then
\* without a child, because no pool could be had.
AllocCollect(kind) ==
  /\ pc = "idle" /\ FreeOf(kind) = {}
  /\ block' \in BOOLEAN
  /\ ~block' => (UNION (mapped \cap PoolsOf(kind))) \cap alloc # {}
  /\ pc' = "full" /\ call' = kind
  /\ minimizeNext' = (minimizeNext \/ kind = "big")
  /\ UNCHANGED <<heap, mark, program, shouldFork, markProcPid, suspendDepth, toSweep,
                 process, recent>>

\* GC.collect
Collect ==
  /\ pc = "idle"
  /\ pc' = "full" /\ call' = "collect" /\ block' = TRUE
  /\ UNCHANGED <<heap, mark, program, config, markProcPid, suspendDepth, toSweep,
                 process, recent>>

\* minimize: free pools go back to the system.  A pool of small objects is free
\* only if its pages were emptied by sweep, not by free.
Unused == {P \in mapped : P \cap alloc = {}}
MinimizePools ==
  \E kept \in SUBSET (Unused \cap SmallPools) : mapped' = (mapped \ Unused) \cup kept

\* After the collection the allocation is tried again.
Return ==
  /\ pc = "retry" /\ pc' = "idle"
  /\ call' = "collect" /\ block' = FALSE
  /\ \/ call \in Kinds /\ (Take(call) \/ Grow(call))
     \/ /\ call \in Kinds => FreeOf(call) = {}
        /\ UNCHANGED <<heap, mark, roots, next, recent>>
  /\ UNCHANGED <<cached, config, markProcPid, suspendDepth, toSweep, process>>

\* Memory is low when smallAlloc comes back from the collection.
Minimize ==
  /\ pc = "retry" /\ call = "small"
  /\ MinimizePools
  /\ UNCHANGED <<alloc, mark, program, config, markProcPid, suspendDepth, pc, request,
                 toSweep, process, recent>>

-----------------------------------------------------------------------------
(* fullcollect *)

\* clearBlkCacheData: an entry of a block that is not marked is cleared.
ClearCaches(marked) ==
  cached' = IF cached \in (UNION mapped) \ marked THEN Null ELSE cached

\* Fault: the child's end leaves the block caches as they are.
PollDone_KeepsCaches ==
  /\ pc = "full" /\ shouldFork /\ collectInProgress
  /\ child \in {"exited", "reaped"}
  /\ child' = "none" /\ markProcPid' = FALSE
  /\ pc' = "sweep" /\ toSweep' = mapped
  /\ UNCHANGED <<heap, mark, program, config, suspendDepth, request, toMark, recent>>

\* collectFork: wait_pid says that the marking is done.  So it does when there
\* is no such process any more, "someone called posix.syswait".
PollDone ==
  /\ pc = "full" /\ shouldFork /\ collectInProgress
  /\ child \in {"exited", "reaped"}
  /\ child' = "none" /\ markProcPid' = FALSE
  /\ ClearCaches(mark)
  /\ pc' = "sweep" /\ toSweep' = mapped
  /\ UNCHANGED <<heap, mark, roots, next, config, suspendDepth, request, toMark, recent>>

\* collectFork: the child goes on, and so does the caller.  GC.collect and an
\* allocation that is out of memory wait for it instead.
PollRunning ==
  /\ pc = "full" /\ shouldFork /\ collectInProgress
  /\ child = "running" /\ ~block
  /\ pc' = "retry"
  /\ UNCHANGED <<heap, mark, program, config, markProcPid, suspendDepth, request,
                 toSweep, process, recent>>

\* Fault: prepare leaves the mark bits as they are.
Prepare_Nothing == mark

\* prepare: clear the mark bits, but for what is free in pools of small objects.
Prepare == (UNION (mapped \cap SmallPools)) \ alloc

\* Lmark: thread_suspendAll and prepare.
Lmark ==
  /\ pc = "full" /\ ~(shouldFork /\ collectInProgress)
  /\ suspendDepth' = suspendDepth + 1
  /\ mark' = Prepare /\ recent' = Reach
  /\ pc' = "stopped"
  /\ UNCHANGED <<heap, program, config, markProcPid, request, toSweep, process>>

\* Fault: the world is not resumed after the fork.
MarkFork_StaysStopped ==
  /\ pc = "stopped" /\ shouldFork /\ ~block
  /\ child' = "running" /\ toMark' = Reach \ mark /\ markProcPid' = TRUE
  /\ pc' = "retry"
  /\ UNCHANGED <<heap, mark, program, config, suspendDepth, request, toSweep, recent>>

\* markFork: the child has a copy of the memory, the program goes on.
MarkFork ==
  /\ pc = "stopped" /\ shouldFork /\ ~block
  /\ child' = "running" /\ toMark' = Reach \ mark /\ markProcPid' = TRUE
  /\ suspendDepth' = suspendDepth - 1
  /\ pc' = "retry"
  /\ UNCHANGED <<heap, mark, program, config, request, toSweep, recent>>

\* markAll with the world stopped, then thread_resumeAll.
MarkHere ==
  /\ pc = "stopped" /\ ~(shouldFork /\ ~block)
  /\ mark' = mark \cup Reach
  /\ ClearCaches(mark')
  /\ suspendDepth' = suspendDepth - 1
  /\ pc' = "sweep" /\ toSweep' = mapped
  /\ UNCHANGED <<heap, roots, next, config, markProcPid, request, process, recent>>

\* sweep of one pool; the other threads go on.
Doomed(P) == (P \cap alloc) \ mark

SweepPool(P) ==
  /\ pc = "sweep" /\ P \in toSweep
  /\ alloc' = alloc \ Doomed(P)
  /\ next' = [b \in Blocks |-> IF b \in Doomed(P) THEN Null ELSE next[b]]
  /\ toSweep' = toSweep \ {P}
  /\ UNCHANGED <<mapped, mark, roots, cached, config, markProcPid, suspendDepth, pc,
                 request, process, recent>>

\* Fault: the collection starts over.
SweepEnd_Repeats ==
  /\ pc = "sweep" /\ toSweep = {}
  /\ MinimizePools
  /\ minimizeNext' = FALSE
  /\ pc' = "full" /\ recent' = {}
  /\ UNCHANGED <<alloc, mark, program, shouldFork, markProcPid, suspendDepth, request,
                 toSweep, process>>

\* The end of fullcollect; free memory may be low without being asked to minimize.
SweepEnd ==
  /\ pc = "sweep" /\ toSweep = {}
  /\ \/ MinimizePools
     \/ ~minimizeNext /\ UNCHANGED mapped
  /\ minimizeNext' = FALSE
  /\ pc' = "retry" /\ recent' = {}
  /\ UNCHANGED <<alloc, mark, program, shouldFork, markProcPid, suspendDepth, request,
                 toSweep, process>>

-----------------------------------------------------------------------------
(* The child, and others *)

OnlyChild ==
  UNCHANGED <<heap, program, config, markProcPid, suspendDepth, pc, request, toSweep, recent>>

ChildMark(b) ==
  /\ child = "running" /\ b \in toMark
  /\ mark' = mark \cup {b} /\ toMark' = toMark \ {b}
  /\ OnlyChild /\ UNCHANGED child

ChildExit ==
  /\ child = "running" /\ toMark = {}
  /\ child' = "exited"
  /\ OnlyChild /\ UNCHANGED <<mark, toMark>>

\* Another thread of the program waits for any child and gets this one.
OtherWaits ==
  /\ child = "exited" /\ child' = "reaped"
  /\ OnlyChild /\ UNCHANGED <<mark, toMark>>

Program ==
  \/ \E b \in Blocks : Load(b) \/ Drop(b) \/ Lookup(b) \/ Free(b)
  \/ \E a \in Blocks, b \in Blocks \cup {Null} : Store(a, b)
  \/ \E kind \in Kinds : AllocNow(kind) \/ AllocCollect(kind)
  \/ Collect

\* What the thread in the collector does.
Collector ==
  \/ PollDone \/ PollRunning
  \/ Lmark \/ MarkFork \/ MarkHere
  \/ (\E P \in Pools : SweepPool(P)) \/ SweepEnd \/ Return

Child == (\E b \in Blocks : ChildMark(b)) \/ ChildExit

Next == Program \/ Collector \/ Minimize \/ Child \/ OtherWaits

Spec == Init /\ [][Next]_vars

\* The thread in the collector and the child go on; the program need not.
Fairness == WF_vars(Collector) /\ WF_vars(Child)
FairSpec == Spec /\ Fairness

-----------------------------------------------------------------------------
(* Properties *)

TypeOK ==
  /\ mapped \subseteq Pools /\ alloc \subseteq Blocks /\ mark \subseteq Blocks
  /\ roots \subseteq Blocks /\ next \in [Blocks -> Blocks \cup {Null}]
  /\ cached \in Blocks \cup {Null}
  /\ shouldFork \in BOOLEAN /\ markProcPid \in BOOLEAN /\ minimizeNext \in BOOLEAN
  /\ suspendDepth \in Nat
  /\ pc \in {"idle", "full", "stopped", "sweep", "retry"}
  /\ call \in Kinds \cup {"collect"} /\ block \in BOOLEAN
  /\ toSweep \subseteq Pools
  /\ child \in {"none", "running", "exited", "reaped"}
  /\ toMark \subseteq Blocks /\ recent \subseteq Blocks

\* What the program can reach is allocated and in a pool: no collection frees
\* it, however the program moved its pointers and allocated while the child
\* marked.
NothingLiveFreed == Reach \subseteq alloc \cap UNION mapped

\* Nor does a block cache name a block sweep is about to free, although the
\* program runs between the clearing of the caches and the sweep.
CachesClean == pc = "sweep" => \A P \in toSweep : cached \notin Doomed(P)

\* A sweep leaves only what was reachable when its marking began or was
\* allocated after that: what was garbage at that time is freed.
GarbageFreed == pc = "sweep" /\ toSweep = {} => alloc \subseteq recent

\* "must be followed by a matching number of calls to thread_resumeAll": the
\* threads run whenever the collector is not marking.
WorldRuns == pc \notin {"full", "stopped"} => suspendDepth = 0

\* A collection ends: whoever called for it gets on, waiting for the child if need be.
CollectReturns == pc = "full" ~> pc = "idle"
=============================================================================
