------------------------- MODULE ForkCollectProofs -------------------------
(***************************************************************************)
(* For any pools, blocks and arrays, with and without the option "fork",   *)
(* a collection frees nothing the program can reach and everything else    *)
(* that was there when its marking began, and the block caches stay clean. *)
(***************************************************************************)
EXTENDS ForkCollect, TLAPS

-----------------------------------------------------------------------------
(* The inductive invariant *)

\* Blocks that are handed out are in a pool.
AllocMapped == alloc \subseteq UNION mapped

\* The world is stopped from prepare to the end of the marking or the fork.
StoppedOnce == suspendDepth = IF pc = "stopped" THEN 1 ELSE 0

\* A child is recorded as long as nobody has asked for its result.
ChildRecorded ==
  /\ markProcPid <=> child # "none"
  /\ markProcPid => shouldFork /\ pc \notin {"stopped", "sweep"}
  /\ child \in {"none", "exited", "reaped"} => toMark = {}

\* From prepare to the end of the sweep, recent has what the program can reach
\* and every block in use that is marked.
Marking == pc \in {"stopped", "sweep"} \/ markProcPid
RecentBounds == Marking => Reach \subseteq recent /\ mark \cap alloc \subseteq recent

\* Until the sweep, recent is marked or is going to be: by the thread that has
\* stopped the world, or by the child, which marks nothing else.
RecentMarked ==
  /\ pc = "stopped" => recent \subseteq Reach
  /\ markProcPid => recent \subseteq mark \cup toMark /\ toMark \subseteq recent
  /\ pc = "sweep" => recent \subseteq mark

\* In a pool that has been swept all blocks in use are marked.
Swept ==
  pc = "sweep" => toSweep \subseteq mapped /\ \A P \in mapped \ toSweep : P \cap alloc \subseteq mark

Inductive ==
  /\ TypeOK /\ NothingLiveFreed /\ AllocMapped /\ StoppedOnce
  /\ ChildRecorded /\ RecentBounds /\ RecentMarked /\ Swept /\ CachesClean

LEMMA InitInductive == Init => Inductive
<1> SUFFICES ASSUME Init PROVE Inductive
  OBVIOUS
<1>1. TypeOK
  BY ForkAssumption DEF Init, TypeOK
<1>2. Closed({})
  BY DEF Init, Closed
<1>3. Reach = {}
  BY <1>2 DEF Reach
<1> QED
  BY <1>1, <1>3 DEF Inductive, Init, NothingLiveFreed, AllocMapped, StoppedOnce,
     ChildRecorded, RecentBounds, Marking, RecentMarked, Swept, CachesClean

-----------------------------------------------------------------------------
(* Reachability *)

\* What can be reached from r through n.
ReachOf(r, n) ==
  {b \in Blocks : \A S \in SUBSET Blocks :
     r \subseteq S /\ (\A a \in S : n[a] \in S \cup {Null}) => b \in S}

LEMMA ReachIs == Reach = ReachOf(roots, next) /\ Reach' = ReachOf(roots', next')
BY DEF Reach, Closed, ReachOf

\* Nothing outside a closed set is reached.
LEMMA ReachWithin ==
  ASSUME NEW r, NEW n, NEW S \in SUBSET Blocks,
         r \subseteq S, \A a \in S : n[a] \in S \cup {Null}
  PROVE  ReachOf(r, n) \subseteq S
BY DEF ReachOf

\* The reachable blocks are a closed set themselves.
LEMMA ReachClosed ==
  ASSUME NEW r \in SUBSET Blocks, NEW n \in [Blocks -> Blocks \cup {Null}]
  PROVE  /\ ReachOf(r, n) \subseteq Blocks
         /\ r \subseteq ReachOf(r, n)
         /\ \A a \in ReachOf(r, n) : n[a] \in ReachOf(r, n) \cup {Null}
BY DEF ReachOf

\* The step of a program that has no new block reaches what it reached before,
\* or less.
LEMMA ReachShrinks ==
  ASSUME TypeOK, NEW X \in SUBSET Reach,
         roots' \subseteq X, \A a \in X : next'[a] \in X \cup {Null}
  PROVE  Reach' \subseteq X
<1>1. X \in SUBSET Blocks  BY DEF Reach
<1> QED  BY <1>1, ReachIs, ReachWithin

LEMMA ReachNow ==
  ASSUME TypeOK
  PROVE  /\ Reach \subseteq Blocks /\ roots \subseteq Reach
         /\ \A a \in Reach : next[a] \in Reach \cup {Null}
BY ReachIs, ReachClosed DEF TypeOK
-----------------------------------------------------------------------------
(* Types *)

LEMMA TypeInductive ==
  ASSUME TypeOK, StoppedOnce, [Next]_vars
  PROVE  TypeOK'
<1> USE DEF TypeOK, OnlyProgram, heap, program, config, process, request
<1>1. ASSUME NEW b \in Blocks, Load(b) \/ Drop(b) \/ Lookup(b) \/ Free(b)
      PROVE TypeOK'
  BY <1>1 DEF Load, Drop, Lookup, Free, Reach
<1>2. ASSUME NEW a \in Blocks, NEW b \in Blocks \cup {Null}, Store(a, b)
      PROVE TypeOK'
  BY <1>2 DEF Store
<1>3. ASSUME NEW kind \in Kinds, Take(kind) \/ Grow(kind)
      PROVE  /\ mapped' \subseteq Pools /\ alloc' \subseteq Blocks /\ mark' \subseteq Blocks
             /\ roots' \subseteq Blocks /\ next' \in [Blocks -> Blocks \cup {Null}]
             /\ recent' \subseteq Blocks
  <2>1. \A b \in FreeOf(kind) : b \in Blocks
    BY DEF FreeOf, Blocks
  <2>2. \A P \in PoolsOf(kind) : P \in Pools /\ P \subseteq Blocks
    BY DEF PoolsOf, Pools, Blocks
  <2> QED
    BY <1>3, <2>1, <2>2 DEF Take, Grow, Hand, MarkNew, NewPool
<1>4. ASSUME NEW kind \in Kinds, AllocNow(kind) \/ AllocCollect(kind) PROVE TypeOK'
  BY <1>3, <1>4 DEF AllocNow, AllocCollect
<1>5. CASE Collect  BY <1>5 DEF Collect
<1>6. CASE PollDone \/ PollRunning
  BY <1>6 DEF PollDone, PollRunning, ClearCaches
<1>7. CASE Lmark \/ MarkFork \/ MarkHere
  <2>1. Reach \subseteq Blocks /\ Prepare \subseteq Blocks
    BY DEF Reach, Prepare, Pools, Blocks
  <2>2. pc = "stopped" => suspendDepth - 1 \in Nat
    BY DEF StoppedOnce
  <2>3. CASE Lmark  BY <2>1, <2>3 DEF Lmark
  <2>4. CASE MarkFork  BY <2>1, <2>2, <2>4 DEF MarkFork
  <2>5. CASE MarkHere  BY <2>1, <2>2, <2>5 DEF MarkHere, ClearCaches
  <2> QED  BY <1>7, <2>3, <2>4, <2>5
<1>8. ASSUME NEW P \in Pools, SweepPool(P) PROVE TypeOK'
  BY <1>8 DEF SweepPool, Doomed
<1>9. MinimizePools => mapped' \subseteq Pools
  BY DEF MinimizePools, Unused
<1>10. CASE SweepEnd  BY <1>9, <1>10 DEF SweepEnd
<1>11. CASE Return  BY <1>3, <1>11 DEF Return
<1>12. CASE Minimize  BY <1>9, <1>12 DEF Minimize
<1>13. ASSUME NEW b \in Blocks, ChildMark(b) PROVE TypeOK'
  BY <1>13 DEF ChildMark, OnlyChild
<1>14. CASE ChildExit \/ OtherWaits
  BY <1>14 DEF ChildExit, OtherWaits, OnlyChild
<1>15. CASE UNCHANGED vars  BY <1>15 DEF vars
<1> QED
  BY <1>1, <1>2, <1>4, <1>5, <1>6, <1>7, <1>8, <1>10, <1>11, <1>12, <1>13, <1>14, <1>15
  DEF Next, Program, Collector, Child

-----------------------------------------------------------------------------
(* The program *)

\* It writes to what it can reach, and may keep such a block in a cache.
LEMMA MutatorInductive ==
  ASSUME Inductive, TypeOK', MayRun, OnlyProgram, Reach' \subseteq Reach,
         cached' = cached \/ cached' \in Reach
  PROVE  Inductive'
<1> USE DEF OnlyProgram, heap, config, process, request
<1>1. pc # "stopped"  BY DEF MayRun, Inductive, StoppedOnce
<1>2. /\ NothingLiveFreed' /\ AllocMapped' /\ StoppedOnce' /\ ChildRecorded'
      /\ RecentBounds' /\ RecentMarked' /\ Swept'
  BY <1>1 DEF Inductive, NothingLiveFreed, AllocMapped, StoppedOnce, ChildRecorded,
     RecentBounds, Marking, RecentMarked, Swept
<1>3. CachesClean'
  <2> SUFFICES ASSUME pc = "sweep", NEW P \in toSweep, cached' \in P, cached' \notin mark
               PROVE  cached' \notin alloc
    BY DEF CachesClean, Doomed
  <2>1. Reach \subseteq mark
    BY DEF Inductive, RecentBounds, Marking, RecentMarked
  <2> QED  BY <2>1 DEF Inductive, CachesClean, Doomed
<1> QED  BY <1>2, <1>3 DEF Inductive

LEMMA ProgramInductive ==
  ASSUME Inductive, TypeOK', NEW b \in Blocks, NEW a \in Blocks, NEW c \in Blocks \cup {Null},
         Load(b) \/ Drop(b) \/ Lookup(b) \/ Store(a, c)
  PROVE  Inductive'
<1> TypeOK  BY DEF Inductive
<1>1. CASE Load(b)
  <2>1. Reach' \subseteq Reach  BY <1>1, ReachShrinks, ReachNow DEF Load
  <2> QED  BY <1>1, <2>1, MutatorInductive DEF Load
<1>2. CASE Drop(b)
  <2>1. Reach' \subseteq Reach  BY <1>2, ReachShrinks, ReachNow DEF Drop
  <2> QED  BY <1>2, <2>1, MutatorInductive DEF Drop
<1>3. CASE Lookup(b)
  <2>1. Reach' \subseteq Reach  BY <1>3, ReachShrinks, ReachNow DEF Lookup
  <2> QED  BY <1>3, <2>1, MutatorInductive, ReachNow DEF Lookup
<1>4. CASE Store(a, c)
  <2>1. \A d \in Reach : next'[d] \in Reach \cup {Null}
    BY <1>4, ReachNow DEF Store, TypeOK
  <2>2. Reach' \subseteq Reach  BY <1>4, <2>1, ReachShrinks, ReachNow DEF Store
  <2> QED  BY <1>4, <2>2, MutatorInductive DEF Store
<1> QED  BY <1>1, <1>2, <1>3, <1>4

LEMMA FreeInductive ==
  ASSUME Inductive, TypeOK', NEW b \in Blocks, Free(b)
  PROVE  Inductive'
<1> USE DEF config, process, request
<1> TypeOK  BY DEF Inductive
<1>1. Reach' \subseteq Reach \ {b}
  <2>1. \A a \in Reach \ {b} : next'[a] \in (Reach \ {b}) \cup {Null}
    BY ReachNow DEF Free, TypeOK
  <2>2. roots' \subseteq Reach \ {b}  BY ReachNow DEF Free
  <2> QED  BY <2>1, <2>2, ReachShrinks
<1>2. /\ NothingLiveFreed' /\ AllocMapped' /\ StoppedOnce' /\ ChildRecorded'
      /\ RecentBounds' /\ RecentMarked' /\ Swept' /\ CachesClean'
  BY <1>1 DEF Free, Inductive, NothingLiveFreed, AllocMapped, StoppedOnce, ChildRecorded,
     RecentBounds, Marking, RecentMarked, Swept, CachesClean
<1> QED  BY <1>2 DEF Inductive
-----------------------------------------------------------------------------
(* Allocation *)

\* The block handed out was not in use and is in a pool, and as long as a child
\* marks it is marked; the pools that are mapped keep their blocks.
Handed(b) ==
  /\ b \in Blocks \ alloc /\ b \in UNION mapped'
  /\ Hand(b) /\ mapped \subseteq mapped'
  /\ markProcPid => /\ b \in mark' /\ mark \subseteq mark'
                    /\ mark' \cap alloc \subseteq mark
  /\ Marking => markProcPid

LEMMA TakeHands ==
  ASSUME Inductive, NEW kind \in Kinds, Take(kind), Marking => markProcPid
  PROVE  \E b \in Blocks : Handed(b)
<1>1. PICK b \in FreeOf(kind) : Hand(b) /\ mark' = MarkNew(b) /\ UNCHANGED mapped
  BY DEF Take
<1>2. b \in Blocks \ alloc /\ b \in UNION mapped'
  BY <1>1 DEF FreeOf, Inductive, TypeOK, Blocks
<1>3. markProcPid => b \in mark' /\ mark' = mark \cup {b}
  BY <1>1 DEF MarkNew, collectInProgress
<1> QED  BY <1>1, <1>2, <1>3 DEF Handed

LEMMA GrowHands ==
  ASSUME Inductive, NEW kind \in Kinds, Grow(kind), Marking => markProcPid
  PROVE  \E b \in Blocks : Handed(b)
<1>1. PICK P \in PoolsOf(kind) \ mapped : NewPool(P) /\ \E b \in P : Hand(b)
  BY DEF Grow
<1>2. PICK b \in P : Hand(b)
  BY <1>1
<1>3. P \in Pools /\ P \subseteq Blocks
  BY DEF PoolsOf, Pools, Blocks
<1>4. P \cap alloc = {}
  BY <1>1, <1>3, PoolsAssumption DEF Inductive, AllocMapped, TypeOK
<1>5. b \in Blocks \ alloc /\ b \in UNION mapped' /\ mapped \subseteq mapped'
  BY <1>1, <1>3, <1>4 DEF NewPool
<1>6. markProcPid => mark' = mark \cup P
  BY <1>1 DEF NewPool, collectInProgress
<1> QED  BY <1>2, <1>4, <1>5, <1>6 DEF Handed

\* After an allocation, to which sweeping has come to an end.
LEMMA HandInductive ==
  ASSUME Inductive, TypeOK', NEW b \in Blocks, Handed(b),
         UNCHANGED <<cached, config, markProcPid, suspendDepth, process>>,
         pc \in {"idle", "retry"}, pc' = "idle"
  PROVE  Inductive'
<1> USE DEF config, process
<1> TypeOK  BY DEF Inductive
<1>1. Reach' \subseteq Reach \cup {b}
  <2>1. \A a \in Reach \cup {b} : next'[a] \in (Reach \cup {b}) \cup {Null}
    BY ReachNow DEF Handed, Hand, TypeOK
  <2>2. roots' \subseteq Reach \cup {b}
    BY ReachNow DEF Handed, Hand
  <2>3. Reach \cup {b} \in SUBSET Blocks
    BY DEF Reach
  <2> QED  BY <2>1, <2>2, <2>3, ReachIs, ReachWithin
<1>2. NothingLiveFreed' /\ AllocMapped'
  BY <1>1 DEF Handed, Hand, Inductive, NothingLiveFreed, AllocMapped
<1>3. StoppedOnce' /\ ChildRecorded' /\ Swept' /\ CachesClean'
  BY DEF Inductive, StoppedOnce, ChildRecorded, Swept, CachesClean
<1>4. RecentBounds' /\ RecentMarked'
  BY <1>1 DEF Handed, Hand, Inductive, RecentBounds, Marking, RecentMarked, collectInProgress
<1> QED  BY <1>2, <1>3, <1>4 DEF Inductive

LEMMA AllocInductive ==
  ASSUME Inductive, TypeOK', NEW kind \in Kinds, Take(kind) \/ Grow(kind),
         UNCHANGED <<cached, config, markProcPid, suspendDepth, process>>,
         pc \in {"idle", "retry"}, pc' = "idle"
  PROVE  Inductive'
<1>1. Marking => markProcPid  BY DEF Marking
<1>2. PICK b \in Blocks : Handed(b)  BY <1>1, TakeHands, GrowHands
<1> QED  BY <1>2, HandInductive

\* A step that changes nothing but where the thread in the collector is.
LEMMA RequestInductive ==
  ASSUME Inductive, TypeOK', pc \in {"idle", "full", "retry"}, pc' \in {"idle", "full", "retry"},
         UNCHANGED <<heap, mark, program, shouldFork, markProcPid, suspendDepth, toSweep,
                     process, recent>>
  PROVE  Inductive'
<1> USE DEF heap, program, process
<1>1. Reach' = Reach  BY DEF Reach, Closed
<1> QED
  BY <1>1 DEF Inductive, NothingLiveFreed, AllocMapped, StoppedOnce, ChildRecorded,
     RecentBounds, Marking, RecentMarked, Swept, CachesClean

\* A pool that is given back has no block in use.
LEMMA MinimizeInductive ==
  ASSUME Inductive, TypeOK', MinimizePools \/ UNCHANGED mapped,
         pc \in {"sweep", "retry"}, pc' = "retry", recent' = recent \/ ~Marking',
         UNCHANGED <<alloc, mark, program, shouldFork, markProcPid, suspendDepth, process>>
  PROVE  Inductive'
<1> USE DEF program, process
<1>1. Reach' = Reach  BY DEF Reach, Closed
<1>2. \A b \in alloc : b \in UNION mapped => b \in UNION mapped'
  BY DEF MinimizePools, Unused
<1>3. NothingLiveFreed' /\ AllocMapped'
  BY <1>1, <1>2 DEF Inductive, NothingLiveFreed, AllocMapped
<1>4. StoppedOnce' /\ ChildRecorded' /\ Swept' /\ CachesClean'
  BY DEF Inductive, StoppedOnce, ChildRecorded, Swept, CachesClean
<1>5. RecentBounds' /\ RecentMarked'
  BY <1>1 DEF Inductive, RecentBounds, Marking, RecentMarked
<1> QED  BY <1>3, <1>4, <1>5 DEF Inductive
-----------------------------------------------------------------------------
(* The collector and the child *)

\* The child's result is taken: what was reachable when it began, and what was
\* allocated since, is marked.
LEMMA PollDoneInductive ==
  ASSUME Inductive, TypeOK', PollDone
  PROVE  Inductive'
<1> USE DEF PollDone, heap, config, request, collectInProgress
<1>1. Reach' = Reach  BY DEF Reach, Closed
<1>2. NothingLiveFreed' /\ AllocMapped' /\ StoppedOnce' /\ ChildRecorded' /\ Swept'
  BY <1>1 DEF Inductive, NothingLiveFreed, AllocMapped, StoppedOnce, ChildRecorded, Swept
<1>3. RecentBounds' /\ RecentMarked'
  BY <1>1 DEF Inductive, RecentBounds, Marking, RecentMarked, ChildRecorded
<1>4. CachesClean'
  BY PoolsAssumption DEF CachesClean, ClearCaches, Doomed, Inductive, AllocMapped, TypeOK
<1> QED  BY <1>2, <1>3, <1>4 DEF Inductive

LEMMA LmarkInductive ==
  ASSUME Inductive, TypeOK', Lmark
  PROVE  Inductive'
<1> USE DEF Lmark, heap, program, config, request, process, collectInProgress
<1>1. Reach' = Reach  BY DEF Reach, Closed
<1>2. NothingLiveFreed' /\ AllocMapped' /\ StoppedOnce' /\ ChildRecorded' /\ Swept'
      /\ CachesClean'
  BY <1>1 DEF Inductive, NothingLiveFreed, AllocMapped, StoppedOnce, ChildRecorded, Swept,
     CachesClean
<1>3. mark' \cap alloc = {}  BY DEF Prepare
<1>4. RecentBounds' /\ RecentMarked'
  BY <1>1, <1>3 DEF Inductive, RecentBounds, Marking, RecentMarked, ChildRecorded
<1> QED  BY <1>2, <1>4 DEF Inductive

LEMMA MarkForkInductive ==
  ASSUME Inductive, TypeOK', MarkFork
  PROVE  Inductive'
<1> USE DEF MarkFork, heap, program, config, request
<1>1. Reach' = Reach  BY DEF Reach, Closed
<1>2. NothingLiveFreed' /\ AllocMapped' /\ StoppedOnce' /\ ChildRecorded' /\ Swept'
      /\ CachesClean'
  BY <1>1 DEF Inductive, NothingLiveFreed, AllocMapped, StoppedOnce, ChildRecorded, Swept,
     CachesClean
<1>3. RecentBounds' /\ RecentMarked'
  BY <1>1 DEF Inductive, RecentBounds, Marking, RecentMarked
<1> QED  BY <1>2, <1>3 DEF Inductive

LEMMA MarkHereInductive ==
  ASSUME Inductive, TypeOK', MarkHere
  PROVE  Inductive'
<1> USE DEF MarkHere, heap, config, request, process
<1>1. Reach' = Reach  BY DEF Reach, Closed
<1>2. NothingLiveFreed' /\ AllocMapped' /\ StoppedOnce' /\ ChildRecorded' /\ Swept'
  BY <1>1 DEF Inductive, NothingLiveFreed, AllocMapped, StoppedOnce, ChildRecorded, Swept
<1>3. RecentBounds' /\ RecentMarked'
  BY <1>1 DEF Inductive, RecentBounds, Marking, RecentMarked, ChildRecorded
<1>4. CachesClean'
  BY PoolsAssumption DEF CachesClean, ClearCaches, Doomed, Inductive, AllocMapped, TypeOK
<1> QED  BY <1>2, <1>3, <1>4 DEF Inductive

\* What a sweep frees is not marked, so it is not recent, and so it cannot be
\* reached, whatever the program did since the marking began.
LEMMA SweepInductive ==
  ASSUME Inductive, TypeOK', NEW P \in Pools, SweepPool(P)
  PROVE  Inductive'
<1> USE DEF SweepPool, config, request, process
<1> TypeOK  BY DEF Inductive
<1>1. Reach \cap Doomed(P) = {}
  BY DEF Inductive, RecentBounds, Marking, RecentMarked, Doomed
<1>2. Reach' \subseteq Reach
  <2>1. \A a \in Reach : next'[a] \in Reach \cup {Null}
    BY ReachNow DEF TypeOK
  <2> QED  BY <2>1, ReachShrinks, ReachNow
<1>3. NothingLiveFreed' /\ AllocMapped' /\ StoppedOnce' /\ ChildRecorded'
  BY <1>1, <1>2 DEF Inductive, NothingLiveFreed, AllocMapped, StoppedOnce, ChildRecorded
<1>4. RecentBounds' /\ RecentMarked'
  BY <1>2 DEF Inductive, RecentBounds, Marking, RecentMarked
<1>5. Swept' /\ CachesClean'
  BY DEF Inductive, Swept, CachesClean, Doomed
<1> QED  BY <1>3, <1>4, <1>5 DEF Inductive

LEMMA ChildInductive ==
  ASSUME Inductive, TypeOK', (\E b \in Blocks : ChildMark(b)) \/ ChildExit \/ OtherWaits
  PROVE  Inductive'
<1> USE DEF OnlyChild, heap, program, config, request
<1>1. Reach' = Reach  BY DEF ChildMark, ChildExit, OtherWaits, Reach, Closed
<1>2. CASE \E b \in Blocks : ChildMark(b)
  <2>1. PICK b \in Blocks : ChildMark(b)  BY <1>2
  <2>2. pc \notin {"stopped", "sweep"} /\ markProcPid /\ b \in recent
    BY <2>1 DEF ChildMark, Inductive, ChildRecorded, RecentMarked
  <2>3. NothingLiveFreed' /\ AllocMapped' /\ StoppedOnce' /\ ChildRecorded' /\ Swept'
        /\ CachesClean'
    BY <1>1, <2>1, <2>2 DEF ChildMark, Inductive, NothingLiveFreed, AllocMapped, StoppedOnce,
       ChildRecorded, Swept, CachesClean
  <2>4. RecentBounds' /\ RecentMarked'
    BY <1>1, <2>1, <2>2 DEF ChildMark, Inductive, RecentBounds, Marking, RecentMarked
  <2> QED  BY <2>3, <2>4 DEF Inductive
<1>3. CASE ChildExit \/ OtherWaits
  BY <1>1, <1>3 DEF ChildExit, OtherWaits, Inductive, NothingLiveFreed, AllocMapped,
     StoppedOnce, ChildRecorded, RecentBounds, Marking, RecentMarked, Swept, CachesClean, Doomed
<1> QED  BY <1>2, <1>3

-----------------------------------------------------------------------------
(* All steps *)

LEMMA NextInductive ==
  ASSUME Inductive, [Next]_vars
  PROVE  Inductive'
<1>1. TypeOK'  BY TypeInductive DEF Inductive
<1>2. ASSUME NEW b \in Blocks, Load(b) \/ Drop(b) \/ Lookup(b) \/ Free(b)
      PROVE Inductive'
  BY <1>1, <1>2, ProgramInductive, FreeInductive
<1>3. ASSUME NEW a \in Blocks, NEW b \in Blocks \cup {Null}, Store(a, b)
      PROVE Inductive'
  BY <1>1, <1>3, ProgramInductive
<1>4. ASSUME NEW kind \in Kinds, AllocNow(kind) PROVE Inductive'
  BY <1>1, <1>4, AllocInductive DEF AllocNow
<1>5. ASSUME NEW kind \in Kinds, AllocCollect(kind) PROVE Inductive'
  BY <1>1, <1>5, RequestInductive DEF AllocCollect
<1>6. CASE Collect
  BY <1>1, <1>6, RequestInductive DEF Collect, config
<1>7. CASE PollDone  BY <1>1, <1>7, PollDoneInductive
<1>8. CASE PollRunning
  BY <1>1, <1>8, RequestInductive DEF PollRunning, config
<1>9. CASE Lmark \/ MarkFork \/ MarkHere
  BY <1>1, <1>9, LmarkInductive, MarkForkInductive, MarkHereInductive
<1>10. ASSUME NEW P \in Pools, SweepPool(P) PROVE Inductive'
  BY <1>1, <1>10, SweepInductive
<1>11. CASE SweepEnd
  <2>1. ~Marking'
    BY <1>11 DEF SweepEnd, Marking, Inductive, ChildRecorded
  <2> QED  BY <1>1, <1>11, <2>1, MinimizeInductive DEF SweepEnd
<1>12. CASE Return
  <2>1. CASE call \in Kinds /\ (Take(call) \/ Grow(call))
    BY <1>1, <1>12, <2>1, AllocInductive DEF Return
  <2>2. CASE UNCHANGED <<heap, mark, roots, next, recent>>
    BY <1>1, <1>12, <2>2, RequestInductive DEF Return, config, program
  <2> QED  BY <1>12, <2>1, <2>2 DEF Return
<1>13. CASE Minimize
  BY <1>1, <1>13, MinimizeInductive DEF Minimize, config
<1>14. CASE Child \/ OtherWaits
  BY <1>1, <1>14, ChildInductive DEF Child
<1>15. CASE UNCHANGED vars
  <2>1. Reach' = Reach  BY <1>15 DEF vars, program, Reach, Closed
  <2> QED
    BY <1>1, <1>15, <2>1 DEF vars, heap, program, config, process, request, Inductive,
       NothingLiveFreed, AllocMapped, StoppedOnce, ChildRecorded, RecentBounds, Marking,
       RecentMarked, Swept, CachesClean, Doomed
<1> QED
  BY <1>2, <1>3, <1>4, <1>5, <1>6, <1>7, <1>8, <1>9, <1>10, <1>11, <1>12, <1>13, <1>14, <1>15
  DEF Next, Program, Collector

LEMMA AlwaysInductive == Spec => []Inductive
<1>1. Init => Inductive  BY InitInductive
<1>2. Inductive /\ [Next]_vars => Inductive'  BY NextInductive
<1> QED  BY <1>1, <1>2, PTL DEF Spec

-----------------------------------------------------------------------------
(* Theorems *)

\* No collection frees a block the program can reach (sweep at gc.d:2960),
\* however it moved its pointers and allocated while a child marked.
THEOREM LiveKept == Spec => []NothingLiveFreed
<1>1. Inductive => NothingLiveFreed  BY DEF Inductive
<1> QED  BY <1>1, AlwaysInductive, PTL

\* Block caches never name a block that a sweep is about to free
\* (clearBlkCacheData before the world is resumed, gc.d:3175).
THEOREM CachesKeptClean == Spec => []CachesClean
<1>1. Inductive => CachesClean  BY DEF Inductive
<1> QED  BY <1>1, AlwaysInductive, PTL

\* At the end of a sweep nothing is in use but what was reachable when the
\* marking began or was allocated since (prepare, gc.d:2817).
THEOREM GarbageIsFreed == Spec => []GarbageFreed
<1>1. Inductive => GarbageFreed
  <2> SUFFICES ASSUME Inductive, pc = "sweep", toSweep = {}
               PROVE  alloc \subseteq recent
    BY DEF GarbageFreed
  <2>1. alloc \subseteq mark  BY DEF Inductive, AllocMapped, Swept
  <2> QED  BY <2>1 DEF Inductive, RecentBounds, Marking
<1> QED  BY <1>1, AlwaysInductive, PTL

\* Every thread_suspendAll of a collection has its thread_resumeAll
\* (fullcollect, gc.d:3359 and 3409, and markFork), when fork() does not fail.
THEOREM WorldIsResumed == Spec => []WorldRuns
<1>1. Inductive => WorldRuns  BY DEF Inductive, StoppedOnce, WorldRuns
<1> QED  BY <1>1, AlwaysInductive, PTL

=============================================================================
