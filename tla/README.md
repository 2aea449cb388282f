# TLA+ models of the D runtime's concurrency core

The repository holds the D reference compiler (`compiler/`) and the D runtime
(`druntime/`).  The compiler is a sequential pipeline over text and trees.  What
is hard to test is in the runtime: the primitives of `core.sync`, the locks
behind `synchronized`, the registry of threads with stop-the-world, fibers, the
garbage collector that builds on them, and shared libraries that come and go.
This project specifies, model-checks and partly proves that core.  Paths below
are relative to `druntime/src`; `gc.d` is
`core/internal/gc/impl/conservative/gc.d`.

## 1. Inventory

| component | source | state | operations | hard because | correct means |
|---|---|---|---|---|---|
| `ReadWriteMutex` | `core/sync/rwmutex.d` | four counters, two condition queues, policy | reader and writer `lock`, `tryLock`, `tryLock(Duration)`, `unlock` | one notification for many sleepers, barging, time-outs | exclusion, precedence of the policy, nobody forgotten |
| `Barrier` | `core/sync/barrier.d` | `m_group`, `m_count`, one condition queue | `wait` | the next group arrives before the last one has left | threads leave in groups of the limit, all of them |
| `Condition` (Windows) | `core/sync/condition.d` 420-600 | two semaphores, a critical section, three counters | `wait`, `wait(Duration)`, `notify`, `notifyAll` | a period ends while a notification is handed out | waiters counted, gate opened once per notification, notified threads wake |
| `Condition` (POSIX), `Event`, `Mutex` | `core/sync/{condition,event,mutex}.d` | a pthread object each, `Event.m_state` | wait, notify, set, reset, lock | spurious wake-ups | modelled inside their users |
| monitors | `rt/monitor_.d`, `rt/lifetime.d` 482 | `Object.__monitor`, `Monitor.refs/devt/mtx`, `gmtx` | enter, exit, setSameMutex, attach/detach, delete | creation on first use by several threads, reference counts against the collector | one monitor per object, freed exactly once |
| critical sections | `rt/critical_.d` | `D_CRITICAL_SECTION.next/mtx`, `head`, `gcs` | enter, enter2, exit, term | double-checked initialization | initialized once, before it is locked; listed |
| thread registry, stop-the-world | `core/thread/{threadbase,osthread,posix_impl}.d` | `sm_tbeg`, `sm_cbeg`, `sm_tlen`, `pAboutToStart`, `slock`, `suspendDepth`, `suspendCount`, signals | start, entry point, add/remove, attach/detach, suspendAll/resumeAll, joinAll | signals against locks, threads that begin or end during a stop | nobody runs when the world is stopped, notifications add up, everybody resumes |
| fibers | `core/thread/fiber/base.d`, `core/thread/{context,threadbase,posix_impl}.d` | contexts with `tstack`, `within`, `ehContext`; `m_curr`, `m_lock`, `sm_this` | construct, call, yield, end, reset, destroy; scan | a signal between any two stores of a switch, fibers that change threads | every stack is scanned, a fiber returns to where it was called |
| shared libraries | `rt/sections_elf_shared.d` | `_loadedDSOs` of each thread with `_refCnt`, `_addCnt`; the loader's counts | load, unload, inherit, cleanup | counted per thread and in the loader, callbacks from `dlclose` | what a thread has is mapped, destroyed once, given back |
| collection cycle, fork | `gc.d` 2150-2560, 2790-3460, `os.d` | `markProcPid`, `shouldFork`, mark bits, block caches | fullcollect, markFork, collectFork, sweep, allocation meanwhile | a child marks a snapshot while the program goes on | nothing reachable is freed, garbage is, the world runs again |
| parallel marking | `gc.d` 2461-2770, 3581-3850 | mark bits, common and local stacks, `busyThreads`, two events | markParallel, mark, scanBackground, start/stop of scan threads | distributed termination, lost wake-ups | exactly what is reachable is marked; marking ends |
| large objects | `gc.d` 4170-4580 | `pagetable`, `bPageOffsets`, `searchStart`, `largestFree` | allocPages, free, shrink, expand, extend, runFinalizers, sweep | run lengths kept at two ends only, estimates moved by every operation | disjoint blocks, room that is there is found |
| small objects | `gc.d` 890-1130, 1890-2100, 2960-3160, 3430-3560 | `bucket` lists, `binPageChain`, `searchStart`, `recoverPageFirst`, `recoverPool` | smallAlloc, recovery, free, sweep, minimize, new pools | three representations of free memory in the same bytes | no object handed out twice, nothing lost from a list |
| semaphore, start and termination, module constructors, associative arrays | `core/sync`, `rt` | | | | not modelled, see the plan |
| compiler | `compiler/src/dmd` | syntax trees, symbol tables | lexing, parsing, semantic passes, CTFE, code generation | size, not interleaving | out of a model checker's reach as a whole |

How they interact: `synchronized` goes through monitors and critical sections;
`ReadWriteMutex` and `Barrier` are built on `Mutex` and `Condition`; a
collection takes `slock` through `thread_suspendAll`, scans the stacks the
registry lists (those of fibers among them), wakes the scan threads through
`Event`s or leaves the marking to a child process, sweeps the pools, finalizes
(and so deletes monitors and unmaps stacks of fibers) and resumes; the registry
is what keeps `Thread` objects alive; a thread that is started pins the
libraries of its parent.

`PROJECT.json` lists every component, modelled or not, every hazard at its
line, and the lines each definition stands for.

## 2. Modules

| module | models | proofs |
|---|---|---|
| `RWLock` | what `ReadWriteMutex` promises, without counters and queues | |
| `RWMutex` | `core/sync/rwmutex.d` | `SyncProofs` |
| `Rendezvous` | what `Barrier` promises | |
| `Barrier` | `core/sync/barrier.d` | `SyncProofs` |
| `MCSync` | the instances of `RWMutex` and `Barrier` | |
| `ConditionWin`, `MCConditionWin` | `Condition` on Windows; its instance | `ConditionWinProofs` |
| `Monitor` | `rt/monitor_.d` with `rt_finalize2` | `CriticalProofs` |
| `Critical` | `rt/critical_.d`, in the threads of `Monitor` (extends it, as `rt.critical_` imports `rt.monitor_`) | `CriticalProofs` |
| `MCCritical` | symmetry for `Critical` | |
| `StopTheWorld` | thread registry and stop-the-world, as built for Linux and the BSDs | `StopTheWorldProofs` |
| `Fiber` | fibers, and how a suspension and a scan see their stacks | `FiberProofs` |
| `Libraries` | `rt/sections_elf_shared.d` | `StopTheWorldProofs` |
| `MCThread` | the instances of `StopTheWorld`, `Fiber` and `Libraries` | |
| `LibrariesAtExit` | the instance of `Libraries` for finding 6 | |
| `ForkCollect` | a collection from `fullcollect` to the sweep, marking in place or in a child | `ForkCollectProofs` |
| `ForkCollectFaults` | the same, where `fork()` may fail | |
| `ParallelMark` | parallel marking | `ParallelMarkProofs` |
| `Allocator` | what both kinds of pools promise: disjoint blocks | |
| `LargePool` | `LargeObjectPool` | `PoolsProofs` |
| `SmallPools` | `SmallObjectPool` and what `Gcx` does with it | `PoolsProofs` |
| `MCMarkAndPools` | a heap, roots and pools for the last three | |

Definitions whose comment begins with "Fault:" are mistakes the code could
have had.  They are not part of any specification; replacing the definition
they follow by one of them has to make the property named in `PROJECT.json`
fail, which shows that the property depends on that code.

A module `MC...` that extends several specifications is their sum, not their
composition: a variable chosen in the initial state says which of them a
behaviour belongs to, and the variables of the others keep their values.  Each
of them is still its own specification, and what the run shows for the sum it
shows for each.

**`RWMutex`.**  Every method is a section under `m_commonMutex`, so a step is
the code from the entry, or from a return of `wait`, to the next `wait` or the
return.  `pc` says whether a thread is idle, asleep in a queue (`rwait`,
`wwait`), woken and about to test again (`rwoken`, `wwoken`), or inside.  A
woken thread may find the lock taken and sleep again; a timed call may end with
`expired` before or after its notification; `SpuriousWake` is
`pthread_cond_wait`'s.  `Phase` maps this to `RWLock`.

**`Barrier`.**  The same grain: `wait` until it sleeps, and from a return of
`m_cond.wait` to the next or to the end.  More threads than the limit use it,
so that the next group gathers while the last one leaves.

**`ConditionWin`.**  A section under `m_unblockLock` is a step, unless it waits
for the gate inside.  `notified` and `due` are history: who was notified since
it began to wait, and for whom a `notifyAll` was meant.  `GoneLimit` stands for
`int.max / 2`.  A build without assertions is modelled; `failed` records the
assertions behind releases of the gate.

**`Monitor`, `Critical`.**  Operations are records in `op`; `pc` goes through
`ensureMonitor` (look, `publish` under `gmtx`, `attr`, `lose`) and then locks,
shares or runs the body of attach and detach.  The sections under `gmtx` are
one step; the initialization of a critical section is four (mutex, `head`,
`next`, unlock) because `next` is read without the guard.  An object goes by
`Finalize` (destroy or the collector) or, without the attribute `FINALIZE`, by
`Sweep`, which calls nothing.  The caller's part is in the guards: statements
are nested, an object is finalized when nobody uses it, and the ownee of
`setSameMutex` is not shared yet (its `in` contract).  `_d_monitordelete_nogc`
is `_d_monitordelete` without dispose events.

**`StopTheWorld`.**  `pc` is where a thread is in its own code, `mode` whether
it is in `thread_suspendHandler` and whether it has posted `suspendCount`.
`slock` is explicit, because a stop holds it across steps; every other section
under it is a step.  What the code reads without it (`multiThreadedFlag`,
`isRunning`, the first test of `remove`, the fast paths) has steps of its own.
`Collect` frees the `Thread` objects that the registry, the stacks it lists and
the program (`Kept`) do not reach.

**`Fiber`.**  A step is one of the stores a suspend signal may fall between;
what code does is kept with the stack it runs on (`at`, `locals`), because a
fiber that yielded may go on in another thread.  A stack is the number of its
frames; an address is a stack and a number of frames, so a range that runs from
one stack to another can be told from one that is merely too short.
`thread_preSuspend`, the scan of the list of contexts and `thread_postSuspend`
are actions; how the signals stop everybody is `StopTheWorld`'s.  Callers of
one fiber exclude each other, as its documentation asks.

**`Libraries`.**  The loader is two operators: `dlopen` and `dlclose` count, and
a library is mapped while it or what needs it is open (`MappedWhen`).
`rt_loadLibrary` is `LoadOpen`, the loader's step, and then `incThreadRef`:
`LoadAgain` when the thread has the library, otherwise `LoadNew` and the
recursion over `_deps`.  `rt_unloadLibrary` is `UnloadCount`, the recursion of
`decThreadRef`, and `UnloadClose`.  The recursion is a stack: `calls` has an
entry for every call that is going through `_deps`, with its position, and
each dependency that is visited (`IncThreadRef`, `DecThreadRef`) and each return
(`InsertBack`, `DecReturn`) is a step, so other threads may open and close
libraries in between.  `tls` is what each thread has constructed, `twice`
records a destruction without a construction.

**`ForkCollect`.**  Everything in the collector happens under `gcLock`, so one
`pc` is enough; the program's actions are those of the other threads, enabled
while the world runs.  A block has one pointer.  The child has a copy of the
reachable blocks (`toMark`) and sets mark bits one at a time in shared memory.
Sweeping goes pool by pool, with the program in between.

**`ParallelMark`.**  Thread 0 collects, `1 .. N` are scan threads.  A range of
memory is named by the object in it, or by the scan thread for whom a part of
the roots was put aside; stacks are sets, because a range is pushed at most
once and their order does not matter.  A section under `stackLock` is a step.
Scan threads that could not be created stay at `"none"` and never take the part
of the roots meant for them.

**`LargePool`, `SmallPools`.**  Every operation is under `gcLock` and a step,
or one of the attempts of `smallAlloc`.  `LargePool` keeps `bPageOffsets` as it
is, with stale entries inside runs; a `realloc` that moves is an allocation
and a free.  `SmallPools` keeps the lists as the code does, threaded
through the objects (`next`) and the pages (`binPageChain`); pools are ordered
by their numbers, as `pooltable` is by addresses.  Collections in `SmallPools`
end with a sweep: those that leave a child behind are `ForkCollect`'s.  The
program is one that frees what it has and nothing twice.

## 3. Runs

| run | instance | shows |
|---|---|---|
| `rwmutex_and_barrier` | 4 threads, both policies, 2 threads with timed writes under `PREFER_READERS`; or a barrier for 3 used by 5 threads, 4 groups | exact counters, exclusion, no sleeping reader or writer without somebody who alerts it, refinement of `RWLock`, the preferred side is served; refinement of `Rendezvous`, whoever was released leaves |
| `rwmutex_timed_writer_strands_reader` | 3 threads, 1 timed writer | **violated**: finding 1 |
| `condition_windows` | 2 waiters, 2 notifiers; or one timed waiter with time-outs that fill the counter | counters, nobody takes a notification meant for others, `notifyAll` wakes all, nobody stuck at the gate |
| `condition_windows_gate_stuck` | 1 waiter, 1 timed waiter, 1 notifier | **violated**: finding 2 |
| `threads_and_fibers` | main and 2 workers, or main, a worker and a foreign thread, nesting 2; 2 threads with 2 fibers of one frame, or with 1 fiber of two frames; 3 threads with 2 libraries, or 2 with 3 | mutators stopped and scanned, notifications add up, `Thread` objects kept, `joinAll` complete, a stop ends and everybody resumes; every stack scanned, fibers finalized exactly when ended and unreferenced, a fiber finds what it left; libraries counted, mapped while used and accounted for by the loader |
| `thread_object_freed_at_exit` | main, 1 worker | **violated**: finding 3 |
| `marking_and_pools` | 2 scan threads, 5 objects, local stack of 1; or a large pool of 7 pages; or small pools of 2 and 1 pages for 2 sizes | exactly the reachable objects are marked, nobody scans a running world, events outlive their users, marking and stopping end; offsets, chains and free lists exact, room that is there is found, both kinds of pools refine `Allocator` |
| `synchronized` | 2 threads, 3 objects, 2 addresses, 3 critical sections, nesting 2 | statements exclude each other, mutexes ready when used and listed, counts exact, nothing leaked |
| `fork_collect` | a pool of 2 small blocks, one of a large block, option `fork` | nothing reachable freed, block caches clean, garbage freed, the world runs, a collection returns |
| `fork_fails` | the same, `fork()` may fail | **violated**: finding 4 |
| `fiber_suspended_twice` | 1 thread stopped twice by another, 1 fiber | **violated**: finding 5 |
| `thread_ends_with_library` | 1 library, a thread that ends with it | **violated**: finding 6 |

*Bounds.*  Four threads in `RWMutex` are a holder, a notified thread, one that
barges in and one still asleep.  Five threads at a barrier for three leave two
that gather for the next group while one of the last is still asleep;
four groups let a thread miss more than one.  Two scan threads with the
collecting thread let one push while one pops the last range and one is about
to sleep; a local stack of one overflows whenever an object has two unmarked
successors; the root lists include one too short to be divided, and a repeated
root.  `StopTheWorld` needs a worker that starts another, or a foreign thread
that attaches during both; nesting 2 has an inner bracket.  Two fibers can call
each other and cross over between two threads; two frames tell a range that is
too short from one that is missing.  Of three libraries two need the third, so
that it is counted twice in one thread; `MaxOpens` bounds the `dlopen` calls in
force for one of them (2 with three threads, 3 with three libraries),
`MaxTogether` (5) those for all of them: two libraries open twice and the third
once.  `CountsAtOnce` has no thread interrupted while
it counts: it changes nothing that others read meanwhile, and the proofs,
which have all interleavings, do without it.  In
`synchronized` both threads can race for the monitor of one object while the
other object shares one; two addresses make reuse of a freed monitor's memory
common; two static sections make a list with a tail.  Seven pages hold three
blocks with free runs between and around them; the small pools have a page
boundary, a pool boundary and two bins that compete for pages.  `GoneLimit` is
small so that it is reached.  `CHECK_DEADLOCK FALSE` is given where the program
may stop: after termination, after all threads have ended, or when client code
locks in opposite orders.

*What the runs leave out.*  Where a finding would violate a property of a
passing run, the run excludes its cause in the MC module and says so there:
timed writers under `PREFER_WRITERS` (`NoTimedWriter`, finding 1), a second
suspension within one switch (`NoSecondStop`, which is `SuspendedOnce` of
`Fiber` in the next state, finding 5), a thread that ends with the last
reference to a library (`OthersHaveIt`, finding 6).

*Fairness.*  `RWMutex`: a woken thread gets the mutex, a client that holds the
lock releases it (a program that never does has no progress to claim).
`Barrier`: a thread that was woken gets on.  `ConditionWin`: a thread that can
go on does, a semaphore or mutex that is free again and again is obtained
(strong fairness, as the system's queues give), a period elapses.
`StopTheWorld`: whoever stops the world goes on, a pending signal is delivered
and handled, the outermost bracket is left; nothing about who gets `slock`.
`ParallelMark`: every thread that can go on does, and the spin lock `stackLock`
is not withheld from one thread forever.  `ForkCollect`: the thread in the
collector and the child go on; the program need not.  Nobody is ever assumed to
ask, start, notify, arrive or collect.

## 4. Findings

1. **A timed writer strands readers** (`rwmutex.d:501`).  Under
   `PREFER_WRITERS` readers queue behind a queued writer; when its
   `tryLock(Duration)` times out nobody notifies them.
2. **The gate stays shut** (`condition.d:468`).  On Windows, a wait that times
   out while somebody else's notification is on its way zeroes
   `numSignalsLeft`, and nobody opens `m_blockLock`; later waits hang with the
   mutex held.
3. **A `Thread` object is used after it left the registry** (`posix_impl.d:1208`).
4. **A failed `fork()` leaves the world stopped** (`gc.d:3377`).  `markFork`
   returns without `thread_resumeAll` (3252-3253), `fullcollect` jumps back to
   `Lmark` and stops the world a second time (3359), and only one
   `thread_resumeAll` follows (3409), although calls have to match
   (`osthread.d:804-806`).
5. **A stack is not scanned** (`fiber/base.d:613`).  A suspension between the
   store of the stack top and `m_lock = true` puts the stack top back to the
   bottom when it ends; if the thread is suspended again before
   `fiber_switchContext` stores it, the stack it is leaving is scanned as empty.
6. **Thread-local destructors run twice** (`sections_elf_shared.d:272`).  When
   a thread ends with the last reference to a library, `cleanupLoadedLibraries`
   calls `dlclose`, the loader calls `_d_dso_registry`, and that one takes it
   for a `dlclose` of foreign code: it runs the destructors of the
   thread-local variables, which `thread_entryPoint` has run, and removes the
   entry of the library from the array `cleanupLoadedLibraries` is walking
   through.  The `--tdso._addCnt` that follows then meets the next library,
   which keeps one `dlopen` too many, or, if its count was 0, wraps.
   `druntime/test/shared/src/load.d:108` expects one call of the destructors.

Seen with other instances of the same modules, or by reading:

- `Monitor` with an object that has no destructor: `_d_setSameMutex` does not
  give the ownee the attribute `FINALIZE` (`monitor_.d:56`), so that its share
  of the monitor is not given back when it is swept, and the monitor leaks.
- `ConditionWin` with two timed waiters: a `notifyAll` that races both
  time-outs can leave a token in `m_blockQueue`, and a later `wait(Duration)`
  returns `true` without a notification (`TrueMeansNotified` fails with
  `Timed = {w1, w2}`).
- `condition.d:502` asserts that the result of `ReleaseSemaphore` is 0, which
  means failure.
- `StopTheWorld` with `AttachEarly = TRUE`: when a foreign thread attaches and
  is the first thread besides the main one, `multiThreadedFlag` is set after it
  is on the list, a collection on the single-threaded path does not stop it,
  and `MutatorsStopped` fails.
- `StopTheWorld` with `"exiting"` in `Detaching`: `remove` tests membership
  without `slock`; a thread detached while it ends is removed twice, and
  `LengthCorrect` fails.
- A constructor or destructor of thread-local variables that throws in
  `thread_entryPoint` (`posix_impl.d:1269`, 1277) skips
  `cleanupLoadedLibraries`, and the `dlopen` calls of the thread stay.
- `gc.d`: `usedLargePages` is not reduced when a large object is freed by the
  program or shrinks; a page of small objects that `GC.free` empties stays with
  its bin until a collection sweeps it.
- `os.d:89`: if the marking process is killed, or the program waits for it
  itself, `ECHILD` counts as its successful end and incomplete mark bits are
  swept.

## 5. Proofs

All proofs are checked by TLAPS for every value of the constants that the
named assumptions allow.  Each follows the same line: an inductive invariant,
`Inv`, made of named parts, of which a lemma per action says that the action
keeps it; the properties the runs check are consequences of it.  Where a
theorem has a hypothesis besides the specification, section 4 says which
behaviour of the code makes it necessary.

**`SyncProofs`, `RWMutex`** (any finite set of threads, both policies, any set
of threads with timed writes).  `CountersCorrect`, `MutualExclusion`,
`WritersNotStranded`, `ReadersNotStranded`, `Refinement`.  The guards of the
code look at the counters while the properties speak of threads; exclusion is
not inductive without `CountersMatch`.  The wake-up invariants need besides
that only a thread inside a timed call may give up (`TimedOK`).
`ReadersNotStranded` has the hypothesis that finding 1 shows to be necessary:
under `PREFER_WRITERS` no write is timed.

**`SyncProofs`, `Barrier`** (any finite set of threads, any limit).
`ReleasedAreAwake`, `BarrierIsRendezvous`.  Who is held is not a variable of
the code: a thread is held when its `group` is `m_group`.  The inductive
invariant says that no thread has a group of the future (`GroupsPast`), that
`m_count` is the limit less the threads held (`CountMatches`), and that a
released thread has left the wait set (`ReleasedAwake`); from the first two
each step of `wait` is one of `Rendezvous`.

**`ConditionWinProofs`** (any finite sets of waiters and notifiers).
`WaitersCounted`, `OnlyNotifiedWake`.  `m_blockLock` is a baton: it is free, or
one thread is inside, or it is on its way as a token of `m_blockQueue`, and
these add up to one (`GateOnce`).  The two counters of waiters add up to the
threads that sleep or are just leaving the queue (`AllCounted`); a token exists
only while a notification is being handed out (`HandedOut`), and while one is,
everybody who waits was notified, because the gate keeps later ones out
(`AllNotified`).  That only one thread at a time is about to hand out
(`OneHands`) is an invariant of its own.  Both theorems assume that no wait is
timed: finding 2 and the case of two timed waiters in section 4 break the gate
and the tokens.

`AloneWaiterCounted` and `AloneWaiterNotified` are the same properties for one
thread whose waits may time out, and any number of notifiers.  Their invariant
`AloneInv` follows the token of a notification: it is posted or about to be
until the thread takes it, in `Dequeue`, or in `Drain` if its period ended first
(`AloneTokens`).  `waitersGone` is how many of `waitersBlocked` are former waits
that timed out (`AloneCounted`), so a notification that is decided on finds the
thread still waiting when it has the gate: `m_unblockLock` keeps the thread from
counting itself out in between.  With a second waiter, who need not be timed for
`WaitersAccounted`, the statements are false: TLC refutes them.

**`CriticalProofs`** (any finite sets of threads, objects, addresses and
sections, nesting of any depth).  `SynchronizedExclude`, `MutexesKept`,
`CountsExact`, `EventsStay`, over the invariant `InvHolds`.  Exclusion is a consequence of
`Locked`, which ties what threads are in to the mutexes: how often a thread has
locked a mutex is the number of its statements that go to it (`Depth`).  That
two statements on one object go to one mutex for as long as they last is the
part about monitors: whoever is about to publish a monitor is alone with it
(`Private`), `refs` is the number of the objects that share it and of those
who are giving up a share (`Counted`), so that it is neither freed under a user
nor kept without one, and what is used exists (`UsedExist`).  For critical
sections it is `Initialized`: a section is raw until the thread that has the
guard has initialized it, and known to others afterwards.  `Linked` says that
every section that is known can be walked to from `head`, or from the head
before (`ohead`) in the moment between the two stores, where `WalkFrom` is
closure under `next` and so needs no recursion.  `EventsStay` is about the array
of dispose events, with what attaching and detaching do to its slots; that there
is a first slot among some is the one place where the order of the naturals is
used (`WFMin`).  The hypothesis is
`Ownees \subseteq Dtor`: the monitor of an ownee without a destructor leaks
(section 4).

**`StopTheWorldProofs`** (any number of workers and foreign threads, brackets
of any depth).  The invariant is built in layers, each proved with those
before it.  `Lives`: where a thread is in its life and whether it is listed, has
a context, is about to start, agree.  `Threaded`: while `multiThreadedFlag` is
not set there is no other thread, and a thread that is starting the first one
has set it.  `Held`: `slock` belongs to who stops or resumes, once for each
bracket.  `Signalled`: a thread that was sent the suspend signal and not yet
the resume signal is `Called`, that is, stopped, about to stop, or still
leaving the handler of the stop before; all others are `Free`.  `Counted`: the
notifications `suspendAll` waits for are the pending signals, the threads in the
handler before the post, and the posts.  So when `cnt` is zero everybody listed
sleeps in the handler (`WorldStopped`), and `resumeAll` wakes exactly those
(`NotificationsAccounted`).  `BracketsNested` is that `slock` and the depth go
together.  `TypeCorrect` includes that semaphore and depths do not go below
zero.  `ThreadObjectsKept` and `AllJoined` need `Lives` only; `LengthKept` is
that `sm_tlen` is the length of the list.  Two hypotheses occur, and section 4
has the behaviours that break the property without them: `~AttachEarly`, no
foreign thread attaches before there is a second thread (all but
`ThreadObjectsKept` and `AllJoined`); and `"exiting" \notin Detaching`, nobody
detaches a thread that is ending (`ThreadObjectsKept`, `AllJoined`,
`LengthKept`).

**`StopTheWorldProofs`, `Libraries`** (any threads and libraries, any
dependencies without a cycle, loads and unloads interleaved in every way).
`LibrariesCounted` rests on `LibInv`, which says of each thread by itself what
holds in the middle of `incThreadRef` and `decThreadRef` too.  The calls in
progress are nested along the dependencies (`Nested`), so no library is in two
of them, and what they are for is not in the list yet, or not any more
(`CallsFit`).  A dependency of a library counts while the library is in the
list; during a load also if a call has visited it already (`Adds`), during an
unload as long as no call has visited it (`Drops`).  With `Holding` understood
so, `_refCnt` is exact at every step (`ListFits`), not only between calls:
a visit adds or takes one element (`HoldingLess`), and inserting or
removing a library moves elements from one disjunct of `Holds` to the other.  A
library goes off the list only when nothing holds it, so what is left still
comes after what it needs (`Ordered`), and what `decThreadRef` looks for is
there because it is held (`HeldIsThere`), which is the code's assertion.

`OpensAreAccounted` adds `OpenInv`: the loader's count of a library is the
number of loads of all threads, the call in progress and the pinned arrays
included (`OpensFit`), where an ending thread has given back what is before
`slot` (`EndFits`).  For `LibrariesMapped`, everything a thread has is needed by
something it has open (`Rooted`): of those that are not, take the last one in the
list; it has a reference, none of its own, so a library needs it, which comes
later in the list or is being loaded or unloaded.  `OpensAreAccounted`, `LibrariesMapped` and
`DestroyedOnce` assume `[][OthersHaveIt]_libvars` where finding 6 shows that it
is needed: no thread that ends closes a library that nobody else has open.
`LibrariesCounted` needs no hypothesis, since a list is not used any more after
its thread has begun to close what is on it.

**`FiberProofs`** (any threads and fibers, stacks of any depth, stops
anywhere).  `StateStays`, `OnlyEndedFinalized`, `ScansComplete`, over the
invariant of `Consistent`.  Its parts: every thread is on one stack and no two
on the same, and the stacks in use are exactly those (`Placed`); by the place of
the code on a stack one knows the context, `m_lock` and `sm_this` of the thread
(`Carried`) and its exceptions (`Exceptions`); a fiber has one caller, which
waits for it (`Calls`); the local variables of a switch name the stacks it goes
between, also when the fiber goes on in another thread (`LocalsFit`); `m_state`
(`States`), the saved stack tops (`Tops`) and the list of contexts (`Kept`).
Most actions change one stack only; the lemma `OneStack` says once what such an
action owes, and each of them is an instance.  The switches themselves
(`InvSwitchIn`, `InvSwitchOut`), the two ends of a call (`InvCallBegin`,
`InvCallEnd`) and the suspensions are proved apart.  `ScansComplete` shows that
finding 5 is the only way to miss a stack: under `[]SuspendedOnce`, that no
thread is suspended in the window with its stored top taken back, every stack
in use is scanned to its last frame, by the further invariant `TopsStored` that
a stored top is either there or was taken back.

**`ForkCollectProofs`** (any pools, blocks and arrays, with and without the
option `fork`).  `LiveKept`, `CachesKeptClean`, `GarbageIsFreed`,
`WorldIsResumed`, from the invariant `Inductive`.  The history variable
`recent` is what was reachable when the marking began and what was allocated
since.  From `prepare` to the end of the sweep it contains what the program can
reach now and every block in use that is marked (`RecentBounds`): a program
that moves its pointers while a child marks a snapshot gets at nothing else.
It is marked or going to be, by whoever marks (`RecentMarked`), and everything
in a pool that has been swept is marked (`Swept`).  So the sweep frees nothing
reachable and, when it is over, nothing but `recent` is in use.
`StoppedOnce` is the depth of the stop; `ForkCollect` is the specification in
which `fork()` succeeds, since finding 4 breaks that invariant when it fails.

**`ParallelMarkProofs`** (any number of scan threads created or not, any finite
heap and roots, any stack size).  `TypeCorrect`, `MarkingCorrect`,
`WorldQuiet`, `NoLostWakeup`, `EventsOutliveUsers`.  The inductive invariant `Inv` has two parts.
Its control part says that only a thread in `mark` has work of its own
(`IdleEmpty`), that `busyThreads` is the number of threads in a round
(`BusyExact`), that the event is set while the common stack has something
(`WorkSignalled`), and that stack and count are zero outside a collection
(`StackQuiet`); it follows that nobody has anything to do once thread 0 finds
the stack empty and nobody else busy.  Its marking part is the tricolour
invariant with `Todo`, what somebody is still going to look at: whatever a root
or a marked object points to is marked or in `Todo` (`Complete`), and
everything marked or in `Todo` is reachable (`Sound`).  At the end `Todo` is
empty, so that the marked set is closed, contains the roots and is contained in
the reachable set.  `RootsDivided` shows that the parts into which
`markParallel` cuts the roots, with integer division, cover them.
`EventsOutliveUsers` needs besides that thread 0 knows which scan threads were
really created when it joins them (`StartedKnown`).

**`PoolsProofs`, small objects** (any pools, any number of pages, any bins, any objects
with finalizers).  `SmallPoolsConsistent` is the inductive invariant
`SmallInductive`, `SmallPoolsAllocate` the refinement of `Allocator`.  Its
parts: an object in use is in a mapped pool in a page of its size
(`UsedInPages`); `freepages` counts the free pages and unmapped pools have only
such (`FreeCounted`); `searchStart` and the chain of free pages lead to free
pages, no two to the same (`FreeChained`); the pages that wait to be recovered
are exactly those chained from `recoverPageFirst`, in descending order
(`WaitingChained`), and none is in a pool below `recoverPool`
(`RecoverPoolFirst`); what is on a free list is free, in a recovered page of
that bin, and on it once (`ListsDisjoint`).  The last is what keeps an
allocation from overlapping an object in use, and it is inductive only with the
others: a page that is still to be recovered must not have objects on a list,
which is `Gcx.free`'s test of `binPageChain`, and a page that gets free must not
leave any behind, which is why a sweep gives up all lists.

That lists and chains end and miss nothing (`SmallPoolsChains`,
`SmallPoolsLists`) needs a second invariant on top of it, `SmallExact`, proved
in `SmallPoolsExact`: every free page is on the chain from `searchStart`
(`FreeReached`) and every free object of a recovered page on the list of its bin
(`ListsReached`), except what `runFinalizers` freed (`LostKnown`); a page that
waits has a free object (`WaitingNotFull`); `recoverPool` stays mapped, since it
has a page in use (`RecoverPoolStays`); `usedSmallPages` is exact; and the lists
are empty after `smallAlloc` has called the collector (`ListsGivenUp`), where
`recoverNextPage` writes `bucket` without looking.  The properties follow links
by recursive functions, about which an operation says little.  So the invariant
says instead that a set is the least one that contains the beginning of the
chain and what its elements lead to (`IsChain`), and each operation is an
argument about sets: `ChainPop` for an allocation, `ChainPush` for a free,
`ChainBefore` for a sweep, `LinkUpReached` for `recoverPage`.  `ChainReached`
leads back to the functions: a chain of at most `M + 1` elements is what `M`
steps reach, because each step adds an element or is the last.  Here, and for
the count of used pages, the pools and bins are finite (`FiniteAssumption`).

**`PoolsProofs`, large objects** (a pool of any number of pages, any base
address and alignments).  `LargePoolConsistent` is the inductive invariant
`LargeInv`: the entries of a block count its pages and lead back to its first
(`BlocksWhole`), no other page is a `B_PAGEPLUS` (`PlusInside`), both ends of a
maximal free run know its length (`RunsKnown`), no free page is below
`searchStart` and no run longer than `largestFree` (`Estimates`), and
`freepages` is their number.  `RunsKnown` speaks of maximal runs only, since
entries inside a run keep whatever was there; so each operation needs what it
does to the maximal runs: an allocation cuts one (`Carve`), growth in place
takes pages off its beginning (`Shortened`), and freed pages join the runs at
their two ends, which `mergeFreePageOffsets` finds through the entry next to
them (`Joined`, `MergeFinds`).  `LargePoolOffsets` is a consequence, and so is
`LargePoolAllocates`, the refinement of `Allocator`.  For `LargePoolRoom` the
walk of `allocPages` is a recursive function; that it comes by every free run
follows by the least page at which it would not, since induction over the
natural numbers as the library states it takes an operator.

*Model-checked only:*

- liveness: `PreferredServed`, `ReleasedLeave`, `WaitsEnd`, `StopsEnd`,
  `CallsReturn`, `CollectReturns`, which need fairness, and fairness is stated
  with `ENABLED`, outside the prover's reach;

Some invariants are proved, or used in proofs, and not checked again by a run:
`TypeOK` of the modules, `BusyExact`, `WorkSignalled`, `ReleasedAwake`,
`LockDiscipline`, `LengthCorrect`, `EventsKept`, `Inv` of `Fiber`; and
`TLSDestroyedOnce`, whose run is the one that violates it (finding 6).

## 6. Plan

In this order:

1. `rt_init`/`rt_term` with their count, and the order of `rt/dmain2.d`.
2. Algorithms against reference definitions: module constructor order
   (`rt/minfo.d`), associative arrays (`core/internal/newaa.d`), value ranges
   (`compiler/src/dmd/intrange.d`).

## 7. Not modelled

*Everywhere:* the Darwin, Solaris, Windows and WASI variants of stop-the-world;
weak memory (atomic accesses are steps in one order); priorities and sleeping;
failure of `calloc` and of mutex initialization, which end the program.

*Synchronization:* the split of very long periods in `Condition`; the wrap of
`m_group` at 2^32.

*Fibers:* the exception a fiber ends with (`m_unhandled`), registers and the
initial layout of a stack; threads begin with their entry frame, from `run` on.

*Libraries:* registration at start-up, `dlopen` and `dlclose` by code that is
not D, a thread that cannot be created (its pin and unpin cancel out), and
abnormal exits, after which the references of a thread stay.  A thread that is
suspended while it reallocates `_loadedDSOs` is not either: the scan of such a
thread reads an array that is being moved.  Foreign threads have an empty list.

*Collection:* `fork()` called by the program, which copies `markProcPid` into
its child; a marking process that is killed; `isFinal`, which no caller passes,
and the branch of `markFork` that waits for the child, which `fullcollect`
never asks for.

*Pools:* precise scanning, attributes other than finalizers, the
contents of objects, growth of the sizes of pools.

The compiler, the bindings and the sequential rest of the runtime are listed in
`PROJECT.json` with a reason each.
