----------------------------- MODULE Libraries -----------------------------
(***************************************************************************)
(* Shared D libraries that are loaded while the program runs               *)
(* (druntime/src/rt/sections_elf_shared.d, built into a shared druntime).  *)
(*                                                                         *)
(* The loader of the system counts dlopen calls for the whole process and  *)
(* unmaps a library when nobody opened it or what depends on it.  D counts *)
(* again per thread, in _loadedDSOs, because each thread has its own       *)
(* thread-local variables to construct and destroy: _addCnt counts calls   *)
(* of rt_loadLibrary, each of which has a dlopen, and _refCnt the libraries *)
(* that need this one, and one for all of _addCnt.  A thread that is       *)
(* started inherits the libraries of its parent, with a dlopen of its own. *)
(*                                                                         *)
(* The loader calls _d_dso_registry when it maps and when it unmaps a D    *)
(* library, under its own lock, so a dlopen or dlclose is a step; what     *)
(* happens between the steps of one thread is up to the others.            *)
(* The executable and the libraries it was linked to are never unmapped    *)
(* and are left out.                                                       *)
(***************************************************************************)
EXTENDS Naturals, Sequences, FiniteSets

CONSTANTS
  Library,     \* D libraries that can be loaded
  Needs,       \* DSO._deps: those each depends on, in order
  NoLibrary,   \* null
  First,       \* the thread that is there from the beginning
  Others,      \* threads that are started
  MaxOpens     \* bound: dlopen calls for one library that are in force

Users == {First} \cup Others

Depends(x, y) == \E i \in DOMAIN Needs[x] : Needs[x][i] = y

\* What is mapped along with library x.
Requires ==
  [x \in Library |->
     {y \in Library : \A S \in SUBSET Library :
        x \in S /\ (\A z \in S, d \in Library : Depends(z, d) => d \in S) => y \in S}]

ASSUME NeedsAssumption ==
  /\ NoLibrary \notin Library
  /\ Needs \in [Library -> Seq(Library)]
  /\ \A x, y \in Library : Depends(x, y) => x \notin Requires[y]

VARIABLES
  opens,     \* the loader: how often each library is open
  loaded,    \* _loadedDSOs of each thread, or what its parent pinned for it
  doing,     \* where each thread is
  subject,   \* the library it is loading, unloading or cleaning up after
  calls,     \* calls of incThreadRef or decThreadRef it is in that visit _deps
  slot,      \* where cleanupLoadedLibraries is in the array
  tls,       \* libraries whose thread-local variables each thread has constructed
  twice      \* history: <<thread, library>>, destroyed but not constructed

libvars == <<opens, loaded, doing, subject, calls, slot, tls, twice>>

MappedWhen(o) == UNION {Requires[x] : x \in {y \in Library : o[y] > 0}}
Mapped == MappedWhen(opens)

LibrariesInit ==
  /\ opens = [x \in Library |-> 0]
  /\ loaded = [t \in Users |-> <<>>]
  /\ doing = [t \in Users |-> IF t = First THEN "run" ELSE "none"]
  /\ subject = [t \in Users |-> NoLibrary]
  /\ calls = [t \in Users |-> <<>>]
  /\ slot = [t \in Users |-> 0]
  /\ tls = [t \in Users |-> {}]
  /\ twice = {}

-----------------------------------------------------------------------------
(* ThreadDSO *)

Named(list) == {list[i].dso : i \in DOMAIN list}
Place(list, x) == CHOOSE i \in DOMAIN list : list[i].dso = x
EntryOf(list, x) == list[Place(list, x)]

\* remove(i)
Removed(list, i) == [j \in 1 .. Len(list) - 1 |-> IF j < i THEN list[j] ELSE list[j + 1]]

Goes(t, from, to) == doing[t] = from /\ doing' = [doing EXCEPT ![t] = to]

\* runTlsDtors of the libraries in S.
DestroyTLS(t, S) ==
  /\ tls' = [tls EXCEPT ![t] = @ \ S]
  /\ twice' = twice \cup ({t} \X (S \ tls[t]))

\* incThreadRef and decThreadRef go through the libraries that x depends on and
\* call themselves.  A call is here as long as it does so, the one that called
\* it before it; it goes on with the next of them.
Visit(x) == [dso |-> x, next |-> 1]
Innermost(t) == calls[t][Len(calls[t])]
Visited(t) == Innermost(t).next > Len(Needs[Innermost(t).dso])
ToVisit(t) == Needs[Innermost(t).dso][Innermost(t).next]
GoOn(t) == [calls[t] EXCEPT ![Len(calls[t])].next = @ + 1]
Callers(t) == SubSeq(calls[t], 1, Len(calls[t]) - 1)

\* Fault: the first explicit load of a library that is there as a dependency
\* does not count.
Again_Uncounted(e, incAdd) ==
  IF incAdd THEN [e EXCEPT !.add = @ + 1] ELSE [e EXCEPT !.ref = @ + 1]

\* Another reference to a library the thread has.
Again(e, incAdd) ==
  IF incAdd /\ e.add > 0 THEN [e EXCEPT !.add = @ + 1]
  ELSE [e EXCEPT !.ref = @ + 1, !.add = IF incAdd THEN 1 ELSE @]

\* Fault: the libraries that x depends on are forgotten.
Less_Alone(t, x, e, c) ==
  LET i == Place(loaded[t], x)
  IN /\ calls' = [calls EXCEPT ![t] = c]
     /\ IF e.ref > 0
          THEN loaded' = [loaded EXCEPT ![t][i] = e] /\ UNCHANGED <<tls, twice>>
          ELSE loaded' = [loaded EXCEPT ![t] = Removed(@, i)] /\ DestroyTLS(t, {x})

\* A reference less to a library the thread has, with the calls c that go on:
\* e is its entry without it, and goes with the last one.
Less(t, x, e, c) ==
  LET i == Place(loaded[t], x)
  IN IF e.ref > 0
     THEN /\ loaded' = [loaded EXCEPT ![t][i] = e]
          /\ calls' = [calls EXCEPT ![t] = c]
          /\ UNCHANGED <<tls, twice>>
     ELSE /\ loaded' = [loaded EXCEPT ![t] = Removed(@, i)]
          /\ calls' = [calls EXCEPT ![t] = Append(c, Visit(x))]
          /\ DestroyTLS(t, {x})

\* rt_loadLibrary: dlopen ...
LoadOpen(t, x) ==
  /\ Goes(t, "run", "opened")
  /\ opens[x] < MaxOpens
  /\ opens' = [opens EXCEPT ![x] = @ + 1]
  /\ subject' = [subject EXCEPT ![t] = x]
  /\ UNCHANGED <<loaded, calls, slot, tls, twice>>

\* ... and incThreadRef, which finds it ...
LoadAgain(t) ==
  LET x == subject[t]
  IN /\ Goes(t, "opened", "run")
     /\ x \in Named(loaded[t])
     /\ loaded' = [loaded EXCEPT ![t][Place(loaded[t], x)] = Again(@, TRUE)]
     /\ subject' = [subject EXCEPT ![t] = NoLibrary]
     /\ UNCHANGED <<opens, calls, slot, tls, twice>>

\* ... or goes through what it depends on.
LoadNew(t) ==
  /\ Goes(t, "opened", "adding")
  /\ subject[t] \notin Named(loaded[t])
  /\ calls' = [calls EXCEPT ![t] = <<Visit(subject[t])>>]
  /\ UNCHANGED <<opens, loaded, subject, slot, tls, twice>>

IncThreadRef(t) ==
  LET y == ToVisit(t)
  IN /\ doing[t] = "adding" /\ ~Visited(t)
     /\ IF y \in Named(loaded[t])
          THEN /\ loaded' = [loaded EXCEPT ![t][Place(loaded[t], y)] = Again(@, FALSE)]
               /\ calls' = [calls EXCEPT ![t] = GoOn(t)]
          ELSE /\ calls' = [calls EXCEPT ![t] = Append(GoOn(t), Visit(y))]
               /\ UNCHANGED loaded
     /\ UNCHANGED <<opens, doing, subject, slot, tls, twice>>

\* insertBack and runTlsCtors at the end of incThreadRef; incAdd is set for the
\* library that is loaded, and rt_loadLibrary returns after it.
InsertBack(t) ==
  LET x == Innermost(t).dso
      last == x = subject[t]
  IN /\ doing[t] = "adding" /\ Visited(t)
     /\ loaded' = [loaded EXCEPT ![t] =
          Append(@, [dso |-> x, ref |-> 1, add |-> IF last THEN 1 ELSE 0])]
     /\ tls' = [tls EXCEPT ![t] = @ \cup {x}]
     /\ calls' = [calls EXCEPT ![t] = Callers(t)]
     /\ doing' = [doing EXCEPT ![t] = IF last THEN "run" ELSE @]
     /\ subject' = [subject EXCEPT ![t] = IF last THEN NoLibrary ELSE @]
     /\ UNCHANGED <<opens, slot, twice>>

\* rt_unloadLibrary of a library this thread has loaded: decThreadRef ...
UnloadCount(t, x) ==
  LET e == EntryOf(loaded[t], x)
      less == [e EXCEPT !.add = @ - 1]
  IN /\ Goes(t, "run", "dropping")
     /\ x \in Named(loaded[t]) /\ e.add > 0
     /\ Less(t, x, IF e.add > 1 THEN less ELSE [less EXCEPT !.ref = @ - 1], <<>>)
     /\ subject' = [subject EXCEPT ![t] = x]
     /\ UNCHANGED <<opens, slot>>

\* ... which goes through what it depends on once it is gone ...
DecThreadRef(t) ==
  LET y == ToVisit(t)
  IN /\ doing[t] = "dropping" /\ calls[t] # <<>> /\ ~Visited(t)
     /\ Less(t, y, [EntryOf(loaded[t], y) EXCEPT !.ref = @ - 1], GoOn(t))
     /\ UNCHANGED <<opens, doing, subject, slot>>

DecReturn(t) ==
  /\ doing[t] = "dropping" /\ calls[t] # <<>> /\ Visited(t)
  /\ calls' = [calls EXCEPT ![t] = Callers(t)]
  /\ UNCHANGED <<opens, loaded, doing, subject, slot, tls, twice>>

\* ... and dlclose; the destructors of thread-local variables have run.
UnloadClose(t) ==
  /\ Goes(t, "dropping", "run")
  /\ calls[t] = <<>>
  /\ opens' = [opens EXCEPT ![subject[t]] = @ - 1]
  /\ subject' = [subject EXCEPT ![t] = NoLibrary]
  /\ UNCHANGED <<loaded, calls, slot, tls, twice>>

-----------------------------------------------------------------------------
(* Threads *)

\* Fault: the new array has the counts of the old one.
Pinned_SameCounts(list) == list

\* What pinLoadedLibraries copies: one dlopen for what was loaded explicitly.
Pinned(list) == [i \in DOMAIN list |-> IF list[i].add > 0 THEN [list[i] EXCEPT !.add = 1] ELSE list[i]]

\* Thread.start: pinLoadedLibraries.
StartPin(t, u) ==
  /\ doing[t] = "run" /\ Goes(u, "none", "started")
  /\ \A x \in Library : opens[x] < MaxOpens
  /\ loaded' = [loaded EXCEPT ![u] = Pinned(loaded[t])]
  /\ opens' = [x \in Library |->
       IF x \in Named(loaded[t]) /\ EntryOf(loaded[t], x).add > 0 THEN opens[x] + 1 ELSE opens[x]]
  /\ UNCHANGED <<subject, calls, slot, tls, twice>>

\* thread_entryPoint: inheritLoadedLibraries and rt_moduleTlsCtor.
Inherit(u) ==
  /\ Goes(u, "started", "run")
  /\ tls' = [tls EXCEPT ![u] = Named(loaded[u])]
  /\ UNCHANGED <<opens, loaded, subject, calls, slot, twice>>

\* The end of thread_entryPoint: rt_moduleTlsDtor, then cleanupLoadedLibraries.
CleanupBegin(u) ==
  /\ u # First /\ Goes(u, "run", "cleanup")
  /\ DestroyTLS(u, Named(loaded[u]))
  /\ slot' = [slot EXCEPT ![u] = 1]
  /\ UNCHANGED <<opens, loaded, subject, calls>>

\* The next library that was loaded explicitly.
Explicit(u) == {i \in DOMAIN loaded[u] : i >= slot[u] /\ loaded[u][i].add > 0}

CleanupNext(u) ==
  \E i \in Explicit(u) :
    /\ \A j \in Explicit(u) : i <= j
    /\ Goes(u, "cleanup", "closing")
    /\ slot' = [slot EXCEPT ![u] = i]
    /\ subject' = [subject EXCEPT ![u] = loaded[u][i].dso]
    /\ UNCHANGED <<opens, loaded, calls, tls, twice>>

\* The array without some libraries.
Without(list, gone) ==
  LET stay == {i \in DOMAIN list : list[i].dso \notin gone}
  IN [n \in 1 .. Cardinality(stay) |->
        list[CHOOSE i \in stay : Cardinality({j \in stay : j <= i}) = n]]

\* dlclose, and --_addCnt of the slot, a ushort where pointers have 32 bits.
\* _rtLoading is not set: _d_dso_registry runs the destructors of what is
\* unmapped and takes it off the array.
CleanupClose(u) ==
  LET x == subject[u]
      gone == Mapped \ MappedWhen(opens')
      left == Without(loaded[u], gone)
      i == slot[u]
  IN /\ doing[u] = "closing" /\ opens[x] > 0
     /\ opens' = [opens EXCEPT ![x] = @ - 1]
     /\ DestroyTLS(u, gone)
     /\ loaded' = [loaded EXCEPT ![u] =
          IF i \in DOMAIN left THEN [left EXCEPT ![i].add = IF @ > 0 THEN @ - 1 ELSE 65535] ELSE left]
     /\ IF i \in DOMAIN left /\ loaded'[u][i].add > 0
          THEN UNCHANGED <<doing, slot>>
          ELSE doing' = [doing EXCEPT ![u] = "cleanup"] /\ slot' = [slot EXCEPT ![u] = i + 1]
     /\ UNCHANGED <<subject, calls>>

CleanupEnd(u) ==
  /\ Explicit(u) = {}
  /\ Goes(u, "cleanup", "none")
  /\ loaded' = [loaded EXCEPT ![u] = <<>>]
  /\ subject' = [subject EXCEPT ![u] = NoLibrary] /\ slot' = [slot EXCEPT ![u] = 0]
  /\ UNCHANGED <<opens, calls, tls, twice>>

-----------------------------------------------------------------------------
LibrariesNext ==
  \/ \E t \in Users, x \in Library : LoadOpen(t, x) \/ UnloadCount(t, x)
  \/ \E t \in Users :
       \/ LoadAgain(t) \/ LoadNew(t) \/ IncThreadRef(t) \/ InsertBack(t)
       \/ DecThreadRef(t) \/ DecReturn(t) \/ UnloadClose(t)
  \/ \E t \in Users, u \in Others : StartPin(t, u)
  \/ \E u \in Others :
       Inherit(u) \/ CleanupBegin(u) \/ CleanupNext(u) \/ CleanupClose(u) \/ CleanupEnd(u)

LibrariesSpec == LibrariesInit /\ [][LibrariesNext]_libvars

-----------------------------------------------------------------------------
(* Properties *)

\* A thread has its list to itself: while it runs and loads or unloads, and
\* what is pinned for it before.
InCall == {"opened", "adding", "dropping"}
Using == {"started", "run"} \cup InCall

\* The references of a thread to a library are those of the libraries it has
\* that need it, and one if it has loaded it explicitly, whatever was loaded,
\* inherited and unloaded in which order; what a library needs was constructed
\* before; and what decThreadRef counts down is there (its assert).
Dependency == UNION {{x} \X DOMAIN Needs[x] : x \in Library}
Needing(S, y) == {d \in Dependency : d[1] \in S /\ Needs[d[1]][d[2]] = y}
RefsCounted ==
  \A t \in Users :
    LET l == loaded[t]
    IN /\ doing[t] \in Using /\ calls[t] = <<>> =>
            \A i \in DOMAIN l :
              /\ l[i].ref > 0
              /\ l[i].ref = (IF l[i].add > 0 THEN 1 ELSE 0)
                   + Cardinality(Needing(Named(l), l[i].dso))
              /\ \A y \in Library : Depends(l[i].dso, y) => \E j \in 1 .. i - 1 : l[j].dso = y
       /\ doing[t] = "dropping" /\ calls[t] # <<>> /\ ~Visited(t) => ToVisit(t) \in Named(l)

\* The process has a library open as often as its threads have loaded it, the
\* calls in progress and the arrays pinned for threads that begin included.
AddCount(t, x) == IF x \in Named(loaded[t]) THEN EntryOf(loaded[t], x).add ELSE 0
Between(t, x) ==
  IF doing[t] \in InCall /\ subject[t] = x THEN 1 ELSE 0
OpensOf(x) == UNION {{t} \X (1 .. AddCount(t, x) + Between(t, x)) : t \in Users}
OpensAccounted == \A x \in Library : opens[x] = Cardinality(OpensOf(x))

\* What a thread has is mapped, whoever else unloads it, and its thread-local
\* variables are constructed exactly as long as the thread has it.  An ending
\* thread has left everything, and only its array is still there.
UsedAreMapped ==
  \A t \in Users :
    /\ doing[t] \in Using => Named(loaded[t]) \subseteq Mapped
    /\ doing[t] \in {"run"} \cup InCall => tls[t] = Named(loaded[t])

\* No thread that ends closes a library nobody else has open: _d_dso_registry
\* would run destructors a second time and change the array (see the README).
OthersHaveIt == \A u \in Others : CleanupClose(u) => Mapped \subseteq MappedWhen(opens')

\* Destructors of thread-local variables run once per thread (druntime/test/
\* shared/src/load.d expects libStaticDtor to be 1 after a thread has ended).
TLSDestroyedOnce == twice = {}
=============================================================================
