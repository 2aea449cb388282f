------------------------- MODULE ParallelMarkProofs -------------------------
(***************************************************************************)
(* Proofs about ParallelMark, for any number of scan threads, any heap and *)
(* any roots.                                                              *)
(***************************************************************************)
EXTENDS ParallelMark, FiniteSetTheorems, TLAPS

\* An object that some thread is still going to look at.
Todo(s) ==
  \/ \E t \in Threads : s \in rng[t]
  \/ \E t \in Threads : tgt[t] # None /\ s \in Succ[tgt[t]]
  \/ \E t \in Threads : \E r \in local[t] : s \in Content(r)
  \/ \E r \in scanStack : s \in Content(r)
  \/ pc[0] = "push" /\ \E i \in Scanners : s \in share[i]

CollectorPlaces == Collecting \cup
  {"start", "run", "finish", "marked", "stopSet", "stopWait", "join", "terminated"}
ScannerPlaces == {"none", "check", "wait", "asleep", "pull", "mark", "pulled", "signal",
                  "stopping", "stopped", "ended"}

PlacesOK == pc[0] \in CollectorPlaces /\ \A t \in Scanners : pc[t] \in ScannerPlaces

\* Only a thread that is in mark has work of its own.
IdleEmpty ==
  \A t \in Threads : ~InMark(t) =>
    tgt[t] = None /\ local[t] = {} /\ (pc[t] # "push" => rng[t] = {})

\* The common stack is empty unless a collection is going on.
StackQuiet == pc[0] \notin Collecting => scanStack = {} /\ busy = 0

\* The tricolour invariant: what the roots or a marked object point to is
\* marked or still to be looked at ...
Complete ==
  \A s \in Objects : (s \in roots \/ \E o \in marked : s \in Succ[o]) => s \in marked \/ Todo(s)

\* ... and nothing else is.
Sound == \A s \in Objects : s \in marked \/ Todo(s) => s \in Reachable(roots)

Inv ==
  /\ TypeOK /\ PlacesOK /\ IdleEmpty /\ StackQuiet /\ BusyExact /\ WorkSignalled
  /\ Complete /\ Sound

-----------------------------------------------------------------------------
(* Reachability *)

\* The roots are reachable.
LEMMA ReachableRoots ==
  ASSUME NEW R, R \subseteq Objects
  PROVE  R \subseteq Reachable(R) /\ Reachable(R) \subseteq Objects
BY DEF Reachable

\* What a reachable object points to is reachable.
LEMMA ReachableSucc ==
  ASSUME NEW R, NEW o \in Reachable(R)
  PROVE  Succ[o] \subseteq Reachable(R)
<1>1. o \in Objects /\ Succ[o] \subseteq Objects
  BY HeapAssumption DEF Reachable
<1> SUFFICES ASSUME NEW s \in Succ[o], NEW S \in SUBSET Objects, R \subseteq S, Closed(S)
             PROVE  s \in S
  BY <1>1 DEF Reachable
<1>2. o \in S
  BY DEF Reachable
<1> QED
  BY <1>2 DEF Closed

\* No closed set with the roots is smaller.
LEMMA ReachableLeast ==
  ASSUME NEW R, NEW S \in SUBSET Objects, R \subseteq S, Closed(S)
  PROVE  Reachable(R) \subseteq S
BY DEF Reachable

\* markParallel cuts the roots into parts of k pointers and a rest.
LEMMA RootsDivided ==
  ASSUME NEW n \in Nat, NEW k \in Nat, k = n \div (N + 1), NEW j \in 1 .. n
  PROVE  \/ k > 0 /\ \E i \in Scanners : j \in (i - 1) * k + 1 .. i * k
         \/ j \in N * k + 1 .. n
<1> USE NAssumption
<1>1. CASE k = 0
  <2>1. N * k = 0
    BY <1>1
  <2> QED
    BY <2>1
<1>2. CASE k > 0 /\ j > N * k
  <2>1. N * k \in Nat
    OBVIOUS
  <2> QED
    BY <1>2, <2>1
<1>3. CASE k > 0 /\ j <= N * k
  <2> DEFINE q == (j - 1) \div k
  <2>1. q \in Nat /\ q * k <= j - 1 /\ j - 1 < q * k + k
    BY <1>3
  <2>2. q < N
    <3> SUFFICES ASSUME q >= N PROVE FALSE
      BY <2>1
    <3>1. q * k >= N * k
      BY <2>1, <1>3
    <3> QED
      BY <3>1, <2>1, <1>3
  <2>3. (q + 1) * k = q * k + k /\ (q + 1) - 1 = q
    BY <2>1
  <2>4. q + 1 \in Scanners
    BY <2>1, <2>2 DEF Scanners
  <2>5. j \in ((q + 1) - 1) * k + 1 .. (q + 1) * k
    BY <2>1, <2>3
  <2> QED
    BY <2>4, <2>5, <1>3
<1> QED
  BY <1>1, <1>2, <1>3

\* Both kinds of parts are made of roots.
LEMMA PartsInside ==
  ASSUME NEW n \in Nat, NEW i \in Scanners,
         NEW j \in (i - 1) * (n \div (N + 1)) + 1 .. i * (n \div (N + 1))
  PROVE  j \in 1 .. n
<1> DEFINE k == n \div (N + 1)
<1>1. k \in Nat /\ (N + 1) * k <= n
  BY NAssumption
<1>2. i \in Nat /\ i >= 1 /\ i <= N
  BY NAssumption DEF Scanners
<1>3. (i - 1) * k >= 0 /\ (i - 1) * k \in Nat
  BY <1>1, <1>2
<1>4. i * k <= (N + 1) * k
  BY <1>1, <1>2, NAssumption
<1> QED
  BY <1>1, <1>2, <1>3, <1>4, NAssumption

\* So is the rest.
LEMMA RestInside ==
  ASSUME NEW n \in Nat, NEW j \in N * (n \div (N + 1)) + 1 .. n
  PROVE  j \in 1 .. n
<1>1. n \div (N + 1) \in Nat
  BY NAssumption
<1>2. N * (n \div (N + 1)) \in Nat
  BY <1>1, NAssumption
<1> QED
  BY <1>2

-----------------------------------------------------------------------------
(* Facts used everywhere *)

\* The threads are a finite set: the collecting thread and the scan threads.
LEMMA ThreadsFacts ==
  /\ IsFiniteSet(Threads) /\ 0 \in Threads /\ Scanners \subseteq Threads
  /\ \A t \in Threads : t = 0 \/ t \in Scanners
  /\ 0 \notin Scanners
BY NAssumption, FS_Interval DEF Threads, Scanners

\* Nobody has anything to do when no collection is going on.
LEMMA QuietFacts ==
  ASSUME TypeOK, PlacesOK, IdleEmpty, StackQuiet, BusyExact, pc[0] \notin Collecting
  PROVE  /\ QuietWorld
         /\ \A t \in Threads : pc[t] \notin {"scan", "mark", "pulled"}
         /\ \A s : ~Todo(s)
<1> USE ThreadsFacts
<1>1. scanStack = {} /\ busy = 0
  BY DEF StackQuiet
<1> DEFINE B == {t \in Threads : pc[t] \in {"mark", "pulled"}}
<1>2. IsFiniteSet(B)
  BY FS_Subset
<1>3. B = {}
  BY <1>1, <1>2, FS_EmptySet DEF BusyExact
<1>4. \A t \in Threads : pc[t] \notin {"scan", "mark", "pulled"}
  BY <1>3 DEF PlacesOK, ScannerPlaces, Collecting
<1>5. \A t \in Threads : ~InMark(t) /\ rng[t] = {} /\ tgt[t] = None /\ local[t] = {}
  BY <1>4 DEF IdleEmpty, InMark, PlacesOK, ScannerPlaces, Collecting
<1>6. \A s : ~Todo(s)
  BY <1>1, <1>5 DEF Todo, Collecting
<1> QED
  BY <1>1, <1>4, <1>5, <1>6 DEF QuietWorld

BusyIn(f) == {u \in Threads : f[u] \in {"mark", "pulled"}}

\* Moving one thread changes the set of busy threads by at most that thread.
LEMMA BusyMoves ==
  ASSUME NEW f, NEW g, NEW t \in Threads,
         \A u \in Threads : u # t =>
           (f[u] \in {"mark", "pulled"} <=> g[u] \in {"mark", "pulled"})
  PROVE  /\ Cardinality(BusyIn(f)) \in Nat /\ Cardinality(BusyIn(g)) \in Nat
         /\ t \in BusyIn(f) /\ t \in BusyIn(g) => Cardinality(BusyIn(g)) = Cardinality(BusyIn(f))
         /\ t \notin BusyIn(f) /\ t \notin BusyIn(g) => Cardinality(BusyIn(g)) = Cardinality(BusyIn(f))
         /\ t \notin BusyIn(f) /\ t \in BusyIn(g) => Cardinality(BusyIn(g)) = Cardinality(BusyIn(f)) + 1
         /\ t \in BusyIn(f) /\ t \notin BusyIn(g) => Cardinality(BusyIn(g)) = Cardinality(BusyIn(f)) - 1
         /\ t \in BusyIn(f) => Cardinality(BusyIn(f)) > 0
<1> DEFINE B == {u \in Threads : f[u] \in {"mark", "pulled"}}
           C == {u \in Threads : g[u] \in {"mark", "pulled"}}
<1>1. IsFiniteSet(B) /\ IsFiniteSet(C)
  BY FS_Subset, ThreadsFacts
<1>2. Cardinality(B) \in Nat /\ Cardinality(C) \in Nat
  BY <1>1, FS_CardinalityType
<1>3. (t \in B /\ t \in C) \/ (t \notin B /\ t \notin C) => C = B
  OBVIOUS
<1>4. t \notin B /\ t \in C => C = B \cup {t}
  OBVIOUS
<1>5. t \in B /\ t \notin C => C = B \ {t}
  OBVIOUS
<1>6. t \notin B => Cardinality(B \cup {t}) = Cardinality(B) + 1
  BY <1>1, FS_AddElement
<1>7. t \in B => Cardinality(B \ {t}) = Cardinality(B) - 1
  BY <1>1, FS_RemoveElement
<1>8. t \in B => Cardinality(B) > 0
  BY <1>1, <1>2, FS_EmptySet
<1> QED
  BY <1>2, <1>3, <1>4, <1>5, <1>6, <1>7, <1>8 DEF BusyIn

-----------------------------------------------------------------------------
(* Control *)

Control == TypeOK /\ PlacesOK /\ IdleEmpty /\ StackQuiet /\ BusyExact /\ WorkSignalled

\* A range holds objects.
LEMMA ContentType ==
  ASSUME TypeOK, NEW r \in Ranges
  PROVE  Content(r) \subseteq Objects
BY HeapAssumption DEF Content, Ranges, TypeOK

\* Control holds at the start.
LEMMA ControlInit == Init => Control
<1> SUFFICES ASSUME Init PROVE Control
  OBVIOUS
<1> USE ThreadsFacts, HeapAssumption DEF Init
<1>1. TypeOK
  BY DEF TypeOK, Places
<1>2. PlacesOK /\ IdleEmpty /\ StackQuiet /\ WorkSignalled
  BY DEF PlacesOK, CollectorPlaces, ScannerPlaces, IdleEmpty, StackQuiet, WorkSignalled, Collecting
<1>3. BusyExact
  <2>1. {t \in Threads : pc[t] \in {"mark", "pulled"}} = {}
    OBVIOUS
  <2> QED
    BY <2>1, FS_EmptySet DEF BusyExact
<1> QED
  BY <1>1, <1>2, <1>3 DEF Control

\* A step of one thread that changes neither work nor counts, and neither
\* begins nor ends a collection.
LEMMA ControlMove ==
  ASSUME Control, NEW t \in Threads, NEW from, NEW to \in Places,
         Go(t, from, to), UNCHANGED <<scanning, scanStack, heap, busy>>,
         from \notin {"scan", "mark", "pulled", "push"},
         to \notin {"scan", "mark", "pulled", "push"},
         t = 0 => to \in CollectorPlaces /\ (from \in Collecting <=> to \in Collecting),
         t # 0 => to \in ScannerPlaces,
         filled' = filled \/ (filled' \in BOOLEAN /\ scanStack = {}),
         to = "asleep" => scanStack = {},
         done' \in BOOLEAN, stopGC' \in BOOLEAN, stopped' \in Nat, started' \subseteq Scanners
  PROVE  Control'
<1> USE ThreadsFacts DEF Control
<1>1. pc' = [pc EXCEPT ![t] = to] /\ pc[t] = from /\ pc \in [Threads -> Places]
  BY DEF Go, TypeOK
<1>2. rng' = rng /\ tgt' = tgt /\ local' = local /\ scanStack' = scanStack /\ busy' = busy
      /\ share' = share /\ roots' = roots /\ marked' = marked
  BY DEF scanning, heap
<1>3. TypeOK'
  BY <1>1, <1>2 DEF TypeOK
<1>4. PlacesOK'
  BY <1>1 DEF PlacesOK
<1>5. IdleEmpty'
  BY <1>1, <1>2 DEF IdleEmpty, InMark
<1>6. StackQuiet'
  BY <1>1, <1>2 DEF StackQuiet
<1>7. BusyExact'
  <2>1. \A u \in Threads : pc[u] \in {"mark", "pulled"} <=> pc'[u] \in {"mark", "pulled"}
    BY <1>1
  <2>2. {u \in Threads : pc[u] \in {"mark", "pulled"}} = {u \in Threads : pc'[u] \in {"mark", "pulled"}}
    BY <2>1
  <2> QED
    BY <1>2, <2>2 DEF BusyExact
<1>8. WorkSignalled'
  BY <1>1, <1>2 DEF WorkSignalled, TypeOK
<1> QED
  BY <1>3, <1>4, <1>5, <1>6, <1>7, <1>8

\* The steps that are moves in this sense.
LEMMA ControlMoves ==
  ASSUME Control,
         \/ DoneWait("doneWait", "pull") \/ DoneWait("stopWait", "stopSet") \/ Finish
         \/ StopBegin \/ Join
         \/ \E t \in Scanners : Background(t) \/ SpuriousWake(t)
  PROVE  Control'
<1> USE ThreadsFacts DEF Control
<1>0. TypeOK /\ (scanStack # {} => filled) /\ (pc[0] \notin Collecting => scanStack = {})
  BY DEF WorkSignalled, StackQuiet
<1>1. CASE DoneWait("doneWait", "pull")
  <2> QED
    BY <1>0, <1>1, ControlMove DEF DoneWait, TypeOK, Places, CollectorPlaces, Collecting, stopping
<1>2. CASE DoneWait("stopWait", "stopSet")
  BY <1>0, <1>2, ControlMove DEF DoneWait, TypeOK, Places, CollectorPlaces, Collecting, stopping
<1>3. CASE Finish
  BY <1>0, <1>3, ControlMove DEF Finish, Go, TypeOK, Places, CollectorPlaces, Collecting, stopping
<1>5. CASE StopBegin
  BY <1>0, <1>5, ControlMove DEF StopBegin, TypeOK, Places, CollectorPlaces, Collecting
<1>6. CASE Join
  BY <1>0, <1>6, ControlMove DEF Join, TypeOK, Places, CollectorPlaces, Collecting, stopping
<1>7. ASSUME NEW t \in Scanners, Background(t) \/ SpuriousWake(t)
      PROVE  Control'
  <2>1. t # 0 /\ t \in Threads
    OBVIOUS
  <2>2. CASE CheckStop(t)
    <3> DEFINE to == IF stopGC THEN "stopping" ELSE "wait"
    <3>1. to \in Places /\ to \in ScannerPlaces /\ to \notin {"scan", "mark", "pulled", "push", "asleep"}
      BY DEF Places, ScannerPlaces
    <3>2. Go(t, "check", to)
      BY <2>2 DEF CheckStop
    <3> HIDE DEF to
    <3> QED
      BY <1>0, <2>1, <2>2, <3>1, <3>2, ControlMove DEF CheckStop, TypeOK, stopping
  <2>3. CASE Wait(t)
    <3> DEFINE to == IF filled THEN "pull" ELSE "asleep"
    <3>1. to \in Places /\ to \in ScannerPlaces /\ to \notin {"scan", "mark", "pulled", "push"}
          /\ (to = "asleep" => scanStack = {})
      BY <1>0 DEF Places, ScannerPlaces
    <3>2. Go(t, "wait", to)
      BY <2>3 DEF Wait
    <3> HIDE DEF to
    <3> QED
      BY <1>0, <2>1, <2>3, <3>1, <3>2, ControlMove DEF Wait, TypeOK, stopping
  <2>4. CASE SignalDone(t)
    BY <1>0, <2>1, <2>4, ControlMove DEF SignalDone, TypeOK, Places, ScannerPlaces, stopping
  <2>5. CASE CountStopped(t)
    BY <1>0, <2>1, <2>5, ControlMove DEF CountStopped, TypeOK, Places, ScannerPlaces
  <2>6. CASE End(t)
    BY <1>0, <2>1, <2>6, ControlMove DEF End, TypeOK, Places, ScannerPlaces, stopping
  <2>7. CASE SpuriousWake(t)
    BY <1>0, <2>1, <2>7, ControlMove DEF SpuriousWake, TypeOK, Places, ScannerPlaces, stopping
  <2> QED
    BY <1>7, <2>2, <2>3, <2>4, <2>5, <2>6, <2>7 DEF Background
<1> QED
  BY <1>1, <1>2, <1>3, <1>5, <1>6, <1>7

\* The steps of the collecting thread that are not.
LEMMA ControlCollector ==
  ASSUME Control, StartScanThreads \/ MarkBegin \/ PushRanges \/ StopSet \/ Return
  PROVE  Control'
<1> USE ThreadsFacts DEF Control
<1>1. CASE StartScanThreads
  <2>1. pc[0] \notin Collecting /\ pc \in [Threads -> Places]
    BY <1>1 DEF StartScanThreads, Collecting, TypeOK
  <2>2. \A t \in Threads : pc[t] \notin {"scan", "mark", "pulled"}
    BY <2>1, QuietFacts
  <2>3. TypeOK'
    BY <1>1 DEF StartScanThreads, TypeOK, Places, scanning, heap
  <2>4. PlacesOK' /\ IdleEmpty' /\ StackQuiet' /\ WorkSignalled'
    BY <1>1, <2>1, <2>2, QuietFacts
    DEF StartScanThreads, PlacesOK, IdleEmpty, StackQuiet, WorkSignalled, InMark, QuietWorld,
        CollectorPlaces, ScannerPlaces, Collecting, scanning
  <2>5. \A u \in Threads : pc[u] \notin {"mark", "pulled"} /\ pc'[u] \notin {"mark", "pulled"}
    BY <1>1, <2>1, <2>2 DEF StartScanThreads
  <2>6. BusyExact'
    <3>1. Cardinality({u \in Threads : pc'[u] \in {"mark", "pulled"}})
            = Cardinality({u \in Threads : pc[u] \in {"mark", "pulled"}})
      BY <2>5
    <3> QED
      BY <1>1, <3>1 DEF StartScanThreads, BusyExact
  <2> QED
    BY <2>3, <2>4, <2>6
<1>2. CASE MarkBegin
  <2>1. pc[0] = "run" /\ pc \in [Threads -> Places]
    BY <1>2 DEF MarkBegin, Go, TypeOK
  <2>2. QuietWorld /\ \A t \in Threads : pc[t] \notin {"scan", "mark", "pulled"}
    BY <2>1, QuietFacts DEF Collecting
  <2>3. PICK r \in RootLists \ {<<>>} :
          /\ roots' = {r[j] : j \in 1 .. Len(r)}
          /\ share' = [i \in Scanners |->
                 {r[j] : j \in (i - 1) * (Len(r) \div (N + 1)) + 1 .. i * (Len(r) \div (N + 1))}]
          /\ rng' = [rng EXCEPT ![0] = {r[j] : j \in N * (Len(r) \div (N + 1)) + 1 .. Len(r)}]
          /\ Go(0, "run", IF Len(r) \div (N + 1) > 0 THEN "push" ELSE "scan")
    BY <1>2 DEF MarkBegin
  <2>4. r \in Seq(Objects) /\ Len(r) \in Nat /\ \A j \in 1 .. Len(r) : r[j] \in Objects
    BY RootsAssumption
  <2>5. roots' \subseteq Objects /\ \A i \in Scanners : share'[i] \subseteq Objects
    BY <2>3, <2>4, PartsInside
  <2>6. rng' \in [Threads -> SUBSET Objects]
    <3>1. {r[j] : j \in N * (Len(r) \div (N + 1)) + 1 .. Len(r)} \subseteq Objects
      BY <2>4, RestInside
    <3> QED
      BY <2>3, <3>1 DEF TypeOK
  <2>7. PICK p \in {"push", "scan"} : pc' = [pc EXCEPT ![0] = p]
    BY <2>3 DEF Go
  <2>8. TypeOK'
    <3>1. share' \in [Scanners -> SUBSET Objects]
      BY <2>3, <2>5
    <3> QED
      BY <1>2, <2>1, <2>5, <2>6, <2>7, <3>1 DEF MarkBegin, TypeOK, Places, stopping
  <2>9. PlacesOK'
    BY <2>1, <2>7 DEF PlacesOK, CollectorPlaces, Collecting
  <2>10. IdleEmpty'
    BY <1>2, <2>1, <2>2, <2>3, <2>7 DEF MarkBegin, IdleEmpty, InMark, QuietWorld, TypeOK, Collecting
  <2>11. StackQuiet' /\ WorkSignalled'
    BY <1>2, <2>1, <2>2, <2>7 DEF MarkBegin, StackQuiet, WorkSignalled, Collecting, QuietWorld
  <2>12. BusyExact'
    <3>1. \A u \in Threads : pc[u] \notin {"mark", "pulled"} /\ pc'[u] \notin {"mark", "pulled"}
      BY <2>1, <2>2, <2>7
    <3>2. Cardinality({u \in Threads : pc'[u] \in {"mark", "pulled"}})
            = Cardinality({u \in Threads : pc[u] \in {"mark", "pulled"}})
      BY <3>1
    <3> QED
      BY <1>2, <3>2 DEF MarkBegin, BusyExact
  <2> QED
    BY <2>8, <2>9, <2>10, <2>11, <2>12
<1>3. CASE PushRanges
  <2>1. pc[0] = "push" /\ pc \in [Threads -> Places]
    BY <1>3 DEF PushRanges, TypeOK
  <2>2. \A t \in Threads : pc'[t] = IF t = 0 THEN "scan" ELSE IF pc[t] = "asleep" THEN "pull" ELSE pc[t]
    BY <1>3, <2>1 DEF PushRanges, Awake
  <2>3. TypeOK'
    BY <1>3, <2>1, <2>2 DEF PushRanges, TypeOK, Places, Awake, Ranges, scanning, heap, stopping
  <2>4. PlacesOK'
    BY <2>2 DEF PlacesOK, CollectorPlaces, ScannerPlaces, Collecting
  <2>5. IdleEmpty'
    BY <1>3, <2>2 DEF PushRanges, IdleEmpty, InMark, scanning, PlacesOK, ScannerPlaces
  <2>6. StackQuiet' /\ WorkSignalled'
    BY <1>3, <2>2 DEF PushRanges, StackQuiet, WorkSignalled, Collecting
  <2>7. BusyExact'
    <3>1. \A u \in Threads : pc[u] \in {"mark", "pulled"} <=> pc'[u] \in {"mark", "pulled"}
      BY <2>1, <2>2
    <3>2. {u \in Threads : pc[u] \in {"mark", "pulled"}} = {u \in Threads : pc'[u] \in {"mark", "pulled"}}
      BY <3>1
    <3> QED
      BY <1>3, <3>2 DEF PushRanges, BusyExact
  <2> QED
    BY <2>3, <2>4, <2>5, <2>6, <2>7
<1>4. CASE StopSet
  <2>1. pc[0] = "stopSet" /\ pc \in [Threads -> Places]
    BY <1>4 DEF StopSet, TypeOK
  <2>2. PICK p \in {"stopWait", "join"} :
          \A t \in Threads : pc'[t] = IF t = 0 THEN p ELSE
                              IF pc[t] = "asleep" /\ p = "stopWait" THEN "pull" ELSE pc[t]
    BY <1>4, <2>1 DEF StopSet, Awake
  <2>3. TypeOK'
    <3>1. pc' \in [Threads -> Places]
      BY <1>4, <2>1 DEF StopSet, Awake, Places
    <3> QED
      BY <1>4, <3>1 DEF StopSet, TypeOK, scanning, heap, stopping
  <2>4. PlacesOK'
    BY <2>2 DEF PlacesOK, CollectorPlaces, ScannerPlaces, Collecting
  <2>5. IdleEmpty'
    BY <1>4, <2>1, <2>2 DEF StopSet, IdleEmpty, InMark, scanning
  <2>6. StackQuiet' /\ WorkSignalled'
    BY <1>4, <2>1, <2>2 DEF StopSet, StackQuiet, WorkSignalled, Collecting
  <2>7. BusyExact'
    <3>1. \A u \in Threads : pc[u] \in {"mark", "pulled"} <=> pc'[u] \in {"mark", "pulled"}
      BY <2>1, <2>2
    <3>2. {u \in Threads : pc[u] \in {"mark", "pulled"}} = {u \in Threads : pc'[u] \in {"mark", "pulled"}}
      BY <3>1
    <3> QED
      BY <1>4, <3>2 DEF StopSet, BusyExact
  <2> QED
    BY <2>3, <2>4, <2>5, <2>6, <2>7
<1>5. CASE Return
  <2>1. pc[0] = "marked" /\ pc' = [pc EXCEPT ![0] = "run"] /\ pc \in [Threads -> Places]
    BY <1>5 DEF Return, Go, TypeOK
  <2>2. TypeOK'
    BY <1>5, <2>1 DEF Return, TypeOK, Places, scanning, stopping
  <2>3. PlacesOK' /\ IdleEmpty' /\ StackQuiet' /\ WorkSignalled'
    BY <1>5, <2>1
    DEF Return, PlacesOK, IdleEmpty, StackQuiet, WorkSignalled, InMark, CollectorPlaces, Collecting,
        scanning
  <2>4. BusyExact'
    <3>1. {u \in Threads : pc[u] \in {"mark", "pulled"}} = {u \in Threads : pc'[u] \in {"mark", "pulled"}}
      BY <2>1
    <3> QED
      BY <1>5, <3>1 DEF Return, BusyExact
  <2> QED
    BY <2>2, <2>3, <2>4
<1> QED
  BY <1>1, <1>2, <1>3, <1>4, <1>5

\* The steps of mark and of pullFromScanStackImpl.
LEMMA ControlScan ==
  ASSUME Control, NEW t \in Threads, Scan(t)
  PROVE  Control'
<1> USE ThreadsFacts, HeapAssumption DEF Control
<1>0. pc \in [Threads -> Places] /\ busy \in Nat
  BY DEF TypeOK
<1>1. ASSUME NEW o \in rng[t], Visit(t, o)
      PROVE  Control'
  <2>1. o \in Objects /\ Succ[o] \subseteq Objects
    BY <1>1 DEF TypeOK
  <2>2. TypeOK'
    <3>1. rng' \in [Threads -> SUBSET Objects]
      BY <1>1, <2>1 DEF Visit, TypeOK
    <3>2. local' \in [Threads -> SUBSET Ranges]
      BY <1>1, <2>1 DEF Visit, TypeOK, Ranges
    <3>3. tgt' \in [Threads -> Objects \cup {None}] /\ marked' \subseteq Objects
      BY <1>1, <2>1 DEF Visit, TypeOK
    <3> QED
      BY <1>1, <3>1, <3>2, <3>3 DEF Visit, TypeOK, stopping
  <2>3. PlacesOK' /\ StackQuiet' /\ BusyExact' /\ WorkSignalled'
    BY <1>1 DEF Visit, PlacesOK, StackQuiet, BusyExact, WorkSignalled
  <2>4. IdleEmpty'
    <3>1. \A u \in Threads : u # t => rng'[u] = rng[u] /\ tgt'[u] = tgt[u] /\ local'[u] = local[u]
      BY <1>1 DEF Visit, TypeOK
    <3> QED
      BY <1>1, <3>1 DEF Visit, IdleEmpty, InMark
  <2> QED
    BY <2>2, <2>3, <2>4
<1>2. ASSUME NEW r \in local[t], PopLocal(t, r)
      PROVE  Control'
  <2>1. Content(r) \subseteq Objects
    BY <1>2, ContentType DEF TypeOK
  <2>2. TypeOK'
    BY <1>2, <2>1 DEF PopLocal, TypeOK, heap, stopping
  <2>3. PlacesOK' /\ StackQuiet' /\ BusyExact' /\ WorkSignalled'
    BY <1>2 DEF PopLocal, PlacesOK, StackQuiet, BusyExact, WorkSignalled
  <2>4. IdleEmpty'
    <3>1. \A u \in Threads : u # t => rng'[u] = rng[u] /\ tgt'[u] = tgt[u] /\ local'[u] = local[u]
      BY <1>2 DEF PopLocal, TypeOK
    <3> QED
      BY <1>2, <3>1 DEF PopLocal, IdleEmpty, InMark
  <2> QED
    BY <2>2, <2>3, <2>4
<1>3. CASE PushLocked(t)
  <2>1. tgt[t] \in Objects /\ InMark(t)
    BY <1>3 DEF PushLocked, TypeOK, IdleEmpty
  <2>2. pc[0] \in Collecting
    BY <1>3, QuietFacts DEF PushLocked, QuietWorld
  <2>3. \A u \in Threads : \/ pc'[u] = pc[u]
                           \/ pc[u] = "asleep" /\ pc'[u] = "pull" /\ u # 0
    BY <1>0, <1>3 DEF PushLocked, Awake, PlacesOK, CollectorPlaces, Collecting
  <2>4. TypeOK'
    <3>1. pc' \in [Threads -> Places]
      BY <1>0, <1>3 DEF PushLocked, Awake, Places
    <3>2. local' \in [Threads -> SUBSET Ranges] /\ scanStack' \subseteq Ranges
      BY <1>3, <2>1 DEF PushLocked, TypeOK, Ranges
    <3> QED
      BY <1>3, <3>1, <3>2 DEF PushLocked, TypeOK, heap, stopping
  <2>5. PlacesOK' /\ StackQuiet'
    BY <2>2, <2>3 DEF PlacesOK, StackQuiet, ScannerPlaces
  <2>6. WorkSignalled'
    BY <1>0, <1>3 DEF PushLocked, WorkSignalled, Awake
  <2>7. IdleEmpty'
    <3>1. \A u \in Threads : u # t => rng'[u] = rng[u] /\ tgt'[u] = tgt[u] /\ local'[u] = local[u]
      BY <1>3 DEF PushLocked, TypeOK
    <3>2. InMark(t)'
      BY <2>1, <2>3 DEF InMark
    <3> QED
      BY <2>3, <3>1, <3>2 DEF IdleEmpty, InMark
  <2>8. BusyExact'
    <3>1. {u \in Threads : pc[u] \in {"mark", "pulled"}} = {u \in Threads : pc'[u] \in {"mark", "pulled"}}
      BY <2>3
    <3> QED
      BY <1>3, <3>1 DEF PushLocked, BusyExact
  <2> QED
    BY <2>4, <2>5, <2>6, <2>7, <2>8
<1>4. CASE PopLocked(t)
  <2>1. pc[0] \in Collecting
    BY <1>4, QuietFacts DEF PopLocked, QuietWorld
  <2>2. ASSUME NEW r \in scanStack, Pop(t, r), pc' = pc
        PROVE  Control'
    <3>1. Content(r) \subseteq Objects
      BY <2>2, ContentType DEF TypeOK
    <3>2. TypeOK'
      BY <1>4, <2>2, <3>1 DEF PopLocked, Pop, TypeOK, heap, stopping
    <3>3. PlacesOK' /\ StackQuiet' /\ BusyExact' /\ WorkSignalled'
      BY <1>4, <2>1, <2>2 DEF PopLocked, Pop, PlacesOK, StackQuiet, BusyExact, WorkSignalled
    <3>4. IdleEmpty'
      <4>1. \A u \in Threads : u # t => rng'[u] = rng[u]
        BY <2>2 DEF Pop, TypeOK
      <4> QED
        BY <1>4, <2>2, <4>1 DEF PopLocked, IdleEmpty, InMark
    <3> QED
      BY <3>2, <3>3, <3>4
  <2>3. ASSUME scanStack = {}, pc' = [pc EXCEPT ![t] = IF @ = "scan" THEN "pull" ELSE "pulled"],
               UNCHANGED <<scanStack, filled, rng>>
        PROVE  Control'
    <3>1. TypeOK'
      BY <1>0, <1>4, <2>3 DEF PopLocked, TypeOK, heap, stopping, Places
    <3>2. PlacesOK' /\ StackQuiet' /\ WorkSignalled'
      BY <1>0, <1>4, <2>1, <2>3
      DEF PopLocked, PlacesOK, StackQuiet, WorkSignalled, InMark, CollectorPlaces, ScannerPlaces,
          Collecting
    <3>3. IdleEmpty'
      BY <1>0, <1>4, <2>3 DEF PopLocked, IdleEmpty, InMark
    <3>4. BusyExact'
      <4>1. \A u \in Threads : pc[u] \in {"mark", "pulled"} <=> pc'[u] \in {"mark", "pulled"}
        BY <1>0, <1>4, <2>3 DEF PopLocked, InMark
      <4>2. {u \in Threads : pc[u] \in {"mark", "pulled"}} = {u \in Threads : pc'[u] \in {"mark", "pulled"}}
        BY <4>1
      <4> QED
        BY <1>4, <4>2 DEF PopLocked, BusyExact
    <3> QED
      BY <3>1, <3>2, <3>3, <3>4
  <2> QED
    BY <1>4, <2>2, <2>3 DEF PopLocked
<1>5. CASE Pull(t)
  <2> DEFINE others == IF pc[t] = "pulled" THEN busy - 1 ELSE busy
  <2>1. pc[t] \in {"pull", "pulled"} /\ ~InMark(t)
    BY <1>5 DEF Pull, InMark
  <2>2. tgt[t] = None /\ local[t] = {} /\ rng[t] = {}
    BY <2>1 DEF IdleEmpty
  <2>3. \A p \in Places : pc' = [pc EXCEPT ![t] = p] =>
          Cardinality({u \in Threads : pc'[u] \in {"mark", "pulled"}})
            = others + (IF p \in {"mark", "pulled"} THEN 1 ELSE 0) /\ others \in Nat
    <3> SUFFICES ASSUME NEW p \in Places, pc' = [pc EXCEPT ![t] = p]
                 PROVE  /\ Cardinality({u \in Threads : pc'[u] \in {"mark", "pulled"}})
                              = others + (IF p \in {"mark", "pulled"} THEN 1 ELSE 0)
                        /\ others \in Nat
      OBVIOUS
    <3> DEFINE B == BusyIn(pc)
               C == BusyIn(pc')
    <3>1. \A u \in Threads : u # t => (pc[u] \in {"mark", "pulled"} <=> pc'[u] \in {"mark", "pulled"})
      BY <1>0
    <3>2. /\ Cardinality(B) \in Nat /\ Cardinality(C) \in Nat
          /\ t \in B /\ t \in C => Cardinality(C) = Cardinality(B)
          /\ t \notin B /\ t \notin C => Cardinality(C) = Cardinality(B)
          /\ t \notin B /\ t \in C => Cardinality(C) = Cardinality(B) + 1
          /\ t \in B /\ t \notin C => Cardinality(C) = Cardinality(B) - 1
          /\ t \in B => Cardinality(B) > 0
      BY <3>1, BusyMoves
    <3>3. (t \in B <=> pc[t] = "pulled") /\ (t \in C <=> p \in {"mark", "pulled"})
      BY <1>0, <2>1 DEF BusyIn
    <3>4. busy = Cardinality(B)
      BY DEF BusyExact, BusyIn
    <3> HIDE DEF B, C
    <3>5. Cardinality(C) = others + (IF p \in {"mark", "pulled"} THEN 1 ELSE 0) /\ others \in Nat
      <4>1. CASE pc[t] = "pulled"
        <5>1. others = Cardinality(B) - 1 /\ t \in B
          BY <3>3, <3>4, <4>1
        <5>2. Cardinality(B) > 0
          BY <3>2, <5>1
        <5> HIDE DEF others
        <5> QED
          BY <3>2, <3>3, <5>1, <5>2
      <4>2. CASE pc[t] # "pulled"
        <5>1. others = Cardinality(B) /\ t \notin B
          BY <3>3, <3>4, <4>2
        <5> HIDE DEF others
        <5> QED
          BY <3>2, <3>3, <5>1
      <4> QED
        BY <4>1, <4>2
    <3> QED
      BY <3>5 DEF C, BusyIn
  <2>4. UNCHANGED <<tgt, local, heap, done, stopping>>
    BY <1>5 DEF Pull
  <2>5. ASSUME NEW r \in scanStack, Pop(t, r), busy' = others + 1, pc' = [pc EXCEPT ![t] = "mark"]
        PROVE  Control'
    <3>0. pc[0] \in Collecting
      BY <2>5 DEF StackQuiet
    <3>1. Content(r) \subseteq Objects
      BY <2>5, ContentType DEF TypeOK
    <3>2. BusyExact' /\ busy' \in Nat
      BY <2>3, <2>5 DEF BusyExact, Places
    <3>3. TypeOK'
      BY <1>0, <2>4, <2>5, <3>1, <3>2 DEF Pop, TypeOK, heap, stopping, Places
    <3>4. PlacesOK' /\ StackQuiet' /\ WorkSignalled'
      BY <1>0, <2>5, <3>0
      DEF Pop, PlacesOK, StackQuiet, WorkSignalled, CollectorPlaces, ScannerPlaces, Collecting
    <3>5. IdleEmpty'
      <4>1. \A u \in Threads : u # t => rng'[u] = rng[u] /\ pc'[u] = pc[u]
        BY <1>0, <2>5 DEF Pop, TypeOK
      <4>2. InMark(t)'
        BY <1>0, <2>5 DEF InMark
      <4> QED
        BY <2>4, <4>1, <4>2 DEF IdleEmpty, InMark
    <3> QED
      BY <3>2, <3>3, <3>4, <3>5
  <2>6. ASSUME scanStack = {}, busy' = others,
               pc' = [pc EXCEPT ![t] = AfterPull(t, others > 0)],
               UNCHANGED <<scanStack, filled, rng>>
        PROVE  Control'
    <3> DEFINE p == AfterPull(t, others > 0)
    <3>1. /\ p \in Places /\ p \notin {"mark", "pulled", "scan", "push", "asleep"}
          /\ (t = 0 => p \in CollectorPlaces) /\ (t # 0 => p \in ScannerPlaces)
          /\ (t = 0 => (p \notin Collecting => ~(others > 0)))
      BY DEF AfterPull, Places, CollectorPlaces, ScannerPlaces, Collecting
    <3>2. pc' = [pc EXCEPT ![t] = p]
      BY <2>6
    <3> HIDE DEF p
    <3>3. BusyExact' /\ busy' \in Nat /\ others \in Nat
      <4>1. others \in Nat /\ Cardinality({u \in Threads : pc'[u] \in {"mark", "pulled"}}) = others + 0
        BY <2>3, <3>1, <3>2
      <4>2. busy' = others
        BY <2>6
      <4> HIDE DEF others
      <4> QED
        BY <4>1, <4>2 DEF BusyExact
    <3>4. TypeOK'
      BY <1>0, <2>4, <2>6, <3>1, <3>2, <3>3 DEF TypeOK, heap, stopping
    <3>5. PlacesOK'
      BY <1>0, <3>1, <3>2 DEF PlacesOK
    <3>6. StackQuiet'
      <4>1. CASE t = 0
        <5>1. pc'[0] = p
          BY <1>0, <3>2, <4>1
        <5>2. scanStack' = {} /\ busy' = others
          BY <2>6
        <5> HIDE DEF others
        <5> QED
          BY <3>1, <3>3, <4>1, <5>1, <5>2 DEF StackQuiet
      <4>2. CASE t # 0
        <5>1. pc'[0] = pc[0]
          BY <1>0, <3>2, <4>2
        <5>2. CASE pc[0] \in Collecting
          BY <5>1, <5>2 DEF StackQuiet
        <5>3. CASE pc[0] \notin Collecting
          <6>1. pc[t] # "pulled"
            BY <5>3, QuietFacts
          <6> QED
            BY <2>6, <5>1, <5>3, <6>1 DEF StackQuiet
        <5> QED
          BY <5>2, <5>3
      <4> QED
        BY <4>1, <4>2
    <3>7. WorkSignalled'
      BY <2>6 DEF WorkSignalled
    <3>8. IdleEmpty'
      BY <1>0, <2>2, <2>4, <2>6, <3>1, <3>2 DEF IdleEmpty, InMark
    <3> QED
      BY <3>3, <3>4, <3>5, <3>6, <3>7, <3>8
  <2> QED
    BY <1>5, <2>5, <2>6 DEF Pull
<1> QED
  BY <1>1, <1>2, <1>3, <1>4, <1>5 DEF Scan

\* Every step keeps Control.
LEMMA ControlStep == Control /\ [Next]_vars => Control'
<1> SUFFICES ASSUME Control, [Next]_vars PROVE Control'
  OBVIOUS
<1>1. CASE UNCHANGED vars
  BY <1>1 DEF Control, vars, scanning, heap, stopping, TypeOK, PlacesOK, IdleEmpty, InMark,
              StackQuiet, BusyExact, WorkSignalled
<1> QED
  BY <1>1, ControlMoves, ControlCollector, ControlScan DEF Next, Collector

-----------------------------------------------------------------------------
(* Marking *)

\* A step that moves work around without taking any away or adding any.
LEMMA MarkingKept ==
  ASSUME Complete, Sound, UNCHANGED <<roots, marked>>, \A s \in Objects : Todo(s)' <=> Todo(s)
  PROVE  Complete' /\ Sound'
<1>1. roots' = roots /\ marked' = marked
  OBVIOUS
<1>2. Reachable(roots)' = Reachable(roots)
  BY <1>1 DEF Reachable, Closed
<1> QED
  BY <1>1, <1>2 DEF Complete, Sound

\* What is still to be looked at depends on the ranges alone.
LEMMA TodoKept ==
  ASSUME UNCHANGED <<rng, tgt, local, scanStack, share>>, pc'[0] = "push" <=> pc[0] = "push"
  PROVE  \A s \in Objects : Todo(s)' <=> Todo(s)
BY DEF Todo, Content

\* The steps that touch no range.
LEMMA MarkingMoves ==
  ASSUME Inv,
         \/ StartScanThreads \/ DoneWait("doneWait", "pull") \/ DoneWait("stopWait", "stopSet")
         \/ Finish \/ StopBegin \/ StopSet \/ Join
         \/ \E t \in Scanners : Background(t) \/ SpuriousWake(t)
         \/ UNCHANGED vars
  PROVE  Complete' /\ Sound'
<1> USE ThreadsFacts
<1>1. pc \in [Threads -> Places]
  BY DEF Inv, TypeOK
<1>2. UNCHANGED <<rng, tgt, local, scanStack, share, roots, marked>>
  BY DEF StartScanThreads, DoneWait, Finish, StopBegin, StopSet, Join, Background, SpuriousWake,
         CheckStop, Wait, SignalDone, CountStopped, End, vars, scanning, heap
<1>3. pc'[0] = "push" <=> pc[0] = "push"
  <2>1. ASSUME NEW t \in Scanners, Background(t) \/ SpuriousWake(t)
        PROVE  pc'[0] = pc[0]
    BY <1>1, <2>1 DEF Background, SpuriousWake, CheckStop, Wait, SignalDone, CountStopped, End, Go
  <2>2. CASE StartScanThreads \/ DoneWait("doneWait", "pull") \/ DoneWait("stopWait", "stopSet")
             \/ Finish \/ StopBegin \/ StopSet \/ Join
    BY <1>1, <2>2 DEF StartScanThreads, DoneWait, Finish, StopBegin, StopSet, Join, Go, Awake
  <2>3. CASE UNCHANGED vars
    BY <2>3 DEF vars
  <2> QED
    BY <2>1, <2>2, <2>3
<1> QED
  BY <1>2, <1>3, TodoKept, MarkingKept DEF Inv

\* Ranges that change hands.
LEMMA MarkingPush ==
  ASSUME Inv, PushRanges \/ \E t \in Threads : PushLocked(t)
  PROVE  Complete' /\ Sound'
<1> USE ThreadsFacts, HeapAssumption
<1>1. pc \in [Threads -> Places]
  BY DEF Inv, TypeOK
<1>2. CASE PushRanges
  <2>1. UNCHANGED <<rng, tgt, local, share, roots, marked>> /\ scanStack' = scanStack \cup Scanners
        /\ pc[0] = "push" /\ pc'[0] = "scan"
    BY <1>1, <1>2 DEF PushRanges, Awake, scanning, heap
  <2>2. \A s \in Objects : Todo(s)' <=> Todo(s)
    BY <2>1 DEF Todo, Content
  <2> QED
    BY <2>1, <2>2, MarkingKept DEF Inv
<1>3. ASSUME NEW t \in Threads, PushLocked(t)
      PROVE  Complete' /\ Sound'
  <2>1. tgt[t] \in Objects
    BY <1>3 DEF PushLocked, Inv, TypeOK
  <2>2. pc'[0] = "push" <=> pc[0] = "push"
    BY <1>1, <1>3 DEF PushLocked, Awake
  <2>3. UNCHANGED <<rng, share, roots, marked>> /\ scanStack' = scanStack \cup local[t]
    BY <1>3 DEF PushLocked, heap
  <2>4. /\ \A u \in Threads : u # t => local'[u] = local[u] /\ tgt'[u] = tgt[u]
        /\ local'[t] = {tgt[t]} /\ tgt'[t] = None
    BY <1>3 DEF PushLocked, Inv, TypeOK
  <2>5. \A r : Content(r)' = Content(r)
    BY <2>3 DEF Content
  <2>6. Content(tgt[t]) = Succ[tgt[t]]
    BY <2>1 DEF Content
  <2>7. ASSUME NEW s \in Objects, Todo(s)
        PROVE  Todo(s)'
    BY <1>3, <2>2, <2>3, <2>4, <2>5, <2>6, <2>7 DEF Todo, PushLocked
  <2>8. ASSUME NEW s \in Objects, Todo(s)'
        PROVE  Todo(s)
    BY <1>3, <2>1, <2>2, <2>3, <2>4, <2>5, <2>6, <2>8 DEF Todo, PushLocked
  <2> QED
    BY <2>3, <2>7, <2>8, MarkingKept DEF Inv
<1> QED
  BY <1>2, <1>3

\* A range that becomes the one that is scanned.
LEMMA MarkingPop ==
  ASSUME Inv, NEW t \in Threads, NEW r, rng[t] = {}, rng' = [rng EXCEPT ![t] = Content(r)],
         UNCHANGED <<tgt, share, roots, marked>>,
         pc'[0] = "push" <=> pc[0] = "push",
         \/ r \in local[t] /\ local' = [local EXCEPT ![t] = @ \ {r}] /\ scanStack' = scanStack
         \/ r \in scanStack /\ scanStack' = scanStack \ {r} /\ local' = local
  PROVE  Complete' /\ Sound'
<1> USE ThreadsFacts, HeapAssumption
<1>1. \A q : Content(q)' = Content(q)
  BY DEF Content
<1>2. rng'[t] = Content(r) /\ \A u \in Threads : u # t => rng'[u] = rng[u]
  BY DEF Inv, TypeOK
<1>3. /\ \A u \in Threads : local'[u] = local[u] \/ (u = t /\ local'[u] = local[u] \ {r})
      /\ scanStack' = scanStack \/ scanStack' = scanStack \ {r}
      /\ r \in local[t] \/ r \in scanStack
  BY DEF Inv, TypeOK
<1>4. ASSUME NEW s \in Objects, Todo(s)
      PROVE  Todo(s)'
  BY <1>1, <1>2, <1>3, <1>4 DEF Todo
<1>5. ASSUME NEW s \in Objects, Todo(s)'
      PROVE  Todo(s)
  BY <1>1, <1>2, <1>3, <1>5 DEF Todo
<1> QED
  BY <1>4, <1>5, MarkingKept DEF Inv

\* mark looks at a word.
LEMMA MarkingVisit ==
  ASSUME Inv, NEW t \in Threads, NEW o \in rng[t], Visit(t, o)
  PROVE  Complete' /\ Sound'
<1> USE ThreadsFacts, HeapAssumption
<1> DEFINE new == o \notin marked
<1>1. o \in Objects /\ o \in Reachable(roots) /\ Succ[o] \subseteq Objects
  BY DEF Inv, TypeOK, Sound, Todo
<1>2. /\ UNCHANGED <<scanStack, share, roots, pc>> /\ marked' = marked \cup {o}
      /\ Reachable(roots)' = Reachable(roots)
  BY DEF Visit, Reachable, Closed
<1>3. \A r : Content(r)' = Content(r)
  BY <1>2 DEF Content
<1>4. Content(o) = Succ[o]
  BY <1>1 DEF Content
<1>5. \A u \in Threads : u # t => rng'[u] = rng[u] /\ tgt'[u] = tgt[u] /\ local'[u] = local[u]
  BY DEF Visit, Inv, TypeOK
<1>6. /\ tgt[t] = None
      /\ ~new => rng'[t] = rng[t] \ {o} /\ tgt'[t] = None /\ local'[t] = local[t]
      /\ new => \/ rng[t] \ {o} = {} /\ rng'[t] = Succ[o] /\ tgt'[t] = None /\ local'[t] = local[t]
                \/ rng'[t] = rng[t] \ {o} /\ tgt'[t] = o /\ local'[t] = local[t]
                \/ rng'[t] = rng[t] \ {o} /\ tgt'[t] = None /\ local'[t] = local[t] \cup {o}
  BY DEF Visit, Inv, TypeOK
<1> HIDE DEF new
\* What was to be looked at still is, except for o itself ...
<1>7. ASSUME NEW s \in Objects, Todo(s), s # o
      PROVE  Todo(s)'
  BY <1>2, <1>3, <1>5, <1>6, <1>7 DEF Todo
\* ... what o points to joins it ...
<1>8. ASSUME NEW s \in Succ[o], new
      PROVE  Todo(s)'
  BY <1>1, <1>2, <1>3, <1>4, <1>6, <1>8 DEF Todo
\* ... and nothing else does.
<1>9. ASSUME NEW s \in Objects, Todo(s)'
      PROVE  Todo(s) \/ s \in Succ[o]
  BY <1>1, <1>2, <1>3, <1>4, <1>5, <1>6, <1>9 DEF Todo
<1>10. Complete'
  <2> SUFFICES ASSUME NEW s \in Objects, s \in roots \/ \E p \in marked' : s \in Succ[p]
               PROVE  s \in marked' \/ Todo(s)'
    BY <1>2 DEF Complete
  <2>1. CASE s \in roots \/ \E p \in marked : s \in Succ[p]
    <3>1. s \in marked \/ Todo(s)
      BY <2>1 DEF Inv, Complete
    <3> QED
      BY <1>2, <1>7, <3>1
  <2>2. CASE new /\ s \in Succ[o]
    BY <1>8, <2>2
  <2> QED
    BY <1>2, <2>1, <2>2 DEF new
<1>11. Sound'
  <2>1. Succ[o] \subseteq Reachable(roots)
    BY <1>1, ReachableSucc
  <2> SUFFICES ASSUME NEW s \in Objects, s \in marked' \/ Todo(s)'
               PROVE  s \in Reachable(roots)
    BY <1>2 DEF Sound
  <2>2. CASE s \in marked'
    BY <1>1, <1>2, <2>2 DEF Inv, Sound
  <2>3. CASE Todo(s)'
    BY <1>9, <2>1, <2>3 DEF Inv, Sound
  <2> QED
    BY <2>2, <2>3
<1> QED
  BY <1>10, <1>11

\* The steps of mark and of pullFromScanStackImpl.
LEMMA MarkingScan ==
  ASSUME Inv, NEW t \in Threads, Scan(t)
  PROVE  Complete' /\ Sound'
<1> USE ThreadsFacts
<1>1. pc \in [Threads -> Places]
  BY DEF Inv, TypeOK
<1>2. ASSUME NEW r \in local[t], PopLocal(t, r)
      PROVE  Complete' /\ Sound'
  BY <1>2, MarkingPop DEF PopLocal, heap
<1>3. CASE PopLocked(t) \/ Pull(t)
  <2>1. rng[t] = {} /\ UNCHANGED <<tgt, local, share, roots, marked>>
    BY <1>3 DEF PopLocked, Pull, Inv, IdleEmpty, InMark, heap
  <2>2. pc'[0] = "push" <=> pc[0] = "push"
    <3>1. pc[t] # "push"
      BY <1>3 DEF PopLocked, Pull, InMark
    <3>2. PICK p \in Places : pc' = [pc EXCEPT ![t] = p] /\ p # "push"
      BY <1>1, <1>3, <3>1 DEF PopLocked, Pull, AfterPull, Places
    <3> QED
      BY <1>1, <3>1, <3>2
  <2>3. (\E r \in scanStack : Pop(t, r)) \/ UNCHANGED <<scanStack, rng>>
    BY <1>3 DEF PopLocked, Pull
  <2>4. CASE UNCHANGED <<scanStack, rng>>
    BY <2>1, <2>2, <2>4, TodoKept, MarkingKept DEF Inv
  <2>5. ASSUME NEW r \in scanStack, Pop(t, r)
        PROVE  Complete' /\ Sound'
    BY <2>1, <2>2, <2>5, MarkingPop DEF Pop
  <2> QED
    BY <2>3, <2>4, <2>5
<1> QED
  BY <1>2, <1>3, MarkingPush, MarkingVisit DEF Scan

\* A collection begins or ends.
LEMMA MarkingBeginEnd ==
  ASSUME Inv, MarkBegin \/ Return
  PROVE  Complete' /\ Sound'
<1> USE ThreadsFacts
<1>1. pc[0] \notin Collecting /\ pc \in [Threads -> Places]
  BY DEF Inv, TypeOK, MarkBegin, Return, Go, Collecting
<1>2. QuietWorld /\ \A s : ~Todo(s)
  BY <1>1, QuietFacts DEF Inv
<1>3. scanStack = {} /\ \A t \in Threads : rng[t] = {} /\ tgt[t] = None /\ local[t] = {}
  BY <1>1, <1>2 DEF QuietWorld
<1>4. CASE Return
  <2>1. /\ scanStack' = {} /\ \A t \in Threads : rng'[t] = {} /\ tgt'[t] = None /\ local'[t] = {}
        /\ pc'[0] # "push" /\ roots' = {} /\ marked' = {}
    BY <1>1, <1>3, <1>4 DEF Return, Go, scanning
  <2>2. \A s \in Objects : ~Todo(s)'
    BY <2>1 DEF Todo
  <2> QED
    BY <2>1, <2>2 DEF Complete, Sound
<1>5. CASE MarkBegin
  <2>1. PICK r \in RootLists :
          /\ roots' = {r[j] : j \in 1 .. Len(r)}
          /\ share' = [i \in Scanners |->
                 {r[j] : j \in (i - 1) * (Len(r) \div (N + 1)) + 1 .. i * (Len(r) \div (N + 1))}]
          /\ rng' = [rng EXCEPT ![0] = {r[j] : j \in N * (Len(r) \div (N + 1)) + 1 .. Len(r)}]
          /\ Go(0, "run", IF Len(r) \div (N + 1) > 0 THEN "push" ELSE "scan")
    BY <1>5 DEF MarkBegin
  <2>2. marked' = {} /\ scanStack' = {} /\ \A t \in Threads : tgt'[t] = None /\ local'[t] = {}
    BY <1>3, <1>5 DEF MarkBegin
  <2> DEFINE n == Len(r)
             k == n \div (N + 1)
  <2>3. r \in Seq(Objects) /\ n \in Nat /\ k \in Nat
    BY RootsAssumption, NAssumption
  <2>4. /\ rng'[0] = {r[j] : j \in N * k + 1 .. n}
        /\ \A t \in Threads : t # 0 => rng'[t] = {}
        /\ \A i \in Scanners : share'[i] = {r[j] : j \in (i - 1) * k + 1 .. i * k}
        /\ pc'[0] = "push" <=> k > 0
    <3>1. rng \in [Threads -> SUBSET Objects]
      BY DEF Inv, TypeOK
    <3>2. pc'[0] = IF k > 0 THEN "push" ELSE "scan"
      BY <1>1, <2>1 DEF Go
    <3> HIDE DEF k, n
    <3>3. pc'[0] = "push" <=> k > 0
      BY <3>2
    <3> QED
      BY <1>3, <2>1, <3>1, <3>3 DEF k, n
  <2>5. \A s \in Objects : Todo(s)' <=> s \in rng'[0] \/ (k > 0 /\ \E i \in Scanners : s \in share'[i])
    BY <2>2, <2>4 DEF Todo
  <2>6. ASSUME NEW s \in roots' PROVE s \in Objects /\ Todo(s)'
    <3>1. PICK j \in 1 .. n : s = r[j]
      BY <2>1, <2>6
    <3>2. s \in Objects
      BY <2>3, <3>1
    <3>3. \/ k > 0 /\ \E i \in Scanners : j \in (i - 1) * k + 1 .. i * k
          \/ j \in N * k + 1 .. n
      BY <2>3, RootsDivided
    <3> HIDE DEF k, n
    <3> QED
      BY <2>4, <2>5, <3>1, <3>2, <3>3
  <2>7. ASSUME NEW s \in Objects, Todo(s)' PROVE s \in roots'
    <3>1. CASE s \in rng'[0]
      <4>1. PICK j \in N * k + 1 .. n : s = r[j]
        BY <2>4, <3>1
      <4> QED
        BY <2>1, <2>3, <4>1, RestInside
    <3>2. ASSUME NEW i \in Scanners, s \in share'[i] PROVE s \in roots'
      <4>1. PICK j \in (i - 1) * k + 1 .. i * k : s = r[j]
        BY <2>4, <3>2
      <4> QED
        BY <2>1, <2>3, <4>1, PartsInside
    <3> QED
      BY <2>5, <2>7, <3>1, <3>2
  <2>8. Complete'
    BY <2>2, <2>6 DEF Complete
  <2>9. roots' \subseteq Reachable(roots')
    BY <2>6, ReachableRoots
  <2>10. Reachable(roots)' = Reachable(roots')
    BY DEF Reachable, Closed
  <2>11. Sound'
    BY <2>2, <2>7, <2>9, <2>10 DEF Sound
  <2> QED
    BY <2>8, <2>11
<1> QED
  BY <1>4, <1>5

-----------------------------------------------------------------------------
(* The invariant and what follows from it *)

\* The invariant holds at the start,
LEMMA InvInit == Init => Inv
<1> SUFFICES ASSUME Init PROVE Inv
  OBVIOUS
<1>1. \A s \in Objects : ~Todo(s)
  BY ThreadsFacts DEF Init, Todo
<1>2. Complete /\ Sound
  BY <1>1 DEF Init, Complete, Sound
<1> QED
  BY <1>2, ControlInit DEF Inv, Control

\* every step keeps it,
LEMMA InvStep == Inv /\ [Next]_vars => Inv'
<1> SUFFICES ASSUME Inv, [Next]_vars PROVE Inv'
  OBVIOUS
<1>1. Control'
  BY ControlStep DEF Inv, Control
<1>2. Complete' /\ Sound'
  BY MarkingMoves, MarkingPush, MarkingScan, MarkingBeginEnd DEF Next, Collector
<1> QED
  BY <1>1, <1>2 DEF Inv, Control

\* and so it always holds.
LEMMA InvAlways == Spec => []Inv
BY InvInit, InvStep, PTL DEF Spec

\* Every variable of the collector and of the scan threads keeps its type; in
\* particular busyThreads, which is decremented, never goes below zero.
THEOREM TypeCorrect == Spec => []TypeOK
<1>1. Inv => TypeOK
  BY DEF Inv
<1> QED
  BY <1>1, InvAlways, PTL

\* The result of markParallel is right whatever the number of scan threads,
\* the heap, the roots, the size of the local stack and the interleaving: the
\* objects that are marked are those that can be reached from the roots.
THEOREM MarkingCorrect == Spec => []NothingMissed
<1>1. Inv => NothingMissed
  <2> SUFFICES ASSUME Inv, pc[0] = "marked" PROVE marked = Reachable(roots)
    BY DEF NothingMissed
  <2>1. marked \subseteq Objects /\ roots \subseteq Objects
    BY DEF Inv, TypeOK
  <2>2. \A s : ~Todo(s)
    BY QuietFacts DEF Inv, Collecting
  <2>3. roots \subseteq marked
    BY <2>1, <2>2 DEF Inv, Complete
  <2>4. Closed(marked)
    BY <2>1, <2>2, HeapAssumption DEF Inv, Complete, Closed
  <2>5. Reachable(roots) \subseteq marked
    BY <2>1, <2>3, <2>4, ReachableLeast
  <2>6. marked \subseteq Reachable(roots)
    BY <2>1 DEF Inv, Sound
  <2> QED
    BY <2>5, <2>6
<1> QED
  BY <1>1, InvAlways, PTL

\* When the program's threads run again nobody scans, the stacks are empty
\* and busyThreads is zero, so that the next collection starts clean.
THEOREM WorldQuiet == Spec => []QuietWorld
<1>1. Inv => QuietWorld
  BY QuietFacts DEF Inv, QuietWorld
<1> QED
  BY <1>1, InvAlways, PTL

\* evStackFilled is set whenever the common stack has a range, and no scan
\* thread sleeps then: the wakeup of pushRanges and scanStackPushLocked is
\* never lost.
THEOREM NoLostWakeup == Spec => []WorkSignalled
<1>1. Inv => WorkSignalled
  BY DEF Inv
<1> QED
  BY <1>1, InvAlways, PTL
-----------------------------------------------------------------------------
(* The end of the scan threads *)

\* A scan thread that could not be created never runs.
StartedKnown == \A t \in Scanners \ started : pc[t] = "none"

\* Only startScanThreads changes a thread that does not exist, nothing one
\* that has ended, and the collector is through with them once it has joined
\* all it has started.
LEMMA EndingMoves ==
  ASSUME TypeOK, PlacesOK, [Next]_vars, ~StartScanThreads
  PROVE  /\ started' = started
         /\ \A t \in Scanners : pc[t] \in {"none", "ended"} => pc'[t] = pc[t]
         /\ pc'[0] = "terminated" =>
              pc[0] = "terminated" \/ \A t \in started : pc[t] = "ended"
<1> USE DEF TypeOK
<1>t. 0 \in Threads /\ Scanners \subseteq Threads /\ 0 \notin Scanners
  BY ThreadsFacts
<1>1. CASE MarkBegin \/ StopBegin
  BY <1>1, <1>t DEF MarkBegin, StopBegin, Go, stopping
<1>2. CASE Collector
  BY <1>2, <1>t DEF Collector, PushRanges, DoneWait, Finish, Return, StopSet, Join,
                    Go, Awake, stopping
<1>3. ASSUME NEW t \in Threads, Scan(t)
      PROVE  /\ started' = started
             /\ \A u \in Scanners : pc[u] \in {"none", "ended"} => pc'[u] = pc[u]
             /\ pc'[0] = "terminated" => pc[0] = "terminated"
  <2>1. CASE \E o \in rng[t] : Visit(t, o)
    BY <2>1 DEF Visit, stopping
  <2>2. CASE \E r \in local[t] : PopLocal(t, r)
    BY <2>2 DEF PopLocal, stopping
  <2>3. CASE PushLocked(t)
    BY <2>3, <1>t DEF PushLocked, Awake, stopping
  <2>4. CASE PopLocked(t)
    BY <2>4, <1>t DEF PopLocked, InMark, stopping
  <2>5. CASE Pull(t)
    BY <2>5, <1>t DEF Pull, AfterPull, stopping
  <2> QED
    BY <1>3, <2>1, <2>2, <2>3, <2>4, <2>5 DEF Scan
<1>4. ASSUME NEW t \in Scanners, Background(t) \/ SpuriousWake(t)
      PROVE  /\ started' = started
             /\ \A u \in Scanners : pc[u] \in {"none", "ended"} => pc'[u] = pc[u]
             /\ pc'[0] = "terminated" => pc[0] = "terminated"
  BY <1>4, <1>t DEF Background, CheckStop, Wait, SignalDone, CountStopped, End, SpuriousWake,
                    Go, stopping
<1>5. CASE UNCHANGED vars
  BY <1>5 DEF vars, stopping
<1> QED
  BY <1>1, <1>2, <1>3, <1>4, <1>5 DEF Next

\* stopScanThreads destroys the events when every scan thread that was really
\* created has ended: none is going to use one afterwards.
THEOREM EventsOutliveUsers == Spec => []EventsOutlive
<1> DEFINE J == StartedKnown /\ EventsOutlive
<1>1. Init => J
  BY ThreadsFacts DEF Init, StartedKnown, EventsOutlive
<1>2. Inv /\ J /\ [Next]_vars => J'
  <2> SUFFICES ASSUME Inv, J, [Next]_vars PROVE J'
    OBVIOUS
  <2>1. CASE StartScanThreads
    BY <2>1, ThreadsFacts DEF StartScanThreads, StartedKnown, EventsOutlive
  <2>2. CASE ~StartScanThreads
    BY <2>2, EndingMoves DEF Inv, StartedKnown, EventsOutlive
  <2> QED
    BY <2>1, <2>2
<1>3. J => EventsOutlive
  OBVIOUS
<1> QED
  BY <1>1, <1>2, <1>3, InvAlways, PTL DEF Spec
=============================================================================
