--------------------------- MODULE CriticalProofs ---------------------------
(***************************************************************************)
(* Proofs about Monitor and Critical: any threads and objects, any number  *)
(* of critical sections, statements nested to any depth.                   *)
(***************************************************************************)
EXTENDS Critical, FiniteSetTheorems, SequenceTheorems, WellFoundedInduction, TLAPS

\* Places of a thread that has the guard, and all places of _d_criticalenter.
Guarding == {"init", "head", "next", "unguard"}
Entering == Guarding \cup {"guard", "cslock"}

\* An operation that goes through ensureMonitor uses its object.
Serving(t) == op[t].kind \in {"enter", "attach", "detach", "same"}

\* What a thread is doing, by its place.
OpsFit ==
  \A t \in Threads :
    /\ pc[t] \in {"idle", "gone"} \cup Entering => op[t] = NoOp
    /\ pc[t] \in {"publish", "attr", "lose"} => op[t] \in Operations
    /\ pc[t] = "lock" => op[t] \in Operations /\ op[t].kind # "same"
    /\ pc[t] = "body" => op[t] \in Operations /\ op[t].kind \in {"attach", "detach"}
    /\ pc[t] \in {"share", "link"} => op[t] \in Operations /\ op[t].kind = "same"
    /\ pc[t] \in {"unref", "dispose"} => op[t].kind = "delete" /\ op[t].h \in Objects

\* Whatever a thread uses exists; an ownee and an object that is being
\* finalized are used by nobody else.
UsedExist ==
  \A t \in Threads :
    /\ Serving(t) => op[t].h \in alive
    /\ op[t].kind = "same" =>
         /\ op[t].arg \in alive /\ mon[op[t].arg] = None
         /\ \A u \in Threads :
              /\ op[t].arg # op[u].h /\ op[t].arg \notin Range(held[u])
              /\ op[u].kind = "same" /\ u # t => op[t].arg # op[u].arg
    /\ op[t].kind = "delete" =>
         /\ op[t].h \notin alive
         /\ \A u \in Threads : op[u].kind = "delete" /\ u # t => op[t].h # op[u].h
    /\ op[t].kind \in {"attach", "detach"} => mon[op[t].h] \notin User
    /\ \A s \in Range(held[t]) : IF s \in Objects THEN s \in alive /\ mon[s] # None ELSE Known(s)

\* A monitor that only one thread knows.
Private(t) ==
  /\ reg[t] \in used /\ mutex[reg[t]] = Ready
  /\ \A h \in alive : mon[h] # reg[t]
  /\ \A u \in Threads : u # t => reg[u] # reg[t]

\* The local variable of an operation.
RegsFit ==
  \A t \in Threads :
    /\ pc[t] \in {"idle", "gone"} => reg[t] = None
    /\ pc[t] \in {"publish", "lose", "dispose"} => Private(t)
    /\ pc[t] = "lose" => mon[op[t].h] # None
    /\ pc[t] \in {"attr", "lock", "body", "share", "link"} =>
         reg[t] = mon[op[t].h] /\ reg[t] # None
    /\ pc[t] \in {"attr", "unref"} => reg[t] \in Addresses
    /\ pc[t] \in Entering => reg[t] \in Sections \cup Pointers
    /\ pc[t] = "head" => reg[t] \in Sections

\* A monitor that has users is allocated and counted, and its mutex is
\* initialized; one that is not allocated is as calloc leaves it.
Counted ==
  \A m \in Addresses :
    /\ Users(m) # {} => m \in used /\ refs[m] = Cardinality(Users(m)) /\ mutex[m].init
    /\ m \in used => Users(m) # {} \/ \E t \in Threads : reg[t] = m
    /\ m \notin used => mutex[m] = Raw

\* An object that has a monitor or a destructor will be finalized.
WillFinalize ==
  \A h \in alive :
    /\ mon[h] \in Addresses => h \in fin \/ \E t \in Threads : pc[t] = "attr" /\ op[t].h = h
    /\ h \in Dtor => h \in fin

\* How often a thread has locked a mutex.
Nested(t, x) == {i \in DOMAIN held[t] : MutexOf(held[t][i]) = x}
InBody(t, x) == (pc[t] = "body" /\ reg[t] = x) \/ (pc[t] \in Guarding /\ x = gcs)
Depth(t, x) == Cardinality(Nested(t, x)) + IF InBody(t, x) THEN 1 ELSE 0

\* A mutex is locked as often as its owner is inside.
Locked ==
  \A x \in Mutexes :
    /\ \A t \in Threads : Depth(t, x) = IF mutex[x].by = t THEN mutex[x].depth ELSE 0
    /\ mutex[x].by = None => mutex[x].depth = 0
    /\ mutex[x].by # None => mutex[x].depth > 0 /\ mutex[x].init

\* The mutex of a critical section, which only the one with the guard initializes.
Initialized ==
  /\ ~term => mutex[gcs].init /\ \A x \in User : mutex[x].init
  /\ \A c \in Sections \cup Pointers :
       IF Known(c) THEN term \/ mutex[c].init
       ELSE mutex[c] = IF \E t \in Threads : pc[t] \in {"head", "next"} /\ reg[t] = c
                         THEN Ready ELSE Raw
  /\ \A t \in Threads :
       /\ pc[t] \in {"init", "head", "next"} => ~Known(reg[t])
       /\ pc[t] \in {"unguard", "cslock"} => Known(reg[t])
       /\ term => pc[t] = "gone" /\ held[t] = <<>>
       /\ pc[t] = "gone" => term

\* The list of critical sections, which is cut for a moment between the stores
\* to head and next.
Linked ==
  /\ next[gcs] = None
  /\ LET start == IF ohead = None THEN head ELSE ohead IN
       gcs \in WalkFrom(start) /\ \A c \in Sections : Known(c) => c \in WalkFrom(start)
  /\ ohead # None => \E t \in Threads : pc[t] = "next" /\ reg[t] = head /\ head \in Sections
  /\ \A t \in Threads : pc[t] = "next" /\ reg[t] \in Sections => ohead # None
  /\ term => \A c \in Sections : ~mutex[c].init

Inv ==
  /\ TypeOK /\ OpsFit /\ UsedExist /\ RegsFit /\ Counted /\ WillFinalize /\ Locked
  /\ Initialized /\ Linked

-----------------------------------------------------------------------------
(* The operators of the model *)

LEMMA Names ==
  /\ Mutexes = Addresses \cup User \cup Sections \cup Pointers \cup {gcs}
  /\ None \notin Mutexes /\ None \notin Threads /\ None \notin Events /\ None \notin Objects
  /\ User \subseteq Dtor /\ Dtor \subseteq Objects /\ Ownees \subseteq Objects /\ Ownees \cap User = {}
  /\ gcs \notin Addresses /\ gcs \notin Objects /\ gcs \notin Sections /\ gcs \notin Pointers
  /\ gcs \notin User
  /\ \A c \in Sections : c \notin Addresses /\ c \notin Objects /\ c \notin Pointers /\ c \notin User
  /\ \A c \in Pointers : c \notin Addresses /\ c \notin Objects /\ c \notin Sections /\ c \notin User
  /\ \A m \in Addresses : m \notin Objects /\ m \notin Sections /\ m \notin Pointers /\ m \notin User
  /\ \A m \in User : m \notin Addresses /\ m \notin Sections /\ m \notin Pointers
  /\ IsFiniteSet(Objects)
<1>1. User \subseteq Objects
  BY MonitorAssumption
<1> QED
  BY <1>1, MonitorAssumption, CriticalAssumption

LEMMA OperationsFit ==
  ASSUME NEW o \in Operations
  PROVE  /\ o \in [kind : Kinds, h : Objects \cup {None}, arg : Objects \cup Events \cup {None}]
         /\ o.kind \in {"enter", "attach", "detach", "same"} /\ o.h \in Objects
         /\ o.kind = "same" => o.arg \in Ownees /\ o.arg \in Objects
         /\ o.kind \in {"attach", "detach"} => o.h \notin User
BY Names DEF Operations, Kinds

\* Locking changes one mutex, and not whether it is initialized.
LEMMA LockChanges ==
  ASSUME TypeOK, NEW t \in Threads, NEW x \in Mutexes, LockMutex(t, x)
  PROVE  /\ mutex' \in [Mutexes -> [init : BOOLEAN, by : Threads \cup {None}, depth : Nat]]
         /\ mutex[x].by \in {None, t} /\ mutex'[x].by = t /\ mutex'[x].depth = mutex[x].depth + 1
         /\ \A y \in Mutexes : mutex'[y].init = mutex[y].init /\ (y # x => mutex'[y] = mutex[y])
BY DEF TypeOK, LockMutex

\* So does unlocking by the owner.
LEMMA UnlockChanges ==
  ASSUME TypeOK, NEW t \in Threads, NEW x \in Mutexes, UnlockMutex(t, x),
         mutex[x].by = t, mutex[x].depth > 0, mutex[x].init
  PROVE  /\ mutex' \in [Mutexes -> [init : BOOLEAN, by : Threads \cup {None}, depth : Nat]]
         /\ mutex'[x].depth = mutex[x].depth - 1
         /\ mutex'[x].by = IF mutex[x].depth = 1 THEN None ELSE t
         /\ \A y \in Mutexes : mutex'[y].init = mutex[y].init /\ (y # x => mutex'[y] = mutex[y])
<1> DEFINE one == mutex[x].depth = 1
           new == IF one THEN Ready
                  ELSE [init |-> mutex[x].init, by |-> mutex[x].by, depth |-> mutex[x].depth - 1]
<1>1. mutex' = [mutex EXCEPT ![x] = new]
  BY DEF UnlockMutex
<1>2. /\ new \in [init : BOOLEAN, by : Threads \cup {None}, depth : Nat]
      /\ new.init = mutex[x].init /\ new.depth = mutex[x].depth - 1
      /\ new.by = IF mutex[x].depth = 1 THEN None ELSE t
  <2>0. mutex[x] \in [init : BOOLEAN, by : Threads \cup {None}, depth : Nat]
    BY DEF TypeOK
  <2>1. CASE one
    BY <2>0, <2>1 DEF Ready
  <2>2. CASE ~one
    BY <2>0, <2>2
  <2> QED
    BY <2>1, <2>2
<1> HIDE DEF new
<1> QED
  BY <1>1, <1>2 DEF TypeOK

\* Who uses a monitor.
LEMMA UsersAre ==
  ASSUME NEW m
  PROVE  \A h : h \in Users(m) <=>
           \/ h \in alive /\ mon[h] = m
           \/ \E t \in Threads : pc[t] = "unref" /\ reg[t] = m /\ op[t].h = h
           \/ \E t \in Threads : pc[t] = "link" /\ reg[t] = m /\ op[t].arg = h
BY DEF Users

LEMMA UsersFinite ==
  ASSUME TypeOK, OpsFit, NEW m
  PROVE  Users(m) \subseteq Objects /\ IsFiniteSet(Users(m)) /\ Cardinality(Users(m)) \in Nat
<1>1. Users(m) \subseteq Objects
  <2>1. \A t \in Threads : pc[t] = "unref" => op[t].h \in Objects
    BY DEF OpsFit
  <2>2. \A t \in Threads : pc[t] = "link" => op[t].arg \in Objects
    BY OperationsFit DEF OpsFit
  <2>3. alive \subseteq Objects
    BY DEF TypeOK, MonitorTypeOK
  <2> QED
    BY <2>1, <2>2, <2>3, UsersAre
<1> QED
  BY <1>1, Names, FS_Subset, FS_CardinalityType

\* The statement that is entered is the last one, and so is the one that is left.
LEMMA Appended ==
  ASSUME NEW S, NEW s \in Seq(S), NEW e \in S
  PROVE  /\ Append(s, e) \in Seq(S) /\ Len(Append(s, e)) = Len(s) + 1
         /\ DOMAIN Append(s, e) = DOMAIN s \cup {Len(s) + 1} /\ Len(s) + 1 \notin DOMAIN s
         /\ \A i \in DOMAIN s : Append(s, e)[i] = s[i]
         /\ Append(s, e)[Len(s) + 1] = e
         /\ Range(Append(s, e)) = Range(s) \cup {e}
<1>1. /\ Append(s, e) \in Seq(S) /\ Len(Append(s, e)) = Len(s) + 1
      /\ DOMAIN Append(s, e) = DOMAIN s \cup {Len(s) + 1} /\ Len(s) + 1 \notin DOMAIN s
      /\ \A i \in DOMAIN s : Append(s, e)[i] = s[i]
      /\ Append(s, e)[Len(s) + 1] = e
  OBVIOUS
<1> QED
  BY <1>1 DEF Range

LEMMA FrontLast ==
  ASSUME NEW S, NEW s \in Seq(S), s # <<>>
  PROVE  /\ Front(s) \in Seq(S) /\ Last(s) = s[Len(s)] /\ Last(s) \in Range(s) /\ Last(s) \in S
         /\ DOMAIN Front(s) = DOMAIN s \ {Len(s)} /\ Len(s) \in DOMAIN s
         /\ \A i \in DOMAIN Front(s) : Front(s)[i] = s[i]
         /\ Range(Front(s)) \subseteq Range(s)
<1>1. Len(s) \in Nat \ {0} /\ DOMAIN s = 1 .. Len(s)
  OBVIOUS
<1>2. /\ Front(s) \in Seq(S) /\ Last(s) = s[Len(s)] /\ s[Len(s)] \in S /\ Len(Front(s)) = Len(s) - 1
      /\ \A i \in 1 .. (Len(s) - 1) : Front(s)[i] = s[i]
  BY <1>1 DEF Front, Last
<1>3. DOMAIN Front(s) = 1 .. (Len(s) - 1)
  BY <1>2
<1>4. /\ DOMAIN Front(s) = DOMAIN s \ {Len(s)} /\ Len(s) \in DOMAIN s
      /\ \A i \in DOMAIN Front(s) : Front(s)[i] = s[i]
  BY <1>1, <1>2, <1>3
<1>5. Last(s) \in Range(s) /\ Range(Front(s)) \subseteq Range(s)
  BY <1>2, <1>4 DEF Range
<1> QED
  BY <1>1, <1>2, <1>4, <1>5

-----------------------------------------------------------------------------
(* What the invariant says of a thread in an operation *)

LEMMA AtWork ==
  ASSUME Inv, NEW t \in Threads
  PROVE  /\ pc[t] \in {"publish", "attr", "lose", "lock", "body", "share", "link"} =>
              Serving(t) /\ op[t] \in Operations /\ op[t].h \in Objects /\ op[t].h \in alive
         /\ pc[t] \in {"publish", "attr", "lose", "body", "unref", "dispose"} => reg[t] \in Addresses
         /\ pc[t] \in {"lock", "share", "link"} => reg[t] \in Addresses \cup User
         /\ pc[t] \in {"attr", "lock", "body", "share", "link"} /\ reg[t] \in Addresses =>
              op[t].h \in Users(reg[t])
         /\ pc[t] = "unref" => op[t].h \in Users(reg[t])
         /\ reg[t] \in Addresses => reg[t] \in used
<1> USE DEF Inv
<1>0. /\ pc[t] \in Places /\ reg[t] \in Mutexes \cup {None} /\ used \subseteq Addresses
      /\ mon \in [Objects -> Addresses \cup User \cup {None}]
  BY DEF TypeOK, MonitorTypeOK
<1>1. pc[t] \in {"publish", "attr", "lose", "lock", "body", "share", "link"} =>
        op[t] \in Operations
  BY DEF OpsFit
<1>2. pc[t] \in {"publish", "attr", "lose", "lock", "body", "share", "link"} =>
        Serving(t) /\ op[t].h \in Objects /\ op[t].h \in alive
  BY <1>1, OperationsFit DEF Serving, UsedExist
<1>3. pc[t] \in {"publish", "lose", "dispose"} => reg[t] \in used
  BY DEF RegsFit, Private
<1>4. pc[t] \in {"attr", "lock", "body", "share", "link"} =>
        reg[t] = mon[op[t].h] /\ reg[t] # None
  BY DEF RegsFit
<1>5. pc[t] \in {"lock", "body", "share", "link"} => reg[t] \in Addresses \cup User
  BY <1>0, <1>2, <1>4
<1>6. pc[t] = "body" => reg[t] \in Addresses
  <2>1. pc[t] = "body" => mon[op[t].h] \notin User
    BY DEF OpsFit, UsedExist
  <2> QED
    BY <1>4, <1>5, <2>1
<1>7. pc[t] \in {"attr", "unref"} => reg[t] \in Addresses
  BY DEF RegsFit
<1>8. pc[t] \in {"attr", "lock", "body", "share", "link"} => op[t].h \in Users(reg[t])
  BY <1>2, <1>4, UsersAre
<1>9. pc[t] = "unref" => op[t].h \in Users(reg[t])
  BY UsersAre
<1>10. reg[t] \in Addresses => reg[t] \in used
  <2>1. pc[t] \in {"idle", "gone"} \cup Entering => reg[t] \notin Addresses
    BY Names DEF RegsFit
  <2>2. reg[t] \in Addresses /\ Users(reg[t]) # {} => reg[t] \in used
    BY DEF Counted
  <2> QED
    BY <1>0, <1>3, <1>8, <1>9, <2>1, <2>2 DEF Places, MonitorPlaces, Entering, Guarding
<1> QED
  BY <1>0, <1>1, <1>2, <1>3, <1>5, <1>6, <1>7, <1>8, <1>9, <1>10

\* A thread that is inside has the mutex.
LEMMA DepthIs ==
  ASSUME Inv, NEW t \in Threads, NEW x
  PROVE  /\ IsFiniteSet(Nested(t, x)) /\ Cardinality(Nested(t, x)) \in Nat /\ Depth(t, x) \in Nat
         /\ InBody(t, x) => Depth(t, x) > 0
         /\ \A i \in DOMAIN held[t] : MutexOf(held[t][i]) = x => Depth(t, x) > 0
<1>1. DOMAIN held[t] = 1 .. Len(held[t]) /\ Len(held[t]) \in Nat
  BY DEF Inv, TypeOK
<1>2. IsFiniteSet(Nested(t, x)) /\ Cardinality(Nested(t, x)) \in Nat
  <2>0. PICK n \in Nat : n = Len(held[t])
    BY <1>1
  <2>1. IsFiniteSet(DOMAIN held[t])
    <3>1. IsFiniteSet(1 .. n)
      <4>1. 1 \in Int /\ n \in Int
        OBVIOUS
      <4> QED
        BY <4>1, FS_Interval
    <3> QED
      BY <1>1, <2>0, <3>1
  <2>2. Nested(t, x) \subseteq DOMAIN held[t]
    BY DEF Nested
  <2> QED
    BY <2>1, <2>2, FS_Subset, FS_CardinalityType
<1>3. Nested(t, x) # {} => Cardinality(Nested(t, x)) # 0
  BY <1>2, FS_EmptySet
<1>4. \A i \in DOMAIN held[t] : MutexOf(held[t][i]) = x => Nested(t, x) # {}
  BY DEF Nested
<1> QED
  BY <1>2, <1>3, <1>4 DEF Depth

LEMMA Owner ==
  ASSUME Inv, NEW t \in Threads
  PROVE  /\ \A x \in Mutexes : Depth(t, x) > 0 =>
              mutex[x].by = t /\ mutex[x].depth = Depth(t, x) /\ mutex[x].init
         /\ \A s \in Range(held[t]) :
              /\ MutexOf(s) \in Mutexes /\ MutexOf(s) # gcs
              /\ mutex[MutexOf(s)].by = t /\ mutex[MutexOf(s)].depth > 0 /\ mutex[MutexOf(s)].init
<1>1. \A x \in Mutexes : Depth(t, x) > 0 =>
        mutex[x].by = t /\ mutex[x].depth = Depth(t, x) /\ mutex[x].init
  BY Names DEF Inv, Locked
<1>2. ASSUME NEW s \in Range(held[t])
      PROVE  /\ MutexOf(s) \in Mutexes /\ MutexOf(s) # gcs
             /\ mutex[MutexOf(s)].by = t /\ mutex[MutexOf(s)].depth > 0 /\ mutex[MutexOf(s)].init
  <2>1. PICK i \in DOMAIN held[t] : s = held[t][i]
    BY DEF Range
  <2>2. s \in Objects \cup Sections \cup Pointers
    BY <2>1 DEF Inv, TypeOK
  <2>3. s \in Objects => mon[s] \in Addresses \cup User
    BY DEF Inv, UsedExist, TypeOK, MonitorTypeOK
  <2>4. MutexOf(s) \in Mutexes /\ MutexOf(s) # gcs
    BY <2>2, <2>3, Names DEF MutexOf
  <2> QED
    BY <1>1, <2>1, <2>4, DepthIs
<1> QED
  BY <1>1, <1>2

-----------------------------------------------------------------------------
(* What steps leave alone *)

\* Nobody locks or unlocks, and no mutex that is locked changes.
LEMMA LockedSame ==
  ASSUME Inv, held' = held,
         \A t \in Threads : \A s \in Range(held[t]) : s \in Objects => mon'[s] = mon[s],
         \A t \in Threads, x \in Mutexes : InBody(t, x)' = InBody(t, x),
         \A x \in Mutexes : /\ mutex'[x].by = mutex[x].by /\ mutex'[x].depth = mutex[x].depth
                            /\ mutex[x].by # None => mutex'[x].init
  PROVE  Locked'
<1>1. ASSUME NEW t \in Threads, NEW x \in Mutexes PROVE Depth(t, x)' = Depth(t, x)
  <2>1. \A i \in DOMAIN held[t] : MutexOf(held[t][i])' = MutexOf(held[t][i])
    BY DEF MutexOf, Range
  <2>2. Nested(t, x)' = Nested(t, x)
    BY <2>1 DEF Nested
  <2> QED
    BY <2>2 DEF Depth
<1> QED
  BY <1>1 DEF Inv, Locked

\* The critical sections do not change in a step of Monitor.
LEMMA SectionsSame ==
  ASSUME Inv, ~term, UNCHANGED <<cvars>>,
         \A u \in Threads : (pc'[u] = pc[u] /\ reg'[u] = reg[u])
                              \/ (pc[u] \in MonitorPlaces /\ pc'[u] \in MonitorPlaces),
         \A c \in Sections \cup Pointers \cup {gcs} : mutex'[c] = mutex[c],
         \A x \in User : mutex'[x].init = mutex[x].init
  PROVE  Initialized' /\ Linked'
<1> USE DEF Inv, cvars
<1>1. \A c : Known(c)' = Known(c)
  BY DEF Known
<1>2. \A u \in Threads : \A q \in {"init", "head", "next", "unguard", "cslock", "gone"} :
        /\ pc'[u] = q => pc[u] = q /\ reg'[u] = reg[u]
        /\ pc[u] = q => pc'[u] = q /\ reg'[u] = reg[u]
  BY DEF MonitorPlaces
<1>3. Initialized'
  BY <1>1, <1>2, Names DEF Initialized
<1>4. \A c : WalkFrom(c)' = WalkFrom(c)
  BY DEF WalkFrom, Closed, Static
<1>5. Linked'
  BY <1>1, <1>2, <1>4 DEF Linked
<1> QED
  BY <1>3, <1>5

\* The objects do not change in a step of Critical.
LEMMA ObjectsSame ==
  ASSUME Inv, NEW t \in Threads, NEW to \in Entering \cup {"idle"}, NEW r,
         pc[t] \in Entering \cup {"idle"}, pc' = [pc EXCEPT ![t] = to],
         reg' = [reg EXCEPT ![t] = r],
         IF to = "idle" THEN r = None ELSE r \in Sections \cup Pointers,
         to = "head" => r \in Sections,
         UNCHANGED <<op, mvars>>, \A m \in Addresses : mutex'[m] = mutex[m],
         \A c : Known(c) => Known(c)',
         \A u \in Threads : \A s \in Range(held'[u]) :
           s \in Range(held[u]) \/ (s \notin Objects /\ Known(s)')
  PROVE  OpsFit' /\ UsedExist' /\ RegsFit' /\ Counted' /\ WillFinalize'
<1> USE DEF mvars
<1>1. /\ op' = op /\ pc \in [Threads -> Places] /\ reg \in [Threads -> Mutexes \cup {None}]
      /\ OpsFit /\ UsedExist /\ RegsFit /\ Counted /\ WillFinalize /\ used \subseteq Addresses
  BY DEF Inv, TypeOK, MonitorTypeOK
<1>2. pc'[t] = to /\ reg'[t] = r /\ r \notin Addresses
  BY <1>1, Names
<1>3. \A u \in Threads : u # t => pc'[u] = pc[u] /\ reg'[u] = reg[u]
  BY <1>1
<1>4. /\ pc[t] \notin {"publish", "attr", "lose", "lock", "body", "share", "link", "unref", "dispose"}
      /\ pc'[t] \notin {"publish", "attr", "lose", "lock", "body", "share", "link", "unref", "dispose"}
  BY <1>2 DEF Entering, Guarding
<1>5. OpsFit'
  BY <1>1, <1>2, <1>3, <1>4 DEF OpsFit
<1>6. UsedExist'
  <2>1. \A u \in Threads : \A s \in Range(held'[u]) :
          IF s \in Objects THEN s \in alive /\ mon[s] # None ELSE Known(s)'
    BY <1>1 DEF UsedExist
  <2>2. \A u \in Threads : op[u].kind = "same" => op[u].arg \in Objects
    BY <1>1 DEF UsedExist, Inv, TypeOK, MonitorTypeOK
  <2>3. \A u, v \in Threads : op[u].kind = "same" => op[u].arg \notin Range(held'[v])
    BY <1>1, <2>2 DEF UsedExist
  <2> QED
    BY <1>1, <2>1, <2>3 DEF UsedExist, Serving
<1>7. RegsFit'
  <2>1. ASSUME NEW u \in Threads, u # t, Private(u) PROVE Private(u)'
    BY <1>1, <1>2, <1>3, <2>1 DEF Private
  <2> QED
    BY <1>1, <1>2, <1>3, <1>4, <2>1 DEF RegsFit, Entering, Guarding
<1>8. ASSUME NEW m PROVE Users(m)' = Users(m)
  BY <1>1, <1>2, <1>3, <1>4 DEF Users
<1>9. Counted'
  <2>1. \A u \in Threads : reg[u] \in Addresses => u # t \/ reg'[u] = reg[u]
    <3>1. reg[t] \notin Addresses
      BY <1>1, Names DEF RegsFit
    <3> QED
      BY <3>1
  <2> QED
    BY <1>1, <1>2, <1>3, <1>8, <2>1 DEF Counted
<1>10. WillFinalize'
  BY <1>1, <1>3, <1>4 DEF WillFinalize
<1> QED
  BY <1>5, <1>6, <1>7, <1>9, <1>10

-----------------------------------------------------------------------------
(* Locking and unlocking *)

LEMMA LockedMore ==
  ASSUME Inv, NEW t \in Threads, NEW x \in Mutexes, LockMutex(t, x), mutex[x].init,
         \A u \in Threads, y \in Mutexes :
           Depth(u, y)' = Depth(u, y) + IF u = t /\ y = x THEN 1 ELSE 0
  PROVE  Locked'
<1>1. /\ mutex[x].by \in {None, t} /\ mutex'[x].by = t /\ mutex'[x].depth = mutex[x].depth + 1
      /\ \A y \in Mutexes : mutex'[y].init = mutex[y].init /\ (y # x => mutex'[y] = mutex[y])
  BY LockChanges DEF Inv
<1>2. \A u \in Threads, y \in Mutexes : Depth(u, y) \in Nat
  BY DepthIs
<1>3. mutex[x].depth \in Nat
  BY DEF Inv, TypeOK
<1> QED
  BY <1>1, <1>2, <1>3, Names DEF Inv, Locked

LEMMA LockedLess ==
  ASSUME Inv, NEW t \in Threads, NEW x \in Mutexes, UnlockMutex(t, x), Depth(t, x) > 0,
         \A u \in Threads, y \in Mutexes :
           Depth(u, y)' = Depth(u, y) - IF u = t /\ y = x THEN 1 ELSE 0
  PROVE  Locked'
<1>0. mutex[x].by = t /\ mutex[x].depth > 0 /\ mutex[x].init /\ mutex[x].depth \in Nat
  BY Owner DEF Inv, TypeOK
<1>1. /\ mutex'[x].depth = mutex[x].depth - 1
      /\ mutex'[x].by = IF mutex[x].depth = 1 THEN None ELSE t
      /\ \A y \in Mutexes : mutex'[y].init = mutex[y].init /\ (y # x => mutex'[y] = mutex[y])
  BY <1>0, UnlockChanges DEF Inv
<1>2. \A u \in Threads, y \in Mutexes : Depth(u, y) \in Nat
  BY DepthIs
<1> QED
  BY <1>0, <1>1, <1>2, Names DEF Inv, Locked

\* A statement is entered,
LEMMA DepthEntered ==
  ASSUME Inv, NEW t \in Threads, NEW s \in Objects \cup Sections \cup Pointers,
         held' = [held EXCEPT ![t] = Append(@, s)], mon' = mon,
         \A u \in Threads, y \in Mutexes : InBody(u, y)' = InBody(u, y),
         NEW u \in Threads, NEW y \in Mutexes
  PROVE  Depth(u, y)' = Depth(u, y) + IF u = t /\ y = MutexOf(s) THEN 1 ELSE 0
<1>1. held[t] \in Seq(Objects \cup Sections \cup Pointers) /\ held'[t] = Append(held[t], s)
  BY DEF Inv, TypeOK
<1>2. \A r : MutexOf(r)' = MutexOf(r)
  BY DEF MutexOf
<1>3. CASE u # t
  <2>1. held'[u] = held[u]
    BY <1>3 DEF Inv, TypeOK
  <2>2. Nested(u, y)' = Nested(u, y)
    BY <1>2, <2>1 DEF Nested
  <2> QED
    BY <1>3, <2>2, DepthIs DEF Depth
<1>4. CASE u = t /\ y = MutexOf(s)
  <2>1. Nested(t, y)' = Nested(t, y) \cup {Len(held[t]) + 1} /\ Len(held[t]) + 1 \notin Nested(t, y)
    BY <1>1, <1>2, <1>4, Appended DEF Nested
  <2>2. Cardinality(Nested(t, y)') = Cardinality(Nested(t, y)) + 1
    BY <2>1, DepthIs, FS_AddElement
  <2>3. Cardinality(Nested(t, y)) \in Nat
    BY DepthIs
  <2> QED
    BY <1>4, <2>2, <2>3 DEF Depth
<1>5. CASE u = t /\ y # MutexOf(s)
  <2>1. Nested(t, y)' = Nested(t, y)
    BY <1>1, <1>2, <1>5, Appended DEF Nested
  <2> QED
    BY <1>5, <2>1, DepthIs DEF Depth
<1> QED
  BY <1>3, <1>4, <1>5

\* or left.
LEMMA DepthLeft ==
  ASSUME Inv, NEW t \in Threads, held[t] # <<>>,
         held' = [held EXCEPT ![t] = Front(@)], mon' = mon,
         \A u \in Threads, y \in Mutexes : InBody(u, y)' = InBody(u, y),
         NEW u \in Threads, NEW y \in Mutexes
  PROVE  Depth(u, y)' = Depth(u, y) - IF u = t /\ y = MutexOf(Last(held[t])) THEN 1 ELSE 0
<1>1. held[t] \in Seq(Objects \cup Sections \cup Pointers) /\ held'[t] = Front(held[t])
  BY DEF Inv, TypeOK
<1>2. \A r : MutexOf(r)' = MutexOf(r)
  BY DEF MutexOf
<1>f. /\ Last(held[t]) = held[t][Len(held[t])]
      /\ DOMAIN Front(held[t]) = DOMAIN held[t] \ {Len(held[t])} /\ Len(held[t]) \in DOMAIN held[t]
      /\ \A i \in DOMAIN Front(held[t]) : Front(held[t])[i] = held[t][i]
  BY <1>1, FrontLast
<1>3. CASE u # t
  <2>1. held'[u] = held[u]
    BY <1>3 DEF Inv, TypeOK
  <2>2. Nested(u, y)' = Nested(u, y)
    BY <1>2, <2>1 DEF Nested
  <2> QED
    BY <1>3, <2>2, DepthIs DEF Depth
<1>4. CASE u = t /\ y = MutexOf(Last(held[t]))
  <2>1. Nested(t, y)' = Nested(t, y) \ {Len(held[t])} /\ Len(held[t]) \in Nested(t, y)
    BY <1>1, <1>2, <1>4, <1>f DEF Nested
  <2>2. Cardinality(Nested(t, y)') = Cardinality(Nested(t, y)) - 1
    BY <2>1, DepthIs, FS_RemoveElement
  <2>3. Cardinality(Nested(t, y)) \in Nat
    BY DepthIs
  <2> QED
    BY <1>4, <2>2, <2>3 DEF Depth
<1>5. CASE u = t /\ y # MutexOf(Last(held[t]))
  <2>1. Nested(t, y)' = Nested(t, y)
    BY <1>1, <1>2, <1>5, <1>f DEF Nested
  <2> QED
    BY <1>5, <2>1, DepthIs DEF Depth
<1> QED
  BY <1>3, <1>4, <1>5

\* The guard, or the mutex around the body of attach and detach.
LEMMA DepthInBody ==
  ASSUME Inv, NEW t \in Threads, NEW x \in Mutexes, held' = held, mon' = mon,
         \A u \in Threads, y \in Mutexes : u # t \/ y # x => InBody(u, y)' = InBody(u, y),
         NEW u \in Threads, NEW y \in Mutexes
  PROVE  /\ ~InBody(t, x) /\ InBody(t, x)' =>
              Depth(u, y)' = Depth(u, y) + IF u = t /\ y = x THEN 1 ELSE 0
         /\ InBody(t, x) /\ ~InBody(t, x)' =>
              Depth(u, y)' = Depth(u, y) - IF u = t /\ y = x THEN 1 ELSE 0
<1>1. Nested(u, y)' = Nested(u, y)
  BY DEF Nested, MutexOf
<1>2. Cardinality(Nested(u, y)) \in Nat
  BY DepthIs
<1> QED
  BY <1>1, <1>2 DEF Depth

\* One thread has the guard.
LEMMA GuardAlone ==
  ASSUME Inv, NEW t \in Threads, NEW u \in Threads, pc[t] \in Guarding, pc[u] \in Guarding
  PROVE  t = u
<1>1. gcs \in Mutexes /\ InBody(t, gcs) /\ InBody(u, gcs)
  BY Names DEF InBody
<1> QED
  BY <1>1, DepthIs, Owner

-----------------------------------------------------------------------------
(* The steps of Critical *)

LEMMA InvCriticalEnter ==
  ASSUME Inv, NEW t \in Threads, NEW c \in Sections \cup Pointers, CriticalEnter(t, c)
  PROVE  Inv'
<1> USE DEF CriticalEnter, cvars, mvars, At
<1> DEFINE to == IF Known(c) THEN "cslock" ELSE "guard"
<1>1. /\ pc[t] = "idle" /\ pc' = [pc EXCEPT ![t] = to] /\ reg' = [reg EXCEPT ![t] = c]
      /\ to \in {"cslock", "guard"} /\ (to = "cslock" => Known(c)) /\ c \in Mutexes
  BY Names
<1> HIDE DEF to
<1>2. TypeOK'
  BY <1>1 DEF Inv, TypeOK, MonitorTypeOK, Places
<1>3. \A x : Known(x)' = Known(x)
  BY DEF Known
<1>4. OpsFit' /\ UsedExist' /\ RegsFit' /\ Counted' /\ WillFinalize'
  BY <1>1, <1>3, ObjectsSame DEF Entering, Guarding
<1>5. pc'[t] = to /\ reg'[t] = c /\ \A u \in Threads : u # t => pc'[u] = pc[u] /\ reg'[u] = reg[u]
  BY <1>1 DEF Inv, TypeOK
<1>6. Locked'
  <2>1. ASSUME NEW u \in Threads, NEW x \in Mutexes PROVE InBody(u, x)' = InBody(u, x)
    BY <1>1, <1>5 DEF InBody, Guarding
  <2> QED
    BY <2>1, LockedSame DEF Inv, Locked
<1>7. Initialized'
  BY <1>1, <1>3, <1>5 DEF Inv, Initialized
<1>8. Linked'
  <2>1. \A x : WalkFrom(x)' = WalkFrom(x)
    BY DEF WalkFrom, Closed, Static
  <2> QED
    BY <1>1, <1>3, <1>5, <2>1 DEF Inv, Linked
<1> QED
  BY <1>2, <1>4, <1>6, <1>7, <1>8 DEF Inv

LEMMA InvGuard ==
  ASSUME Inv, NEW t \in Threads, Guard(t)
  PROVE  Inv'
<1> USE DEF Guard, cvars, mvars, At
<1> DEFINE to == IF Known(reg[t]) THEN "unguard" ELSE "init"
<1>1. /\ pc[t] = "guard" /\ pc' = [pc EXCEPT ![t] = to]
      /\ to \in {"unguard", "init"} /\ (to = "unguard" <=> Known(reg[t]))
      /\ reg' = [reg EXCEPT ![t] = reg[t]] /\ held' = held /\ op' = op
  BY DEF Inv, TypeOK
<1> HIDE DEF to
<1>m. /\ mutex' \in [Mutexes -> [init : BOOLEAN, by : Threads \cup {None}, depth : Nat]]
      /\ \A y \in Mutexes : mutex'[y].init = mutex[y].init /\ (y # gcs => mutex'[y] = mutex[y])
      /\ gcs \in Mutexes
  BY Names, LockChanges DEF Inv
<1>2. TypeOK'
  BY <1>1, <1>m DEF Inv, TypeOK, MonitorTypeOK, Places
<1>3. \A x : Known(x)' = Known(x)
  BY DEF Known
<1>r. reg[t] \in Sections \cup Pointers
  BY <1>1 DEF Inv, RegsFit, Entering
<1>4. OpsFit' /\ UsedExist' /\ RegsFit' /\ Counted' /\ WillFinalize'
  <2>1. to \in Entering /\ pc[t] \in Entering /\ to # "head" /\ to # "idle"
    BY <1>1 DEF Entering, Guarding
  <2>2. \A m \in Addresses : mutex'[m] = mutex[m]
    BY <1>m, Names
  <2> QED
    BY <1>1, <1>3, <1>r, <2>1, <2>2, ObjectsSame DEF Entering, Guarding
<1>5. pc'[t] = to /\ reg' = reg /\ \A u \in Threads : u # t => pc'[u] = pc[u]
  BY <1>1 DEF Inv, TypeOK
<1>t. ~term
  BY <1>1 DEF Inv, Initialized
<1>6. Locked'
  <2>1. \A u \in Threads, x \in Mutexes : u # t \/ x # gcs => InBody(u, x)' = InBody(u, x)
    BY <1>1, <1>5 DEF InBody, Guarding
  <2>2. ~InBody(t, gcs) /\ InBody(t, gcs)'
    BY <1>1, <1>5 DEF InBody, Guarding
  <2>3. mutex[gcs].init
    BY <1>t DEF Inv, Initialized
  <2>4. \A u \in Threads, y \in Mutexes :
           Depth(u, y)' = Depth(u, y) + IF u = t /\ y = gcs THEN 1 ELSE 0
    BY <1>m, <1>1, <2>1, <2>2, DepthInBody
  <2> QED
    BY <1>m, <2>3, <2>4, LockedMore
<1>7. Initialized'
  <2>1. \A u \in Threads : pc'[u] \in {"head", "next"} <=> pc[u] \in {"head", "next"}
    BY <1>1, <1>5
  <2>2. \A c \in Sections \cup Pointers : mutex'[c] = mutex[c]
    BY <1>m, Names
  <2>3. \A x \in User : mutex'[x].init = mutex[x].init
    BY <1>m, Names
  <2> QED
    BY <1>1, <1>m, <1>3, <1>5, <1>t, <2>1, <2>2, <2>3 DEF Inv, Initialized
<1>8. Linked'
  <2>1. \A x : WalkFrom(x)' = WalkFrom(x)
    BY DEF WalkFrom, Closed, Static
  <2> QED
    BY <1>1, <1>3, <1>5, <1>t, <2>1 DEF Inv, Linked
<1> QED
  BY <1>2, <1>4, <1>6, <1>7, <1>8 DEF Inv

LEMMA InvInitSection ==
  ASSUME Inv, NEW t \in Threads, InitSection(t)
  PROVE  Inv'
<1> USE DEF InitSection, cvars, mvars, At
<1> DEFINE to == IF reg[t] \in Sections THEN "head" ELSE "next"
<1>1. /\ pc[t] = "init" /\ pc' = [pc EXCEPT ![t] = to]
      /\ to \in {"head", "next"} /\ (to = "head" <=> reg[t] \in Sections)
      /\ reg' = [reg EXCEPT ![t] = reg[t]] /\ held' = held /\ op' = op
      /\ mutex' = [mutex EXCEPT ![reg[t]] = Ready]
  BY DEF Inv, TypeOK
<1>u. UNCHANGED <<op, mvars>>
  OBVIOUS
<1> HIDE DEF to
<1>r. reg[t] \in Sections \cup Pointers /\ reg[t] \in Mutexes /\ ~Known(reg[t])
  BY <1>1, Names DEF Inv, RegsFit, Initialized, Entering, Guarding
<1>g. \A u \in Threads : pc[u] \in {"head", "next"} => FALSE
  <2>1. pc[t] \in Guarding /\ \A u \in Threads : pc[u] \in {"head", "next"} => pc[u] \in Guarding
    BY <1>1 DEF Guarding
  <2> QED
    BY <1>1, <2>1, GuardAlone
<1>m. mutex[reg[t]] = Raw
  BY <1>g, <1>r DEF Inv, Initialized
<1>2. TypeOK'
  BY <1>1, <1>r DEF Inv, TypeOK, MonitorTypeOK, Places, Ready
<1>3. \A x : Known(x)' = Known(x)
  BY DEF Known
<1>5. pc'[t] = to /\ reg' = reg /\ \A u \in Threads : u # t => pc'[u] = pc[u]
  BY <1>1 DEF Inv, TypeOK
<1>n. /\ mutex'[reg[t]] = Ready
      /\ \A x \in Mutexes : x # reg[t] => mutex'[x] = mutex[x]
  BY <1>1, <1>r DEF Inv, TypeOK
<1>4. OpsFit' /\ UsedExist' /\ RegsFit' /\ Counted' /\ WillFinalize'
  <2>1. to \in Entering /\ pc[t] \in Entering /\ to # "idle"
    BY <1>1 DEF Entering, Guarding
  <2>2. \A m \in Addresses : mutex'[m] = mutex[m]
    BY <1>n, <1>r, Names
  <2>3. /\ pc[t] \in Entering \cup {"idle"} /\ to \in Entering \cup {"idle"}
        /\ IF to = "idle" THEN reg[t] = None ELSE reg[t] \in Sections \cup Pointers
        /\ to = "head" => reg[t] \in Sections
    BY <1>1, <1>r, <2>1
  <2>4. \A u \in Threads : \A s \in Range(held'[u]) : s \in Range(held[u])
    BY <1>1
  <2> HIDE DEF InitSection, At
  <2> QED
    BY <1>1, <1>3, <2>2, <2>3, <2>4, <1>u, ObjectsSame
<1>t. ~term
  BY <1>1 DEF Inv, Initialized
<1>6. Locked'
  <2>1. ASSUME NEW u \in Threads, NEW x \in Mutexes PROVE InBody(u, x)' = InBody(u, x)
    BY <1>1, <1>5 DEF InBody, Guarding
  <2>2. ASSUME NEW x \in Mutexes
        PROVE  /\ mutex'[x].by = mutex[x].by /\ mutex'[x].depth = mutex[x].depth
               /\ mutex[x].by # None => mutex'[x].init
    BY <1>n, <1>m DEF Inv, Locked, Raw, Ready
  <2> QED
    BY <1>1, <2>1, <2>2, LockedSame
<1>7. Initialized'
  <2>1. \A x \in User \cup {gcs} : mutex'[x] = mutex[x]
    BY <1>n, <1>r, Names
  <2>2. ASSUME NEW c \in Sections \cup Pointers
        PROVE  IF Known(c) THEN term \/ mutex'[c].init
               ELSE mutex'[c] = IF \E u \in Threads : pc'[u] \in {"head", "next"} /\ reg[u] = c
                                  THEN Ready ELSE Raw
    BY <1>1, <1>5, <1>g, <1>n, <1>r, Names DEF Inv, Initialized
  <2> QED
    BY <1>1, <1>3, <1>5, <1>r, <1>t, <2>1, <2>2 DEF Inv, Initialized
<1>8. Linked'
  <2>1. \A x : WalkFrom(x)' = WalkFrom(x)
    BY DEF WalkFrom, Closed, Static
  <2>2. \A u \in Threads : pc'[u] = "next" => reg[u] \notin Sections
    BY <1>1, <1>5, <1>g
  <2> QED
    BY <1>1, <1>3, <1>5, <1>g, <1>t, <2>1, <2>2 DEF Inv, Linked
<1> QED
  BY <1>2, <1>4, <1>6, <1>7, <1>8 DEF Inv

LEMMA InvSetHead ==
  ASSUME Inv, NEW t \in Threads, SetHead(t)
  PROVE  Inv'
<1> USE DEF cvars, mvars
<1>1. /\ pc[t] = "head" /\ pc' = [pc EXCEPT ![t] = "next"]
      /\ reg' = [reg EXCEPT ![t] = reg[t]] /\ held' = held /\ op' = op /\ mutex' = mutex
      /\ head' = reg[t] /\ ohead' = head
      /\ UNCHANGED <<op, mvars>> /\ UNCHANGED <<next, made, term>>
  BY DEF Inv, TypeOK, SetHead, At
<1>r. reg[t] \in Sections
  BY <1>1 DEF Inv, RegsFit
<1>2. TypeOK'
  BY <1>1, <1>r DEF Inv, TypeOK, MonitorTypeOK, Places
<1>3. \A x : Known(x)' = Known(x)
  BY <1>1 DEF Known
<1>4. OpsFit' /\ UsedExist' /\ RegsFit' /\ Counted' /\ WillFinalize'
  <2>1. pc[t] \in Entering /\ "next" \in Entering
    BY <1>1 DEF Entering, Guarding
  <2> QED
    BY <1>1, <1>3, <1>r, <2>1, ObjectsSame
<1>5. pc'[t] = "next" /\ reg' = reg /\ \A u \in Threads : u # t => pc'[u] = pc[u]
  BY <1>1 DEF Inv, TypeOK
<1>6. Locked'
  <2>1. ASSUME NEW u \in Threads, NEW x \in Mutexes PROVE InBody(u, x)' = InBody(u, x)
    BY <1>1, <1>5 DEF InBody, Guarding
  <2> QED
    BY <1>1, <2>1, LockedSame DEF Inv, Locked
<1>7. Initialized'
  BY <1>1, <1>3, <1>5 DEF Inv, Initialized
<1>8. Linked'
  <2>1. \A x : WalkFrom(x)' = WalkFrom(x)
    BY <1>1 DEF WalkFrom, Closed, Static
  <2>2. ohead = None
    <3>1. \A u \in Threads : pc[u] # "next"
      BY <1>1, GuardAlone DEF Guarding
    <3> QED
      BY <3>1 DEF Inv, Linked
  <2>3. head # None /\ ~term
    BY <1>1, Names, CriticalAssumption DEF Inv, TypeOK, Initialized
  <2> QED
    BY <1>1, <1>3, <1>5, <1>r, <2>1, <2>2, <2>3 DEF Inv, Linked
<1> QED
  BY <1>2, <1>4, <1>6, <1>7, <1>8 DEF Inv

\* The section that has become the head leads to all others once its pointer
\* is set.
LEMMA InvSetNext ==
  ASSUME Inv, NEW t \in Threads, SetNext(t)
  PROVE  Inv'
<1> USE DEF cvars, mvars
<1>1. /\ pc[t] = "next" /\ pc' = [pc EXCEPT ![t] = "unguard"]
      /\ reg' = [reg EXCEPT ![t] = reg[t]] /\ held' = held /\ op' = op /\ mutex' = mutex
      /\ ohead' = None
      /\ UNCHANGED <<op, mvars>> /\ UNCHANGED <<head, term>>
  BY DEF Inv, TypeOK, SetNext, At
<1>r. reg[t] \in Sections \cup Pointers /\ ~Known(reg[t]) /\ ~term
  BY <1>1 DEF Inv, RegsFit, Initialized, Entering, Guarding
<1>a. \A u \in Threads : pc[u] = "next" => u = t
  BY <1>1, GuardAlone DEF Guarding
<1>b. /\ reg[t] \in Sections => /\ ohead # None /\ head = reg[t] /\ made' = made
                                /\ next' = [next EXCEPT ![reg[t]] = ohead]
      /\ reg[t] \in Pointers => ohead = None /\ next' = next /\ made' = made \cup {reg[t]}
  BY <1>1, <1>a, Names DEF Inv, Linked, SetNext
<1>2. TypeOK'
  <2>1. MonitorTypeOK'
    BY <1>1 DEF Inv, TypeOK, MonitorTypeOK
  <2>2. /\ pc' \in [Threads -> Places] /\ reg' = reg
        /\ held' = held /\ mutex' = mutex /\ head' = head /\ term' = term
    BY <1>1 DEF Inv, TypeOK, Places
  <2>3. next' \in [Sections \cup {gcs} -> Sections \cup {gcs, None}]
    BY <1>r, <1>b DEF Inv, TypeOK
  <2>4. made' \subseteq Pointers /\ ohead' = None
    BY <1>1, <1>r, <1>b DEF Inv, TypeOK
  <2> QED
    BY <2>1, <2>2, <2>3, <2>4 DEF Inv, TypeOK
<1>3. \A x \in Sections \cup Pointers : Known(x)' <=> Known(x) \/ x = reg[t]
  BY <1>r, <1>b, Names, CriticalAssumption DEF Known, Inv, TypeOK
<1>k. \A x : Known(x) => Known(x)'
  <2>1. \A x : Known(x) => x \in Sections \cup Pointers
    BY DEF Known, Inv, TypeOK
  <2> QED
    BY <1>3, <2>1
<1>4. OpsFit' /\ UsedExist' /\ RegsFit' /\ Counted' /\ WillFinalize'
  <2>1. pc[t] \in Entering /\ "unguard" \in Entering
    BY <1>1 DEF Entering, Guarding
  <2> QED
    BY <1>1, <1>k, <1>r, <2>1, ObjectsSame
<1>5. pc'[t] = "unguard" /\ reg' = reg /\ \A u \in Threads : u # t => pc'[u] = pc[u]
  BY <1>1 DEF Inv, TypeOK
<1>6. Locked'
  <2>1. ASSUME NEW u \in Threads, NEW x \in Mutexes PROVE InBody(u, x)' = InBody(u, x)
    BY <1>1, <1>5 DEF InBody, Guarding
  <2> QED
    BY <1>1, <2>1, LockedSame DEF Inv, Locked
<1>7. Initialized'
  <2>1. mutex[reg[t]] = Ready
    BY <1>1, <1>r DEF Inv, Initialized
  <2>2. \A u \in Threads : pc[u] \in {"init", "head", "next"} => u = t
    BY <1>1, GuardAlone DEF Guarding
  <2>3. \A u \in Threads : pc'[u] \notin {"init", "head", "next"}
    BY <1>5, <2>2
  <2>4. ASSUME NEW c \in Sections \cup Pointers
        PROVE  IF Known(c)' THEN term \/ mutex[c].init ELSE mutex[c] = Raw
    BY <1>1, <1>3, <1>r, <2>1, <2>2 DEF Inv, Initialized, Ready
  <2>5. \A u \in Threads : pc'[u] \in {"unguard", "cslock"} => Known(reg[u])'
    BY <1>3, <1>5, <1>r, <1>k DEF Inv, Initialized
  <2> QED
    BY <1>1, <1>5, <1>r, <2>3, <2>4, <2>5 DEF Inv, Initialized
<1>8. Linked'
  <2>1. CASE reg[t] \in Sections
    <3>1. next[reg[t]] = None /\ next \in [Static -> Static \cup {None}] /\ reg[t] \in Static
      BY <1>r, <2>1 DEF Known, Inv, TypeOK, Static
    <3>2. ASSUME NEW S \in SUBSET Static, head \in S, Closed(S)'
          PROVE  WalkFrom(ohead) \subseteq S
      <4>1. ohead \in S
        BY <1>b, <2>1, <3>1, <3>2 DEF Closed
      <4>2. Closed(S)
        BY <1>b, <2>1, <3>1, <3>2 DEF Closed
      <4> QED
        BY <4>1, <4>2 DEF WalkFrom
    <3>3. WalkFrom(ohead) \cup {head} \subseteq WalkFrom(head)'
      BY <1>1, <1>b, <2>1, <3>1, <3>2 DEF WalkFrom, Static
    <3>4. next'[gcs] = None
      BY <1>b, <2>1, Names DEF Inv, TypeOK, Linked
    <3>5. \A u \in Threads : pc'[u] # "next"
      BY <1>5, <1>a
    <3> QED
      BY <1>1, <1>3, <1>r, <1>b, <2>1, <3>3, <3>4, <3>5 DEF Inv, Linked
  <2>2. CASE reg[t] \in Pointers
    <3>1. \A x : WalkFrom(x)' = WalkFrom(x)
      BY <1>b, <2>2 DEF WalkFrom, Closed, Static
    <3>2. \A u \in Threads : pc'[u] # "next"
      BY <1>5, <1>a
    <3> QED
      BY <1>1, <1>3, <1>r, <1>b, <2>2, <3>1, <3>2, Names DEF Inv, Linked
  <2> QED
    BY <1>r, <2>1, <2>2
<1> QED
  BY <1>2, <1>4, <1>6, <1>7, <1>8 DEF Inv

LEMMA InvUnguard ==
  ASSUME Inv, NEW t \in Threads, Unguard(t)
  PROVE  Inv'
<1> USE DEF cvars, mvars
<1>1. /\ pc[t] = "unguard" /\ pc' = [pc EXCEPT ![t] = "cslock"]
      /\ reg' = [reg EXCEPT ![t] = reg[t]] /\ held' = held /\ op' = op
      /\ UNCHANGED <<op, mvars>> /\ UNCHANGED <<next, head, ohead, made, term>>
      /\ UnlockMutex(t, gcs)
  BY DEF Inv, TypeOK, Unguard, At
<1>r. reg[t] \in Sections \cup Pointers /\ Known(reg[t]) /\ ~term
  BY <1>1 DEF Inv, RegsFit, Initialized, Entering, Guarding
<1>d. gcs \in Mutexes /\ InBody(t, gcs) /\ Depth(t, gcs) > 0
  BY <1>1, Names, DepthIs DEF InBody, Guarding
<1>m. /\ mutex' \in [Mutexes -> [init : BOOLEAN, by : Threads \cup {None}, depth : Nat]]
      /\ \A y \in Mutexes : mutex'[y].init = mutex[y].init /\ (y # gcs => mutex'[y] = mutex[y])
  BY <1>1, <1>d, Owner, UnlockChanges DEF Inv
<1>2. TypeOK'
  BY <1>1, <1>m DEF Inv, TypeOK, MonitorTypeOK, Places
<1>3. \A x : Known(x)' = Known(x)
  BY <1>1 DEF Known
<1>4. OpsFit' /\ UsedExist' /\ RegsFit' /\ Counted' /\ WillFinalize'
  <2>1. pc[t] \in Entering /\ "cslock" \in Entering
    BY <1>1 DEF Entering, Guarding
  <2>2. \A m \in Addresses : mutex'[m] = mutex[m]
    BY <1>m, Names
  <2> QED
    BY <1>1, <1>3, <1>r, <2>1, <2>2, ObjectsSame
<1>5. pc'[t] = "cslock" /\ reg' = reg /\ \A u \in Threads : u # t => pc'[u] = pc[u]
  BY <1>1 DEF Inv, TypeOK
<1>6. Locked'
  <2>1. \A u \in Threads, x \in Mutexes : u # t \/ x # gcs => InBody(u, x)' = InBody(u, x)
    BY <1>1, <1>5 DEF InBody, Guarding
  <2>2. ~InBody(t, gcs)'
    BY <1>1, <1>5 DEF InBody, Guarding
  <2>3. \A u \in Threads, y \in Mutexes :
           Depth(u, y)' = Depth(u, y) - IF u = t /\ y = gcs THEN 1 ELSE 0
    BY <1>d, <1>1, <2>1, <2>2, DepthInBody
  <2> QED
    BY <1>1, <1>d, <2>3, LockedLess
<1>7. Initialized'
  <2>1. \A u \in Threads : pc'[u] \in {"head", "next"} <=> pc[u] \in {"head", "next"}
    BY <1>1, <1>5
  <2>2. \A c \in Sections \cup Pointers : mutex'[c] = mutex[c]
    BY <1>m, Names
  <2>3. \A x \in User \cup {gcs} : mutex'[x].init = mutex[x].init
    BY <1>m, Names
  <2> QED
    BY <1>1, <1>3, <1>5, <1>r, <2>1, <2>2, <2>3 DEF Inv, Initialized
<1>8. Linked'
  <2>1. \A x : WalkFrom(x)' = WalkFrom(x)
    BY <1>1 DEF WalkFrom, Closed, Static
  <2> QED
    BY <1>1, <1>3, <1>5, <1>r, <2>1 DEF Inv, Linked
<1> QED
  BY <1>2, <1>4, <1>6, <1>7, <1>8 DEF Inv

LEMMA InvLockSection ==
  ASSUME Inv, NEW t \in Threads, LockSection(t)
  PROVE  Inv'
<1> USE DEF cvars, mvars
<1>1. /\ pc[t] = "cslock" /\ pc' = [pc EXCEPT ![t] = "idle"]
      /\ reg' = [reg EXCEPT ![t] = None] /\ held' = [held EXCEPT ![t] = Append(@, reg[t])]
      /\ UNCHANGED mvars /\ UNCHANGED <<next, head, ohead, made, term>>
      /\ LockMutex(t, reg[t])
  BY DEF LockSection, Done
<1>o. op' = op
  <2>1. op[t] = NoOp
    BY <1>1 DEF Inv, OpsFit, Entering
  <2> QED
    BY <2>1 DEF LockSection, Done, Inv, TypeOK, MonitorTypeOK
<1>r. reg[t] \in Sections \cup Pointers /\ Known(reg[t]) /\ ~term /\ mutex[reg[t]].init
  BY <1>1 DEF Inv, RegsFit, Initialized, Entering
<1>x. reg[t] \in Mutexes /\ MutexOf(reg[t]) = reg[t] /\ reg[t] \notin Objects
  BY <1>r, Names DEF MutexOf
<1>m. /\ mutex' \in [Mutexes -> [init : BOOLEAN, by : Threads \cup {None}, depth : Nat]]
      /\ \A y \in Mutexes : mutex'[y].init = mutex[y].init /\ (y # reg[t] => mutex'[y] = mutex[y])
  BY <1>1, <1>x, LockChanges DEF Inv
<1>h. /\ held[t] \in Seq(Objects \cup Sections \cup Pointers)
      /\ held'[t] = Append(held[t], reg[t]) /\ \A u \in Threads : u # t => held'[u] = held[u]
      /\ held' \in [Threads -> Seq(Objects \cup Sections \cup Pointers)]
      /\ Range(held'[t]) = Range(held[t]) \cup {reg[t]}
  <2> DEFINE S == Objects \cup Sections \cup Pointers
  <2>1. held \in [Threads -> Seq(S)] /\ reg[t] \in S
    BY <1>r DEF Inv, TypeOK
  <2> HIDE DEF S
  <2>2. Append(held[t], reg[t]) \in Seq(S) /\ Range(Append(held[t], reg[t])) = Range(held[t]) \cup {reg[t]}
    BY <2>1, Appended
  <2>3. /\ held[t] \in Seq(S) /\ held'[t] = Append(held[t], reg[t])
        /\ \A u \in Threads : u # t => held'[u] = held[u]
        /\ held' \in [Threads -> Seq(S)]
    BY <1>1, <2>1, <2>2
  <2> QED
    BY <2>2, <2>3 DEF S
<1>2. TypeOK'
  BY <1>1, <1>o, <1>m, <1>h DEF Inv, TypeOK, MonitorTypeOK, Places, MonitorPlaces
<1>3. \A x : Known(x)' = Known(x)
  BY <1>1 DEF Known
<1>4. OpsFit' /\ UsedExist' /\ RegsFit' /\ Counted' /\ WillFinalize'
  <2>1. pc[t] \in Entering
    BY <1>1 DEF Entering
  <2>2. \A m \in Addresses : mutex'[m] = mutex[m]
    BY <1>m, <1>r, Names
  <2>3. \A u \in Threads : \A s \in Range(held'[u]) :
          s \in Range(held[u]) \/ (s \notin Objects /\ Known(s)')
    BY <1>h, <1>x, <1>r, <1>3
  <2> QED
    BY <1>1, <1>o, <1>3, <2>1, <2>2, <2>3, ObjectsSame
<1>5. pc'[t] = "idle" /\ reg'[t] = None
      /\ \A u \in Threads : u # t => pc'[u] = pc[u] /\ reg'[u] = reg[u]
  BY <1>1 DEF Inv, TypeOK
<1>6. Locked'
  <2>1. ASSUME NEW u \in Threads, NEW x \in Mutexes PROVE InBody(u, x)' = InBody(u, x)
    BY <1>1, <1>5 DEF InBody, Guarding
  <2>2. \A u \in Threads, y \in Mutexes :
           Depth(u, y)' = Depth(u, y) + IF u = t /\ y = reg[t] THEN 1 ELSE 0
    <3>1. reg[t] \in Objects \cup Sections \cup Pointers /\ mon' = mon
      BY <1>1, <1>r
    <3>2. \A u \in Threads, y \in Mutexes :
            Depth(u, y)' = Depth(u, y) + IF u = t /\ y = MutexOf(reg[t]) THEN 1 ELSE 0
      BY <1>1, <2>1, <3>1, DepthEntered
    <3> QED
      BY <1>x, <3>2
  <2> QED
    BY <1>1, <1>r, <1>x, <2>2, LockedMore
<1>7. Initialized'
  <2>1. \A c : (\E u \in Threads : pc'[u] \in {"head", "next"} /\ reg'[u] = c)
                 <=> \E u \in Threads : pc[u] \in {"head", "next"} /\ reg[u] = c
    BY <1>1, <1>5
  <2>2. \A c \in Sections \cup Pointers : c # reg[t] => mutex'[c] = mutex[c]
    BY <1>m, Names
  <2>3. \A x \in User \cup {gcs} \cup {reg[t]} : mutex'[x].init = mutex[x].init
    BY <1>m, <1>x, Names
  <2>4. ASSUME NEW c \in Sections \cup Pointers
        PROVE  IF Known(c) THEN term \/ mutex'[c].init
               ELSE mutex'[c] = IF \E u \in Threads : pc'[u] \in {"head", "next"} /\ reg'[u] = c
                                  THEN Ready ELSE Raw
    BY <1>r, <2>1, <2>2, <2>3 DEF Inv, Initialized
  <2>5. \A u \in Threads : /\ pc'[u] \in {"init", "head", "next"} => ~Known(reg'[u])
                           /\ pc'[u] \in {"unguard", "cslock"} => Known(reg'[u])
                           /\ pc'[u] = "gone" => term
    BY <1>5 DEF Inv, Initialized
  <2> QED
    BY <1>1, <1>3, <1>r, <2>3, <2>4, <2>5 DEF Inv, Initialized, Known
<1>8. Linked'
  <2>1. \A x : WalkFrom(x)' = WalkFrom(x)
    BY <1>1 DEF WalkFrom, Closed, Static
  <2>2. \A u \in Threads : pc'[u] = "next" <=> pc[u] = "next"
    BY <1>1, <1>5
  <2>3. \A u \in Threads : pc[u] = "next" => reg'[u] = reg[u]
    BY <1>1, <1>5
  <2> QED
    BY <1>1, <1>3, <1>r, <2>1, <2>2, <2>3 DEF Inv, Linked
<1> QED
  BY <1>2, <1>4, <1>6, <1>7, <1>8 DEF Inv

LEMMA InvCriticalExit ==
  ASSUME Inv, NEW t \in Threads, CriticalExit(t)
  PROVE  Inv'
<1> USE DEF cvars, mvars, tvars
<1> DEFINE c == Last(held[t])
<1>1. /\ pc[t] = "idle" /\ held[t] # <<>> /\ c \in Sections \cup Pointers
      /\ pc' = [pc EXCEPT ![t] = "idle"] /\ op' = op
      /\ reg' = [reg EXCEPT ![t] = None] /\ held' = [held EXCEPT ![t] = Front(@)]
      /\ UNCHANGED mvars /\ UNCHANGED <<next, head, ohead, made, term>>
      /\ UnlockMutex(t, c)
  <2>1. pc[t] = "idle" /\ reg[t] = None
    BY DEF CriticalExit, Inv, RegsFit
  <2> QED
    BY <2>1 DEF CriticalExit, Inv, TypeOK
<1>h. /\ held[t] \in Seq(Objects \cup Sections \cup Pointers)
      /\ held'[t] = Front(held[t]) /\ \A u \in Threads : u # t => held'[u] = held[u]
      /\ held' \in [Threads -> Seq(Objects \cup Sections \cup Pointers)]
      /\ Range(held'[t]) \subseteq Range(held[t]) /\ c \in Range(held[t])
  BY <1>1, FrontLast DEF Inv, TypeOK
<1> HIDE DEF c
<1>x. c \in Mutexes /\ MutexOf(c) = c
  BY <1>1, Names DEF MutexOf
<1>d. /\ mutex[c].by = t /\ mutex[c].depth > 0 /\ mutex[c].init /\ Depth(t, c) > 0
      /\ Known(c) /\ ~term
  <2>1. mutex[c].by = t /\ mutex[c].depth > 0 /\ mutex[c].init
    BY <1>h, <1>x, Owner
  <2>2. Depth(t, c) > 0
    BY <1>x, <2>1 DEF Inv, Locked
  <2> QED
    BY <1>1, <1>h, <2>1, <2>2, Names DEF Inv, UsedExist, Initialized
<1>m. /\ mutex' \in [Mutexes -> [init : BOOLEAN, by : Threads \cup {None}, depth : Nat]]
      /\ \A y \in Mutexes : mutex'[y].init = mutex[y].init /\ (y # c => mutex'[y] = mutex[y])
  BY <1>1, <1>x, <1>d, UnlockChanges DEF Inv
<1>5. pc' = pc /\ reg' = reg
  BY DEF CriticalExit
<1>2. TypeOK'
  BY <1>1, <1>5, <1>m, <1>h DEF Inv, TypeOK, MonitorTypeOK
<1>3. \A x : Known(x)' = Known(x)
  BY <1>1 DEF Known
<1>4. OpsFit' /\ UsedExist' /\ RegsFit' /\ Counted' /\ WillFinalize'
  <2>2. \A m \in Addresses : mutex'[m] = mutex[m]
    BY <1>1, <1>m, Names
  <2>3. \A u \in Threads : \A s \in Range(held'[u]) : s \in Range(held[u])
    BY <1>h
  <2> QED
    BY <1>1, <1>3, <2>2, <2>3, ObjectsSame
<1>6. Locked'
  <2>1. ASSUME NEW u \in Threads, NEW x \in Mutexes PROVE InBody(u, x)' = InBody(u, x)
    BY <1>5 DEF InBody
  <2>2. \A u \in Threads, y \in Mutexes :
           Depth(u, y)' = Depth(u, y) - IF u = t /\ y = c THEN 1 ELSE 0
    BY <1>1, <1>x, <2>1, DepthLeft DEF c
  <2> QED
    BY <1>1, <1>d, <1>x, <2>2, LockedLess
<1>7. Initialized'
  <2>2. \A y \in Sections \cup Pointers : y # c => mutex'[y] = mutex[y]
    BY <1>m, Names
  <2>3. \A x \in User \cup {gcs} \cup {c} : mutex'[x].init = mutex[x].init
    BY <1>m, <1>x, Names
  <2>4. ASSUME NEW y \in Sections \cup Pointers
        PROVE  IF Known(y) THEN term \/ mutex'[y].init
               ELSE mutex'[y] = IF \E u \in Threads : pc[u] \in {"head", "next"} /\ reg[u] = y
                                  THEN Ready ELSE Raw
    BY <1>d, <2>2, <2>3 DEF Inv, Initialized
  <2> QED
    BY <1>1, <1>3, <1>5, <1>d, <2>3, <2>4 DEF Inv, Initialized
<1>8. Linked'
  <2>1. \A x : WalkFrom(x)' = WalkFrom(x)
    BY <1>1 DEF WalkFrom, Closed, Static
  <2> QED
    BY <1>1, <1>3, <1>5, <1>d, <2>1 DEF Inv, Linked
<1> QED
  BY <1>2, <1>4, <1>6, <1>7, <1>8 DEF Inv

\* At the end of the program nobody has a mutex, and the list has every
\* section whose mutex was initialized.
LEMMA InvCriticalTerm ==
  ASSUME Inv, CriticalTerm
  PROVE  Inv'
<1> USE DEF cvars, mvars
<1>1. /\ ~term /\ \A t \in Threads : pc[t] = "idle" /\ held[t] = <<>>
      /\ term' = TRUE /\ pc' = [t \in Threads |-> "gone"]
      /\ mutex' = [x \in Mutexes |-> IF x \in Listed THEN Raw ELSE mutex[x]]
      /\ UNCHANGED <<op, reg, held>> /\ UNCHANGED mvars /\ UNCHANGED <<next, head, ohead, made>>
  BY DEF CriticalTerm
<1>a. \A t \in Threads : pc'[t] = "gone"
  BY <1>1
<1>2. TypeOK'
  <2>1. mutex' \in [Mutexes -> [init : BOOLEAN, by : Threads \cup {None}, depth : Nat]]
    BY <1>1 DEF Inv, TypeOK, Raw
  <2> QED
    BY <1>1, <2>1 DEF Inv, TypeOK, MonitorTypeOK, Places
<1>3. \A x : Known(x)' = Known(x)
  BY <1>1 DEF Known
<1>l. Listed \subseteq Static
  BY DEF Listed, WalkFrom
<1>m. \A x \in Mutexes : x \notin Static => mutex'[x] = mutex[x]
  BY <1>1, <1>l
<1>4. OpsFit'
  BY <1>1, <1>a DEF Inv, OpsFit
<1>5. UsedExist'
  BY <1>1, <1>3 DEF Inv, UsedExist, Serving
<1>6. RegsFit'
  BY <1>1, <1>a DEF Inv, RegsFit, Entering, Guarding
<1>7. Counted'
  <2>1. ASSUME NEW m PROVE Users(m)' = Users(m)
    BY <1>1, <1>a DEF Users
  <2>2. \A m \in Addresses : mutex'[m] = mutex[m]
    BY <1>m, Names DEF Static
  <2> QED
    BY <1>1, <2>1, <2>2 DEF Inv, Counted
<1>8. WillFinalize'
  BY <1>1, <1>a DEF Inv, WillFinalize
<1>9. Locked'
  <2>1. ASSUME NEW t \in Threads, NEW x \in Mutexes
        PROVE  InBody(t, x)' = InBody(t, x)
    BY <1>1, <1>a DEF InBody, Guarding
  <2>2. ASSUME NEW x \in Mutexes PROVE mutex[x].by = None /\ mutex[x].depth = 0
    <3>1. ASSUME NEW t \in Threads PROVE Depth(t, x) = 0
      <4>1. Nested(t, x) = {} /\ ~InBody(t, x)
        BY <1>1 DEF Nested, InBody, Guarding
      <4> QED
        BY <4>1, FS_EmptySet DEF Depth
    <3>2. mutex[x].by \in Threads \cup {None}
      BY DEF Inv, TypeOK
    <3> QED
      BY <3>1, <3>2, Names DEF Inv, Locked
  <2>3. ASSUME NEW x \in Mutexes PROVE mutex'[x].by = None /\ mutex'[x].depth = 0
    BY <1>1, <2>2 DEF Raw
  <2> QED
    BY <1>1, <2>1, <2>2, <2>3, LockedSame
<1>10. Initialized'
  <2>1. \A c \in Sections \cup Pointers : ~Known(c) => mutex[c] = Raw
    BY <1>1 DEF Inv, Initialized
  <2>2. \A c \in Sections \cup Pointers : ~Known(c) => mutex'[c] = Raw
    BY <1>1, <2>1, Names
  <2> QED
    BY <1>1, <1>3, <1>a, <2>2 DEF Inv, Initialized
<1>11. Linked'
  <2>1. \A x : WalkFrom(x)' = WalkFrom(x)
    BY <1>1 DEF WalkFrom, Closed, Static
  <2>2. ohead = None
    BY <1>1 DEF Inv, Linked
  <2>3. ASSUME NEW c \in Sections PROVE ~mutex'[c].init
    <3>1. CASE Known(c)
      <4>1. c \in Listed /\ c \in Mutexes
        BY <2>2, <3>1, Names DEF Inv, Linked, Listed
      <4> QED
        BY <1>1, <4>1 DEF Raw
    <3>2. CASE ~Known(c)
      <4>1. mutex[c] = Raw /\ c \in Mutexes
        BY <1>1, <3>2, Names DEF Inv, Initialized
      <4> QED
        BY <1>1, <4>1 DEF Raw
    <3> QED
      BY <3>1, <3>2
  <2> QED
    BY <1>1, <1>3, <1>a, <2>1, <2>2, <2>3 DEF Inv, Linked
<1> QED
  BY <1>2, <1>4, <1>5, <1>6, <1>7, <1>8, <1>9, <1>10, <1>11 DEF Inv

-----------------------------------------------------------------------------
(* The steps of Monitor *)

\* An object that nobody uses is made, or goes without a monitor.
LEMMA InvUnused ==
  ASSUME Inv, ~term, NEW h \in Objects, NEW x \in User \cup {None},
         ~InUse(h), h \in alive => mon[h] \notin Addresses,
         \/ alive' = alive \cup {h} /\ (h \in Dtor => h \in fin')
         \/ alive' = alive \ {h},
         mon' = [mon EXCEPT ![h] = x], fin' \subseteq Objects, fin \ {h} \subseteq fin',
         UNCHANGED <<tvars, held, refs, devt, used, mutex, cvars>>
  PROVE  Inv'
<1> USE DEF tvars
<1>1. \A t \in Threads : h # op[t].h /\ h # op[t].arg /\ h \notin Range(held[t])
  BY DEF InUse
<1>2. /\ \A g \in Objects : g # h => mon'[g] = mon[g] /\ (g \in alive' <=> g \in alive)
      /\ mon'[h] \notin Addresses
      /\ alive \subseteq Objects /\ alive' \subseteq Objects
      /\ mon' \in [Objects -> Addresses \cup User \cup {None}]
  BY Names DEF Inv, TypeOK, MonitorTypeOK
<1>3. TypeOK'
  BY <1>2 DEF Inv, TypeOK, MonitorTypeOK, cvars
<1>4. OpsFit'
  BY DEF Inv, OpsFit
<1>k. \A c : Known(c)' = Known(c)
  BY DEF Known, cvars
<1>o. \A t \in Threads : /\ op[t].kind \in {"attach", "detach", "enter", "same"} => op[t].h \in Objects
                         /\ op[t].kind = "same" => op[t].arg \in Objects
                         /\ op[t].h \in Objects \cup {None}
  BY DEF Inv, UsedExist, Serving, TypeOK, MonitorTypeOK
<1>5. UsedExist'
  <2>1. \A t \in Threads : \A s \in Range(held[t]) :
          IF s \in Objects THEN s \in alive' /\ mon'[s] # None ELSE Known(s)
    BY <1>1, <1>2 DEF Inv, UsedExist
  <2>2. \A t \in Threads : op[t].kind = "delete" => op[t].h \notin alive'
    BY <1>1, <1>2 DEF Inv, UsedExist
  <2> QED
    BY <1>1, <1>2, <1>k, <1>o, <2>1, <2>2 DEF Inv, UsedExist, Serving
<1>6. RegsFit'
  <2>1. ASSUME NEW t \in Threads, Private(t) PROVE Private(t)'
    <3>1. reg[t] \in Addresses
      BY <2>1 DEF Private, Inv, TypeOK, MonitorTypeOK
    <3> QED
      BY <1>2, <2>1, <3>1 DEF Private
  <2>2. ASSUME NEW t \in Threads,
               pc[t] \in {"publish", "attr", "lose", "lock", "body", "share", "link"}
        PROVE  mon'[op[t].h] = mon[op[t].h]
    BY <1>1, <1>2, <2>2, AtWork
  <2> QED
    BY <2>1, <2>2 DEF Inv, RegsFit
<1>7. Counted'
  <2>1. ASSUME NEW m \in Addresses PROVE Users(m)' = Users(m)
    <3>1. {g \in alive' : mon'[g] = m} = {g \in alive : mon[g] = m}
      BY <1>2
    <3> QED
      BY <3>1 DEF Users
  <2> QED
    BY <2>1 DEF Inv, Counted
<1>8. WillFinalize'
  BY <1>1, <1>2 DEF Inv, WillFinalize
<1>9. Locked'
  <2>1. \A t \in Threads : \A s \in Range(held[t]) : s \in Objects => mon'[s] = mon[s]
    BY <1>1, <1>2
  <2>2. \A t \in Threads, y \in Mutexes : InBody(t, y)' = InBody(t, y)
    BY DEF InBody
  <2> QED
    BY <2>1, <2>2, LockedSame DEF Inv, Locked
<1>10. Initialized' /\ Linked'
  BY SectionsSame
<1> QED
  BY <1>3, <1>4, <1>5, <1>6, <1>7, <1>8, <1>9, <1>10 DEF Inv

LEMMA InvNewSweep ==
  ASSUME Inv, ~term, NEW h \in Objects, New(h) \/ Sweep(h), UNCHANGED cvars
  PROVE  Inv'
<1>0. fin \subseteq Objects
  BY DEF Inv, TypeOK, MonitorTypeOK
<1>1. CASE New(h)
  <2>1. /\ h \notin alive /\ ~InUse(h) /\ alive' = alive \cup {h}
        /\ fin' \subseteq Objects /\ fin \ {h} \subseteq fin' /\ (h \in Dtor => h \in fin')
        /\ UNCHANGED <<tvars, held, refs, devt, used, mutex, cvars>>
    BY <1>0, <1>1 DEF New
  <2>2. PICK x \in User \cup {None} : mon' = [mon EXCEPT ![h] = x]
    BY <1>1 DEF New
  <2> QED
    BY <2>1, <2>2, InvUnused
<1>2. CASE Sweep(h)
  <2>1. /\ h \in alive /\ ~InUse(h) /\ alive' = alive \ {h} /\ fin' = fin
        /\ mon' = [mon EXCEPT ![h] = None]
        /\ UNCHANGED <<tvars, held, refs, devt, used, mutex, cvars>>
    BY <1>2 DEF Sweep
  <2>2. mon[h] \notin Addresses
    BY <1>2 DEF Sweep, InUse, Inv, WillFinalize
  <2> QED
    BY <1>0, <2>1, <2>2, InvUnused
<1> QED
  BY <1>1, <1>2

\* The share of an object that is finalized goes to the operation.
LEMMA InvFinalize ==
  ASSUME Inv, ~term, NEW t \in Threads, NEW h \in Objects, Finalize(t, h), UNCHANGED cvars
  PROVE  Inv'
<1>0. fin \subseteq Objects /\ alive \subseteq Objects /\ used \subseteq Addresses
  BY DEF Inv, TypeOK, MonitorTypeOK
<1>1. CASE mon[h] \notin Addresses
  <2>1. /\ ~InUse(h) /\ alive' = alive \ {h} /\ fin' = fin /\ mon' = [mon EXCEPT ![h] = None]
        /\ UNCHANGED <<tvars, held, refs, devt, used, mutex, cvars>>
    BY <1>1 DEF Finalize
  <2> QED
    BY <1>0, <1>1, <2>1, InvUnused
<1>2. CASE mon[h] \in Addresses
  <2> DEFINE m == mon[h]
             o == [kind |-> "delete", h |-> h, arg |-> None]
  <2>1. /\ pc[t] = "idle" /\ h \in alive /\ ~InUse(h) /\ alive' = alive \ {h}
        /\ pc' = [pc EXCEPT ![t] = "unref"] /\ op' = [op EXCEPT ![t] = o]
        /\ reg' = [reg EXCEPT ![t] = m]
        /\ UNCHANGED <<mon, held, refs, devt, used, mutex, fin, cvars>>
    BY <1>2 DEF Finalize
  <2>o. o.kind = "delete" /\ o.h = h /\ o \in [kind : Kinds, h : Objects \cup {None}, arg : Objects \cup Events \cup {None}]
    BY DEF Kinds
  <2> HIDE DEF o
  <2>2. /\ pc'[t] = "unref" /\ op'[t] = o /\ reg'[t] = m /\ m \in Mutexes
        /\ \A u \in Threads : u # t => pc'[u] = pc[u] /\ op'[u] = op[u] /\ reg'[u] = reg[u]
        /\ reg[t] = None
    BY <1>2, <2>1, Names DEF Inv, TypeOK, MonitorTypeOK, RegsFit
  <2>3. \A u \in Threads : h # op[u].h /\ h # op[u].arg /\ h \notin Range(held[u])
    BY <2>1 DEF InUse
  <2>4. TypeOK'
    BY <1>0, <2>1, <2>2, <2>o DEF Inv, TypeOK, MonitorTypeOK, Places, MonitorPlaces, cvars
  <2>5. OpsFit'
    BY <2>2, <2>o DEF Inv, OpsFit, Entering, Guarding
  <2>k. \A c : Known(c)' = Known(c)
    BY <2>1 DEF Known, cvars
  <2>6. UsedExist'
    <3>1. \A u \in Threads : \A s \in Range(held'[u]) :
            IF s \in Objects THEN s \in alive' /\ mon'[s] # None ELSE Known(s)'
      BY <2>1, <2>3, <2>k DEF Inv, UsedExist
    <3>2. ASSUME NEW u \in Threads, op'[u].kind = "same"
          PROVE  /\ op'[u].arg \in alive' /\ mon'[op'[u].arg] = None
                 /\ \A v \in Threads :
                      /\ op'[u].arg # op'[v].h /\ op'[u].arg \notin Range(held'[v])
                      /\ op'[v].kind = "same" /\ v # u => op'[u].arg # op'[v].arg
      <4>1. u # t
        BY <2>2, <2>o, <3>2
      <4> QED
        BY <2>1, <2>2, <2>3, <2>o, <3>2, <4>1 DEF Inv, UsedExist
    <3>3. ASSUME NEW u \in Threads, op'[u].kind = "delete"
          PROVE  /\ op'[u].h \notin alive'
                 /\ \A v \in Threads : op'[v].kind = "delete" /\ v # u => op'[u].h # op'[v].h
      BY <2>1, <2>2, <2>3, <2>o, <3>3 DEF Inv, UsedExist
    <3>4. \A u \in Threads : /\ Serving(u)' => op'[u].h \in alive'
                             /\ op'[u].kind \in {"attach", "detach"} => mon'[op'[u].h] \notin User
      BY <2>1, <2>2, <2>3, <2>o DEF Inv, UsedExist, Serving
    <3> QED
      BY <3>1, <3>2, <3>3, <3>4 DEF UsedExist
  <2>7. RegsFit'
    <3>1. ASSUME NEW u \in Threads, u # t, Private(u) PROVE Private(u)'
      BY <2>1, <2>2, <3>1 DEF Private
    <3> QED
      BY <1>2, <2>1, <2>2, <3>1 DEF Inv, RegsFit, Entering, Guarding
  <2>8. Counted'
    <3>1. ASSUME NEW n PROVE Users(n)' = Users(n)
      <4>1. ASSUME NEW g PROVE g \in Users(n)' <=> g \in Users(n)
        <5>1. (\E u \in Threads : pc'[u] = "link" /\ reg'[u] = n /\ op'[u].arg = g)
                <=> \E u \in Threads : pc[u] = "link" /\ reg[u] = n /\ op[u].arg = g
          BY <2>1, <2>2
        <5>2. (\E u \in Threads : pc'[u] = "unref" /\ reg'[u] = n /\ op'[u].h = g)
                <=> \/ \E u \in Threads : pc[u] = "unref" /\ reg[u] = n /\ op[u].h = g
                    \/ m = n /\ h = g
          BY <2>1, <2>2, <2>o
        <5>3. (g \in alive' /\ mon'[g] = n) \/ (m = n /\ h = g) <=> g \in alive /\ mon[g] = n
          BY <2>1
        <5> QED
          BY <5>1, <5>2, <5>3 DEF Users
      <4> QED
        BY <4>1
    <3>2. \A n \in Addresses : (\E u \in Threads : reg[u] = n) => \E u \in Threads : reg'[u] = n
      BY <2>2, Names
    <3> QED
      BY <2>1, <3>1, <3>2 DEF Inv, Counted
  <2>9. WillFinalize'
    BY <2>1, <2>2, <2>3 DEF Inv, WillFinalize
  <2>10. Locked'
    <3>1. \A u \in Threads, y \in Mutexes : InBody(u, y)' = InBody(u, y)
      BY <2>1, <2>2 DEF InBody, Guarding
    <3> QED
      BY <2>1, <3>1, LockedSame DEF Inv, Locked
  <2>11. Initialized' /\ Linked'
    BY <2>1, <2>2, SectionsSame DEF MonitorPlaces
  <2> QED
    BY <2>4, <2>5, <2>6, <2>7, <2>8, <2>9, <2>10, <2>11 DEF Inv
<1> QED
  BY <1>1, <1>2

\* Nobody has the mutex of a monitor whose last user is being finalized.
LEMMA LastReady ==
  ASSUME Inv, NEW m \in Addresses, NEW h, h \notin alive, h \in Users(m),
         \A g \in Users(m) : g = h
  PROVE  mutex[m] = Ready
<1>1. mutex[m].init /\ m \in Mutexes
  BY Names DEF Inv, Counted
<1>2. ASSUME NEW t \in Threads PROVE Depth(t, m) = 0
  <2>1. ~InBody(t, m)
    <3>1. m # gcs
      BY Names
    <3>2. pc[t] = "body" => reg[t] # m
      BY AtWork
    <3> QED
      BY <3>1, <3>2 DEF InBody
  <2>2. ASSUME NEW i \in DOMAIN held[t], MutexOf(held[t][i]) = m PROVE FALSE
    <3>1. held[t][i] \in Range(held[t]) /\ held[t][i] \in Objects \cup Sections \cup Pointers
      BY DEF Range, Inv, TypeOK
    <3>2. held[t][i] \in Objects /\ mon[held[t][i]] = m
      BY <2>2, <3>1, Names DEF MutexOf
    <3>3. held[t][i] \in alive
      BY <3>1, <3>2 DEF Inv, UsedExist
    <3> QED
      BY <3>2, <3>3, UsersAre
  <2>3. Nested(t, m) = {}
    BY <2>2 DEF Nested
  <2> QED
    BY <2>1, <2>3, FS_EmptySet DEF Depth
<1>3. mutex[m] \in [init : BOOLEAN, by : Threads \cup {None}, depth : Nat]
  BY <1>1 DEF Inv, TypeOK
<1>4. mutex[m].by = None /\ mutex[m].depth = 0
  BY <1>1, <1>2, <1>3, Names DEF Inv, Locked
<1> QED
  BY <1>1, <1>3, <1>4 DEF Ready

LEMMA InvUnref ==
  ASSUME Inv, ~term, NEW t \in Threads, Unref(t), UNCHANGED cvars
  PROVE  Inv'
<1>a. PICK m, h : m = reg[t] /\ h = op[t].h
  OBVIOUS
<1> DEFINE last == refs[m] - 1 = 0
<1>1. /\ pc[t] = "unref" /\ m \in Addresses /\ h \in Users(m) /\ h \in Objects /\ h \notin alive
      /\ op[t].kind = "delete" /\ m \in Mutexes
  BY <1>a, AtWork, Names DEF Unref, Inv, OpsFit, UsedExist
<1>2. /\ m \in used /\ refs[m] = Cardinality(Users(m)) /\ mutex[m].init
      /\ refs \in [Addresses -> Nat] /\ refs[m] \in Nat /\ IsFiniteSet(Users(m))
      /\ Cardinality(Users(m) \ {h}) = refs[m] - 1 /\ refs[m] - 1 \in Nat
      /\ IsFiniteSet(Users(m) \ {h})
  <2>1. m \in used /\ refs[m] = Cardinality(Users(m)) /\ mutex[m].init
    BY <1>1 DEF Inv, Counted
  <2>2. refs \in [Addresses -> Nat] /\ IsFiniteSet(Users(m))
    BY UsersFinite DEF Inv, TypeOK, MonitorTypeOK
  <2>3. Cardinality(Users(m) \ {h}) = Cardinality(Users(m)) - 1 /\ IsFiniteSet(Users(m) \ {h})
    BY <1>1, <2>2, FS_RemoveElement
  <2>4. Cardinality(Users(m) \ {h}) \in Nat
    BY <2>3, FS_CardinalityType
  <2> QED
    BY <1>1, <2>1, <2>2, <2>3, <2>4
<1>3. /\ refs' = [refs EXCEPT ![m] = refs[m] - 1] /\ refs'[m] = refs[m] - 1
      /\ UNCHANGED <<held, devt, used, mutex, alive, fin, cvars>>
  BY <1>a, <1>1, <1>2 DEF Unref
<1>4. IF last THEN pc' = [pc EXCEPT ![t] = "dispose"] /\ UNCHANGED <<op, reg, mon>>
      ELSE /\ pc' = [pc EXCEPT ![t] = "idle"] /\ op' = [op EXCEPT ![t] = NoOp]
           /\ reg' = [reg EXCEPT ![t] = None] /\ mon' = [mon EXCEPT ![h] = None]
  BY <1>a, <1>3 DEF Unref, Done
<1>e. last => \A g \in Users(m) : g = h
  BY <1>2, FS_EmptySet
<1> HIDE DEF last
<1>5. /\ \A u \in Threads : u # t => pc'[u] = pc[u] /\ op'[u] = op[u] /\ reg'[u] = reg[u]
      /\ last => pc'[t] = "dispose" /\ op'[t] = op[t] /\ reg'[t] = m /\ mon' = mon
      /\ ~last => pc'[t] = "idle" /\ op'[t] = NoOp /\ reg'[t] = None
      /\ op[t].h = h /\ reg[t] = m
      /\ \A g \in Objects : g # h => mon'[g] = mon[g]
      /\ mon' \in [Objects -> Addresses \cup User \cup {None}]
      /\ alive \subseteq Objects
  BY <1>a, <1>1, <1>4 DEF Inv, TypeOK, MonitorTypeOK
<1>6. \A u \in Threads : u # t => /\ op[u].kind = "delete" => op[u].h # h
                                  /\ op[u].kind = "same" => op[u].arg # h
                                  /\ Serving(u) => op[u].h # h
  BY <1>1, <1>5 DEF Inv, UsedExist
<1>7. TypeOK'
  <2>1. NoOp \in [kind : Kinds, h : Objects \cup {None}, arg : Objects \cup Events \cup {None}]
    BY DEF NoOp, Kinds
  <2>2. refs' \in [Addresses -> Nat]
    BY <1>2, <1>3
  <2>3. /\ pc' \in [Threads -> Places] /\ reg' \in [Threads -> Mutexes \cup {None}]
        /\ op' \in [Threads -> [kind : Kinds, h : Objects \cup {None}, arg : Objects \cup Events \cup {None}]]
    <3>1. CASE last
      BY <1>4, <3>1 DEF Inv, TypeOK, MonitorTypeOK, Places, MonitorPlaces
    <3>2. CASE ~last
      <4> DEFINE O == [kind : Kinds, h : Objects \cup {None}, arg : Objects \cup Events \cup {None}]
      <4>1. op \in [Threads -> O] /\ NoOp \in O
        BY <2>1 DEF Inv, TypeOK, MonitorTypeOK
      <4> HIDE DEF O
      <4>2. op' \in [Threads -> O]
        BY <1>4, <3>2, <4>1
      <4>3. pc' \in [Threads -> Places] /\ reg' \in [Threads -> Mutexes \cup {None}]
        BY <1>4, <3>2 DEF Inv, TypeOK, Places, MonitorPlaces
      <4> QED
        BY <4>2, <4>3 DEF O
    <3> QED
      BY <3>1, <3>2
  <2> QED
    BY <1>3, <1>5, <2>2, <2>3 DEF Inv, TypeOK, MonitorTypeOK, cvars
<1>8. OpsFit'
  BY <1>1, <1>5 DEF Inv, OpsFit, Entering, Guarding
<1>k. \A c : Known(c)' = Known(c)
  BY <1>3 DEF Known, cvars
<1>9. UsedExist'
  <2>0. NoOp.kind = "none" /\ NoOp.h = None /\ NoOp.arg = None
    BY DEF NoOp
  <2>1. \A u \in Threads : \A s \in Range(held'[u]) :
          IF s \in Objects THEN s \in alive' /\ mon'[s] # None ELSE Known(s)'
    BY <1>1, <1>3, <1>5, <1>k DEF Inv, UsedExist
  <2>2. ASSUME NEW u \in Threads, op'[u].kind = "same"
        PROVE  /\ op'[u].arg \in alive' /\ mon'[op'[u].arg] = None
               /\ \A v \in Threads :
                    /\ op'[u].arg # op'[v].h /\ op'[u].arg \notin Range(held'[v])
                    /\ op'[v].kind = "same" /\ v # u => op'[u].arg # op'[v].arg
    <3>1. u # t /\ op[u].kind = "same" /\ op'[u] = op[u]
      BY <1>1, <1>5, <2>0, <2>2
    <3>2. op[u].arg \in alive /\ op[u].arg # None /\ op[u].arg # h
      BY <1>1, <1>5, <3>1, Names DEF Inv, UsedExist
    <3> QED
      BY <1>3, <1>5, <2>0, <3>1, <3>2 DEF Inv, UsedExist
  <2>3. ASSUME NEW u \in Threads, op'[u].kind = "delete"
        PROVE  /\ op'[u].h \notin alive'
               /\ \A v \in Threads : op'[v].kind = "delete" /\ v # u => op'[u].h # op'[v].h
    BY <1>3, <1>5, <2>0, <2>3 DEF Inv, UsedExist
  <2>4. ASSUME NEW u \in Threads
        PROVE  /\ Serving(u)' => op'[u].h \in alive'
               /\ op'[u].kind \in {"attach", "detach"} => mon'[op'[u].h] \notin User
    <3>1. Serving(u)' => u # t /\ Serving(u) /\ op'[u] = op[u]
      BY <1>1, <1>5, <2>0 DEF Serving
    <3>2. op'[u].kind \in {"attach", "detach"} => Serving(u)'
      BY DEF Serving
    <3> QED
      BY <1>3, <1>5, <1>6, <3>1, <3>2 DEF Inv, UsedExist
  <2> QED
    BY <2>1, <2>2, <2>3, <2>4 DEF UsedExist
<1>u. /\ Users(m)' = Users(m) \ {h}
      /\ \A n : n # m => Users(n)' = Users(n)
  <2>1. ASSUME NEW n, NEW g
        PROVE  g \in Users(n)' <=> g \in Users(n) /\ (n # m \/ g # h)
    <3>1. (\E u \in Threads : pc'[u] = "link" /\ reg'[u] = n /\ op'[u].arg = g)
            <=> \E u \in Threads : pc[u] = "link" /\ reg[u] = n /\ op[u].arg = g
      BY <1>1, <1>5
    <3>2. (\E u \in Threads : pc'[u] = "unref" /\ reg'[u] = n /\ op'[u].h = g)
            <=> \E u \in Threads : u # t /\ pc[u] = "unref" /\ reg[u] = n /\ op[u].h = g
      BY <1>1, <1>5
    <3>3. g \in alive' /\ mon'[g] = n <=> g \in alive /\ mon[g] = n
      BY <1>1, <1>3, <1>5
    <3>4. (g \in alive /\ mon[g] = n) => g # h
      BY <1>1
    <3>5. (\E u \in Threads : pc[u] = "link" /\ reg[u] = n /\ op[u].arg = g) => g # h
      BY <1>1, <1>6 DEF Inv, OpsFit
    <3>6. (\E u \in Threads : pc[u] = "unref" /\ reg[u] = n /\ op[u].h = g)
            <=> \/ \E u \in Threads : u # t /\ pc[u] = "unref" /\ reg[u] = n /\ op[u].h = g
                \/ n = m /\ g = h
      BY <1>1, <1>5
    <3>7. (\E u \in Threads : u # t /\ pc[u] = "unref" /\ reg[u] = n /\ op[u].h = g) => g # h
      BY <1>6 DEF Inv, OpsFit
    <3> QED
      BY <3>1, <3>2, <3>3, <3>4, <3>5, <3>6, <3>7 DEF Users
  <2> QED
    BY <2>1
<1>10. RegsFit'
  <2>1. ASSUME NEW u \in Threads, u # t, Private(u) PROVE Private(u)'
    <3>1. reg[u] # None
      BY <2>1, Names DEF Private, Inv, TypeOK, MonitorTypeOK
    <3> QED
      BY <1>1, <1>3, <1>5, <2>1, <3>1 DEF Private
  <2>2. ASSUME last PROVE Private(t)'
    <3>1. mutex[m] = Ready
      BY <1>1, <1>e, <2>2, LastReady
    <3>2. \A g \in alive : mon[g] # m
      BY <1>1, <1>e, <2>2, UsersAre
    <3>3. ASSUME NEW u \in Threads, u # t PROVE reg[u] # m
      <4>1. SUFFICES ASSUME reg[u] = m PROVE FALSE
        OBVIOUS
      <4>2. pc[u] \in {"publish", "lose", "dispose"} => FALSE
        BY <1>5, <3>3, <4>1 DEF Inv, RegsFit, Private
      <4>3. pc[u] \in {"attr", "lock", "body", "share", "link"} => FALSE
        BY <1>1, <1>e, <2>2, <4>1, AtWork
      <4>4. pc[u] = "unref" => FALSE
        BY <1>1, <1>5, <1>6, <1>e, <2>2, <3>3, <4>1, AtWork DEF Inv, OpsFit
      <4>5. pc[u] \in {"idle", "gone"} \cup Entering => FALSE
        BY <1>1, <4>1, Names DEF Inv, RegsFit
      <4> QED
        BY <4>2, <4>3, <4>4, <4>5 DEF Inv, TypeOK, Places, MonitorPlaces, Entering, Guarding
    <3> QED
      BY <1>2, <1>3, <1>5, <2>2, <3>1, <3>2, <3>3 DEF Private
  <2>3. ASSUME NEW u \in Threads, u # t,
               pc[u] \in {"publish", "attr", "lose", "lock", "body", "share", "link"}
        PROVE  mon'[op'[u].h] = mon[op[u].h]
    BY <1>5, <1>6, <2>3, AtWork
  <2> QED
    BY <1>1, <1>5, <2>1, <2>2, <2>3 DEF Inv, RegsFit, Entering, Guarding
<1>11. Counted'
  <2>1. ASSUME NEW n \in Addresses, n # m
        PROVE  (\E u \in Threads : reg[u] = n) => \E u \in Threads : reg'[u] = n
    BY <1>5, <2>1
  <2>2. ~last => Users(m)' # {}
    <3>1. ~last => Cardinality(Users(m) \ {h}) # 0
      BY <1>2 DEF last
    <3> QED
      BY <1>u, <3>1, FS_EmptySet
  <2>3. last => \E u \in Threads : reg'[u] = m
    BY <1>5
  <2>4. refs'[m] = Cardinality(Users(m)')
    BY <1>2, <1>3, <1>u
  <2>5. \A n \in Addresses : n # m => refs'[n] = refs[n]
    BY <1>2, <1>3
  <2>6. ASSUME NEW n \in Addresses
        PROVE  /\ Users(n)' # {} => n \in used' /\ refs'[n] = Cardinality(Users(n)') /\ mutex'[n].init
               /\ n \in used' => Users(n)' # {} \/ \E u \in Threads : reg'[u] = n
               /\ n \notin used' => mutex'[n] = Raw
    <3>1. CASE n = m
      BY <1>1, <1>2, <1>3, <2>2, <2>3, <2>4, <3>1
    <3>2. CASE n # m
      BY <1>3, <1>u, <2>1, <2>5, <3>2 DEF Inv, Counted
    <3> QED
      BY <3>1, <3>2
  <2> QED
    BY <2>6 DEF Counted
<1>12. WillFinalize'
  BY <1>1, <1>3, <1>5 DEF Inv, WillFinalize
<1>13. Locked'
  <2>1. \A u \in Threads, y \in Mutexes : InBody(u, y)' = InBody(u, y)
    BY <1>1, <1>5 DEF InBody, Guarding
  <2>2. \A u \in Threads : \A s \in Range(held[u]) : s \in Objects => mon'[s] = mon[s]
    BY <1>1, <1>5 DEF Inv, UsedExist
  <2> QED
    BY <1>3, <2>1, <2>2, LockedSame DEF Inv, Locked
<1>14. Initialized' /\ Linked'
  <2>1. \A u \in Threads : (pc'[u] = pc[u] /\ reg'[u] = reg[u])
                              \/ (pc[u] \in MonitorPlaces /\ pc'[u] \in MonitorPlaces)
    BY <1>1, <1>5 DEF MonitorPlaces
  <2> QED
    BY <1>3, <2>1, SectionsSame
<1> QED
  BY <1>7, <1>8, <1>9, <1>10, <1>11, <1>12, <1>13, <1>14 DEF Inv

\* Nothing that is used goes away.
LEMMA UsedLess ==
  ASSUME Inv, alive' = alive, UNCHANGED cvars,
         \A u \in Threads : op'[u] = op[u] \/ op'[u] = NoOp,
         \A u \in Threads : \A s \in Range(held'[u]) :
           \/ s \in Range(held[u])
           \/ /\ s \in alive /\ mon[s] # None
              /\ \A v \in Threads : op[v].kind = "same" => op[v].arg # s,
         \A g \in alive :
           \/ mon'[g] = mon[g]
           \/ /\ mon'[g] # None
              /\ \A u \in Threads : op'[u].kind = "same" => op'[u].arg # g
              /\ mon'[g] \in User => \A u \in Threads : op'[u].h # g
  PROVE  UsedExist'
<1>0. NoOp.kind = "none" /\ NoOp.h = None /\ NoOp.arg = None
  BY DEF NoOp
<1>k. \A c : Known(c)' = Known(c)
  BY DEF Known, cvars
<1>o. alive \subseteq Objects /\ None \notin alive
  BY Names DEF Inv, TypeOK, MonitorTypeOK
<1>1. \A u \in Threads : \A s \in Range(held'[u]) :
        IF s \in Objects THEN s \in alive' /\ mon'[s] # None ELSE Known(s)'
  BY <1>k, <1>o DEF Inv, UsedExist
<1>2. ASSUME NEW u \in Threads, op'[u].kind = "same"
      PROVE  /\ op'[u].arg \in alive' /\ mon'[op'[u].arg] = None
             /\ \A v \in Threads :
                  /\ op'[u].arg # op'[v].h /\ op'[u].arg \notin Range(held'[v])
                  /\ op'[v].kind = "same" /\ v # u => op'[u].arg # op'[v].arg
  <2>1. op'[u] = op[u] /\ op[u].kind = "same"
    BY <1>0, <1>2
  <2>2. op[u].arg \in alive /\ mon'[op[u].arg] = None
    BY <1>2, <2>1 DEF Inv, UsedExist
  <2>3. ASSUME NEW v \in Threads
        PROVE  /\ op'[u].arg # op'[v].h
               /\ op'[v].kind = "same" /\ v # u => op'[u].arg # op'[v].arg
    BY <1>0, <1>o, <2>1, <2>2 DEF Inv, UsedExist
  <2>4. ASSUME NEW v \in Threads PROVE op'[u].arg \notin Range(held'[v])
    BY <2>1 DEF Inv, UsedExist
  <2> QED
    BY <2>1, <2>2, <2>3, <2>4
<1>3. ASSUME NEW u \in Threads, op'[u].kind = "delete"
      PROVE  /\ op'[u].h \notin alive'
             /\ \A v \in Threads : op'[v].kind = "delete" /\ v # u => op'[u].h # op'[v].h
  BY <1>0, <1>3 DEF Inv, UsedExist
<1>4. ASSUME NEW u \in Threads
      PROVE  /\ Serving(u)' => op'[u].h \in alive'
             /\ op'[u].kind \in {"attach", "detach"} => mon'[op'[u].h] \notin User
  <2>1. Serving(u)' => Serving(u) /\ op'[u] = op[u]
    BY <1>0 DEF Serving
  <2>2. op'[u].kind \in {"attach", "detach"} => Serving(u)'
    BY DEF Serving
  <2> QED
    BY <2>1, <2>2 DEF Inv, UsedExist
<1> QED
  BY <1>1, <1>2, <1>3, <1>4 DEF UsedExist

LEMMA UsersSame ==
  ASSUME Inv, alive' = alive,
         \A u \in Threads :
           \/ pc'[u] = pc[u] /\ reg'[u] = reg[u] /\ op'[u] = op[u]
           \/ pc[u] \notin {"unref", "link"} /\ pc'[u] \notin {"unref", "link"},
         NEW m, \A g \in alive : mon'[g] = m <=> mon[g] = m
  PROVE  Users(m)' = Users(m)
<1>1. {g \in alive' : mon'[g] = m} = {g \in alive : mon[g] = m}
  OBVIOUS
<1>2. /\ {op'[t].h : t \in {u \in Threads : pc'[u] = "unref" /\ reg'[u] = m}}
           = {op[t].h : t \in {u \in Threads : pc[u] = "unref" /\ reg[u] = m}}
      /\ {op'[t].arg : t \in {u \in Threads : pc'[u] = "link" /\ reg'[u] = m}}
           = {op[t].arg : t \in {u \in Threads : pc[u] = "link" /\ reg[u] = m}}
  OBVIOUS
<1> QED
  BY <1>1, <1>2 DEF Users

LEMMA CountedSame ==
  ASSUME Inv, UNCHANGED <<refs, used>>,
         \A m \in Addresses : Users(m)' = Users(m),
         \A m \in Addresses : mutex'[m].init = mutex[m].init /\ (m \notin used => mutex'[m] = mutex[m]),
         \A m \in Addresses : (\E u \in Threads : reg[u] = m) =>
                                (\E u \in Threads : reg'[u] = m) \/ Users(m) # {}
  PROVE  Counted'
BY DEF Inv, Counted

\* The memory of a monitor is given back, by the only one that knows it: m is
\* freed in Dispose and Lose.
LEMMA CountedFreed ==
  ASSUME Inv, NEW t \in Threads, pc[t] \in {"lose", "dispose"}, NEW m, m = reg[t],
         used' = used \ {m}, mutex' = [mutex EXCEPT ![m] = Raw], refs' = refs,
         \A n \in Addresses : Users(n)' = Users(n),
         \A u \in Threads : u # t => reg'[u] = reg[u]
  PROVE  /\ Counted' /\ Users(m) = {} /\ m \in Addresses
         /\ \A u \in Threads :
              /\ u # t /\ Private(u) /\ reg'[t] # reg[u] /\ \A g \in alive' : mon'[g] # reg[u]
              => Private(u)'
<1>1. m \in Addresses /\ Private(t) /\ m \in Mutexes
  BY AtWork, Names DEF Inv, RegsFit
<1>2. mutex'[m] = Raw /\ \A x \in Mutexes : x # m => mutex'[x] = mutex[x]
  BY <1>1 DEF Inv, TypeOK
<1>3. Users(m) = {}
  <2>1. ASSUME NEW u \in Threads, pc[u] \in {"unref", "link"} PROVE reg[u] # m
    BY <1>1, <2>1 DEF Private
  <2> QED
    BY <1>1, <2>1, UsersAre DEF Private
<1>4. ASSUME NEW n \in Addresses
      PROVE  /\ Users(n)' # {} => n \in used' /\ refs'[n] = Cardinality(Users(n)') /\ mutex'[n].init
             /\ n \in used' => Users(n)' # {} \/ \E u \in Threads : reg'[u] = n
             /\ n \notin used' => mutex'[n] = Raw
  <2>1. CASE n = m
    BY <1>1, <1>2, <1>3, <2>1
  <2>2. CASE n # m
    <3>1. mutex'[n] = mutex[n] /\ (n \in used' <=> n \in used)
      BY <1>2, <2>2, Names
    <3>2. (\E u \in Threads : reg[u] = n) => \E u \in Threads : reg'[u] = n
      BY <2>2
    <3> QED
      BY <3>1, <3>2 DEF Inv, Counted
  <2> QED
    BY <2>1, <2>2
<1>5. ASSUME NEW u \in Threads, u # t, Private(u), reg'[t] # reg[u],
             \A g \in alive' : mon'[g] # reg[u]
      PROVE  Private(u)'
  <2>1. reg[u] # m /\ reg[u] \in Mutexes
    BY <1>1, <1>5, Names DEF Private, Inv, TypeOK, MonitorTypeOK
  <2> QED
    BY <1>2, <1>5, <2>1 DEF Private
<1> QED
  BY <1>1, <1>3, <1>4, <1>5 DEF Counted

LEMMA InvDispose ==
  ASSUME Inv, ~term, NEW t \in Threads, Dispose(t), UNCHANGED cvars
  PROVE  Inv'
<1>a. PICK m, h : m = reg[t] /\ h = op[t].h
  OBVIOUS
<1>1. /\ pc[t] = "dispose" /\ m \in Addresses /\ h \notin alive /\ h \in Objects
      /\ op[t].kind = "delete" /\ m \in Mutexes /\ Private(t)
  BY <1>a, AtWork, Names DEF Dispose, Inv, OpsFit, UsedExist, RegsFit
<1>2. /\ pc' = [pc EXCEPT ![t] = "idle"] /\ op' = [op EXCEPT ![t] = NoOp]
      /\ reg' = [reg EXCEPT ![t] = None]
      /\ mon' = [mon EXCEPT ![h] = None] /\ used' = used \ {m}
      /\ mutex' = [mutex EXCEPT ![m] = Raw] /\ devt' = [devt EXCEPT ![m] = <<>>]
      /\ UNCHANGED <<held, refs, alive, fin>>
  BY <1>a DEF Dispose, Done
<1>3. /\ \A u \in Threads : u # t => pc'[u] = pc[u] /\ op'[u] = op[u] /\ reg'[u] = reg[u]
      /\ pc'[t] = "idle" /\ op'[t] = NoOp /\ reg'[t] = None
      /\ \A g \in Objects : g # h => mon'[g] = mon[g]
      /\ mon' \in [Objects -> Addresses \cup User \cup {None}]
      /\ alive \subseteq Objects /\ used \subseteq Addresses
      /\ mutex'[m] = Raw /\ \A x \in Mutexes : x # m => mutex'[x] = mutex[x]
      /\ mutex' \in [Mutexes -> [init : BOOLEAN, by : Threads \cup {None}, depth : Nat]]
  BY <1>1, <1>2 DEF Inv, TypeOK, MonitorTypeOK, Raw
<1>7. TypeOK'
  <2> DEFINE O == [kind : Kinds, h : Objects \cup {None}, arg : Objects \cup Events \cup {None}]
  <2>1. NoOp \in O /\ op \in [Threads -> O]
    BY DEF NoOp, Kinds, Inv, TypeOK, MonitorTypeOK
  <2> HIDE DEF O
  <2>2. op' \in [Threads -> O]
    BY <1>2, <2>1
  <2>3. pc' \in [Threads -> Places] /\ reg' \in [Threads -> Mutexes \cup {None}]
    BY <1>2 DEF Inv, TypeOK, Places, MonitorPlaces
  <2>4. devt' \in [Addresses -> Seq(Events \cup {None})]
    BY <1>1, <1>2 DEF Inv, TypeOK, MonitorTypeOK
  <2> QED
    BY <1>2, <1>3, <2>2, <2>3, <2>4 DEF Inv, TypeOK, MonitorTypeOK, cvars, O
<1>8. OpsFit'
  BY <1>1, <1>3 DEF Inv, OpsFit, Entering, Guarding
<1>9. UsedExist'
  <2>1. \A u \in Threads : op'[u] = op[u] \/ op'[u] = NoOp
    BY <1>3
  <2>2. \A g \in alive : mon'[g] = mon[g]
    BY <1>1, <1>3
  <2> QED
    BY <1>2, <2>1, <2>2, UsedLess
<1>u. ASSUME NEW n PROVE Users(n)' = Users(n)
  <2>1. \A u \in Threads :
           \/ pc'[u] = pc[u] /\ reg'[u] = reg[u] /\ op'[u] = op[u]
           \/ pc[u] \notin {"unref", "link"} /\ pc'[u] \notin {"unref", "link"}
    BY <1>1, <1>3
  <2>2. \A g \in alive : mon'[g] = mon[g]
    BY <1>1, <1>3
  <2> QED
    BY <1>2, <2>1, <2>2, UsersSame
<1>f. /\ Counted'
      /\ \A u \in Threads :
           /\ u # t /\ Private(u) /\ reg'[t] # reg[u] /\ \A g \in alive' : mon'[g] # reg[u]
           => Private(u)'
  <2>1. \A n \in Addresses : Users(n)' = Users(n)
    BY <1>u
  <2>2. pc[t] \in {"lose", "dispose"} /\ \A u \in Threads : u # t => reg'[u] = reg[u]
    BY <1>1, <1>3
  <2>3. used' = used \ {m} /\ mutex' = [mutex EXCEPT ![m] = Raw] /\ refs' = refs
    BY <1>2
  <2> HIDE DEF Dispose
  <2> QED
    BY <1>a, <2>1, <2>2, <2>3, CountedFreed
<1>10. RegsFit'
  <2>1. ASSUME NEW u \in Threads, u # t, Private(u) PROVE Private(u)'
    <3>1. reg[u] \in Addresses /\ \A g \in alive : mon[g] # reg[u]
      BY <1>3, <2>1 DEF Private
    <3>2. reg'[t] # reg[u] /\ \A g \in alive' : mon'[g] # reg[u]
      BY <1>1, <1>2, <1>3, <3>1, Names
    <3> QED
      BY <1>f, <2>1, <3>2
  <2>2. ASSUME NEW u \in Threads, u # t,
               pc[u] \in {"publish", "attr", "lose", "lock", "body", "share", "link"}
        PROVE  mon'[op'[u].h] = mon[op[u].h]
    BY <1>1, <1>3, <2>2, AtWork
  <2> QED
    BY <1>1, <1>3, <2>1, <2>2 DEF Inv, RegsFit, Entering, Guarding
<1>12. WillFinalize'
  BY <1>1, <1>2, <1>3 DEF Inv, WillFinalize
<1>13. Locked'
  <2>1. \A u \in Threads, y \in Mutexes : InBody(u, y)' = InBody(u, y)
    BY <1>1, <1>3 DEF InBody, Guarding
  <2>2. \A u \in Threads : \A s \in Range(held[u]) : s \in Objects => mon'[s] = mon[s]
    BY <1>1, <1>3 DEF Inv, UsedExist
  <2>3. mutex[m] = Ready
    BY <1>a, <1>1 DEF Private
  <2>4. \A x \in Mutexes : /\ mutex'[x].by = mutex[x].by /\ mutex'[x].depth = mutex[x].depth
                           /\ mutex[x].by # None => mutex'[x].init
    BY <1>3, <2>3 DEF Raw, Ready, Inv, Locked
  <2> QED
    BY <1>2, <2>1, <2>2, <2>4, LockedSame
<1>14. Initialized' /\ Linked'
  <2>1. \A u \in Threads : (pc'[u] = pc[u] /\ reg'[u] = reg[u])
                              \/ (pc[u] \in MonitorPlaces /\ pc'[u] \in MonitorPlaces)
    BY <1>1, <1>3 DEF MonitorPlaces
  <2>2. \A c \in Sections \cup Pointers \cup {gcs} \cup User : mutex'[c] = mutex[c]
    BY <1>1, <1>3, Names
  <2> QED
    BY <2>1, <2>2, SectionsSame
<1> QED
  BY <1>7, <1>8, <1>9, <1>f, <1>10, <1>12, <1>13, <1>14 DEF Inv

LEMMA InvBegin ==
  ASSUME Inv, ~term, NEW t \in Threads, NEW o \in Operations, Begin(t, o), UNCHANGED cvars
  PROVE  Inv'
<1>o. /\ o \in [kind : Kinds, h : Objects \cup {None}, arg : Objects \cup Events \cup {None}]
      /\ o.kind \in {"enter", "attach", "detach", "same"} /\ o.h \in Objects
      /\ o.kind = "same" => o.arg \in Ownees /\ o.arg \in Objects
      /\ o.kind \in {"attach", "detach"} => o.h \notin User
  BY OperationsFit
<1>1. /\ pc[t] = "idle" /\ o.h \in alive /\ \A u \in Threads : op[u].kind = "same" => op[u].arg # o.h
      /\ o.kind \in {"attach", "detach"} => mon[o.h] \notin User
      /\ o.kind = "same" => o.arg \in alive \ {o.h} /\ mon[o.arg] = None /\ ~InUse(o.arg)
      /\ op' = [op EXCEPT ![t] = o]
      /\ UNCHANGED <<held, mon, refs, devt, alive, fin>>
      /\ op[t] = NoOp /\ reg[t] = None
  BY DEF Begin, Inv, OpsFit, RegsFit
<1>t. used \subseteq Addresses /\ alive \subseteq Objects
      /\ mon \in [Objects -> Addresses \cup User \cup {None}]
  BY DEF Inv, TypeOK, MonitorTypeOK
<1>2. \E m \in Addresses \cup User, to \in {"lock", "share", "publish"} :
        /\ pc' = [pc EXCEPT ![t] = to] /\ reg' = [reg EXCEPT ![t] = m]
        /\ \/ /\ mon[o.h] = m /\ UNCHANGED <<used, mutex>>
              /\ to = IF o.kind = "same" THEN "share" ELSE "lock"
           \/ /\ to = "publish" /\ m \in Addresses \ used /\ mon[o.h] = None
              /\ used' = used \cup {m} /\ mutex' = [mutex EXCEPT ![m] = Ready]
  <2>1. CASE mon[o.h] # None
    <3>1. mon[o.h] \in Addresses \cup User
      BY <1>o, <1>t, <2>1
    <3> QED
      BY <2>1, <3>1 DEF Begin, AfterEnsure
  <2>2. CASE mon[o.h] = None
    BY <2>2 DEF Begin
  <2> QED
    BY <2>1, <2>2
<1>3. PICK m \in Addresses \cup User, to \in {"lock", "share", "publish"} :
        /\ pc' = [pc EXCEPT ![t] = to] /\ reg' = [reg EXCEPT ![t] = m]
        /\ \/ /\ mon[o.h] = m /\ UNCHANGED <<used, mutex>>
              /\ to = IF o.kind = "same" THEN "share" ELSE "lock"
           \/ /\ to = "publish" /\ m \in Addresses \ used /\ mon[o.h] = None
              /\ used' = used \cup {m} /\ mutex' = [mutex EXCEPT ![m] = Ready]
  BY <1>2
<1>4. /\ \A u \in Threads : u # t => pc'[u] = pc[u] /\ op'[u] = op[u] /\ reg'[u] = reg[u]
      /\ pc'[t] = to /\ op'[t] = o /\ reg'[t] = m /\ m \in Mutexes
      /\ pc[t] = "idle" /\ op[t] = NoOp /\ reg[t] = None
  BY <1>1, <1>3, Names DEF Inv, TypeOK, MonitorTypeOK
<1>m. /\ \A x \in Mutexes : mutex'[x] = mutex[x] \/ (x = m /\ x \in Addresses \ used /\ mutex[x] = Raw /\ mutex'[x] = Ready)
      /\ to # "publish" => mutex' = mutex /\ used' = used
      /\ to = "publish" => mutex'[m] = Ready
  BY <1>3, <1>4 DEF Inv, TypeOK, Counted
<1>7. TypeOK'
  <2> DEFINE O == [kind : Kinds, h : Objects \cup {None}, arg : Objects \cup Events \cup {None}]
  <2>1. op \in [Threads -> O] /\ o \in O
    BY <1>o DEF Inv, TypeOK, MonitorTypeOK
  <2> HIDE DEF O
  <2>2. op' \in [Threads -> O]
    BY <1>1, <2>1
  <2>3. pc' \in [Threads -> Places] /\ reg' \in [Threads -> Mutexes \cup {None}]
    BY <1>3, <1>4 DEF Inv, TypeOK, Places, MonitorPlaces
  <2>4. used' \subseteq Addresses
    BY <1>3, <1>t
  <2>5. mutex' \in [Mutexes -> [init : BOOLEAN, by : Threads \cup {None}, depth : Nat]]
    <3>1. Ready \in [init : BOOLEAN, by : Threads \cup {None}, depth : Nat]
      BY DEF Ready
    <3> QED
      BY <1>3, <3>1 DEF Inv, TypeOK
  <2> QED
    BY <1>1, <2>2, <2>3, <2>4, <2>5 DEF Inv, TypeOK, MonitorTypeOK, cvars, O
<1>8. OpsFit'
  <2>1. /\ to = "lock" => o.kind # "same"
        /\ to = "share" => o.kind = "same"
    BY <1>3
  <2> QED
    BY <1>4, <2>1 DEF Inv, OpsFit, Entering, Guarding
<1>9. UsedExist'
  <2>k. \A c : Known(c)' = Known(c)
    BY DEF Known, cvars
  <2>0. NoOp.kind = "none"
    BY DEF NoOp
  <2>1. \A u \in Threads : \A s \in Range(held'[u]) :
          IF s \in Objects THEN s \in alive' /\ mon'[s] # None ELSE Known(s)'
    BY <1>1, <2>k DEF Inv, UsedExist
  <2>2. ASSUME NEW u \in Threads, op'[u].kind = "same"
        PROVE  /\ op'[u].arg \in alive' /\ mon'[op'[u].arg] = None
               /\ \A v \in Threads :
                    /\ op'[u].arg # op'[v].h /\ op'[u].arg \notin Range(held'[v])
                    /\ op'[v].kind = "same" /\ v # u => op'[u].arg # op'[v].arg
    <3>1. CASE u = t
      <4>1. \A v \in Threads : o.arg # op[v].h /\ o.arg # op[v].arg /\ o.arg \notin Range(held[v])
        BY <1>1, <1>4, <2>2, <3>1 DEF InUse
      <4> QED
        BY <1>1, <1>4, <2>2, <3>1, <4>1
    <3>2. CASE u # t
      <4>1. op'[u] = op[u] /\ op[u].kind = "same" /\ op[u].arg # o.h
        BY <1>1, <1>4, <2>2, <3>2
      <4>2. o.kind = "same" => o.arg # op[u].arg
        BY <1>1, <1>4 DEF InUse
      <4> QED
        BY <1>1, <1>4, <4>1, <4>2 DEF Inv, UsedExist
    <3> QED
      BY <3>1, <3>2
  <2>3. ASSUME NEW u \in Threads, op'[u].kind = "delete"
        PROVE  /\ op'[u].h \notin alive'
               /\ \A v \in Threads : op'[v].kind = "delete" /\ v # u => op'[u].h # op'[v].h
    BY <1>o, <1>1, <1>4, <2>3 DEF Inv, UsedExist
  <2>4. ASSUME NEW u \in Threads
        PROVE  /\ Serving(u)' => op'[u].h \in alive'
               /\ op'[u].kind \in {"attach", "detach"} => mon'[op'[u].h] \notin User
    BY <1>o, <1>1, <1>4 DEF Inv, UsedExist, Serving
  <2> QED
    BY <2>1, <2>2, <2>3, <2>4 DEF UsedExist
<1>u. ASSUME NEW n PROVE Users(n)' = Users(n)
  <2>1. \A u \in Threads :
           \/ pc'[u] = pc[u] /\ reg'[u] = reg[u] /\ op'[u] = op[u]
           \/ pc[u] \notin {"unref", "link"} /\ pc'[u] \notin {"unref", "link"}
    BY <1>3, <1>4
  <2> QED
    BY <1>1, <2>1, UsersSame
<1>n. to = "publish" => /\ m \in Addresses \ used /\ Users(m) = {}
                        /\ \A u \in Threads : reg[u] # m
                        /\ used' = used \cup {m} /\ mutex'[m] = Ready
  <2>1. to = "publish" => m \in Addresses \ used /\ used' = used \cup {m}
    BY <1>3
  <2>2. m \in Addresses \ used => Users(m) = {} /\ \A u \in Threads : reg[u] # m
    BY AtWork DEF Inv, Counted
  <2> QED
    BY <1>m, <2>1, <2>2
<1>10. RegsFit'
  <2>1. ASSUME NEW u \in Threads, u # t, Private(u) PROVE Private(u)'
    <3>1. reg[u] # m
      BY <1>o, <1>1, <1>3, <1>t, <2>1 DEF Private
    <3>2. reg[u] \in Mutexes
      BY <1>t, <2>1, Names DEF Private
    <3> QED
      BY <1>1, <1>3, <1>4, <1>m, <2>1, <3>1, <3>2 DEF Private
  <2>2. ASSUME to = "publish" PROVE Private(t)'
    <3>1. \A g \in alive' : mon'[g] # m
      BY <1>1, <1>n, <2>2, UsersAre
    <3> QED
      BY <1>4, <1>n, <2>2, <3>1 DEF Private
  <2>3. to # "publish" => mon'[o.h] = m /\ m # None
    BY <1>1, <1>3, Names
  <2> QED
    BY <1>1, <1>4, <2>1, <2>2, <2>3 DEF Inv, RegsFit, Entering, Guarding
<1>11. Counted'
  <2>1. ASSUME NEW n \in Addresses
        PROVE  (\E u \in Threads : reg[u] = n) => \E u \in Threads : reg'[u] = n
    <3>1. reg[t] # n
      BY <1>4, Names
    <3> QED
      BY <1>4, <3>1
  <2>2. CASE to # "publish"
    BY <1>1, <1>m, <1>u, <2>1, <2>2, CountedSame
  <2>3. CASE to = "publish"
    <3>1. ASSUME NEW n \in Addresses
          PROVE  /\ Users(n)' # {} => n \in used' /\ refs'[n] = Cardinality(Users(n)') /\ mutex'[n].init
                 /\ n \in used' => Users(n)' # {} \/ \E u \in Threads : reg'[u] = n
                 /\ n \notin used' => mutex'[n] = Raw
      <4>1. CASE n = m
        BY <1>4, <1>n, <1>u, <2>3, <4>1
      <4>2. CASE n # m
        BY <1>1, <1>m, <1>n, <1>u, <2>1, <2>3, <4>2, Names DEF Inv, Counted
      <4> QED
        BY <4>1, <4>2
    <3> QED
      BY <3>1 DEF Counted
  <2> QED
    BY <2>2, <2>3
<1>12. WillFinalize'
  BY <1>1, <1>4 DEF Inv, WillFinalize
<1>13. Locked'
  <2>1. \A u \in Threads, y \in Mutexes : InBody(u, y)' = InBody(u, y)
    BY <1>3, <1>4 DEF InBody, Guarding
  <2>2. \A x \in Mutexes : /\ mutex'[x].by = mutex[x].by /\ mutex'[x].depth = mutex[x].depth
                           /\ mutex[x].by # None => mutex'[x].init
    BY <1>m DEF Raw, Ready, Inv, Locked
  <2> QED
    BY <1>1, <2>1, <2>2, LockedSame
<1>14. Initialized' /\ Linked'
  <2>1. \A u \in Threads : (pc'[u] = pc[u] /\ reg'[u] = reg[u])
                              \/ (pc[u] \in MonitorPlaces /\ pc'[u] \in MonitorPlaces)
    BY <1>3, <1>4 DEF MonitorPlaces
  <2>2. \A c \in Sections \cup Pointers \cup {gcs} \cup User : mutex'[c] = mutex[c]
    BY <1>m, Names
  <2> QED
    BY <2>1, <2>2, SectionsSame
<1> QED
  BY <1>7, <1>8, <1>9, <1>10, <1>11, <1>12, <1>13, <1>14 DEF Inv

LEMMA InvPublish ==
  ASSUME Inv, ~term, NEW t \in Threads, Publish(t), UNCHANGED cvars
  PROVE  Inv'
<1>a. PICK m, h : m = reg[t] /\ h = op[t].h
  OBVIOUS
<1>1. /\ pc[t] = "publish" /\ m \in Addresses /\ h \in alive /\ h \in Objects /\ Private(t)
      /\ op[t] \in Operations /\ Serving(t) /\ m \in Mutexes
      /\ UNCHANGED <<op, reg, held, devt, used, mutex, alive, fin>>
  BY <1>a, AtWork, Names DEF Publish, Inv, RegsFit
<1>t. /\ used \subseteq Addresses /\ alive \subseteq Objects
      /\ mon \in [Objects -> Addresses \cup User \cup {None}] /\ refs \in [Addresses -> Nat]
      /\ m # None
  BY <1>1, Names DEF Inv, TypeOK, MonitorTypeOK
<1>s. \A u \in Threads : op[u].kind = "same" => op[u].arg # h
  BY <1>a, <1>1 DEF Inv, UsedExist
<1>2. CASE mon[h] # None
  <2>1. pc' = [pc EXCEPT ![t] = "lose"] /\ UNCHANGED <<mon, refs>>
    BY <1>a, <1>2 DEF Publish
  <2>2. pc'[t] = "lose" /\ \A u \in Threads : u # t => pc'[u] = pc[u]
    BY <2>1 DEF Inv, TypeOK
  <2>7. TypeOK'
    BY <1>1, <2>1 DEF Inv, TypeOK, MonitorTypeOK, Places, MonitorPlaces, cvars
  <2>8. OpsFit'
    BY <1>1, <2>2 DEF Inv, OpsFit, Entering, Guarding
  <2>9. UsedExist'
    BY <1>1, <2>1, UsedLess
  <2>10. RegsFit'
    BY <1>a, <1>1, <1>2, <2>1, <2>2 DEF Inv, RegsFit, Private, Entering, Guarding
  <2>11. Counted'
    <3>1. ASSUME NEW n PROVE Users(n)' = Users(n)
      <4>1. \A u \in Threads :
              \/ pc'[u] = pc[u] /\ reg'[u] = reg[u] /\ op'[u] = op[u]
              \/ pc[u] \notin {"unref", "link"} /\ pc'[u] \notin {"unref", "link"}
        BY <1>1, <2>2
      <4> QED
        BY <1>1, <2>1, <4>1, UsersSame
    <3> QED
      BY <1>1, <2>1, <3>1, CountedSame
  <2>12. WillFinalize'
    BY <1>1, <2>1, <2>2 DEF Inv, WillFinalize
  <2>13. Locked'
    <3>1. \A u \in Threads, y \in Mutexes : InBody(u, y)' = InBody(u, y)
      BY <1>1, <2>2 DEF InBody, Guarding
    <3> QED
      BY <1>1, <2>1, <3>1, LockedSame DEF Inv, Locked
  <2>14. Initialized' /\ Linked'
    BY <1>1, <2>2, SectionsSame DEF MonitorPlaces
  <2> QED
    BY <2>7, <2>8, <2>9, <2>10, <2>11, <2>12, <2>13, <2>14 DEF Inv
<1>3. CASE mon[h] = None
  <2>1. /\ pc' = [pc EXCEPT ![t] = "attr"] /\ mon' = [mon EXCEPT ![h] = m]
        /\ refs' = [refs EXCEPT ![m] = 1]
    BY <1>a, <1>3 DEF Publish
  <2>2. /\ pc'[t] = "attr" /\ \A u \in Threads : u # t => pc'[u] = pc[u]
        /\ mon'[h] = m /\ \A g \in Objects : g # h => mon'[g] = mon[g]
        /\ refs'[m] = 1 /\ \A n \in Addresses : n # m => refs'[n] = refs[n]
        /\ mon' \in [Objects -> Addresses \cup User \cup {None}] /\ refs' \in [Addresses -> Nat]
    BY <1>1, <1>t, <2>1 DEF Inv, TypeOK
  <2>7. TypeOK'
    BY <1>1, <2>1, <2>2 DEF Inv, TypeOK, MonitorTypeOK, Places, MonitorPlaces, cvars
  <2>8. OpsFit'
    BY <1>1, <2>2 DEF Inv, OpsFit, Entering, Guarding
  <2>9. UsedExist'
    <3>1. m \notin User
      BY <1>1, Names
    <3>2. \A g \in alive :
            \/ mon'[g] = mon[g]
            \/ /\ mon'[g] # None
               /\ \A u \in Threads : op'[u].kind = "same" => op'[u].arg # g
               /\ mon'[g] \in User => \A u \in Threads : op'[u].h # g
      BY <1>1, <1>s, <1>t, <2>2, <3>1
    <3> QED
      BY <1>1, <3>2, UsedLess
  <2>10. RegsFit'
    <3>1. ASSUME NEW u \in Threads, u # t, Private(u) PROVE Private(u)'
      <4>1. reg[u] # m
        BY <1>a, <3>1 DEF Private
      <4> QED
        BY <1>1, <1>t, <2>2, <3>1, <4>1 DEF Private
    <3>2. ASSUME NEW u \in Threads,
                 pc[u] \in {"attr", "lock", "body", "share", "link"}
          PROVE  mon'[op[u].h] = mon[op[u].h]
      <4>1. mon[op[u].h] # None /\ op[u].h \in Objects
        BY <3>2, AtWork DEF Inv, RegsFit
      <4> QED
        BY <1>3, <2>2, <4>1
    <3>3. ASSUME NEW u \in Threads, pc[u] = "lose" PROVE mon'[op[u].h] # None
      <4>1. mon[op[u].h] # None /\ op[u].h \in Objects
        BY <3>3, AtWork DEF Inv, RegsFit
      <4> QED
        BY <1>t, <2>2, <4>1
    <3> QED
      BY <1>a, <1>1, <1>t, <2>2, <3>1, <3>2, <3>3 DEF Inv, RegsFit, Entering, Guarding
  <2>u. /\ Users(m)' = {h}
        /\ \A n \in Addresses : n # m => Users(n)' = Users(n)
    <3>1. \A n \in Addresses : n # m => \A g \in alive : mon'[g] = n <=> mon[g] = n
      BY <1>3, <1>t, <2>2, Names
    <3>2. \A u \in Threads :
              \/ pc'[u] = pc[u] /\ reg'[u] = reg[u] /\ op'[u] = op[u]
              \/ pc[u] \notin {"unref", "link"} /\ pc'[u] \notin {"unref", "link"}
      BY <1>1, <2>2
    <3>3. \A n \in Addresses : n # m => Users(n)' = Users(n)
      BY <1>1, <3>1, <3>2, UsersSame
    <3>4. {g \in alive' : mon'[g] = m} = {h}
      <4>1. \A g \in alive : mon[g] # m
        BY <1>a, <1>1 DEF Private
      <4> QED
        BY <1>1, <1>t, <2>2, <4>1
    <3>5. \A u \in Threads : reg'[u] = m => u = t
      BY <1>a, <1>1 DEF Private
    <3>6. Users(m)' = {h}
      BY <2>2, <3>4, <3>5 DEF Users
    <3> QED
      BY <3>3, <3>6
  <2>11. Counted'
    <3>1. ASSUME NEW n \in Addresses
          PROVE  /\ Users(n)' # {} => n \in used' /\ refs'[n] = Cardinality(Users(n)') /\ mutex'[n].init
                 /\ n \in used' => Users(n)' # {} \/ \E u \in Threads : reg'[u] = n
                 /\ n \notin used' => mutex'[n] = Raw
      <4>1. CASE n = m
        <5>1. m \in used /\ mutex[m].init
          BY <1>a, <1>1 DEF Private, Ready
        <5>2. Cardinality({h}) = 1
          BY FS_Singleton
        <5> QED
          BY <1>1, <2>2, <2>u, <4>1, <5>1, <5>2
      <4>2. CASE n # m
        BY <1>1, <2>2, <2>u, <4>2 DEF Inv, Counted
      <4> QED
        BY <4>1, <4>2
    <3> QED
      BY <3>1 DEF Counted
  <2>12. WillFinalize'
    <3>1. pc'[t] = "attr" /\ op'[t].h = h
      BY <1>a, <1>1, <2>2
    <3> QED
      BY <1>1, <1>t, <2>2, <3>1 DEF Inv, WillFinalize
  <2>13. Locked'
    <3>1. \A u \in Threads, y \in Mutexes : InBody(u, y)' = InBody(u, y)
      BY <1>1, <2>2 DEF InBody, Guarding
    <3>2. \A u \in Threads : \A s \in Range(held[u]) : s \in Objects => mon'[s] = mon[s]
      BY <1>3, <2>2 DEF Inv, UsedExist
    <3> QED
      BY <1>1, <3>1, <3>2, LockedSame DEF Inv, Locked
  <2>14. Initialized' /\ Linked'
    BY <1>1, <2>2, SectionsSame DEF MonitorPlaces
  <2> QED
    BY <2>7, <2>8, <2>9, <2>10, <2>11, <2>12, <2>13, <2>14 DEF Inv
<1> QED
  BY <1>2, <1>3

LEMMA InvSetAttr ==
  ASSUME Inv, ~term, NEW t \in Threads, SetAttr(t), UNCHANGED cvars
  PROVE  Inv'
<1>1. /\ pc[t] = "attr" /\ op[t] \in Operations /\ op[t].h \in Objects
      /\ fin' = fin \cup {op[t].h} /\ fin' \subseteq Objects
      /\ UNCHANGED <<op, reg, held, mon, refs, devt, used, mutex, alive>>
  BY AtWork DEF SetAttr, Inv, TypeOK, MonitorTypeOK
<1>2. PICK to \in {"share", "lock"} : pc' = [pc EXCEPT ![t] = to] /\ (to = "share" <=> op[t].kind = "same")
  BY DEF SetAttr, AfterEnsure
<1>3. pc'[t] = to /\ \A u \in Threads : u # t => pc'[u] = pc[u]
  BY <1>2 DEF Inv, TypeOK
<1>7. TypeOK'
  BY <1>1, <1>2 DEF Inv, TypeOK, MonitorTypeOK, Places, MonitorPlaces, cvars
<1>8. OpsFit'
  BY <1>1, <1>2, <1>3 DEF Inv, OpsFit, Entering, Guarding
<1>9. UsedExist'
  BY <1>1, UsedLess
<1>10. RegsFit'
  BY <1>1, <1>3 DEF Inv, RegsFit, Private, Entering, Guarding
<1>11. Counted'
  <2>1. ASSUME NEW n PROVE Users(n)' = Users(n)
    <3>1. \A u \in Threads :
              \/ pc'[u] = pc[u] /\ reg'[u] = reg[u] /\ op'[u] = op[u]
              \/ pc[u] \notin {"unref", "link"} /\ pc'[u] \notin {"unref", "link"}
      BY <1>1, <1>3
    <3> QED
      BY <1>1, <3>1, UsersSame
  <2> QED
    BY <1>1, <2>1, CountedSame
<1>12. WillFinalize'
  BY <1>1, <1>3 DEF Inv, WillFinalize
<1>13. Locked'
  <2>1. \A u \in Threads, y \in Mutexes : InBody(u, y)' = InBody(u, y)
    BY <1>1, <1>3 DEF InBody, Guarding
  <2> QED
    BY <1>1, <2>1, LockedSame DEF Inv, Locked
<1>14. Initialized' /\ Linked'
  BY <1>1, <1>3, SectionsSame DEF MonitorPlaces
<1> QED
  BY <1>7, <1>8, <1>9, <1>10, <1>11, <1>12, <1>13, <1>14 DEF Inv

LEMMA InvLose ==
  ASSUME Inv, ~term, NEW t \in Threads, Lose(t), UNCHANGED cvars
  PROVE  Inv'
<1>a. PICK m, x : m = reg[t] /\ x = mon[op[t].h]
  OBVIOUS
<1>1. /\ pc[t] = "lose" /\ m \in Addresses /\ op[t].h \in alive /\ op[t].h \in Objects /\ Private(t)
      /\ op[t] \in Operations /\ Serving(t) /\ m \in Mutexes /\ x # None
      /\ used' = used \ {m} /\ mutex' = [mutex EXCEPT ![m] = Raw] /\ reg' = [reg EXCEPT ![t] = x]
      /\ UNCHANGED <<op, held, mon, refs, devt, alive, fin>>
  BY <1>a, AtWork, Names DEF Lose, Inv, RegsFit
<1>2. PICK to \in {"share", "lock"} : pc' = [pc EXCEPT ![t] = to] /\ (to = "share" <=> op[t].kind = "same")
  BY DEF Lose, AfterEnsure
<1>t. used \subseteq Addresses /\ alive \subseteq Objects /\ x \in Addresses \cup User /\ x \in Mutexes
  BY <1>a, <1>1, Names DEF Inv, TypeOK, MonitorTypeOK
<1>3. /\ pc'[t] = to /\ reg'[t] = x
      /\ \A u \in Threads : u # t => pc'[u] = pc[u] /\ reg'[u] = reg[u]
      /\ \A y \in Mutexes : y # m => mutex'[y] = mutex[y]
      /\ mutex'[m] = Raw
      /\ mutex' \in [Mutexes -> [init : BOOLEAN, by : Threads \cup {None}, depth : Nat]]
  BY <1>1, <1>2 DEF Inv, TypeOK, Raw
<1>7. TypeOK'
  BY <1>1, <1>2, <1>3, <1>t DEF Inv, TypeOK, MonitorTypeOK, Places, MonitorPlaces, cvars
<1>8. OpsFit'
  BY <1>1, <1>2, <1>3 DEF Inv, OpsFit, Entering, Guarding
<1>9. UsedExist'
  BY <1>1, UsedLess
<1>u. ASSUME NEW n PROVE Users(n)' = Users(n)
  <2>1. \A u \in Threads :
              \/ pc'[u] = pc[u] /\ reg'[u] = reg[u] /\ op'[u] = op[u]
              \/ pc[u] \notin {"unref", "link"} /\ pc'[u] \notin {"unref", "link"}
    BY <1>1, <1>2, <1>3
  <2> QED
    BY <1>1, <2>1, UsersSame
<1>f. /\ Counted'
      /\ \A u \in Threads :
           /\ u # t /\ Private(u) /\ reg'[t] # reg[u] /\ \A g \in alive' : mon'[g] # reg[u]
           => Private(u)'
  <2>1. \A n \in Addresses : Users(n)' = Users(n)
    BY <1>u
  <2>2. pc[t] \in {"lose", "dispose"} /\ \A u \in Threads : u # t => reg'[u] = reg[u]
    BY <1>1, <1>3
  <2>3. used' = used \ {m} /\ mutex' = [mutex EXCEPT ![m] = Raw] /\ refs' = refs
    BY <1>1
  <2> QED
    BY <1>a, <2>1, <2>2, <2>3, CountedFreed
<1>10. RegsFit'
  <2>1. ASSUME NEW u \in Threads, u # t, Private(u) PROVE Private(u)'
    <3>1. \A g \in alive' : mon'[g] # reg[u]
      BY <1>1, <2>1 DEF Private
    <3>2. reg'[t] # reg[u]
      BY <1>a, <1>1, <1>3, <3>1
    <3> QED
      BY <1>f, <2>1, <3>1, <3>2
  <2> QED
    BY <1>a, <1>1, <1>2, <1>3, <2>1 DEF Inv, RegsFit, Entering, Guarding
<1>12. WillFinalize'
  BY <1>1, <1>3 DEF Inv, WillFinalize
<1>13. Locked'
  <2>1. \A u \in Threads, y \in Mutexes : InBody(u, y)' = InBody(u, y)
    BY <1>1, <1>2, <1>3 DEF InBody, Guarding
  <2>3. mutex[m] = Ready
    BY <1>a, <1>1 DEF Private
  <2>4. \A y \in Mutexes : /\ mutex'[y].by = mutex[y].by /\ mutex'[y].depth = mutex[y].depth
                           /\ mutex[y].by # None => mutex'[y].init
    BY <1>3, <2>3 DEF Raw, Ready, Inv, Locked
  <2> QED
    BY <1>1, <2>1, <2>4, LockedSame
<1>14. Initialized' /\ Linked'
  <2>1. \A u \in Threads : (pc'[u] = pc[u] /\ reg'[u] = reg[u])
                              \/ (pc[u] \in MonitorPlaces /\ pc'[u] \in MonitorPlaces)
    BY <1>1, <1>2, <1>3 DEF MonitorPlaces
  <2>2. \A c \in Sections \cup Pointers \cup {gcs} \cup User : mutex'[c] = mutex[c]
    BY <1>1, <1>3, Names
  <2> QED
    BY <2>1, <2>2, SectionsSame
<1> QED
  BY <1>7, <1>8, <1>9, <1>f, <1>10, <1>12, <1>13, <1>14 DEF Inv

LEMMA InvLock ==
  ASSUME Inv, ~term, NEW t \in Threads, Lock(t), UNCHANGED cvars
  PROVE  Inv'
<1>a. PICK x, h : x = reg[t] /\ h = op[t].h
  OBVIOUS
<1>1. /\ pc[t] = "lock" /\ h \in Objects /\ h \in alive /\ x = mon[h] /\ x # None
      /\ op[t] \in Operations /\ Serving(t) /\ op[t].kind # "same"
      /\ x \in Addresses \cup User /\ x \in Mutexes /\ (x \in Addresses => x \in used /\ h \in Users(x))
      /\ LockMutex(t, x)
      /\ mon' = mon /\ alive' = alive /\ UNCHANGED <<refs, devt, used, fin>>
  BY <1>a, AtWork, Names DEF Lock, Inv, RegsFit, OpsFit, mvars
<1>2. mutex[x].init
  BY <1>1 DEF Inv, Counted, Initialized
<1>m. /\ mutex' \in [Mutexes -> [init : BOOLEAN, by : Threads \cup {None}, depth : Nat]]
      /\ \A y \in Mutexes : mutex'[y].init = mutex[y].init /\ (y # x => mutex'[y] = mutex[y])
  BY <1>1, LockChanges DEF Inv
<1>s. \A u \in Threads : op[u].kind = "same" => op[u].arg # h
  BY <1>a, <1>1 DEF Inv, UsedExist
<1>t. used \subseteq Addresses /\ alive \subseteq Objects
  BY DEF Inv, TypeOK, MonitorTypeOK
<1>p. ASSUME NEW u \in Threads, Private(u), u # t, reg' = [reg EXCEPT ![t] = None] \/ reg' = reg
      PROVE  Private(u)'
  <2>1. reg[u] # x /\ reg[u] \in Mutexes /\ reg[u] # None
    BY <1>1, <1>p, <1>t, Names DEF Private
  <2>2. \A v \in Threads : reg'[v] = reg[v] \/ reg'[v] = None
    BY <1>p DEF Inv, TypeOK
  <2>3. reg'[u] = reg[u]
    BY <1>p DEF Inv, TypeOK
  <2> QED
    BY <1>1, <1>m, <1>p, <2>1, <2>2, <2>3 DEF Private
<1>k. \A c \in Sections \cup Pointers \cup {gcs} : mutex'[c] = mutex[c]
  BY <1>1, <1>m, Names
<1>l. \A y \in User : mutex'[y].init = mutex[y].init
  BY <1>m, Names
<1>3. CASE op[t].kind = "enter"
  <2>1. /\ held' = [held EXCEPT ![t] = Append(@, h)]
        /\ pc' = [pc EXCEPT ![t] = "idle"] /\ op' = [op EXCEPT ![t] = NoOp]
        /\ reg' = [reg EXCEPT ![t] = None]
    BY <1>3, <1>a DEF Lock, Done
  <2>2. /\ \A u \in Threads : u # t => /\ pc'[u] = pc[u] /\ op'[u] = op[u] /\ reg'[u] = reg[u]
                                       /\ held'[u] = held[u]
        /\ pc'[t] = "idle" /\ op'[t] = NoOp /\ reg'[t] = None
        /\ held'[t] = Append(held[t], h)
    BY <2>1 DEF Inv, TypeOK, MonitorTypeOK
  <2>h. /\ held' \in [Threads -> Seq(Objects \cup Sections \cup Pointers)]
        /\ Range(held'[t]) = Range(held[t]) \cup {h}
    <3> DEFINE S == Objects \cup Sections \cup Pointers
    <3>1. held \in [Threads -> Seq(S)] /\ h \in S
      BY <1>1 DEF Inv, TypeOK
    <3> HIDE DEF S
    <3>2. Append(held[t], h) \in Seq(S) /\ Range(Append(held[t], h)) = Range(held[t]) \cup {h}
      BY <3>1, Appended
    <3>3. held' \in [Threads -> Seq(S)]
      BY <2>1, <3>1, <3>2
    <3> QED
      BY <2>2, <3>2, <3>3 DEF S
  <2>7. TypeOK'
    <3> DEFINE O == [kind : Kinds, h : Objects \cup {None}, arg : Objects \cup Events \cup {None}]
    <3>1. NoOp \in O /\ op \in [Threads -> O]
      BY DEF NoOp, Kinds, Inv, TypeOK, MonitorTypeOK
    <3> HIDE DEF O
    <3>2. op' \in [Threads -> O]
      BY <2>1, <3>1
    <3>3. pc' \in [Threads -> Places] /\ reg' \in [Threads -> Mutexes \cup {None}]
      BY <2>1 DEF Inv, TypeOK, Places, MonitorPlaces
    <3> QED
      BY <1>1, <1>m, <2>h, <3>2, <3>3 DEF Inv, TypeOK, MonitorTypeOK, cvars, O
  <2>8. OpsFit'
    BY <2>2 DEF Inv, OpsFit, Entering, Guarding
  <2>9. UsedExist'
    <3>1. \A u \in Threads : op'[u] = op[u] \/ op'[u] = NoOp
      BY <2>2
    <3> DEFINE Usable(s) == /\ s \in alive /\ mon[s] # None
                            /\ \A v \in Threads : op[v].kind = "same" => op[v].arg # s
    <3>a. h \in alive /\ mon[h] # None
      BY <1>1
    <3>b. Usable(h)
      BY <1>s, <3>a
    <3> HIDE DEF Usable
    <3>c. \A s \in Range(held'[t]) : s \in Range(held[t]) \/ s = h
      BY <2>h
    <3>d. \A u \in Threads : u # t => held'[u] = held[u]
      BY <2>2
    <3>e. ASSUME NEW u \in Threads, NEW s \in Range(held'[u]), s \notin Range(held[u])
          PROVE  Usable(s)
      BY ONLY <3>b, <3>c, <3>d, <3>e
    <3>2. \A u \in Threads : \A s \in Range(held'[u]) :
           \/ s \in Range(held[u])
           \/ /\ s \in alive /\ mon[s] # None
              /\ \A v \in Threads : op[v].kind = "same" => op[v].arg # s
      BY <3>e DEF Usable
    <3>3. \A g \in alive : mon'[g] = mon[g]
      BY <1>1
    <3>4. alive' = alive /\ UNCHANGED cvars /\ Inv
      BY <1>1
    <3> QED
      BY <3>1, <3>2, <3>3, <3>4, UsedLess
  <2>10. RegsFit'
    BY <1>1, <1>p, <2>1, <2>2 DEF Inv, RegsFit, Entering, Guarding
  <2>u. ASSUME NEW n PROVE Users(n)' = Users(n)
    <3>1. \A u \in Threads :
              \/ pc'[u] = pc[u] /\ reg'[u] = reg[u] /\ op'[u] = op[u]
              \/ pc[u] \notin {"unref", "link"} /\ pc'[u] \notin {"unref", "link"}
      BY <1>1, <2>2
    <3> QED
      BY <1>1, <3>1, UsersSame
  <2>11. Counted'
    <3>1. \A n \in Addresses : (\E u \in Threads : reg[u] = n) =>
                                  (\E u \in Threads : reg'[u] = n) \/ Users(n) # {}
      BY <1>a, <1>1, <2>2
    <3>2. \A n \in Addresses : mutex'[n].init = mutex[n].init /\ (n \notin used => mutex'[n] = mutex[n])
      BY <1>1, <1>m, Names
    <3> QED
      BY <1>1, <2>u, <3>1, <3>2, CountedSame
  <2>12. WillFinalize'
    BY <1>1, <2>2 DEF Inv, WillFinalize
  <2>13. Locked'
    <3>1. ASSUME NEW u \in Threads, NEW y \in Mutexes PROVE InBody(u, y)' = InBody(u, y)
      BY <1>1, <2>2 DEF InBody, Guarding
    <3>2. h \in Objects \cup Sections \cup Pointers /\ MutexOf(h) = x
      BY <1>1 DEF MutexOf
    <3>3. \A u \in Threads, y \in Mutexes :
             Depth(u, y)' = Depth(u, y) + IF u = t /\ y = MutexOf(h) THEN 1 ELSE 0
      BY <1>1, <2>1, <3>1, <3>2, DepthEntered
    <3> QED
      BY <1>1, <1>2, <3>2, <3>3, LockedMore
  <2>14. Initialized' /\ Linked'
    <3>1. \A u \in Threads : (pc'[u] = pc[u] /\ reg'[u] = reg[u])
                                \/ (pc[u] \in MonitorPlaces /\ pc'[u] \in MonitorPlaces)
      BY <1>1, <2>2 DEF MonitorPlaces
    <3> QED
      BY <1>k, <1>l, <3>1, SectionsSame
  <2> QED
    BY <2>7, <2>8, <2>9, <2>10, <2>11, <2>12, <2>13, <2>14 DEF Inv
<1>4. CASE op[t].kind # "enter"
  <2>1. pc' = [pc EXCEPT ![t] = "body"] /\ op' = op /\ reg' = reg /\ held' = held
    BY <1>4 DEF Lock
  <2>2. /\ \A u \in Threads : u # t => pc'[u] = pc[u]
        /\ pc'[t] = "body"
    BY <2>1 DEF Inv, TypeOK
  <2>o. op[t].kind \in {"attach", "detach"} /\ x \in Addresses
    <3>1. op[t].kind \in {"attach", "detach"}
      BY <1>1, <1>4, OperationsFit
    <3> QED
      BY <1>a, <1>1, <3>1 DEF Inv, UsedExist
  <2>7. TypeOK'
    BY <1>1, <1>m, <2>1 DEF Inv, TypeOK, MonitorTypeOK, Places, MonitorPlaces, cvars
  <2>8. OpsFit'
    BY <1>1, <2>o, <2>1, <2>2 DEF Inv, OpsFit, Entering, Guarding
  <2>9. UsedExist'
    BY <1>1, <2>1, UsedLess
  <2>10. RegsFit'
    BY <1>a, <1>1, <1>p, <2>1, <2>2 DEF Inv, RegsFit, Entering, Guarding
  <2>u. ASSUME NEW n PROVE Users(n)' = Users(n)
    <3>1. \A u \in Threads :
              \/ pc'[u] = pc[u] /\ reg'[u] = reg[u] /\ op'[u] = op[u]
              \/ pc[u] \notin {"unref", "link"} /\ pc'[u] \notin {"unref", "link"}
      BY <1>1, <2>1, <2>2
    <3> QED
      BY <1>1, <3>1, UsersSame
  <2>11. Counted'
    <3>2. \A n \in Addresses : mutex'[n].init = mutex[n].init /\ (n \notin used => mutex'[n] = mutex[n])
      BY <1>1, <1>m, Names
    <3> QED
      BY <1>1, <2>1, <2>u, <3>2, CountedSame
  <2>12. WillFinalize'
    BY <1>1, <2>1, <2>2 DEF Inv, WillFinalize
  <2>13. Locked'
    <3>1. \A u \in Threads, y \in Mutexes : u # t \/ y # x => InBody(u, y)' = InBody(u, y)
      BY <1>a, <1>1, <2>1, <2>2 DEF InBody, Guarding
    <3>2. ~InBody(t, x) /\ InBody(t, x)'
      BY <1>a, <1>1, <2>1, <2>2 DEF InBody, Guarding
    <3>3. \A u \in Threads, y \in Mutexes :
             Depth(u, y)' = Depth(u, y) + IF u = t /\ y = x THEN 1 ELSE 0
      BY <1>1, <2>1, <3>1, <3>2, DepthInBody
    <3> QED
      BY <1>1, <1>2, <3>3, LockedMore
  <2>14. Initialized' /\ Linked'
    <3>1. \A u \in Threads : (pc'[u] = pc[u] /\ reg'[u] = reg[u])
                                \/ (pc[u] \in MonitorPlaces /\ pc'[u] \in MonitorPlaces)
      BY <1>1, <2>1, <2>2 DEF MonitorPlaces
    <3> QED
      BY <1>k, <1>l, <3>1, SectionsSame
  <2> QED
    BY <2>7, <2>8, <2>9, <2>10, <2>11, <2>12, <2>13, <2>14 DEF Inv
<1> QED
  BY <1>3, <1>4

LEMMA InvExit ==
  ASSUME Inv, ~term, NEW t \in Threads, Exit(t), UNCHANGED cvars
  PROVE  Inv'
<1>a. PICK s, x : s = Last(held[t]) /\ x = mon[s]
  OBVIOUS
<1>1. /\ pc[t] = "idle" /\ held[t] # <<>> /\ s \in Objects
      /\ held' = [held EXCEPT ![t] = Front(@)] /\ UnlockMutex(t, x)
      /\ pc' = pc /\ op' = op /\ reg' = reg
      /\ mon' = mon /\ alive' = alive /\ UNCHANGED <<refs, devt, used, fin>>
  BY <1>a DEF Exit, tvars, mvars
<1>h. /\ held'[t] = Front(held[t]) /\ \A u \in Threads : u # t => held'[u] = held[u]
      /\ held' \in [Threads -> Seq(Objects \cup Sections \cup Pointers)]
      /\ Range(held'[t]) \subseteq Range(held[t]) /\ s \in Range(held[t])
  BY <1>a, <1>1, FrontLast DEF Inv, TypeOK
<1>x. x \in Mutexes /\ MutexOf(s) = x /\ s \in alive /\ x # None
      /\ mutex[x].by = t /\ mutex[x].depth > 0 /\ mutex[x].init
  <2>1. MutexOf(s) = x /\ s \in alive /\ mon[s] # None
    BY <1>a, <1>1, <1>h DEF Inv, UsedExist, MutexOf
  <2> QED
    BY <1>a, <1>h, <2>1, Owner
<1>m. /\ mutex' \in [Mutexes -> [init : BOOLEAN, by : Threads \cup {None}, depth : Nat]]
      /\ \A y \in Mutexes : mutex'[y].init = mutex[y].init /\ (y # x => mutex'[y] = mutex[y])
  BY <1>1, <1>x, UnlockChanges DEF Inv
<1>t. used \subseteq Addresses /\ x \in Addresses \cup User /\ (x \in Addresses => x \in used)
  <2>1. used \subseteq Addresses /\ x \in Addresses \cup User
    BY <1>a, <1>1, <1>x DEF Inv, TypeOK, MonitorTypeOK
  <2>2. x \in Addresses => s \in Users(x)
    BY <1>a, <1>x, UsersAre
  <2> QED
    BY <2>1, <2>2 DEF Inv, Counted
<1>7. TypeOK'
  BY <1>1, <1>h, <1>m DEF Inv, TypeOK, MonitorTypeOK, cvars
<1>8. OpsFit'
  BY <1>1 DEF Inv, OpsFit
<1>9. UsedExist'
  <2>1. \A u \in Threads : \A r \in Range(held'[u]) : r \in Range(held[u])
    BY <1>h
  <2> QED
    BY <1>1, <2>1, UsedLess
<1>10. RegsFit'
  <2>1. ASSUME NEW u \in Threads, Private(u) PROVE Private(u)'
    <3>1. reg[u] # x /\ reg[u] \in Mutexes
      BY <1>a, <1>t, <1>x, <2>1, Names DEF Private
    <3> QED
      BY <1>1, <1>m, <2>1, <3>1 DEF Private
  <2> QED
    BY <1>1, <2>1 DEF Inv, RegsFit
<1>11. Counted'
  <2>1. ASSUME NEW n PROVE Users(n)' = Users(n)
    BY <1>1, UsersSame
  <2>2. \A n \in Addresses : mutex'[n].init = mutex[n].init /\ (n \notin used => mutex'[n] = mutex[n])
    BY <1>m, <1>t, Names
  <2> QED
    BY <1>1, <2>1, <2>2, CountedSame
<1>12. WillFinalize'
  BY <1>1 DEF Inv, WillFinalize
<1>13. Locked'
  <2>1. ASSUME NEW u \in Threads, NEW y \in Mutexes PROVE InBody(u, y)' = InBody(u, y)
    BY <1>1 DEF InBody
  <2>2. \A u \in Threads, y \in Mutexes :
           Depth(u, y)' = Depth(u, y) - IF u = t /\ y = x THEN 1 ELSE 0
    <3>1. \A u \in Threads, y \in Mutexes :
            Depth(u, y)' = Depth(u, y) - IF u = t /\ y = MutexOf(Last(held[t])) THEN 1 ELSE 0
      BY <1>1, <2>1, DepthLeft
    <3> QED
      BY <1>a, <1>x, <3>1
  <2>3. Depth(t, x) > 0
    BY <1>x DEF Inv, Locked
  <2> QED
    BY <1>1, <1>x, <2>2, <2>3, LockedLess
<1>14. Initialized' /\ Linked'
  <2>1. \A c \in Sections \cup Pointers \cup {gcs} : mutex'[c] = mutex[c]
    BY <1>m, <1>t, Names
  <2>2. \A y \in User : mutex'[y].init = mutex[y].init
    BY <1>m, Names
  <2> QED
    BY <1>1, <2>1, <2>2, SectionsSame
<1> QED
  BY <1>7, <1>8, <1>9, <1>10, <1>11, <1>12, <1>13, <1>14 DEF Inv
\* The slots stay a sequence of events.
LEMMA EventsFit ==
  ASSUME NEW s \in Seq(Events \cup {None}), NEW e \in Events
  PROVE  Attached(s, e) \in Seq(Events \cup {None}) /\ Detached(s, e) \in Seq(Events \cup {None})
<1> DEFINE E == Events \cup {None}
<1>1. e \in E /\ None \in E /\ Len(s) \in Nat /\ DOMAIN s = 1 .. Len(s) /\ GrowBy \in Nat
  BY MonitorAssumption
<1> HIDE DEF E
<1>2. s \in Seq(E) /\ \A i \in DOMAIN s : s[i] \in E
  BY <1>1 DEF E
<1>3. Attached(s, e) \in Seq(E)
  <2>1. ASSUME NEW i PROVE [s EXCEPT ![i] = e] \in Seq(E)
    <3>1. [j \in 1 .. Len(s) |-> IF j = i THEN e ELSE s[j]] \in Seq(E)
      BY <1>1, <1>2
    <3>2. [s EXCEPT ![i] = e] = [j \in 1 .. Len(s) |-> IF j = i THEN e ELSE s[j]]
      BY <1>1, <1>2
    <3> QED
      BY <3>1, <3>2
  <2>2. [i \in 1 .. GrowBy |-> IF i = 1 THEN e ELSE None] \in Seq(E)
    BY <1>1
  <2>3. s \o [i \in 1 .. GrowBy |-> IF i = 1 THEN e ELSE None] \in Seq(E)
    BY <1>2, <2>2
  <2> QED
    BY <2>1, <2>3 DEF Attached
<1>4. Detached(s, e) \in Seq(E)
  <2>1. ASSUME NEW p
        PROVE  [i \in DOMAIN s |-> IF i < p THEN s[i] ELSE IF i < Len(s) THEN s[i + 1] ELSE None]
                 \in Seq(E)
    <3>1. \A i \in 1 .. Len(s) :
            (IF i < p THEN s[i] ELSE IF i < Len(s) THEN s[i + 1] ELSE None) \in E
      BY <1>1, <1>2
    <3> QED
      BY <1>1, <3>1
  <2> QED
    BY <1>2, <2>1 DEF Detached
<1> QED
  BY <1>3, <1>4 DEF E

LEMMA InvBody ==
  ASSUME Inv, ~term, NEW t \in Threads, Body(t), UNCHANGED cvars
  PROVE  Inv'
<1>a. PICK m, h : m = reg[t] /\ h = op[t].h
  OBVIOUS
<1>1. /\ pc[t] = "body" /\ h \in Objects /\ h \in alive /\ m = mon[h] /\ m # None
      /\ op[t] \in Operations /\ op[t].kind \in {"attach", "detach"}
      /\ m \in Addresses /\ m \in Mutexes /\ m \in used /\ h \in Users(m)
      /\ UnlockMutex(t, m)
      /\ pc' = [pc EXCEPT ![t] = "idle"] /\ op' = [op EXCEPT ![t] = NoOp]
      /\ reg' = [reg EXCEPT ![t] = None]
      /\ held' = held /\ mon' = mon /\ alive' = alive /\ UNCHANGED <<refs, used, fin>>
  BY <1>a, AtWork, Names DEF Body, Done, Inv, RegsFit, OpsFit
<1>b. InBody(t, m) /\ Depth(t, m) > 0
  BY <1>a, <1>1, DepthIs DEF InBody
<1>x. mutex[m].by = t /\ mutex[m].depth > 0 /\ mutex[m].init
  BY <1>1, <1>b, Owner
<1>m. /\ mutex' \in [Mutexes -> [init : BOOLEAN, by : Threads \cup {None}, depth : Nat]]
      /\ \A y \in Mutexes : mutex'[y].init = mutex[y].init /\ (y # m => mutex'[y] = mutex[y])
  BY <1>1, <1>x, UnlockChanges DEF Inv
<1>t. used \subseteq Addresses /\ alive \subseteq Objects
  BY DEF Inv, TypeOK, MonitorTypeOK
<1>2. /\ \A u \in Threads : u # t => pc'[u] = pc[u] /\ op'[u] = op[u] /\ reg'[u] = reg[u]
      /\ pc'[t] = "idle" /\ op'[t] = NoOp /\ reg'[t] = None
  BY <1>1 DEF Inv, TypeOK, MonitorTypeOK
<1>7. TypeOK'
  <2> DEFINE O == [kind : Kinds, h : Objects \cup {None}, arg : Objects \cup Events \cup {None}]
             D == Seq(Events \cup {None})
  <2>1. NoOp \in O /\ op \in [Threads -> O] /\ devt \in [Addresses -> D]
    BY DEF NoOp, Kinds, Inv, TypeOK, MonitorTypeOK
  <2>2. op[t].arg \in Events
    BY <1>1, Names DEF Operations
  <2>3. PICK d : devt' = [devt EXCEPT ![m] = d] /\ d \in D
    <3>1. devt[m] \in D
      BY <1>1, <2>1
    <3>2. Attached(devt[m], op[t].arg) \in D /\ Detached(devt[m], op[t].arg) \in D
      BY <2>2, <3>1, EventsFit
    <3> HIDE DEF D
    <3> QED
      BY <1>a, <1>1, <2>1, <3>2 DEF Body
  <2> HIDE DEF O, D
  <2>4. op' \in [Threads -> O] /\ devt' \in [Addresses -> D]
    BY <1>1, <2>1, <2>3
  <2>5. pc' \in [Threads -> Places] /\ reg' \in [Threads -> Mutexes \cup {None}]
    BY <1>1 DEF Inv, TypeOK, Places, MonitorPlaces
  <2> QED
    BY <1>1, <1>m, <2>4, <2>5 DEF Inv, TypeOK, MonitorTypeOK, cvars, O, D
<1>8. OpsFit'
  BY <1>2 DEF Inv, OpsFit, Entering, Guarding
<1>9. UsedExist'
  BY <1>1, <1>2, UsedLess
<1>10. RegsFit'
  <2>1. ASSUME NEW u \in Threads, Private(u), u # t PROVE Private(u)'
    <3>1. reg[u] # m /\ reg[u] \in Mutexes /\ reg[u] # None
      BY <1>1, <1>t, <2>1, Names DEF Private
    <3> QED
      BY <1>1, <1>2, <1>m, <2>1, <3>1 DEF Private
  <2> QED
    BY <1>1, <1>2, <2>1 DEF Inv, RegsFit, Entering, Guarding
<1>11. Counted'
  <2>1. ASSUME NEW n PROVE Users(n)' = Users(n)
    <3>1. \A u \in Threads :
              \/ pc'[u] = pc[u] /\ reg'[u] = reg[u] /\ op'[u] = op[u]
              \/ pc[u] \notin {"unref", "link"} /\ pc'[u] \notin {"unref", "link"}
      BY <1>1, <1>2
    <3> QED
      BY <1>1, <3>1, UsersSame
  <2>2. \A n \in Addresses : (\E u \in Threads : reg[u] = n) =>
                                (\E u \in Threads : reg'[u] = n) \/ Users(n) # {}
    BY <1>a, <1>1, <1>2
  <2>3. \A n \in Addresses : mutex'[n].init = mutex[n].init /\ (n \notin used => mutex'[n] = mutex[n])
    BY <1>1, <1>m, Names
  <2> QED
    BY <1>1, <2>1, <2>2, <2>3, CountedSame
<1>12. WillFinalize'
  BY <1>1, <1>2 DEF Inv, WillFinalize
<1>13. Locked'
  <2>1. \A u \in Threads, y \in Mutexes : u # t \/ y # m => InBody(u, y)' = InBody(u, y)
    BY <1>a, <1>1, <1>2 DEF InBody, Guarding
  <2>2. ~InBody(t, m)'
    BY <1>1, <1>2 DEF InBody, Guarding
  <2>3. \A u \in Threads, y \in Mutexes :
           Depth(u, y)' = Depth(u, y) - IF u = t /\ y = m THEN 1 ELSE 0
    BY <1>1, <1>b, <2>1, <2>2, DepthInBody
  <2> QED
    BY <1>1, <1>b, <2>3, LockedLess
<1>14. Initialized' /\ Linked'
  <2>1. \A c \in Sections \cup Pointers \cup {gcs} : mutex'[c] = mutex[c]
    BY <1>1, <1>m, Names
  <2>2. \A y \in User : mutex'[y].init = mutex[y].init
    BY <1>m, Names
  <2>3. \A u \in Threads : (pc'[u] = pc[u] /\ reg'[u] = reg[u])
                              \/ (pc[u] \in MonitorPlaces /\ pc'[u] \in MonitorPlaces)
    BY <1>1, <1>2 DEF MonitorPlaces
  <2> QED
    BY <2>1, <2>2, <2>3, SectionsSame
<1> QED
  BY <1>7, <1>8, <1>9, <1>10, <1>11, <1>12, <1>13, <1>14 DEF Inv
LEMMA InvShare ==
  ASSUME Inv, ~term, NEW t \in Threads, Share(t), UNCHANGED cvars
  PROVE  Inv'
<1>a. PICK m, g : m = reg[t] /\ g = op[t].arg
  OBVIOUS
<1>1. /\ pc[t] = "share" /\ g \in alive /\ g \in Objects /\ mon[g] = None /\ m # None
      /\ op[t] \in Operations /\ op[t].kind = "same"
      /\ m \in Addresses \cup User /\ (m \in Addresses => m \in used)
      /\ pc' = [pc EXCEPT ![t] = "link"]
      /\ refs' = IF m \in User THEN refs ELSE [refs EXCEPT ![m] = refs[m] + 1]
      /\ mon' = mon /\ alive' = alive /\ op' = op /\ reg' = reg /\ held' = held /\ mutex' = mutex
      /\ UNCHANGED <<devt, used, fin>>
  <2>1. op[t] \in Operations /\ op[t].kind = "same" /\ g \in Objects
    BY <1>a, OperationsFit DEF Share, Inv, OpsFit
  <2>2. g \in alive /\ mon[g] = None
    BY <1>a, <2>1 DEF Inv, UsedExist
  <2>3. m \in Addresses \cup User /\ (m \in Addresses => m \in used) /\ m # None
    BY <1>a, AtWork, Names DEF Share
  <2> QED
    BY <1>a, <2>1, <2>2, <2>3 DEF Share
<1>2. pc'[t] = "link" /\ \A u \in Threads : u # t => pc'[u] = pc[u]
  BY <1>1 DEF Inv, TypeOK
<1>r. refs \in [Addresses -> Nat] /\ refs' \in [Addresses -> Nat]
  <2>1. refs \in [Addresses -> Nat]
    BY DEF Inv, TypeOK, MonitorTypeOK
  <2>2. CASE m \in User
    BY <1>1, <2>1, <2>2
  <2>3. CASE m \notin User
    BY <1>1, <2>1, <2>3
  <2> QED
    BY <2>1, <2>2, <2>3
<1>7. TypeOK'
  <2>1. pc' \in [Threads -> Places]
    BY <1>1 DEF Inv, TypeOK, Places, MonitorPlaces
  <2> QED
    BY <1>1, <1>r, <2>1 DEF Inv, TypeOK, MonitorTypeOK, cvars
<1>8. OpsFit'
  BY <1>1, <1>2 DEF Inv, OpsFit, Entering, Guarding
<1>9. UsedExist'
  BY <1>1, UsedLess
<1>10. RegsFit'
  BY <1>1, <1>2 DEF Inv, RegsFit, Private, Entering, Guarding
<1>g. g \notin Users(m)
  <2>1. ASSUME NEW u \in Threads, pc[u] = "unref" PROVE op[u].h # g
    BY <1>1, <2>1 DEF Inv, OpsFit, UsedExist
  <2>2. ASSUME NEW u \in Threads, pc[u] = "link" PROVE op[u].arg # g
    BY <1>a, <1>1, <2>2 DEF Inv, OpsFit, UsedExist
  <2> QED
    BY <1>1, <2>1, <2>2, UsersAre
<1>u. Users(m)' = Users(m) \cup {g} /\ \A n : n # m => Users(n)' = Users(n)
  <2>1. ASSUME NEW n, NEW f
        PROVE  f \in Users(n)' <=> f \in Users(n) \/ (n = m /\ f = g)
    <3>1. (\E u \in Threads : pc'[u] = "link" /\ reg'[u] = n /\ op'[u].arg = f)
            <=> \/ \E u \in Threads : pc[u] = "link" /\ reg[u] = n /\ op[u].arg = f
                \/ n = m /\ f = g
      BY <1>a, <1>1, <1>2
    <3>2. (\E u \in Threads : pc'[u] = "unref" /\ reg'[u] = n /\ op'[u].h = f)
            <=> \E u \in Threads : pc[u] = "unref" /\ reg[u] = n /\ op[u].h = f
      BY <1>1, <1>2
    <3> QED
      BY <1>1, <3>1, <3>2 DEF Users
  <2> QED
    BY <2>1
<1>11. Counted'
  <2>1. m \in Addresses => refs'[m] = Cardinality(Users(m)') /\ mutex[m].init
    <3>1. SUFFICES ASSUME m \in Addresses PROVE refs'[m] = Cardinality(Users(m)') /\ mutex[m].init
      OBVIOUS
    <3>2. Users(m) # {}
      BY <1>a, <1>1, <3>1, AtWork
    <3>3. refs[m] = Cardinality(Users(m)) /\ mutex[m].init
      BY <3>1, <3>2 DEF Inv, Counted
    <3>4. Cardinality(Users(m) \cup {g}) = Cardinality(Users(m)) + 1
      BY <1>g, UsersFinite, FS_AddElement DEF Inv
    <3>5. refs'[m] = refs[m] + 1
      BY <1>1, <1>r, <3>1, Names
    <3> QED
      BY <1>u, <3>3, <3>4, <3>5
  <2>2. \A n \in Addresses : n # m => refs'[n] = refs[n]
    BY <1>1, <1>r
  <2>3. ASSUME NEW n \in Addresses
        PROVE  /\ Users(n)' # {} => n \in used' /\ refs'[n] = Cardinality(Users(n)') /\ mutex'[n].init
               /\ n \in used' => Users(n)' # {} \/ \E u \in Threads : reg'[u] = n
               /\ n \notin used' => mutex'[n] = Raw
    <3>1. CASE n = m
      BY <1>1, <1>u, <2>1, <3>1
    <3>2. CASE n # m
      BY <1>1, <1>u, <2>2, <3>2 DEF Inv, Counted
    <3> QED
      BY <3>1, <3>2
  <2> QED
    BY <2>3 DEF Counted
<1>12. WillFinalize'
  BY <1>1, <1>2 DEF Inv, WillFinalize
<1>13. Locked'
  <2>1. \A u \in Threads, y \in Mutexes : InBody(u, y)' = InBody(u, y)
    BY <1>1, <1>2 DEF InBody, Guarding
  <2> QED
    BY <1>1, <2>1, LockedSame DEF Inv, Locked
<1>14. Initialized' /\ Linked'
  BY <1>1, <1>2, SectionsSame DEF MonitorPlaces
<1> QED
  BY <1>7, <1>8, <1>9, <1>10, <1>11, <1>12, <1>13, <1>14 DEF Inv

\* The ownee has a destructor, so that it will be finalized and counted down.
LEMMA InvLink ==
  ASSUME Inv, ~term, NEW t \in Threads, Link(t), UNCHANGED cvars, Ownees \subseteq Dtor
  PROVE  Inv'
<1>a. PICK m, g : m = reg[t] /\ g = op[t].arg
  OBVIOUS
<1>1. /\ pc[t] = "link" /\ g \in alive /\ g \in Objects /\ g \in Dtor /\ mon[g] = None /\ m # None
      /\ op[t] \in Operations /\ op[t].kind = "same"
      /\ m \in Addresses \cup User /\ (m \in Addresses => m \in used)
      /\ mon' = [mon EXCEPT ![g] = m]
      /\ pc' = [pc EXCEPT ![t] = "idle"] /\ op' = [op EXCEPT ![t] = NoOp]
      /\ reg' = [reg EXCEPT ![t] = None]
      /\ alive' = alive /\ held' = held /\ mutex' = mutex /\ UNCHANGED <<refs, devt, used, fin>>
  <2>1. op[t] \in Operations /\ op[t].kind = "same" /\ g \in Objects /\ g \in Dtor
    BY <1>a, OperationsFit DEF Link, Inv, OpsFit
  <2>2. g \in alive /\ mon[g] = None
    BY <1>a, <2>1 DEF Inv, UsedExist
  <2>3. m \in Addresses \cup User /\ (m \in Addresses => m \in used) /\ m # None
    BY <1>a, AtWork, Names DEF Link
  <2> QED
    BY <1>a, <2>1, <2>2, <2>3 DEF Link, Done
<1>2. /\ \A u \in Threads : u # t => pc'[u] = pc[u] /\ op'[u] = op[u] /\ reg'[u] = reg[u]
      /\ pc'[t] = "idle" /\ op'[t] = NoOp /\ reg'[t] = None
      /\ mon'[g] = m /\ \A f \in Objects : f # g => mon'[f] = mon[f]
      /\ mon' \in [Objects -> Addresses \cup User \cup {None}]
      /\ alive \subseteq Objects
  BY <1>1 DEF Inv, TypeOK, MonitorTypeOK
<1>s. \A u \in Threads : /\ op[u].h # g /\ g \notin Range(held[u])
                         /\ op[u].kind = "same" /\ u # t => op[u].arg # g
  BY <1>a, <1>1 DEF Inv, UsedExist
<1>n. NoOp.kind = "none" /\ NoOp.h = None /\ NoOp.arg = None
  BY DEF NoOp
<1>7. TypeOK'
  <2> DEFINE O == [kind : Kinds, h : Objects \cup {None}, arg : Objects \cup Events \cup {None}]
  <2>1. NoOp \in O /\ op \in [Threads -> O]
    BY DEF NoOp, Kinds, Inv, TypeOK, MonitorTypeOK
  <2> HIDE DEF O
  <2>2. op' \in [Threads -> O]
    BY <1>1, <2>1
  <2>3. pc' \in [Threads -> Places] /\ reg' \in [Threads -> Mutexes \cup {None}]
    BY <1>1 DEF Inv, TypeOK, Places, MonitorPlaces
  <2> QED
    BY <1>1, <1>2, <2>2, <2>3 DEF Inv, TypeOK, MonitorTypeOK, cvars, O
<1>8. OpsFit'
  BY <1>2 DEF Inv, OpsFit, Entering, Guarding
<1>9. UsedExist'
  <2>1. \A u \in Threads : op'[u] = op[u] \/ op'[u] = NoOp
    BY <1>2
  <2>2. \A u \in Threads : op'[u].h # g /\ (op'[u].kind = "same" => op'[u].arg # g)
    BY <1>1, <1>2, <1>n, <1>s, Names
  <2>3. \A f \in alive :
          \/ mon'[f] = mon[f]
          \/ /\ mon'[f] # None
             /\ \A u \in Threads : op'[u].kind = "same" => op'[u].arg # f
             /\ mon'[f] \in User => \A u \in Threads : op'[u].h # f
    BY <1>1, <1>2, <2>2
  <2> QED
    BY <1>1, <2>1, <2>3, UsedLess
<1>10. RegsFit'
  <2>1. ASSUME NEW u \in Threads, Private(u), u # t PROVE Private(u)'
    <3>1. reg[u] # m /\ reg[u] # None
      BY <1>a, <2>1, Names DEF Private, Inv, TypeOK, MonitorTypeOK
    <3> QED
      BY <1>1, <1>2, <2>1, <3>1 DEF Private
  <2>2. ASSUME NEW u \in Threads, u # t,
               pc[u] \in {"publish", "attr", "lose", "lock", "body", "share", "link"}
        PROVE  mon'[op'[u].h] = mon[op[u].h]
    BY <1>2, <1>s, <2>2, AtWork
  <2> QED
    BY <1>1, <1>2, <2>1, <2>2 DEF Inv, RegsFit, Entering, Guarding
<1>u. ASSUME NEW n \in Addresses PROVE Users(n)' = Users(n)
  <2>1. ASSUME NEW f PROVE f \in Users(n)' <=> f \in Users(n)
    <3>1. (\E u \in Threads : pc'[u] = "unref" /\ reg'[u] = n /\ op'[u].h = f)
            <=> \E u \in Threads : pc[u] = "unref" /\ reg[u] = n /\ op[u].h = f
      BY <1>1, <1>2
    <3>2. (\E u \in Threads : pc[u] = "link" /\ reg[u] = n /\ op[u].arg = f)
            <=> \/ \E u \in Threads : pc'[u] = "link" /\ reg'[u] = n /\ op'[u].arg = f
                \/ n = m /\ f = g
      BY <1>a, <1>1, <1>2
    <3>3. f \in alive' /\ mon'[f] = n <=> (f \in alive /\ mon[f] = n) \/ (n = m /\ f = g)
      BY <1>1, <1>2, Names
    <3> QED
      BY <3>1, <3>2, <3>3 DEF Users
  <2> QED
    BY <2>1
<1>11. Counted'
  <2>1. \A n \in Addresses : (\E u \in Threads : reg[u] = n) =>
                                (\E u \in Threads : reg'[u] = n) \/ Users(n) # {}
    <3>1. m \in Addresses => Users(m) # {}
      BY <1>a, <1>1, AtWork
    <3> QED
      BY <1>a, <1>2, <3>1
  <2> QED
    BY <1>1, <1>u, <2>1, CountedSame
<1>12. WillFinalize'
  BY <1>1, <1>2 DEF Inv, WillFinalize
<1>13. Locked'
  <2>1. \A u \in Threads, y \in Mutexes : InBody(u, y)' = InBody(u, y)
    BY <1>1, <1>2 DEF InBody, Guarding
  <2>2. \A u \in Threads : \A s \in Range(held[u]) : s \in Objects => mon'[s] = mon[s]
    BY <1>2, <1>s
  <2> QED
    BY <1>1, <2>1, <2>2, LockedSame DEF Inv, Locked
<1>14. Initialized' /\ Linked'
  <2>1. \A u \in Threads : (pc'[u] = pc[u] /\ reg'[u] = reg[u])
                              \/ (pc[u] \in MonitorPlaces /\ pc'[u] \in MonitorPlaces)
    BY <1>1, <1>2 DEF MonitorPlaces
  <2> QED
    BY <1>1, <2>1, SectionsSame
<1> QED
  BY <1>7, <1>8, <1>9, <1>10, <1>11, <1>12, <1>13, <1>14 DEF Inv
-----------------------------------------------------------------------------
(* The invariant *)

LEMMA InvInit ==
  ASSUME Init
  PROVE  Inv
<1> USE DEF Init, MonitorInit
<1>1. /\ \A t \in Threads : pc[t] = "idle" /\ op[t] = NoOp /\ reg[t] = None /\ held[t] = <<>>
      /\ \A x \in Mutexes : mutex[x] = IF x \in User \cup {gcs} THEN Ready ELSE Raw
      /\ used = {} /\ alive = {} /\ fin = {} /\ made = {} /\ term = FALSE
      /\ head = gcs /\ ohead = None
      /\ \A c \in Sections \cup {gcs} : next[c] = None
  OBVIOUS
<1> DEFINE O == [kind : Kinds, h : Objects \cup {None}, arg : Objects \cup Events \cup {None}]
           R == [init : BOOLEAN, by : Threads \cup {None}, depth : Nat]
<1>2. NoOp \in O /\ Raw \in R /\ Ready \in R
  BY DEF NoOp, Kinds, Raw, Ready
<1>3. TypeOK
  <2> HIDE DEF O, R
  <2>1. op \in [Threads -> O] /\ mutex \in [Mutexes -> R]
    BY <1>2
  <2>2. /\ mon \in [Objects -> Addresses \cup User \cup {None}]
        /\ refs \in [Addresses -> Nat]
        /\ devt \in [Addresses -> Seq(Events \cup {None})]
        /\ held \in [Threads -> Seq(Objects \cup Sections \cup Pointers)]
    OBVIOUS
  <2>3. /\ pc \in [Threads -> Places] /\ reg \in [Threads -> Mutexes \cup {None}]
        /\ next \in [Sections \cup {gcs} -> Sections \cup {gcs, None}]
    BY DEF Places, MonitorPlaces
  <2> QED
    BY <1>1, <2>1, <2>2, <2>3 DEF TypeOK, MonitorTypeOK, O, R
<1> HIDE DEF Init, MonitorInit
<1>n. NoOp.kind = "none"
  BY DEF NoOp
<1>4. OpsFit
  BY <1>1 DEF OpsFit
<1>5. UsedExist
  BY <1>1, <1>n DEF UsedExist, Serving, Range
<1>6. RegsFit
  BY <1>1 DEF RegsFit, Entering, Guarding
<1>7. Counted
  <2>1. \A m : Users(m) = {}
    BY <1>1 DEF Users
  <2> QED
    BY <1>1, <2>1, Names DEF Counted
<1>8. WillFinalize
  BY <1>1 DEF WillFinalize
<1>9. Locked
  <2>1. ASSUME NEW t \in Threads, NEW x PROVE Depth(t, x) = 0
    <3>1. Nested(t, x) = {}
      BY <1>1 DEF Nested
    <3> QED
      BY <1>1, <3>1, FS_EmptySet DEF Depth, InBody, Guarding
  <2> QED
    BY <1>1, <2>1, Names DEF Locked, Raw, Ready
<1>k. \A c \in Sections \cup Pointers : ~Known(c)
  BY <1>1 DEF Known
<1>10. Initialized
  BY <1>1, <1>k, Names DEF Initialized, Ready
<1>11. Linked
  BY <1>1, <1>k DEF Linked, WalkFrom, Static
<1> QED
  BY <1>3, <1>4, <1>5, <1>6, <1>7, <1>8, <1>9, <1>10, <1>11 DEF Inv

LEMMA InvStutter ==
  ASSUME Inv, UNCHANGED vars
  PROVE  Inv'
<1> USE DEF vars, tvars, mvars, cvars, Inv
<1>1. TypeOK' /\ OpsFit' /\ WillFinalize'
  BY DEF TypeOK, MonitorTypeOK, OpsFit, WillFinalize
<1>2. \A c : Known(c)' = Known(c) /\ WalkFrom(c)' = WalkFrom(c)
  BY DEF Known, WalkFrom, Closed, Static
<1>3. UsedExist'
  BY <1>2 DEF UsedExist, Serving
<1>4. RegsFit'
  BY DEF RegsFit, Private
<1>5. Counted'
  <2>1. ASSUME NEW n PROVE Users(n)' = Users(n)
    BY UsersSame
  <2> QED
    BY <2>1, CountedSame
<1>6. Locked'
  BY DEF Locked, Depth, Nested, InBody, MutexOf
<1>7. Initialized' /\ Linked'
  BY <1>2 DEF Initialized, Linked
<1> QED
  BY <1>1, <1>3, <1>4, <1>5, <1>6, <1>7

LEMMA InvStep ==
  ASSUME Inv, Ownees \subseteq Dtor, [Next]_vars
  PROVE  Inv'
<1>1. CASE ~term /\ MonitorNext /\ UNCHANGED cvars
  <2>1. ASSUME NEW h \in Objects, New(h) \/ Sweep(h) PROVE Inv'
    BY <1>1, <2>1, InvNewSweep
  <2>2. ASSUME NEW t \in Threads, MonitorStep(t) PROVE Inv'
    <3>1. ASSUME NEW h \in Objects, Finalize(t, h) PROVE Inv'
      BY <1>1, <3>1, InvFinalize
    <3>2. ASSUME NEW o \in Operations, Begin(t, o) PROVE Inv'
      BY <1>1, <3>2, InvBegin
    <3>3. CASE Unref(t)
      BY <1>1, <3>3, InvUnref
    <3>4. CASE Dispose(t)
      BY <1>1, <3>4, InvDispose
    <3>5. CASE Publish(t)
      BY <1>1, <3>5, InvPublish
    <3>6. CASE SetAttr(t)
      BY <1>1, <3>6, InvSetAttr
    <3>7. CASE Lose(t)
      BY <1>1, <3>7, InvLose
    <3>8. CASE Lock(t)
      BY <1>1, <3>8, InvLock
    <3>9. CASE Exit(t)
      BY <1>1, <3>9, InvExit
    <3>10. CASE Body(t)
      BY <1>1, <3>10, InvBody
    <3>11. CASE Share(t)
      BY <1>1, <3>11, InvShare
    <3>12. CASE Link(t)
      BY <1>1, <3>12, InvLink
    <3> QED
      BY <2>2, <3>1, <3>2, <3>3, <3>4, <3>5, <3>6, <3>7, <3>8, <3>9, <3>10, <3>11, <3>12
         DEF MonitorStep
  <2> QED
    BY <1>1, <2>1, <2>2 DEF MonitorNext
<1>2. ASSUME NEW t \in Threads, CriticalStep(t) PROVE Inv'
  <2>1. ASSUME NEW c \in Sections \cup Pointers, CriticalEnter(t, c) PROVE Inv'
    BY <2>1, InvCriticalEnter
  <2>2. CASE Guard(t)
    BY <2>2, InvGuard
  <2>3. CASE InitSection(t)
    BY <2>3, InvInitSection
  <2>4. CASE SetHead(t)
    BY <2>4, InvSetHead
  <2>5. CASE SetNext(t)
    BY <2>5, InvSetNext
  <2>6. CASE Unguard(t)
    BY <2>6, InvUnguard
  <2>7. CASE LockSection(t)
    BY <2>7, InvLockSection
  <2>8. CASE CriticalExit(t)
    BY <2>8, InvCriticalExit
  <2> QED
    BY <1>2, <2>1, <2>2, <2>3, <2>4, <2>5, <2>6, <2>7, <2>8 DEF CriticalStep
<1>3. CASE CriticalTerm
  BY <1>3, InvCriticalTerm
<1>4. CASE UNCHANGED vars
  BY <1>4, InvStutter
<1> QED
  BY <1>1, <1>2, <1>3, <1>4 DEF Next

\* Every function of monitor_.d and critical_.d keeps the invariant.  An ownee of
\* _d_setSameMutex has a destructor: the monitor of one that has none leaks.
THEOREM InvHolds ==
  ASSUME Ownees \subseteq Dtor
  PROVE  Spec => []Inv
<1>1. Init => Inv
  BY InvInit
<1>2. Inv /\ [Next]_vars => Inv'
  BY InvStep
<1> QED
  BY <1>1, <1>2, PTL DEF Spec

-----------------------------------------------------------------------------
(* What it gives *)

\* Two threads are never inside statements on the same object, on objects that
\* share a monitor, or on the same critical section: a monitor is published
\* and a section initialized by one of those that come first, and the others
\* get the same mutex (ensureMonitor, _d_criticalenter, _d_criticalenter2).
THEOREM SynchronizedExclude ==
  ASSUME Ownees \subseteq Dtor
  PROVE  Spec => []StatementsExclude
<1>1. ASSUME Inv PROVE StatementsExclude
  <2> SUFFICES ASSUME NEW t \in Threads, NEW u \in Threads, t # u,
                      NEW s \in Range(held[t]), NEW r \in Range(held[u])
               PROVE  s # r /\ MutexOf(s) # MutexOf(r)
    BY DEF StatementsExclude
  <2>1. mutex[MutexOf(s)].by = t /\ mutex[MutexOf(r)].by = u
    BY <1>1, Owner
  <2> QED
    BY <2>1
<1> QED
  BY <1>1, InvHolds, PTL

\* Every mutex that is locked, unlocked or destroyed is initialized, belongs
\* to who is in the statement and is free when it is destroyed, and the list
\* that _d_critical_term walks has all initialized sections.
THEOREM MutexesKept ==
  ASSUME Ownees \subseteq Dtor
  PROVE  Spec => []MutexesReady
<1>1. ASSUME Inv PROVE MutexReady
  <2>1. ASSUME NEW t \in Threads, pc[t] \in {"lock", "body", "share", "unref"}
        PROVE  mutex[reg[t]].init
    <3>1. reg[t] \in Addresses \cup User
      BY <1>1, <2>1, AtWork
    <3>2. reg[t] \in Addresses => Users(reg[t]) # {}
      BY <1>1, <2>1, AtWork
    <3>3. ~term
      BY <1>1, <2>1 DEF Inv, Initialized
    <3> QED
      BY <1>1, <3>1, <3>2, <3>3 DEF Inv, Counted, Initialized
  <2>2. ASSUME NEW t \in Threads, pc[t] = "cslock" PROVE mutex[reg[t]].init
    <3>1. Known(reg[t]) /\ reg[t] \in Sections \cup Pointers /\ ~term
      BY <1>1, <2>2 DEF Inv, Initialized, RegsFit, Entering
    <3> QED
      BY <1>1, <3>1 DEF Inv, Initialized
  <2>3. ASSUME NEW t \in Threads, pc[t] = "dispose"
        PROVE  mutex[reg[t]].init /\ mutex[reg[t]].by = None
    BY <1>1, <2>3 DEF Inv, RegsFit, Private, Ready
  <2>4. ASSUME NEW t \in Threads, NEW s \in Range(held[t]) PROVE mutex[MutexOf(s)].by = t
    BY <1>1, Owner
  <2>5. \A x \in Mutexes : mutex[x].by # None => mutex[x].init
    BY <1>1 DEF Inv, Locked
  <2> QED
    BY <2>1, <2>2, <2>3, <2>4, <2>5 DEF MutexReady
<1>2. ASSUME Inv PROVE ListComplete
  BY <1>2 DEF Inv, Linked, ListComplete, Listed
<1> QED
  BY <1>1, <1>2, InvHolds, PTL DEF MutexesReady

\* The count of a monitor is the number of its users, a monitor that is used
\* is allocated, and one that is allocated is used or in the hands of a thread:
\* _d_monitordelete frees it neither too early nor never.
THEOREM CountsExact ==
  ASSUME Ownees \subseteq Dtor
  PROVE  Spec => []MonitorsCounted
<1>1. ASSUME Inv PROVE MonitorsCounted
  <2>1. ASSUME NEW h \in alive, mon[h] \in Addresses PROVE mon[h] \in used
    <3>1. h \in Users(mon[h])
      BY UsersAre
    <3> QED
      BY <1>1, <2>1, <3>1 DEF Inv, Counted
  <2>2. RefsExact
    BY <1>1, <2>1 DEF Inv, Counted, RefsExact
  <2>3. NothingLeaked
    BY <1>1 DEF Inv, Counted, TypeOK, MonitorTypeOK, NothingLeaked
  <2> QED
    BY <2>2, <2>3 DEF MonitorsCounted
<1> QED
  BY <1>1, InvHolds, PTL

-----------------------------------------------------------------------------
(* Dispose events *)

\* Every event has one slot, and the free slots come last.
Slots(s) ==
  \A i, j \in DOMAIN s : i < j => IF s[i] = None THEN s[j] = None ELSE s[i] # s[j]

\* The first of some slots is what the two functions choose.
LEMMA FirstSlot ==
  ASSUME NEW n \in Nat, NEW S \in SUBSET (1 .. n), S # {}
  PROVE  LET p == CHOOSE i \in S : \A j \in S : i <= j IN p \in S /\ \A j \in S : p <= j
<1> DEFINE R == {ss \in Nat \X Nat : ss[1] < ss[2]}
<1>1. IsWellFoundedOn(R, Nat)
  BY NatLessThanWellFounded DEF OpToRel
<1>2. PICK x \in S : \A y \in S : ~ (<<y, x>> \in R)
  <2>1. S \subseteq Nat
    OBVIOUS
  <2> HIDE DEF R
  <2> QED
    BY <1>1, <2>1, WFMin
<1>3. ASSUME NEW y \in S PROVE x <= y
  <2>1. x \in Nat /\ y \in Nat /\ <<y, x>> \notin R
    BY <1>2
  <2> QED
    BY <2>1
<1> QED
  BY <1>3

\* rt_attachDisposeEvent takes the first slot that is free, unless it has the
\* event already, or makes room.
LEMMA AttachedSlots ==
  ASSUME NEW s \in Seq(Events \cup {None}), Slots(s), NEW e \in Events
  PROVE  Slots(Attached(s, e))
<1>1. /\ Len(s) \in Nat /\ DOMAIN s = 1 .. Len(s) /\ GrowBy \in Nat \ {0}
      /\ e # None
  BY MonitorAssumption
<1> DEFINE fits == {i \in DOMAIN s : s[i] \in {None, e}}
<1>2. CASE fits # {}
  <2>1. PICK p : p = CHOOSE i \in fits : \A j \in fits : i <= j
    OBVIOUS
  <2>2. p \in fits /\ \A j \in fits : p <= j
    BY <1>1, <1>2, <2>1, FirstSlot
  <2>3. PICK r : r = [s EXCEPT ![p] = e]
    OBVIOUS
  <2>4. Attached(s, e) = r
    BY <1>2, <2>1, <2>3 DEF Attached
  <2>5. DOMAIN r = DOMAIN s /\ r[p] = e /\ \A i \in DOMAIN s : i # p => r[i] = s[i]
    BY <2>2, <2>3
  <2>6. ASSUME NEW i \in DOMAIN s, i < p PROVE s[i] # None /\ s[i] # e
    BY <1>1, <2>2, <2>6
  <2>7. ASSUME NEW i \in DOMAIN s, p < i PROVE s[i] # e
    BY <1>1, <2>2, <2>7 DEF Slots
  <2>8. ASSUME NEW i \in DOMAIN r, NEW j \in DOMAIN r, i < j
        PROVE  IF r[i] = None THEN r[j] = None ELSE r[i] # r[j]
    <3>1. CASE i = p
      BY <1>1, <2>5, <2>7, <2>8, <3>1
    <3>2. CASE j = p
      BY <1>1, <2>5, <2>6, <2>8, <3>2
    <3>3. CASE i # p /\ j # p
      BY <2>5, <2>8, <3>3 DEF Slots
    <3> QED
      BY <3>1, <3>2, <3>3
  <2> QED
    BY <2>4, <2>8 DEF Slots
<1>3. CASE fits = {}
  <2>1. PICK new : new = [i \in 1 .. GrowBy |-> IF i = 1 THEN e ELSE None]
    OBVIOUS
  <2>2. new \in Seq(Events \cup {None}) /\ Len(new) = GrowBy
    BY <1>1, <2>1
  <2>3. PICK r : r = s \o new
    OBVIOUS
  <2>4. Attached(s, e) = r
    BY <1>3, <2>1, <2>3 DEF Attached
  <2>5. /\ DOMAIN r = 1 .. (Len(s) + GrowBy)
        /\ \A i \in 1 .. Len(s) : r[i] = s[i]
        /\ \A i \in DOMAIN r : i > Len(s) => r[i] = new[i - Len(s)]
    <3> DEFINE E == Events \cup {None}
    <3>1. s \in Seq(E) /\ new \in Seq(E)
      BY <2>2
    <3> HIDE DEF E
    <3>2. /\ r \in Seq(E) /\ Len(r) = Len(s) + Len(new)
          /\ \A i \in 1 .. Len(s) + Len(new) : r[i] = IF i <= Len(s) THEN s[i] ELSE new[i - Len(s)]
      BY <2>3, <3>1, ConcatProperties
    <3>3. DOMAIN r = 1 .. (Len(s) + GrowBy)
      BY <2>2, <3>2
    <3> QED
      BY <1>1, <2>2, <3>2, <3>3
  <2>6. \A i \in DOMAIN r : i > Len(s) => r[i] = IF i = Len(s) + 1 THEN e ELSE None
    BY <1>1, <2>1, <2>5
  <2>7. \A i \in 1 .. Len(s) : s[i] # None /\ s[i] # e
    BY <1>1, <1>3
  <2>8. ASSUME NEW i \in DOMAIN r, NEW j \in DOMAIN r, i < j
        PROVE  IF r[i] = None THEN r[j] = None ELSE r[i] # r[j]
    <3>1. CASE j <= Len(s)
      BY <1>1, <2>5, <2>8, <3>1 DEF Slots
    <3>2. CASE i <= Len(s) /\ j > Len(s)
      BY <1>1, <2>5, <2>6, <2>7, <2>8, <3>2
    <3>3. CASE i > Len(s)
      BY <1>1, <2>5, <2>6, <2>8, <3>3
    <3> QED
      BY <1>1, <2>5, <3>1, <3>2, <3>3
  <2> QED
    BY <2>4, <2>8 DEF Slots
<1> QED
  BY <1>2, <1>3

\* rt_detachDisposeEvent moves the slots after that of the event down by one.
LEMMA DetachedSlots ==
  ASSUME NEW s \in Seq(Events \cup {None}), Slots(s), NEW e \in Events
  PROVE  Slots(Detached(s, e))
<1>1. Len(s) \in Nat /\ DOMAIN s = 1 .. Len(s)
  OBVIOUS
<1> DEFINE fits == {i \in DOMAIN s : s[i] = e}
<1>2. CASE fits # {}
  <2>1. PICK p : p = CHOOSE i \in fits : \A j \in fits : i <= j
    OBVIOUS
  <2>2. p \in DOMAIN s
    BY <1>1, <1>2, <2>1, FirstSlot
  <2>3. PICK r : r = [i \in DOMAIN s |-> IF i < p THEN s[i] ELSE IF i < Len(s) THEN s[i + 1] ELSE None]
    OBVIOUS
  <2>4. Detached(s, e) = r
    BY <1>2, <2>1, <2>3 DEF Detached
  <2>5. ASSUME NEW i \in DOMAIN s, NEW j \in DOMAIN s, i < j
        PROVE  IF r[i] = None THEN r[j] = None ELSE r[i] # r[j]
    <3>1. r[i] = (IF i < p THEN s[i] ELSE s[i + 1]) /\ (i >= p => i + 1 \in DOMAIN s)
      BY <1>1, <2>3, <2>5
    <3>2. CASE j < p
      BY <1>1, <2>2, <2>3, <2>5, <3>1, <3>2 DEF Slots
    <3>3. CASE j >= p /\ j < Len(s)
      <4>1. r[j] = s[j + 1] /\ j + 1 \in DOMAIN s
        BY <1>1, <2>2, <2>3, <3>3
      <4> QED
        BY <1>1, <2>2, <2>5, <3>1, <4>1 DEF Slots
    <3>4. CASE j >= p /\ j = Len(s)
      BY <1>1, <2>2, <2>3, <3>4
    <3> QED
      BY <1>1, <2>2, <3>2, <3>3, <3>4
  <2>6. DOMAIN r = DOMAIN s
    BY <2>3
  <2> QED
    BY <2>4, <2>5, <2>6 DEF Slots
<1>3. CASE fits = {}
  BY <1>3 DEF Detached
<1> QED
  BY <1>2, <1>3

\* Only attach, detach and the end of a monitor change its slots.
LEMMA SlotsMove ==
  ASSUME Inv, [Next]_vars,
         \A m \in Addresses : Slots(devt[m])
  PROVE  \A m \in Addresses : Slots(devt'[m])
<1>0. devt \in [Addresses -> Seq(Events \cup {None})]
  BY DEF Inv, TypeOK, MonitorTypeOK
<1>1. CASE devt' = devt
  BY <1>1
<1>2. ASSUME NEW t \in Threads, Dispose(t) PROVE \A m \in Addresses : Slots(devt'[m])
  <2>1. Slots(<<>>)
    BY DEF Slots
  <2> QED
    BY <1>0, <1>2, <2>1 DEF Dispose
<1>3. ASSUME NEW t \in Threads, Body(t) PROVE \A m \in Addresses : Slots(devt'[m])
  <2>1. PICK x : x = reg[t]
    OBVIOUS
  <2>2. op[t].arg \in Events
    BY <1>3 DEF Body, Inv, OpsFit, Operations
  <2>3. ASSUME x \in Addresses
        PROVE  Slots(Attached(devt[x], op[t].arg)) /\ Slots(Detached(devt[x], op[t].arg))
    BY <1>0, <2>2, <2>3, AttachedSlots, DetachedSlots
  <2>4. PICK d : /\ devt' = [devt EXCEPT ![x] = d]
                 /\ d = Attached(devt[x], op[t].arg) \/ d = Detached(devt[x], op[t].arg)
    BY <1>3, <2>1 DEF Body
  <2> QED
    BY <1>0, <2>3, <2>4
<1>4. ASSUME NEW t \in Threads, CriticalStep(t) PROVE devt' = devt
  BY <1>4 DEF CriticalStep, CriticalEnter, Guard, InitSection, SetHead, SetNext, Unguard,
              LockSection, CriticalExit, mvars
<1>5. CASE CriticalTerm
  BY <1>1, <1>5 DEF CriticalTerm, mvars
<1>6. CASE UNCHANGED vars
  BY <1>1, <1>6 DEF vars, mvars
<1>7. ASSUME NEW h \in Objects, New(h) \/ Sweep(h) PROVE devt' = devt
  BY <1>7 DEF New, Sweep
<1>8. ASSUME NEW t \in Threads, MonitorStep(t)
      PROVE  \A m \in Addresses : Slots(devt'[m])
  <2>1. CASE Dispose(t) \/ Body(t)
    BY <1>2, <1>3, <2>1
  <2>2. CASE \E h \in Objects : Finalize(t, h)
    BY <1>1, <2>2 DEF Finalize
  <2>3. CASE \E o \in Operations : Begin(t, o)
    BY <1>1, <2>3 DEF Begin
  <2>4. CASE Unref(t) \/ Publish(t) \/ SetAttr(t) \/ Lose(t) \/ Lock(t) \/ Exit(t) \/ Share(t) \/ Link(t)
    BY <1>1, <2>4 DEF Unref, Publish, SetAttr, Lose, Lock, Exit, Share, Link, mvars
  <2> QED
    BY <1>8, <2>1, <2>2, <2>3, <2>4 DEF MonitorStep
<1> QED
  BY <1>1, <1>4, <1>5, <1>6, <1>7, <1>8 DEF Next, MonitorNext

\* However objects attach and detach events, an event has one slot, so that it
\* is called once when the object goes, and the free slots come last, so that
\* rt_attachDisposeEvent may stop at the first.
THEOREM EventsStay ==
  ASSUME Ownees \subseteq Dtor
  PROVE  Spec => []EventsKept
<1> DEFINE J == \A m \in Addresses : Slots(devt[m])
<1>1. Init => J
  BY DEF Init, MonitorInit, Slots
<1>2. Inv /\ J /\ [Next]_vars => J'
  BY SlotsMove
<1>3. J => EventsKept
  BY DEF Slots, EventsKept
<1> QED
  BY <1>1, <1>2, <1>3, InvHolds, PTL DEF Spec

=============================================================================
