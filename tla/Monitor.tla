------------------------------ MODULE Monitor ------------------------------
(***************************************************************************)
(* The monitors of objects: druntime/src/rt/monitor_.d, with rt_finalize2  *)
(* of druntime/src/rt/lifetime.d, which gives them back.                   *)
(*                                                                         *)
(* An object gets its monitor when a thread first synchronizes on it; the  *)
(* monitor is allocated with calloc, counted, and freed with the last      *)
(* object that uses it.  A monitor is named by its address, and so is the  *)
(* mutex in it.  The sections under gmtx are one step each: what they read *)
(* and write others touch by single atomic accesses only.                  *)
(*                                                                         *)
(* The caller's part: `synchronized` statements are nested; an object is   *)
(* finalized when no thread uses it any more, be it by destroy or by the   *)
(* garbage collector; setSameMutex is called before the ownee is shared    *)
(* ("assert(ownee.__monitor is null)").                                    *)
(***************************************************************************)
EXTENDS Integers, Sequences, FiniteSets, SequencesExt

CONSTANTS
  Threads,
  Objects,     \* places for objects; a place is used again after the object is gone
  Dtor,        \* those whose class has a destructor
  User,        \* those that bring a monitor of their own (Monitor.impl is set)
  Ownees,      \* those that are given the monitor of another object
  Addresses,   \* where calloc may put a monitor
  Events,      \* delegates for rt_attachDisposeEvent
  GrowBy,      \* by how much devt grows: 4 in the code
  MaxHeld,     \* bound on the nesting of synchronized statements
  Mutexes,     \* Addresses, User and whatever else is locked
  None

ASSUME MonitorAssumption ==
  /\ IsFiniteSet(Objects) /\ IsFiniteSet(Threads)
  /\ Dtor \subseteq Objects /\ User \subseteq Dtor /\ Ownees \subseteq Objects \ User
  /\ Addresses \cup User \subseteq Mutexes /\ Addresses \cap User = {}
  /\ None \notin Mutexes \cup Threads \cup Events \cup Objects
  /\ GrowBy \in Nat \ {0} /\ MaxHeld \in Nat

VARIABLES
  pc,        \* where each thread is in its operation
  op,        \* the operation: its kind, the object and what else it is given
  reg,       \* the local variable m of the operation
  held,      \* the synchronized statements each thread is in, outermost first
  mon,       \* Object.__monitor; the monitor of a User object has its name
  refs,      \* Monitor.refs
  devt,      \* Monitor.devt
  used,      \* allocated addresses
  mutex,     \* Monitor.mtx: initialized or not, owner, how often it is locked
  alive,     \* objects that exist
  fin        \* those with the attribute FINALIZE

mvars == <<mon, refs, devt, used, alive, fin>>
tvars == <<pc, op, reg>>

NoOp == [kind |-> "none", h |-> None, arg |-> None]
Kinds == {"none", "enter", "attach", "detach", "same", "delete"}
MonitorPlaces == {"idle", "publish", "attr", "lose", "lock", "body", "share", "link", "unref", "dispose"}

Raw == [init |-> FALSE, by |-> None, depth |-> 0]
Ready == [init |-> TRUE, by |-> None, depth |-> 0]

\* lockMutex and unlockMutex; the mutexes are recursive.
LockMutex(t, x) ==
  /\ mutex[x].by \in {None, t}
  /\ mutex' = [mutex EXCEPT ![x] = [init |-> @.init, by |-> t, depth |-> @.depth + 1]]
UnlockMutex(t, x) ==
  mutex' = [mutex EXCEPT ![x] =
              IF @.depth = 1 THEN Ready ELSE [init |-> @.init, by |-> @.by, depth |-> @.depth - 1]]

MonitorInit ==
  /\ pc = [t \in Threads |-> "idle"]
  /\ op = [t \in Threads |-> NoOp]
  /\ reg = [t \in Threads |-> None]
  /\ held = [t \in Threads |-> <<>>]
  /\ mon = [h \in Objects |-> None]
  /\ refs = [m \in Addresses |-> 0]
  /\ devt = [m \in Addresses |-> <<>>]
  /\ used = {} /\ alive = {} /\ fin = {}

-----------------------------------------------------------------------------
(* Objects come and go *)

InUse(h) == \E t \in Threads : h \in {op[t].h, op[t].arg} \/ h \in Range(held[t])

\* An object is allocated; one with a destructor gets the attribute FINALIZE.
New(h) ==
  /\ h \notin alive /\ ~InUse(h)
  /\ alive' = alive \cup {h}
  /\ fin' = IF h \in Dtor THEN fin \cup {h} ELSE fin \ {h}
  /\ mon' = [mon EXCEPT ![h] = IF h \in User THEN h ELSE None]
  /\ UNCHANGED <<tvars, held, refs, devt, used, mutex>>

\* The collector frees an object without the attribute: nothing is called.
Sweep(h) ==
  /\ h \in alive \ fin /\ ~InUse(h)
  /\ alive' = alive \ {h}
  /\ mon' = [mon EXCEPT ![h] = None]
  /\ UNCHANGED <<tvars, held, refs, devt, used, mutex, fin>>

\* rt_finalize2, in the thread that calls destroy or, if the object has the
\* attribute, in the one that collects.
Finalize(t, h) ==
  /\ pc[t] = "idle" /\ h \in alive /\ ~InUse(h)
  /\ alive' = alive \ {h}
  /\ IF mon[h] \in Addresses
       THEN /\ pc' = [pc EXCEPT ![t] = "unref"]
            /\ op' = [op EXCEPT ![t] = [kind |-> "delete", h |-> h, arg |-> None]]
            /\ reg' = [reg EXCEPT ![t] = mon[h]]
            /\ UNCHANGED mon
       ELSE mon' = [mon EXCEPT ![h] = None] /\ UNCHANGED tvars
  /\ UNCHANGED <<held, refs, devt, used, mutex, fin>>

Done(t) ==
  /\ pc' = [pc EXCEPT ![t] = "idle"]
  /\ op' = [op EXCEPT ![t] = NoOp]
  /\ reg' = [reg EXCEPT ![t] = None]

\* _d_monitordelete counts down.  If that leaves others the pointer stays as
\* it is; the memory of the object is cleared by rt_finalize2 or given back.
Unref(t) ==
  /\ pc[t] = "unref"
  /\ refs' = [refs EXCEPT ![reg[t]] = @ - 1]
  /\ IF refs'[reg[t]] = 0
       THEN pc' = [pc EXCEPT ![t] = "dispose"] /\ UNCHANGED <<op, reg, mon>>
       ELSE Done(t) /\ mon' = [mon EXCEPT ![op[t].h] = None]
  /\ UNCHANGED <<held, devt, used, mutex, alive, fin>>

\* disposeEvent, deleteMonitor, setMonitor(h, null).
Dispose(t) ==
  /\ pc[t] = "dispose"
  /\ used' = used \ {reg[t]}
  /\ mutex' = [mutex EXCEPT ![reg[t]] = Raw]
  /\ devt' = [devt EXCEPT ![reg[t]] = <<>>]
  /\ mon' = [mon EXCEPT ![op[t].h] = None]
  /\ Done(t)
  /\ UNCHANGED <<held, refs, alive, fin>>

-----------------------------------------------------------------------------
(* ensureMonitor, and what needs it *)

AfterEnsure(kind) == IF kind = "same" THEN "share" ELSE "lock"

Operations ==
  [kind : {"enter"}, h : Objects, arg : {None}]
    \cup [kind : {"attach", "detach"}, h : Objects \ User, arg : Events]
    \cup [kind : {"same"}, h : Objects, arg : Ownees]

\* The first look at the object; without a monitor a new one is made.  An
\* object that is just being given a monitor is not used yet.
Begin(t, o) ==
  /\ pc[t] = "idle" /\ Len(held[t]) < MaxHeld
  /\ o.h \in alive /\ \A u \in Threads : op[u].kind = "same" => op[u].arg # o.h
  /\ o.kind \in {"attach", "detach"} => mon[o.h] \notin User
  /\ o.kind = "same" => o.arg \in alive \ {o.h} /\ mon[o.arg] = None /\ ~InUse(o.arg)
  /\ op' = [op EXCEPT ![t] = o]
  /\ \/ /\ mon[o.h] # None
        /\ pc' = [pc EXCEPT ![t] = AfterEnsure(o.kind)]
        /\ reg' = [reg EXCEPT ![t] = mon[o.h]]
        /\ UNCHANGED <<used, mutex>>
     \/ /\ mon[o.h] = None
        /\ \E m \in Addresses \ used :
             /\ used' = used \cup {m}
             /\ mutex' = [mutex EXCEPT ![m] = Ready]
             /\ reg' = [reg EXCEPT ![t] = m]
        /\ pc' = [pc EXCEPT ![t] = "publish"]
  /\ UNCHANGED <<held, mon, refs, devt, alive, fin>>

\* Fault: the pointer is set without looking again.
Publish_Unchecked(t) ==
  /\ pc[t] = "publish"
  /\ mon' = [mon EXCEPT ![op[t].h] = reg[t]]
  /\ refs' = [refs EXCEPT ![reg[t]] = 1]
  /\ pc' = [pc EXCEPT ![t] = "attr"]
  /\ UNCHANGED <<op, reg, held, devt, used, mutex, alive, fin>>

\* The section under gmtx.
Publish(t) ==
  /\ pc[t] = "publish"
  /\ IF mon[op[t].h] = None
       THEN /\ mon' = [mon EXCEPT ![op[t].h] = reg[t]]
            /\ refs' = [refs EXCEPT ![reg[t]] = 1]
            /\ pc' = [pc EXCEPT ![t] = "attr"]
       ELSE pc' = [pc EXCEPT ![t] = "lose"] /\ UNCHANGED <<mon, refs>>
  /\ UNCHANGED <<op, reg, held, devt, used, mutex, alive, fin>>

\* Fault: the object will not be finalized.
SetAttr_Forgotten(t) ==
  /\ pc[t] = "attr"
  /\ pc' = [pc EXCEPT ![t] = AfterEnsure(op[t].kind)]
  /\ UNCHANGED <<op, reg, held, mvars, mutex>>

\* GC.setAttr, for an object without a destructor.
SetAttr(t) ==
  /\ pc[t] = "attr"
  /\ fin' = fin \cup {op[t].h}
  /\ pc' = [pc EXCEPT ![t] = AfterEnsure(op[t].kind)]
  /\ UNCHANGED <<op, reg, held, mon, refs, devt, used, mutex, alive>>

\* Another thread succeeded instead.
Lose(t) ==
  /\ pc[t] = "lose"
  /\ used' = used \ {reg[t]}
  /\ mutex' = [mutex EXCEPT ![reg[t]] = Raw]
  /\ reg' = [reg EXCEPT ![t] = mon[op[t].h]]
  /\ pc' = [pc EXCEPT ![t] = AfterEnsure(op[t].kind)]
  /\ UNCHANGED <<op, held, mon, refs, devt, alive, fin>>

\* _d_monitorenter: the mutex of the monitor, or the lock of the user's.
Lock(t) ==
  /\ pc[t] = "lock"
  /\ LockMutex(t, reg[t])
  /\ IF op[t].kind = "enter"
       THEN held' = [held EXCEPT ![t] = Append(@, op[t].h)] /\ Done(t)
       ELSE pc' = [pc EXCEPT ![t] = "body"] /\ UNCHANGED <<op, reg, held>>
  /\ UNCHANGED mvars

\* _d_monitorexit, at the end of the innermost statement.
Exit(t) ==
  /\ pc[t] = "idle" /\ held[t] # <<>> /\ Last(held[t]) \in Objects
  /\ UnlockMutex(t, mon[Last(held[t])])
  /\ held' = [held EXCEPT ![t] = Front(@)]
  /\ UNCHANGED <<tvars, mvars>>

-----------------------------------------------------------------------------
(* rt_attachDisposeEvent and rt_detachDisposeEvent *)

\* The first slot that is free or has the event already, or a new one.
Attached(s, e) ==
  LET fits == {i \in DOMAIN s : s[i] \in {None, e}} IN
  IF fits # {}
    THEN [s EXCEPT ![CHOOSE i \in fits : \A j \in fits : i <= j] = e]
    ELSE s \o [i \in 1 .. GrowBy |-> IF i = 1 THEN e ELSE None]

\* The first slot that has the event is taken out, the others move down.
Detached(s, e) ==
  LET fits == {i \in DOMAIN s : s[i] = e} IN
  IF fits = {} THEN s
  ELSE LET p == CHOOSE i \in fits : \A j \in fits : i <= j IN
       [i \in DOMAIN s |-> IF i < p THEN s[i] ELSE IF i < Len(s) THEN s[i + 1] ELSE None]

\* The body, and the end of synchronized (h).
Body(t) ==
  /\ pc[t] = "body"
  /\ devt' = [devt EXCEPT ![reg[t]] =
                IF op[t].kind = "attach" THEN Attached(@, op[t].arg) ELSE Detached(@, op[t].arg)]
  /\ UnlockMutex(t, reg[t])
  /\ Done(t)
  /\ UNCHANGED <<held, mon, refs, used, alive, fin>>

-----------------------------------------------------------------------------
(* _d_setSameMutex *)

\* Fault: the ownee is not counted.
Share_Uncounted(t) ==
  /\ pc[t] = "share"
  /\ pc' = [pc EXCEPT ![t] = "link"]
  /\ UNCHANGED <<op, reg, held, mvars, mutex>>

Share(t) ==
  /\ pc[t] = "share"
  /\ refs' = IF reg[t] \in User THEN refs ELSE [refs EXCEPT ![reg[t]] = @ + 1]
  /\ pc' = [pc EXCEPT ![t] = "link"]
  /\ UNCHANGED <<op, reg, held, mon, devt, used, mutex, alive, fin>>

Link(t) ==
  /\ pc[t] = "link"
  /\ mon' = [mon EXCEPT ![op[t].arg] = reg[t]]
  /\ Done(t)
  /\ UNCHANGED <<held, refs, devt, used, mutex, alive, fin>>

-----------------------------------------------------------------------------

MonitorStep(t) ==
  \/ \E h \in Objects : Finalize(t, h)
  \/ \E o \in Operations : Begin(t, o)
  \/ Unref(t) \/ Dispose(t) \/ Publish(t) \/ SetAttr(t) \/ Lose(t)
  \/ Lock(t) \/ Exit(t) \/ Body(t) \/ Share(t) \/ Link(t)

MonitorNext ==
  \/ \E h \in Objects : New(h) \/ Sweep(h)
  \/ \E t \in Threads : MonitorStep(t)

-----------------------------------------------------------------------------
(* Properties *)

MonitorTypeOK ==
  /\ op \in [Threads -> [kind : Kinds, h : Objects \cup {None}, arg : Objects \cup Events \cup {None}]]
  /\ mon \in [Objects -> Addresses \cup User \cup {None}]
  /\ refs \in [Addresses -> Nat]
  /\ devt \in [Addresses -> Seq(Events \cup {None})]
  /\ used \subseteq Addresses
  /\ alive \subseteq Objects /\ fin \subseteq Objects

\* Monitor.refs is the number of objects that use the monitor, those for whom
\* setSameMutex has counted already and those whose finalization has not yet
\* counted down included; the monitor of an object that exists is allocated.
Users(m) ==
  {h \in alive : mon[h] = m}
    \cup {op[t].h : t \in {u \in Threads : pc[u] = "unref" /\ reg[u] = m}}
    \cup {op[t].arg : t \in {u \in Threads : pc[u] = "link" /\ reg[u] = m}}
RefsExact ==
  /\ \A h \in alive : mon[h] \in Addresses => mon[h] \in used
  /\ \A m \in Addresses : Users(m) # {} => refs[m] = Cardinality(Users(m))

\* A monitor is freed when the last object that used it is gone: whatever is
\* allocated belongs to an object, or to an operation that is under way.
NothingLeaked ==
  \A m \in used : Users(m) # {} \/ \E t \in Threads : reg[t] = m

\* Both: monitors are counted exactly, kept while they are used, and freed.
MonitorsCounted == RefsExact /\ NothingLeaked

\* Every attached event has one slot, and the free slots come last, so that
\* it is called once when the object goes and can be taken out again.
EventsKept ==
  \A m \in Addresses : \A i, j \in DOMAIN devt[m] :
    i < j => IF devt[m][i] = None THEN devt[m][j] = None ELSE devt[m][i] # devt[m][j]
=============================================================================
