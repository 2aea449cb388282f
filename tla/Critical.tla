------------------------------ MODULE Critical ------------------------------
(***************************************************************************)
(* Synchronized statements: those on an object (module Monitor) and those  *)
(* without one, the critical sections of druntime/src/rt/critical_.d, in   *)
(* the same threads and nested in each other.                              *)
(*                                                                         *)
(* A critical section is either static data, whose mutex is initialized on *)
(* first use (_d_criticalenter), or is allocated on first use and found    *)
(* through a static pointer (_d_criticalenter2).  Both are guarded by the  *)
(* mutex of the section gcs, and both are looked up without it.            *)
(***************************************************************************)
EXTENDS Monitor

CONSTANTS
  Sections,    \* static D_CRITICAL_SECTIONs
  Pointers,    \* static pointers to one
  gcs          \* the section that guards the others

ASSUME CriticalAssumption ==
  /\ Mutexes = Addresses \cup User \cup Sections \cup Pointers \cup {gcs}
  /\ gcs \notin Addresses \cup Objects \cup Sections \cup Pointers
  /\ Sections \cap (Addresses \cup Objects \cup Pointers) = {}
  /\ Pointers \cap (Addresses \cup Objects) = {}
  /\ Addresses \cap Objects = {}

VARIABLES
  next,        \* D_CRITICAL_SECTION.next of the static ones and of gcs
  head,        \* the list of those whose mutex is initialized
  ohead,       \* the local variable of whoever has the guard
  made,        \* the pointers that are set; the section has the name of its pointer
  term         \* _d_critical_term was called

cvars == <<next, head, ohead, made, term>>
vars == <<tvars, held, mvars, mutex, cvars>>

Places == MonitorPlaces \cup {"guard", "init", "head", "next", "unguard", "cslock", "gone"}

Init ==
  /\ MonitorInit
  /\ mutex = [x \in Mutexes |-> IF x \in User \cup {gcs} THEN Ready ELSE Raw]
  /\ next = [c \in Sections \cup {gcs} |-> None]
  /\ head = gcs /\ ohead = None
  /\ made = {}
  /\ term = FALSE

At(t, from, to) == pc[t] = from /\ pc' = [pc EXCEPT ![t] = to]

Known(c) == IF c \in Sections THEN next[c] # None ELSE c \in made

-----------------------------------------------------------------------------

\* The look without the guard.
CriticalEnter(t, c) ==
  /\ At(t, "idle", IF Known(c) THEN "cslock" ELSE "guard")
  /\ Len(held[t]) < MaxHeld
  /\ reg' = [reg EXCEPT ![t] = c]
  /\ UNCHANGED <<op, held, mvars, mutex, cvars>>

\* Fault: no second look.
Guard_Once(t) ==
  /\ At(t, "guard", "init")
  /\ LockMutex(t, gcs)
  /\ UNCHANGED <<op, reg, held, mvars, cvars>>

\* The guard is locked, and it is looked again.
Guard(t) ==
  /\ At(t, "guard", IF Known(reg[t]) THEN "unguard" ELSE "init")
  /\ LockMutex(t, gcs)
  /\ UNCHANGED <<op, reg, held, mvars, cvars>>

\* initMutex
InitSection(t) ==
  /\ At(t, "init", IF reg[t] \in Sections THEN "head" ELSE "next")
  /\ mutex' = [mutex EXCEPT ![reg[t]] = Ready]
  /\ UNCHANGED <<op, reg, held, mvars, cvars>>

\* The section becomes the head of the list.
SetHead(t) ==
  /\ At(t, "head", "next")
  /\ head' = reg[t]
  /\ ohead' = head
  /\ UNCHANGED <<op, reg, held, mvars, mutex, next, made, term>>

\* Fault: the rest of the list is lost.
SetNext_Cuts(t) ==
  /\ At(t, "next", "unguard")
  /\ IF reg[t] \in Sections
       THEN next' = [next EXCEPT ![reg[t]] = gcs] /\ UNCHANGED made
       ELSE made' = made \cup {reg[t]} /\ UNCHANGED next
  /\ ohead' = None
  /\ UNCHANGED <<op, reg, held, mvars, mutex, head, term>>

\* From here on the section is known.
SetNext(t) ==
  /\ At(t, "next", "unguard")
  /\ IF reg[t] \in Sections
       THEN next' = [next EXCEPT ![reg[t]] = ohead] /\ UNCHANGED made
       ELSE made' = made \cup {reg[t]} /\ UNCHANGED next
  /\ ohead' = None
  /\ UNCHANGED <<op, reg, held, mvars, mutex, head, term>>

Unguard(t) ==
  /\ At(t, "unguard", "cslock")
  /\ UnlockMutex(t, gcs)
  /\ UNCHANGED <<op, reg, held, mvars, cvars>>

LockSection(t) ==
  /\ pc[t] = "cslock"
  /\ LockMutex(t, reg[t])
  /\ held' = [held EXCEPT ![t] = Append(@, reg[t])]
  /\ Done(t)
  /\ UNCHANGED <<mvars, cvars>>

\* _d_criticalexit
CriticalExit(t) ==
  /\ pc[t] = "idle" /\ held[t] # <<>> /\ Last(held[t]) \in Sections \cup Pointers
  /\ UnlockMutex(t, Last(held[t]))
  /\ held' = [held EXCEPT ![t] = Front(@)]
  /\ UNCHANGED <<tvars, mvars, cvars>>

\* What a walk from c along next meets: the least set with c that next does
\* not lead out of.
Static == Sections \cup {gcs}
Closed(S) == \A d \in S : next[d] = None \/ next[d] \in S
WalkFrom(c) == {d \in Static : \A S \in SUBSET Static : c \in S /\ Closed(S) => d \in S}
Listed == WalkFrom(head)

\* _d_critical_term, at the end of the program, when one thread is left.
CriticalTerm ==
  /\ ~term
  /\ \A t \in Threads : pc[t] = "idle" /\ held[t] = <<>>
  /\ term' = TRUE
  /\ pc' = [t \in Threads |-> "gone"]
  /\ mutex' = [x \in Mutexes |-> IF x \in Listed THEN Raw ELSE mutex[x]]
  /\ UNCHANGED <<op, reg, held, mvars, next, head, ohead, made>>

CriticalStep(t) ==
  \/ \E c \in Sections \cup Pointers : CriticalEnter(t, c)
  \/ Guard(t) \/ InitSection(t) \/ SetHead(t) \/ SetNext(t) \/ Unguard(t)
  \/ LockSection(t) \/ CriticalExit(t)

Next ==
  \/ ~term /\ MonitorNext /\ UNCHANGED cvars
  \/ \E t \in Threads : CriticalStep(t)
  \/ CriticalTerm

Spec == Init /\ [][Next]_vars

-----------------------------------------------------------------------------
(* Properties *)

TypeOK ==
  /\ MonitorTypeOK
  /\ pc \in [Threads -> Places]
  /\ reg \in [Threads -> Mutexes \cup {None}]
  /\ held \in [Threads -> Seq(Objects \cup Sections \cup Pointers)]
  /\ mutex \in [Mutexes -> [init : BOOLEAN, by : Threads \cup {None}, depth : Nat]]
  /\ next \in [Sections \cup {gcs} -> Sections \cup {gcs, None}]
  /\ head \in Sections \cup {gcs} /\ ohead \in Sections \cup {gcs, None}
  /\ made \subseteq Pointers
  /\ term \in BOOLEAN

\* Two threads are never inside synchronized statements on the same object,
\* on objects that share a monitor, or on the same critical section, however
\* the first uses of it interleave.
MutexOf(s) == IF s \in Objects THEN mon[s] ELSE s
StatementsExclude ==
  \A t, u \in Threads : t # u =>
    \A s \in Range(held[t]), r \in Range(held[u]) : s # r /\ MutexOf(s) # MutexOf(r)

\* A mutex is locked, unlocked and destroyed when it is initialized, and it
\* is neither freed nor initialized again while a thread has it.
MutexReady ==
  /\ \A t \in Threads :
       /\ pc[t] \in {"lock", "body", "cslock", "share", "dispose", "unref"} => mutex[reg[t]].init
       /\ pc[t] = "dispose" => mutex[reg[t]].by = None
       /\ \A s \in Range(held[t]) : mutex[MutexOf(s)].by = t
  /\ \A x \in Mutexes : mutex[x].by # None => mutex[x].init

\* The list has every section whose mutex was initialized, and ends at gcs,
\* unless it is just being changed: _d_critical_term destroys them all.
ListComplete ==
  /\ ohead = None => gcs \in Listed /\ \A c \in Sections : Known(c) => c \in Listed
  /\ term => \A c \in Sections : ~mutex[c].init

\* Both: from the first use to the end of the program.
MutexesReady == MutexReady /\ ListComplete
=============================================================================
