------------------------------- MODULE RWLock -------------------------------
(***************************************************************************)
(* What core.sync.rwmutex promises to its clients, without counters,       *)
(* condition variables or wake-ups: threads ask for a read or a write lock *)
(* and are granted one when nobody incompatible holds the mutex and the    *)
(* policy does not give precedence to somebody who already asked.          *)
(***************************************************************************)
CONSTANT Threads           \* the client threads

VARIABLES policy,          \* the Policy the mutex was constructed with
          phase            \* what each thread has asked for or holds

Phases == {"idle", "wantRead", "read", "wantWrite", "write"}

In(p) == {t \in Threads : phase[t] = p}

Set(t, p) == phase' = [phase EXCEPT ![t] = p]

Init == policy \in {"PREFER_READERS", "PREFER_WRITERS"} /\ phase = [t \in Threads |-> "idle"]

\* A client asks for a lock, or gives up asking when its time is over.
Ask(t) ==
  \/ phase[t] = "idle" /\ \E p \in {"wantRead", "wantWrite"} : Set(t, p)
  \/ phase[t] \in {"wantRead", "wantWrite"} /\ Set(t, "idle")

\* A grant may follow a request or be immediate (tryLock).  Readers yield to
\* waiting writers under PREFER_WRITERS.
GrantRead(t) ==
  /\ phase[t] \in {"idle", "wantRead"}
  /\ In("write") = {}
  /\ policy = "PREFER_WRITERS" => In("wantWrite") = {}
  /\ Set(t, "read")

\* Writers yield to waiting readers under PREFER_READERS.
GrantWrite(t) ==
  /\ phase[t] \in {"idle", "wantWrite"}
  /\ In("read") = {} /\ In("write") = {}
  /\ policy = "PREFER_READERS" => In("wantRead") = {}
  /\ Set(t, "write")

Release(t) ==
  /\ phase[t] \in {"read", "write"}
  /\ Set(t, "idle")

Next ==
  /\ \E t \in Threads : Ask(t) \/ GrantRead(t) \/ GrantWrite(t) \/ Release(t)
  /\ UNCHANGED policy

Spec == Init /\ [][Next]_<<policy, phase>>
=============================================================================
