----------------------------- MODULE Rendezvous -----------------------------
(***************************************************************************)
(* What core.sync.barrier promises: threads are released in groups of      *)
(* Limit.  A thread that arrives is held until the group is complete; the  *)
(* threads of a released group then leave one by one, while others may     *)
(* already gather for the next.                                            *)
(***************************************************************************)
EXTENDS Integers, FiniteSets

CONSTANTS Threads, Limit

VARIABLE place   \* of each thread: "out", "held" or "released"

Places == {"out", "held", "released"}

Held == {t \in Threads : place[t] = "held"}

Init == place = [t \in Threads |-> "out"]

Gather(t) ==
  /\ place[t] = "out" /\ Cardinality(Held) < Limit - 1
  /\ place' = [place EXCEPT ![t] = "held"]

\* t completes the group and does not have to wait.
Complete(t) ==
  /\ place[t] = "out" /\ Cardinality(Held) = Limit - 1
  /\ place' = [u \in Threads |-> IF u \in Held THEN "released" ELSE place[u]]

Leave(t) ==
  /\ place[t] = "released"
  /\ place' = [place EXCEPT ![t] = "out"]

Next == \E t \in Threads : Gather(t) \/ Complete(t) \/ Leave(t)

Spec == Init /\ [][Next]_place
=============================================================================
