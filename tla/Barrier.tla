------------------------------ MODULE Barrier ------------------------------
(***************************************************************************)
(* core.sync.barrier.Barrier (druntime/src/core/sync/barrier.d).           *)
(*                                                                         *)
(* wait() is one synchronized(m_lock) section that is left by returning or *)
(* by waiting on m_cond, so that a step is the code up to the next wait or *)
(* to the return.  Parties may be more than the limit, and one that has    *)
(* left may arrive again before others of its group have got m_lock back.  *)
(***************************************************************************)
EXTENDS Integers, FiniteSets

CONSTANTS
  Parties,    \* the threads that use the barrier
  Limit,      \* m_limit
  MaxGroup    \* bound: nobody arrives after that many groups

ASSUME BarrierParties == IsFiniteSet(Parties)
ASSUME BarrierLimit == Limit \in Nat \ {0}    \* in(limit > 0)

VARIABLES
  at,         \* "out", "asleep" in the wait set of m_cond, or "woken": it left
              \* the wait set and is going to own m_lock
  group,      \* the local variable of wait()
  m_group,
  m_count

bvars == <<at, group, m_group, m_count>>

BarrierInit ==
  /\ at = [t \in Parties |-> "out"]
  /\ group = [t \in Parties |-> 0]
  /\ m_group = 0
  /\ m_count = Limit

\* Not the last of its group.
Wait(t) ==
  /\ at[t] = "out" /\ m_count - 1 # 0 /\ m_group < MaxGroup
  /\ m_count' = m_count - 1
  /\ group' = [group EXCEPT ![t] = m_group]
  /\ at' = [at EXCEPT ![t] = "asleep"]
  /\ UNCHANGED m_group

Broadcast ==
  at' = [u \in Parties |-> IF at[u] = "asleep" THEN "woken" ELSE at[u]]

\* Fault: notify() instead of notifyAll().
Last_NotifiesOne(t) ==
  /\ at[t] = "out" /\ m_count - 1 = 0 /\ m_group < MaxGroup
  /\ m_group' = m_group + 1 /\ m_count' = Limit
  /\ \/ \E u \in Parties : at[u] = "asleep" /\ at' = [at EXCEPT ![u] = "woken"]
     \/ UNCHANGED at /\ \A u \in Parties : at[u] # "asleep"
  /\ UNCHANGED group

\* The last of its group alerts the others; group # m_group, and it returns.
Last(t) ==
  /\ at[t] = "out" /\ m_count - 1 = 0 /\ m_group < MaxGroup
  /\ m_group' = m_group + 1
  /\ m_count' = Limit
  /\ Broadcast
  /\ UNCHANGED group

\* Fault: the group is not tested again.
WaitReturns_Untested(t) ==
  /\ at[t] = "woken"
  /\ at' = [at EXCEPT ![t] = "out"]
  /\ UNCHANGED <<group, m_group, m_count>>

\* m_cond.wait() has returned, and the loop tests the group.
WaitReturns(t) ==
  /\ at[t] = "woken"
  /\ at' = [at EXCEPT ![t] = IF group[t] = m_group THEN "asleep" ELSE "out"]
  /\ UNCHANGED <<group, m_group, m_count>>

\* m_cond.wait() may return without a notification.
WakeUnnotified(t) ==
  /\ at[t] = "asleep"
  /\ at' = [at EXCEPT ![t] = "woken"]
  /\ UNCHANGED <<group, m_group, m_count>>

BarrierNext == \E t \in Parties : Wait(t) \/ Last(t) \/ WaitReturns(t) \/ WakeUnnotified(t)

BarrierSpec == BarrierInit /\ [][BarrierNext]_bvars

\* A woken thread gets m_lock.
BarrierFairness == \A t \in Parties : WF_bvars(WaitReturns(t))

-----------------------------------------------------------------------------
(* Properties *)

BarrierTypeOK ==
  /\ at \in [Parties -> {"out", "asleep", "woken"}]
  /\ group \in [Parties -> Nat]
  /\ m_group \in Nat
  /\ m_count \in 1 .. Limit

\* The barrier as its clients see it: a thread of a group that was completed
\* is free to go, whatever m_cond has done with it.
place ==
  [t \in Parties |->
     IF at[t] = "out" THEN "out" ELSE IF group[t] = m_group THEN "held" ELSE "released"]

Clients == INSTANCE Rendezvous WITH Threads <- Parties

\* "releases threads in groups of limit in size": nobody passes before the
\* group is complete, and a thread that comes back early counts for the next
\* group and does not take the place of one that is still leaving.
ImplementsRendezvous == Clients!Spec

\* Who was released is not left asleep when those of the next group are there.
ReleasedAwake == \A t \in Parties : at[t] = "asleep" => group[t] = m_group

\* Everybody who was released leaves.
ReleasedLeave == \A t \in Parties : place[t] = "released" ~> place[t] = "out"
=============================================================================
