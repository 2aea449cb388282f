------------------------------- MODULE MCSync -------------------------------
(***************************************************************************)
(* The instance of ReadWriteMutex that is model-checked with both          *)
(* policies, and that of Barrier.  They share nothing: a behaviour is one  *)
(* of either.                                                              *)
(***************************************************************************)
EXTENDS RWMutex, Barrier

VARIABLE kind

\* Under PREFER_WRITERS no client calls Writer.tryLock(Duration): such a call
\* can leave readers asleep (QueuedReadersAlerted).
NoTimedWriter ==
  preferWriters => \A t \in Threads : timed'[t] => pc'[t] \in {"rwait", "rwoken"}

MCInit == Init /\ BarrierInit /\ kind \in {"rwmutex", "barrier"}

MCNext ==
  /\ UNCHANGED kind
  /\ \/ kind = "rwmutex" /\ Next /\ NoTimedWriter /\ UNCHANGED bvars
     \/ kind = "barrier" /\ BarrierNext /\ UNCHANGED vars

MCSpec == MCInit /\ [][MCNext]_<<vars, bvars, kind>> /\ Fairness /\ BarrierFairness
=============================================================================
