-------------------------- MODULE ForkCollectFaults --------------------------
(***************************************************************************)
(* ForkCollect in a system that is short of processes: fork() may fail.    *)
(***************************************************************************)
EXTENDS ForkCollect

\* markFork: fork() failed.  disableFork, and back to Lmark.
MarkForkFails ==
  /\ pc = "stopped" /\ shouldFork /\ ~block
  /\ markProcPid' = FALSE /\ shouldFork' = FALSE
  /\ pc' = "full"
  /\ UNCHANGED <<heap, mark, program, minimizeNext, suspendDepth, request, toSweep,
                 process, recent>>

FaultySpec == Init /\ [][Next \/ MarkForkFails]_vars
=============================================================================
