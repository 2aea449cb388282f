--------------------------- MODULE MCConditionWin ---------------------------
(* Several choices of threads in one run: those outside the group chosen at  *)
(* the start never do anything.                                              *)
EXTENDS ConditionWin

CONSTANT Groups

VARIABLE group

MCInit == Init /\ group \in Groups

MCNext ==
  /\ Next
  /\ \A t \in Threads \ group : pc'[t] = "out"
  /\ UNCHANGED group

MCSpec == MCInit /\ [][MCNext]_<<vars, group>> /\ Fairness
=============================================================================
