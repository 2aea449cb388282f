----------------------------- MODULE MCCritical -----------------------------
(* Names that are interchangeable in Critical: it only compares them. *)
EXTENDS Critical

Symmetry ==
  Permutations(Threads) \cup Permutations(Addresses) \cup Permutations(Events)
    \cup Permutations(Sections)
=============================================================================
