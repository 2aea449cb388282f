-------------------------- MODULE LibrariesAtExit --------------------------
(* Libraries with a single library, in threads that end in any order. *)
EXTENDS Libraries

NothingNeeded == [l \in Library |-> <<>>]
=============================================================================
