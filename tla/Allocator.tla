----------------------------- MODULE Allocator -----------------------------
(***************************************************************************)
(* What the pools of the collector promise to the program, without pages,  *)
(* free lists or offsets: a block handed out does not overlap any other,   *)
(* stays where it is and keeps its size until the program gives it back    *)
(* or the collector takes it, and may grow or shrink in place.             *)
(***************************************************************************)
CONSTANTS Blocks,          \* all places a block can be in
          Overlap(_, _),   \* whether two of them have memory in common
          SameBase(_, _)   \* whether two of them begin at the same address

VARIABLE live              \* the blocks of the program

Fits(b, others) == \A c \in others : ~Overlap(b, c)

Init == live = {}

Allocate(b) == Fits(b, live) /\ live' = live \cup {b}

\* One block given back, or any number taken by a collection.
Release(S) == live' = live \ S

Resize(b, c) ==
  /\ b \in live /\ SameBase(b, c) /\ Fits(c, live \ {b})
  /\ live' = (live \ {b}) \cup {c}

Next ==
  \/ \E b \in Blocks : Allocate(b)
  \/ \E S \in SUBSET live : Release(S)
  \/ \E b \in live, c \in Blocks : Resize(b, c)

Spec == Init /\ [][Next]_live
=============================================================================
