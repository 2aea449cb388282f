--------------------------- MODULE MCMarkAndPools ---------------------------
(***************************************************************************)
(* The instances of ParallelMark and of the two kinds of pools that are    *)
(* model-checked.  A behaviour is one of either module.                    *)
(***************************************************************************)
EXTENDS ParallelMark, LargePool, SmallPools

CONSTANTS ma, mb, mc, md, me

VARIABLE kind

\* A heap with a branch that makes local stacks overflow and a cycle; roots
\* that are too few for everybody to have some, that are not, that repeat, and
\* from which not everything is reached.
MCObjects == {ma, mb, mc, md, me}
MCSucc == [o \in MCObjects |->
  CASE o = ma -> {mb, mc, md} [] o = mb -> {md} [] o = mc -> {me} [] o = md -> {} [] o = me -> {mc}]
MCRootLists == {<<>>, <<mb>>, <<ma>>, <<md, ma, mc>>, <<ma, mb, ma>>}

\* A pool of two pages and one of a single page, for objects of two sizes.
MCPoolPages == <<2, 1>>
MCPerPage == [small |-> 2, tiny |-> 2]
MCFinals == {<<1, 0, 1>>}

MCInit == Init /\ LargeInit /\ SmallInit /\ kind \in {"mark", "large", "small"}

MCNext ==
  /\ UNCHANGED kind
  /\ \/ kind = "mark" /\ Next /\ UNCHANGED <<lvars, svars>>
     \/ kind = "large" /\ LargeNext /\ UNCHANGED <<vars, svars>>
     \/ kind = "small" /\ SmallNext /\ UNCHANGED <<vars, lvars>>

MCSpec == MCInit /\ [][MCNext]_<<vars, lvars, svars, kind>> /\ Fairness
=============================================================================
