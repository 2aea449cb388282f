----------------------------- MODULE LargePool -----------------------------
(***************************************************************************)
(* LargeObjectPool of the conservative collector                           *)
(* (core/internal/gc/impl/conservative/gc.d): a pool of pages for objects  *)
(* larger than half a page.  A block is a run of pages, the first B_PAGE   *)
(* and the others B_PAGEPLUS.  bPageOffsets has the number of pages at the *)
(* first page of a block, the distance to that page at the others, and the *)
(* length of a run of free pages at its first and its last page only; what *)
(* the pages in between have is left from earlier.                         *)
(*                                                                         *)
(* Every operation is called with gcLock held and is one step.  Bigalloc   *)
(* asks one pool after the other; a pool shares nothing with the others.   *)
(***************************************************************************)
EXTENDS Integers, FiniteSetsExt

CONSTANTS
  NPages,     \* npages
  BasePage,   \* baseAddr / PAGESIZE
  Aligns      \* the alignments asked for, in pages

ASSUME NPagesAssumption == NPages \in Nat \ {0} /\ BasePage \in Nat
ASSUME AlignsAssumption == Aligns \subseteq Nat \ {0}

VARIABLES pagetable, bPageOffsets, freepages, searchStart, largestFree

lvars == <<pagetable, bPageOffsets, freepages, searchStart, largestFree>>

Pages == 0 .. NPages - 1

FreePages == {i \in Pages : pagetable[i] = "B_FREE"}
Bases == {i \in Pages : pagetable[i] = "B_PAGE"}

-----------------------------------------------------------------------------
(* bPageOffsets *)

\* setFreePageOffsets
SetFree(offsets, page, num) ==
  [offsets EXCEPT ![page] = num, ![page + num - 1] = num]

SetFreeIfAny(offsets, page, num) ==
  IF num > 0 THEN SetFree(offsets, page, num) ELSE offsets

\* The entries of a block of n pages at page.
SetBlock(offsets, page, n) ==
  [j \in Pages |->
     IF j = page THEN n ELSE IF j \in page .. page + n - 1 THEN j - page ELSE offsets[j]]

SetBlockPages(page, n) ==
  [j \in Pages |->
     IF j = page THEN "B_PAGE"
     ELSE IF j \in page .. page + n - 1 THEN "B_PAGEPLUS" ELSE pagetable[j]]

\* mergeFreePageOffsets: pages freed at page are joined with the free runs
\* after and, if bwd, before them.
MergeFree(offsets, bwd, page, num) ==
  LET last == page + num
      before == IF bwd /\ page > 0 /\ pagetable[page - 1] = "B_FREE"
                  THEN offsets[page - 1] ELSE 0
      after == IF last < NPages /\ pagetable[last] = "B_FREE" THEN offsets[last] ELSE 0
  IN  SetFree(offsets, page - before, before + num + after)

LargeInit ==
  /\ pagetable = [i \in Pages |-> "B_FREE"]
  /\ bPageOffsets = [i \in Pages |-> IF i \in {0, NPages - 1} THEN NPages ELSE 0]
  /\ freepages = NPages
  /\ searchStart = 0
  /\ largestFree = NPages

-----------------------------------------------------------------------------
(* allocPages *)

\* Where a walk from i comes by, from one block or free run to the next.
Walk ==
  LET walk[i \in 0 .. NPages] ==
        IF i < NPages /\ i + bPageOffsets[i] \in i + 1 .. NPages
          THEN {i} \cup walk[i + bPageOffsets[i]] ELSE {i}
  IN  walk

\* The first of them that does not begin a block.
SkipBlocks(i) == Min(Walk[i] \ Bases)

\* searchStart after it was moved past the blocks that begin there.
NewStart ==
  LET s == searchStart
      first == s - bPageOffsets[s]
  IN  SkipBlocks(IF pagetable[s] = "B_PAGEPLUS" THEN first + bPageOffsets[first] ELSE s)

\* The free runs the search comes by.
Runs == Walk[NewStart] \cap FreePages

\* The first page from i on that has the alignment.
Aligned(i, align) == i + ((- (BasePage + i)) % align)

Fitting(n, align) == {i \in Runs : Aligned(i, align) + n <= i + bPageOffsets[i]}

\* The early return of allocPages.
Hopeless(n) == largestFree < n \/ searchStart + n > NPages

Fails(n, align) == Hopeless(n) \/ Fitting(n, align) = {}

Take(n, align) ==
  /\ ~Hopeless(n) /\ Fitting(n, align) # {}
  /\ LET i == Min(Fitting(n, align))
         page == Aligned(i, align)
         behind == SetFreeIfAny(bPageOffsets, page + n, i + bPageOffsets[i] - (page + n))
         around == SetFreeIfAny(behind, i, page - i)
     IN  /\ pagetable' = SetBlockPages(page, n)
         /\ bPageOffsets' = SetBlock(around, page, n)
  /\ searchStart' = NewStart
  /\ freepages' = freepages - n
  /\ UNCHANGED largestFree

\* Nothing fits: the longest run found is remembered.
TakeNothing(n, align) ==
  /\ ~Hopeless(n) /\ Fitting(n, align) = {}
  /\ searchStart' = NewStart
  /\ largestFree' = IF Runs = {} THEN 0
                    ELSE Max({bPageOffsets[i] : i \in Runs})
  /\ UNCHANGED <<pagetable, bPageOffsets, freepages>>

allocPages(n, align) == Take(n, align) \/ TakeNothing(n, align)

-----------------------------------------------------------------------------
(* Freeing *)

MarkFree(page, n) ==
  pagetable' = [j \in Pages |-> IF j \in page .. page + n - 1 THEN "B_FREE" ELSE pagetable[j]]

\* Fault: the estimate of the first free page is not moved back.
FreePages_KeepsStart(page, n) ==
  /\ MarkFree(page, n)
  /\ freepages' = freepages + n
  /\ largestFree' = freepages'
  /\ UNCHANGED searchStart

\* freePages, all but the offsets
FreePagesAt(page, n) ==
  /\ MarkFree(page, n)
  /\ searchStart' = IF page < searchStart THEN page ELSE searchStart
  /\ freepages' = freepages + n
  /\ largestFree' = freepages'

\* freeNoSync, and runFinalizers for one object
LargeFree(page) ==
  /\ page \in Bases
  /\ FreePagesAt(page, bPageOffsets[page])
  /\ bPageOffsets' = MergeFree(bPageOffsets, TRUE, page, bPageOffsets[page])

\* reallocNoSync, in place with fewer pages
Shrink(page, newsz) ==
  LET psz == bPageOffsets[page] IN
  /\ page \in Bases /\ newsz < psz
  /\ FreePagesAt(page + newsz, psz - newsz)
  /\ bPageOffsets' =
       [MergeFree(bPageOffsets, FALSE, page + newsz, psz - newsz) EXCEPT ![page] = newsz]

\* sweep: one pass over blocks and free runs that joins what is free between
\* two marked blocks.
LargeSweep(marked) ==
  LET dead == Bases \ marked
      freed == UNION {page .. page + bPageOffsets[page] - 1 : page \in dead}
      free == FreePages \cup freed
      Run(i) == {j \in free : \A k \in (i .. j) \cup (j .. i) : k \in free}
  IN
  /\ dead # {}
  /\ pagetable' = [i \in Pages |-> IF i \in free THEN "B_FREE" ELSE pagetable[i]]
  /\ bPageOffsets' =
       [i \in Pages |-> IF i \in free /\ ~ {i - 1, i + 1} \subseteq free
                          THEN Cardinality(Run(i)) ELSE bPageOffsets[i]]
  /\ searchStart' = Min({searchStart} \cup dead)
  /\ freepages' = freepages + Cardinality(freed)
  /\ largestFree' = freepages'

-----------------------------------------------------------------------------
(* Growing in place *)

\* Fault: what is left of the free run keeps its old entries.
Grow_Rest(page, sz) ==
  LET psz == bPageOffsets[page] IN
  /\ pagetable' = SetBlockPages(page, psz + sz)
  /\ bPageOffsets' = SetBlock(bPageOffsets, page, psz + sz)
  /\ freepages' = freepages - sz
  /\ UNCHANGED <<searchStart, largestFree>>

\* sz pages of the free run behind a block become its last pages.
Grow(page, sz) ==
  LET psz == bPageOffsets[page]
      rest == bPageOffsets[page + psz] - sz
  IN
  /\ pagetable' = SetBlockPages(page, psz + sz)
  /\ bPageOffsets' =
       SetBlock(SetFreeIfAny(bPageOffsets, page + psz + sz, rest), page, psz + sz)
  /\ freepages' = freepages - sz
  /\ UNCHANGED <<searchStart, largestFree>>

\* Fault: one free page behind the block is taken for enough.
Expand_AnyRoom(page, newsz) ==
  LET psz == bPageOffsets[page] IN
  /\ page \in Bases /\ newsz > psz
  /\ page + newsz <= NPages
  /\ pagetable[page + psz] = "B_FREE"
  /\ Grow(page, newsz - psz)

\* reallocNoSync, in place with more pages
Expand(page, newsz) ==
  LET psz == bPageOffsets[page] IN
  /\ page \in Bases /\ newsz > psz
  /\ page + newsz <= NPages
  /\ pagetable[page + psz] = "B_FREE"
  /\ bPageOffsets[page + psz] >= newsz - psz
  /\ Grow(page, newsz - psz)

\* extendNoSync
Extend(page, minsz, maxsz) ==
  LET next == page + bPageOffsets[page] IN
  /\ page \in Bases /\ next < NPages
  /\ pagetable[next] = "B_FREE"
  /\ bPageOffsets[next] >= minsz
  /\ Grow(page, IF bPageOffsets[next] > maxsz THEN maxsz ELSE bPageOffsets[next])

Sizes == 1 .. NPages

LargeNext ==
  \/ \E n \in Sizes, align \in Aligns : allocPages(n, align)
  \/ \E page \in Pages : LargeFree(page)
  \/ \E page \in Pages, newsz \in Sizes : Shrink(page, newsz) \/ Expand(page, newsz)
  \/ \E page \in Pages, minsz, maxsz \in Sizes : minsz <= maxsz /\ Extend(page, minsz, maxsz)
  \/ \E marked \in SUBSET Bases : LargeSweep(marked)

-----------------------------------------------------------------------------
(* Properties *)

\* LargeObjectPool.Invariant, for every page instead of along the walk: blocks
\* and free runs follow each other without gaps, each entry of a block leads
\* to its first page, and both ends of a free run know its length.
OffsetsRight ==
  /\ 0 \in FreePages \cup Bases
  /\ \A i \in Bases :
       /\ bPageOffsets[i] \in 1 .. NPages - i
       /\ \A j \in i + 1 .. i + bPageOffsets[i] - 1 :
            pagetable[j] = "B_PAGEPLUS" /\ bPageOffsets[j] = j - i
       /\ i + bPageOffsets[i] < NPages => pagetable[i + bPageOffsets[i]] # "B_PAGEPLUS"
  /\ \A i \in FreePages : i - 1 \notin FreePages =>
       /\ bPageOffsets[i] \in 1 .. NPages - i
       /\ \A j \in i .. i + bPageOffsets[i] - 1 : j \in FreePages
       /\ LET end == i + bPageOffsets[i] - 1 IN
            /\ bPageOffsets[end] = bPageOffsets[i]
            /\ end + 1 < NPages => pagetable[end + 1] = "B_PAGE"
  /\ freepages = Cardinality(FreePages)

\* allocPages fails only if there is no room: the estimates searchStart and
\* largestFree, moved by allocation, by four ways of freeing and by failures,
\* but not by growth in place, never hide a free run that is long enough.
RoomFound ==
  \A n \in Sizes, align \in Aligns :
    Fails(n, align) =>
      \A page \in Pages :
        (BasePage + page) % align = 0 => ~(page .. page + n - 1 \subseteq FreePages)

largeBlocks == {<<i, bPageOffsets[i]>> : i \in Bases}

CommonPages(x, y) == x[1] < y[1] + y[2] /\ y[1] < x[1] + x[2]

SamePage(x, y) == x[1] = y[1]

LargeAbstract ==
  INSTANCE Allocator WITH Blocks <- Pages \X Sizes, live <- largeBlocks,
                          Overlap <- CommonPages, SameBase <- SamePage

\* Blocks never overlap, and keep their place and size but for what the
\* program or the collector does to them: none is taken for free pages, joined
\* with a neighbour or grown over it.
LargeImplements == LargeAbstract!Spec
=============================================================================
