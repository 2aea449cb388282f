----------------------------- MODULE SmallPools -----------------------------
(***************************************************************************)
(* Small objects of the conservative collector                             *)
(* (core/internal/gc/impl/conservative/gc.d): SmallObjectPool and what Gcx *)
(* does with it.  A page has objects of one size, its bin.  Free memory is *)
(* found in three ways: the list bucket[bin] of free objects, threaded     *)
(* through their memory; pages with dead objects that have not been looked *)
(* at since the last collection, chained per bin from recoverPageFirst;    *)
(* and free pages, chained from searchStart.  Both chains are in           *)
(* binPageChain, and pages in neither of them are marked PageRecovered.    *)
(*                                                                         *)
(* All this is done with gcLock held.  A step is a call, or one of the     *)
(* attempts of smallAlloc, which asks the three in turn and then collects  *)
(* or maps a pool.  Pools are numbered in the order of their addresses,    *)
(* which is that of pooltable.                                             *)
(* No collection is marked by a process of its own here: fullcollect ends  *)
(* with a sweep (ForkCollect has the ones that do not).                    *)
(***************************************************************************)
EXTENDS Integers, FiniteSetsExt

CONSTANTS
  Pools,       \* where a pool can be mapped
  PoolPages,   \* npages of each
  PerPage,     \* how many objects a page of each bin has
  Finals,      \* places where objects with a finalizer are
  Null

Bins == DOMAIN PerPage
PageNumbers(k) == 0 .. PoolPages[k] - 1

\* The objects a page would have if it belonged to bin b.
ObjectsOf(k, n, b) == {<<k, n, i>> : i \in 1 .. PerPage[b]}

Slots == UNION {UNION {ObjectsOf(k, n, b) : n \in PageNumbers(k), b \in Bins} : k \in Pools}

ASSUME PoolsAssumption == Pools \subseteq Nat /\ PoolPages \in [Pools -> Nat \ {0}]
ASSUME PerPageAssumption == \A b \in Bins : PerPage[b] \in Nat \ {0}
ASSUME FiniteAssumption == IsFiniteSet(Pools) /\ IsFiniteSet(Bins)
ASSUME NullAssumption == Null \notin Slots /\ Null \notin Pools /\ Null \notin Bins
ASSUME FinalsAssumption == Finals \subseteq Slots

VARIABLES
  mapped,             \* the pools in pooltable
  bin,                \* pagetable: bin[k][n], Null for B_FREE
  binPageChain,       \* the next page of the chain a page is in
  recoverPageFirst,
  firstFree,          \* searchStart, in a small pool the first free page
  nfree,              \* freepages
  used,               \* objects whose bit in freebits is clear
  next,               \* List.next, in the memory of objects on a free list
  bucket, recoverPool,
  usedSmallPages,
  want,               \* the bin smallAlloc was called for
  stage,              \* how far smallAlloc is
  lost                \* history: freed by runFinalizers, and on no list

pages == <<bin, binPageChain, recoverPageFirst, firstFree, nfree>>
lists == <<next, bucket>>
svars == <<mapped, pages, used, lists, recoverPool, usedSmallPages, want, stage, lost>>

PageRecovered == -1   \* uint.max

PagesOf(S) == UNION {{k} \X PageNumbers(k) : k \in S}

BinOf(s) == bin[s[1]][s[2]]

SmallInit ==
  /\ mapped = {}
  /\ bin = [k \in Pools |-> [n \in PageNumbers(k) |-> Null]]
  /\ binPageChain = [k \in Pools |-> [n \in PageNumbers(k) |-> n + 1]]
  /\ recoverPageFirst = [k \in Pools |-> [b \in Bins |-> PoolPages[k]]]
  /\ firstFree = [k \in Pools |-> 0]
  /\ nfree = [k \in Pools |-> PoolPages[k]]
  /\ used = {}
  /\ next = [s \in Slots |-> Null]
  /\ bucket = [b \in Bins |-> Null]
  /\ recoverPool = [b \in Bins |-> Null]
  /\ usedSmallPages = 0
  /\ want = Null /\ stage = "idle"
  /\ lost = {}

Idle == stage = "idle"

-----------------------------------------------------------------------------
(* Free lists *)

\* bucket[b] becomes the list of the objects F of a page, in their order.
LinkUp(b, F) ==
  LET Later(s) == {i \in 1 .. PerPage[b] : i > s[3] /\ <<s[1], s[2], i>> \in F}
  IN
  /\ bucket' = [bucket EXCEPT ![b] =
       IF F = {} THEN Null ELSE CHOOSE s \in F : \A r \in F : s[3] <= r[3]]
  /\ next' = [s \in Slots |->
       IF s \notin F THEN next[s]
       ELSE IF Later(s) = {} THEN Null ELSE <<s[1], s[2], Min(Later(s))>>]

\* Fault: the free list still begins with the object.
Hand_Stays(b) ==
  /\ bucket[b] # Null
  /\ used' = used \cup {bucket[b]}
  /\ want' = Null /\ stage' = "idle"
  /\ UNCHANGED <<mapped, pages, lists, recoverPool, usedSmallPages, lost>>

\* smallAlloc from L_hasBin on; the memory is the program's from now on.
Hand(b) ==
  LET p == bucket[b] IN
  /\ p # Null
  /\ bucket' = [bucket EXCEPT ![b] = next[p]]
  /\ next' = [next EXCEPT ![p] = Null]
  /\ used' = used \cup {p}
  /\ want' = Null /\ stage' = "idle"
  /\ UNCHANGED <<mapped, pages, recoverPool, usedSmallPages, lost>>

\* freeNoSync: the object is put on the free list, unless its page is still
\* going to be recovered.
SmallFree(s) ==
  LET b == BinOf(s) IN
  /\ Idle /\ s \in used
  /\ used' = used \ {s}
  /\ IF recoverPool[b] = Null \/ binPageChain[s[1]][s[2]] = PageRecovered
       THEN /\ bucket' = [bucket EXCEPT ![b] = s]
            /\ next' = [next EXCEPT ![s] = bucket[b]]
       ELSE UNCHANGED lists
  /\ UNCHANGED <<mapped, pages, recoverPool, usedSmallPages, want, stage, lost>>

\* runFinalizers: bits only.
RunFinalizers ==
  /\ Idle /\ used \cap Finals # {}
  /\ used' = used \ Finals
  /\ lost' = lost \cup {s \in used \cap Finals : binPageChain[s[1]][s[2]] = PageRecovered}
  /\ UNCHANGED <<mapped, pages, lists, recoverPool, usedSmallPages, want, stage>>

-----------------------------------------------------------------------------
(* Pages *)

\* The pool recoverNextPage takes a page from: recoverPool, or the next one
\* that has some to recover.
Recoverable(b) ==
  {k \in mapped : recoverPool[b] # Null /\ k >= recoverPool[b]
                    /\ recoverPageFirst[k][b] < PoolPages[k]}

\* Fault: the page keeps its place in the chain.
recoverNextPage_KeepsMark(b) ==
  LET k == Min(Recoverable(b))
      n == recoverPageFirst[k][b]
  IN
  IF Recoverable(b) = {}
    THEN /\ recoverPool' = [recoverPool EXCEPT ![b] = Null]
         /\ UNCHANGED <<pages, lists>>
    ELSE /\ recoverPool' = [recoverPool EXCEPT ![b] = k]
         /\ recoverPageFirst' = [recoverPageFirst EXCEPT ![k][b] = binPageChain[k][n]]
         /\ LinkUp(b, ObjectsOf(k, n, b) \ used)
         /\ UNCHANGED <<bin, binPageChain, firstFree, nfree>>

recoverNextPage(b) ==
  LET k == Min(Recoverable(b))
      n == recoverPageFirst[k][b]
  IN
  IF Recoverable(b) = {}
    THEN /\ recoverPool' = [recoverPool EXCEPT ![b] = Null]
         /\ UNCHANGED <<pages, lists>>
    ELSE /\ recoverPool' = [recoverPool EXCEPT ![b] = k]
         /\ recoverPageFirst' = [recoverPageFirst EXCEPT ![k][b] = binPageChain[k][n]]
         /\ binPageChain' = [binPageChain EXCEPT ![k][n] = PageRecovered]
         /\ LinkUp(b, ObjectsOf(k, n, b) \ used)
         /\ UNCHANGED <<bin, firstFree, nfree>>

WithRoom == {k \in mapped : firstFree[k] < PoolPages[k]}

\* Gcx.allocPage, SmallObjectPool.allocPage
allocPage(b) ==
  LET k == Min(WithRoom)
      n == firstFree[k]
  IN
  /\ WithRoom # {}
  /\ bin' = [bin EXCEPT ![k][n] = b]
  /\ firstFree' = [firstFree EXCEPT ![k] = binPageChain[k][n]]
  /\ binPageChain' = [binPageChain EXCEPT ![k][n] = PageRecovered]
  /\ nfree' = [nfree EXCEPT ![k] = @ - 1]
  /\ usedSmallPages' = usedSmallPages + 1
  /\ LinkUp(b, ObjectsOf(k, n, b))

\* newPool, Pool.initialize
newPool(k) ==
  /\ k \notin mapped /\ mapped' = mapped \cup {k}
  /\ bin' = [bin EXCEPT ![k] = [n \in PageNumbers(k) |-> Null]]
  /\ binPageChain' = [binPageChain EXCEPT ![k] = [n \in PageNumbers(k) |-> n + 1]]
  /\ recoverPageFirst' = [recoverPageFirst EXCEPT ![k] = [b \in Bins |-> PoolPages[k]]]
  /\ firstFree' = [firstFree EXCEPT ![k] = 0]
  /\ nfree' = [nfree EXCEPT ![k] = PoolPages[k]]

AllFree(free) == {k \in mapped : free[k] = PoolPages[k]}

\* GC.minimize
Minimize ==
  /\ Idle /\ AllFree(nfree) # {}
  /\ mapped' = mapped \ AllFree(nfree)
  /\ UNCHANGED <<pages, used, lists, recoverPool, usedSmallPages, want, stage, lost>>

-----------------------------------------------------------------------------
(* Collection *)

\* Fault: a page gets free with the first of its objects that dies.
Gone_First(k, live) ==
  {n \in PageNumbers(k) :
     /\ bin[k][n] # Null
     /\ LET inUse == ObjectsOf(k, n, bin[k][n]) \cap used IN ~(inUse \subseteq live)}

\* All objects of the page that are in use die: the page gets free.  A page
\* without objects in use is "unchanged" and stays with its bin.
Gone(k, live) ==
  {n \in PageNumbers(k) :
     /\ bin[k][n] # Null
     /\ LET inUse == ObjectsOf(k, n, bin[k][n]) \cap used
        IN  inUse # {} /\ inUse \cap live = {}}

\* The pages of bin b that have free objects.
ToRecover(k, b, live) ==
  {n \in PageNumbers(k) \ Gone(k, live) :
     bin[k][n] = b /\ ~(ObjectsOf(k, n, b) \subseteq used \cap live)}

\* The page before n in the chain of the pages S, which are visited in
\* ascending order and put in front; end is what the chain was before.
Before(S, n, end) ==
  LET lower == {m \in S : m < n}
  IN  IF lower = {} THEN end ELSE Max(lower)

\* sweep, pool by pool: pages that get free are put before the free pages,
\* those that have free objects are chained to be recovered.
Sweep(live) ==
  /\ used' = used \cap live
  /\ bin' = [k \in Pools |-> [n \in PageNumbers(k) |->
       IF n \in Gone(k, live) THEN Null ELSE bin[k][n]]]
  /\ binPageChain' = [k \in Pools |-> [n \in PageNumbers(k) |->
       IF bin[k][n] = Null THEN binPageChain[k][n]
       ELSE IF n \in Gone(k, live) THEN Before(Gone(k, live), n, firstFree[k])
       ELSE IF n \in ToRecover(k, bin[k][n], live)
         THEN Before(ToRecover(k, bin[k][n], live), n, PoolPages[k])
       ELSE PageRecovered]]
  /\ recoverPageFirst' = [k \in Pools |-> [b \in Bins |->
       Before(ToRecover(k, b, live), PoolPages[k], PoolPages[k])]]
  /\ firstFree' = [k \in Pools |-> Before(Gone(k, live), PoolPages[k], firstFree[k])]
  /\ nfree' = [k \in Pools |-> nfree[k] + Cardinality(Gone(k, live))]
  /\ usedSmallPages' =
       usedSmallPages - Cardinality({p \in PagesOf(mapped) : p[2] \in Gone(p[1], live)})

\* fullcollect: sweep, minimize or not, and the lists of free objects begin
\* anew with the pages to recover.
Collect(live, minimized) ==
  LET HasSome(b) == {k \in mapped' : recoverPageFirst'[k][b] < PoolPages[k]}
  IN
  /\ Sweep(live)
  /\ mapped' = IF minimized THEN mapped \ AllFree(nfree') ELSE mapped
  /\ bucket' = [b \in Bins |-> Null]
  /\ next' = [s \in Slots |-> Null]
  /\ recoverPool' = [b \in Bins |-> IF HasSome(b) = {} THEN Null ELSE Min(HasSome(b))]
  /\ lost' = {}

-----------------------------------------------------------------------------
(* smallAlloc: the stages "try", "retry" and "last" are the calls of        *)
(* tryAlloc.                                                               *)

\* bucket[b] has an object, or a page to recover is looked for.
MallocBegin(b) ==
  /\ Idle
  /\ IF bucket[b] # Null
       THEN Hand(b)
       ELSE /\ IF recoverPool[b] # Null
                 THEN recoverNextPage(b)
                 ELSE UNCHANGED <<pages, lists, recoverPool>>
            /\ want' = b /\ stage' = "try"
            /\ UNCHANGED <<mapped, used, usedSmallPages, lost>>

Trying == stage \in {"try", "retry", "last"}

TryHand == Trying /\ Hand(want)

TryPage ==
  /\ Trying /\ bucket[want] = Null
  /\ allocPage(want)
  /\ UNCHANGED <<mapped, recoverPageFirst, used, recoverPool, want, stage, lost>>

TryFails == Trying /\ bucket[want] = Null /\ WithRoom = {}

\* There is no room: a pool is mapped, before or after a collection.
MallocNewPool ==
  /\ TryFails
  /\ \E k \in Pools : newPool(k)
  /\ \/ stage = "try" /\ stage' = "retry"
     \/ stage = "retry" /\ stage' = "last"
  /\ UNCHANGED <<used, lists, recoverPool, usedSmallPages, want, lost>>

\* ... or the collector is called, because the threshold was reached, memory
\* is low, or no pool could be mapped.
MallocCollect ==
  /\ TryFails /\ stage = "try"
  /\ \E live \in SUBSET used, minimized \in BOOLEAN : Collect(live, minimized)
  /\ stage' = "collected"
  /\ UNCHANGED want

\* ... or neither: the threshold was reached without a page in use.
MallocSkip ==
  /\ TryFails /\ stage = "try" /\ usedSmallPages = 0
  /\ stage' = "retry"
  /\ UNCHANGED <<mapped, pages, used, lists, recoverPool, usedSmallPages, want, lost>>

\* minimize once more if memory is low, and recoverNextPage
MallocRecover ==
  /\ stage = "collected" /\ stage' = "retry"
  /\ mapped' \in {mapped, mapped \ AllFree(nfree)}
  /\ recoverNextPage(want)
  /\ UNCHANGED <<used, usedSmallPages, want, lost>>

\* onOutOfMemoryError, if the last attempt to map a pool fails
OutOfMemory ==
  /\ TryFails /\ stage = "retry"
  /\ want' = Null /\ stage' = "idle"
  /\ UNCHANGED <<mapped, pages, used, lists, recoverPool, usedSmallPages, lost>>

SmallNext ==
  \/ \E b \in Bins : MallocBegin(b)
  \/ TryHand \/ TryPage
  \/ MallocNewPool \/ MallocCollect \/ MallocSkip \/ MallocRecover \/ OutOfMemory
  \/ \E s \in Slots : SmallFree(s)
  \/ RunFinalizers \/ Minimize
  \/ /\ Idle
     /\ \E live \in SUBSET used, minimized \in BOOLEAN : Collect(live, minimized)
     /\ UNCHANGED <<want, stage>>

-----------------------------------------------------------------------------
(* Properties *)

Stages == {"idle", "try", "retry", "last", "collected"}

SmallTypeOK ==
  /\ mapped \subseteq Pools
  /\ DOMAIN bin = Pools /\ DOMAIN binPageChain = Pools /\ DOMAIN recoverPageFirst = Pools
  /\ \A k \in Pools :
       /\ bin[k] \in [PageNumbers(k) -> Bins \cup {Null}]
       /\ binPageChain[k] \in [PageNumbers(k) -> PageRecovered .. PoolPages[k]]
       /\ recoverPageFirst[k] \in [Bins -> 0 .. PoolPages[k]]
  /\ firstFree \in [Pools -> Nat] /\ nfree \in [Pools -> Nat]
  /\ used \subseteq Slots /\ lost \subseteq Slots
  /\ next \in [Slots -> Slots \cup {Null}]
  /\ bucket \in [Bins -> Slots \cup {Null}]
  /\ recoverPool \in [Bins -> Pools \cup {Null}]
  /\ stage \in Stages
  /\ Idle \/ want \in Bins

\* The pages of the chain that begins at first, and where it ends.
ChainFrom(k, first) ==
  LET upto[m \in 0 .. PoolPages[k]] ==
        IF m = 0 THEN {first}
        ELSE upto[m - 1] \cup {binPageChain[k][n] : n \in upto[m - 1] \cap PageNumbers(k)}
  IN  upto[PoolPages[k]]

\* SmallObjectPool.Invariant and more: the chain of free pages has all of
\* them; each chain to recover has pages of its bin that have free objects
\* (recoverPage: "these cannot have been resurrected"); pages on no chain are
\* marked, all chains end, and the counts are right.
ChainsRight ==
  /\ \A k \in mapped :
       LET free == {n \in PageNumbers(k) : bin[k][n] = Null}
       IN  /\ ChainFrom(k, firstFree[k]) = free \cup {PoolPages[k]}
           /\ nfree[k] = Cardinality(free)
           /\ \A b \in Bins :
                LET chain == ChainFrom(k, recoverPageFirst[k][b])
                IN  /\ PoolPages[k] \in chain
                    /\ chain \ {PoolPages[k]} =
                         {n \in PageNumbers(k) : bin[k][n] = b /\ binPageChain[k][n] # PageRecovered}
                    /\ \A n \in chain \ {PoolPages[k]} : ~(ObjectsOf(k, n, b) \subseteq used)
  /\ \A b \in Bins, k \in mapped :
       recoverPageFirst[k][b] < PoolPages[k] => recoverPool[b] \in mapped /\ recoverPool[b] <= k
  /\ usedSmallPages = Cardinality({p \in PagesOf(mapped) : bin[p[1]][p[2]] # Null})

Listed(b) ==
  LET upto[m \in 0 .. Cardinality(Slots)] ==
        IF m = 0 THEN {bucket[b]}
        ELSE upto[m - 1] \cup {next[s] : s \in upto[m - 1] \cap Slots}
  IN  upto[Cardinality(Slots)]

\* The free list of a bin has every free object of its recovered pages, which
\* no collection is going to find again, and nothing else, and it ends.  What
\* runFinalizers freed is missing until the next collection.
FreeListsExact ==
  \A b \in Bins :
    Listed(b) \ lost = {Null} \cup
      {s \in UNION {ObjectsOf(p[1], p[2], b) : p \in PagesOf(mapped)} :
         BinOf(s) = b /\ binPageChain[s[1]][s[2]] = PageRecovered /\ s \notin used \cup lost}

smallBlocks == {<<s, BinOf(s)>> : s \in used}

\* ObjectsOf of different sizes cannot share a page, those of one size overlap
\* only if they are the same.
SharePage(x, y) ==
  /\ x[1][1] = y[1][1] /\ x[1][2] = y[1][2]
  /\ x[2] # y[2] \/ x[1][3] = y[1][3]

SameSlot(x, y) == x[1] = y[1]

SmallAbstract ==
  INSTANCE Allocator WITH Blocks <- Slots \X Bins, live <- smallBlocks,
                          Overlap <- SharePage, SameBase <- SameSlot

\* ObjectsOf in use never overlap, and their page does not change its bin and
\* their pool is not unmapped under them: whatever mixes allocation from the
\* three sources, GC.free, finalizers run early, collections and pools that
\* come and go.
SmallImplements == SmallAbstract!Spec
=============================================================================
