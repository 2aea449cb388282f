----------------------------- MODULE PoolsProofs -----------------------------
(***************************************************************************)
(* For any pools, sizes and alignments, small objects in use never overlap *)
(* and their pages and pools stay theirs (SmallImplements), and the lists  *)
(* of objects and the chains of pages to take memory from have all of it   *)
(* (ChainsRight, FreeListsExact); blocks of a pool of large objects do not *)
(* overlap either (LargeImplements), their entries in bPageOffsets are     *)
(* right in every state (OffsetsRight), and allocPages finds room whenever *)
(* there is some (RoomFound).                                              *)
(***************************************************************************)
EXTENDS SmallPools, LargePool, FiniteSetTheorems, WellFoundedInduction, TLAPS

-----------------------------------------------------------------------------
(* Least and greatest elements *)

\* Some numbers have a least.
LEMMA MinIs ==
  ASSUME NEW S \in SUBSET Nat, S # {}
  PROVE  Min(S) \in S /\ \A j \in S : Min(S) <= j
<1>1. \E x \in S : \A y \in S : <<y, x>> \notin OpToRel(<, Nat)
  <2> DEFINE R == OpToRel(<, Nat)
  <2>1. IsWellFoundedOn(R, Nat)  BY NatLessThanWellFounded
  <2> HIDE DEF R
  <2>2. \E x \in S : \A y \in S : ~ (<<y, x>> \in R)  BY <2>1, WFMin
  <2> QED  BY <2>2 DEF R
<1>2. PICK x \in S : \A y \in S : <<y, x>> \notin OpToRel(<, Nat)  BY <1>1
<1>3. \A y \in S : ~(y < x)  BY <1>2 DEF OpToRel
<1>4. \A y \in S : x <= y  BY <1>3
<1> QED  BY <1>4 DEF Min

\* Some numbers up to N have a greatest.
LEMMA MaxIs ==
  ASSUME NEW N \in Nat, NEW S \in SUBSET (0 .. N), S # {}
  PROVE  Max(S) \in S /\ \A j \in S : j <= Max(S)
<1> DEFINE T == {N - j : j \in S}
<1>1. T \in SUBSET Nat /\ T # {}
  <2>1. ASSUME NEW t \in T PROVE t \in Nat
    <3>1. PICK j \in S : t = N - j  BY <2>1
    <3>2. j \in 0 .. N  OBVIOUS
    <3> QED  BY <3>1, <3>2
  <2>2. PICK j \in S : TRUE  OBVIOUS
  <2>3. N - j \in T  OBVIOUS
  <2> QED  BY <2>1, <2>3
<1>2. Min(T) \in T /\ \A j \in T : Min(T) <= j  BY <1>1, MinIs
<1>3. PICK x \in S : Min(T) = N - x  BY <1>2
<1>4. \A j \in S : N - x <= N - j  BY <1>2, <1>3
<1>5. \A j \in S : x >= j  BY <1>4
<1> QED  BY <1>5 DEF Max

LEMMA Least ==
  ASSUME NEW S \in SUBSET Nat, S # {}
  PROVE  \E x \in S : \A y \in S : x <= y
BY MinIs

LEMMA Greatest ==
  ASSUME NEW n \in Nat, NEW S \in SUBSET (0 .. n), S # {}
  PROVE  \E x \in S : \A y \in S : y <= x
BY MaxIs

-----------------------------------------------------------------------------
(* Pools of small objects *)

SmallSpec == SmallInit /\ [][SmallNext]_svars

FreeIn(k) == {n \in PageNumbers(k) : bin[k][n] = Null}

\* The pages of bin b that are still to be recovered.
Waiting(k, b) ==
  {n \in PageNumbers(k) : bin[k][n] = b /\ binPageChain[k][n] # PageRecovered}

\* An object in use is in a mapped pool, and its page has its size.
UsedInPages ==
  \A s \in used :
    s[1] \in mapped /\ BinOf(s) \in Bins /\ s \in ObjectsOf(s[1], s[2], BinOf(s))

\* Unmapped pools have no pages in use, and the count of free pages is right.
FreeCounted ==
  \A k \in Pools :
    /\ nfree[k] = Cardinality(FreeIn(k))
    /\ k \notin mapped => FreeIn(k) = PageNumbers(k)

\* searchStart and the chain entries of free pages lead to free pages, and no
\* two of them to the same.
FreeChained ==
  \A k \in Pools :
    /\ firstFree[k] \in FreeIn(k) \cup {PoolPages[k]}
    /\ \A n \in FreeIn(k) :
         /\ binPageChain[k][n] \in FreeIn(k) \cup {PoolPages[k]}
         /\ binPageChain[k][n] = firstFree[k] => firstFree[k] = PoolPages[k]
         /\ \A m \in FreeIn(k) \ {n} :
              binPageChain[k][m] = binPageChain[k][n] => binPageChain[k][n] = PoolPages[k]

\* The chain of the pages to recover has them in descending order.
WaitingChained ==
  \A k \in Pools, b \in Bins :
    /\ recoverPageFirst[k][b] = Before(Waiting(k, b), PoolPages[k], PoolPages[k])
    /\ \A n \in Waiting(k, b) : binPageChain[k][n] = Before(Waiting(k, b), n, PoolPages[k])

\* recoverPool is before all pools with pages to recover.
RecoverPoolFirst ==
  \A b \in Bins, k \in mapped :
    Waiting(k, b) # {} => recoverPool[b] # Null /\ recoverPool[b] <= k

\* What can be on the free list of bin b.
Listable(b) ==
  {s \in Slots \ used :
     /\ s[1] \in mapped /\ BinOf(s) = b /\ s \in ObjectsOf(s[1], s[2], b)
     /\ binPageChain[s[1]][s[2]] = PageRecovered}

\* Free lists have such objects only, and each of them at most once.
ListsDisjoint ==
  /\ \A b \in Bins : bucket[b] # Null => bucket[b] \in Listable(b)
  /\ \A s \in Slots : next[s] # Null =>
       /\ \E b \in Bins : s \in Listable(b) /\ next[s] \in Listable(b)
       /\ \A b \in Bins : bucket[b] # next[s]
       /\ \A r \in Slots \ {s} : next[r] # next[s]

SmallInductive ==
  /\ SmallTypeOK
  /\ UsedInPages /\ FreeCounted /\ FreeChained
  /\ WaitingChained /\ RecoverPoolFirst /\ ListsDisjoint

\* The two cases of Before.
LEMMA BeforeIs ==
  ASSUME NEW N \in Nat, NEW S \in SUBSET (0 .. N - 1), NEW n \in Int, NEW end
  PROVE  \/ Before(S, n, end) = end /\ \A m \in S : n <= m
         \/ /\ Before(S, n, end) \in S /\ Before(S, n, end) < n
            /\ \A m \in S : m < n => m <= Before(S, n, end)
<1> DEFINE lower == {m \in S : m < n}
<1>1. CASE lower = {}
  BY <1>1 DEF Before
<1>2. CASE lower # {}
  <2>1. lower \in SUBSET (0 .. N)
    <3>1. ASSUME NEW m \in lower PROVE m \in 0 .. N
      <4>1. m \in 0 .. N - 1  OBVIOUS
      <4> QED  BY <4>1
    <3> QED  BY <3>1
  <2>2. Max(lower) \in lower /\ \A j \in lower : j <= Max(lower)  BY <1>2, <2>1, MaxIs
  <2>3. Before(S, n, end) = Max(lower)  BY <1>2 DEF Before
  <2> QED  BY <2>2, <2>3
<1> QED  BY <1>1, <1>2

\* Before depends on the lower elements only.
LEMMA BeforeSame ==
  ASSUME NEW S, NEW n, NEW T, NEW m, NEW end, {j \in S : j < n} = {j \in T : j < m}
  PROVE  Before(S, n, end) = Before(T, m, end)
<1> QED  BY DEF Before

-----------------------------------------------------------------------------
(* Pages and objects *)

LEMMA PagesFinite ==
  ASSUME NEW k \in Pools
  PROVE  /\ PoolPages[k] \in Nat \ {0}
         /\ PageNumbers(k) = 0 .. PoolPages[k] - 1
         /\ IsFiniteSet(PageNumbers(k))
         /\ Cardinality(PageNumbers(k)) = PoolPages[k]
<1>1. PoolPages[k] \in Nat \ {0}  BY PoolsAssumption
<1>2. PageNumbers(k) = 0 .. PoolPages[k] - 1  BY DEF PageNumbers
<1>3. 0 \in Int /\ PoolPages[k] - 1 \in Int  BY <1>1
<1>4. /\ IsFiniteSet(0 .. PoolPages[k] - 1)
      /\ Cardinality(0 .. PoolPages[k] - 1) =
           IF 0 > PoolPages[k] - 1 THEN 0 ELSE PoolPages[k] - 1 - 0 + 1
  BY <1>3, FS_Interval
<1> QED  BY <1>1, <1>2, <1>4

LEMMA PagesSubset ==
  ASSUME NEW k \in Pools, NEW S \in SUBSET PageNumbers(k)
  PROVE  /\ IsFiniteSet(S)
         /\ Cardinality(S) \in Nat
         /\ Cardinality(S) <= PoolPages[k]
         /\ Cardinality(S) = PoolPages[k] => S = PageNumbers(k)
<1>1. IsFiniteSet(S)  BY PagesFinite, FS_Subset
<1>2. Cardinality(S) \in Nat  BY <1>1, FS_CardinalityType
<1> QED  BY <1>1, <1>2, PagesFinite, FS_Subset

LEMMA SlotIs ==
  ASSUME NEW s \in Slots
  PROVE  /\ s[1] \in Pools /\ s[2] \in PageNumbers(s[1])
         /\ s = <<s[1], s[2], s[3]>>
         /\ s[3] \in Nat
<1>1. PICK k \in Pools : \E n \in PageNumbers(k), b \in Bins : s \in ObjectsOf(k, n, b)
  BY DEF Slots
<1>2. PICK n \in PageNumbers(k), b \in Bins : s \in ObjectsOf(k, n, b)
  BY <1>1
<1> QED  BY <1>2, PerPageAssumption DEF ObjectsOf

LEMMA ObjectsIn ==
  ASSUME NEW k \in Pools, NEW n \in PageNumbers(k), NEW b \in Bins
  PROVE  /\ ObjectsOf(k, n, b) \subseteq Slots
         /\ \A s \in ObjectsOf(k, n, b) :
              /\ s[1] = k /\ s[2] = n /\ s = <<k, n, s[3]>>
              /\ s[3] \in 1 .. PerPage[b]
<1>1. ObjectsOf(k, n, b) \in {ObjectsOf(k, m, c) : m \in PageNumbers(k), c \in Bins}
  OBVIOUS
<1>2. ObjectsOf(k, n, b) \subseteq Slots  BY <1>1 DEF Slots
<1>3. ASSUME NEW s \in ObjectsOf(k, n, b)
      PROVE  s[1] = k /\ s[2] = n /\ s = <<k, n, s[3]>> /\ s[3] \in 1 .. PerPage[b]
  BY DEF ObjectsOf
<1> QED  BY <1>2, <1>3

-----------------------------------------------------------------------------
(* The initial state *)

LEMMA SmallInitInductive == SmallInit => SmallInductive
<1> SUFFICES ASSUME SmallInit PROVE SmallInductive
  OBVIOUS
<1>1. ASSUME NEW k \in Pools
      PROVE  FreeIn(k) = PageNumbers(k) /\ \A b \in Bins : Waiting(k, b) = {}
  BY NullAssumption DEF SmallInit, FreeIn, Waiting
<1>2. SmallTypeOK
  <2>1. ASSUME NEW k \in Pools
        PROVE  /\ bin[k] \in [PageNumbers(k) -> Bins \cup {Null}]
               /\ binPageChain[k] \in [PageNumbers(k) -> PageRecovered .. PoolPages[k]]
               /\ recoverPageFirst[k] \in [Bins -> 0 .. PoolPages[k]]
               /\ firstFree[k] \in Nat /\ nfree[k] \in Nat
    BY PagesFinite DEF SmallInit, PageRecovered
  <2> QED
    BY <2>1 DEF SmallInit, SmallTypeOK, Idle, Stages
<1>3. UsedInPages  BY DEF SmallInit, UsedInPages
<1>4. FreeCounted  BY <1>1, PagesFinite DEF SmallInit, FreeCounted
<1>5. FreeChained
  <2>1. ASSUME NEW k \in Pools, NEW n \in PageNumbers(k)
        PROVE  /\ binPageChain[k][n] = n + 1 /\ n \in 0 .. PoolPages[k] - 1
               /\ binPageChain[k][n] \in PageNumbers(k) \cup {PoolPages[k]}
    BY PagesFinite DEF SmallInit
  <2> QED
    BY <1>1, <2>1, PagesFinite DEF SmallInit, FreeChained
<1>6. WaitingChained
  BY <1>1 DEF SmallInit, WaitingChained, Before
<1>7. RecoverPoolFirst  BY DEF SmallInit, RecoverPoolFirst
<1>8. ListsDisjoint  BY DEF SmallInit, ListsDisjoint
<1> QED  BY <1>2, <1>3, <1>4, <1>5, <1>6, <1>7, <1>8 DEF SmallInductive

-----------------------------------------------------------------------------
(* Steps that change objects and not pages *)

\* What depends on the pages only.
PagesInductive == FreeCounted /\ FreeChained /\ WaitingChained /\ RecoverPoolFirst

LEMMA PagesKept ==
  ASSUME PagesInductive, UNCHANGED <<mapped, pages, recoverPool>>
  PROVE  PagesInductive'
<1>1. \A k : FreeIn(k)' = FreeIn(k)  BY DEF FreeIn, pages
<1>2. \A k, b : Waiting(k, b)' = Waiting(k, b)  BY DEF Waiting, pages
<1>3. FreeCounted'  BY <1>1 DEF PagesInductive, FreeCounted, pages
<1>4. FreeChained'  BY <1>1 DEF PagesInductive, FreeChained, pages
<1>5. WaitingChained'  BY <1>2 DEF PagesInductive, WaitingChained, pages
<1>6. RecoverPoolFirst'  BY <1>2 DEF PagesInductive, RecoverPoolFirst
<1> QED  BY <1>3, <1>4, <1>5, <1>6 DEF PagesInductive

LEMMA ListsKept ==
  ASSUME ListsDisjoint, UNCHANGED lists, \A b \in Bins : Listable(b) \subseteq Listable(b)'
  PROVE  ListsDisjoint'
<1>1. \A b \in Bins : bucket'[b] # Null => bucket'[b] \in Listable(b)'
  BY DEF ListsDisjoint, lists
<1>2. ASSUME NEW s \in Slots, next'[s] # Null
      PROVE  /\ \E b \in Bins : s \in Listable(b)' /\ next'[s] \in Listable(b)'
             /\ \A b \in Bins : bucket'[b] # next'[s]
             /\ \A r \in Slots \ {s} : next'[r] # next'[s]
  BY <1>2 DEF ListsDisjoint, lists
<1> QED  BY <1>1, <1>2 DEF ListsDisjoint

LEMMA BinsApart == \A b, c \in Bins : b # c => Listable(b) \cap Listable(c) = {}
  BY DEF Listable

LEMMA HandInductive ==
  ASSUME SmallInductive, NEW b \in Bins, Hand(b)
  PROVE  SmallInductive'
<1> DEFINE p == bucket[b]
<1>1. p # Null /\ p \in Listable(b)  BY DEF Hand, SmallInductive, ListsDisjoint
<1>2. p \in Slots \ used /\ BinOf(p) = b /\ p[1] \in mapped
  BY <1>1 DEF Listable
<1>3. SmallTypeOK'
  BY <1>2 DEF Hand, SmallInductive, SmallTypeOK, Stages, Idle, pages
<1>4. UsedInPages'
  BY <1>1 DEF Hand, SmallInductive, UsedInPages, Listable, BinOf, pages
<1>5. PagesInductive'
  BY PagesKept DEF Hand, SmallInductive, PagesInductive
<1>6. \A c : Listable(c)' = Listable(c) \ {p}
  BY <1>2 DEF Hand, Listable, BinOf, pages
<1>7. \A c, d \in Bins : c # d => Listable(c) \cap Listable(d) = {}
  BY DEF Listable
<1>8. ASSUME NEW c \in Bins, bucket'[c] # Null
      PROVE  bucket'[c] \in Listable(c)'
  <2>1. CASE c = b
    <3>1. bucket'[c] = next[p]  BY <2>1 DEF Hand, SmallInductive, SmallTypeOK
    <3>2. next[p] # p  BY <1>2, <1>8, <3>1 DEF SmallInductive, ListsDisjoint
    <3>3. PICK d \in Bins : p \in Listable(d) /\ next[p] \in Listable(d)
      BY <1>2, <1>8, <3>1 DEF SmallInductive, ListsDisjoint
    <3>4. d = b  BY <1>1, <1>7, <3>3
    <3> QED  BY <1>6, <2>1, <3>1, <3>2, <3>3, <3>4
  <2>2. CASE c # b
    <3>1. bucket'[c] = bucket[c]  BY <2>2 DEF Hand, SmallInductive, SmallTypeOK
    <3>2. bucket[c] \in Listable(c)
      BY <1>8, <3>1 DEF SmallInductive, ListsDisjoint
    <3>3. bucket[c] # p  BY <1>1, <1>7, <2>2, <3>2
    <3> QED  BY <1>6, <3>1, <3>2, <3>3
  <2> QED  BY <2>1, <2>2
<1>9. ASSUME NEW s \in Slots, next'[s] # Null
      PROVE  /\ \E c \in Bins : s \in Listable(c)' /\ next'[s] \in Listable(c)'
             /\ \A c \in Bins : bucket'[c] # next'[s]
             /\ \A r \in Slots \ {s} : next'[r] # next'[s]
  <2>1. s # p /\ next'[s] = next[s]
    BY <1>2, <1>9 DEF Hand, SmallInductive, SmallTypeOK
  <2>2. /\ \E c \in Bins : s \in Listable(c) /\ next[s] \in Listable(c)
        /\ \A c \in Bins : bucket[c] # next[s]
        /\ \A r \in Slots \ {s} : next[r] # next[s]
    BY <1>9, <2>1 DEF SmallInductive, ListsDisjoint
  <2>3. next[s] # p /\ next[p] # next[s]  BY <1>2, <2>1, <2>2
  <2>4. \A c \in Bins : bucket'[c] # next'[s]
    BY <2>1, <2>2, <2>3 DEF Hand, SmallInductive, SmallTypeOK
  <2>5. \A r \in Slots \ {s} : next'[r] # next'[s]
    BY <1>9, <2>1, <2>2 DEF Hand, SmallInductive, SmallTypeOK
  <2> QED  BY <1>6, <2>1, <2>2, <2>3, <2>4, <2>5
<1>10. ListsDisjoint'  BY <1>8, <1>9 DEF ListsDisjoint
<1> QED  BY <1>3, <1>4, <1>5, <1>10 DEF SmallInductive, PagesInductive
LEMMA SmallFreeInductive ==
  ASSUME SmallInductive, NEW s \in Slots, SmallFree(s)
  PROVE  SmallInductive'
<1>1. s \in used /\ s \in Slots /\ s # Null
  BY NullAssumption DEF SmallFree
<1>2. PICK b \in Bins : b = BinOf(s) /\ s[1] \in mapped /\ s \in ObjectsOf(s[1], s[2], b)
  BY <1>1 DEF SmallInductive, UsedInPages
<1>3. SmallTypeOK'
  BY <1>1, <1>2 DEF SmallFree, SmallInductive, SmallTypeOK, Idle, pages, lists
<1>4. UsedInPages'
  BY DEF SmallFree, SmallInductive, UsedInPages, BinOf, pages
<1>5. PagesInductive'
  BY PagesKept DEF SmallFree, SmallInductive, PagesInductive
<1>6. \A c \in Bins : Listable(c) \subseteq Listable(c)' /\ s \notin Listable(c)
  BY <1>1 DEF SmallFree, Listable, BinOf, pages
<1>7. CASE recoverPool[b] = Null \/ binPageChain[s[1]][s[2]] = PageRecovered
  <2>1. binPageChain[s[1]][s[2]] = PageRecovered
    <3>1. CASE recoverPool[b] = Null
      <4>1. Waiting(s[1], b) = {}
        BY <1>2, <3>1 DEF SmallInductive, RecoverPoolFirst
      <4>2. s[2] \in PageNumbers(s[1])  BY SlotIs
      <4> QED  BY <1>2, <4>1, <4>2 DEF Waiting, BinOf
    <3> QED  BY <1>7, <3>1
  <2>2. s \in Listable(b)'
    BY <1>1, <1>2, <2>1 DEF SmallFree, Listable, BinOf, pages
  <2>3. /\ bucket' = [bucket EXCEPT ![b] = s]
        /\ next' = [next EXCEPT ![s] = bucket[b]]
    BY <1>2, <1>7 DEF SmallFree
  <2>4. /\ \A c \in Bins : bucket'[c] = IF c = b THEN s ELSE bucket[c]
        /\ \A r \in Slots : next'[r] = IF r = s THEN bucket[b] ELSE next[r]
    BY <2>3 DEF SmallInductive, SmallTypeOK
  <2>5. /\ \A c \in Bins : bucket[c] # Null => bucket[c] \in Listable(c)
        /\ \A r \in Slots : next[r] # Null =>
             /\ \E c \in Bins : r \in Listable(c) /\ next[r] \in Listable(c)
             /\ \A c \in Bins : bucket[c] # next[r]
             /\ \A q \in Slots \ {r} : next[q] # next[r]
    BY DEF SmallInductive, ListsDisjoint
  <2>6. \A r \in Slots : next[r] # s
    BY <1>1, <1>6, <2>5
  <2>7. \A c \in Bins : bucket'[c] # Null => bucket'[c] \in Listable(c)'
    BY <1>2, <1>6, <2>2, <2>4, <2>5
  <2>8. ASSUME NEW r \in Slots, next'[r] # Null
        PROVE  /\ \E c \in Bins : r \in Listable(c)' /\ next'[r] \in Listable(c)'
               /\ \A c \in Bins : bucket'[c] # next'[r]
               /\ \A q \in Slots \ {r} : next'[q] # next'[r]
    <3>1. CASE r = s
      <4>1. next'[r] = bucket[b] /\ bucket[b] \in Listable(b)
        BY <1>2, <2>4, <2>5, <2>8, <3>1
      <4>2. \A c \in Bins : bucket'[c] # next'[r]
        BY <1>2, <1>6, <2>4, <2>5, <2>8, <3>1, <4>1, BinsApart
      <4>3. \A q \in Slots \ {r} : next'[q] # next'[r]
        BY <1>2, <2>4, <2>5, <2>8, <3>1, <4>1
      <4> QED  BY <1>2, <1>6, <2>2, <3>1, <4>1, <4>2, <4>3
    <3>2. CASE r # s
      <4>1. next'[r] = next[r]  BY <2>4, <3>2
      <4> QED  BY <1>2, <1>6, <2>4, <2>5, <2>6, <2>8, <4>1
    <3> QED  BY <3>1, <3>2
  <2> QED  BY <1>3, <1>4, <1>5, <2>7, <2>8 DEF SmallInductive, PagesInductive, ListsDisjoint
<1>8. CASE ~(recoverPool[b] = Null \/ binPageChain[s[1]][s[2]] = PageRecovered)
  <2>1. ListsDisjoint'
    BY <1>2, <1>6, <1>8, ListsKept DEF SmallFree, SmallInductive
  <2> QED  BY <1>3, <1>4, <1>5, <2>1 DEF SmallInductive, PagesInductive
<1> QED  BY <1>7, <1>8

LEMMA RunFinalizersInductive ==
  ASSUME SmallInductive, RunFinalizers
  PROVE  SmallInductive'
<1>1. SmallTypeOK'
  BY DEF RunFinalizers, SmallInductive, SmallTypeOK, Idle, pages, lists
<1>2. UsedInPages'
  BY DEF RunFinalizers, SmallInductive, UsedInPages, BinOf, pages
<1>3. PagesInductive'
  BY PagesKept DEF RunFinalizers, SmallInductive, PagesInductive
<1>4. \A b \in Bins : Listable(b) \subseteq Listable(b)'
  BY DEF RunFinalizers, Listable, BinOf, pages
<1>5. ListsDisjoint'
  BY <1>4, ListsKept DEF RunFinalizers, SmallInductive
<1> QED  BY <1>1, <1>2, <1>3, <1>5 DEF SmallInductive, PagesInductive

-----------------------------------------------------------------------------
(* Free lists made from a page *)

\* The order of a free list made from a page: each object leads to the one
\* behind it, and the first is the one with the lowest address.
LEMMA LinkUpOrder ==
  ASSUME SmallTypeOK, NEW k \in Pools, NEW n \in PageNumbers(k), NEW b \in Bins,
         NEW F \in SUBSET ObjectsOf(k, n, b), LinkUp(b, F)
  PROVE  /\ \A s \in F :
              \/ next'[s] = Null /\ \A r \in F : ~(r[3] > s[3])
              \/ /\ next'[s] \in F /\ next'[s][3] > s[3]
                 /\ \A r \in F : r[3] > s[3] => next'[s][3] <= r[3]
         /\ \/ bucket'[b] = Null /\ F = {}
            \/ bucket'[b] \in F /\ \A s \in F : bucket'[b][3] <= s[3]
<1> DEFINE Later(s) == {i \in 1 .. PerPage[b] : i > s[3] /\ <<s[1], s[2], i>> \in F}
<1>1. F \subseteq Slots /\ Null \notin F
  BY ObjectsIn, NullAssumption
<1>2. \A s \in F : s[1] = k /\ s[2] = n /\ s = <<k, n, s[3]>> /\ s[3] \in 1 .. PerPage[b]
  BY ObjectsIn
<1>3. ASSUME NEW s \in F, Later(s) # {}
      PROVE  Min(Later(s)) \in Later(s) /\ \A i \in Later(s) : Min(Later(s)) <= i
  <2>1. Later(s) \in SUBSET Nat
    <3>1. ASSUME NEW i \in Later(s) PROVE i \in Nat
      <4>1. i \in 1 .. PerPage[b]  OBVIOUS
      <4> QED  BY <4>1
    <3> QED  BY <3>1
  <2> QED  BY <1>3, <2>1, MinIs
<1>4. ASSUME NEW s \in F
      PROVE  \/ next'[s] = Null /\ \A r \in F : ~(r[3] > s[3])
             \/ /\ next'[s] \in F /\ next'[s][3] > s[3]
                /\ \A r \in F : r[3] > s[3] => next'[s][3] <= r[3]
  <2>1. s \in Slots  BY <1>1
  <2>2. next'[s] = IF Later(s) = {} THEN Null ELSE <<s[1], s[2], Min(Later(s))>>
    BY <2>1 DEF LinkUp
  <2>3. CASE Later(s) = {}
    <3>1. ASSUME NEW r \in F, r[3] > s[3] PROVE FALSE
      <4>1. r[3] \in Later(s)  BY <1>2, <3>1
      <4> QED  BY <2>3, <4>1
    <3> QED  BY <2>2, <2>3, <3>1
  <2>4. CASE Later(s) # {}
    <3>1. Min(Later(s)) \in Later(s) /\ \A i \in Later(s) : Min(Later(s)) <= i
      BY <1>3, <2>4
    <3>2. PICK m : m = Min(Later(s))  OBVIOUS
    <3>3. m > s[3] /\ <<s[1], s[2], m>> \in F  BY <3>1, <3>2
    <3>4. next'[s] = <<s[1], s[2], m>>  BY <2>2, <2>4, <3>2
    <3>5. next'[s] \in F /\ next'[s][3] = m  BY <3>3, <3>4
    <3>6. ASSUME NEW r \in F, r[3] > s[3] PROVE m <= r[3]
      <4>1. r[3] \in Later(s)  BY <1>2, <3>6
      <4> QED  BY <3>1, <3>2, <4>1
    <3> QED  BY <3>3, <3>5, <3>6
  <2> QED  BY <2>3, <2>4
<1>5. \/ bucket'[b] = Null /\ F = {}
      \/ bucket'[b] \in F /\ \A s \in F : bucket'[b][3] <= s[3]
  <2>1. bucket'[b] = IF F = {} THEN Null ELSE CHOOSE s \in F : \A r \in F : s[3] <= r[3]
    BY DEF LinkUp, SmallTypeOK
  <2>2. CASE F # {}
    <3> DEFINE I == {s[3] : s \in F}
    <3>1. I \in SUBSET Nat
      <4>1. ASSUME NEW i \in I PROVE i \in Nat
        <5>1. PICK s \in F : i = s[3]  OBVIOUS
        <5> QED  BY <1>2, <5>1
      <4> QED  BY <4>1
    <3>2. I # {}  BY <2>2
    <3>3. Min(I) \in I /\ \A i \in I : Min(I) <= i  BY <3>1, <3>2, MinIs
    <3>4. PICK s \in F : s[3] = Min(I)  BY <3>3
    <3>5. \A r \in F : s[3] <= r[3]  BY <3>3, <3>4
    <3> QED  BY <2>1, <2>2, <3>5
  <2> QED  BY <2>1, <2>2
<1> QED  BY <1>4, <1>5

\* ObjectsOf of a page become a free list: its objects point forward, and what
\* was on other lists stays there.
LEMMA LinkUpDisjoint ==
  ASSUME SmallTypeOK, ListsDisjoint,
         NEW k \in Pools, NEW n \in PageNumbers(k), NEW b \in Bins,
         NEW F \in SUBSET ObjectsOf(k, n, b), LinkUp(b, F),
         F \subseteq Listable(b)',
         \A c \in Bins : Listable(c) \subseteq Listable(c)' /\ F \cap Listable(c) = {}
  PROVE  /\ ListsDisjoint'
         /\ next' \in [Slots -> Slots \cup {Null}]
         /\ bucket' \in [Bins -> Slots \cup {Null}]
<1>1. F \subseteq Slots /\ Null \notin F
  BY ObjectsIn, NullAssumption
<1>2. \A s \in F : s[1] = k /\ s[2] = n /\ s = <<k, n, s[3]>> /\ s[3] \in 1 .. PerPage[b]
  BY ObjectsIn
<1>4. /\ \A s \in F :
           \/ next'[s] = Null /\ \A r \in F : ~(r[3] > s[3])
           \/ /\ next'[s] \in F /\ next'[s][3] > s[3]
              /\ \A r \in F : r[3] > s[3] => next'[s][3] <= r[3]
      /\ \/ bucket'[b] = Null /\ F = {}
         \/ bucket'[b] \in F /\ \A s \in F : bucket'[b][3] <= s[3]
  BY LinkUpOrder
<1>5. ASSUME NEW s \in F, NEW r \in F, r # s, next'[s] # Null
      PROVE  next'[r] # next'[s]
  <2>1. r[3] # s[3] /\ r[3] \in Int /\ s[3] \in Int  BY <1>2, <1>5
  <2>2. CASE s[3] < r[3]
    <3>1. next'[s] \in F /\ next'[s][3] <= r[3]  BY <1>4, <1>5, <2>2
    <3>2. next'[r] = Null \/ next'[r][3] > r[3]  BY <1>4
    <3>3. next'[s][3] \in Int  BY <1>2, <3>1
    <3> QED  BY <1>5, <2>1, <3>1, <3>2, <3>3
  <2>3. CASE r[3] < s[3]
    <3>1. next'[s] \in F /\ next'[s][3] > s[3]  BY <1>4, <1>5
    <3>2. s[3] > r[3]  BY <2>1, <2>3
    <3>3. next'[r] \in F /\ next'[r][3] <= s[3]  BY <1>4, <3>2
    <3>4. next'[s][3] \in Int /\ next'[r][3] \in Int  BY <1>2, <3>1, <3>3
    <3> QED  BY <2>1, <3>1, <3>3, <3>4
  <2> QED  BY <2>1, <2>2, <2>3
<1>6. \/ bucket'[b] = Null
      \/ bucket'[b] \in F /\ \A s \in F : bucket'[b][3] <= s[3]
  BY <1>4
\* What is not on it is as before.
<1>7. /\ \A c \in Bins : c # b => bucket'[c] = bucket[c]
      /\ \A s \in Slots : s \notin F => next'[s] = next[s]
  BY DEF LinkUp, SmallTypeOK
<1>8. next' \in [Slots -> Slots \cup {Null}]
  <2>1. \A s \in Slots : next'[s] \in Slots \cup {Null}
    BY <1>1, <1>4, <1>7 DEF SmallTypeOK
  <2>2. DOMAIN next' = Slots /\ next' = [s \in Slots |-> next'[s]]  BY DEF LinkUp
  <2> QED  BY <2>1, <2>2
<1>9. bucket' \in [Bins -> Slots \cup {Null}]
  BY <1>1, <1>6, <1>7 DEF LinkUp, SmallTypeOK
<1>10. \A c \in Bins : bucket'[c] # Null => bucket'[c] \in Listable(c)'
  BY <1>6, <1>7 DEF ListsDisjoint
<1>11. /\ \A c \in Bins : bucket[c] \notin F
       /\ \A s \in Slots : next[s] \notin F
  BY <1>1 DEF ListsDisjoint
<1>12. ASSUME NEW s \in Slots, next'[s] # Null
       PROVE  /\ \E c \in Bins : s \in Listable(c)' /\ next'[s] \in Listable(c)'
              /\ \A c \in Bins : bucket'[c] # next'[s]
              /\ \A r \in Slots \ {s} : next'[r] # next'[s]
  <2>1. CASE s \in F
    <3>1. next'[s] \in F /\ next'[s][3] > s[3]  BY <1>4, <1>12, <2>1
    <3>2. \A c \in Bins : bucket'[c] # next'[s]
      <4>1. bucket'[b] # next'[s]
        <5>1. next'[s][3] \in Int /\ s[3] \in Int  BY <1>2, <2>1, <3>1
        <5>2. bucket'[b] # Null => bucket'[b][3] <= s[3]  BY <1>6, <2>1
        <5> QED  BY <1>12, <3>1, <5>1, <5>2
      <4> QED  BY <1>7, <1>11, <3>1, <4>1
    <3>3. \A r \in Slots \ {s} : next'[r] # next'[s]
      BY <1>5, <1>7, <1>11, <1>12, <2>1, <3>1
    <3> QED  BY <2>1, <3>1, <3>2, <3>3
  <2>2. CASE s \notin F
    <3>1. next'[s] = next[s]  BY <1>7, <2>2
    <3>2. /\ \E c \in Bins : s \in Listable(c) /\ next[s] \in Listable(c)
          /\ \A c \in Bins : bucket[c] # next[s]
          /\ \A r \in Slots \ {s} : next[r] # next[s]
      BY <1>12, <3>1 DEF ListsDisjoint
    <3>3. next'[s] \notin F  BY <1>11, <3>1
    <3>4. \A c \in Bins : bucket'[c] # next'[s]
      BY <1>6, <1>7, <1>12, <3>1, <3>2, <3>3
    <3>5. \A r \in Slots \ {s} : next'[r] # next'[s]
      BY <1>4, <1>7, <1>12, <3>1, <3>2, <3>3
    <3> QED  BY <3>1, <3>2, <3>4, <3>5
  <2> QED  BY <2>1, <2>2
<1> QED  BY <1>8, <1>9, <1>10, <1>12 DEF ListsDisjoint

-----------------------------------------------------------------------------
(* Pools that are unmapped *)

LEMMA AllFreeEmpty ==
  ASSUME SmallInductive, NEW k \in AllFree(nfree)
  PROVE  FreeIn(k) = PageNumbers(k)
<1>1. k \in Pools /\ nfree[k] = PoolPages[k]
  BY DEF AllFree, SmallInductive, SmallTypeOK
<1>2. Cardinality(FreeIn(k)) = PoolPages[k]
  BY <1>1 DEF SmallInductive, FreeCounted
<1>3. FreeIn(k) \in SUBSET PageNumbers(k)  BY DEF FreeIn
<1> QED  BY <1>1, <1>2, <1>3, PagesSubset

\* minimize() takes no pool with a page in use.
LEMMA BusyStaysMapped ==
  ASSUME SmallInductive, mapped' \in {mapped, mapped \ AllFree(nfree)}
  PROVE  /\ mapped' \subseteq mapped
         /\ \A k \in mapped : \A n \in PageNumbers(k) : bin[k][n] \in Bins => k \in mapped'
         /\ \A k \in Pools \ mapped' : FreeIn(k) = PageNumbers(k)
<1>1. \A k \in AllFree(nfree) : FreeIn(k) = PageNumbers(k)  BY AllFreeEmpty
<1>2. \A k \in mapped : \A n \in PageNumbers(k) :
        bin[k][n] \in Bins => n \notin FreeIn(k)
  BY NullAssumption DEF FreeIn
<1>3. \A k \in Pools \ mapped : FreeIn(k) = PageNumbers(k)
  BY DEF SmallInductive, FreeCounted
<1> QED  BY <1>1, <1>2, <1>3

\* What minimize() leaves as it is.
LEMMA UnmapKeeps ==
  ASSUME SmallInductive, mapped' \in {mapped, mapped \ AllFree(nfree)},
         UNCHANGED <<bin, nfree, used>>,
         \A k \in Pools : \A n \in PageNumbers(k) :
           binPageChain[k][n] = PageRecovered => binPageChain'[k][n] = PageRecovered
  PROVE  /\ mapped' \subseteq mapped
         /\ UsedInPages' /\ FreeCounted'
         /\ \A b \in Bins : Listable(b) \subseteq Listable(b)'
<1>1. ASSUME NEW s \in used
      PROVE  s[1] \in mapped' /\ BinOf(s) \in Bins /\ s \in ObjectsOf(s[1], s[2], BinOf(s))
  <2>1. s[1] \in mapped /\ BinOf(s) \in Bins /\ s \in ObjectsOf(s[1], s[2], BinOf(s))
    BY DEF SmallInductive, UsedInPages
  <2>2. s[2] \in PageNumbers(s[1])  BY SlotIs DEF SmallInductive, SmallTypeOK
  <2> QED  BY <2>1, <2>2, BusyStaysMapped DEF BinOf
<1>2. UsedInPages'  BY <1>1 DEF UsedInPages, BinOf
<1>3. \A k : FreeIn(k)' = FreeIn(k)  BY DEF FreeIn
<1>4. FreeCounted'
  BY <1>3, BusyStaysMapped DEF SmallInductive, FreeCounted
<1>5. ASSUME NEW b \in Bins, NEW s \in Listable(b) PROVE s \in Listable(b)'
  <2>1. s \in Slots /\ s[1] \in mapped /\ BinOf(s) = b  BY DEF Listable
  <2>2. s[1] \in Pools /\ s[2] \in PageNumbers(s[1])  BY <2>1, SlotIs
  <2>3. s[1] \in mapped'  BY <2>1, <2>2, BusyStaysMapped DEF BinOf
  <2> QED  BY <2>2, <2>3 DEF Listable, BinOf
<1> QED  BY <1>2, <1>4, <1>5, BusyStaysMapped

LEMMA MinimizeInductive ==
  ASSUME SmallInductive, Minimize
  PROVE  SmallInductive'
<1>1. /\ mapped' \subseteq mapped
      /\ UsedInPages' /\ FreeCounted'
      /\ \A b \in Bins : Listable(b) \subseteq Listable(b)'
  BY UnmapKeeps DEF Minimize, pages
<1>2. SmallTypeOK'
  BY <1>1 DEF Minimize, SmallInductive, SmallTypeOK, Idle, pages, lists
<1>3. \A k : FreeIn(k)' = FreeIn(k)  BY DEF Minimize, FreeIn, pages
<1>4. \A k, b : Waiting(k, b)' = Waiting(k, b)  BY DEF Minimize, Waiting, pages
<1>5. FreeChained'  BY <1>3 DEF Minimize, SmallInductive, FreeChained, pages
<1>6. WaitingChained'  BY <1>4 DEF Minimize, SmallInductive, WaitingChained, pages
<1>7. RecoverPoolFirst'
  BY <1>1, <1>4 DEF Minimize, SmallInductive, RecoverPoolFirst
<1>8. ListsDisjoint'  BY <1>1, ListsKept DEF Minimize, SmallInductive
<1> QED  BY <1>1, <1>2, <1>5, <1>6, <1>7, <1>8 DEF SmallInductive

-----------------------------------------------------------------------------
(* recoverNextPage *)

\* The chain to recover begins with its highest page, and ends only when
\* there is none left.
LEMMA FirstWaiting ==
  ASSUME SmallInductive, NEW k \in Pools, NEW b \in Bins
  PROVE  /\ Waiting(k, b) # {} => recoverPageFirst[k][b] < PoolPages[k]
         /\ recoverPageFirst[k][b] < PoolPages[k] =>
              /\ recoverPageFirst[k][b] \in Waiting(k, b)
              /\ \A m \in Waiting(k, b) : m <= recoverPageFirst[k][b]
<1> DEFINE N == PoolPages[k]
           W == Waiting(k, b)
<1>1. N \in Nat /\ N \in Int /\ PageNumbers(k) = 0 .. N - 1  BY PagesFinite
<1>2. W \in SUBSET (0 .. N - 1)  BY <1>1 DEF Waiting
<1>3. recoverPageFirst[k][b] = Before(W, N, N)  BY DEF SmallInductive, WaitingChained
<1> HIDE DEF N, W
<1>4. \A m \in W : m \in Int /\ m < N  BY <1>1, <1>2
<1>5. \/ Before(W, N, N) = N /\ \A m \in W : N <= m
      \/ Before(W, N, N) \in W /\ \A m \in W : m < N => m <= Before(W, N, N)
  BY <1>1, <1>2, BeforeIs
<1>6. CASE Before(W, N, N) = N /\ \A m \in W : N <= m
  <2>1. W = {}  BY <1>1, <1>4, <1>6
  <2> QED  BY <1>1, <1>3, <1>6, <2>1 DEF N, W
<1>7. CASE Before(W, N, N) \in W /\ \A m \in W : m < N => m <= Before(W, N, N)
  <2>1. Before(W, N, N) < N /\ \A m \in W : m <= Before(W, N, N)  BY <1>4, <1>7
  <2> QED  BY <1>3, <1>7, <2>1 DEF N, W
<1> QED  BY <1>5, <1>6, <1>7

\* recoverNextPage, after minimize() or not.
LEMMA RecoverInductive ==
  ASSUME SmallInductive, NEW b \in Bins, recoverNextPage(b),
         mapped' \in {mapped, mapped \ AllFree(nfree)}, UNCHANGED <<used, lost>>,
         stage' \in Stages, Idle' \/ want' \in Bins
  PROVE  SmallInductive'
\* The pools it passes over have nothing to recover.
<1>1. ASSUME NEW k \in mapped, Waiting(k, b) # {}
      PROVE  k \in Recoverable(b)
  <2>1. k \in Pools  BY DEF SmallInductive, SmallTypeOK
  <2>2. recoverPageFirst[k][b] < PoolPages[k]  BY <1>1, <2>1, FirstWaiting
  <2>3. recoverPool[b] # Null /\ recoverPool[b] <= k
    BY <1>1 DEF SmallInductive, RecoverPoolFirst
  <2>4. recoverPool[b] \in Pools  BY <2>3 DEF SmallInductive, SmallTypeOK
  <2>5. recoverPool[b] \in Nat /\ k \in Nat  BY <2>1, <2>4, PoolsAssumption
  <2> QED  BY <2>2, <2>3, <2>5 DEF Recoverable
<1>2. CASE Recoverable(b) = {}
  <2>1. recoverPool' = [recoverPool EXCEPT ![b] = Null] /\ UNCHANGED <<pages, lists>>
    BY <1>2 DEF recoverNextPage
  <2>2. /\ mapped' \subseteq mapped
        /\ UsedInPages' /\ FreeCounted'
        /\ \A c \in Bins : Listable(c) \subseteq Listable(c)'
    BY <2>1, UnmapKeeps DEF pages
  <2>3. SmallTypeOK'
    BY <2>1, <2>2 DEF SmallInductive, SmallTypeOK, Idle, pages, lists
  <2>4. \A k : FreeIn(k)' = FreeIn(k)  BY <2>1 DEF FreeIn, pages
  <2>5. \A k, c : Waiting(k, c)' = Waiting(k, c)  BY <2>1 DEF Waiting, pages
  <2>6. FreeChained'  BY <2>1, <2>4 DEF SmallInductive, FreeChained, pages
  <2>7. WaitingChained'  BY <2>1, <2>5 DEF SmallInductive, WaitingChained, pages
  <2>8. RecoverPoolFirst'
    BY <1>1, <1>2, <2>1, <2>2, <2>5 DEF SmallInductive, SmallTypeOK, RecoverPoolFirst
  <2>9. ListsDisjoint'  BY <2>1, <2>2, ListsKept DEF SmallInductive
  <2> QED  BY <2>2, <2>3, <2>6, <2>7, <2>8, <2>9 DEF SmallInductive
<1>3. CASE Recoverable(b) # {}
  <2>1. Recoverable(b) \in SUBSET Nat
    BY PoolsAssumption DEF Recoverable, SmallInductive, SmallTypeOK
  <2>2. PICK k \in Recoverable(b) :
          k = Min(Recoverable(b)) /\ \A j \in Recoverable(b) : k <= j
    BY <1>3, <2>1, MinIs
  <2>3. k \in mapped /\ k \in Pools /\ recoverPageFirst[k][b] < PoolPages[k]
    BY <2>2 DEF Recoverable, SmallInductive, SmallTypeOK
  <2>4. PICK n \in Waiting(k, b) :
          n = recoverPageFirst[k][b] /\ \A m \in Waiting(k, b) : m <= n
    BY <2>3, FirstWaiting
  <2>5. n \in PageNumbers(k) /\ bin[k][n] = b /\ binPageChain[k][n] # PageRecovered
    BY <2>4 DEF Waiting
  <2>6. /\ recoverPool' = [recoverPool EXCEPT ![b] = k]
        /\ recoverPageFirst' = [recoverPageFirst EXCEPT ![k][b] = binPageChain[k][n]]
        /\ binPageChain' = [binPageChain EXCEPT ![k][n] = PageRecovered]
        /\ LinkUp(b, ObjectsOf(k, n, b) \ used)
        /\ UNCHANGED <<bin, firstFree, nfree>>
    BY <1>3, <2>2, <2>4 DEF recoverNextPage
  \* The page leaves its chain.
  <2>7. \A j \in Pools : \A m \in PageNumbers(j) :
          binPageChain'[j][m] =
            IF j = k /\ m = n THEN PageRecovered ELSE binPageChain[j][m]
    BY <2>3, <2>5, <2>6 DEF SmallInductive, SmallTypeOK
  <2>8. \A j \in Pools : \A c \in Bins :
          recoverPageFirst'[j][c] =
            IF j = k /\ c = b THEN binPageChain[k][n] ELSE recoverPageFirst[j][c]
    BY <2>3, <2>6 DEF SmallInductive, SmallTypeOK
  <2>9. \A j \in Pools : \A c \in Bins :
          Waiting(j, c)' = IF j = k /\ c = b THEN Waiting(j, c) \ {n} ELSE Waiting(j, c)
    BY <2>5, <2>6, <2>7 DEF Waiting
  <2>10. \A j : FreeIn(j)' = FreeIn(j)  BY <2>6 DEF FreeIn
  <2>11. /\ mapped' \subseteq mapped
         /\ UsedInPages' /\ FreeCounted'
         /\ \A c \in Bins : Listable(c) \subseteq Listable(c)'
    BY <2>6, <2>7, UnmapKeeps
  <2>12. FreeChained'
    <3>1. \A j \in Pools : \A m \in FreeIn(j) : binPageChain'[j][m] = binPageChain[j][m]
      BY <2>5, <2>7, NullAssumption DEF FreeIn
    <3> QED  BY <2>6, <2>10, <3>1 DEF SmallInductive, FreeChained
  <2>13. WaitingChained'
    <3>1. ASSUME NEW j \in Pools, NEW c \in Bins, ~(j = k /\ c = b)
          PROVE  /\ recoverPageFirst'[j][c] =
                      Before(Waiting(j, c)', PoolPages[j], PoolPages[j])
                 /\ \A m \in Waiting(j, c)' :
                      binPageChain'[j][m] = Before(Waiting(j, c)', m, PoolPages[j])
      <4>1. Waiting(j, c)' = Waiting(j, c) /\ recoverPageFirst'[j][c] = recoverPageFirst[j][c]
        BY <2>8, <2>9, <3>1
      <4>2. \A m \in Waiting(j, c) : binPageChain'[j][m] = binPageChain[j][m]
        BY <2>5, <2>7, <3>1 DEF Waiting
      <4> QED  BY <4>1, <4>2 DEF SmallInductive, WaitingChained
    <3>2. /\ recoverPageFirst'[k][b] = Before(Waiting(k, b)', PoolPages[k], PoolPages[k])
          /\ \A m \in Waiting(k, b)' :
               binPageChain'[k][m] = Before(Waiting(k, b)', m, PoolPages[k])
      <4> DEFINE W == Waiting(k, b)
                 V == Waiting(k, b) \ {n}
                 N == PoolPages[k]
      <4>1. N \in Int /\ \A m \in W : m \in Int /\ m < N /\ m <= n
        BY <2>3, <2>4, PagesFinite DEF Waiting
      <4>2. Waiting(k, b)' = V  BY <2>3, <2>9
      <4>3. binPageChain[k][n] = Before(W, n, N)
        BY <2>3, <2>4 DEF SmallInductive, WaitingChained
      <4>4. {m \in W : m < n} = {m \in V : m < N}
        BY <2>4, <4>1
      <4>5. Before(W, n, N) = Before(V, N, N)  BY <4>4, BeforeSame
      <4>6. recoverPageFirst'[k][b] = Before(V, N, N)  BY <2>3, <2>8, <4>3, <4>5
      <4>7. ASSUME NEW m \in V PROVE binPageChain'[k][m] = Before(V, m, N)
        <5>0. m \in W /\ m # n /\ m \in PageNumbers(k)
          BY DEF Waiting
        <5>1. binPageChain'[k][m] = Before(W, m, N)
          <6>1. binPageChain'[k][m] = binPageChain[k][m]
            BY <2>3, <2>7, <5>0
          <6>2. binPageChain[k][m] = Before(W, m, N)
            BY <2>3, <5>0 DEF SmallInductive, WaitingChained
          <6> QED  BY <6>1, <6>2
        <5>2. {i \in W : i < m} = {i \in V : i < m}
          <6>1. m \in W /\ m \in Int /\ m <= n /\ n \in Int
            BY <2>4, <4>1
          <6>2. ~ (n < m)
            BY <6>1
          <6> QED  BY ONLY <6>2
        <5> QED  BY <5>1, <5>2, BeforeSame
      <4> QED  BY <4>2, <4>6, <4>7
    <3> QED  BY <3>1, <3>2 DEF WaitingChained
  <2>14. RecoverPoolFirst'
    <3>1. ASSUME NEW j \in mapped', NEW c \in Bins, Waiting(j, c)' # {}
          PROVE  recoverPool'[c] # Null /\ recoverPool'[c] <= j
      <4>1. j \in mapped /\ j \in Pools  BY <2>11 DEF SmallInductive, SmallTypeOK
      <4>2. Waiting(j, c) # {}  BY <2>9, <3>1, <4>1
      <4>3. CASE c = b
        <5>1. k <= j  BY <1>1, <2>2, <4>1, <4>2, <4>3
        <5> QED
          BY <2>3, <2>6, <4>3, <5>1, NullAssumption DEF SmallInductive, SmallTypeOK
      <4>4. CASE c # b
        BY <2>6, <4>1, <4>2, <4>4 DEF SmallInductive, SmallTypeOK, RecoverPoolFirst
      <4> QED  BY <4>3, <4>4
    <3> QED  BY <3>1 DEF RecoverPoolFirst
  <2>15. /\ ListsDisjoint'
         /\ next' \in [Slots -> Slots \cup {Null}]
         /\ bucket' \in [Bins -> Slots \cup {Null}]
    <3> DEFINE F == ObjectsOf(k, n, b) \ used
    <3>1. F \in SUBSET ObjectsOf(k, n, b)  OBVIOUS
    <3>2. \A s \in F : s \in Slots /\ s[1] = k /\ s[2] = n /\ s \notin used
      BY <2>3, <2>5, ObjectsIn
    <3>3. k \in mapped'  BY <2>3, <2>5, BusyStaysMapped
    <3>4. F \subseteq Listable(b)'
      BY <2>3, <2>5, <2>6, <2>7, <3>2, <3>3 DEF Listable, BinOf
    <3>5. \A c \in Bins : F \cap Listable(c) = {}
      BY <2>5, <3>2 DEF Listable
    <3> HIDE DEF F
    <3>6. LinkUp(b, F)  BY <2>6 DEF F
    <3> QED
      BY <2>3, <2>5, <2>11, <3>1, <3>4, <3>5, <3>6, LinkUpDisjoint DEF SmallInductive
  <2>16. SmallTypeOK'
    <3>1. ASSUME NEW j \in Pools
          PROVE  /\ bin'[j] \in [PageNumbers(j) -> Bins \cup {Null}]
                 /\ binPageChain'[j] \in [PageNumbers(j) -> PageRecovered .. PoolPages[j]]
                 /\ recoverPageFirst'[j] \in [Bins -> 0 .. PoolPages[j]]
      <4>1. PageRecovered \in PageRecovered .. PoolPages[j]
        BY PagesFinite DEF PageRecovered
      <4>2. binPageChain[k][n] \in 0 .. PoolPages[k]
        <5>1. binPageChain[k][n] \in PageRecovered .. PoolPages[k]
          BY <2>3, <2>5 DEF SmallInductive, SmallTypeOK
        <5> QED  BY <2>3, <2>5, <5>1, PagesFinite DEF PageRecovered
      <4> QED
        BY <2>3, <2>5, <2>6, <4>1, <4>2 DEF SmallInductive, SmallTypeOK
    <3>2. /\ DOMAIN bin' = Pools /\ DOMAIN binPageChain' = Pools
          /\ DOMAIN recoverPageFirst' = Pools
          /\ recoverPool' \in [Bins -> Pools \cup {Null}]
      BY <2>3, <2>6 DEF SmallInductive, SmallTypeOK
    <3> QED
      BY <2>6, <2>11, <2>15, <3>1, <3>2 DEF SmallInductive, SmallTypeOK
  <2> QED  BY <2>11, <2>12, <2>13, <2>14, <2>15, <2>16 DEF SmallInductive
<1> QED  BY <1>2, <1>3

-----------------------------------------------------------------------------
(* Pages and pools that are added *)

\* allocPage of smallAlloc
LEMMA TryPageInductive ==
  ASSUME SmallInductive, TryPage
  PROVE  SmallInductive'
<1>1. PICK b \in Bins : b = want
  BY DEF TryPage, Trying, SmallInductive, SmallTypeOK, Idle
<1>2. WithRoom # {} /\ WithRoom \in SUBSET Nat
  BY PoolsAssumption DEF TryPage, allocPage, WithRoom, SmallInductive, SmallTypeOK
<1>3. PICK k \in WithRoom : k = Min(WithRoom)  BY <1>2, MinIs
<1>4. k \in mapped /\ k \in Pools /\ firstFree[k] < PoolPages[k]
  BY DEF WithRoom, SmallInductive, SmallTypeOK
<1>5. PICK n \in FreeIn(k) : n = firstFree[k]
  BY <1>4, PagesFinite DEF SmallInductive, FreeChained
<1>6. n \in PageNumbers(k) /\ bin[k][n] = Null  BY DEF FreeIn
<1>7. /\ bin' = [bin EXCEPT ![k][n] = b]
      /\ firstFree' = [firstFree EXCEPT ![k] = binPageChain[k][n]]
      /\ binPageChain' = [binPageChain EXCEPT ![k][n] = PageRecovered]
      /\ nfree' = [nfree EXCEPT ![k] = @ - 1]
      /\ LinkUp(b, ObjectsOf(k, n, b))
      /\ UNCHANGED <<mapped, recoverPageFirst, used, recoverPool, want, stage, lost>>
  BY <1>1, <1>3, <1>5 DEF TryPage, allocPage
<1>8. \A j \in Pools : \A m \in PageNumbers(j) :
        /\ bin'[j][m] = IF j = k /\ m = n THEN b ELSE bin[j][m]
        /\ binPageChain'[j][m] =
             IF j = k /\ m = n THEN PageRecovered ELSE binPageChain[j][m]
  BY <1>4, <1>6, <1>7 DEF SmallInductive, SmallTypeOK
<1>9. /\ \A j \in Pools : FreeIn(j)' = IF j = k THEN FreeIn(j) \ {n} ELSE FreeIn(j)
      /\ \A j \in Pools : \A c \in Bins : Waiting(j, c)' = Waiting(j, c)
  BY <1>4, <1>6, <1>8, NullAssumption DEF FreeIn, Waiting
<1>10. UsedInPages'
  <2>1. ASSUME NEW s \in used PROVE BinOf(s)' = BinOf(s)
    <3>1. s[1] \in Pools /\ s[2] \in PageNumbers(s[1])
      BY SlotIs DEF SmallInductive, SmallTypeOK
    <3>2. bin[s[1]][s[2]] # Null
      BY NullAssumption DEF SmallInductive, UsedInPages, BinOf
    <3> QED  BY <1>6, <1>8, <3>1, <3>2 DEF BinOf
  <2> QED  BY <1>7, <2>1 DEF SmallInductive, UsedInPages
<1>11. FreeCounted' /\ nfree' \in [Pools -> Nat]
  <2>1. ASSUME NEW j \in Pools
        PROVE  /\ nfree'[j] = Cardinality(FreeIn(j)')
               /\ nfree'[j] \in Nat
               /\ j \notin mapped' => FreeIn(j)' = PageNumbers(j)
    <3>1. CASE j = k
      <4>1. FreeIn(k) \in SUBSET PageNumbers(k)  BY DEF FreeIn
      <4>2. IsFiniteSet(FreeIn(k)) /\ Cardinality(FreeIn(k)) \in Nat
        BY <1>4, <4>1, PagesSubset
      <4>3. Cardinality(FreeIn(k) \ {n}) = Cardinality(FreeIn(k)) - 1
        BY <4>2, FS_RemoveElement
      <4>4. Cardinality(FreeIn(k) \ {n}) \in Nat
        BY <4>2, FS_RemoveElement, FS_CardinalityType
      <4> QED
        BY <1>4, <1>7, <1>9, <3>1, <4>3, <4>4
        DEF SmallInductive, SmallTypeOK, FreeCounted
    <3>2. CASE j # k
      BY <1>4, <1>7, <1>9, <3>2 DEF SmallInductive, SmallTypeOK, FreeCounted
    <3> QED  BY <3>1, <3>2
  <2> QED  BY <1>7, <2>1 DEF SmallInductive, SmallTypeOK, FreeCounted
<1>12. FreeChained' /\ firstFree' \in [Pools -> Nat]
  <2>1. ASSUME NEW j \in Pools
        PROVE  /\ firstFree[j] \in FreeIn(j) \cup {PoolPages[j]}
               /\ \A m \in FreeIn(j) :
                    /\ binPageChain[j][m] \in FreeIn(j) \cup {PoolPages[j]}
                    /\ binPageChain[j][m] = firstFree[j] => firstFree[j] = PoolPages[j]
                    /\ \A i \in FreeIn(j) \ {m} :
                         binPageChain[j][i] = binPageChain[j][m] =>
                           binPageChain[j][m] = PoolPages[j]
    BY DEF SmallInductive, FreeChained
  <2>2. ASSUME NEW j \in Pools
        PROVE  /\ firstFree'[j] \in FreeIn(j)' \cup {PoolPages[j]}
               /\ \A m \in FreeIn(j)' :
                    /\ binPageChain'[j][m] \in FreeIn(j)' \cup {PoolPages[j]}
                    /\ binPageChain'[j][m] = firstFree'[j] => firstFree'[j] = PoolPages[j]
                    /\ \A i \in FreeIn(j)' \ {m} :
                         binPageChain'[j][i] = binPageChain'[j][m] =>
                           binPageChain'[j][m] = PoolPages[j]
    <3>1. \A m \in FreeIn(j)' : binPageChain'[j][m] = binPageChain[j][m] /\ m \in FreeIn(j)
      BY <1>8, <1>9 DEF FreeIn
    <3>2. CASE j = k
      <4>1. firstFree'[j] = binPageChain[k][n]
        BY <1>4, <1>7, <3>2 DEF SmallInductive, SmallTypeOK
      <4>2. FreeIn(j)' = FreeIn(k) \ {n}  BY <1>4, <1>9, <3>2
      <4>3. n # PoolPages[k]
        BY <1>4, <1>5, PagesFinite DEF SmallInductive, SmallTypeOK
      <4>4. \A m \in FreeIn(k) : binPageChain[k][m] # n  BY <1>4, <1>5, <2>1, <4>3
      <4> QED  BY <1>4, <1>5, <2>1, <3>1, <3>2, <4>1, <4>2, <4>4
    <3>3. CASE j # k
      <4>1. firstFree'[j] = firstFree[j] /\ FreeIn(j)' = FreeIn(j)
        BY <1>7, <1>9, <3>3 DEF SmallInductive, SmallTypeOK
      <4> QED  BY <2>1, <3>1, <4>1
    <3> QED  BY <3>2, <3>3
  <2>3. FreeChained'  BY <2>2 DEF FreeChained
  <2>4. \A j \in Pools : firstFree'[j] \in Nat
    <3>1. ASSUME NEW j \in Pools PROVE firstFree'[j] \in Nat
      <4>1. FreeIn(j)' \subseteq PageNumbers(j)  BY DEF FreeIn
      <4>2. \A m \in PageNumbers(j) : m \in Nat  BY PagesFinite
      <4> QED  BY <2>2, <4>1, <4>2, PagesFinite
    <3> QED  BY <3>1
  <2> QED  BY <1>7, <2>3, <2>4 DEF SmallInductive, SmallTypeOK
<1>13. WaitingChained'
  <2>1. \A j \in Pools : \A c \in Bins : \A m \in Waiting(j, c) :
          binPageChain'[j][m] = binPageChain[j][m]
    BY <1>6, <1>8, NullAssumption DEF Waiting
  <2> QED  BY <1>7, <1>9, <2>1 DEF SmallInductive, WaitingChained
<1>14. RecoverPoolFirst'
  BY <1>7, <1>9 DEF SmallInductive, SmallTypeOK, RecoverPoolFirst
<1>15. /\ ListsDisjoint'
       /\ next' \in [Slots -> Slots \cup {Null}]
       /\ bucket' \in [Bins -> Slots \cup {Null}]
  <2> DEFINE F == ObjectsOf(k, n, b)
  <2>1. \A s \in F : s \in Slots /\ s[1] = k /\ s[2] = n
    BY <1>4, <1>6, ObjectsIn
  <2>2. \A s \in used : ~(s[1] = k /\ s[2] = n)
    BY <1>6, NullAssumption DEF SmallInductive, UsedInPages, BinOf
  <2>3. F \subseteq Listable(b)'
    BY <1>4, <1>6, <1>7, <1>8, <2>1, <2>2 DEF Listable, BinOf
  <2>4. \A c \in Bins : \A s \in Listable(c) : ~(s[1] = k /\ s[2] = n)
    BY <1>6, NullAssumption DEF Listable, BinOf
  <2>5. ASSUME NEW c \in Bins, NEW s \in Listable(c) PROVE s \in Listable(c)'
    <3>1. s[1] \in Pools /\ s[2] \in PageNumbers(s[1])  BY SlotIs DEF Listable
    <3> QED  BY <1>7, <1>8, <2>4, <3>1 DEF Listable, BinOf
  <2>6. \A c \in Bins : F \cap Listable(c) = {}  BY <2>1, <2>4
  <2>7. F \in SUBSET ObjectsOf(k, n, b)  OBVIOUS
  <2> HIDE DEF F
  <2>8. LinkUp(b, F)  BY <1>7 DEF F
  <2> QED
    BY <1>4, <1>6, <2>3, <2>5, <2>6, <2>7, <2>8, LinkUpDisjoint DEF SmallInductive
<1>16. SmallTypeOK'
  <2>1. ASSUME NEW j \in Pools
        PROVE  /\ bin'[j] \in [PageNumbers(j) -> Bins \cup {Null}]
               /\ binPageChain'[j] \in [PageNumbers(j) -> PageRecovered .. PoolPages[j]]
               /\ recoverPageFirst'[j] \in [Bins -> 0 .. PoolPages[j]]
    <3>1. PageRecovered \in PageRecovered .. PoolPages[j]
      BY PagesFinite DEF PageRecovered
    <3> QED  BY <1>4, <1>6, <1>7, <3>1 DEF SmallInductive, SmallTypeOK
  <2>2. DOMAIN bin' = Pools /\ DOMAIN binPageChain' = Pools /\ DOMAIN recoverPageFirst' = Pools
    BY <1>7 DEF SmallInductive, SmallTypeOK
  <2> QED
    BY <1>7, <1>11, <1>12, <1>15, <2>1, <2>2 DEF SmallInductive, SmallTypeOK, Idle
<1> QED  BY <1>10, <1>11, <1>12, <1>13, <1>14, <1>15, <1>16 DEF SmallInductive

LEMMA NewPoolInductive ==
  ASSUME SmallInductive, MallocNewPool
  PROVE  SmallInductive'
<1>1. PICK k \in Pools : newPool(k)  BY DEF MallocNewPool
<1>2. k \notin mapped /\ FreeIn(k) = PageNumbers(k)
  BY <1>1 DEF newPool, SmallInductive, FreeCounted
<1>3. /\ \A m \in PageNumbers(k) : bin[k][m] = Null
      /\ \A b \in Bins : Waiting(k, b) = {}
  BY <1>2, NullAssumption DEF FreeIn, Waiting
<1>4. \A j \in Pools :
        /\ bin'[j] = IF j = k THEN [n \in PageNumbers(k) |-> Null] ELSE bin[j]
        /\ binPageChain'[j] =
             IF j = k THEN [n \in PageNumbers(k) |-> n + 1] ELSE binPageChain[j]
        /\ recoverPageFirst'[j] =
             IF j = k THEN [b \in Bins |-> PoolPages[k]] ELSE recoverPageFirst[j]
        /\ firstFree'[j] = IF j = k THEN 0 ELSE firstFree[j]
        /\ nfree'[j] = IF j = k THEN PoolPages[k] ELSE nfree[j]
  BY <1>1 DEF newPool, SmallInductive, SmallTypeOK
<1>16. /\ binPageChain'[k] = [n \in PageNumbers(k) |-> n + 1]
      /\ recoverPageFirst'[k] = [b \in Bins |-> PoolPages[k]]
      /\ bin'[k] = [n \in PageNumbers(k) |-> Null]
      /\ firstFree'[k] = 0 /\ nfree'[k] = PoolPages[k]
  BY <1>4
<1>5. \A j \in Pools : \A m \in PageNumbers(j) : bin'[j][m] = bin[j][m]
  BY <1>3, <1>4
<1>6. \A j \in Pools : FreeIn(j)' = FreeIn(j)  BY <1>5 DEF FreeIn
<1>7. \A j \in Pools : \A b \in Bins : Waiting(j, b)' = Waiting(j, b)
  <2>1. \A b \in Bins : Waiting(k, b)' = {}
    BY <1>3, <1>5, NullAssumption DEF Waiting
  <2>2. \A j \in Pools : \A b \in Bins : j # k => Waiting(j, b)' = Waiting(j, b)
    BY <1>4 DEF Waiting
  <2> QED  BY <1>3, <2>1, <2>2
<1>8. /\ mapped' = mapped \cup {k}
      /\ UNCHANGED <<used, lists, recoverPool, want, lost>>
      /\ stage' \in Stages
  BY <1>1 DEF newPool, MallocNewPool, Stages
<1>9. UsedInPages'
  <2>1. ASSUME NEW s \in used PROVE BinOf(s)' = BinOf(s)
    <3>1. s[1] \in Pools /\ s[2] \in PageNumbers(s[1])
      BY SlotIs DEF SmallInductive, SmallTypeOK
    <3> QED  BY <1>5, <3>1 DEF BinOf
  <2> QED  BY <1>8, <2>1 DEF SmallInductive, UsedInPages
<1>10. FreeCounted'
  <2>1. Cardinality(FreeIn(k)') = PoolPages[k]  BY <1>2, <1>6, PagesFinite
  <2> QED  BY <1>2, <1>4, <1>6, <1>8, <2>1 DEF SmallInductive, FreeCounted
<1>11. FreeChained'
  <2>1. ASSUME NEW n \in PageNumbers(k)
        PROVE  /\ binPageChain'[k][n] = n + 1 /\ n \in 0 .. PoolPages[k] - 1
               /\ binPageChain'[k][n] \in PageNumbers(k) \cup {PoolPages[k]}
    BY <1>16, PagesFinite
  <2>2. 0 \in PageNumbers(k)  BY PagesFinite
  <2>3. FreeIn(k)' = PageNumbers(k) /\ firstFree'[k] = 0  BY <1>2, <1>4, <1>6
  <2>4. ASSUME NEW j \in Pools, j # k
        PROVE  /\ FreeIn(j)' = FreeIn(j) /\ firstFree'[j] = firstFree[j]
               /\ binPageChain'[j] = binPageChain[j]
    BY <1>4, <1>6, <2>4
  <2> QED  BY <2>1, <2>2, <2>3, <2>4 DEF SmallInductive, FreeChained
<1>12. WaitingChained'
  <2>1. ASSUME NEW j \in Pools, NEW b \in Bins
        PROVE  /\ recoverPageFirst'[j][b] = Before(Waiting(j, b)', PoolPages[j], PoolPages[j])
               /\ \A n \in Waiting(j, b)' :
                    binPageChain'[j][n] = Before(Waiting(j, b)', n, PoolPages[j])
    <3>1. CASE j = k
      <4>1. Waiting(j, b)' = {}  BY <1>3, <1>7, <3>1
      <4>2. recoverPageFirst'[j][b] = PoolPages[j]  BY <1>16, <3>1
      <4> QED  BY <4>1, <4>2 DEF Before
    <3>2. CASE j # k
      <4>1. /\ recoverPageFirst'[j] = recoverPageFirst[j]
            /\ binPageChain'[j] = binPageChain[j]
        BY <1>4, <3>2
      <4>2. Waiting(j, b)' = Waiting(j, b)  BY <1>7
      <4> QED  BY <4>1, <4>2 DEF SmallInductive, WaitingChained
    <3> QED  BY <3>1, <3>2
  <2> QED  BY <2>1 DEF WaitingChained
<1>13. RecoverPoolFirst'
  <2>1. ASSUME NEW b \in Bins, NEW j \in mapped', Waiting(j, b)' # {}
        PROVE  recoverPool'[b] # Null /\ recoverPool'[b] <= j
    <3>1. j \in Pools  BY <1>8 DEF SmallInductive, SmallTypeOK
    <3>2. j \in mapped /\ Waiting(j, b) # {}  BY <1>3, <1>7, <1>8, <2>1, <3>1
    <3> QED  BY <1>8, <3>2 DEF SmallInductive, RecoverPoolFirst
  <2> QED  BY <2>1 DEF RecoverPoolFirst
<1>14. ListsDisjoint'
  <2>1. ASSUME NEW b \in Bins, NEW s \in Listable(b) PROVE s \in Listable(b)'
    <3>1. s[1] \in Pools /\ s[2] \in PageNumbers(s[1])  BY SlotIs DEF Listable
    <3>2. s[1] # k  BY <1>2 DEF Listable
    <3> QED  BY <1>4, <1>8, <3>1, <3>2 DEF Listable, BinOf
  <2> QED  BY <1>8, <2>1, ListsKept DEF SmallInductive
<1>15. SmallTypeOK'
  <2>1. ASSUME NEW j \in Pools
        PROVE  /\ bin'[j] \in [PageNumbers(j) -> Bins \cup {Null}]
               /\ binPageChain'[j] \in [PageNumbers(j) -> PageRecovered .. PoolPages[j]]
               /\ recoverPageFirst'[j] \in [Bins -> 0 .. PoolPages[j]]
               /\ firstFree'[j] \in Nat /\ nfree'[j] \in Nat
    <3>1. CASE j = k
      <4>1. [n \in PageNumbers(k) |-> n + 1] \in
              [PageNumbers(k) -> PageRecovered .. PoolPages[k]]
        BY PagesFinite DEF PageRecovered
      <4>2. PoolPages[k] \in 0 .. PoolPages[k] /\ PoolPages[k] \in Nat  BY PagesFinite
      <4> QED  BY <1>16, <3>1, <4>1, <4>2
    <3>2. CASE j # k
      BY <1>4, <3>2 DEF SmallInductive, SmallTypeOK
    <3> QED  BY <3>1, <3>2
  <2>2. /\ DOMAIN bin' = Pools /\ DOMAIN binPageChain' = Pools
        /\ DOMAIN recoverPageFirst' = Pools
        /\ firstFree' \in [Pools -> Nat] /\ nfree' \in [Pools -> Nat]
    BY <1>1, <2>1 DEF newPool, SmallInductive, SmallTypeOK
  <2>3. want' \in Bins
    BY <1>8 DEF MallocNewPool, TryFails, Trying, SmallInductive, SmallTypeOK, Idle
  <2> QED
    BY <1>8, <2>1, <2>2, <2>3 DEF SmallInductive, SmallTypeOK, lists
<1> QED
  BY <1>9, <1>10, <1>11, <1>12, <1>13, <1>14, <1>15 DEF SmallInductive

-----------------------------------------------------------------------------
(* Collection *)

LEMMA CollectInductive ==
  ASSUME SmallInductive, NEW live \in SUBSET used, NEW minimized \in BOOLEAN,
         Collect(live, minimized), stage' \in Stages, Idle' \/ want' \in Bins
  PROVE  SmallInductive'
<1> DEFINE G(k) == Gone(k, live)
           R(k, b) == ToRecover(k, b, live)
<1>1. ASSUME NEW k \in Pools
      PROVE  /\ G(k) \in SUBSET PageNumbers(k) /\ G(k) \cap FreeIn(k) = {}
             /\ \A b \in Bins : R(k, b) \in SUBSET PageNumbers(k)
             /\ \A b \in Bins : \A n \in R(k, b) : n \notin G(k) /\ bin[k][n] = b
  BY DEF Gone, ToRecover, FreeIn
<1>2. ASSUME NEW k \in Pools, NEW n \in PageNumbers(k)
      PROVE  /\ bin'[k][n] = IF n \in G(k) THEN Null ELSE bin[k][n]
             /\ n \in FreeIn(k) => binPageChain'[k][n] = binPageChain[k][n]
             /\ n \in G(k) => binPageChain'[k][n] = Before(G(k), n, firstFree[k])
             /\ \A b \in Bins : n \in R(k, b) =>
                  binPageChain'[k][n] = Before(R(k, b), n, PoolPages[k])
             /\ \A b \in Bins : bin[k][n] = b /\ n \notin G(k) \cup R(k, b) =>
                  binPageChain'[k][n] = PageRecovered
  <2>1. bin'[k][n] = IF n \in G(k) THEN Null ELSE bin[k][n]
    BY DEF Collect, Sweep
  <2>2. binPageChain'[k][n] =
          IF bin[k][n] = Null THEN binPageChain[k][n]
          ELSE IF n \in G(k) THEN Before(G(k), n, firstFree[k])
          ELSE IF n \in R(k, bin[k][n]) THEN Before(R(k, bin[k][n]), n, PoolPages[k])
          ELSE PageRecovered
    BY DEF Collect, Sweep
  <2>3. n \in FreeIn(k) <=> bin[k][n] = Null  BY DEF FreeIn
  <2> QED  BY <1>1, <2>1, <2>2, <2>3, NullAssumption
<1>3. ASSUME NEW k \in Pools
      PROVE  /\ FreeIn(k)' = FreeIn(k) \cup G(k)
             /\ firstFree'[k] = Before(G(k), PoolPages[k], firstFree[k])
             /\ nfree'[k] = nfree[k] + Cardinality(G(k))
             /\ \A b \in Bins :
                  recoverPageFirst'[k][b] = Before(R(k, b), PoolPages[k], PoolPages[k])
  <2>1. FreeIn(k)' = FreeIn(k) \cup G(k)  BY <1>1, <1>2 DEF FreeIn
  <2> QED  BY <2>1 DEF Collect, Sweep
<1>4. /\ used' = used \cap live /\ lost' = {}
      /\ mapped' = IF minimized THEN mapped \ AllFree(nfree') ELSE mapped
      /\ bucket' = [b \in Bins |-> Null] /\ next' = [s \in Slots |-> Null]
  BY DEF Collect, Sweep
<1> HIDE DEF G, R
\* Chains to recover.
<1>5. ASSUME NEW k \in Pools, NEW b \in Bins, NEW n \in Int
      PROVE  \/ Before(R(k, b), n, PoolPages[k]) = PoolPages[k] /\ \A m \in R(k, b) : n <= m
             \/ /\ Before(R(k, b), n, PoolPages[k]) \in R(k, b)
                /\ Before(R(k, b), n, PoolPages[k]) < n
  BY <1>1, PagesFinite, BeforeIs
<1>6. ASSUME NEW k \in Pools, NEW b \in Bins, NEW n \in Int
      PROVE  Before(R(k, b), n, PoolPages[k]) \in 0 .. PoolPages[k]
  <2>1. \A m \in R(k, b) : m \in 0 .. PoolPages[k]  BY <1>1, PagesFinite
  <2>2. PoolPages[k] \in 0 .. PoolPages[k]  BY PagesFinite
  <2> QED  BY <1>5, <2>1, <2>2
<1>7. ASSUME NEW k \in Pools, NEW b \in Bins
      PROVE  Waiting(k, b)' = R(k, b)
  <2>1. ASSUME NEW n \in R(k, b) PROVE n \in Waiting(k, b)'
    <3>1. n \in PageNumbers(k) /\ bin'[k][n] = b  BY <1>1, <1>2
    <3>2. n \in Int  BY <3>1, PagesFinite
    <3>3. binPageChain'[k][n] \in 0 .. PoolPages[k]  BY <1>2, <1>6, <3>1, <3>2
    <3>4. binPageChain'[k][n] # PageRecovered  BY <3>3 DEF PageRecovered
    <3> QED  BY <3>1, <3>4 DEF Waiting
  <2>2. ASSUME NEW n \in Waiting(k, b)' PROVE n \in R(k, b)
    <3>1. n \in PageNumbers(k) /\ bin'[k][n] = b /\ binPageChain'[k][n] # PageRecovered
      BY DEF Waiting
    <3> QED  BY <1>2, <3>1, NullAssumption
  <2> QED  BY <2>1, <2>2
<1>8. WaitingChained'
  <2>1. ASSUME NEW k \in Pools, NEW b \in Bins, NEW n \in R(k, b)
        PROVE  binPageChain'[k][n] = Before(R(k, b), n, PoolPages[k])
    BY <1>1, <1>2
  <2> QED  BY <1>3, <1>7, <2>1 DEF WaitingChained
\* Chains of free pages.
<1>9. ASSUME NEW k \in Pools, NEW n \in Int
      PROVE  \/ /\ Before(G(k), n, firstFree[k]) = firstFree[k]
                /\ \A m \in G(k) : n <= m
             \/ /\ Before(G(k), n, firstFree[k]) \in G(k)
                /\ Before(G(k), n, firstFree[k]) < n
                /\ \A m \in G(k) : m < n => m <= Before(G(k), n, firstFree[k])
  BY <1>1, PagesFinite, BeforeIs
<1>10. FreeChained'
  <2> SUFFICES ASSUME NEW k \in Pools
               PROVE  /\ firstFree'[k] \in FreeIn(k)' \cup {PoolPages[k]}
                      /\ \A n \in FreeIn(k)' :
                           /\ binPageChain'[k][n] \in FreeIn(k)' \cup {PoolPages[k]}
                           /\ binPageChain'[k][n] = firstFree'[k] => firstFree'[k] = PoolPages[k]
                           /\ \A m \in FreeIn(k)' \ {n} :
                                binPageChain'[k][m] = binPageChain'[k][n] =>
                                  binPageChain'[k][n] = PoolPages[k]
    BY DEF FreeChained
  <2> DEFINE N == PoolPages[k]
             F == FreeIn(k)
             H == G(k)
             first == firstFree[k]
             chain(n) == binPageChain[k][n]
  <2>1. /\ first \in F \cup {N}
        /\ \A n \in F : /\ chain(n) \in F \cup {N}
                        /\ chain(n) = first => first = N
                        /\ \A m \in F \ {n} : chain(m) = chain(n) => chain(n) = N
    BY DEF SmallInductive, FreeChained
  <2>2. /\ N \in Int /\ N \notin H /\ H \cap F = {}
        /\ \A n \in H : n \in Int /\ n < N
    BY <1>1, PagesFinite
  <2>3. /\ \A n \in F : binPageChain'[k][n] = chain(n)
        /\ \A n \in H : binPageChain'[k][n] = Before(H, n, first)
        /\ FreeIn(k)' = F \cup H
        /\ firstFree'[k] = Before(H, N, first)
    BY <1>1, <1>2, <1>3 DEF FreeIn
  <2> DEFINE before(n) == Before(H, n, first)
  <2>4. \A n \in Int :
          \/ before(n) = first /\ \A m \in H : n <= m
          \/ before(n) \in H /\ before(n) < n /\ \A m \in H : m < n => m <= before(n)
    BY <1>9
  <2> HIDE DEF N, F, H, first, chain, before
  <2>5. \/ before(N) = first /\ H = {}
        \/ before(N) \in H /\ \A m \in H : m <= before(N)
    BY <2>2, <2>4
  <2>6. ASSUME NEW n \in H
        PROVE  /\ before(n) \in F \cup H \cup {N}
               /\ before(n) # before(N)
               /\ \A m \in H \ {n} : before(m) # before(n)
               /\ \A m \in F : before(n) = chain(m) => chain(m) = N
    <3>1. n \in Int  BY <2>2
    <3>2. before(n) = first \/ (before(n) \in H /\ before(n) < n)  BY <2>4, <3>1
    <3>3. before(N) \in H /\ n <= before(N)  BY <2>5
    <3>7. first \notin H  BY <2>1, <2>2
    <3>8. before(N) \in Int  BY <2>2, <3>3
    <3>4. before(n) # before(N)
      <4>1. CASE before(n) = first  BY <3>3, <3>7, <4>1
      <4>2. CASE before(n) \in H /\ before(n) < n
        <5>1. before(n) \in Int  BY <2>2, <4>2
        <5> QED  BY <3>1, <3>3, <3>8, <4>2, <5>1
      <4> QED  BY <3>2, <4>1, <4>2
    <3>5. ASSUME NEW m \in H \ {n} PROVE before(m) # before(n)
      <4>1. m \in Int  BY <2>2
      <4>2. CASE m < n
        <5>1. before(n) \in H /\ m <= before(n)  BY <2>4, <3>1, <4>1, <4>2
        <5>2. before(m) = first \/ (before(m) \in H /\ before(m) < m)  BY <2>4, <4>1
        <5>3. before(n) \in Int  BY <2>2, <5>1
        <5>4. CASE before(m) = first  BY <3>7, <5>1, <5>4
        <5>5. CASE before(m) \in H /\ before(m) < m
          <6>1. before(m) \in Int  BY <2>2, <5>5
          <6> QED  BY <4>1, <5>1, <5>3, <5>5, <6>1
        <5> QED  BY <5>2, <5>4, <5>5
      <4>3. CASE n < m
        <5>1. before(m) \in H /\ n <= before(m)  BY <2>4, <3>1, <4>1, <4>3
        <5>2. before(m) \in Int  BY <2>2, <5>1
        <5>3. CASE before(n) = first  BY <3>7, <5>1, <5>3
        <5>4. CASE before(n) \in H /\ before(n) < n
          <6>1. before(n) \in Int  BY <2>2, <5>4
          <6> QED  BY <3>1, <5>1, <5>2, <5>4, <6>1
        <5> QED  BY <3>2, <5>3, <5>4
      <4> QED  BY <3>1, <4>1, <4>2, <4>3
    <3>6. \A m \in F : before(n) = chain(m) => chain(m) = N
      BY <2>1, <2>2, <3>2
    <3> QED  BY <2>1, <3>2, <3>4, <3>5, <3>6
  <2>7. ASSUME NEW n \in F
        PROVE  chain(n) = before(N) => before(N) = N
    BY <2>1, <2>2, <2>5
  <2>8. before(N) \in F \cup H \cup {N}  BY <2>1, <2>5
  <2>9. /\ \A n \in H : binPageChain'[k][n] = before(n)
        /\ firstFree'[k] = before(N)
    BY <2>3 DEF before
  <2> QED
    <3>1. firstFree'[k] \in F \cup H \cup {N}  BY <2>8, <2>9
    <3>2. ASSUME NEW n \in F \cup H
          PROVE  /\ binPageChain'[k][n] \in F \cup H \cup {N}
                 /\ binPageChain'[k][n] = firstFree'[k] => firstFree'[k] = N
                 /\ \A m \in (F \cup H) \ {n} :
                      binPageChain'[k][m] = binPageChain'[k][n] => binPageChain'[k][n] = N
      <4>1. CASE n \in F
        BY <2>1, <2>3, <2>6, <2>7, <2>9, <4>1
      <4>2. CASE n \in H
        BY <2>3, <2>6, <2>9, <4>2
      <4> QED  BY <4>1, <4>2
    <3> QED  BY <2>3, <3>1, <3>2 DEF N
\* Counts.
<1>11. FreeCounted' /\ nfree' \in [Pools -> Nat]
  <2>1. ASSUME NEW k \in Pools
        PROVE  /\ nfree'[k] = Cardinality(FreeIn(k)') /\ nfree'[k] \in Nat
               /\ k \notin mapped' => FreeIn(k)' = PageNumbers(k)
    <3>1. FreeIn(k) \in SUBSET PageNumbers(k)  BY DEF FreeIn
    <3>2. /\ IsFiniteSet(FreeIn(k)) /\ Cardinality(FreeIn(k)) \in Nat
          /\ IsFiniteSet(G(k)) /\ Cardinality(G(k)) \in Nat
      BY <1>1, <3>1, PagesSubset
    <3>3. Cardinality(FreeIn(k) \cup G(k)) = Cardinality(FreeIn(k)) + Cardinality(G(k))
      <4>1. FreeIn(k) \cap G(k) = {}  BY <1>1
      <4>2. Cardinality(FreeIn(k) \cup G(k)) =
              Cardinality(FreeIn(k)) + Cardinality(G(k)) - Cardinality(FreeIn(k) \cap G(k))
        BY <3>2, FS_Union
      <4>3. Cardinality(FreeIn(k) \cap G(k)) = 0  BY <4>1, FS_EmptySet
      <4> QED  BY <3>2, <4>2, <4>3
    <3>4. nfree[k] = Cardinality(FreeIn(k))  BY DEF SmallInductive, FreeCounted
    <3>5. nfree'[k] = Cardinality(FreeIn(k)') /\ nfree'[k] \in Nat
      <4>1. FreeIn(k)' = FreeIn(k) \cup G(k)  BY <1>3
      <4>2. Cardinality(FreeIn(k)') = Cardinality(FreeIn(k)) + Cardinality(G(k))
        BY <3>3, <4>1
      <4>3. nfree'[k] = Cardinality(FreeIn(k)) + Cardinality(G(k))  BY <1>3, <3>4
      <4> QED  BY <3>2, <4>2, <4>3
    <3>6. FreeIn(k)' \in SUBSET PageNumbers(k)  BY <1>1, <1>3, <3>1
    <3>7. ASSUME k \notin mapped' PROVE FreeIn(k)' = PageNumbers(k)
      <4>1. CASE k \notin mapped
        <5>1. FreeIn(k) = PageNumbers(k)  BY <4>1 DEF SmallInductive, FreeCounted
        <5> QED  BY <1>3, <3>6, <5>1
      <4>2. CASE k \in mapped
        <5>1. nfree'[k] = PoolPages[k]  BY <1>4, <3>7, <4>2 DEF AllFree
        <5> QED  BY <3>5, <3>6, <5>1, PagesSubset
      <4> QED  BY <4>1, <4>2
    <3> QED  BY <3>5, <3>7
  <2>2. nfree' = [k \in Pools |-> nfree'[k]]  BY DEF Collect, Sweep
  <2> QED  BY <2>1, <2>2 DEF FreeCounted
\* minimize() takes no pool that has a page in use after the sweep.
<1>12. ASSUME NEW k \in mapped, NEW n \in PageNumbers(k), bin'[k][n] \in Bins
       PROVE  k \in mapped'
  <2>1. k \in Pools  BY DEF SmallInductive, SmallTypeOK
  <2>2. n \notin FreeIn(k)'  BY <1>12, NullAssumption DEF FreeIn
  <2>3. FreeIn(k)' \in SUBSET PageNumbers(k)  BY DEF FreeIn
  <2>4. Cardinality(FreeIn(k)') # PoolPages[k]  BY <2>1, <2>2, <2>3, PagesSubset
  <2>5. nfree'[k] # PoolPages[k]  BY <1>11, <2>1, <2>4 DEF FreeCounted
  <2> QED  BY <1>4, <2>5 DEF AllFree
<1>13. UsedInPages'
  <2>1. ASSUME NEW s \in used'
        PROVE  /\ s[1] \in mapped' /\ BinOf(s)' \in Bins
               /\ s \in ObjectsOf(s[1], s[2], BinOf(s)')
    <3>1. s \in used /\ s \in live  BY <1>4
    <3>2. s[1] \in mapped /\ BinOf(s) \in Bins /\ s \in ObjectsOf(s[1], s[2], BinOf(s))
      BY <3>1 DEF SmallInductive, UsedInPages
    <3>3. s[1] \in Pools /\ s[2] \in PageNumbers(s[1])
      BY <3>1, SlotIs DEF SmallInductive, SmallTypeOK
    <3>4. s[2] \notin G(s[1])  BY <3>1, <3>2, <3>3 DEF G, Gone, BinOf
    <3>5. BinOf(s)' = BinOf(s)  BY <1>2, <3>3, <3>4 DEF BinOf
    <3>6. bin'[s[1]][s[2]] \in Bins  BY <3>2, <3>5 DEF BinOf
    <3> QED  BY <1>12, <3>2, <3>3, <3>5, <3>6
  <2> QED  BY <2>1 DEF UsedInPages
\* The first pools to recover.
<1>14. RecoverPoolFirst' /\ recoverPool' \in [Bins -> Pools \cup {Null}]
  <2> DEFINE HasSome(b) == {k \in mapped' : recoverPageFirst'[k][b] < PoolPages[k]}
  <2>1. recoverPool' = [b \in Bins |-> IF HasSome(b) = {} THEN Null ELSE Min(HasSome(b))]
    BY DEF Collect
  <2>2. mapped' \subseteq mapped /\ mapped' \subseteq Pools
    BY <1>4 DEF SmallInductive, SmallTypeOK
  <2>3. ASSUME NEW b \in Bins
        PROVE  HasSome(b) # {} =>
                 /\ Min(HasSome(b)) \in HasSome(b)
                 /\ \A k \in HasSome(b) : Min(HasSome(b)) <= k
    <3>1. HasSome(b) \in SUBSET Nat  BY <2>2, PoolsAssumption
    <3> QED  BY <3>1, MinIs
  <2>4. ASSUME NEW b \in Bins, NEW k \in mapped', Waiting(k, b)' # {}
        PROVE  k \in HasSome(b)
    <3>1. k \in Pools /\ R(k, b) # {}  BY <1>7, <2>2, <2>4
    <3>2. PICK n \in R(k, b) : TRUE  BY <3>1
    <3>3. n \in Int /\ n < PoolPages[k] /\ PoolPages[k] \in Int
      BY <1>1, <3>1, <3>2, PagesFinite
    <3>4. ~ (PoolPages[k] <= n)  BY <3>3
    <3>5. Before(R(k, b), PoolPages[k], PoolPages[k]) < PoolPages[k]
      BY <1>5, <3>1, <3>2, <3>3, <3>4
    <3> QED  BY <1>3, <3>1, <3>5
  <2> HIDE DEF HasSome
  <2>5. \A b \in Bins : HasSome(b) \subseteq Pools  BY <2>2 DEF HasSome
  <2>6. \A b \in Bins : HasSome(b) # {} => recoverPool'[b] = Min(HasSome(b))
    BY <2>1
  <2>7. RecoverPoolFirst'
    <3>1. ASSUME NEW b \in Bins, NEW k \in mapped', Waiting(k, b)' # {}
          PROVE  recoverPool'[b] # Null /\ recoverPool'[b] <= k
      <4>1. k \in HasSome(b)  BY <2>4, <3>1
      <4> QED  BY <2>3, <2>5, <2>6, <4>1, NullAssumption
    <3> QED  BY <3>1 DEF RecoverPoolFirst
  <2> QED  BY <2>1, <2>3, <2>5, <2>7
<1>15. ListsDisjoint'  BY <1>4 DEF ListsDisjoint
<1>16. SmallTypeOK'
  <2>1. ASSUME NEW k \in Pools
        PROVE  /\ bin'[k] \in [PageNumbers(k) -> Bins \cup {Null}]
               /\ binPageChain'[k] \in [PageNumbers(k) -> PageRecovered .. PoolPages[k]]
               /\ recoverPageFirst'[k] \in [Bins -> 0 .. PoolPages[k]]
               /\ firstFree'[k] \in Nat
    <3>1. bin'[k] \in [PageNumbers(k) -> Bins \cup {Null}]
      <4>1. bin'[k] = [n \in PageNumbers(k) |-> bin'[k][n]]  BY DEF Collect, Sweep
      <4>2. \A n \in PageNumbers(k) : bin'[k][n] \in Bins \cup {Null}
        BY <1>2 DEF SmallInductive, SmallTypeOK
      <4> QED  BY <4>1, <4>2
    <3>2. binPageChain'[k] \in [PageNumbers(k) -> PageRecovered .. PoolPages[k]]
      <4>1. binPageChain'[k] = [n \in PageNumbers(k) |-> binPageChain'[k][n]]
        BY DEF Collect, Sweep
      <4>2. ASSUME NEW n \in PageNumbers(k)
            PROVE  binPageChain'[k][n] \in PageRecovered .. PoolPages[k]
        <5>1. /\ n \in Int /\ PoolPages[k] \in Nat
              /\ \A m \in PageNumbers(k) \cup {PoolPages[k]} :
                   m \in PageRecovered .. PoolPages[k]
              /\ PageRecovered \in PageRecovered .. PoolPages[k]
          BY PagesFinite DEF PageRecovered
        <5>2. CASE n \in FreeIn(k)
          BY <1>2, <5>2 DEF SmallInductive, SmallTypeOK
        <5>3. CASE n \in G(k)
          <6>1. firstFree[k] \in PageNumbers(k) \cup {PoolPages[k]}
            BY DEF SmallInductive, FreeChained, FreeIn
          <6>2. binPageChain'[k][n] = Before(G(k), n, firstFree[k])  BY <1>2, <5>3
          <6>3. Before(G(k), n, firstFree[k]) \in G(k) \cup {firstFree[k]}
            BY <1>9, <5>1
          <6>4. G(k) \subseteq PageNumbers(k)  BY <1>1
          <6>5. binPageChain'[k][n] \in PageNumbers(k) \cup {PoolPages[k]}
            BY <6>1, <6>2, <6>3, <6>4
          <6> QED  BY <5>1, <6>5
        <5>4. CASE n \notin FreeIn(k) \cup G(k)
          <6>1. PICK b \in Bins : bin[k][n] = b
            BY <5>4 DEF FreeIn, SmallInductive, SmallTypeOK
          <6>2. CASE n \in R(k, b)
            <7>1. binPageChain'[k][n] \in 0 .. PoolPages[k]  BY <1>2, <1>6, <5>1, <6>2
            <7> QED  BY <5>1, <7>1 DEF PageRecovered
          <6>3. CASE n \notin R(k, b)
            BY <1>2, <5>1, <5>4, <6>1, <6>3
          <6> QED  BY <6>2, <6>3
        <5> QED  BY <5>2, <5>3, <5>4
      <4> QED  BY <4>1, <4>2
    <3>3. recoverPageFirst'[k] \in [Bins -> 0 .. PoolPages[k]]
      <4>1. recoverPageFirst'[k] = [b \in Bins |-> recoverPageFirst'[k][b]]
        BY DEF Collect, Sweep
      <4>2. \A b \in Bins : recoverPageFirst'[k][b] \in 0 .. PoolPages[k]
        BY <1>3, <1>6, PagesFinite
      <4> QED  BY <4>1, <4>2
    <3>4. firstFree'[k] \in Nat
      <4>1. firstFree'[k] \in FreeIn(k)' \cup {PoolPages[k]}  BY <1>10 DEF FreeChained
      <4>2. FreeIn(k)' \subseteq PageNumbers(k)  BY DEF FreeIn
      <4>3. \A n \in PageNumbers(k) : n \in Nat  BY PagesFinite
      <4> QED  BY <4>1, <4>2, <4>3, PagesFinite
    <3> QED  BY <3>1, <3>2, <3>3, <3>4
  <2>2. /\ DOMAIN bin' = Pools /\ DOMAIN binPageChain' = Pools
        /\ DOMAIN recoverPageFirst' = Pools
        /\ firstFree' = [k \in Pools |-> firstFree'[k]]
    BY DEF Collect, Sweep
  <2>3. firstFree' \in [Pools -> Nat]  BY <2>1, <2>2
  <2>4. mapped' \subseteq Pools /\ used' \subseteq Slots
    BY <1>4 DEF SmallInductive, SmallTypeOK
  <2> QED  BY <1>4, <1>11, <1>14, <2>1, <2>2, <2>3, <2>4 DEF SmallTypeOK
<1> QED  BY <1>8, <1>10, <1>11, <1>13, <1>14, <1>15, <1>16 DEF SmallInductive

-----------------------------------------------------------------------------
(* All steps *)

\* Where smallAlloc is does not matter.
LEMMA StageInductive ==
  ASSUME SmallInductive, UNCHANGED <<mapped, pages, used, lists, recoverPool, lost>>,
         stage' \in Stages, Idle' \/ want' \in Bins
  PROVE  SmallInductive'
<1>1. SmallTypeOK'
  BY DEF SmallInductive, SmallTypeOK, pages, lists
<1>2. UsedInPages' /\ FreeCounted'
  BY DEF SmallInductive, UsedInPages, FreeCounted, FreeIn, BinOf, pages
<1>3. FreeChained'
  BY DEF SmallInductive, FreeChained, FreeIn, pages
<1>4. /\ WaitingChained /\ RecoverPoolFirst /\ ListsDisjoint
      /\ UNCHANGED <<mapped, bin, binPageChain, recoverPageFirst, recoverPool>>
      /\ UNCHANGED <<used, bucket, next>>
  BY DEF SmallInductive, pages, lists
<1>5. /\ \A k \in Pools, b \in Bins : Waiting(k, b)' = Waiting(k, b)
      /\ \A b \in Bins : Listable(b)' = Listable(b)
  BY <1>4 DEF Waiting, Listable, BinOf
<1>6. WaitingChained'  BY ONLY <1>4, <1>5 DEF WaitingChained
<1>7. RecoverPoolFirst'
  BY <1>4, <1>5 DEF RecoverPoolFirst, Waiting
<1>8. ListsDisjoint'  BY ONLY <1>4, <1>5 DEF ListsDisjoint
<1> QED  BY <1>1, <1>2, <1>3, <1>6, <1>7, <1>8 DEF SmallInductive

LEMMA NextInductive ==
  ASSUME SmallInductive, [SmallNext]_svars
  PROVE  SmallInductive'
<1>1. Idle \/ want \in Bins  BY DEF SmallInductive, SmallTypeOK
<1>2. ASSUME NEW b \in Bins, MallocBegin(b) PROVE SmallInductive'
  <2>1. CASE bucket[b] # Null
    BY <1>2, <2>1, HandInductive DEF MallocBegin
  <2>2. CASE bucket[b] = Null
    <3>1. /\ want' = b /\ stage' = "try" /\ UNCHANGED <<mapped, used, lost>>
          /\ recoverNextPage(b) \/ UNCHANGED <<pages, lists, recoverPool>>
      BY <1>2, <2>2 DEF MallocBegin
    <3>2. stage' \in Stages /\ (Idle' \/ want' \in Bins)  BY <3>1 DEF Stages
    <3>3. CASE recoverNextPage(b)
      BY <3>1, <3>2, <3>3, RecoverInductive
    <3>4. CASE UNCHANGED <<pages, lists, recoverPool>>
      BY <3>1, <3>2, <3>4, StageInductive
    <3> QED  BY <3>1, <3>3, <3>4
  <2> QED  BY <2>1, <2>2
<1>3. CASE TryHand
  <2>1. want \in Bins  BY <1>1, <1>3 DEF TryHand, Trying, Idle
  <2> QED  BY <1>3, <2>1, HandInductive DEF TryHand
<1>4. CASE TryPage  BY <1>4, TryPageInductive
<1>5. CASE MallocNewPool  BY <1>5, NewPoolInductive
<1>6. CASE MallocCollect
  <2>1. want \in Bins  BY <1>1, <1>6 DEF MallocCollect, Idle
  <2>2. stage' \in Stages /\ (Idle' \/ want' \in Bins)
    BY <1>6, <2>1 DEF MallocCollect, Stages
  <2> QED  BY <1>6, <2>2, CollectInductive DEF MallocCollect
<1>7. CASE MallocSkip
  <2>1. want \in Bins  BY <1>1, <1>7 DEF MallocSkip, Idle
  <2> QED  BY <1>7, <2>1, StageInductive DEF MallocSkip, Stages
<1>8. CASE MallocRecover
  <2>1. want \in Bins  BY <1>1, <1>8 DEF MallocRecover, Idle
  <2>2. stage' \in Stages /\ (Idle' \/ want' \in Bins)
    BY <1>8, <2>1 DEF MallocRecover, Stages
  <2> QED  BY <1>8, <2>1, <2>2, RecoverInductive DEF MallocRecover
<1>9. CASE OutOfMemory
  BY <1>9, StageInductive DEF OutOfMemory, Stages, Idle
<1>10. ASSUME NEW s \in Slots, SmallFree(s) PROVE SmallInductive'
  BY <1>10, SmallFreeInductive
<1>11. CASE RunFinalizers  BY <1>11, RunFinalizersInductive
<1>12. CASE Minimize  BY <1>12, MinimizeInductive
<1>13. ASSUME Idle, NEW live \in SUBSET used, NEW minimized \in BOOLEAN,
              Collect(live, minimized), UNCHANGED <<want, stage>>
       PROVE  SmallInductive'
  BY <1>13, CollectInductive DEF Idle, Stages
<1>14. CASE UNCHANGED svars
  BY <1>1, <1>14, StageInductive DEF svars, Idle, SmallInductive, SmallTypeOK
<1> QED
  BY <1>2, <1>3, <1>4, <1>5, <1>6, <1>7, <1>8, <1>9, <1>10, <1>11, <1>12, <1>13, <1>14
     DEF SmallNext

\* Through any mixture of allocation from the free lists, from pages to
\* recover and from free pages, of GC.free, finalizers run early, collections
\* and pools mapped and unmapped: what is on a free list is free memory of a
\* recovered page of its size and is there once, both kinds of chains in
\* binPageChain lead through the pages of their kind only, freepages is exact,
\* and an object in use is in a page of its size of a pool that is mapped.
THEOREM SmallPoolsConsistent == SmallSpec => []SmallInductive
<1>1. SmallInit => SmallInductive  BY SmallInitInductive
<1>2. SmallInductive /\ [SmallNext]_svars => SmallInductive'  BY NextInductive
<1> QED  BY <1>1, <1>2, PTL DEF SmallSpec

-----------------------------------------------------------------------------
(* The refinement *)

\* A step that hands nothing out and changes no bin of a page in use is
\* nothing, or a release.
LEMMA ReleaseRefines ==
  ASSUME used' \subseteq used, \A s \in used' : BinOf(s)' = BinOf(s)
  PROVE  SmallAbstract!Next
<1>1. smallBlocks' \subseteq smallBlocks  BY DEF smallBlocks
<1>2. smallBlocks' = smallBlocks \ (smallBlocks \ smallBlocks')  BY <1>1
<1>3. \E S \in SUBSET smallBlocks : smallBlocks' = smallBlocks \ S  BY <1>2
<1> QED  BY <1>3 DEF SmallAbstract!Next, SmallAbstract!Release

\* The object at the head of a free list has no memory in common with any
\* object in use.
LEMMA HandRefines ==
  ASSUME SmallInductive, NEW b \in Bins, Hand(b)
  PROVE  SmallAbstract!Next
<1>1. PICK p \in Listable(b) : p = bucket[b]
  BY DEF Hand, SmallInductive, ListsDisjoint
<1>2. p \in Slots /\ BinOf(p) = b /\ p \in ObjectsOf(p[1], p[2], b) /\ p \notin used
  BY <1>1 DEF Listable
<1>3. used' = used \cup {p} /\ UNCHANGED bin  BY <1>1 DEF Hand, pages
<1>4. smallBlocks' = smallBlocks \cup {<<p, b>>}  BY <1>2, <1>3 DEF smallBlocks, BinOf
<1>5. ASSUME NEW y \in smallBlocks PROVE ~SharePage(<<p, b>>, y)
  <2>1. PICK s \in used : y = <<s, BinOf(s)>>  BY DEF smallBlocks
  <2>2. s \in ObjectsOf(s[1], s[2], BinOf(s))  BY DEF SmallInductive, UsedInPages
  <2>3. SUFFICES ASSUME p[1] = s[1], p[2] = s[2], b # BinOf(s) \/ p[3] = s[3]
                 PROVE  FALSE
    BY <2>1 DEF SharePage
  <2>4. BinOf(s) = b  BY <1>2, <2>3 DEF BinOf
  <2>5. p = <<p[1], p[2], p[3]>> /\ s = <<s[1], s[2], s[3]>>
    BY <1>2, <2>2 DEF ObjectsOf
  <2>6. p = s  BY <2>3, <2>4, <2>5
  <2> QED  BY <1>2, <2>6
<1>6. <<p, b>> \in Slots \X Bins  BY <1>2
<1> QED
  BY <1>4, <1>5, <1>6 DEF SmallAbstract!Next, SmallAbstract!Allocate, SmallAbstract!Fits

LEMMA CollectRefines ==
  ASSUME SmallInductive, NEW live \in SUBSET used, NEW minimized \in BOOLEAN,
         Collect(live, minimized)
  PROVE  SmallAbstract!Next
<1>1. ASSUME NEW s \in used' PROVE BinOf(s)' = BinOf(s)
  <2>1. s \in used /\ s \in live  BY DEF Collect, Sweep
  <2>2. BinOf(s) \in Bins /\ s \in ObjectsOf(s[1], s[2], BinOf(s))
    BY <2>1 DEF SmallInductive, UsedInPages
  <2>3. s[1] \in Pools /\ s[2] \in PageNumbers(s[1])
    BY <2>1, SlotIs DEF SmallInductive, SmallTypeOK
  <2>4. s[2] \notin Gone(s[1], live)  BY <2>1, <2>2, <2>3 DEF Gone, BinOf
  <2> QED  BY <2>3, <2>4 DEF Collect, Sweep, BinOf
<1> QED  BY <1>1, ReleaseRefines DEF Collect, Sweep

LEMMA NextRefines ==
  ASSUME SmallInductive, [SmallNext]_svars
  PROVE  SmallAbstract!Next \/ UNCHANGED smallBlocks
<1>1. Idle \/ want \in Bins  BY DEF SmallInductive, SmallTypeOK
<1>2. CASE used' \subseteq used /\ UNCHANGED bin
  BY <1>2, ReleaseRefines DEF BinOf
<1>3. ASSUME NEW b \in Bins, MallocBegin(b) PROVE SmallAbstract!Next
  <2>1. CASE bucket[b] # Null
    BY <1>3, <2>1, HandRefines DEF MallocBegin
  <2>2. CASE bucket[b] = Null
    <3>1. used' = used /\ (recoverNextPage(b) \/ UNCHANGED pages)
      BY <1>3, <2>2 DEF MallocBegin
    <3>2. UNCHANGED bin  BY <3>1 DEF recoverNextPage, pages
    <3> QED  BY <3>1, <3>2, ReleaseRefines DEF BinOf
  <2> QED  BY <2>1, <2>2
<1>4. CASE TryHand
  <2>1. want \in Bins  BY <1>1, <1>4 DEF TryHand, Trying, Idle
  <2> QED  BY <1>4, <2>1, HandRefines DEF TryHand
<1>5. CASE TryPage
  <2> DEFINE k == Min(WithRoom)
             n == firstFree[k]
  <2>1. bin' = [bin EXCEPT ![k][n] = want] /\ used' = used /\ WithRoom # {}
    BY <1>5 DEF TryPage, allocPage
  <2>2. k \in WithRoom
    <3>1. WithRoom \in SUBSET Nat
      BY PoolsAssumption DEF WithRoom, SmallInductive, SmallTypeOK
    <3> QED  BY <2>1, <3>1, MinIs
  <2>3. k \in Pools /\ n < PoolPages[k]
    BY <2>2 DEF WithRoom, SmallInductive, SmallTypeOK
  <2>4. n \in FreeIn(k)
    <3>1. n \in FreeIn(k) \cup {PoolPages[k]}  BY <2>3 DEF SmallInductive, FreeChained
    <3>2. PoolPages[k] \in Nat  BY <2>3, PoolsAssumption
    <3> QED  BY <2>3, <3>1, <3>2
  <2>5. ASSUME NEW s \in used PROVE BinOf(s)' = BinOf(s)
    <3>1. s[1] \in Pools /\ s[2] \in PageNumbers(s[1]) /\ BinOf(s) \in Bins
      BY SlotIs DEF SmallInductive, SmallTypeOK, UsedInPages
    <3>2. s[1] # k \/ s[2] # n  BY <2>4, <3>1, NullAssumption DEF FreeIn, BinOf
    <3> HIDE DEF k, n
    <3> QED  BY <2>1, <3>1, <3>2 DEF BinOf, SmallInductive, SmallTypeOK
  <2> QED  BY <2>1, <2>5, ReleaseRefines
<1>6. CASE MallocNewPool
  <2>1. PICK k \in Pools : newPool(k)  BY <1>6 DEF MallocNewPool
  <2>2. used' = used  BY <1>6 DEF MallocNewPool
  <2>3. ASSUME NEW s \in used PROVE BinOf(s)' = BinOf(s)
    <3>1. s[1] # k /\ s[1] \in Pools
      BY <2>1, SlotIs DEF newPool, SmallInductive, UsedInPages, SmallTypeOK
    <3> QED  BY <2>1, <3>1 DEF newPool, BinOf, SmallInductive, SmallTypeOK
  <2> QED  BY <2>2, <2>3, ReleaseRefines
<1>7. CASE MallocCollect
  BY <1>7, CollectRefines DEF MallocCollect
<1>8. CASE MallocSkip
  BY <1>2, <1>8 DEF MallocSkip, pages
<1>9. CASE MallocRecover
  BY <1>2, <1>9 DEF MallocRecover, recoverNextPage, pages
<1>10. CASE OutOfMemory
  BY <1>2, <1>10 DEF OutOfMemory, pages
<1>11. ASSUME NEW s \in Slots, SmallFree(s) PROVE SmallAbstract!Next
  BY <1>11, ReleaseRefines DEF SmallFree, pages, BinOf
<1>12. CASE RunFinalizers
  BY <1>2, <1>12 DEF RunFinalizers, pages
<1>13. CASE Minimize
  BY <1>2, <1>13 DEF Minimize, pages
<1>14. ASSUME Idle, NEW live \in SUBSET used, NEW minimized \in BOOLEAN,
              Collect(live, minimized)
       PROVE  SmallAbstract!Next
  BY <1>14, CollectRefines
<1>15. CASE UNCHANGED svars
  BY <1>15 DEF svars, pages, smallBlocks, BinOf
<1> QED
  BY <1>3, <1>4, <1>5, <1>6, <1>7, <1>8, <1>9, <1>10, <1>11, <1>12, <1>13, <1>14, <1>15
     DEF SmallNext

\* What smallAlloc hands out overlaps no object in use, and until the object
\* is freed or swept its page keeps the size and its pool stays mapped, for
\* any pools and sizes, not only those of the run.
THEOREM SmallPoolsAllocate == SmallSpec => SmallImplements
<1>1. SmallInit => smallBlocks = {}  BY DEF SmallInit, smallBlocks
<1>2. SmallInductive /\ [SmallNext]_svars => SmallAbstract!Next \/ UNCHANGED smallBlocks
  BY NextRefines
<1>3. SmallSpec => SmallAbstract!Init /\ [][SmallAbstract!Next]_smallBlocks
  BY <1>1, <1>2, SmallPoolsConsistent, PTL DEF SmallSpec, SmallAbstract!Init
<1> QED  BY <1>3 DEF SmallImplements, SmallAbstract!Spec

-----------------------------------------------------------------------------
(* Chains *)

\* T is the chain that begins at first and is continued by the entries of e,
\* which end at an element outside D: no part of T has the beginning and goes
\* on within itself.
Leads(e, D, S) == \A n \in S \cap D : e[n] \in S

IsChain(first, e, D, T) ==
  /\ first \in T /\ Leads(e, D, T)
  /\ \A S \in SUBSET T : first \in S /\ Leads(e, D, S) => T \subseteq S

\* The elements within m steps of first.
Within(first, e, D, M) ==
  LET upto[m \in 0 .. M] ==
        IF m = 0 THEN {first} ELSE upto[m - 1] \cup {e[n] : n \in upto[m - 1] \cap D}
  IN  upto

Steps(g, first, e, D, M) ==
  g = [m \in 0 .. M |->
         IF m = 0 THEN {first} ELSE g[m - 1] \cup {e[n] : n \in g[m - 1] \cap D}]

LEMMA StepsExist ==
  ASSUME NEW first, NEW e, NEW D, NEW M \in Nat
  PROVE  \E g : Steps(g, first, e, D, M)
<1> DEFINE P(m) == \E g : Steps(g, first, e, D, m)
           Bad == {m \in Nat : ~P(m)}
<1>1. SUFFICES ASSUME Bad # {} PROVE FALSE
  OBVIOUS
<1>2. PICK m \in Bad : \A j \in Bad : m <= j
  <2> HIDE DEF P
  <2>1. Bad \in SUBSET Nat
    OBVIOUS
  <2> HIDE DEF Bad
  <2> QED
    BY <1>1, <2>1, Least
<1>3. m # 0
  <2>1. Steps([j \in 0 .. 0 |-> {first}], first, e, D, 0)
    BY DEF Steps
  <2>2. P(0)
    BY <2>1
  <2> QED
    BY <2>2
<1>4. m - 1 \in Nat /\ m \in Nat /\ P(m - 1)
  <2>1. m \in Nat
    OBVIOUS
  <2>2. m - 1 \in Nat /\ ~(m <= m - 1)
    BY <1>3, <2>1
  <2>3. m - 1 \notin Bad
    <3> HIDE DEF Bad
    <3> QED
      BY <1>2, <2>2
  <2> QED
    BY <2>1, <2>2, <2>3
<1>5. PICK g : Steps(g, first, e, D, m - 1)
  BY <1>4
<1> DEFINE next1 == g[m - 1] \cup {e[n] : n \in g[m - 1] \cap D}
           h == [j \in 0 .. m |-> IF j = m THEN next1 ELSE g[j]]
<1>6. Steps(h, first, e, D, m)
  <2>1. ASSUME NEW j \in 0 .. m
        PROVE  h[j] = IF j = 0 THEN {first}
                      ELSE h[j - 1] \cup {e[n] : n \in h[j - 1] \cap D}
    <3>1. CASE j = m
      <4>1. m - 1 \in 0 .. m /\ m - 1 # m
        BY <1>4
      <4>2. h[m - 1] = g[m - 1] /\ h[m] = next1
        BY <4>1, <1>4
      <4> HIDE DEF h
      <4> QED
        BY <1>3, <3>1, <4>2
    <3>2. CASE j # m
      <4>1. j \in 0 .. m - 1 /\ h[j] = g[j]
        BY <1>4, <3>2
      <4>2. g[j] = IF j = 0 THEN {first}
                   ELSE g[j - 1] \cup {e[n] : n \in g[j - 1] \cap D}
        BY <1>5, <4>1 DEF Steps
      <4>3. j # 0 => h[j - 1] = g[j - 1]
        BY <1>4, <4>1
      <4> HIDE DEF h
      <4> QED
        BY <4>1, <4>2, <4>3
    <3> QED
      BY <3>1, <3>2
  <2>2. h = [j \in 0 .. m |-> h[j]]
    OBVIOUS
  <2> HIDE DEF h
  <2> QED
    BY <2>1, <2>2 DEF Steps
<1>7. P(m)
  BY <1>6
<1> QED
  BY <1>7

\* A chain in no more than M + 1 elements is what M steps reach.
LEMMA ChainReached ==
  ASSUME NEW first, NEW e, NEW D, NEW M \in Nat, NEW T, IsChain(first, e, D, T),
         IsFiniteSet(T), Cardinality(T) <= M + 1
  PROVE  Within(first, e, D, M)[M] = T
<1>1. PICK f : f = Within(first, e, D, M)
  OBVIOUS
<1>2. Steps(f, first, e, D, M)
  <2>1. f = CHOOSE g : Steps(g, first, e, D, M)
    BY <1>1 DEF Within, Steps
  <2> QED
    BY <2>1, StepsExist
<1>3. /\ f[0] = {first}
      /\ \A m \in 1 .. M : f[m] = f[m - 1] \cup {e[n] : n \in f[m - 1] \cap D}
  <2>1. \A m \in 0 .. M : f[m] = IF m = 0 THEN {first}
                                  ELSE f[m - 1] \cup {e[n] : n \in f[m - 1] \cap D}
    BY <1>2 DEF Steps
  <2>2. 0 \in 0 .. M /\ \A m \in 1 .. M : m \in 0 .. M /\ m # 0
    OBVIOUS
  <2> QED
    BY <2>1, <2>2
<1> DEFINE P(m) == /\ f[m] \subseteq T /\ first \in f[m]
                   /\ T \subseteq f[m] \/ Cardinality(f[m]) >= m + 1
           Bad == {m \in 0 .. M : ~P(m)}
<1>4. ASSUME Bad # {} PROVE FALSE
  <2>1. PICK m \in Bad : \A j \in Bad : m <= j
    <3> HIDE DEF P
    <3>1. Bad \in SUBSET Nat
      OBVIOUS
    <3> HIDE DEF Bad
    <3> QED
      BY <1>4, <3>1, Least
  <2>2. m \in 0 .. M /\ ~P(m)
    <3> HIDE DEF P
    <3> QED
      OBVIOUS
  <2>3. P(0)
    <3>1. Cardinality({first}) = 1
      BY FS_Singleton
    <3> QED
      BY <1>3, <3>1 DEF IsChain
  <2>4. m \in 1 .. M /\ m - 1 \in 0 .. M
    <3> HIDE DEF P
    <3> QED
      BY <2>2, <2>3
  <2>5. P(m - 1)
    <3>1. ~(m <= m - 1)
      BY <2>4
    <3>2. m - 1 \notin Bad
      <4> HIDE DEF Bad
      <4> QED
        BY <2>1, <3>1
    <3> QED
      BY <2>4, <3>2
  <2> DEFINE F == f[m - 1]
  <2>6. /\ F \subseteq T /\ first \in F
        /\ T \subseteq F \/ Cardinality(F) >= m
    BY <2>4, <2>5
  <2>7. f[m] = F \cup {e[n] : n \in F \cap D}
    BY <1>3, <2>4
  <2>8. f[m] \subseteq T /\ F \subseteq f[m]
    BY <2>6, <2>7 DEF IsChain, Leads
  <2> HIDE DEF F
  <2>9. CASE f[m] = F
    <3>1. Leads(e, D, F)
      BY <2>7, <2>9 DEF Leads
    <3>2. T \subseteq F
      BY <2>6, <3>1 DEF IsChain
    <3> QED
      BY <2>2, <2>6, <2>9, <3>2
  <2>10. CASE f[m] # F
    <3>1. IsFiniteSet(f[m]) /\ IsFiniteSet(F)
      BY <2>6, <2>8, FS_Subset
    <3>2. CASE T \subseteq F
      BY <2>2, <2>6, <2>8, <3>2
    <3>3. CASE Cardinality(F) >= m
      <4>1. Cardinality(F) < Cardinality(f[m])
        <5>1. /\ Cardinality(F) <= Cardinality(f[m])
              /\ Cardinality(F) = Cardinality(f[m]) => F = f[m]
          BY <2>8, <3>1, FS_Subset
        <5>2. Cardinality(F) \in Nat /\ Cardinality(f[m]) \in Nat
          BY <3>1, FS_CardinalityType
        <5> QED
          BY <2>10, <5>1, <5>2
      <4>2. Cardinality(F) \in Nat /\ Cardinality(f[m]) \in Nat
        BY <3>1, FS_CardinalityType
      <4>3. Cardinality(f[m]) >= m + 1
        BY <2>4, <3>3, <4>1, <4>2
      <4> QED
        BY <2>2, <2>6, <2>8, <4>3
    <3> QED
      BY <2>6, <3>2, <3>3
  <2> QED
    BY <2>9, <2>10
<1>5. P(M)
  <2>1. M \in 0 .. M
    OBVIOUS
  <2> HIDE DEF P
  <2> QED
    BY <1>4, <2>1
<1>6. CASE T \subseteq f[M]
  BY <1>1, <1>5, <1>6
<1>7. CASE Cardinality(f[M]) >= M + 1
  <2>1. f[M] \subseteq T /\ IsFiniteSet(f[M])
    BY <1>5, FS_Subset
  <2>2. Cardinality(f[M]) <= Cardinality(T) /\ Cardinality(f[M]) \in Nat /\ Cardinality(T) \in Nat
    BY <2>1, FS_Subset, FS_CardinalityType
  <2>3. Cardinality(f[M]) = Cardinality(T)
    BY <1>7, <2>2
  <2> QED
    BY <1>1, <2>1, <2>3, FS_Subset
<1> QED
  BY <1>5, <1>6, <1>7

\* Only the entries of its own elements matter to a chain.
LEMMA ChainSame ==
  ASSUME NEW first, NEW e, NEW f, NEW D, NEW T, IsChain(first, e, D, T),
         \A n \in T \cap D : f[n] = e[n]
  PROVE  IsChain(first, f, D, T)
<1>1. Leads(f, D, T)
  BY DEF IsChain, Leads
<1>2. ASSUME NEW S \in SUBSET T, first \in S, Leads(f, D, S) PROVE T \subseteq S
  <2>1. Leads(e, D, S)
    BY <1>2 DEF Leads
  <2> QED
    BY <1>2, <2>1 DEF IsChain
<1> QED
  BY <1>1, <1>2 DEF IsChain

\* A chain without its first element, to which no other leads.
LEMMA ChainPop ==
  ASSUME NEW first, NEW e, NEW f, NEW D, NEW T, IsChain(first, e, D, T), first \in D,
         \A n \in T \cap D : e[n] # first,
         \A n \in (T \ {first}) \cap D : f[n] = e[n]
  PROVE  IsChain(e[first], f, D, T \ {first})
<1>1. first \in T \cap D /\ e[first] \in T /\ e[first] # first
  BY DEF IsChain, Leads
<1>2. Leads(f, D, T \ {first})
  BY DEF IsChain, Leads
<1>3. ASSUME NEW S \in SUBSET (T \ {first}), e[first] \in S, Leads(f, D, S)
      PROVE  T \ {first} \subseteq S
  <2>1. S \cup {first} \in SUBSET T
    BY <1>1
  <2>2. Leads(e, D, S \cup {first})
    BY <1>3 DEF Leads
  <2>3. T \subseteq S \cup {first}
    BY <2>1, <2>2 DEF IsChain
  <2> QED
    BY <2>3
<1> QED
  BY <1>1, <1>2, <1>3 DEF IsChain

\* A chain with an element put before the others.
LEMMA ChainPush ==
  ASSUME NEW first, NEW e, NEW f, NEW D, NEW T, IsChain(first, e, D, T),
         NEW s \in D, s \notin T, f[s] = first,
         \A n \in T \cap D : f[n] = e[n]
  PROVE  IsChain(s, f, D, T \cup {s})
<1>1. Leads(f, D, T \cup {s})
  BY DEF IsChain, Leads
<1>2. ASSUME NEW S \in SUBSET (T \cup {s}), s \in S, Leads(f, D, S)
      PROVE  T \cup {s} \subseteq S
  <2>1. S \ {s} \in SUBSET T /\ first \in S \ {s}
    BY <1>2 DEF Leads, IsChain
  <2>2. Leads(e, D, S \ {s})
    <3>1. ASSUME NEW n \in (S \ {s}) \cap D PROVE e[n] \in S \ {s}
      <4>1. n \in T \cap D /\ f[n] = e[n]
        BY <2>1
      <4>2. e[n] \in T
        BY <4>1 DEF IsChain, Leads
      <4>3. f[n] \in S
        BY <1>2 DEF Leads
      <4> QED
        BY <4>1, <4>2, <4>3
    <3> QED
      BY <3>1 DEF Leads
  <2>3. T \subseteq S \ {s}
    BY <2>1, <2>2 DEF IsChain
  <2> QED
    BY <1>2, <2>3
<1> QED
  BY <1>1, <1>2 DEF IsChain

\* What a sweep puts before a chain: each element leads to the next lower one.
LEMMA ChainBefore ==
  ASSUME NEW N \in Nat, NEW S \in SUBSET (0 .. N - 1), NEW end, NEW e, NEW D, NEW X,
         IsChain(end, e, D, X), S \subseteq D, S \cap X = {},
         \A n \in S : e[n] = Before(S, n, end)
  PROVE  IsChain(Before(S, N, end), e, D, X \cup S)
<1> DEFINE before(n) == Before(S, n, end)
<1>1. /\ N \in Int /\ end \in X /\ Leads(e, D, X)
      /\ \A n \in S : n \in Int /\ n < N
  BY DEF IsChain
<1>2. \A n \in Int : \/ before(n) = end /\ \A m \in S : n <= m
                     \/ /\ before(n) \in S /\ before(n) < n
                        /\ \A m \in S : m < n => m <= before(n)
  BY BeforeIs
<1>3. \A n \in S : e[n] = before(n)
  OBVIOUS
<1> HIDE DEF before
<1>4. before(N) \in X \cup S
  BY <1>1, <1>2
<1>5. Leads(e, D, X \cup S)
  <2>1. ASSUME NEW n \in S PROVE e[n] \in X \cup S
    BY <1>1, <1>2, <1>3
  <2> QED
    BY <1>1, <2>1 DEF Leads
<1>6. ASSUME NEW Q \in SUBSET (X \cup S), before(N) \in Q, Leads(e, D, Q)
      PROVE  X \cup S \subseteq Q
  <2>1. ASSUME S \ Q # {} PROVE FALSE
    <3>1. S \ Q \in SUBSET (0 .. N)
      <4>1. \A n \in 0 .. N - 1 : n \in 0 .. N
        OBVIOUS
      <4> QED
        BY <4>1
    <3>2. PICK g \in S \ Q : \A n \in S \ Q : n <= g
      BY <2>1, <3>1, Greatest
    <3> DEFINE Above == {n \in S : g < n}
    <3>3. g \in Int /\ g < N
      BY <1>1, <3>2
    <3>4. CASE Above = {}
      <4>1. before(N) \in S /\ g <= before(N) /\ ~(g < before(N))
        BY <1>1, <1>2, <3>3, <3>4
      <4>2. before(N) = g
        <5>1. before(N) \in Int
          BY <1>1, <4>1
        <5> QED
          BY <3>3, <4>1, <5>1
      <4> QED
        BY <1>6, <4>2
    <3>5. CASE Above # {}
      <4>1. Above \in SUBSET Nat
        <5>1. \A n \in 0 .. N - 1 : n \in Nat
          OBVIOUS
        <5> QED
          BY <5>1
      <4>2. PICK h \in Above : \A n \in Above : h <= n
        <5> HIDE DEF Above
        <5> QED
          BY <3>5, <4>1, Least
      <4>3. h \in S /\ h \in Int /\ g < h
        BY <1>1, <4>2
      <4>4. h \in Q
        <5>1. ~(h <= g)
          BY <3>3, <4>3
        <5> QED
          BY <3>2, <4>3, <5>1
      <4>5. before(h) \in S /\ before(h) < h /\ g <= before(h)
        <5>1. ~(h <= g)
          BY <3>3, <4>3
        <5> QED
          BY <1>2, <4>3, <5>1
      <4>6. ~(g < before(h))
        <5>1. before(h) \in Int
          BY <1>1, <4>5
        <5>2. ~(h <= before(h))
          BY <4>3, <4>5, <5>1
        <5> QED
          BY <4>2, <4>5, <5>2
      <4>7. before(h) = g
        <5>1. before(h) \in Int
          BY <1>1, <4>5
        <5> QED
          BY <3>3, <4>5, <4>6, <5>1
      <4>8. e[h] \in Q
        BY <1>6, <4>3, <4>4 DEF Leads
      <4> QED
        BY <1>3, <3>2, <4>3, <4>7, <4>8
    <3> QED
      BY <3>4, <3>5
  <2>2. S \subseteq Q
    BY <2>1
  <2>3. end \in Q
    <3>1. CASE S = {}
      BY <1>2, <1>1, <1>6, <3>1
    <3>2. CASE S # {}
      <4>1. S \in SUBSET Nat
        <5>1. \A n \in 0 .. N - 1 : n \in Nat
          OBVIOUS
        <5> QED
          BY <5>1
      <4>2. PICK l \in S : \A n \in S : l <= n
        BY <3>2, <4>1, Least
      <4>3. before(l) = end
        <5>1. l \in Int
          BY <1>1
        <5>2. ASSUME before(l) \in S, before(l) < l PROVE FALSE
          <6>1. before(l) \in Int /\ l <= before(l)
            BY <1>1, <4>2, <5>2
          <6> QED
            BY <5>1, <5>2, <6>1
        <5> QED
          BY <1>2, <5>1, <5>2
      <4>4. e[l] \in Q
        BY <1>6, <2>2 DEF Leads
      <4> QED
        BY <1>3, <4>3, <4>4
    <3> QED
      BY <3>1, <3>2
  <2>4. Leads(e, D, Q \cap X)
    BY <1>1, <1>6 DEF Leads
  <2>5. X \subseteq Q \cap X
    BY <1>1, <2>3, <2>4 DEF IsChain
  <2> QED
    BY <2>2, <2>5
<1> QED
  BY <1>4, <1>5, <1>6 DEF IsChain, before

\* All pages in their order.
LEMMA ChainOfAll ==
  ASSUME NEW N \in Nat, NEW e, \A n \in 0 .. N - 1 : e[n] = n + 1
  PROVE  IsChain(0, e, 0 .. N - 1, (0 .. N - 1) \cup {N})
<1> DEFINE T == (0 .. N - 1) \cup {N}
<1>0. \A n : n \in T <=> n \in 0 .. N
  OBVIOUS
<1>1. 0 \in T
  BY <1>0
<1>2. Leads(e, 0 .. N - 1, T)
  <2>1. ASSUME NEW n \in 0 .. N - 1 PROVE e[n] \in T
    <3>1. n + 1 \in 0 .. N
      OBVIOUS
    <3> QED
      BY <1>0, <3>1
  <2> QED
    BY <2>1 DEF Leads
<1>3. ASSUME NEW S \in SUBSET T, 0 \in S, Leads(e, 0 .. N - 1, S), T \ S # {}
      PROVE  FALSE
  <2>1. T \ S \in SUBSET Nat
    <3>1. \A n \in 0 .. N : n \in Nat
      OBVIOUS
    <3> QED
      BY <1>0, <3>1
  <2>2. PICK n \in T \ S : \A m \in T \ S : n <= m
    <3> HIDE DEF T
    <3> QED
      BY <1>3, <2>1, Least
  <2>3. n \in 1 .. N
    <3>1. n \in 0 .. N /\ n # 0
      BY <1>0, <1>3, <2>2
    <3> QED
      BY <3>1
  <2>4. n - 1 \in 0 .. N - 1 /\ n - 1 \in T /\ ~(n <= n - 1)
    BY <2>3
  <2>5. n - 1 \in S
    BY <2>2, <2>4
  <2>6. e[n - 1] \in S
    BY <1>3, <2>4, <2>5 DEF Leads
  <2>7. e[n - 1] = n
    BY <2>3, <2>4
  <2> QED
    BY <2>2, <2>6, <2>7
<1> QED
  BY <1>1, <1>2, <1>3 DEF IsChain

-----------------------------------------------------------------------------
(* Chains and lists miss nothing *)

\* From searchStart every free page is reached.
FreeReached ==
  \A k \in Pools :
    IsChain(firstFree[k], binPageChain[k], PageNumbers(k), FreeIn(k) \cup {PoolPages[k]})

WaitingNotFull ==
  \A k \in Pools, b \in Bins : \A n \in Waiting(k, b) : ~(ObjectsOf(k, n, b) \subseteq used)

\* recoverPool stays mapped, as it has a page of the bin.
RecoverPoolStays ==
  \A b \in Bins : recoverPool[b] # Null =>
    /\ recoverPool[b] \in mapped
    /\ \E n \in PageNumbers(recoverPool[b]) : bin[recoverPool[b]][n] = b

UsedPages == {p \in PagesOf(mapped) : bin[p[1]][p[2]] # Null}

\* On the list of bin b are all objects that can be, but those that
\* runFinalizers freed.
OnList(b) == {Null} \cup (Listable(b) \ lost)

ListsReached == \A b \in Bins : IsChain(bucket[b], next, Slots, OnList(b))

LostKnown == \A s \in lost : \E b \in Bins : s \in Listable(b)

ListsGivenUp == stage = "collected" => \A b \in Bins : bucket[b] = Null

SmallExact ==
  /\ FreeReached /\ WaitingNotFull /\ RecoverPoolStays
  /\ usedSmallPages = Cardinality(UsedPages)
  /\ ListsReached /\ LostKnown /\ ListsGivenUp

-----------------------------------------------------------------------------
(* Finite sets *)

LEMMA RangeFinite ==
  ASSUME NEW S, IsFiniteSet(S), NEW f
  PROVE  IsFiniteSet({f[x] : x \in S})
<1> DEFINE T == {f[x] : x \in S}
           g == [x \in S |-> f[x]]
<1>1. g \in Surjection(S, T)
  BY DEF Surjection
<1> HIDE DEF g, T
<1>2. IsFiniteSet(T)
  BY <1>1, FS_Surjection
<1> QED
  BY <1>2 DEF T

LEMMA PagesOfFinite ==
  ASSUME NEW S \in SUBSET Pools
  PROVE  IsFiniteSet(PagesOf(S))
<1> DEFINE f == [k \in S |-> {k} \X PageNumbers(k)]
           T == {f[k] : k \in S}
<1>1. IsFiniteSet(S)
  BY FiniteAssumption, FS_Subset
<1>2. IsFiniteSet(T)
  <2> HIDE DEF f
  <2> QED
    BY <1>1, RangeFinite
<1>3. ASSUME NEW t \in T PROVE IsFiniteSet(t)
  <2>1. PICK k \in S : t = {k} \X PageNumbers(k)
    OBVIOUS
  <2>2. IsFiniteSet({k}) /\ IsFiniteSet(PageNumbers(k))
    BY FS_Singleton, PagesFinite
  <2> QED
    BY <2>1, <2>2, FS_Product
<1>4. PagesOf(S) = UNION T
  BY DEF PagesOf
<1> HIDE DEF T
<1> QED
  BY <1>2, <1>3, <1>4, FS_UNION

LEMMA ObjectsFinite ==
  ASSUME NEW k, NEW n, NEW b \in Bins
  PROVE  IsFiniteSet(ObjectsOf(k, n, b))
<1> DEFINE f == [i \in 1 .. PerPage[b] |-> <<k, n, i>>]
           I == 1 .. PerPage[b]
<1>1. IsFiniteSet(I)
  BY PerPageAssumption, FS_Interval
<1>2. IsFiniteSet({f[i] : i \in I})
  <2> HIDE DEF f, I
  <2> QED
    BY <1>1, RangeFinite
<1>3. ObjectsOf(k, n, b) = {f[i] : i \in I}
  BY DEF ObjectsOf
<1> QED
  BY <1>2, <1>3

LEMMA SlotsFinite == IsFiniteSet(Slots) /\ Cardinality(Slots) \in Nat
<1> DEFINE S == PagesOf(Pools) \X Bins
           f == [x \in S |-> ObjectsOf(x[1][1], x[1][2], x[2])]
           T == {f[x] : x \in S}
<1>1. IsFiniteSet(S)
  BY PagesOfFinite, FiniteAssumption, FS_Product
<1>2. IsFiniteSet(T)
  <2> HIDE DEF f, S
  <2> QED
    BY <1>1, RangeFinite
<1>3. ASSUME NEW t \in T PROVE IsFiniteSet(t)
  <2>1. PICK x \in S : t = ObjectsOf(x[1][1], x[1][2], x[2])
    OBVIOUS
  <2> QED
    BY <2>1, ObjectsFinite
<1>4. Slots \subseteq UNION T
  <2>1. ASSUME NEW s \in Slots PROVE s \in UNION T
    <3>1. PICK k \in Pools : \E n \in PageNumbers(k), b \in Bins : s \in ObjectsOf(k, n, b)
      BY DEF Slots
    <3>2. PICK n \in PageNumbers(k), b \in Bins : s \in ObjectsOf(k, n, b)
      BY <3>1
    <3>3. <<k, n>> \in PagesOf(Pools)
      BY DEF PagesOf
    <3>4. <<<<k, n>>, b>> \in S
      BY <3>3
    <3>5. f[<<<<k, n>>, b>>] = ObjectsOf(k, n, b)
      BY <3>4
    <3>6. ObjectsOf(k, n, b) \in T
      BY <3>4, <3>5
    <3> QED
      BY <3>2, <3>6
  <2> QED
    BY <2>1
<1>5. IsFiniteSet(UNION T)
  <2> HIDE DEF T
  <2> QED
    BY <1>2, <1>3, FS_UNION
<1>6. IsFiniteSet(Slots)
  <2> HIDE DEF T
  <2> QED
    BY <1>4, <1>5, FS_Subset
<1> QED
  BY <1>6, FS_CardinalityType

-----------------------------------------------------------------------------
(* ChainsRight and FreeListsExact *)

\* What ChainFrom follows is the set that IsChain describes.
LEMMA ChainIsWhole ==
  ASSUME NEW k \in Pools, NEW first, NEW S \in SUBSET PageNumbers(k),
         IsChain(first, binPageChain[k], PageNumbers(k), S \cup {PoolPages[k]})
  PROVE  ChainFrom(k, first) = S \cup {PoolPages[k]}
<1> DEFINE T == S \cup {PoolPages[k]}
<1>1. PoolPages[k] \in Nat /\ IsFiniteSet(S) /\ Cardinality(S) \in Nat
      /\ Cardinality(S) <= PoolPages[k]
  BY PagesFinite, PagesSubset
<1>2. IsFiniteSet(T) /\ Cardinality(T) <= PoolPages[k] + 1
  <2>1. /\ IsFiniteSet(T)
        /\ Cardinality(T) = IF PoolPages[k] \in S THEN Cardinality(S) ELSE Cardinality(S) + 1
    BY <1>1, FS_AddElement
  <2> QED
    BY <1>1, <2>1
<1> HIDE DEF T
<1>3. IsChain(first, binPageChain[k], PageNumbers(k), T)
  BY DEF T
<1>4. Within(first, binPageChain[k], PageNumbers(k), PoolPages[k])[PoolPages[k]] = T
  BY <1>1, <1>2, <1>3, ChainReached
<1>5. ChainFrom(k, first) =
        Within(first, binPageChain[k], PageNumbers(k), PoolPages[k])[PoolPages[k]]
  BY DEF ChainFrom, Within
<1> QED
  BY <1>4, <1>5 DEF T

\* The pages to recover are chained from the highest to the lowest.
LEMMA WaitingIsChain ==
  ASSUME SmallInductive, NEW k \in Pools, NEW b \in Bins
  PROVE  IsChain(recoverPageFirst[k][b], binPageChain[k], PageNumbers(k),
                 Waiting(k, b) \cup {PoolPages[k]})
<1> DEFINE N == PoolPages[k]
           W == Waiting(k, b)
           D == PageNumbers(k)
           e == binPageChain[k]
<1>1. N \in Nat /\ D = 0 .. N - 1 /\ N \notin D
  BY PagesFinite
<1>2. W \in SUBSET D
  BY DEF Waiting
<1>3. /\ recoverPageFirst[k][b] = Before(W, N, N)
      /\ \A n \in W : e[n] = Before(W, n, N)
  BY DEF SmallInductive, WaitingChained
<1> HIDE DEF N, W, D, e
<1>4. IsChain(N, e, D, {N})
  BY <1>1 DEF IsChain, Leads
<1>5. IsChain(Before(W, N, N), e, D, {N} \cup W)
  BY <1>1, <1>2, <1>3, <1>4, ChainBefore
<1>6. {N} \cup W = W \cup {N}
  OBVIOUS
<1> QED
  BY <1>3, <1>5, <1>6 DEF N, W, D, e

LEMMA ExactChains ==
  ASSUME SmallInductive, SmallExact
  PROVE  ChainsRight
<1>1. ASSUME NEW k \in mapped
      PROVE  /\ ChainFrom(k, firstFree[k]) = FreeIn(k) \cup {PoolPages[k]}
             /\ nfree[k] = Cardinality(FreeIn(k))
  <2>1. k \in Pools /\ FreeIn(k) \in SUBSET PageNumbers(k)
    BY DEF SmallInductive, SmallTypeOK, FreeIn
  <2>2. IsChain(firstFree[k], binPageChain[k], PageNumbers(k), FreeIn(k) \cup {PoolPages[k]})
    BY <2>1 DEF SmallExact, FreeReached
  <2> QED
    BY <2>1, <2>2, ChainIsWhole DEF SmallInductive, FreeCounted
<1>2. ASSUME NEW k \in mapped, NEW b \in Bins
      PROVE  /\ ChainFrom(k, recoverPageFirst[k][b]) = Waiting(k, b) \cup {PoolPages[k]}
             /\ PoolPages[k] \notin Waiting(k, b)
             /\ \A n \in Waiting(k, b) : ~(ObjectsOf(k, n, b) \subseteq used)
  <2>1. k \in Pools /\ Waiting(k, b) \in SUBSET PageNumbers(k)
    BY DEF SmallInductive, SmallTypeOK, Waiting
  <2>2. PoolPages[k] \notin PageNumbers(k)
    BY <2>1, PagesFinite
  <2> QED
    BY <2>1, <2>2, WaitingIsChain, ChainIsWhole DEF SmallExact, WaitingNotFull
<1>3. ASSUME NEW b \in Bins, NEW k \in mapped, recoverPageFirst[k][b] < PoolPages[k]
      PROVE  recoverPool[b] \in mapped /\ recoverPool[b] <= k
  <2>1. k \in Pools
    BY DEF SmallInductive, SmallTypeOK
  <2>2. Waiting(k, b) # {}
    BY <1>3, <2>1, FirstWaiting
  <2> QED
    BY <2>2 DEF SmallInductive, RecoverPoolFirst, SmallExact, RecoverPoolStays
<1>4. usedSmallPages = Cardinality({p \in PagesOf(mapped) : bin[p[1]][p[2]] # Null})
  BY DEF SmallExact, UsedPages
<1>5. ASSUME NEW k \in mapped
      PROVE  LET free == {n \in PageNumbers(k) : bin[k][n] = Null}
             IN  /\ ChainFrom(k, firstFree[k]) = free \cup {PoolPages[k]}
                 /\ nfree[k] = Cardinality(free)
                 /\ \A b \in Bins :
                      LET chain == ChainFrom(k, recoverPageFirst[k][b])
                      IN  /\ PoolPages[k] \in chain
                          /\ chain \ {PoolPages[k]} =
                               {n \in PageNumbers(k) :
                                  bin[k][n] = b /\ binPageChain[k][n] # PageRecovered}
                          /\ \A n \in chain \ {PoolPages[k]} : ~(ObjectsOf(k, n, b) \subseteq used)
  <2>1. FreeIn(k) = {n \in PageNumbers(k) : bin[k][n] = Null}
    BY DEF FreeIn
  <2>2. ASSUME NEW b \in Bins
        PROVE  LET chain == ChainFrom(k, recoverPageFirst[k][b])
               IN  /\ PoolPages[k] \in chain
                   /\ chain \ {PoolPages[k]} =
                        {n \in PageNumbers(k) :
                           bin[k][n] = b /\ binPageChain[k][n] # PageRecovered}
                   /\ \A n \in chain \ {PoolPages[k]} : ~(ObjectsOf(k, n, b) \subseteq used)
    <3>1. Waiting(k, b) =
            {n \in PageNumbers(k) : bin[k][n] = b /\ binPageChain[k][n] # PageRecovered}
      BY DEF Waiting
    <3>2. PICK chain : chain = ChainFrom(k, recoverPageFirst[k][b])
      OBVIOUS
    <3>3. PoolPages[k] \in chain /\ chain \ {PoolPages[k]} = Waiting(k, b)
      BY <1>2, <3>2
    <3> QED
      BY <1>2, <3>1, <3>2, <3>3
  <2> QED
    BY <1>1, <2>1, <2>2
<1> QED
  BY <1>3, <1>4, <1>5 DEF ChainsRight

\* What Listed follows is the set that IsChain describes.
LEMMA ListedIsWhole ==
  ASSUME SmallExact, NEW b \in Bins
  PROVE  Listed(b) = OnList(b)
<1> DEFINE M == Cardinality(Slots)
           T == OnList(b)
<1>1. M \in Nat /\ IsFiniteSet(Slots)
  BY SlotsFinite
<1>2. IsFiniteSet(T) /\ Cardinality(T) <= M + 1
  <2>1. T \ {Null} \in SUBSET Slots /\ T = (T \ {Null}) \cup {Null}
    BY DEF OnList, Listable
  <2>2. /\ IsFiniteSet(T \ {Null}) /\ Cardinality(T \ {Null}) <= M
        /\ Cardinality(T \ {Null}) \in Nat
    BY <1>1, <2>1, FS_Subset, FS_CardinalityType
  <2>3. Cardinality((T \ {Null}) \cup {Null}) = Cardinality(T \ {Null}) + 1
    BY <2>2, FS_AddElement
  <2>4. IsFiniteSet((T \ {Null}) \cup {Null})
    BY <2>2, FS_AddElement
  <2> HIDE DEF T, M
  <2> QED
    BY <1>1, <2>1, <2>2, <2>3, <2>4
<1>3. IsChain(bucket[b], next, Slots, T)
  BY DEF SmallExact, ListsReached
<1>4. Listed(b) = Within(bucket[b], next, Slots, M)[M]
  BY DEF Listed, Within
<1> HIDE DEF M, T
<1>5. Within(bucket[b], next, Slots, M)[M] = T
  BY <1>1, <1>2, <1>3, ChainReached
<1> QED
  BY <1>4, <1>5 DEF T

LEMMA ExactLists ==
  ASSUME SmallInductive, SmallExact
  PROVE  FreeListsExact
<1>1. ASSUME NEW b \in Bins, NEW s
      PROVE  s \in Listable(b) \ lost <=>
             s \in {r \in UNION {ObjectsOf(p[1], p[2], b) : p \in PagesOf(mapped)} :
                      /\ BinOf(r) = b /\ binPageChain[r[1]][r[2]] = PageRecovered
                      /\ r \notin used \cup lost}
  <2>1. ASSUME s \in Listable(b)
        PROVE  s \in UNION {ObjectsOf(p[1], p[2], b) : p \in PagesOf(mapped)}
    <3>1. s \in Slots /\ s[1] \in mapped /\ s \in ObjectsOf(s[1], s[2], b)
      BY <2>1 DEF Listable
    <3>2. s[2] \in PageNumbers(s[1])
      BY <3>1, SlotIs
    <3>3. PICK p : p = <<s[1], s[2]>>
      OBVIOUS
    <3>4. p \in PagesOf(mapped) /\ p[1] = s[1] /\ p[2] = s[2]
      BY <3>1, <3>2, <3>3 DEF PagesOf
    <3> QED
      BY <3>1, <3>4
  <2>2. ASSUME NEW p \in PagesOf(mapped), s \in ObjectsOf(p[1], p[2], b)
        PROVE  s \in Slots /\ s[1] \in mapped /\ s \in ObjectsOf(s[1], s[2], b)
    <3>1. p[1] \in mapped /\ p[1] \in Pools /\ p[2] \in PageNumbers(p[1])
      BY DEF PagesOf, SmallInductive, SmallTypeOK
    <3>2. ObjectsOf(p[1], p[2], b) \subseteq Slots /\ s[1] = p[1] /\ s[2] = p[2]
      BY <2>2, <3>1, ObjectsIn
    <3> QED
      BY <2>2, <3>1, <3>2
  <2> QED
    BY <2>1, <2>2 DEF Listable
<1>2. ASSUME NEW b \in Bins PROVE Listed(b) \ lost = {Null} \cup (Listable(b) \ lost)
  <2>1. Null \notin lost
    BY NullAssumption DEF SmallInductive, SmallTypeOK
  <2> QED
    BY <2>1, ListedIsWhole DEF OnList
<1>3. ASSUME NEW b \in Bins
      PROVE  Listable(b) \ lost =
               {r \in UNION {ObjectsOf(p[1], p[2], b) : p \in PagesOf(mapped)} :
                  BinOf(r) = b /\ binPageChain[r[1]][r[2]] = PageRecovered /\ r \notin used \cup lost}
  BY <1>1
<1> QED
  BY <1>2, <1>3 DEF FreeListsExact

LEMMA ExactInit == SmallInit => SmallExact
<1> SUFFICES ASSUME SmallInit PROVE SmallExact
  OBVIOUS
<1>1. FreeReached
  <2> SUFFICES ASSUME NEW k \in Pools
               PROVE  IsChain(firstFree[k], binPageChain[k], PageNumbers(k),
                              FreeIn(k) \cup {PoolPages[k]})
    BY DEF FreeReached
  <2>1. FreeIn(k) = PageNumbers(k) /\ firstFree[k] = 0
    BY DEF SmallInit, FreeIn
  <2>2. PoolPages[k] \in Nat /\ PageNumbers(k) = 0 .. PoolPages[k] - 1
    BY PagesFinite
  <2>3. \A n \in 0 .. PoolPages[k] - 1 : binPageChain[k][n] = n + 1
    BY <2>2 DEF SmallInit
  <2>4. IsChain(0, binPageChain[k], 0 .. PoolPages[k] - 1,
                (0 .. PoolPages[k] - 1) \cup {PoolPages[k]})
    BY <2>2, <2>3, ChainOfAll
  <2> QED
    BY <2>1, <2>2, <2>4
<1>2. WaitingNotFull
  BY NullAssumption DEF SmallInit, WaitingNotFull, Waiting
<1>3. RecoverPoolStays
  BY DEF SmallInit, RecoverPoolStays
<1>4. usedSmallPages = Cardinality(UsedPages)
  <2>1. UsedPages = {}
    BY DEF SmallInit, UsedPages, PagesOf
  <2> QED
    BY <2>1, FS_EmptySet DEF SmallInit
<1>5. ListsReached
  <2>1. \A b \in Bins : OnList(b) = {Null} /\ bucket[b] = Null
    BY DEF SmallInit, OnList, Listable
  <2> QED
    BY <2>1, NullAssumption DEF ListsReached, IsChain, Leads
<1>6. LostKnown /\ ListsGivenUp
  BY DEF SmallInit, LostKnown, ListsGivenUp
<1> QED
  BY <1>1, <1>2, <1>3, <1>4, <1>5, <1>6 DEF SmallExact

\* What depends on the pages only.
LEMMA PagesExact ==
  ASSUME SmallExact, UNCHANGED <<mapped, pages, recoverPool, usedSmallPages>>
  PROVE  /\ FreeReached' /\ RecoverPoolStays'
         /\ usedSmallPages' = Cardinality(UsedPages')
         /\ \A k, b : Waiting(k, b)' = Waiting(k, b)
<1>1. \A k : FreeIn(k)' = FreeIn(k)
  BY DEF FreeIn, pages
<1>2. FreeReached'
  BY <1>1 DEF SmallExact, FreeReached, pages
<1>3. RecoverPoolStays'
  BY DEF SmallExact, RecoverPoolStays, pages
<1>4. UsedPages' = UsedPages
  BY DEF UsedPages, PagesOf, pages
<1>5. \A k, b : Waiting(k, b)' = Waiting(k, b)
  BY DEF Waiting, pages
<1> QED
  BY <1>2, <1>3, <1>4, <1>5 DEF SmallExact

\* smallAlloc takes the first object of a list.
LEMMA HandExact ==
  ASSUME SmallInductive, SmallExact, NEW b \in Bins, Hand(b)
  PROVE  SmallExact'
<1>1. PICK p \in Listable(b) : p = bucket[b]
  BY DEF Hand, SmallInductive, ListsDisjoint
<1>2. /\ p \in Slots /\ p \notin used /\ p # Null
      /\ binPageChain[p[1]][p[2]] = PageRecovered
  BY <1>1 DEF Listable, Hand
<1>3. /\ used' = used \cup {p} /\ lost' = lost /\ stage' = "idle"
      /\ UNCHANGED <<mapped, pages, recoverPool, usedSmallPages>>
  BY <1>1 DEF Hand
<1>4. /\ FreeReached' /\ RecoverPoolStays'
      /\ usedSmallPages' = Cardinality(UsedPages')
      /\ \A k, c : Waiting(k, c)' = Waiting(k, c)
  BY <1>3, PagesExact
<1>5. /\ \A c \in Bins : bucket'[c] = IF c = b THEN next[p] ELSE bucket[c]
      /\ \A s \in Slots \ {p} : next'[s] = next[s]
  BY <1>1, <1>2 DEF Hand, SmallInductive, SmallTypeOK
<1>6. WaitingNotFull'
  <2>1. ASSUME NEW k \in Pools, NEW c \in Bins, NEW n \in Waiting(k, c)
        PROVE  ~(ObjectsOf(k, n, c) \subseteq used \cup {p})
    <3>1. n \in PageNumbers(k) /\ binPageChain[k][n] # PageRecovered
      BY DEF Waiting
    <3>2. PICK s \in ObjectsOf(k, n, c) : s \notin used
      BY DEF SmallExact, WaitingNotFull
    <3>3. s[1] = k /\ s[2] = n
      BY <3>1, ObjectsIn
    <3>4. s # p
      BY <1>2, <3>1, <3>3
    <3> QED
      BY <3>2, <3>4
  <2> QED
    BY <1>3, <1>4, <2>1 DEF WaitingNotFull
<1>7. \A c \in Bins : OnList(c)' = OnList(c) \ {p}
  BY <1>2, <1>3 DEF OnList, Listable, BinOf, pages
<1>8. ListsReached'
  <2>1. \A c \in Bins : IsChain(bucket[c], next, Slots, OnList(c))
    BY DEF SmallExact, ListsReached
  <2>2. IsChain(bucket'[b], next', Slots, OnList(b)')
    <3>1. \A s \in Slots : next[s] # p
      BY <1>1, <1>2 DEF SmallInductive, ListsDisjoint
    <3>2. IsChain(p, next, Slots, OnList(b))
      BY <1>1, <2>1
    <3>3. IsChain(next[p], next', Slots, OnList(b) \ {p})
      BY <1>2, <1>5, <3>1, <3>2, ChainPop
    <3> QED
      BY <1>5, <1>7, <3>3
  <2>3. ASSUME NEW c \in Bins, c # b PROVE IsChain(bucket'[c], next', Slots, OnList(c)')
    <3>1. p \notin OnList(c)
      BY <1>1, <1>2, <2>3, BinsApart DEF OnList
    <3>2. OnList(c)' = OnList(c) /\ bucket'[c] = bucket[c]
      BY <1>5, <1>7, <2>3, <3>1
    <3> QED
      BY <1>5, <2>1, <3>1, <3>2, ChainSame
  <2> QED
    BY <2>2, <2>3 DEF ListsReached
<1>9. LostKnown'
  <2>1. p \notin lost
    BY <1>1, <1>2 DEF SmallExact, ListsReached, IsChain, OnList
  <2>2. \A c : Listable(c) \ {p} \subseteq Listable(c)'
    BY <1>3 DEF Listable, BinOf, pages
  <2> QED
    BY <1>3, <2>1, <2>2 DEF SmallExact, LostKnown
<1>10. ListsGivenUp'
  BY <1>3 DEF ListsGivenUp
<1> QED
  BY <1>4, <1>6, <1>8, <1>9, <1>10 DEF SmallExact

\* freeNoSync puts an object of a recovered page on the list, and one of a
\* page that waits nowhere.
LEMMA SmallFreeExact ==
  ASSUME SmallInductive, SmallExact, NEW s \in Slots, SmallFree(s)
  PROVE  SmallExact'
<1>1. /\ s \in used /\ used' = used \ {s} /\ lost' = lost /\ stage' = stage /\ stage = "idle"
      /\ UNCHANGED <<mapped, pages, recoverPool, usedSmallPages>>
  BY DEF SmallFree, Idle
<1>2. PICK b \in Bins : b = BinOf(s) /\ s[1] \in mapped /\ s \in ObjectsOf(s[1], s[2], b)
  BY <1>1 DEF SmallInductive, UsedInPages
<1>3. /\ FreeReached' /\ RecoverPoolStays'
      /\ usedSmallPages' = Cardinality(UsedPages')
      /\ \A k, c : Waiting(k, c)' = Waiting(k, c)
  BY <1>1, PagesExact
<1>4. WaitingNotFull'
  BY <1>1, <1>3 DEF SmallExact, WaitingNotFull
<1>5. \A c : Listable(c) \subseteq Listable(c)' /\ s \notin Listable(c)
  BY <1>1 DEF Listable, BinOf, pages
<1>6. LostKnown' /\ s \notin lost
  BY <1>1, <1>5 DEF SmallExact, LostKnown
<1>7. ListsGivenUp'
  BY <1>1 DEF ListsGivenUp
<1>8. s \notin OnList(b) /\ s # Null /\ \A c \in Bins : s \notin OnList(c)
  BY <1>5, NullAssumption DEF OnList
<1>9. \A c \in Bins : IsChain(bucket[c], next, Slots, OnList(c))
  BY DEF SmallExact, ListsReached
<1>10. \A c \in Bins : c # b => OnList(c)' = OnList(c)
  BY <1>1, <1>2 DEF OnList, Listable, BinOf, pages
<1>11. CASE binPageChain[s[1]][s[2]] = PageRecovered
  <2>1. /\ bucket' = [bucket EXCEPT ![b] = s]
        /\ next' = [next EXCEPT ![s] = bucket[b]]
    BY <1>2, <1>11 DEF SmallFree
  <2>2. /\ bucket'[b] = s /\ \A c \in Bins : c # b => bucket'[c] = bucket[c]
        /\ next'[s] = bucket[b] /\ \A r \in Slots \ {s} : next'[r] = next[r]
    BY <2>1 DEF SmallInductive, SmallTypeOK
  <2>3. OnList(b)' = OnList(b) \cup {s}
    <3>1. Listable(b)' = Listable(b) \cup {s}
      BY <1>1, <1>2, <1>11 DEF Listable, BinOf, pages
    <3> QED
      BY <1>1, <1>6, <3>1 DEF OnList
  <2>4. IsChain(s, next', Slots, OnList(b) \cup {s})
    BY <1>8, <1>9, <2>2, ChainPush
  <2>5. ASSUME NEW c \in Bins, c # b PROVE IsChain(bucket'[c], next', Slots, OnList(c)')
    <3>1. \A r \in OnList(c) \cap Slots : next'[r] = next[r]
      BY <1>8, <2>2
    <3>2. IsChain(bucket[c], next', Slots, OnList(c))
      BY <1>9, <3>1, ChainSame
    <3> QED
      BY <1>10, <2>2, <2>5, <3>2
  <2>6. ListsReached'
    BY <2>2, <2>3, <2>4, <2>5 DEF ListsReached
  <2> QED
    BY <1>3, <1>4, <1>6, <1>7, <2>6 DEF SmallExact
<1>12. CASE binPageChain[s[1]][s[2]] # PageRecovered
  <2>1. recoverPool[b] # Null
    <3>1. s[2] \in PageNumbers(s[1])
      BY SlotIs
    <3>2. s[2] \in Waiting(s[1], b)
      BY <1>2, <1>12, <3>1 DEF Waiting, BinOf
    <3> QED
      BY <1>2, <3>2 DEF SmallInductive, RecoverPoolFirst
  <2>2. UNCHANGED <<next, bucket>>
    BY <1>2, <1>12, <2>1 DEF SmallFree, lists
  <2>3. OnList(b)' = OnList(b)
    BY <1>1, <1>12 DEF OnList, Listable, BinOf, pages
  <2>4. \A c \in Bins : OnList(c)' = OnList(c)
    BY <1>10, <2>3
  <2>5. ListsReached'
    BY <1>9, <2>2, <2>4 DEF ListsReached
  <2> QED
    BY <1>3, <1>4, <1>6, <1>7, <2>5 DEF SmallExact
<1> QED
  BY <1>11, <1>12

\* What runFinalizers frees goes on no list: it is lost until the collection.
LEMMA RunFinalizersExact ==
  ASSUME SmallInductive, SmallExact, RunFinalizers
  PROVE  SmallExact'
<1>1. /\ used' = used \ Finals /\ stage = "idle" /\ stage' = stage
      /\ lost' = lost \cup {s \in used \cap Finals : binPageChain[s[1]][s[2]] = PageRecovered}
      /\ UNCHANGED <<mapped, pages, recoverPool, usedSmallPages>> /\ UNCHANGED <<next, bucket>>
  BY DEF RunFinalizers, Idle, lists
<1>2. /\ FreeReached' /\ RecoverPoolStays'
      /\ usedSmallPages' = Cardinality(UsedPages')
      /\ \A k, c : Waiting(k, c)' = Waiting(k, c)
  BY <1>1, PagesExact
<1>3. WaitingNotFull'
  BY <1>1, <1>2 DEF SmallExact, WaitingNotFull
<1>4. \A c : Listable(c)' = Listable(c) \cup
                {s \in Slots \cap used \cap Finals :
                   /\ s[1] \in mapped /\ BinOf(s) = c /\ s \in ObjectsOf(s[1], s[2], c)
                   /\ binPageChain[s[1]][s[2]] = PageRecovered}
  BY <1>1 DEF Listable, BinOf, pages
<1>5. \A c \in Bins : OnList(c)' = OnList(c)
  BY <1>1, <1>4 DEF OnList, Listable
<1>6. ListsReached'
  BY <1>1, <1>5 DEF SmallExact, ListsReached
<1>7. LostKnown'
  <2>1. ASSUME NEW s \in used \cap Finals, binPageChain[s[1]][s[2]] = PageRecovered
        PROVE  \E c \in Bins : s \in Listable(c)'
    <3>1. s \in Slots /\ s[1] \in mapped /\ BinOf(s) \in Bins
          /\ s \in ObjectsOf(s[1], s[2], BinOf(s))
      BY DEF SmallInductive, SmallTypeOK, UsedInPages
    <3> QED
      BY <1>4, <2>1, <3>1
  <2> QED
    BY <1>1, <1>4, <2>1 DEF SmallExact, LostKnown
<1>8. ListsGivenUp'
  BY <1>1 DEF ListsGivenUp
<1> QED
  BY <1>2, <1>3, <1>6, <1>7, <1>8 DEF SmallExact

\* What minimize() leaves as it is.
LEMMA UnmapExact ==
  ASSUME SmallInductive, SmallExact, mapped' \in {mapped, mapped \ AllFree(nfree)},
         UNCHANGED <<bin, usedSmallPages>>
  PROVE  /\ usedSmallPages' = Cardinality(UsedPages')
         /\ \A b \in Bins : recoverPool[b] # Null =>
              /\ recoverPool[b] \in mapped'
              /\ \E n \in PageNumbers(recoverPool[b]) : bin'[recoverPool[b]][n] = b
<1>1. /\ mapped' \subseteq mapped /\ mapped \subseteq Pools
      /\ \A k \in mapped : \A n \in PageNumbers(k) : bin[k][n] \in Bins => k \in mapped'
  BY BusyStaysMapped DEF SmallInductive, SmallTypeOK
<1>2. UsedPages' = UsedPages
  <2>1. ASSUME NEW p
        PROVE  p \in PagesOf(mapped') /\ bin[p[1]][p[2]] # Null <=>
               p \in PagesOf(mapped) /\ bin[p[1]][p[2]] # Null
    <3>1. ASSUME p \in PagesOf(mapped), bin[p[1]][p[2]] # Null PROVE p \in PagesOf(mapped')
      <4>1. PICK k \in mapped : p \in {k} \X PageNumbers(k)
        BY <3>1 DEF PagesOf
      <4>2. p[1] = k /\ p[2] \in PageNumbers(k) /\ k \in Pools
        BY <1>1, <4>1
      <4>3. bin[k][p[2]] \in Bins
        BY <3>1, <4>2 DEF SmallInductive, SmallTypeOK
      <4>4. k \in mapped'
        BY <1>1, <4>2, <4>3
      <4> QED
        BY <4>1, <4>4 DEF PagesOf
    <3>2. ASSUME p \in PagesOf(mapped') PROVE p \in PagesOf(mapped)
      BY <1>1, <3>2 DEF PagesOf
    <3> QED
      BY <3>1, <3>2
  <2>2. UsedPages' = {p \in PagesOf(mapped') : bin[p[1]][p[2]] # Null}
    BY DEF UsedPages, PagesOf
  <2>3. UsedPages = {p \in PagesOf(mapped) : bin[p[1]][p[2]] # Null}
    BY DEF UsedPages
  <2> QED
    BY <2>1, <2>2, <2>3
<1>3. ASSUME NEW b \in Bins, recoverPool[b] # Null
      PROVE  /\ recoverPool[b] \in mapped'
             /\ \E n \in PageNumbers(recoverPool[b]) : bin'[recoverPool[b]][n] = b
  BY <1>1, <1>3 DEF SmallExact, RecoverPoolStays
<1> QED
  BY <1>2, <1>3 DEF SmallExact

\* minimize unmaps pools without a page in use.
LEMMA MinimizeExact ==
  ASSUME SmallInductive, SmallExact, Minimize
  PROVE  SmallExact'
<1>1. /\ mapped' = mapped \ AllFree(nfree) /\ stage = "idle" /\ stage' = stage
      /\ UNCHANGED <<bin, binPageChain, recoverPageFirst, firstFree, nfree>>
      /\ UNCHANGED <<used, next, bucket, recoverPool, usedSmallPages, lost>>
  BY DEF Minimize, Idle, pages, lists
<1>2. usedSmallPages' = Cardinality(UsedPages') /\ RecoverPoolStays'
  BY <1>1, UnmapExact DEF RecoverPoolStays
<1>3. /\ \A k : FreeIn(k)' = FreeIn(k)
      /\ \A k, b : Waiting(k, b)' = Waiting(k, b)
  BY <1>1 DEF FreeIn, Waiting
<1>4. FreeReached' /\ WaitingNotFull'
  BY <1>1, <1>3 DEF SmallExact, FreeReached, WaitingNotFull
<1>5. ASSUME NEW b \in Bins PROVE Listable(b)' = Listable(b)
  <2>1. ASSUME NEW s \in Slots, s[1] \in mapped, BinOf(s) = b PROVE s[1] \in mapped'
    <3>1. s[1] \in Pools /\ s[2] \in PageNumbers(s[1])
      BY SlotIs
    <3> QED
      BY <1>1, <2>1, <3>1, BusyStaysMapped DEF BinOf
  <2> QED
    BY <1>1, <2>1 DEF Listable, BinOf
<1>6. ListsReached' /\ LostKnown'
  BY <1>1, <1>5 DEF SmallExact, ListsReached, LostKnown, OnList
<1>7. ListsGivenUp'
  BY <1>1 DEF ListsGivenUp
<1> QED
  BY <1>2, <1>4, <1>6, <1>7 DEF SmallExact

-----------------------------------------------------------------------------
(* The list that recoverPage makes *)

\* The list made from a page has all the objects it was made from.
LEMMA LinkUpReached ==
  ASSUME SmallTypeOK, NEW k \in Pools, NEW n \in PageNumbers(k), NEW b \in Bins,
         NEW F \in SUBSET ObjectsOf(k, n, b), LinkUp(b, F)
  PROVE  IsChain(bucket'[b], next', Slots, {Null} \cup F)
<1> DEFINE T == {Null} \cup F
           P == PerPage[b]
<1>1. F \subseteq Slots /\ Null \notin Slots
  BY ObjectsIn, NullAssumption
<1>2. /\ \A s \in F : s = <<k, n, s[3]>> /\ s[3] \in 1 .. P
      /\ P \in Nat
  BY ObjectsIn, PerPageAssumption
<1>3. /\ \A s \in F :
           \/ next'[s] = Null /\ \A r \in F : ~(r[3] > s[3])
           \/ /\ next'[s] \in F /\ next'[s][3] > s[3]
              /\ \A r \in F : r[3] > s[3] => next'[s][3] <= r[3]
      /\ \/ bucket'[b] = Null /\ F = {}
         \/ bucket'[b] \in F /\ \A s \in F : bucket'[b][3] <= s[3]
  BY LinkUpOrder
<1>4. \A s \in F : s[3] \in Int
  BY <1>2
<1> HIDE DEF P
<1>5. bucket'[b] \in T /\ Leads(next', Slots, T)
  BY <1>1, <1>3 DEF Leads
<1>6. ASSUME NEW Q \in SUBSET T, bucket'[b] \in Q, Leads(next', Slots, Q)
      PROVE  T \subseteq Q
  <2> DEFINE In(S) == {s[3] : s \in S}
  <2>1. ASSUME NEW S \in SUBSET F
        PROVE  In(S) \in SUBSET Nat /\ In(S) \in SUBSET (0 .. P)
    <3>1. ASSUME NEW i \in In(S) PROVE i \in Nat /\ i \in 0 .. P
      <4>1. PICK s \in S : i = s[3]
        OBVIOUS
      <4>2. i \in 1 .. P
        BY <1>2, <4>1
      <4> QED
        BY <1>2, <4>2
    <3> QED
      BY <3>1
  <2>2. ASSUME F \ Q # {} PROVE FALSE
    <3>1. In(F \ Q) \in SUBSET Nat /\ In(F \ Q) # {}
      BY <2>1, <2>2
    <3>2. PICK i \in In(F \ Q) : \A j \in In(F \ Q) : i <= j
      <4> HIDE DEF In
      <4> QED
        BY <3>1, Least
    <3>3. PICK s \in F \ Q : i = s[3]
      BY <3>2
    <3>4. \A r \in F \ Q : s[3] <= r[3]
      BY <3>2, <3>3
    <3> DEFINE Lower == {r \in F : r[3] < s[3]}
    <3>5. CASE Lower = {}
      <4>1. bucket'[b] \in F /\ bucket'[b][3] <= s[3]
        BY <1>3, <3>3
      <4>2. ~(bucket'[b][3] < s[3])
        BY <3>5, <4>1
      <4>3. bucket'[b][3] = s[3]
        BY <1>4, <3>3, <4>1, <4>2
      <4>4. bucket'[b] = s
        BY <1>2, <3>3, <4>1, <4>3
      <4> QED
        BY <1>6, <3>3, <4>4
    <3>6. CASE Lower # {}
      <4>1. In(Lower) \in SUBSET (0 .. P) /\ In(Lower) # {}
        BY <2>1, <3>6
      <4>2. PICK j \in In(Lower) : \A l \in In(Lower) : l <= j
        <5> HIDE DEF In
        <5> QED
          BY <1>2, <4>1, Greatest
      <4>3. PICK r \in Lower : j = r[3]
        BY <4>2
      <4>4. r \in F /\ r[3] < s[3] /\ \A q \in Lower : q[3] <= r[3]
        BY <4>2, <4>3
      <4>5. r \in Q
        <5>1. ~(s[3] <= r[3])
          BY <1>4, <3>3, <4>4
        <5> QED
          BY <3>4, <4>4, <5>1
      <4>6. next'[r] \in F /\ next'[r][3] > r[3] /\ next'[r][3] <= s[3]
        <5>1. s[3] > r[3]
          BY <1>4, <3>3, <4>4
        <5> QED
          BY <1>3, <3>3, <4>4, <5>1
      <4>7. ~(next'[r][3] < s[3])
        <5>1. ASSUME next'[r][3] < s[3] PROVE FALSE
          <6>1. next'[r] \in Lower
            BY <4>6, <5>1
          <6>2. next'[r][3] <= r[3]
            BY <4>4, <6>1
          <6> QED
            BY <1>4, <4>4, <4>6, <6>2
        <5> QED
          BY <5>1
      <4>8. next'[r][3] = s[3]
        BY <1>4, <3>3, <4>6, <4>7
      <4>9. next'[r] = s
        BY <1>2, <3>3, <4>6, <4>8
      <4>10. next'[r] \in Q
        BY <1>1, <1>6, <4>4, <4>5 DEF Leads
      <4> QED
        BY <3>3, <4>9, <4>10
    <3> QED
      BY <3>5, <3>6
  <2>3. F \subseteq Q
    BY <2>2
  <2>4. Null \in Q
    <3>1. CASE F = {}
      BY <1>3, <1>6, <3>1
    <3>2. CASE F # {}
      <4>1. In(F) \in SUBSET (0 .. P) /\ In(F) # {}
        BY <2>1, <3>2
      <4>2. PICK j \in In(F) : \A l \in In(F) : l <= j
        <5> HIDE DEF In
        <5> QED
          BY <1>2, <4>1, Greatest
      <4>3. PICK r \in F : j = r[3]
        BY <4>2
      <4>4. \A q \in F : q[3] <= r[3]
        BY <4>2, <4>3
      <4>5. next'[r] = Null
        <5>1. ASSUME next'[r] \in F, next'[r][3] > r[3] PROVE FALSE
          BY <1>4, <4>3, <4>4, <5>1
        <5> QED
          BY <1>3, <4>3, <5>1
      <4> QED
        BY <1>1, <1>6, <2>3, <4>3, <4>5 DEF Leads
    <3> QED
      BY <3>1, <3>2
  <2> QED
    BY <2>3, <2>4
<1> QED
  BY <1>5, <1>6 DEF IsChain

\* It takes the place of an empty list.
LEMMA LinkUpExact ==
  ASSUME SmallTypeOK, SmallExact,
         NEW k \in Pools, NEW n \in PageNumbers(k), NEW b \in Bins,
         NEW F \in SUBSET ObjectsOf(k, n, b), LinkUp(b, F),
         bucket[b] = Null, F \cap lost = {}, lost' = lost,
         Listable(b)' = Listable(b) \cup F,
         \A c \in Bins : F \cap Listable(c) = {},
         \A c \in Bins \ {b} : Listable(c)' = Listable(c)
  PROVE  ListsReached'
<1>1. Null \notin Slots /\ F \subseteq Slots /\ Null \notin F
  BY NullAssumption, ObjectsIn
<1>2. \A c \in Bins : IsChain(bucket[c], next, Slots, OnList(c))
  BY DEF SmallExact, ListsReached
<1>3. OnList(b) = {Null}
  <2>1. Leads(next, Slots, {Null})
    BY <1>1 DEF Leads
  <2>2. OnList(b) \subseteq {Null}
    BY <1>2, <2>1 DEF IsChain, OnList
  <2> QED
    BY <2>2 DEF OnList
<1>4. OnList(b)' = {Null} \cup F
  <2>1. OnList(b)' = {Null} \cup ((Listable(b) \cup F) \ lost)
    BY DEF OnList
  <2> QED
    BY <1>3, <2>1 DEF OnList
<1>5. /\ \A c \in Bins : c # b => bucket'[c] = bucket[c]
      /\ \A s \in Slots : s \notin F => next'[s] = next[s]
  BY DEF LinkUp, SmallTypeOK
<1>6. ASSUME NEW c \in Bins, c # b PROVE IsChain(bucket'[c], next', Slots, OnList(c)')
  <2>1. OnList(c)' = OnList(c)
    BY <1>6 DEF OnList
  <2>2. \A s \in OnList(c) \cap Slots : next'[s] = next[s]
    BY <1>1, <1>5 DEF OnList
  <2>3. IsChain(bucket[c], next', Slots, OnList(c))
    BY <1>2, <2>2, ChainSame
  <2> QED
    BY <1>5, <1>6, <2>1, <2>3
<1>7. IsChain(bucket'[b], next', Slots, OnList(b)')
  BY <1>4, LinkUpReached
<1> QED
  BY <1>6, <1>7 DEF ListsReached

-----------------------------------------------------------------------------
(* Chains and lists when pages and pools are added *)

\* recoverNextPage, after minimize() or not.
LEMMA RecoverExact ==
  ASSUME SmallInductive, SmallExact, NEW b \in Bins, recoverNextPage(b), bucket[b] = Null,
         mapped' \in {mapped, mapped \ AllFree(nfree)},
         UNCHANGED <<used, usedSmallPages, lost>>, stage' # "collected"
  PROVE  SmallExact'
<1>1. ListsGivenUp'
  BY DEF ListsGivenUp
<1>2. UNCHANGED bin
  BY DEF recoverNextPage, pages
<1>3. /\ usedSmallPages' = Cardinality(UsedPages')
      /\ \A c \in Bins : recoverPool[c] # Null =>
           /\ recoverPool[c] \in mapped'
           /\ \E n \in PageNumbers(recoverPool[c]) : bin'[recoverPool[c]][n] = c
  BY <1>2, UnmapExact
<1>4. \A k : FreeIn(k)' = FreeIn(k)
  BY <1>2 DEF FreeIn
<1>5. /\ mapped' \subseteq mapped /\ mapped \subseteq Pools
      /\ \A k \in mapped : \A n \in PageNumbers(k) : bin[k][n] \in Bins => k \in mapped'
  BY BusyStaysMapped DEF SmallInductive, SmallTypeOK
\* No object loses its pool.
<1>6. \A c \in Bins : \A s \in Slots : BinOf(s) = c => (s[1] \in mapped' <=> s[1] \in mapped)
  BY <1>5, SlotIs DEF BinOf
<1>7. CASE Recoverable(b) = {}
  <2>1. /\ recoverPool' = [recoverPool EXCEPT ![b] = Null]
        /\ UNCHANGED <<binPageChain, recoverPageFirst, firstFree, nfree>>
        /\ UNCHANGED <<next, bucket>>
    BY <1>7 DEF recoverNextPage, pages, lists
  <2>2. \A c \in Bins : recoverPool'[c] = Null \/ recoverPool'[c] = recoverPool[c]
    BY <2>1 DEF SmallInductive, SmallTypeOK
  <2>3. RecoverPoolStays'
    BY <1>3, <2>2 DEF RecoverPoolStays
  <2>4. \A k, c : Waiting(k, c)' = Waiting(k, c)
    BY <1>2, <2>1 DEF Waiting
  <2>5. FreeReached' /\ WaitingNotFull'
    BY <1>4, <2>1, <2>4 DEF SmallExact, FreeReached, WaitingNotFull
  <2>6. \A c \in Bins : Listable(c)' = Listable(c)
    BY <1>2, <1>6, <2>1 DEF Listable, BinOf
  <2>7. ListsReached' /\ LostKnown'
    BY <2>1, <2>6 DEF SmallExact, ListsReached, LostKnown, OnList
  <2> QED
    BY <1>1, <1>3, <2>3, <2>5, <2>7 DEF SmallExact
<1>8. CASE Recoverable(b) # {}
  <2>1. Recoverable(b) \in SUBSET Nat
    BY <1>5, PoolsAssumption DEF Recoverable
  <2>2. PICK k \in Recoverable(b) : k = Min(Recoverable(b))
    BY <1>8, <2>1, MinIs
  <2>3. /\ k \in mapped /\ k \in Pools /\ recoverPool[b] # Null
        /\ recoverPageFirst[k][b] < PoolPages[k]
    BY <1>5 DEF Recoverable
  <2>4. PICK n \in Waiting(k, b) : n = recoverPageFirst[k][b]
    BY <2>3, FirstWaiting
  <2>5. n \in PageNumbers(k) /\ bin[k][n] = b /\ binPageChain[k][n] # PageRecovered
    BY DEF Waiting
  <2>6. /\ recoverPool' = [recoverPool EXCEPT ![b] = k]
        /\ binPageChain' = [binPageChain EXCEPT ![k][n] = PageRecovered]
        /\ LinkUp(b, ObjectsOf(k, n, b) \ used)
        /\ UNCHANGED <<firstFree, nfree>>
    BY <1>8, <2>2, <2>4 DEF recoverNextPage
  <2>7. \A j \in Pools : \A m \in PageNumbers(j) :
          binPageChain'[j][m] = IF j = k /\ m = n THEN PageRecovered ELSE binPageChain[j][m]
    BY <2>3, <2>5, <2>6 DEF SmallInductive, SmallTypeOK
  <2>8. FreeReached'
    <3>1. ASSUME NEW j \in Pools
          PROVE  IsChain(firstFree'[j], binPageChain'[j], PageNumbers(j),
                         FreeIn(j)' \cup {PoolPages[j]})
      <4>1. IsChain(firstFree[j], binPageChain[j], PageNumbers(j),
                    FreeIn(j) \cup {PoolPages[j]})
        BY DEF SmallExact, FreeReached
      <4>2. PoolPages[j] \notin PageNumbers(j)
        BY PagesFinite
      <4>3. ASSUME NEW m \in (FreeIn(j) \cup {PoolPages[j]}) \cap PageNumbers(j)
            PROVE  binPageChain'[j][m] = binPageChain[j][m]
        <5>1. m \in PageNumbers(j) /\ bin[j][m] = Null
          BY <4>2 DEF FreeIn
        <5> QED
          BY <2>5, <2>7, <5>1, NullAssumption
      <4>4. IsChain(firstFree[j], binPageChain'[j], PageNumbers(j),
                    FreeIn(j) \cup {PoolPages[j]})
        BY <4>1, <4>3, ChainSame
      <4> QED
        BY <1>4, <2>6, <4>4
    <3> QED
      BY <3>1 DEF FreeReached
  <2>9. WaitingNotFull'
    <3>1. \A j \in Pools : \A c \in Bins : Waiting(j, c)' \subseteq Waiting(j, c)
      BY <1>2, <2>7 DEF Waiting
    <3> QED
      BY <3>1 DEF SmallExact, WaitingNotFull
  <2>10. RecoverPoolStays'
    <3>1. \A c \in Bins : recoverPool'[c] = IF c = b THEN k ELSE recoverPool[c]
      BY <2>6 DEF SmallInductive, SmallTypeOK
    <3>2. k \in mapped'
      BY <1>5, <2>3, <2>5
    <3> QED
      BY <1>2, <1>3, <2>5, <3>1, <3>2 DEF RecoverPoolStays
  <2> DEFINE F == ObjectsOf(k, n, b) \ used
  <2>11. /\ F \in SUBSET ObjectsOf(k, n, b)
         /\ \A s \in F : s \in Slots /\ s[1] = k /\ s[2] = n /\ s \notin used
    BY <2>3, <2>5, ObjectsIn
  <2>12. k \in mapped'
    BY <1>5, <2>3, <2>5
  <2>13. \A c : F \cap Listable(c) = {}
    BY <2>5, <2>11 DEF Listable
  <2>14. F \cap lost = {}
    BY <2>13 DEF SmallExact, LostKnown
  <2>15. ASSUME NEW c \in Bins
         PROVE  Listable(c)' = IF c = b THEN Listable(c) \cup F ELSE Listable(c)
    <3>1. ASSUME NEW s \in Slots, BinOf(s) = c, s \in ObjectsOf(s[1], s[2], c), s \notin used
          PROVE  s \in Listable(c)' <=> s \in Listable(c) \/ (c = b /\ s \in F)
      <4>1. s[1] \in Pools /\ s[2] \in PageNumbers(s[1])
        BY SlotIs
      <4>2. s \in Listable(c)' <=>
              s[1] \in mapped /\ binPageChain'[s[1]][s[2]] = PageRecovered
        BY <1>2, <1>6, <3>1 DEF Listable, BinOf
      <4>3. s \in Listable(c) <=>
              s[1] \in mapped /\ binPageChain[s[1]][s[2]] = PageRecovered
        BY <3>1 DEF Listable
      <4>4. s[1] = k /\ s[2] = n <=> c = b /\ s \in F
        <5>1. ASSUME s[1] = k, s[2] = n PROVE c = b /\ s \in F
          <6>1. c = b
            BY <2>5, <3>1, <5>1 DEF BinOf
          <6> QED
            BY <3>1, <5>1, <6>1
        <5>2. ASSUME s \in F PROVE s[1] = k /\ s[2] = n
          <6> HIDE DEF F
          <6> QED
            BY <2>11, <5>2
        <5> HIDE DEF F
        <5> QED
          BY <5>1, <5>2
      <4> HIDE DEF F
      <4> QED
        BY <2>3, <2>7, <4>1, <4>2, <4>3, <4>4
    <3>2. ASSUME NEW s \in Listable(c)'
          PROVE  s \in Slots /\ BinOf(s) = c /\ s \in ObjectsOf(s[1], s[2], c) /\ s \notin used
      BY <1>2, <3>2 DEF Listable, BinOf
    <3>3. ASSUME NEW s \in Listable(c)
          PROVE  s \in Slots /\ BinOf(s) = c /\ s \in ObjectsOf(s[1], s[2], c) /\ s \notin used
      BY <3>3 DEF Listable
    <3>4. ASSUME NEW s \in F, c = b
          PROVE  s \in Slots /\ BinOf(s) = c /\ s \in ObjectsOf(s[1], s[2], c) /\ s \notin used
      BY <2>5, <2>11, <3>4 DEF BinOf
    <3> HIDE DEF F
    <3> QED
      BY <3>1, <3>2, <3>3, <3>4
  <2> HIDE DEF F
  <2>16. LinkUp(b, F)
    BY <2>6 DEF F
  <2>17. ListsReached'
    BY <2>3, <2>5, <2>11, <2>13, <2>14, <2>15, <2>16, LinkUpExact DEF SmallInductive
  <2>18. LostKnown'
    BY <2>15 DEF SmallExact, LostKnown
  <2> QED
    BY <1>1, <1>3, <2>8, <2>9, <2>10, <2>17, <2>18 DEF SmallExact
<1> QED
  BY <1>7, <1>8

\* allocPage of smallAlloc
LEMMA TryPageExact ==
  ASSUME SmallInductive, SmallExact, TryPage
  PROVE  SmallExact'
<1>1. PICK b \in Bins : b = want
  BY DEF TryPage, Trying, SmallInductive, SmallTypeOK, Idle
<1>2. WithRoom # {} /\ WithRoom \in SUBSET Nat
  BY PoolsAssumption DEF TryPage, allocPage, WithRoom, SmallInductive, SmallTypeOK
<1>3. PICK k \in WithRoom : k = Min(WithRoom)
  BY <1>2, MinIs
<1>4. k \in mapped /\ k \in Pools /\ firstFree[k] < PoolPages[k] /\ mapped \subseteq Pools
  BY DEF WithRoom, SmallInductive, SmallTypeOK
<1>5. PICK n \in FreeIn(k) : n = firstFree[k]
  BY <1>4, PagesFinite DEF SmallInductive, FreeChained
<1>6. n \in PageNumbers(k) /\ bin[k][n] = Null /\ n # PoolPages[k]
  BY <1>4, PagesFinite DEF FreeIn
<1>7. /\ bin' = [bin EXCEPT ![k][n] = b]
      /\ firstFree' = [firstFree EXCEPT ![k] = binPageChain[k][n]]
      /\ binPageChain' = [binPageChain EXCEPT ![k][n] = PageRecovered]
      /\ usedSmallPages' = usedSmallPages + 1
      /\ LinkUp(b, ObjectsOf(k, n, b))
      /\ bucket[b] = Null /\ stage # "collected"
      /\ UNCHANGED <<mapped, recoverPageFirst, used, recoverPool, want, stage, lost>>
  BY <1>1, <1>3, <1>5 DEF TryPage, allocPage, Trying
<1>8. \A j \in Pools : \A m \in PageNumbers(j) :
        /\ bin'[j][m] = IF j = k /\ m = n THEN b ELSE bin[j][m]
        /\ binPageChain'[j][m] =
             IF j = k /\ m = n THEN PageRecovered ELSE binPageChain[j][m]
  BY <1>4, <1>6, <1>7 DEF SmallInductive, SmallTypeOK
<1>9. /\ \A j \in Pools : FreeIn(j)' = IF j = k THEN FreeIn(j) \ {n} ELSE FreeIn(j)
      /\ \A j \in Pools : \A c \in Bins : Waiting(j, c)' = Waiting(j, c)
  BY <1>4, <1>6, <1>8, NullAssumption DEF FreeIn, Waiting
<1>10. FreeReached'
  <2>1. ASSUME NEW j \in Pools
        PROVE  IsChain(firstFree'[j], binPageChain'[j], PageNumbers(j),
                       FreeIn(j)' \cup {PoolPages[j]})
    <3> DEFINE T == FreeIn(j) \cup {PoolPages[j]}
    <3>1. IsChain(firstFree[j], binPageChain[j], PageNumbers(j), T)
      BY DEF SmallExact, FreeReached
    <3>2. T \cap PageNumbers(j) = FreeIn(j)
      BY PagesFinite DEF FreeIn
    <3>3. CASE j = k
      <4>1. ASSUME NEW m \in FreeIn(k) PROVE binPageChain[k][m] # n
        BY <1>4, <1>5, <1>6 DEF SmallInductive, FreeChained
      <4>2. \A m \in T \ {n} : m \in PageNumbers(j) => binPageChain'[j][m] = binPageChain[j][m]
        BY <1>8, <3>3
      <4>3. n \in PageNumbers(j) /\ n = firstFree[j]
        BY <1>5, <1>6, <3>3
      <4> HIDE DEF T
      <4>4. IsChain(binPageChain[j][n], binPageChain'[j], PageNumbers(j), T \ {n})
        BY <3>1, <3>2, <3>3, <4>1, <4>2, <4>3, ChainPop
      <4>5. T \ {n} = FreeIn(j)' \cup {PoolPages[j]}
        BY <1>4, <1>6, <1>9, <3>3 DEF T
      <4>6. firstFree'[j] = binPageChain[j][n]
        BY <1>4, <1>7, <3>3 DEF SmallInductive, SmallTypeOK
      <4> QED
        BY <4>4, <4>5, <4>6
    <3>4. CASE j # k
      <4>1. firstFree'[j] = firstFree[j]
        BY <1>7, <3>4 DEF SmallInductive, SmallTypeOK
      <4>2. FreeIn(j)' = FreeIn(j)
        BY <1>9, <3>4
      <4>3. \A m \in T \cap PageNumbers(j) : binPageChain'[j][m] = binPageChain[j][m]
        BY <1>8, <3>4
      <4> HIDE DEF T
      <4>4. IsChain(firstFree[j], binPageChain'[j], PageNumbers(j), T)
        BY <3>1, <4>3, ChainSame
      <4> QED
        BY <4>1, <4>2, <4>4 DEF T
    <3> QED
      BY <3>3, <3>4
  <2> QED
    BY <2>1 DEF FreeReached
<1>11. WaitingNotFull'
  BY <1>7, <1>9 DEF SmallExact, WaitingNotFull
<1>12. RecoverPoolStays'
  <2>1. ASSUME NEW c \in Bins, recoverPool[c] # Null
        PROVE  /\ recoverPool[c] \in mapped
               /\ \E m \in PageNumbers(recoverPool[c]) : bin'[recoverPool[c]][m] = c
    <3>1. recoverPool[c] \in mapped /\ recoverPool[c] \in Pools
      BY <1>4, <2>1 DEF SmallExact, RecoverPoolStays
    <3>2. PICK m \in PageNumbers(recoverPool[c]) : bin[recoverPool[c]][m] = c
      BY <2>1 DEF SmallExact, RecoverPoolStays
    <3>3. bin'[recoverPool[c]][m] = c
      BY <1>6, <1>8, <3>1, <3>2, NullAssumption
    <3> QED
      BY <3>1, <3>3
  <2> QED
    BY <1>7, <2>1 DEF RecoverPoolStays
<1>13. usedSmallPages' = Cardinality(UsedPages')
  <2>1. ASSUME NEW p \in PagesOf(mapped)
        PROVE  /\ p[1] \in Pools /\ p[2] \in PageNumbers(p[1]) /\ p = <<p[1], p[2]>>
               /\ bin'[p[1]][p[2]] # Null <=> bin[p[1]][p[2]] # Null \/ p = <<k, n>>
    <3>1. p[1] \in Pools /\ p[2] \in PageNumbers(p[1]) /\ p = <<p[1], p[2]>>
      BY <1>4 DEF PagesOf
    <3>2. p = <<k, n>> <=> p[1] = k /\ p[2] = n
      BY <3>1
    <3> QED
      BY <1>8, <3>1, <3>2, NullAssumption
  <2>2. <<k, n>> \in PagesOf(mapped) /\ <<k, n>> \notin UsedPages
    BY <1>4, <1>6 DEF PagesOf, UsedPages
  <2>3. UsedPages' = {p \in PagesOf(mapped) : bin'[p[1]][p[2]] # Null}
    BY <1>7 DEF UsedPages, PagesOf
  <2>4. UsedPages' = UsedPages \cup {<<k, n>>}
    BY <2>1, <2>2, <2>3 DEF UsedPages
  <2>5. IsFiniteSet(UsedPages)
    BY <1>4, PagesOfFinite, FS_Subset DEF UsedPages
  <2>6. Cardinality(UsedPages \cup {<<k, n>>}) = Cardinality(UsedPages) + 1
    BY <2>2, <2>5, FS_AddElement
  <2> QED
    BY <1>7, <2>4, <2>6 DEF SmallExact
<1> DEFINE F == ObjectsOf(k, n, b)
<1>14. /\ F \in SUBSET ObjectsOf(k, n, b)
       /\ \A s \in F : s \in Slots /\ s[1] = k /\ s[2] = n
  BY <1>4, <1>6, ObjectsIn
<1>15. \A s \in used : ~(s[1] = k /\ s[2] = n)
  BY <1>6, NullAssumption DEF SmallInductive, UsedInPages, BinOf
<1>16. \A c \in Bins : \A s \in Listable(c) : ~(s[1] = k /\ s[2] = n)
  BY <1>6, NullAssumption DEF Listable, BinOf
<1>17. \A c \in Bins : F \cap Listable(c) = {}
  BY <1>14, <1>16
<1>18. F \cap lost = {}
  BY <1>17 DEF SmallExact, LostKnown
<1>19. ASSUME NEW c \in Bins
       PROVE  Listable(c)' = IF c = b THEN Listable(c) \cup F ELSE Listable(c)
  <2>1. ASSUME NEW s \in Slots
        PROVE  s \in Listable(c)' <=> s \in Listable(c) \/ (c = b /\ s \in F)
    <3>1. s[1] \in Pools /\ s[2] \in PageNumbers(s[1])
      BY SlotIs
    <3>2. CASE s[1] = k /\ s[2] = n
      <4>1. bin'[s[1]][s[2]] = b /\ binPageChain'[s[1]][s[2]] = PageRecovered
        BY <1>8, <3>1, <3>2
      <4>2. s \in Listable(c)' <=> c = b /\ s \in ObjectsOf(s[1], s[2], c)
        BY <1>4, <1>7, <1>15, <3>2, <4>1 DEF Listable, BinOf
      <4>3. s \notin Listable(c)
        BY <1>16, <3>2
      <4> QED
        BY <3>2, <4>2, <4>3
    <3>3. CASE ~(s[1] = k /\ s[2] = n)
      <4>1. /\ bin'[s[1]][s[2]] = bin[s[1]][s[2]]
            /\ binPageChain'[s[1]][s[2]] = binPageChain[s[1]][s[2]]
        BY <1>8, <3>1, <3>3
      <4>2. s \in Listable(c)' <=> s \in Listable(c)
        BY <1>7, <4>1 DEF Listable, BinOf
      <4>3. s \notin F
        <5> HIDE DEF F
        <5> QED
          BY <1>14, <3>3
      <4> QED
        BY <4>2, <4>3
    <3> QED
      BY <3>2, <3>3
  <2>2. Listable(c)' \subseteq Slots /\ Listable(c) \subseteq Slots
    BY DEF Listable
  <2> HIDE DEF F
  <2> QED
    BY <1>14, <2>1, <2>2
<1> HIDE DEF F
<1>20. LinkUp(b, F)
  BY <1>7 DEF F
<1>21. ListsReached'
  BY <1>4, <1>6, <1>7, <1>14, <1>17, <1>18, <1>19, <1>20, LinkUpExact DEF SmallInductive
<1>22. LostKnown'
  BY <1>7, <1>19 DEF SmallExact, LostKnown
<1>23. ListsGivenUp'
  BY <1>7 DEF ListsGivenUp
<1> QED
  BY <1>10, <1>11, <1>12, <1>13, <1>21, <1>22, <1>23 DEF SmallExact

\* The first page to recover waits.
FirstsWaiting ==
  \A k \in Pools, b \in Bins :
    recoverPageFirst[k][b] < PoolPages[k] => recoverPageFirst[k][b] \in Waiting(k, b)

LEMMA FirstsAreWaiting == SmallInductive => FirstsWaiting
BY FirstWaiting DEF FirstsWaiting

\* A new pool is one chain of free pages.
LEMMA NewPoolExact ==
  ASSUME SmallInductive, SmallExact, MallocNewPool
  PROVE  SmallExact'
<1>1. PICK k \in Pools : newPool(k)
  BY DEF MallocNewPool
<1>2. k \notin mapped /\ FreeIn(k) = PageNumbers(k) /\ mapped \subseteq Pools
  BY <1>1 DEF newPool, SmallInductive, FreeCounted, SmallTypeOK
<1>3. /\ \A m \in PageNumbers(k) : bin[k][m] = Null
      /\ \A b \in Bins : Waiting(k, b) = {}
  BY <1>2, NullAssumption DEF FreeIn, Waiting
<1>4. \A j \in Pools :
        /\ bin'[j] = IF j = k THEN [n \in PageNumbers(k) |-> Null] ELSE bin[j]
        /\ binPageChain'[j] =
             IF j = k THEN [n \in PageNumbers(k) |-> n + 1] ELSE binPageChain[j]
        /\ firstFree'[j] = IF j = k THEN 0 ELSE firstFree[j]
  BY <1>1 DEF newPool, SmallInductive, SmallTypeOK
<1>5. \A j \in Pools : \A m \in PageNumbers(j) : bin'[j][m] = bin[j][m]
  BY <1>3, <1>4
<1>6. \A j \in Pools : FreeIn(j)' = FreeIn(j)
  BY <1>5 DEF FreeIn
<1>7. \A j \in Pools : \A b \in Bins : Waiting(j, b)' \subseteq Waiting(j, b)
  <2>1. \A b \in Bins : Waiting(k, b)' = {}
    BY <1>3, <1>5, NullAssumption DEF Waiting
  <2>2. \A j \in Pools : \A b \in Bins : j # k => Waiting(j, b)' = Waiting(j, b)
    BY <1>4 DEF Waiting
  <2> QED
    BY <2>1, <2>2
<1>8. /\ mapped' = mapped \cup {k} /\ stage' # "collected"
      /\ UNCHANGED <<used, next, bucket, recoverPool, usedSmallPages, lost>>
  BY <1>1 DEF newPool, MallocNewPool, lists
<1>9. FreeReached'
  <2>1. ASSUME NEW j \in Pools
        PROVE  IsChain(firstFree'[j], binPageChain'[j], PageNumbers(j),
                       FreeIn(j)' \cup {PoolPages[j]})
    <3>1. CASE j = k
      <4>1. PoolPages[k] \in Nat /\ PageNumbers(k) = 0 .. PoolPages[k] - 1
        BY PagesFinite
      <4>2. binPageChain'[k] = [n \in PageNumbers(k) |-> n + 1] /\ firstFree'[k] = 0
        BY <1>4
      <4>3. \A n \in 0 .. PoolPages[k] - 1 : binPageChain'[k][n] = n + 1
        BY <4>1, <4>2
      <4>4. IsChain(0, binPageChain'[k], 0 .. PoolPages[k] - 1,
                    (0 .. PoolPages[k] - 1) \cup {PoolPages[k]})
        BY <4>1, <4>3, ChainOfAll
      <4>5. FreeIn(k)' = PageNumbers(k)
        BY <1>2, <1>6
      <4> QED
        BY <3>1, <4>1, <4>2, <4>4, <4>5
    <3>2. CASE j # k
      <4>1. binPageChain'[j] = binPageChain[j] /\ firstFree'[j] = firstFree[j]
        BY <1>4, <3>2
      <4>2. IsChain(firstFree[j], binPageChain[j], PageNumbers(j),
                    FreeIn(j) \cup {PoolPages[j]})
        BY DEF SmallExact, FreeReached
      <4> QED
        BY <1>6, <4>1, <4>2
    <3> QED
      BY <3>1, <3>2
  <2> QED
    BY <2>1 DEF FreeReached
<1>10. WaitingNotFull'
  BY <1>7, <1>8 DEF SmallExact, WaitingNotFull
<1>11. RecoverPoolStays'
  <2>1. ASSUME NEW b \in Bins, recoverPool[b] # Null
        PROVE  /\ recoverPool[b] \in mapped'
               /\ \E n \in PageNumbers(recoverPool[b]) : bin'[recoverPool[b]][n] = b
    <3>1. recoverPool[b] \in mapped /\ recoverPool[b] \in Pools
      BY <1>2, <2>1 DEF SmallExact, RecoverPoolStays
    <3>2. PICK n \in PageNumbers(recoverPool[b]) : bin[recoverPool[b]][n] = b
      BY <2>1 DEF SmallExact, RecoverPoolStays
    <3> QED
      BY <1>5, <1>8, <3>1, <3>2
  <2> QED
    BY <1>8, <2>1 DEF RecoverPoolStays
<1>12. usedSmallPages' = Cardinality(UsedPages')
  <2>1. UsedPages' = {p \in PagesOf(mapped \cup {k}) : bin'[p[1]][p[2]] # Null}
    BY <1>8 DEF UsedPages, PagesOf
  <2>2. ASSUME NEW p
        PROVE  p \in PagesOf(mapped \cup {k}) /\ bin'[p[1]][p[2]] # Null <=>
               p \in PagesOf(mapped) /\ bin[p[1]][p[2]] # Null
    <3>1. ASSUME p \in PagesOf(mapped \cup {k})
          PROVE  /\ p[1] \in Pools /\ p[2] \in PageNumbers(p[1])
                 /\ p[1] # k => p \in PagesOf(mapped)
      BY <1>2, <3>1 DEF PagesOf
    <3>2. p \in PagesOf(mapped) => p \in PagesOf(mapped \cup {k})
      BY DEF PagesOf
    <3>3. p \in PagesOf(mapped) => p[1] # k
      BY <1>2 DEF PagesOf
    <3> QED
      BY <1>3, <1>5, <3>1, <3>2, <3>3
  <2>3. UsedPages' = UsedPages
    BY <2>1, <2>2 DEF UsedPages
  <2> QED
    BY <1>8, <2>3 DEF SmallExact
<1>13. ASSUME NEW c \in Bins PROVE Listable(c)' = Listable(c)
  <2>1. ASSUME NEW s \in Slots PROVE s \in Listable(c)' <=> s \in Listable(c)
    <3>1. s[1] \in Pools /\ s[2] \in PageNumbers(s[1])
      BY SlotIs
    <3>2. CASE s[1] = k
      <4>1. BinOf(s)' = Null
        BY <1>3, <1>5, <3>1, <3>2 DEF BinOf
      <4> QED
        BY <1>2, <3>2, <4>1, NullAssumption DEF Listable
    <3>3. CASE s[1] # k
      BY <1>4, <1>8, <3>1, <3>3 DEF Listable, BinOf
    <3> QED
      BY <3>2, <3>3
  <2> QED
    BY <2>1 DEF Listable
<1>14. ListsReached' /\ LostKnown'
  BY <1>8, <1>13 DEF SmallExact, ListsReached, LostKnown, OnList
<1>15. ListsGivenUp'
  BY <1>8 DEF ListsGivenUp
<1> QED
  BY <1>9, <1>10, <1>11, <1>12, <1>14, <1>15 DEF SmallExact

-----------------------------------------------------------------------------
(* Chains and lists after a collection *)

\* A sweep chains what it frees and gives up all lists.
LEMMA CollectExact ==
  ASSUME SmallInductive, SmallInductive', SmallExact,
         NEW live \in SUBSET used, NEW minimized \in BOOLEAN, Collect(live, minimized)
  PROVE  SmallExact'
<1> DEFINE G(k) == Gone(k, live)
<1>1. ASSUME NEW k \in Pools
      PROVE  /\ G(k) \in SUBSET PageNumbers(k) /\ G(k) \cap FreeIn(k) = {}
             /\ FreeIn(k)' = FreeIn(k) \cup G(k)
             /\ firstFree'[k] = Before(G(k), PoolPages[k], firstFree[k])
  <2>1. G(k) \in SUBSET PageNumbers(k) /\ G(k) \cap FreeIn(k) = {}
    BY DEF Gone, FreeIn
  <2>2. \A n \in PageNumbers(k) : bin'[k][n] = IF n \in G(k) THEN Null ELSE bin[k][n]
    BY DEF Collect, Sweep
  <2>3. FreeIn(k)' = FreeIn(k) \cup G(k)
    BY <2>1, <2>2 DEF FreeIn
  <2>4. firstFree'[k] = Before(G(k), PoolPages[k], firstFree[k])
    BY DEF Collect, Sweep
  <2> QED
    BY <2>1, <2>3, <2>4
<1>2. ASSUME NEW k \in Pools, NEW n \in PageNumbers(k)
      PROVE  /\ bin'[k][n] = IF n \in G(k) THEN Null ELSE bin[k][n]
             /\ n \in FreeIn(k) => binPageChain'[k][n] = binPageChain[k][n]
             /\ n \in G(k) => binPageChain'[k][n] = Before(G(k), n, firstFree[k])
  <2>1. bin'[k][n] = IF n \in G(k) THEN Null ELSE bin[k][n]
    BY DEF Collect, Sweep
  <2>2. binPageChain'[k][n] =
          IF bin[k][n] = Null THEN binPageChain[k][n]
          ELSE IF n \in G(k) THEN Before(G(k), n, firstFree[k])
          ELSE IF n \in ToRecover(k, bin[k][n], live)
            THEN Before(ToRecover(k, bin[k][n], live), n, PoolPages[k])
          ELSE PageRecovered
    BY DEF Collect, Sweep
  <2>3. n \in FreeIn(k) <=> bin[k][n] = Null
    BY DEF FreeIn
  <2> QED
    BY <1>1, <2>1, <2>2, <2>3
<1>3. /\ used' = used \cap live /\ lost' = {}
      /\ mapped' = IF minimized THEN mapped \ AllFree(nfree') ELSE mapped
      /\ mapped' \subseteq mapped /\ mapped \subseteq Pools
      /\ bucket' = [b \in Bins |-> Null] /\ next' = [s \in Slots |-> Null]
  BY DEF Collect, Sweep, SmallInductive, SmallTypeOK
\* The pages that get free are put before the others.
<1>4. FreeReached'
  <2>1. ASSUME NEW k \in Pools
        PROVE  IsChain(firstFree'[k], binPageChain'[k], PageNumbers(k),
                       FreeIn(k)' \cup {PoolPages[k]})
    <3> DEFINE X == FreeIn(k) \cup {PoolPages[k]}
               S == G(k)
               N == PoolPages[k]
    <3>1. N \in Nat /\ PageNumbers(k) = 0 .. N - 1 /\ N \notin PageNumbers(k)
      BY PagesFinite
    <3>2. IsChain(firstFree[k], binPageChain[k], PageNumbers(k), X)
      BY DEF SmallExact, FreeReached
    <3>3. \A n \in X \cap PageNumbers(k) : binPageChain'[k][n] = binPageChain[k][n]
      BY <1>2, <3>1
    <3>4. /\ S \in SUBSET PageNumbers(k) /\ S \cap X = {}
          /\ \A n \in S : binPageChain'[k][n] = Before(S, n, firstFree[k])
      BY <1>1, <1>2, <3>1
    <3> HIDE DEF X, S, N
    <3>5. IsChain(firstFree[k], binPageChain'[k], PageNumbers(k), X)
      BY <3>2, <3>3, ChainSame
    <3>6. IsChain(Before(S, N, firstFree[k]), binPageChain'[k], PageNumbers(k), X \cup S)
      BY <3>1, <3>4, <3>5, ChainBefore
    <3>7. X \cup S = FreeIn(k)' \cup {PoolPages[k]}
      BY <1>1 DEF X, S
    <3> QED
      BY <1>1, <3>6, <3>7 DEF S, N
  <2> QED
    BY <2>1 DEF FreeReached
\* What is not free and not full is going to be recovered.
<1>5. ASSUME NEW k \in Pools, NEW n \in PageNumbers(k), NEW b \in Bins, bin'[k][n] = b
      PROVE  n \in ToRecover(k, b, live) <=> ~(ObjectsOf(k, n, b) \subseteq used')
  BY <1>2, <1>3, <1>5, NullAssumption DEF ToRecover
<1>6. ASSUME NEW k \in Pools, NEW n \in PageNumbers(k), NEW b \in Bins, bin'[k][n] = b,
             n \notin ToRecover(k, b, live)
      PROVE  binPageChain'[k][n] = PageRecovered
  <2>1. n \notin G(k) /\ bin[k][n] = b /\ b # Null
    BY <1>2, <1>6, NullAssumption
  <2> QED
    BY <1>6, <2>1 DEF Collect, Sweep
<1>7. WaitingNotFull'
  <2>1. ASSUME NEW k \in Pools, NEW b \in Bins, NEW n \in Waiting(k, b)'
        PROVE  ~(ObjectsOf(k, n, b) \subseteq used')
    <3>1. n \in PageNumbers(k) /\ bin'[k][n] = b /\ binPageChain'[k][n] # PageRecovered
      BY DEF Waiting
    <3> QED
      BY <1>5, <1>6, <3>1
  <2> QED
    BY <2>1 DEF WaitingNotFull
<1>8. \A b \in Bins : Listable(b)' = {}
  <2>1. ASSUME NEW b \in Bins, NEW s \in Listable(b)' PROVE FALSE
    <3>1. /\ s \in Slots /\ s \notin used' /\ bin'[s[1]][s[2]] = b
          /\ s \in ObjectsOf(s[1], s[2], b) /\ binPageChain'[s[1]][s[2]] = PageRecovered
      BY <2>1 DEF Listable, BinOf
    <3>2. s[1] \in Pools /\ s[2] \in PageNumbers(s[1])
      BY <3>1, SlotIs
    <3>3. s[2] \in ToRecover(s[1], b, live)
      BY <1>5, <3>1, <3>2
    <3>4. s[2] \in Waiting(s[1], b)'
      <4> DEFINE R == ToRecover(s[1], b, live)
                 N == PoolPages[s[1]]
      <4>1. binPageChain'[s[1]][s[2]] = Before(R, s[2], N)
        <5>1. s[2] \notin G(s[1]) /\ bin[s[1]][s[2]] = b /\ b # Null
          BY <1>2, <3>1, <3>2, NullAssumption
        <5> QED
          BY <3>2, <3>3, <5>1 DEF Collect, Sweep
      <4>2. R \in SUBSET (0 .. N - 1) /\ N \in Nat /\ s[2] \in Int
        BY <3>2, PagesFinite DEF ToRecover
      <4> HIDE DEF R, N
      <4>3. Before(R, s[2], N) \in R \cup {N}
        BY <4>2, BeforeIs
      <4>4. \A m \in R \cup {N} : m # PageRecovered
        <5>1. \A m \in 0 .. N - 1 : m # -1
          BY <4>2
        <5> QED
          BY <4>2, <5>1 DEF PageRecovered
      <4> QED
        BY <3>1, <4>1, <4>3, <4>4
    <3> QED
      BY <3>1, <3>4 DEF Waiting
  <2> QED
    BY <2>1
<1>9. ListsReached' /\ LostKnown' /\ ListsGivenUp'
  <2>1. \A b \in Bins : OnList(b)' = {Null} /\ bucket'[b] = Null
    BY <1>3, <1>8 DEF OnList
  <2>2. \A b \in Bins : IsChain(bucket'[b], next', Slots, OnList(b)')
    BY <2>1, NullAssumption DEF IsChain, Leads
  <2> QED
    BY <1>3, <2>1, <2>2 DEF ListsReached, LostKnown, ListsGivenUp
\* recoverPool is one of the pools that have a page to recover.
<1>10. RecoverPoolStays'
  <2> DEFINE HasSome(b) == {k \in mapped' : recoverPageFirst'[k][b] < PoolPages[k]}
  <2>1. recoverPool' = [b \in Bins |-> IF HasSome(b) = {} THEN Null ELSE Min(HasSome(b))]
    BY DEF Collect
  <2>2. ASSUME NEW b \in Bins, recoverPool'[b] # Null
        PROVE  /\ recoverPool'[b] \in mapped'
               /\ \E n \in PageNumbers(recoverPool'[b]) : bin'[recoverPool'[b]][n] = b
    <3>1. HasSome(b) # {} /\ recoverPool'[b] = Min(HasSome(b))
      BY <2>1, <2>2
    <3>2. HasSome(b) \in SUBSET Nat
      BY <1>3, PoolsAssumption
    <3>3. Min(HasSome(b)) \in HasSome(b)
      <4> HIDE DEF HasSome
      <4> QED
        BY <3>1, <3>2, MinIs
    <3>4. PICK k \in HasSome(b) : k = recoverPool'[b]
      BY <3>1, <3>3
    <3>5. k \in mapped' /\ k \in Pools /\ recoverPageFirst'[k][b] < PoolPages[k]
      BY <1>3
    <3>6. recoverPageFirst'[k][b] \in Waiting(k, b)'
      <4>1. FirstsWaiting'
        <5>1. (SmallInductive => FirstsWaiting)'
          BY FirstsAreWaiting, PTL
        <5> QED
          BY <5>1
      <4> QED
        BY <3>5, <4>1 DEF FirstsWaiting
    <3> QED
      BY <3>4, <3>5, <3>6 DEF Waiting
  <2> QED
    BY <2>2 DEF RecoverPoolStays
<1>11. usedSmallPages' = Cardinality(UsedPages')
  <2> DEFINE GonePages == {p \in PagesOf(mapped) : p[2] \in Gone(p[1], live)}
  <2>1. usedSmallPages' = usedSmallPages - Cardinality(GonePages)
    BY DEF Collect, Sweep
  <2>2. ASSUME NEW p \in PagesOf(mapped)
        PROVE  /\ p[1] \in mapped /\ p[1] \in Pools /\ p[2] \in PageNumbers(p[1])
               /\ p \in {p[1]} \X PageNumbers(p[1])
               /\ bin'[p[1]][p[2]] # Null <=> bin[p[1]][p[2]] # Null /\ p[2] \notin G(p[1])
    <3>1. /\ p[1] \in mapped /\ p[1] \in Pools /\ p[2] \in PageNumbers(p[1])
          /\ p \in {p[1]} \X PageNumbers(p[1])
      BY <1>3 DEF PagesOf
    <3> QED
      BY <1>2, <3>1
  <2>3. GonePages \subseteq UsedPages
    BY DEF UsedPages, Gone
  <2>4. UsedPages' = {p \in PagesOf(mapped') : bin'[p[1]][p[2]] # Null}
    BY DEF UsedPages, PagesOf
  <2>5. ASSUME NEW p \in PagesOf(mapped), bin'[p[1]][p[2]] # Null
        PROVE  p \in PagesOf(mapped')
    <3>1. p[1] \in mapped /\ p[1] \in Pools /\ p[2] \in PageNumbers(p[1])
      BY <2>2
    <3>2. p[1] \in mapped'
      <4>1. p[2] \notin FreeIn(p[1])'
        BY <2>5 DEF FreeIn
      <4>2. FreeIn(p[1])' \in SUBSET PageNumbers(p[1])
        BY DEF FreeIn
      <4>3. Cardinality(FreeIn(p[1])') # PoolPages[p[1]]
        BY <3>1, <4>1, <4>2, PagesSubset
      <4>4. nfree'[p[1]] = Cardinality(FreeIn(p[1])')
        BY <3>1 DEF SmallInductive, FreeCounted
      <4> QED
        BY <1>3, <3>1, <4>3, <4>4 DEF AllFree
    <3> QED
      BY <2>2, <3>2 DEF PagesOf
  <2>6. \A p \in PagesOf(mapped') : p \in PagesOf(mapped)
    BY <1>3 DEF PagesOf
  <2>7. UsedPages' = UsedPages \ GonePages
    <3>1. \A p \in PagesOf(mapped) :
            bin'[p[1]][p[2]] # Null <=> p \in UsedPages /\ p \notin GonePages
      BY <2>2 DEF UsedPages
    <3>2. UsedPages \subseteq PagesOf(mapped)
      BY DEF UsedPages
    <3> HIDE DEF GonePages
    <3> QED
      BY <2>4, <2>5, <2>6, <3>1, <3>2
  <2>8. IsFiniteSet(UsedPages)
    BY <1>3, PagesOfFinite, FS_Subset DEF UsedPages
  <2> HIDE DEF GonePages
  <2>9. UsedPages \cap GonePages = GonePages
    BY <2>3
  <2>10. Cardinality(UsedPages \ GonePages) = Cardinality(UsedPages) - Cardinality(GonePages)
    BY <2>8, <2>9, FS_Difference
  <2> QED
    BY <2>1, <2>7, <2>10 DEF SmallExact
<1> QED
  BY <1>4, <1>7, <1>9, <1>10, <1>11 DEF SmallExact

-----------------------------------------------------------------------------
(* Chains and lists in every state *)

\* Where smallAlloc is matters only after it has called the collector.
LEMMA StageExact ==
  ASSUME SmallExact,
         UNCHANGED <<mapped, pages, used, lists, recoverPool, usedSmallPages, lost>>,
         stage' # "collected" \/ UNCHANGED stage
  PROVE  SmallExact'
<1>1. /\ FreeReached' /\ RecoverPoolStays'
      /\ usedSmallPages' = Cardinality(UsedPages')
      /\ \A k, b : Waiting(k, b)' = Waiting(k, b)
  BY PagesExact
<1>2. UNCHANGED <<bin, binPageChain, used, bucket, next, lost>>
  BY DEF pages, lists
<1>3. WaitingNotFull'
  BY <1>1, <1>2 DEF SmallExact, WaitingNotFull
<1>4. \A b \in Bins : Listable(b)' = Listable(b)
  BY <1>2 DEF Listable, BinOf
<1>5. ListsReached' /\ LostKnown'
  BY <1>2, <1>4 DEF SmallExact, ListsReached, LostKnown, OnList
<1>6. ListsGivenUp'
  BY <1>2 DEF SmallExact, ListsGivenUp
<1> QED
  BY <1>1, <1>3, <1>5, <1>6 DEF SmallExact

LEMMA NextExact ==
  ASSUME SmallInductive, SmallInductive', SmallExact, [SmallNext]_svars
  PROVE  SmallExact'
<1>1. Idle \/ want \in Bins
  BY DEF SmallInductive, SmallTypeOK
<1>2. ASSUME NEW b \in Bins, MallocBegin(b)
      PROVE  SmallExact'
  <2>1. CASE bucket[b] # Null
    BY <1>2, <2>1, HandExact DEF MallocBegin
  <2>2. CASE bucket[b] = Null
    <3>1. /\ stage' = "try" /\ UNCHANGED <<mapped, used, usedSmallPages, lost>>
          /\ recoverNextPage(b) \/ UNCHANGED <<pages, lists, recoverPool>>
      BY <1>2, <2>2 DEF MallocBegin
    <3>2. CASE recoverNextPage(b)
      BY <2>2, <3>1, <3>2, RecoverExact
    <3>3. CASE UNCHANGED <<pages, lists, recoverPool>>
      BY <3>1, <3>3, StageExact
    <3> QED
      BY <3>1, <3>2, <3>3
  <2> QED
    BY <2>1, <2>2
<1>3. CASE TryHand
  <2>1. want \in Bins
    BY <1>1, <1>3 DEF TryHand, Trying, Idle
  <2> QED
    BY <1>3, <2>1, HandExact DEF TryHand
<1>4. CASE TryPage
  BY <1>4, TryPageExact
<1>5. CASE MallocNewPool
  BY <1>5, NewPoolExact
<1>6. CASE MallocCollect
  BY <1>6, CollectExact DEF MallocCollect
<1>7. CASE MallocSkip
  BY <1>7, StageExact DEF MallocSkip
<1>8. CASE MallocRecover
  <2>1. want \in Bins
    BY <1>1, <1>8 DEF MallocRecover, Idle
  <2>2. bucket[want] = Null
    BY <1>8, <2>1 DEF MallocRecover, SmallExact, ListsGivenUp
  <2> QED
    BY <1>8, <2>1, <2>2, RecoverExact DEF MallocRecover
<1>9. CASE OutOfMemory
  BY <1>9, StageExact DEF OutOfMemory
<1>10. ASSUME NEW s \in Slots, SmallFree(s)
       PROVE  SmallExact'
  BY <1>10, SmallFreeExact
<1>11. CASE RunFinalizers
  BY <1>11, RunFinalizersExact
<1>12. CASE Minimize
  BY <1>12, MinimizeExact
<1>13. ASSUME NEW live \in SUBSET used, NEW minimized \in BOOLEAN, Collect(live, minimized)
       PROVE  SmallExact'
  BY <1>13, CollectExact
<1>14. CASE UNCHANGED svars
  BY <1>14, StageExact DEF svars
<1> QED
  BY <1>2, <1>3, <1>4, <1>5, <1>6, <1>7, <1>8, <1>9, <1>10, <1>11, <1>12, <1>13, <1>14
     DEF SmallNext

\* Through the same mixture of operations, nothing is missed: from searchStart
\* every free page of a pool is reached, from recoverPageFirst every page that
\* waits, and from bucket every free object of the recovered pages of its size
\* but those that runFinalizers freed; a page that waits has a free object, so
\* that smallAlloc finds one in it, the pool that recoverPool names is still
\* mapped, and usedSmallPages is the number of pages in use.
THEOREM SmallPoolsExact == SmallSpec => [](SmallInductive /\ SmallExact)
<1>1. SmallInit => SmallInductive /\ SmallExact
  BY SmallInitInductive, ExactInit
<1>2. SmallInductive /\ SmallExact /\ [SmallNext]_svars => (SmallInductive /\ SmallExact)'
  BY NextInductive, NextExact
<1> QED
  BY <1>1, <1>2, PTL DEF SmallSpec

\* The chains of binPageChain, followed as allocPage and recoverNextPage do,
\* end and have exactly the free pages of the pool, and the pages of the bin
\* that wait to be recovered, none of them full; no pool with a page to recover
\* comes before recoverPool, and nfree and usedSmallPages are what they count.
THEOREM SmallPoolsChains == SmallSpec => []ChainsRight
<1>1. SmallInductive /\ SmallExact => ChainsRight
  BY ExactChains
<1> QED
  BY <1>1, SmallPoolsExact, PTL

\* The list of bucket, followed as smallAlloc does, ends and has exactly the
\* free objects of the recovered pages of its bin, but for those that
\* runFinalizers freed, which are missing until the next collection: allocation,
\* freeNoSync and recoverPage forget none and add none that is in use.
THEOREM SmallPoolsLists == SmallSpec => []FreeListsExact
<1>1. SmallInductive /\ SmallExact => FreeListsExact
  BY ExactLists
<1> QED
  BY <1>1, SmallPoolsExact, PTL

-----------------------------------------------------------------------------
(* Pools of large objects *)

LargeSpec == LargeInit /\ [][LargeNext]_lvars

PageKinds == {"B_FREE", "B_PAGE", "B_PAGEPLUS"}

LargeTypeOK ==
  /\ pagetable \in [Pages -> PageKinds] /\ bPageOffsets \in [Pages -> Nat]
  /\ searchStart \in 0 .. NPages /\ largestFree \in Nat /\ freepages \in Nat

\* A block is its first page and the pages that lead back to it.
BlocksWhole ==
  \A i \in Bases :
    /\ bPageOffsets[i] \in 1 .. NPages - i
    /\ \A j \in i + 1 .. i + bPageOffsets[i] - 1 :
         pagetable[j] = "B_PAGEPLUS" /\ bPageOffsets[j] = j - i

\* There are no other pages of blocks.
PlusInside ==
  \A j \in Pages : pagetable[j] = "B_PAGEPLUS" =>
    \E i \in Bases : j \in i + 1 .. i + bPageOffsets[i] - 1

\* From i to e all pages are in F, and none next to them.
RunIn(F, i, e) ==
  i <= e /\ i .. e \subseteq F /\ i - 1 \notin F /\ e + 1 \notin F

RunsKnown ==
  \A i, e \in Pages : RunIn(FreePages, i, e) =>
    bPageOffsets[i] = e - i + 1 /\ bPageOffsets[e] = e - i + 1

Estimates ==
  /\ \A i \in FreePages : searchStart <= i
  /\ \A i, e \in Pages : RunIn(FreePages, i, e) => e - i + 1 <= largestFree

LargeInv ==
  /\ LargeTypeOK /\ BlocksWhole /\ PlusInside /\ RunsKnown /\ Estimates
  /\ freepages = Cardinality(FreePages)

\* Every page of a set is in a run.
LEMMA RunAround ==
  ASSUME NEW n \in Nat, NEW F \in SUBSET (0 .. n), NEW k \in F
  PROVE  \E i, e \in F : RunIn(F, i, e) /\ i <= k /\ k <= e
<1> DEFINE Lo == {i \in 0 .. k : i .. k \subseteq F}
           Hi == {e \in k .. n : k .. e \subseteq F}
<1>0. k \in 0 .. n /\ k .. k = {k}
  OBVIOUS
<1>1. k \in Lo /\ k \in Hi /\ Lo \in SUBSET Nat /\ Hi \in SUBSET (0 .. n)
  BY <1>0
<1>2. PICK i \in Lo : \A y \in Lo : i <= y
  <2> HIDE DEF Lo
  <2> QED
    BY <1>1, Least
<1>3. PICK e \in Hi : \A y \in Hi : y <= e
  <2> HIDE DEF Hi
  <2> QED
    BY <1>1, Greatest
<1>4. i - 1 \notin F
  <2> SUFFICES ASSUME i - 1 \in F PROVE FALSE
    OBVIOUS
  <2>1. i - 1 \in 0 .. k /\ i \in 0 .. k /\ i .. k \subseteq F
    BY <1>0, <1>1
  <2>2. \A x \in i - 1 .. k : x = i - 1 \/ x \in i .. k
    BY <1>0, <2>1
  <2>3. i - 1 \in Lo
    BY <2>1, <2>2
  <2> QED
    BY <1>2, <2>1, <2>3
<1>5. e + 1 \notin F
  <2> SUFFICES ASSUME e + 1 \in F PROVE FALSE
    OBVIOUS
  <2>1. e + 1 \in k .. n /\ e \in k .. n /\ k .. e \subseteq F
    BY <1>0, <1>1
  <2>2. \A x \in k .. e + 1 : x = e + 1 \/ x \in k .. e
    BY <1>0, <2>1
  <2>3. e + 1 \in Hi
    BY <2>1, <2>2
  <2> QED
    BY <1>3, <2>1, <2>3
<1>6. \A x \in i .. e : x \in i .. k \/ x \in k .. e
  BY <1>0
<1>7. i .. e \subseteq F /\ i \in F /\ e \in F /\ i <= k /\ k <= e /\ i <= e
  BY <1>0, <1>6
<1> QED
  BY <1>4, <1>5, <1>7 DEF RunIn

-----------------------------------------------------------------------------
(* The walk of allocPages *)

LEMMA WalkStep ==
  ASSUME NEW i \in 0 .. NPages
  PROVE  Walk[i] = IF i < NPages /\ i + bPageOffsets[i] \in i + 1 .. NPages
                     THEN {i} \cup Walk[i + bPageOffsets[i]] ELSE {i}
<1> DEFINE D == 0 .. NPages
           On(j) == j < NPages /\ j + bPageOffsets[j] \in j + 1 .. NPages
           Next(j) == j + bPageOffsets[j]
           Closed(S) == \A j \in S : On(j) => Next(j) \in S
           C(j) == {d \in D : \A S \in SUBSET D : j \in S /\ Closed(S) => d \in S}
           Fix(f) == f = [j \in D |-> IF On(j) THEN {j} \cup f[Next(j)] ELSE {j}]
<1>0. NPages \in Nat /\ \A j \in D : On(j) => Next(j) \in D
  BY NPagesAssumption
<1>1. ASSUME NEW j \in D
      PROVE  C(j) = IF On(j) THEN {j} \cup C(Next(j)) ELSE {j}
  <2> HIDE DEF D, On, Next
  <2>1. j \in C(j) /\ C(j) \in SUBSET D
    OBVIOUS
  <2>2. CASE ~On(j)
    <3>1. {j} \in SUBSET D /\ Closed({j})
      BY <2>2
    <3> QED
      BY <2>1, <2>2, <3>1
  <2>3. CASE On(j)
    <3>0. Next(j) \in D
      BY <1>0, <2>3
    <3>1. C(j) \subseteq {j} \cup C(Next(j))
      <4>1. {j} \cup C(Next(j)) \in SUBSET D
        OBVIOUS
      <4>2. Next(j) \in C(Next(j))
        BY <3>0
      <4>3. ASSUME NEW d \in C(Next(j)), On(d) PROVE Next(d) \in C(Next(j))
        BY <1>0, <4>3
      <4>4. Closed({j} \cup C(Next(j)))
        BY <4>2, <4>3
      <4> QED
        BY <4>1, <4>4
    <3>2. C(Next(j)) \subseteq C(j)
      <4> SUFFICES ASSUME NEW d \in C(Next(j)), NEW S \in SUBSET D, j \in S, Closed(S)
                   PROVE  d \in S
        OBVIOUS
      <4>1. Next(j) \in S
        BY <2>3
      <4> QED
        BY <4>1
    <3> HIDE DEF C
    <3> QED
      BY <2>1, <2>3, <3>1, <3>2
  <2> HIDE DEF C
  <2> QED
    BY <2>2, <2>3
<1>2. \E f : Fix(f)
  <2>1. Fix([j \in D |-> C(j)])
    <3> HIDE DEF D, C, On, Next
    <3> QED
      BY <1>0, <1>1
  <2> QED
    BY <2>1
<1>3. Fix(Walk)
  <2>1. Walk = CHOOSE f : Fix(f)
    BY DEF Walk
  <2> HIDE DEF Fix
  <2> QED
    BY <1>2, <2>1
<1> QED
  BY <1>3

End(i) == i + bPageOffsets[i]

\* Where blocks and free runs begin, and where the last one ends.
RunStarts == {i \in FreePages : i - 1 \notin FreePages}
Marks == Bases \cup RunStarts \cup {NPages}

LEMMA PagesAre ==
  /\ NPages \in Nat /\ NPages > 0
  /\ \A i : i \in Pages <=> i \in Nat /\ i < NPages
  /\ FreePages \in SUBSET Pages /\ Bases \in SUBSET Pages
  /\ Pages \in SUBSET (0 .. NPages)
BY NPagesAssumption DEF Pages, FreePages, Bases

\* A page of one block begins no other.
LEMMA BlocksApart ==
  ASSUME LargeTypeOK, BlocksWhole, NEW i \in Bases, NEW j \in Bases, i < j
  PROVE  End(i) <= j
<1>1. i \in Nat /\ j \in Nat /\ pagetable[j] = "B_PAGE"
  BY PagesAre DEF Bases
<1>2. bPageOffsets[i] \in Nat
  BY PagesAre DEF LargeTypeOK
<1>3. \A k \in i + 1 .. i + bPageOffsets[i] - 1 : pagetable[k] = "B_PAGEPLUS"
  BY DEF BlocksWhole
<1> SUFFICES ASSUME ~ (End(i) <= j) PROVE FALSE
  OBVIOUS
<1>4. j \in i + 1 .. i + bPageOffsets[i] - 1
  BY <1>1, <1>2 DEF End
<1> QED
  BY <1>1, <1>3, <1>4

\* Behind a block begins another, a free run, or nothing.
LEMMA BehindBlock ==
  ASSUME LargeTypeOK, BlocksWhole, PlusInside, NEW i \in Bases
  PROVE  End(i) \in Marks /\ End(i) \in i + 1 .. NPages
<1>1. i \in Nat /\ i < NPages /\ NPages \in Nat
  BY PagesAre
<1>2. bPageOffsets[i] \in 1 .. NPages - i
  BY DEF BlocksWhole
<1>3. End(i) \in i + 1 .. NPages
  BY <1>1, <1>2 DEF End
<1>4. CASE End(i) = NPages
  BY <1>3, <1>4 DEF Marks
<1>5. CASE End(i) < NPages
  <2>1. End(i) \in Pages
    BY <1>1, <1>3, <1>5, PagesAre
  <2>2. End(i) - 1 \notin FreePages
    <3>1. End(i) - 1 = i \/ End(i) - 1 \in i + 1 .. i + bPageOffsets[i] - 1
      BY <1>1, <1>2 DEF End
    <3>2. pagetable[End(i) - 1] \in {"B_PAGE", "B_PAGEPLUS"}
      BY <3>1 DEF BlocksWhole, Bases
    <3> QED
      BY <3>2 DEF FreePages
  <2>3. pagetable[End(i)] # "B_PAGEPLUS"
    <3> SUFFICES ASSUME pagetable[End(i)] = "B_PAGEPLUS" PROVE FALSE
      OBVIOUS
    <3>1. PICK b \in Bases : End(i) \in b + 1 .. b + bPageOffsets[b] - 1
      BY <2>1 DEF PlusInside
    <3>2. b \in Nat /\ bPageOffsets[b] \in Nat
      BY PagesAre DEF LargeTypeOK
    <3>3. b # i
      BY <1>1, <1>2, <3>1 DEF End
    <3>4. b < i => End(b) <= i
      BY BlocksApart
    <3>5. i < b => End(i) <= b
      BY BlocksApart
    <3> QED
      BY <1>1, <1>3, <3>1, <3>2, <3>3, <3>4, <3>5 DEF End
  <2>4. pagetable[End(i)] \in PageKinds
    BY <2>1 DEF LargeTypeOK
  <2> QED
    BY <1>3, <2>1, <2>2, <2>3, <2>4 DEF Marks, RunStarts, PageKinds, FreePages, Bases
<1> QED
  BY <1>1, <1>3, <1>4, <1>5

\* A free run that begins at i.
LEMMA RunFrom ==
  ASSUME NEW i \in RunStarts
  PROVE  \E e \in Pages : RunIn(FreePages, i, e)
<1>1. i \in FreePages /\ i - 1 \notin FreePages /\ i \in Nat
  BY PagesAre DEF RunStarts
<1>2. PICK b, e \in FreePages : RunIn(FreePages, b, e) /\ b <= i /\ i <= e
  <2>1. NPages \in Nat /\ FreePages \in SUBSET (0 .. NPages)
    BY PagesAre
  <2> QED
    BY <1>1, <2>1, RunAround
<1>3. b \in Nat /\ e \in Nat /\ b .. e \subseteq FreePages
  BY <1>2, PagesAre DEF RunIn
<1>4. b = i
  <2> SUFFICES ASSUME b < i PROVE FALSE
    BY <1>1, <1>2, <1>3
  <2>1. i - 1 \in b .. e
    BY <1>1, <1>2, <1>3
  <2> QED
    BY <1>1, <1>3, <2>1
<1> QED
  BY <1>2, <1>4, PagesAre

\* Behind a free run begins a block, or nothing.
LEMMA BehindRun ==
  ASSUME LargeTypeOK, BlocksWhole, PlusInside, NEW i \in Pages, NEW e \in Pages,
         RunIn(FreePages, i, e)
  PROVE  e + 1 \in Bases \cup {NPages}
<1>1. i \in Nat /\ e \in Nat /\ e < NPages /\ NPages \in Nat /\ i <= e
  BY PagesAre DEF RunIn
<1>2. e \in FreePages /\ e + 1 \notin FreePages
  <2>1. e \in i .. e
    BY <1>1
  <2> QED
    BY <2>1 DEF RunIn
<1>3. CASE e + 1 < NPages
  <2>1. e + 1 \in Pages
    BY <1>1, <1>3, PagesAre
  <2>2. pagetable[e + 1] \in PageKinds
    BY <2>1 DEF LargeTypeOK
  <2>3. ASSUME pagetable[e + 1] = "B_PAGEPLUS" PROVE FALSE
    <3>1. PICK b \in Bases : e + 1 \in b + 1 .. b + bPageOffsets[b] - 1
      BY <2>1, <2>3 DEF PlusInside
    <3>2. b \in Nat /\ bPageOffsets[b] \in Nat /\ pagetable[b] = "B_PAGE"
      BY PagesAre DEF LargeTypeOK, Bases
    <3>3. e = b \/ e \in b + 1 .. b + bPageOffsets[b] - 1
      BY <1>1, <3>1, <3>2
    <3>4. pagetable[e] \in {"B_PAGE", "B_PAGEPLUS"}
      BY <3>2, <3>3 DEF BlocksWhole
    <3> QED
      BY <1>2, <3>4 DEF FreePages
  <2> QED
    BY <1>2, <2>1, <2>2, <2>3 DEF PageKinds, FreePages, Bases
<1> QED
  BY <1>1, <1>3

LEMMA MarkNext ==
  ASSUME LargeTypeOK, BlocksWhole, PlusInside, RunsKnown, NEW i \in Marks, i # NPages
  PROVE  /\ End(i) \in Marks /\ End(i) \in i + 1 .. NPages
         /\ \A j \in Marks : i < j => End(i) <= j
<1>1. CASE i \in Bases
  <2>1. End(i) \in Marks /\ End(i) \in i + 1 .. NPages
    BY <1>1, BehindBlock
  <2>2. ASSUME NEW j \in Marks, i < j PROVE End(i) <= j
    <3>1. CASE j \in Bases
      BY <1>1, <2>2, <3>1, BlocksApart
    <3>2. CASE j = NPages
      BY <2>1, <3>2, PagesAre, <1>1
    <3>3. CASE j \in RunStarts
      <4>1. i \in Nat /\ j \in Nat /\ bPageOffsets[i] \in Nat
        BY <1>1, <3>3, PagesAre DEF RunStarts, LargeTypeOK
      <4> SUFFICES ASSUME ~ (End(i) <= j) PROVE FALSE
        OBVIOUS
      <4>2. j \in i + 1 .. i + bPageOffsets[i] - 1
        BY <2>2, <4>1 DEF End
      <4>3. pagetable[j] = "B_PAGEPLUS"
        BY <1>1, <4>2 DEF BlocksWhole
      <4> QED
        BY <3>3, <4>3 DEF RunStarts, FreePages
    <3> QED
      BY <2>2, <3>1, <3>2, <3>3 DEF Marks
  <2> QED
    BY <2>1, <2>2
<1>2. CASE i \in RunStarts
  <2>1. PICK e \in Pages : RunIn(FreePages, i, e)
    BY <1>2, RunFrom
  <2>2. i \in Pages /\ i \in Nat /\ e \in Nat /\ i <= e /\ e < NPages /\ NPages \in Nat
    BY <1>2, <2>1, PagesAre DEF RunStarts, RunIn
  <2>3. bPageOffsets[i] = e - i + 1
    BY <2>1, <2>2 DEF RunsKnown
  <2>4. End(i) = e + 1
    BY <2>2, <2>3 DEF End
  <2>5. End(i) \in Marks
    BY <2>1, <2>2, <2>4, BehindRun DEF Marks
  <2>6. ASSUME NEW j \in Marks, i < j PROVE End(i) <= j
    <3>1. j \in Nat
      BY PagesAre DEF Marks, RunStarts
    <3> SUFFICES ASSUME j <= e PROVE FALSE
      BY <2>2, <2>4, <3>1
    <3>2. j \in i .. e /\ j - 1 \in i .. e
      BY <2>2, <2>6, <3>1
    <3>3. j \in FreePages /\ j - 1 \in FreePages
      BY <2>1, <3>2 DEF RunIn
    <3>4. j # NPages /\ j \notin Bases
      BY <3>3, PagesAre DEF FreePages, Bases
    <3> QED
      BY <3>3, <3>4 DEF Marks, RunStarts
  <2> QED
    BY <2>2, <2>4, <2>5, <2>6
<1> QED
  BY <1>1, <1>2 DEF Marks

\* From a mark, the walk comes by all that follow.
LEMMA WalkMarks ==
  ASSUME LargeTypeOK, BlocksWhole, PlusInside, RunsKnown, NEW i \in Marks
  PROVE  Walk[i] = {j \in Marks : i <= j}
<1> DEFINE From(k) == {j \in Marks : k <= j}
           Wrong == {k \in Marks : Walk[k] # From(k)}
<1>0. Marks \in SUBSET (0 .. NPages) /\ NPages \in Nat
  <2>1. ASSUME NEW j \in Marks PROVE j \in 0 .. NPages
    <3>1. j \in Pages \/ j = NPages
      BY PagesAre DEF Marks, RunStarts
    <3> QED
      BY <3>1, PagesAre
  <2> QED
    BY <2>1, PagesAre
<1> SUFFICES ASSUME Wrong # {} PROVE FALSE
  OBVIOUS
<1>1. PICK k \in Wrong : \A j \in Wrong : j <= k
  <2>1. Wrong \in SUBSET (0 .. NPages)
    BY <1>0
  <2> HIDE DEF Wrong
  <2> QED
    BY <1>0, <2>1, Greatest
<1>2. k \in Marks /\ k \in 0 .. NPages /\ Walk[k] # From(k)
  BY <1>0
<1>3. CASE k = NPages
  <2>1. Walk[k] = {k}
    <3>1. ~ (k < NPages)
      BY <1>0, <1>3
    <3> HIDE DEF Wrong
    <3> QED
      BY <1>2, <3>1, WalkStep
  <2>2. From(k) = {k}
    <3>1. \A j \in Marks : k <= j <=> j = k
      BY <1>0, <1>3
    <3> QED
      BY <1>2, <3>1
  <2> QED
    BY <1>2, <2>1, <2>2
<1>4. CASE k # NPages
  <2>1. /\ End(k) \in Marks /\ End(k) \in k + 1 .. NPages
        /\ \A j \in Marks : k < j => End(k) <= j
    BY <1>2, <1>4, MarkNext
  <2>2. Walk[k] = {k} \cup Walk[End(k)]
    <3>1. k < NPages /\ k + bPageOffsets[k] \in k + 1 .. NPages
      BY <1>0, <1>2, <1>4, <2>1 DEF End
    <3> QED
      BY <1>2, <3>1, WalkStep DEF End
  <2>3. Walk[End(k)] = From(End(k))
    <3>1. ~ (End(k) <= k)
      BY <1>0, <1>2, <2>1
    <3>2. End(k) \notin Wrong
      BY <1>1, <3>1
    <3> QED
      BY <2>1, <3>2
  <2>4. From(k) = {k} \cup From(End(k))
    <3>1. \A j \in Marks : k <= j <=> j = k \/ End(k) <= j
      BY <1>0, <1>2, <2>1
    <3> QED
      BY <1>2, <3>1
  <2> HIDE DEF From, Wrong
  <2> QED
    BY <1>2, <2>2, <2>3, <2>4
<1> QED
  BY <1>3, <1>4

\* A free page is in a run that begins at or before it.
LEMMA StartBefore ==
  ASSUME NEW k \in FreePages
  PROVE  \E i \in RunStarts : i <= k
<1>1. PICK i, e \in FreePages : RunIn(FreePages, i, e) /\ i <= k /\ k <= e
  <2>1. NPages \in Nat /\ FreePages \in SUBSET (0 .. NPages)
    BY PagesAre
  <2> QED
    BY <2>1, RunAround
<1> QED
  BY <1>1 DEF RunIn, RunStarts

\* The search begins before all free pages, at a run or at the end.
LEMMA SearchStart ==
  ASSUME LargeInv, searchStart < NPages
  PROVE  /\ NewStart \in Marks
         /\ \A k \in FreePages : NewStart <= k
         /\ Runs = RunStarts
<1> DEFINE s == searchStart
           first == s - bPageOffsets[s]
           t == IF pagetable[s] = "B_PAGEPLUS" THEN first + bPageOffsets[first] ELSE s
<1>0. /\ LargeTypeOK /\ BlocksWhole /\ PlusInside /\ RunsKnown
      /\ NPages \in Nat /\ s \in Pages /\ s \in Nat
      /\ \A k \in FreePages : s <= k
  BY PagesAre DEF LargeInv, LargeTypeOK, Estimates
<1>1. t \in Marks /\ \A k \in FreePages : t <= k
  <2>1. CASE pagetable[s] = "B_PAGEPLUS"
    <3>1. PICK b \in Bases : s \in b + 1 .. b + bPageOffsets[b] - 1
      BY <1>0, <2>1 DEF PlusInside
    <3>2. b \in Nat /\ bPageOffsets[b] \in Nat /\ bPageOffsets[s] = s - b
      BY <1>0, <3>1, PagesAre DEF LargeTypeOK, BlocksWhole
    <3>3. first = b
      BY <1>0, <3>2
    <3>4. t = End(b)
      BY <2>1, <3>3 DEF End
    <3>5. t \in Marks
      BY <1>0, <3>4, BehindBlock
    <3>6. ASSUME NEW k \in FreePages PROVE t <= k
      <4>1. s <= k /\ k \in Nat /\ pagetable[k] = "B_FREE"
        BY <1>0, PagesAre DEF FreePages
      <4> SUFFICES ASSUME k < t PROVE FALSE
        BY <3>2, <3>4, <4>1 DEF End
      <4>2. k \in b + 1 .. b + bPageOffsets[b] - 1
        BY <1>0, <3>1, <3>2, <3>4, <4>1 DEF End
      <4> QED
        BY <1>0, <4>1, <4>2 DEF BlocksWhole
    <3> QED
      BY <3>5, <3>6
  <2>2. CASE pagetable[s] # "B_PAGEPLUS"
    <3>1. pagetable[s] \in PageKinds
      BY <1>0 DEF LargeTypeOK
    <3>2. s - 1 \notin FreePages
      BY <1>0
    <3>3. s \in Marks
      BY <1>0, <2>2, <3>1, <3>2 DEF Marks, RunStarts, PageKinds, FreePages, Bases
    <3> QED
      BY <1>0, <2>2, <3>3
  <2> QED
    BY <2>1, <2>2
<1>2. NewStart = Min(Walk[t] \ Bases)
  BY DEF NewStart, SkipBlocks
<1> HIDE DEF t, s, first
<1>3. Walk[t] = {j \in Marks : t <= j}
  BY <1>0, <1>1, WalkMarks
<1>4. Marks \in SUBSET Nat
  <2>1. ASSUME NEW j \in Marks PROVE j \in Nat
    BY PagesAre DEF Marks, RunStarts
  <2> QED
    BY <2>1
<1>5. ASSUME NEW j \in Marks PROVE j <= NPages
  BY PagesAre DEF Marks, RunStarts
<1>6. NewStart \in Walk[t] \ Bases /\ \A j \in Walk[t] \ Bases : NewStart <= j
  <2>1. NPages \in Walk[t] \ Bases
    BY <1>1, <1>3, <1>5, PagesAre DEF Marks
  <2>2. Walk[t] \ Bases \in SUBSET Nat
    BY <1>3, <1>4
  <2>3. \E x \in Walk[t] \ Bases : \A j \in Walk[t] \ Bases : x <= j
    BY <2>1, <2>2, Least
  <2> QED
    BY <1>2, <2>3 DEF Min
<1>7. ASSUME NEW i \in RunStarts PROVE NewStart <= i
  <2>1. i \in FreePages /\ i \in Marks /\ i \notin Bases
    BY DEF RunStarts, Marks, FreePages, Bases
  <2>2. i \in Walk[t]
    BY <1>1, <1>3, <2>1
  <2> QED
    BY <1>6, <2>1, <2>2
<1>8. NewStart \in Marks
  BY <1>3, <1>6
<1>9. ASSUME NEW k \in FreePages PROVE NewStart <= k
  <2>1. PICK i \in RunStarts : i <= k
    BY StartBefore
  <2>2. NewStart \in Nat /\ i \in Nat /\ k \in Nat
    BY <1>4, <1>8, PagesAre DEF RunStarts
  <2> QED
    BY <1>7, <2>1, <2>2
<1>10. Runs = RunStarts
  <2>1. Walk[NewStart] = {j \in Marks : NewStart <= j}
    BY <1>0, <1>8, WalkMarks
  <2>2. ASSUME NEW i \in RunStarts PROVE i \in Runs
    BY <1>7, <2>1 DEF Runs, Marks, RunStarts
  <2>3. ASSUME NEW i \in Runs PROVE i \in RunStarts
    <3>1. i \in Marks /\ i \in FreePages
      BY <2>1 DEF Runs
    <3> QED
      BY <3>1, PagesAre DEF Marks, FreePages, Bases
  <2> QED
    BY <2>2, <2>3
<1> QED
  BY <1>8, <1>9, <1>10

\* What the estimates know of a free run.
LEMMA RunEnds ==
  ASSUME LargeInv, NEW i \in RunStarts
  PROVE  \E e \in Pages :
           /\ RunIn(FreePages, i, e) /\ i \in Pages /\ i <= e
           /\ bPageOffsets[i] = e - i + 1 /\ End(i) = e + 1
           /\ bPageOffsets[i] <= largestFree
<1>1. PICK e \in Pages : RunIn(FreePages, i, e)
  BY RunFrom
<1>2. i \in Pages /\ i <= e /\ i \in Nat /\ e \in Nat
  BY <1>1, PagesAre DEF RunStarts, RunIn
<1>3. bPageOffsets[i] = e - i + 1
  BY <1>1, <1>2 DEF LargeInv, RunsKnown
<1>4. bPageOffsets[i] <= largestFree
  BY <1>1, <1>2, <1>3 DEF LargeInv, Estimates
<1>5. End(i) = e + 1
  BY <1>2, <1>3 DEF End
<1> QED
  BY <1>1, <1>2, <1>3, <1>4, <1>5

-----------------------------------------------------------------------------
(* Alignment *)

LEMMA Remainder ==
  ASSUME NEW a \in Nat \ {0}, NEW x \in Int
  PROVE  x % a \in 0 .. a - 1 /\ \E q \in Int : x = a * q + (x % a)
<1>1. x % a \in 0 .. a - 1
  OBVIOUS
<1>2. x = a * (x \div a) + (x % a) /\ x \div a \in Int
  OBVIOUS
<1> QED
  BY <1>1, <1>2

\* Aligned is the first page with the alignment.
LEMMA AlignedFirst ==
  ASSUME NEW align \in Nat \ {0}, NEW i \in Nat, BasePage \in Nat
  PROVE  /\ Aligned(i, align) \in Nat /\ i <= Aligned(i, align)
         /\ \A page \in Nat : i <= page /\ (BasePage + page) % align = 0 =>
                                Aligned(i, align) <= page
<1> DEFINE r == (- (BasePage + i)) % align
<1>0. - (BasePage + i) \in Int
  OBVIOUS
<1>1. PICK q \in Int : - (BasePage + i) = align * q + r
  BY <1>0, Remainder, Zenon
<1>2. r \in 0 .. align - 1
  BY <1>0, Remainder, Zenon
<1>3. Aligned(i, align) = i + r
  BY DEF Aligned
<1>4. ASSUME NEW page \in Nat, i <= page, (BasePage + page) % align = 0
      PROVE  r <= page - i
  <2>1. PICK p \in Int : BasePage + page = align * p
    <3>1. BasePage + page \in Int
      OBVIOUS
    <3>2. PICK p \in Int : BasePage + page = align * p + ((BasePage + page) % align)
      BY <3>1, Remainder, Zenon
    <3>3. align * p \in Int
      OBVIOUS
    <3>4. BasePage + page = align * p
      BY <1>4, <3>2, <3>3
    <3> QED
      BY <3>4
  <2> DEFINE d == p + q
  <2>2. d \in Int /\ align * d = align * p + align * q
    OBVIOUS
  <2>3. align * p \in Int /\ align * q \in Int /\ r \in Int
    BY <1>2
  <2> HIDE DEF r
  <2>4. page - i = align * d + r
    BY <1>1, <2>1, <2>2, <2>3
  <2> HIDE DEF d
  <2>5. align * d >= 0
    <3>1. d >= 0
      <4> SUFFICES ASSUME d <= -1 PROVE FALSE
        BY <2>2
      <4>1. align * d <= - align
        <5>1. align * (-1 - d) >= 0
          BY <2>2
        <5>2. align * (-1 - d) = - align - align * d
          BY <2>2
        <5> QED
          BY <5>1, <5>2, <2>2
      <4>2. align * d \in Int
        BY <2>2
      <4> QED
        BY <1>2, <1>4, <2>4, <4>1, <4>2
    <3> QED
      BY <2>2, <3>1
  <2>6. align * d \in Int
    BY <2>2
  <2> QED
    BY <1>2, <2>4, <2>5, <2>6
<1> HIDE DEF r
<1> QED
  BY <1>2, <1>3, <1>4

-----------------------------------------------------------------------------
(* What the invariant says *)

LEMMA InvOffsets ==
  LargeInv => OffsetsRight
<1> SUFFICES ASSUME LargeInv PROVE OffsetsRight
  OBVIOUS
<1>0. LargeTypeOK /\ BlocksWhole /\ PlusInside /\ RunsKnown
      /\ freepages = Cardinality(FreePages)
  BY DEF LargeInv
<1>1. 0 \in FreePages \cup Bases
  <2>1. 0 \in Pages
    BY PagesAre
  <2>2. pagetable[0] \in PageKinds
    BY <1>0, <2>1 DEF LargeTypeOK
  <2>3. ASSUME pagetable[0] = "B_PAGEPLUS" PROVE FALSE
    <3>1. PICK b \in Bases : 0 \in b + 1 .. b + bPageOffsets[b] - 1
      BY <1>0, <2>1, <2>3 DEF PlusInside
    <3> QED
      BY <3>1, PagesAre
  <2> QED
    BY <2>1, <2>2, <2>3 DEF PageKinds, FreePages, Bases
<1>2. ASSUME NEW i \in Bases, i + bPageOffsets[i] < NPages
      PROVE  pagetable[i + bPageOffsets[i]] # "B_PAGEPLUS"
  <2>1. End(i) \in Marks /\ End(i) # NPages
    BY <1>0, <1>2, BehindBlock, PagesAre DEF End
  <2> QED
    BY <2>1 DEF Marks, RunStarts, FreePages, Bases, End
<1>3. ASSUME NEW i \in FreePages, i - 1 \notin FreePages
      PROVE  /\ bPageOffsets[i] \in 1 .. NPages - i
             /\ \A j \in i .. i + bPageOffsets[i] - 1 : j \in FreePages
             /\ LET end == i + bPageOffsets[i] - 1 IN
                  /\ bPageOffsets[end] = bPageOffsets[i]
                  /\ end + 1 < NPages => pagetable[end + 1] = "B_PAGE"
  <2>1. PICK e \in Pages :
          /\ RunIn(FreePages, i, e) /\ i \in Pages /\ i <= e
          /\ bPageOffsets[i] = e - i + 1 /\ End(i) = e + 1
    BY <1>3, RunEnds DEF RunStarts
  <2>2. i \in Nat /\ e \in Nat /\ e < NPages /\ NPages \in Nat
    BY <2>1, PagesAre
  <2>3. i + bPageOffsets[i] - 1 = e
    BY <2>1, <2>2
  <2>4. bPageOffsets[e] = bPageOffsets[i]
    BY <1>0, <2>1 DEF RunsKnown
  <2>5. e + 1 \in Bases \cup {NPages}
    BY <1>0, <2>1, BehindRun
  <2>6. e + 1 < NPages => pagetable[e + 1] = "B_PAGE"
    BY <2>2, <2>5 DEF Bases
  <2>7. bPageOffsets[i] \in 1 .. NPages - i
    BY <2>1, <2>2
  <2>8. \A j \in i .. e : j \in FreePages
    BY <2>1 DEF RunIn
  <2> QED
    BY <2>3, <2>4, <2>6, <2>7, <2>8
<1> QED
  BY <1>0, <1>1, <1>2, <1>3 DEF OffsetsRight, BlocksWhole

LEMMA InvRoom ==
  LargeInv => RoomFound
<1> SUFFICES ASSUME LargeInv, NEW n \in Sizes, NEW align \in Aligns, NEW page \in Pages,
                    (BasePage + page) % align = 0, page .. page + n - 1 \subseteq FreePages
             PROVE  ~ Fails(n, align)
  BY DEF RoomFound
<1>1. n \in Nat /\ 1 <= n /\ n <= NPages /\ page \in Nat /\ NPages \in Nat
      /\ align \in Nat \ {0} /\ BasePage \in Nat
  BY PagesAre, NPagesAssumption, AlignsAssumption DEF Sizes
<1>2. page \in FreePages /\ page + n - 1 \in FreePages
  <2>1. page \in page .. page + n - 1 /\ page + n - 1 \in page .. page + n - 1
    BY <1>1
  <2> QED
    BY <2>1
<1>3. PICK i, e \in FreePages : RunIn(FreePages, i, e) /\ i <= page /\ page <= e
  <2>1. NPages \in Nat /\ FreePages \in SUBSET (0 .. NPages)
    BY PagesAre
  <2> QED
    BY <1>2, <2>1, RunAround
<1>4. i \in RunStarts /\ i \in Nat /\ e \in Nat /\ i \in Pages /\ e \in Pages
  BY <1>3, PagesAre DEF RunStarts, RunIn
<1>5. page + n - 1 <= e
  <2> SUFFICES ASSUME e < page + n - 1 PROVE FALSE
    BY <1>1, <1>4
  <2>1. e + 1 \in page .. page + n - 1
    BY <1>1, <1>3, <1>4
  <2> QED
    BY <1>3, <2>1 DEF RunIn
<1>6. bPageOffsets[i] = e - i + 1 /\ e - i + 1 <= largestFree
  BY <1>3, <1>4 DEF LargeInv, RunsKnown, Estimates
<1>7. searchStart <= page /\ searchStart \in Nat /\ largestFree \in Nat
  BY <1>2, PagesAre DEF LargeInv, Estimates, LargeTypeOK
<1>8. page + n - 1 < NPages
  BY <1>2, PagesAre
<1>9. ~ Hopeless(n)
  BY <1>1, <1>3, <1>4, <1>5, <1>6, <1>7, <1>8 DEF Hopeless
<1>10. i \in Runs
  <2>1. searchStart < NPages
    BY <1>1, <1>7, <1>8
  <2> QED
    BY <1>4, <2>1, SearchStart
<1>11. Aligned(i, align) <= page /\ Aligned(i, align) \in Nat
  BY <1>1, <1>3, <1>4, AlignedFirst
<1>12. Aligned(i, align) + n <= i + bPageOffsets[i]
  BY <1>1, <1>4, <1>5, <1>6, <1>11
<1> QED
  BY <1>9, <1>10, <1>12 DEF Fails, Fitting

\* Pages a to z of the free run from lo to hi become a block, or the last pages
\* of the block b before them.
LEMMA Carve ==
  ASSUME LargeTypeOK, BlocksWhole, PlusInside, RunsKnown,
         NEW lo \in Pages, NEW hi \in Pages, RunIn(FreePages, lo, hi),
         NEW a \in Pages, NEW z \in Pages, lo <= a, a <= z, z <= hi,
         NEW b \in Pages, b = a \/ (b \in Bases /\ End(b) = a /\ a = lo),
         pagetable'[b] = "B_PAGE",
         \A j \in b + 1 .. z : pagetable'[j] = "B_PAGEPLUS",
         \A j \in Pages : j \notin b .. z => pagetable'[j] = pagetable[j],
         bPageOffsets'[b] = z - b + 1,
         \A j \in b + 1 .. z : bPageOffsets'[j] = j - b,
         \A j \in Pages : j \notin b .. z /\ j \notin lo .. hi =>
                            bPageOffsets'[j] = bPageOffsets[j],
         lo < a => bPageOffsets'[lo] = a - lo /\ bPageOffsets'[a - 1] = a - lo,
         z < hi => bPageOffsets'[z + 1] = hi - z /\ bPageOffsets'[hi] = hi - z
  PROVE  /\ FreePages' = FreePages \ (a .. z)
         /\ Bases' = Bases \cup {b}
         /\ \A i \in Bases \ {b} : bPageOffsets'[i] = bPageOffsets[i]
         /\ BlocksWhole' /\ PlusInside' /\ RunsKnown'
         /\ \A i, e \in Pages : RunIn(FreePages', i, e) =>
              \E k, l \in Pages : RunIn(FreePages, k, l) /\ e - i <= l - k
<1>0. /\ NPages \in Nat /\ lo \in Nat /\ hi \in Nat /\ a \in Nat /\ z \in Nat /\ b \in Nat
      /\ hi < NPages /\ b <= a
      /\ lo .. hi \subseteq FreePages /\ lo - 1 \notin FreePages /\ hi + 1 \notin FreePages
  BY BehindBlock, PagesAre DEF RunIn
<1>1. b .. z \subseteq Pages
  BY <1>0, PagesAre
\* Before the step, pages from b to a are not free, nor the first of another block.
<1>2. \A j \in b .. a - 1 : j \notin FreePages /\ (j \in Bases => j = b)
  <2>1. CASE b = a
    BY <1>0, <2>1
  <2>2. CASE b \in Bases /\ End(b) = a
    <3>1. \A j \in b .. a - 1 : j = b \/ j \in b + 1 .. b + bPageOffsets[b] - 1
      <4>1. bPageOffsets[b] \in Nat
        BY DEF LargeTypeOK
      <4> QED
        BY <1>0, <2>2, <4>1 DEF End
    <3>2. \A j \in b + 1 .. b + bPageOffsets[b] - 1 : pagetable[j] = "B_PAGEPLUS"
      BY <2>2 DEF BlocksWhole
    <3> QED
      BY <2>2, <3>1, <3>2 DEF FreePages, Bases
  <2> QED
    BY <2>1, <2>2
<1>3. \A j \in b .. z : j \in b .. a - 1 \/ (j \in a .. z /\ j \in FreePages)
  BY <1>0
<1>4. FreePages' = FreePages \ (a .. z)
  <2>1. ASSUME NEW j \in Pages
        PROVE  pagetable'[j] = "B_FREE" <=> pagetable[j] = "B_FREE" /\ j \notin a .. z
    <3>1. CASE j \in b .. z
      <4>1. pagetable'[j] # "B_FREE"
        <5>1. j = b \/ j \in b + 1 .. z
          BY <1>0, <3>1
        <5> QED
          BY <5>1
      <4> QED
        BY <1>2, <1>3, <3>1, <4>1 DEF FreePages
    <3>2. CASE j \notin b .. z
      <4>1. j \notin a .. z
        BY <1>0, <3>2
      <4> QED
        BY <3>2, <4>1
    <3> QED
      BY <3>1, <3>2
  <2> QED
    BY <2>1 DEF FreePages
<1>5. Bases' = Bases \cup {b}
  <2>1. ASSUME NEW j \in Pages
        PROVE  pagetable'[j] = "B_PAGE" <=> pagetable[j] = "B_PAGE" \/ j = b
    <3>1. CASE j \in b .. z /\ j # b
      <4>1. j \in b + 1 .. z
        BY <1>0, <3>1
      <4>2. pagetable'[j] # "B_PAGE"
        BY <4>1
      <4>3. j \notin Bases
        BY <1>2, <1>3, <3>1 DEF FreePages, Bases
      <4> QED
        BY <3>1, <4>2, <4>3 DEF Bases
    <3>2. CASE j \notin b .. z
      <4>1. j # b
        BY <1>0, <3>2
      <4> QED
        BY <3>2, <4>1
    <3> QED
      BY <3>1, <3>2
  <2> QED
    BY <2>1 DEF Bases
<1>6. ASSUME NEW i \in Bases \ {b}, NEW j \in i .. i + bPageOffsets[i] - 1
      PROVE  j \in Pages /\ j \notin b .. z /\ j \notin lo .. hi
  <2>1. i \in Nat /\ bPageOffsets[i] \in 1 .. NPages - i /\ j \in Nat
    BY PagesAre DEF BlocksWhole
  <2>2. j = i \/ j \in i + 1 .. i + bPageOffsets[i] - 1
    BY <1>0, <2>1
  <2>3. pagetable[j] \in {"B_PAGE", "B_PAGEPLUS"}
    BY <2>2 DEF BlocksWhole, Bases
  <2>4. j \notin FreePages
    BY <2>3 DEF FreePages
  <2>5. ASSUME j \in b .. a - 1 PROVE FALSE
    <3>1. b \in Bases /\ End(b) = a
      BY <1>0, <2>5
    <3>2. i < b => End(i) <= b
      BY <3>1, BlocksApart
    <3>3. b < i => End(b) <= i
      BY <3>1, BlocksApart
    <3> QED
      BY <1>0, <2>1, <2>5, <3>1, <3>2, <3>3 DEF End
  <2>6. j \in Pages
    BY <1>0, <2>1, PagesAre
  <2> QED
    BY <1>0, <1>3, <2>4, <2>5, <2>6
<1>7. ASSUME NEW i \in Bases \ {b}
      PROVE  /\ bPageOffsets'[i] = bPageOffsets[i]
             /\ \A j \in i + 1 .. i + bPageOffsets[i] - 1 :
                  pagetable'[j] = "B_PAGEPLUS" /\ bPageOffsets'[j] = j - i
  <2>1. i \in Nat /\ bPageOffsets[i] \in 1 .. NPages - i
    BY PagesAre DEF BlocksWhole
  <2>2. i \in i .. i + bPageOffsets[i] - 1
    BY <1>0, <2>1
  <2>3. bPageOffsets'[i] = bPageOffsets[i]
    BY <1>6, <2>2
  <2>4. ASSUME NEW j \in i + 1 .. i + bPageOffsets[i] - 1
        PROVE  pagetable'[j] = "B_PAGEPLUS" /\ bPageOffsets'[j] = j - i
    <3>1. j \in i .. i + bPageOffsets[i] - 1
      BY <2>1
    <3>2. pagetable[j] = "B_PAGEPLUS" /\ bPageOffsets[j] = j - i
      BY DEF BlocksWhole
    <3> QED
      BY <1>6, <3>1, <3>2
  <2> QED
    BY <2>3, <2>4
<1>8. BlocksWhole'
  <2> SUFFICES ASSUME NEW i \in Bases'
               PROVE  /\ bPageOffsets'[i] \in 1 .. NPages - i
                      /\ \A j \in i + 1 .. i + bPageOffsets'[i] - 1 :
                           pagetable'[j] = "B_PAGEPLUS" /\ bPageOffsets'[j] = j - i
    BY DEF BlocksWhole
  <2>1. CASE i = b
    <3>1. z - b + 1 \in 1 .. NPages - b /\ b + (z - b + 1) - 1 = z
      BY <1>0
    <3> QED
      BY <2>1, <3>1
  <2>2. CASE i # b
    <3>1. i \in Bases \ {b}
      BY <1>5, <2>2
    <3>2. bPageOffsets[i] \in 1 .. NPages - i
      BY <3>1 DEF BlocksWhole
    <3> QED
      BY <1>7, <3>1, <3>2
  <2> QED
    BY <2>1, <2>2
<1>9. PlusInside'
  <2> SUFFICES ASSUME NEW j \in Pages, pagetable'[j] = "B_PAGEPLUS"
               PROVE  \E i \in Bases' : j \in i + 1 .. i + bPageOffsets'[i] - 1
    BY DEF PlusInside
  <2>1. CASE j \in b .. z
    <3>1. j \in b + 1 .. z
      BY <1>0, <2>1
    <3>2. b + bPageOffsets'[b] - 1 = z
      BY <1>0
    <3> QED
      BY <1>5, <3>1, <3>2
  <2>2. CASE j \notin b .. z
    <3>1. PICK i \in Bases : j \in i + 1 .. i + bPageOffsets[i] - 1
      BY <2>2 DEF PlusInside
    <3>2. i # b
      <4> SUFFICES ASSUME i = b PROVE FALSE
        OBVIOUS
      <4>1. b \in Bases /\ bPageOffsets[b] \in Nat
        BY DEF LargeTypeOK
      <4>2. b # a
        <5>1. a \in lo .. hi
          BY <1>0
        <5> QED
          BY <1>0, <4>1, <5>1 DEF FreePages, Bases
      <4> QED
        BY <1>0, <2>2, <3>1, <4>1, <4>2 DEF End
    <3> QED
      BY <1>5, <1>7, <3>1, <3>2
  <2> QED
    BY <2>1, <2>2
<1>10. ASSUME NEW i \in Pages, NEW e \in Pages, RunIn(FreePages', i, e)
       PROVE  /\ bPageOffsets'[i] = e - i + 1 /\ bPageOffsets'[e] = e - i + 1
              /\ \E k, l \in Pages : RunIn(FreePages, k, l) /\ e - i <= l - k
  <2>0. /\ i \in Nat /\ e \in Nat /\ i <= e
        /\ \A j \in i .. e : j \in FreePages /\ j \notin a .. z
        /\ i - 1 \in FreePages => i - 1 \in a .. z
        /\ e + 1 \in FreePages => e + 1 \in a .. z
    BY <1>4, <1>10, PagesAre DEF RunIn
  <2>1. \A j \in i .. e : j \notin b .. z
    BY <1>2, <1>3, <2>0
  <2>2. CASE e < lo \/ hi < i
    <3>1. i - 1 \notin FreePages
      <4> SUFFICES ASSUME i - 1 \in a .. z, hi < i PROVE FALSE
        BY <1>0, <2>0, <2>2
      <4>1. i = hi + 1 /\ i \in i .. e
        BY <1>0, <2>0
      <4> QED
        BY <1>0, <2>0, <4>1
    <3>2. e + 1 \notin FreePages
      <4> SUFFICES ASSUME e + 1 \in a .. z, e < lo PROVE FALSE
        BY <1>0, <2>0, <2>2
      <4>1. e = lo - 1 /\ e \in i .. e
        BY <1>0, <2>0
      <4> QED
        BY <1>0, <2>0, <4>1
    <3>3. RunIn(FreePages, i, e)
      BY <2>0, <3>1, <3>2 DEF RunIn
    <3>4. i \in i .. e /\ e \in i .. e /\ i \notin lo .. hi /\ e \notin lo .. hi
      BY <1>0, <2>0, <2>2
    <3>5. bPageOffsets'[i] = bPageOffsets[i] /\ bPageOffsets'[e] = bPageOffsets[e]
      BY <2>1, <3>4
    <3>6. bPageOffsets[i] = e - i + 1 /\ bPageOffsets[e] = e - i + 1
      BY <3>3 DEF RunsKnown
    <3> QED
      BY <3>3, <3>5, <3>6, <2>0
  <2>3. CASE lo <= e /\ i <= hi
    <3>1. lo <= i /\ e <= hi
      <4>1. ASSUME i < lo PROVE FALSE
        <5>1. lo - 1 \in i .. e
          BY <1>0, <2>0, <2>3, <4>1
        <5> QED
          BY <1>0, <2>0, <5>1
      <4>2. ASSUME hi < e PROVE FALSE
        <5>1. hi + 1 \in i .. e
          BY <1>0, <2>0, <2>3, <4>2
        <5> QED
          BY <1>0, <2>0, <5>1
      <4> QED
        BY <1>0, <2>0, <4>1, <4>2
    <3>2. CASE e < a
      <4>1. i = lo
        <5> SUFFICES ASSUME lo < i PROVE FALSE
          BY <1>0, <2>0, <3>1
        <5>1. i - 1 \in lo .. hi /\ i - 1 \notin a .. z
          BY <1>0, <2>0, <3>1, <3>2
        <5> QED
          BY <1>0, <2>0, <5>1
      <4>2. e = a - 1
        <5> SUFFICES ASSUME e < a - 1 PROVE FALSE
          BY <1>0, <2>0, <3>2
        <5>1. e + 1 \in lo .. hi /\ e + 1 \notin a .. z
          BY <1>0, <2>0, <3>1
        <5> QED
          BY <1>0, <2>0, <5>1
      <4>3. lo < a /\ a - lo = e - i + 1
        BY <1>0, <2>0, <4>1, <4>2
      <4>4. e - i <= hi - lo
        BY <1>0, <2>0, <3>1
      <4> QED
        BY <4>1, <4>2, <4>3, <4>4
    <3>3. CASE z < i
      <4>1. e = hi
        <5> SUFFICES ASSUME e < hi PROVE FALSE
          BY <1>0, <2>0, <3>1
        <5>1. e + 1 \in lo .. hi /\ e + 1 \notin a .. z
          BY <1>0, <2>0, <3>1, <3>3
        <5> QED
          BY <1>0, <2>0, <5>1
      <4>2. i = z + 1
        <5> SUFFICES ASSUME z + 1 < i PROVE FALSE
          BY <1>0, <2>0, <3>3
        <5>1. i - 1 \in lo .. hi /\ i - 1 \notin a .. z
          BY <1>0, <2>0, <3>1
        <5> QED
          BY <1>0, <2>0, <5>1
      <4>3. z < hi /\ hi - z = e - i + 1
        BY <1>0, <2>0, <4>1, <4>2
      <4>4. e - i <= hi - lo
        BY <1>0, <2>0, <3>1
      <4> QED
        BY <4>1, <4>2, <4>3, <4>4
    <3>4. ASSUME i <= z, a <= e PROVE FALSE
      <4>1. CASE i <= a
        BY <1>0, <2>0, <3>4, <4>1
      <4>2. CASE a < i
        BY <1>0, <2>0, <3>4, <4>2
      <4> QED
        BY <1>0, <2>0, <4>1, <4>2
    <3> QED
      BY <1>0, <2>0, <3>2, <3>3, <3>4
  <2> QED
    BY <1>0, <2>0, <2>2, <2>3
<1>11. RunsKnown'
  BY <1>10 DEF RunsKnown
<1> QED
  BY <1>4, <1>5, <1>7, <1>8, <1>9, <1>10, <1>11

\* No page is in two blocks.
LEMMA BlocksDisjoint ==
  ASSUME LargeTypeOK, BlocksWhole, NEW i \in Bases, NEW k \in Bases,
         NEW j \in i .. i + bPageOffsets[i] - 1, j \in k .. k + bPageOffsets[k] - 1
  PROVE  i = k
<1>1. i < k => End(i) <= k
  BY BlocksApart
<1>2. k < i => End(k) <= i
  BY BlocksApart
<1>3. i \in Nat /\ k \in Nat /\ bPageOffsets[i] \in Nat /\ bPageOffsets[k] \in Nat
  BY PagesAre DEF LargeTypeOK
<1> QED
  BY <1>1, <1>2, <1>3 DEF End

\* Nor is a page of a block free.
LEMMA BlocksNotFree ==
  ASSUME BlocksWhole, NEW i \in Bases, NEW j \in i .. i + bPageOffsets[i] - 1
  PROVE  j \in Pages /\ j \notin FreePages
<1>1. i \in Nat /\ i < NPages /\ NPages \in Nat /\ bPageOffsets[i] \in 1 .. NPages - i
  BY PagesAre DEF BlocksWhole
<1>2. j \in Pages
  BY <1>1, PagesAre
<1>3. j = i \/ j \in i + 1 .. i + bPageOffsets[i] - 1
  BY <1>1
<1>4. pagetable[j] \in {"B_PAGE", "B_PAGEPLUS"}
  BY <1>3 DEF BlocksWhole, Bases
<1> QED
  BY <1>2, <1>4 DEF FreePages

\* What is behind the first len[i] pages of each block i.
Tails(len) == UNION {i + len[i] .. i + bPageOffsets[i] - 1 : i \in Bases}

\* Blocks may lose their last pages, or all of them.
LEMMA Shortened ==
  ASSUME LargeTypeOK, BlocksWhole, PlusInside,
         NEW len \in [Bases -> Nat], \A i \in Bases : len[i] <= bPageOffsets[i],
         \A j \in Pages : pagetable'[j] = IF j \in Tails(len) THEN "B_FREE" ELSE pagetable[j],
         \A i \in Bases : len[i] > 0 => bPageOffsets'[i] = len[i],
         \A j \in Pages : pagetable[j] = "B_PAGEPLUS" /\ j \notin Tails(len) =>
                            bPageOffsets'[j] = bPageOffsets[j]
  PROVE  /\ FreePages' = FreePages \cup Tails(len)
         /\ Bases' = {i \in Bases : len[i] > 0}
         /\ BlocksWhole' /\ PlusInside'
<1> DEFINE G == Tails(len)
<1>0. ASSUME NEW i \in Bases
      PROVE  /\ i \in Nat /\ i < NPages /\ NPages \in Nat /\ i \in Pages
             /\ bPageOffsets[i] \in 1 .. NPages - i /\ len[i] \in 0 .. bPageOffsets[i]
  BY PagesAre DEF BlocksWhole
<1>1. ASSUME NEW j \in G
      PROVE  j \in Pages /\ \E i \in Bases : j \in i + len[i] .. i + bPageOffsets[i] - 1
  <2>1. PICK i \in Bases : j \in i + len[i] .. i + bPageOffsets[i] - 1
    BY DEF Tails
  <2>2. j \in Pages
    BY <1>0, <2>1, PagesAre
  <2> QED
    BY <2>1, <2>2
<1>3. ASSUME NEW i \in Bases, NEW j \in i .. i + bPageOffsets[i] - 1
      PROVE  j \in G <=> i + len[i] <= j
  <2>1. ASSUME j \in G PROVE i + len[i] <= j
    <3>1. PICK k \in Bases : j \in k + len[k] .. k + bPageOffsets[k] - 1
      BY <1>1, <2>1
    <3>2. j \in k .. k + bPageOffsets[k] - 1
      BY <1>0, <3>1
    <3>3. i = k
      BY <3>2, BlocksDisjoint
    <3> QED
      BY <3>1, <3>3, <1>0
  <2>2. ASSUME i + len[i] <= j PROVE j \in G
    <3>1. j \in i + len[i] .. i + bPageOffsets[i] - 1
      BY <1>0, <2>2
    <3> QED
      BY <3>1 DEF Tails
  <2> QED
    BY <2>1, <2>2
<1>4. FreePages' = FreePages \cup G
  BY <1>1 DEF FreePages
<1>5. Bases' = {i \in Bases : len[i] > 0}
  <2>1. ASSUME NEW i \in Bases PROVE i \in G <=> ~ (len[i] > 0)
    <3>1. i \in i .. i + bPageOffsets[i] - 1
      BY <1>0
    <3> QED
      BY <1>0, <1>3, <3>1
  <2> QED
    BY <2>1 DEF Bases
<1>6. BlocksWhole'
  <2> SUFFICES ASSUME NEW i \in Bases'
               PROVE  /\ bPageOffsets'[i] \in 1 .. NPages - i
                      /\ \A j \in i + 1 .. i + bPageOffsets'[i] - 1 :
                           pagetable'[j] = "B_PAGEPLUS" /\ bPageOffsets'[j] = j - i
    BY DEF BlocksWhole
  <2>1. i \in Bases /\ bPageOffsets'[i] = len[i] /\ len[i] > 0
    BY <1>5
  <2>2. bPageOffsets'[i] \in 1 .. NPages - i
    BY <1>0, <2>1
  <2>3. ASSUME NEW j \in i + 1 .. i + len[i] - 1
        PROVE  pagetable'[j] = "B_PAGEPLUS" /\ bPageOffsets'[j] = j - i
    <3>1. j \in i .. i + bPageOffsets[i] - 1 /\ j \in i + 1 .. i + bPageOffsets[i] - 1
          /\ j < i + len[i]
      BY <1>0, <2>1
    <3>2. j \in Pages
      BY <1>0, <2>1, <3>1, PagesAre
    <3>3. j \notin G
      BY <1>0, <1>3, <2>1, <3>1
    <3>4. pagetable[j] = "B_PAGEPLUS" /\ bPageOffsets[j] = j - i
      BY <2>1, <3>1 DEF BlocksWhole
    <3> QED
      BY <3>2, <3>3, <3>4
  <2> QED
    BY <2>1, <2>2, <2>3
<1>7. PlusInside'
  <2> SUFFICES ASSUME NEW j \in Pages, pagetable'[j] = "B_PAGEPLUS"
               PROVE  \E i \in Bases' : j \in i + 1 .. i + bPageOffsets'[i] - 1
    BY DEF PlusInside
  <2>1. pagetable[j] = "B_PAGEPLUS" /\ j \notin G
    OBVIOUS
  <2>2. PICK i \in Bases : j \in i + 1 .. i + bPageOffsets[i] - 1
    BY <2>1 DEF PlusInside
  <2>3. j \in i .. i + bPageOffsets[i] - 1
    BY <1>0, <2>2
  <2>4. j < i + len[i]
    BY <1>0, <1>3, <2>1, <2>3
  <2>5. len[i] > 0 /\ j \in i + 1 .. i + len[i] - 1
    BY <1>0, <2>2, <2>4
  <2> QED
    BY <1>5, <2>5
<1> QED
  BY <1>4, <1>5, <1>6, <1>7

\* Pages a to z, freed, and what was free before and behind them.
LEMMA Joined ==
  ASSUME NPages \in Nat, RunsKnown,
         NEW lo \in Pages, NEW hi \in Pages, NEW a \in Pages, NEW z \in Pages,
         lo <= a, a <= z, z <= hi,
         FreePages' = FreePages \cup (a .. z), RunIn(FreePages', lo, hi),
         bPageOffsets'[lo] = hi - lo + 1, bPageOffsets'[hi] = hi - lo + 1,
         \A j \in FreePages \ {lo, hi} : bPageOffsets'[j] = bPageOffsets[j]
  PROVE  RunsKnown'
<1> SUFFICES ASSUME NEW i \in Pages, NEW e \in Pages, RunIn(FreePages', i, e)
             PROVE  bPageOffsets'[i] = e - i + 1 /\ bPageOffsets'[e] = e - i + 1
  BY DEF RunsKnown
<1>0. /\ lo \in Nat /\ hi \in Nat /\ a \in Nat /\ z \in Nat /\ i \in Nat /\ e \in Nat
      /\ i <= e /\ i .. e \subseteq FreePages'
      /\ i - 1 \notin FreePages' /\ e + 1 \notin FreePages'
      /\ lo .. hi \subseteq FreePages'
      /\ lo - 1 \notin FreePages' /\ hi + 1 \notin FreePages'
  BY PagesAre DEF RunIn
<1>1. CASE e < lo \/ hi < i
  <2>1. \A j \in i .. e : j \notin a .. z /\ j \notin lo .. hi
    BY <1>0, <1>1
  <2>2. i .. e \subseteq FreePages /\ i - 1 \notin FreePages /\ e + 1 \notin FreePages
    BY <1>0, <2>1
  <2>3. i \in i .. e /\ e \in i .. e /\ lo \in lo .. hi /\ hi \in lo .. hi
    BY <1>0
  <2>4. bPageOffsets[i] = e - i + 1 /\ bPageOffsets[e] = e - i + 1
    BY <1>0, <2>2 DEF RunsKnown, RunIn
  <2> QED
    BY <2>1, <2>2, <2>3, <2>4
<1>2. CASE lo <= e /\ i <= hi
  <2>1. i = lo
    <3>1. ASSUME i < lo PROVE FALSE
      <4>1. lo - 1 \in i .. e
        BY <1>0, <1>2, <3>1
      <4> QED
        BY <1>0, <4>1
    <3>2. ASSUME lo < i PROVE FALSE
      <4>1. i - 1 \in lo .. hi
        BY <1>0, <1>2, <3>2
      <4> QED
        BY <1>0, <4>1
    <3> QED
      BY <1>0, <3>1, <3>2
  <2>2. e = hi
    <3>1. ASSUME hi < e PROVE FALSE
      <4>1. hi + 1 \in i .. e
        BY <1>0, <1>2, <3>1
      <4> QED
        BY <1>0, <4>1
    <3>2. ASSUME e < hi PROVE FALSE
      <4>1. e + 1 \in lo .. hi
        BY <1>0, <1>2, <3>2
      <4> QED
        BY <1>0, <4>1
    <3> QED
      BY <1>0, <3>1, <3>2
  <2> QED
    BY <2>1, <2>2
<1> QED
  BY <1>0, <1>1, <1>2

\* mergeFreePageOffsets finds the run that the pages a to z become part of.
LEMMA MergeFinds ==
  ASSUME LargeTypeOK, RunsKnown, NEW bwd \in BOOLEAN,
         NEW a \in Pages, NEW z \in Pages, a <= z,
         \A j \in a .. z : j \notin FreePages, bwd \/ a - 1 \notin FreePages
  PROVE  \E lo, hi \in Pages :
           /\ lo <= a /\ z <= hi /\ RunIn(FreePages \cup (a .. z), lo, hi)
           /\ MergeFree(bPageOffsets, bwd, a, z - a + 1) =
                SetFree(bPageOffsets, lo, hi - lo + 1)
           /\ lo + (hi - lo + 1) - 1 = hi
<1> DEFINE last == a + (z - a + 1)
           before == IF bwd /\ a > 0 /\ pagetable[a - 1] = "B_FREE"
                       THEN bPageOffsets[a - 1] ELSE 0
           after == IF last < NPages /\ pagetable[last] = "B_FREE"
                      THEN bPageOffsets[last] ELSE 0
           F == FreePages \cup (a .. z)
<1>0. /\ NPages \in Nat /\ a \in Nat /\ z \in Nat /\ z < NPages /\ last = z + 1
      /\ FreePages \in SUBSET (0 .. NPages) /\ F \in SUBSET (0 .. NPages)
      /\ a \in a .. z /\ z \in a .. z
  BY PagesAre
<1>1. PICK lo \in Pages : lo <= a /\ before = a - lo /\ lo .. a - 1 \subseteq FreePages
                          /\ lo - 1 \notin FreePages
  <2>1. CASE a - 1 \in FreePages
    <3>1. PICK i, e \in FreePages : RunIn(FreePages, i, e) /\ i <= a - 1 /\ a - 1 <= e
      BY <1>0, <2>1, RunAround
    <3>2. i \in Nat /\ e \in Nat /\ i \in Pages /\ e \in Pages
      BY <3>1, PagesAre
    <3>3. e = a - 1
      <4> SUFFICES ASSUME a <= e PROVE FALSE
        BY <1>0, <3>1, <3>2
      <4>1. a \in i .. e
        BY <1>0, <3>1, <3>2
      <4> QED
        BY <1>0, <3>1, <4>1 DEF RunIn
    <3>4. a > 0 /\ pagetable[a - 1] = "B_FREE" /\ bwd
      BY <1>0, <2>1, PagesAre DEF FreePages
    <3>5. before = a - i
      <4>1. bPageOffsets[a - 1] = (a - 1) - i + 1
        BY <3>1, <3>2, <3>3 DEF RunsKnown
      <4> QED
        BY <1>0, <3>2, <3>4, <4>1
    <3>6. i .. a - 1 \subseteq FreePages /\ i - 1 \notin FreePages /\ i <= a
      BY <1>0, <3>1, <3>2, <3>3 DEF RunIn
    <3> QED
      BY <3>2, <3>5, <3>6
  <2>2. CASE a - 1 \notin FreePages
    <3>1. ~ (a > 0 /\ pagetable[a - 1] = "B_FREE")
      BY <1>0, <2>2, PagesAre DEF FreePages
    <3>2. before = a - a
      BY <1>0, <3>1
    <3>3. a .. a - 1 \subseteq FreePages
      BY <1>0
    <3> QED
      BY <1>0, <2>2, <3>2, <3>3
  <2> QED
    BY <2>1, <2>2
<1>2. PICK hi \in Pages : z <= hi /\ after = hi - z /\ z + 1 .. hi \subseteq FreePages
                          /\ hi + 1 \notin FreePages
  <2>1. CASE z + 1 \in FreePages
    <3>1. PICK i, e \in FreePages : RunIn(FreePages, i, e) /\ i <= z + 1 /\ z + 1 <= e
      BY <1>0, <2>1, RunAround
    <3>2. i \in Nat /\ e \in Nat /\ i \in Pages /\ e \in Pages
      BY <3>1, PagesAre
    <3>3. i = z + 1
      <4> SUFFICES ASSUME i <= z PROVE FALSE
        BY <1>0, <3>1, <3>2
      <4>1. z \in i .. e
        BY <1>0, <3>1, <3>2
      <4> QED
        BY <1>0, <3>1, <4>1 DEF RunIn
    <3>4. last < NPages /\ pagetable[last] = "B_FREE"
      BY <1>0, <2>1, PagesAre DEF FreePages
    <3>5. after = e - z
      <4>1. bPageOffsets[z + 1] = e - (z + 1) + 1
        BY <3>1, <3>2, <3>3 DEF RunsKnown
      <4> QED
        BY <1>0, <3>2, <3>4, <4>1
    <3>6. z + 1 .. e \subseteq FreePages /\ e + 1 \notin FreePages /\ z <= e
      BY <1>0, <3>1, <3>2, <3>3 DEF RunIn
    <3> QED
      BY <3>2, <3>5, <3>6
  <2>2. CASE z + 1 \notin FreePages
    <3>1. ~ (last < NPages /\ pagetable[last] = "B_FREE")
      BY <1>0, <2>2, PagesAre DEF FreePages
    <3>2. after = z - z
      BY <1>0, <3>1
    <3>3. z + 1 .. z \subseteq FreePages
      BY <1>0
    <3> QED
      BY <1>0, <2>2, <3>2, <3>3
  <2> QED
    BY <2>1, <2>2
<1>3. MergeFree(bPageOffsets, bwd, a, z - a + 1) =
        SetFree(bPageOffsets, a - before, before + (z - a + 1) + after)
  BY DEF MergeFree
<1> HIDE DEF before, after, last
<1>4. lo \in Nat /\ hi \in Nat
  BY PagesAre
<1>5. a - before = lo /\ before + (z - a + 1) + after = hi - lo + 1
      /\ lo + (hi - lo + 1) - 1 = hi
  BY <1>0, <1>1, <1>2, <1>4
<1>6. RunIn(F, lo, hi)
  <2>1. \A j \in lo .. hi : j \in lo .. a - 1 \/ j \in a .. z \/ j \in z + 1 .. hi
    BY <1>0, <1>4
  <2>2. lo .. hi \subseteq F
    BY <1>1, <1>2, <2>1
  <2>3. lo - 1 \notin a .. z /\ hi + 1 \notin a .. z /\ lo <= hi
    BY <1>0, <1>1, <1>2, <1>4
  <2> QED
    BY <1>1, <1>2, <2>2, <2>3 DEF RunIn
<1> QED
  BY <1>1, <1>2, <1>3, <1>5, <1>6

LEMMA SetFreeIs ==
  ASSUME NEW offsets \in [Pages -> Nat], NEW page \in Int, NEW num \in Nat
  PROVE  /\ SetFree(offsets, page, num) \in [Pages -> Nat]
         /\ SetFreeIfAny(offsets, page, num) \in [Pages -> Nat]
         /\ \A j \in Pages :
              /\ j \in {page, page + num - 1} => SetFree(offsets, page, num)[j] = num
              /\ j \notin {page, page + num - 1} =>
                   SetFree(offsets, page, num)[j] = offsets[j]
<1>1. SetFree(offsets, page, num) = [[offsets EXCEPT ![page] = num] EXCEPT ![page + num - 1] = num]
  BY DEF SetFree
<1>2. SetFree(offsets, page, num) \in [Pages -> Nat]
  BY <1>1
<1>3. SetFreeIfAny(offsets, page, num) \in [Pages -> Nat]
  BY <1>2 DEF SetFreeIfAny
<1> QED
  BY <1>1, <1>2, <1>3

LEMMA SetBlockIs ==
  ASSUME LargeTypeOK, NEW offsets \in [Pages -> Nat],
         NEW b \in Pages, NEW z \in Pages, b <= z, NEW n, n = z - b + 1
  PROVE  /\ SetBlock(offsets, b, n) \in [Pages -> Nat]
         /\ SetBlock(offsets, b, n)[b] = n
         /\ \A j \in b + 1 .. z : SetBlock(offsets, b, n)[j] = j - b
         /\ \A j \in Pages : j \notin b .. z => SetBlock(offsets, b, n)[j] = offsets[j]
         /\ SetBlockPages(b, n) \in [Pages -> PageKinds]
         /\ SetBlockPages(b, n)[b] = "B_PAGE"
         /\ \A j \in b + 1 .. z : SetBlockPages(b, n)[j] = "B_PAGEPLUS"
         /\ \A j \in Pages : j \notin b .. z => SetBlockPages(b, n)[j] = pagetable[j]
<1>1. b \in Nat /\ z \in Nat /\ b + n - 1 = z /\ NPages \in Nat /\ n \in Nat
  BY PagesAre
<1>2. \A j \in b + 1 .. z : j \in Pages /\ j # b /\ j \in b .. z /\ j - b \in Nat
  BY <1>1, PagesAre
<1>3. b \in b .. z
  BY <1>1
<1>4. \A j \in b .. z : j - b \in Nat
  BY <1>1
<1>5. \A j \in Pages : offsets[j] \in Nat /\ pagetable[j] \in PageKinds
  BY DEF LargeTypeOK
<1> DEFINE off(j) == IF j = b THEN n ELSE IF j \in b .. z THEN j - b ELSE offsets[j]
           kind(j) == IF j = b THEN "B_PAGE"
                      ELSE IF j \in b .. z THEN "B_PAGEPLUS" ELSE pagetable[j]
<1>6. SetBlock(offsets, b, n) = [j \in Pages |-> off(j)]
  BY <1>1 DEF SetBlock
<1>7. SetBlockPages(b, n) = [j \in Pages |-> kind(j)]
  BY <1>1 DEF SetBlockPages
<1>8. \A j \in Pages : off(j) \in Nat /\ kind(j) \in PageKinds
  BY <1>1, <1>4, <1>5 DEF PageKinds
<1>9. off(b) = n /\ kind(b) = "B_PAGE"
  OBVIOUS
<1>10. \A j \in b + 1 .. z : j \in Pages /\ off(j) = j - b /\ kind(j) = "B_PAGEPLUS"
  BY <1>2
<1>11. \A j \in Pages : j \notin b .. z => off(j) = offsets[j] /\ kind(j) = pagetable[j]
  BY <1>3
<1> HIDE DEF off, kind
<1> QED
  BY <1>6, <1>7, <1>8, <1>9, <1>10, <1>11

\* The numbers of free pages before and after a step.
LEMMA FreeFinite ==
  /\ IsFiniteSet(FreePages) /\ Cardinality(FreePages) \in Nat
  /\ IsFiniteSet(Pages)
<1>1. IsFiniteSet(Pages)
  BY PagesAre, FS_Interval DEF Pages
<1>2. IsFiniteSet(FreePages)
  BY <1>1, FS_Subset DEF FreePages
<1> QED
  BY <1>1, <1>2, FS_CardinalityType

LEMMA PagesCounted ==
  ASSUME NEW F, IsFiniteSet(F), NEW a \in Nat, NEW z \in Nat, a <= z
  PROVE  /\ a .. z \subseteq F => Cardinality(F \ (a .. z)) = Cardinality(F) - (z - a + 1)
         /\ (\A j \in a .. z : j \notin F) =>
              Cardinality(F \cup (a .. z)) = Cardinality(F) + (z - a + 1)
         /\ a .. z \subseteq F => z - a + 1 <= Cardinality(F)
<1>1. IsFiniteSet(a .. z) /\ Cardinality(a .. z) = z - a + 1
  BY FS_Interval
<1>2. Cardinality(F) \in Nat
  BY FS_CardinalityType
<1>3. ASSUME a .. z \subseteq F
      PROVE  Cardinality(F \ (a .. z)) = Cardinality(F) - (z - a + 1)
  <2>1. F \cap (a .. z) = a .. z
    BY <1>3
  <2>2. Cardinality(F \ (a .. z)) = Cardinality(F) - Cardinality(F \cap (a .. z))
    BY FS_Difference
  <2> QED
    BY <1>1, <2>1, <2>2
<1>4. ASSUME \A j \in a .. z : j \notin F
      PROVE  Cardinality(F \cup (a .. z)) = Cardinality(F) + (z - a + 1)
  <2>1. F \cap (a .. z) = {}
    BY <1>4
  <2>2. Cardinality(F \cap (a .. z)) = 0
    BY <2>1, FS_EmptySet
  <2>3. Cardinality(F \cup (a .. z)) =
          Cardinality(F) + Cardinality(a .. z) - Cardinality(F \cap (a .. z))
    BY <1>1, FS_Union
  <2> QED
    BY <1>1, <1>2, <2>2, <2>3
<1>5. ASSUME a .. z \subseteq F PROVE z - a + 1 <= Cardinality(F)
  BY <1>1, <1>5, FS_Subset
<1> QED
  BY <1>3, <1>4, <1>5

\* No free run is longer than all that is free.
LEMMA RunsCounted ==
  ASSUME IsFiniteSet(FreePages), NEW i \in Pages, NEW e \in Pages, RunIn(FreePages, i, e)
  PROVE  e - i + 1 <= Cardinality(FreePages)
<1>1. i \in Nat /\ e \in Nat /\ i <= e /\ i .. e \subseteq FreePages
  BY PagesAre DEF RunIn
<1> QED
  BY <1>1, PagesCounted

LEMMA InitKeeps ==
  LargeInit => LargeInv
<1> SUFFICES ASSUME LargeInit PROVE LargeInv
  OBVIOUS
<1>0. NPages \in Nat /\ NPages > 0 /\ Pages = 0 .. NPages - 1
  BY PagesAre DEF Pages
<1>1. FreePages = Pages /\ Bases = {}
  BY DEF LargeInit, FreePages, Bases
<1>2. LargeTypeOK
  <2>1. pagetable \in [Pages -> PageKinds]
    BY DEF LargeInit, PageKinds
  <2>2. bPageOffsets \in [Pages -> Nat]
    BY <1>0 DEF LargeInit
  <2> QED
    BY <1>0, <2>1, <2>2 DEF LargeInit, LargeTypeOK
<1>3. BlocksWhole /\ PlusInside
  <2>1. \A j \in Pages : pagetable[j] = "B_FREE"
    BY DEF LargeInit
  <2> QED
    BY <1>1, <2>1 DEF BlocksWhole, PlusInside
<1>4. ASSUME NEW i \in Pages, NEW e \in Pages, RunIn(FreePages, i, e)
      PROVE  i = 0 /\ e = NPages - 1
  <2>1. i - 1 \notin Pages /\ e + 1 \notin Pages /\ i \in 0 .. NPages - 1 /\ e \in 0 .. NPages - 1
    BY <1>0, <1>1, <1>4 DEF RunIn
  <2> QED
    BY <1>0, <2>1
<1>5. RunsKnown
  <2>1. bPageOffsets[0] = NPages /\ bPageOffsets[NPages - 1] = NPages
    <3>1. 0 \in Pages /\ NPages - 1 \in Pages
      BY <1>0
    <3> QED
      BY <3>1 DEF LargeInit
  <2> QED
    BY <1>0, <1>4, <2>1 DEF RunsKnown
<1>6. Estimates
  <2>1. searchStart = 0 /\ largestFree = NPages
    BY DEF LargeInit
  <2>2. \A i \in FreePages : searchStart <= i
    BY <1>0, <1>1, <2>1
  <2>3. ASSUME NEW i \in Pages, NEW e \in Pages, RunIn(FreePages, i, e)
        PROVE  e - i + 1 <= largestFree
    BY <1>0, <1>4, <2>1, <2>3
  <2> QED
    BY <2>2, <2>3 DEF Estimates
<1>7. freepages = Cardinality(FreePages)
  BY <1>0, <1>1, FS_Interval DEF LargeInit
<1> QED
  BY <1>2, <1>3, <1>5, <1>6, <1>7 DEF LargeInv

\* Carve, with the estimates and the count.
LEMMA Carved ==
  ASSUME LargeInv,
         NEW lo \in Pages, NEW hi \in Pages, RunIn(FreePages, lo, hi),
         NEW a \in Pages, NEW z \in Pages, lo <= a, a <= z, z <= hi,
         NEW b \in Pages, b = a \/ (b \in Bases /\ End(b) = a /\ a = lo),
         NEW offsets \in [Pages -> Nat],
         \A j \in Pages : j \notin lo .. hi => offsets[j] = bPageOffsets[j],
         lo < a => offsets[lo] = a - lo /\ offsets[a - 1] = a - lo,
         z < hi => offsets[z + 1] = hi - z /\ offsets[hi] = hi - z,
         pagetable' = SetBlockPages(b, z - b + 1),
         bPageOffsets' = SetBlock(offsets, b, z - b + 1),
         freepages' = freepages - (z - a + 1),
         searchStart' \in 0 .. NPages, \A k \in FreePages : searchStart' <= k,
         largestFree' = largestFree
  PROVE  /\ LargeInv'
         /\ Bases' = Bases \cup {b} /\ bPageOffsets'[b] = z - b + 1
         /\ \A i \in Bases \ {b} : bPageOffsets'[i] = bPageOffsets[i]
<1>0. /\ NPages \in Nat /\ lo \in Nat /\ hi \in Nat /\ a \in Nat /\ z \in Nat /\ b \in Nat
      /\ hi < NPages
  BY PagesAre
<1>1. LargeTypeOK /\ BlocksWhole /\ PlusInside /\ RunsKnown /\ Estimates
      /\ freepages = Cardinality(FreePages)
  BY DEF LargeInv
<1>2. b <= a /\ b <= z
  BY <1>0, <1>1, BehindBlock
<1>3. /\ bPageOffsets' \in [Pages -> Nat] /\ bPageOffsets'[b] = z - b + 1
      /\ \A j \in b + 1 .. z : bPageOffsets'[j] = j - b
      /\ \A j \in Pages : j \notin b .. z => bPageOffsets'[j] = offsets[j]
      /\ pagetable' \in [Pages -> PageKinds] /\ pagetable'[b] = "B_PAGE"
      /\ \A j \in b + 1 .. z : pagetable'[j] = "B_PAGEPLUS"
      /\ \A j \in Pages : j \notin b .. z => pagetable'[j] = pagetable[j]
  BY <1>1, <1>2, SetBlockIs
<1>4. \A j \in Pages : j \notin b .. z /\ j \notin lo .. hi => bPageOffsets'[j] = bPageOffsets[j]
  BY <1>3
<1>5. lo < a => bPageOffsets'[lo] = a - lo /\ bPageOffsets'[a - 1] = a - lo
  <2> SUFFICES ASSUME lo < a PROVE bPageOffsets'[lo] = a - lo /\ bPageOffsets'[a - 1] = a - lo
    OBVIOUS
  <2>1. b = a
    BY <1>0
  <2>2. lo \notin b .. z /\ a - 1 \notin b .. z /\ a - 1 \in Pages
    BY <1>0, <2>1, PagesAre
  <2> QED
    BY <1>3, <2>2
<1>6. z < hi => bPageOffsets'[z + 1] = hi - z /\ bPageOffsets'[hi] = hi - z
  <2> SUFFICES ASSUME z < hi PROVE bPageOffsets'[z + 1] = hi - z /\ bPageOffsets'[hi] = hi - z
    OBVIOUS
  <2>1. z + 1 \notin b .. z /\ hi \notin b .. z /\ z + 1 \in Pages
    BY <1>0, PagesAre
  <2> QED
    BY <1>3, <2>1
<1>7. /\ FreePages' = FreePages \ (a .. z)
      /\ Bases' = Bases \cup {b}
      /\ \A i \in Bases \ {b} : bPageOffsets'[i] = bPageOffsets[i]
      /\ BlocksWhole' /\ PlusInside' /\ RunsKnown'
      /\ \A i, e \in Pages : RunIn(FreePages', i, e) =>
           \E k, l \in Pages : RunIn(FreePages, k, l) /\ e - i <= l - k
  BY <1>1, <1>3, <1>4, <1>5, <1>6, Carve
<1>8. freepages' = Cardinality(FreePages') /\ freepages' \in Nat
  <2>1. a .. z \subseteq FreePages
    <3>1. a .. z \subseteq lo .. hi
      BY <1>0
    <3> QED
      BY <3>1 DEF RunIn
  <2>2. Cardinality(FreePages \ (a .. z)) = Cardinality(FreePages) - (z - a + 1)
        /\ z - a + 1 <= Cardinality(FreePages)
    BY <1>0, <2>1, FreeFinite, PagesCounted
  <2> QED
    BY <1>0, <1>1, <1>7, <2>2, FreeFinite
<1>9. LargeTypeOK'
  BY <1>1, <1>3, <1>8 DEF LargeTypeOK
<1>10. Estimates'
  <2>1. \A k \in FreePages' : searchStart' <= k
    BY <1>7
  <2>2. ASSUME NEW i \in Pages, NEW e \in Pages, RunIn(FreePages', i, e)
        PROVE  e - i + 1 <= largestFree'
    <3>1. PICK k, l \in Pages : RunIn(FreePages, k, l) /\ e - i <= l - k
      BY <1>7, <2>2
    <3>2. l - k + 1 <= largestFree /\ largestFree \in Nat
      BY <1>1, <3>1 DEF Estimates, LargeTypeOK
    <3>3. i \in Nat /\ e \in Nat /\ k \in Nat /\ l \in Nat
      BY PagesAre
    <3> QED
      BY <3>1, <3>2, <3>3
  <2> QED
    BY <2>1, <2>2 DEF Estimates
<1> QED
  BY <1>3, <1>7, <1>8, <1>9, <1>10 DEF LargeInv

\* Bounds of the search, once allocPages looks for room.
LEMMA Searching ==
  ASSUME LargeInv, NEW n \in Sizes, ~ Hopeless(n)
  PROVE  /\ n \in Nat /\ 1 <= n
         /\ NewStart \in 0 .. NPages /\ Runs = RunStarts
         /\ \A k \in FreePages : NewStart <= k
<1>1. n \in Nat /\ 1 <= n /\ NPages \in Nat
  BY PagesAre DEF Sizes
<1>2. searchStart \in Nat /\ searchStart < NPages
  BY <1>1 DEF Hopeless, LargeInv, LargeTypeOK
<1>3. NewStart \in Marks /\ (\A k \in FreePages : NewStart <= k) /\ Runs = RunStarts
  BY <1>2, SearchStart
<1>4. NewStart \in 0 .. NPages
  BY <1>1, <1>3, PagesAre DEF Marks, RunStarts
<1> QED
  BY <1>1, <1>3, <1>4

LEMMA TakeKeeps ==
  ASSUME LargeInv, NEW n \in Sizes, NEW align \in Aligns, Take(n, align)
  PROVE  /\ LargeInv'
         /\ \E page \in Pages :
              /\ page \notin Bases /\ Bases' = Bases \cup {page} /\ bPageOffsets'[page] = n
              /\ \A i \in Bases \ {page} : bPageOffsets'[i] = bPageOffsets[i]
<1> DEFINE lo == Min(Fitting(n, align))
           page == Aligned(lo, align)
           z == page + n - 1
           behind == SetFreeIfAny(bPageOffsets, page + n, lo + bPageOffsets[lo] - (page + n))
           around == SetFreeIfAny(behind, lo, page - lo)
<1>1. /\ ~ Hopeless(n) /\ Fitting(n, align) # {}
      /\ pagetable' = SetBlockPages(page, n) /\ bPageOffsets' = SetBlock(around, page, n)
      /\ searchStart' = NewStart /\ freepages' = freepages - n /\ largestFree' = largestFree
  BY DEF Take
<1>2. /\ n \in Nat /\ 1 <= n
      /\ NewStart \in 0 .. NPages /\ Runs = RunStarts
      /\ \A k \in FreePages : NewStart <= k
  BY <1>1, Searching
<1>3. lo \in Fitting(n, align)
  <2>1. Fitting(n, align) \in SUBSET Nat
    BY <1>2, PagesAre DEF Fitting, RunStarts
  <2>2. \E x \in Fitting(n, align) : \A y \in Fitting(n, align) : x <= y
    BY <1>1, <2>1, Least
  <2> QED
    BY <2>2 DEF Min
<1> HIDE DEF lo
<1>4. lo \in RunStarts /\ page + n <= lo + bPageOffsets[lo]
  BY <1>2, <1>3 DEF Fitting
<1>5. PICK hi \in Pages :
        /\ RunIn(FreePages, lo, hi) /\ lo \in Pages /\ lo <= hi
        /\ bPageOffsets[lo] = hi - lo + 1 /\ End(lo) = hi + 1
  BY <1>4, RunEnds
<1>6. lo \in Nat /\ hi \in Nat /\ hi < NPages /\ NPages \in Nat
  BY <1>5, PagesAre
<1>7. page \in Nat /\ lo <= page
  <2>1. align \in Nat \ {0} /\ BasePage \in Nat
    BY NPagesAssumption, AlignsAssumption
  <2> QED
    BY <1>6, <2>1, AlignedFirst
<1> HIDE DEF page
<1>8. /\ z \in Nat /\ page <= z /\ z <= hi /\ n = z - page + 1 /\ page + n = z + 1
      /\ lo + bPageOffsets[lo] - (page + n) = hi - z
  BY <1>2, <1>4, <1>5, <1>6, <1>7
<1>9. page \in Pages /\ z \in Pages
  BY <1>6, <1>7, <1>8, PagesAre
<1> HIDE DEF z
<1>10. bPageOffsets \in [Pages -> Nat]
  BY DEF LargeInv, LargeTypeOK
<1>11. /\ behind \in [Pages -> Nat]
       /\ z < hi => behind[z + 1] = hi - z /\ behind[hi] = hi - z
       /\ \A j \in Pages : j \notin lo .. hi => behind[j] = bPageOffsets[j]
  <2>0. behind = SetFreeIfAny(bPageOffsets, z + 1, hi - z)
    BY <1>8
  <2>1. hi - z \in Nat /\ z + 1 + (hi - z) - 1 = hi /\ z + 1 \in Int
    BY <1>6, <1>8
  <2>2. behind \in [Pages -> Nat]
    BY <1>10, <2>0, <2>1, SetFreeIs
  <2>3. CASE z < hi
    <3>1. hi - z > 0
      BY <1>6, <1>8, <2>3
    <3>2. behind = SetFree(bPageOffsets, z + 1, hi - z)
      BY <2>0, <3>1 DEF SetFreeIfAny
    <3>3. z + 1 \in Pages /\ z + 1 \in lo .. hi /\ hi \in lo .. hi
      BY <1>6, <1>7, <1>8, <2>3, PagesAre
    <3>4. \A j \in Pages :
            /\ j \in {z + 1, hi} => behind[j] = hi - z
            /\ j \notin {z + 1, hi} => behind[j] = bPageOffsets[j]
      BY <1>10, <2>1, <3>2, SetFreeIs
    <3> QED
      BY <2>2, <3>3, <3>4
  <2>4. CASE ~ (z < hi)
    <3>1. ~ (hi - z > 0)
      BY <1>6, <1>8, <2>4
    <3>2. behind = bPageOffsets
      BY <2>0, <3>1 DEF SetFreeIfAny
    <3> QED
      BY <2>2, <2>4, <3>2
  <2> QED
    BY <2>3, <2>4
<1> HIDE DEF behind
<1>12. /\ around \in [Pages -> Nat]
       /\ lo < page => around[lo] = page - lo /\ around[page - 1] = page - lo
       /\ z < hi => around[z + 1] = hi - z /\ around[hi] = hi - z
       /\ \A j \in Pages : j \notin lo .. hi => around[j] = bPageOffsets[j]
  <2>1. page - lo \in Nat /\ lo + (page - lo) - 1 = page - 1 /\ lo \in Int
    BY <1>6, <1>7
  <2>2. around \in [Pages -> Nat]
    BY <1>11, <2>1, SetFreeIs
  <2>3. CASE lo < page
    <3>1. page - lo > 0
      BY <1>6, <1>7, <2>3
    <3>2. around = SetFree(behind, lo, page - lo)
      BY <3>1 DEF SetFreeIfAny
    <3>3. page - 1 \in Pages /\ page - 1 \in lo .. hi /\ lo \in lo .. hi
      BY <1>6, <1>7, <1>8, <2>3, PagesAre
    <3>4. \A j \in Pages :
            /\ j \in {lo, page - 1} => around[j] = page - lo
            /\ j \notin {lo, page - 1} => around[j] = behind[j]
      BY <1>11, <2>1, <3>2, SetFreeIs
    <3>5. z < hi => z + 1 \in Pages /\ z + 1 \notin {lo, page - 1} /\ hi \notin {lo, page - 1}
      BY <1>6, <1>7, <1>8, PagesAre
    <3> QED
      BY <1>5, <1>11, <2>2, <3>3, <3>4, <3>5
  <2>4. CASE ~ (lo < page)
    <3>1. ~ (page - lo > 0)
      BY <1>6, <1>7, <2>4
    <3>2. around = behind
      BY <3>1 DEF SetFreeIfAny
    <3> QED
      BY <1>11, <2>4, <3>2
  <2> QED
    BY <2>3, <2>4
<1> HIDE DEF around
<1>13. page \notin Bases
  <2>1. page \in lo .. hi
    BY <1>6, <1>7, <1>8
  <2>2. page \in FreePages
    BY <1>5, <2>1 DEF RunIn
  <2> QED
    BY <2>2 DEF FreePages, Bases
<1>14. /\ pagetable' = SetBlockPages(page, z - page + 1)
       /\ bPageOffsets' = SetBlock(around, page, z - page + 1)
       /\ freepages' = freepages - (z - page + 1)
  BY <1>1, <1>8
<1>15. /\ LargeInv'
       /\ Bases' = Bases \cup {page} /\ bPageOffsets'[page] = z - page + 1
       /\ \A i \in Bases \ {page} : bPageOffsets'[i] = bPageOffsets[i]
  BY <1>1, <1>2, <1>5, <1>7, <1>8, <1>9, <1>12, <1>14, Carved
<1> QED
  BY <1>8, <1>9, <1>13, <1>15

LEMMA TakeNothingKeeps ==
  ASSUME LargeInv, NEW n \in Sizes, NEW align \in Aligns, TakeNothing(n, align)
  PROVE  LargeInv'
<1>1. /\ ~ Hopeless(n) /\ searchStart' = NewStart
      /\ largestFree' = IF Runs = {} THEN 0 ELSE Max({bPageOffsets[i] : i \in Runs})
      /\ pagetable' = pagetable /\ bPageOffsets' = bPageOffsets /\ freepages' = freepages
  BY DEF TakeNothing
<1>2. /\ NewStart \in 0 .. NPages /\ Runs = RunStarts
      /\ \A k \in FreePages : NewStart <= k
  BY <1>1, Searching
<1>3. FreePages' = FreePages /\ Bases' = Bases
  BY <1>1 DEF FreePages, Bases
<1>4. BlocksWhole' /\ PlusInside' /\ RunsKnown'
  BY <1>1, <1>3 DEF LargeInv, BlocksWhole, PlusInside, RunsKnown
<1>5. largestFree' \in Nat /\ \A i \in RunStarts : bPageOffsets[i] <= largestFree'
  <2>1. CASE RunStarts = {}
    BY <1>1, <1>2, <2>1
  <2>2. CASE RunStarts # {}
    <3> DEFINE S == {bPageOffsets[i] : i \in Runs}
    <3>1. S # {}
      BY <1>2, <2>2
    <3>2. S \in SUBSET (0 .. NPages)
      <4> SUFFICES ASSUME NEW i \in RunStarts PROVE bPageOffsets[i] \in 0 .. NPages
        BY <1>2
      <4>1. PICK e \in Pages : i \in Pages /\ i <= e /\ bPageOffsets[i] = e - i + 1
        BY RunEnds
      <4> QED
        BY <4>1, PagesAre
    <3>3. \E x \in S : \A y \in S : y <= x
      <4> HIDE DEF S
      <4> QED
        BY <3>1, <3>2, Greatest, PagesAre
    <3>4. largestFree' = Max(S)
      BY <1>1, <1>2, <2>2
    <3>5. largestFree' \in S /\ \A y \in S : y <= largestFree'
      <4>1. Max(S) = CHOOSE x \in S : \A y \in S : x >= y
        BY DEF Max
      <4>2. \A x, y \in S : y <= x <=> x >= y
        BY <3>2
      <4> HIDE DEF S
      <4> QED
        BY <3>3, <3>4, <4>1, <4>2
    <3> QED
      BY <1>2, <3>2, <3>5
  <2> QED
    BY <2>1, <2>2
<1>6. Estimates'
  <2>1. ASSUME NEW i \in Pages, NEW e \in Pages, RunIn(FreePages, i, e)
        PROVE  e - i + 1 <= largestFree'
    <3>1. i \in RunStarts
      BY <2>1, PagesAre DEF RunStarts, RunIn
    <3>2. bPageOffsets[i] = e - i + 1
      BY <2>1 DEF LargeInv, RunsKnown
    <3> QED
      BY <1>5, <3>1, <3>2
  <2> QED
    BY <1>1, <1>2, <1>3, <2>1 DEF Estimates
<1>7. LargeTypeOK'
  BY <1>1, <1>2, <1>5 DEF LargeInv, LargeTypeOK
<1> QED
  BY <1>1, <1>3, <1>4, <1>6, <1>7 DEF LargeInv

LEMMA GrowKeeps ==
  ASSUME LargeInv, NEW page \in Bases, NEW sz \in Nat, 1 <= sz,
         End(page) < NPages, pagetable[End(page)] = "B_FREE", sz <= bPageOffsets[End(page)],
         Grow(page, sz)
  PROVE  /\ LargeInv' /\ Bases' = Bases
         /\ \A i \in Bases \ {page} : bPageOffsets'[i] = bPageOffsets[i]
<1> DEFINE lo == End(page)
           psz == bPageOffsets[page]
           rest == bPageOffsets[page + psz] - sz
           z == lo + sz - 1
           offsets == SetFreeIfAny(bPageOffsets, page + psz + sz, rest)
<1>0. /\ LargeTypeOK /\ BlocksWhole /\ PlusInside /\ bPageOffsets \in [Pages -> Nat]
      /\ page \in Pages /\ page \in Nat /\ psz \in Nat /\ NPages \in Nat
      /\ searchStart \in 0 .. NPages /\ \A k \in FreePages : searchStart <= k
  BY PagesAre DEF LargeInv, LargeTypeOK, Estimates
<1>1. /\ pagetable' = SetBlockPages(page, psz + sz)
      /\ bPageOffsets' = SetBlock(offsets, page, psz + sz)
      /\ freepages' = freepages - sz
      /\ searchStart' = searchStart /\ largestFree' = largestFree
  BY DEF Grow
<1>2. lo \in RunStarts
  <2>1. lo \in Marks /\ lo # NPages /\ lo \notin Bases
    BY <1>0, BehindBlock DEF Bases
  <2> QED
    BY <2>1 DEF Marks
<1>3. PICK hi \in Pages :
        /\ RunIn(FreePages, lo, hi) /\ lo \in Pages /\ lo <= hi
        /\ bPageOffsets[lo] = hi - lo + 1 /\ End(lo) = hi + 1
  BY <1>2, RunEnds
<1>4. lo = page + psz /\ End(page) = lo
  BY DEF End
<1> HIDE DEF lo, psz
<1>5. /\ lo \in Nat /\ hi \in Nat /\ hi < NPages /\ z \in Nat /\ lo <= z /\ z <= hi
      /\ page + psz + sz = z + 1 /\ psz + sz = z - page + 1 /\ sz = z - lo + 1
      /\ rest = hi - z
  <2>1. lo \in Nat /\ hi \in Nat /\ hi < NPages
    BY <1>3, PagesAre
  <2>2. sz <= hi - lo + 1 /\ rest = hi - lo + 1 - sz
    BY <1>3, <1>4
  <2>3. lo <= hi
    BY <1>3
  <2> HIDE DEF rest
  <2> QED
    BY <1>0, <1>4, <2>1, <2>2, <2>3
<1>6. z \in Pages
  BY <1>5, PagesAre
<1> HIDE DEF z, rest
<1>7. /\ offsets \in [Pages -> Nat]
      /\ z < hi => offsets[z + 1] = hi - z /\ offsets[hi] = hi - z
      /\ \A j \in Pages : j \notin lo .. hi => offsets[j] = bPageOffsets[j]
  <2>0. offsets = SetFreeIfAny(bPageOffsets, z + 1, hi - z)
    BY <1>5
  <2>1. hi - z \in Nat /\ z + 1 + (hi - z) - 1 = hi /\ z + 1 \in Int
    BY <1>5
  <2>2. offsets \in [Pages -> Nat]
    BY <1>0, <2>0, <2>1, SetFreeIs
  <2>3. CASE z < hi
    <3>1. hi - z > 0
      BY <1>5, <2>3
    <3>2. offsets = SetFree(bPageOffsets, z + 1, hi - z)
      BY <2>0, <3>1 DEF SetFreeIfAny
    <3>3. z + 1 \in Pages /\ z + 1 \in lo .. hi /\ hi \in lo .. hi
      BY <1>5, <2>3, PagesAre
    <3>4. \A j \in Pages :
            /\ j \in {z + 1, hi} => offsets[j] = hi - z
            /\ j \notin {z + 1, hi} => offsets[j] = bPageOffsets[j]
      BY <1>0, <2>1, <3>2, SetFreeIs
    <3> QED
      BY <2>2, <3>3, <3>4
  <2>4. CASE ~ (z < hi)
    <3>1. ~ (hi - z > 0)
      BY <1>5, <2>4
    <3>2. offsets = bPageOffsets
      BY <2>0, <3>1 DEF SetFreeIfAny
    <3> QED
      BY <2>2, <2>4, <3>2
  <2> QED
    BY <2>3, <2>4
<1> HIDE DEF offsets
<1>8. /\ pagetable' = SetBlockPages(page, z - page + 1)
      /\ bPageOffsets' = SetBlock(offsets, page, z - page + 1)
      /\ freepages' = freepages - (z - lo + 1)
  BY <1>1, <1>5
<1>9. /\ LargeInv' /\ Bases' = Bases \cup {page}
       /\ \A i \in Bases \ {page} : bPageOffsets'[i] = bPageOffsets[i]
  <2>1. ~ (lo < lo) /\ lo <= lo
    BY <1>5
  <2> QED
    BY <1>0, <1>1, <1>3, <1>4, <1>5, <1>6, <1>7, <1>8, <2>1, Carved
<1> QED
  BY <1>9

\* Pages a to z of block b are freed: all of it, or its last ones.
LEMMA FreedKeeps ==
  ASSUME LargeInv, NEW b \in Bases, NEW a \in Pages, NEW z \in Pages, b <= a, a <= z,
         End(b) = z + 1, NEW bwd \in BOOLEAN, bwd \/ b < a, FreePagesAt(a, z - a + 1),
         bPageOffsets' \in [Pages -> Nat], b < a => bPageOffsets'[b] = a - b,
         \A j \in Pages : j # b \/ a = b =>
           bPageOffsets'[j] = MergeFree(bPageOffsets, bwd, a, z - a + 1)[j]
  PROVE  /\ LargeInv'
         /\ a = b => Bases' = Bases \ {b}
         /\ b < a => Bases' = Bases
         /\ \A i \in Bases \ {b} : bPageOffsets'[i] = bPageOffsets[i]
<1> DEFINE n == z - a + 1
           G == a .. z
           len == [i \in Bases |-> IF i = b THEN a - b ELSE bPageOffsets[i]]
<1>0. /\ LargeTypeOK /\ BlocksWhole /\ PlusInside /\ RunsKnown /\ Estimates
      /\ freepages = Cardinality(FreePages) /\ bPageOffsets \in [Pages -> Nat]
  BY DEF LargeInv, LargeTypeOK
<1>1. /\ NPages \in Nat /\ b \in Nat /\ a \in Nat /\ z \in Nat /\ z < NPages /\ b \in Pages
      /\ bPageOffsets[b] = z - b + 1 /\ a + n - 1 = z /\ n \in Nat
  BY <1>0, PagesAre DEF End
<1>2. /\ pagetable' = [j \in Pages |-> IF j \in G THEN "B_FREE" ELSE pagetable[j]]
      /\ searchStart' = IF a < searchStart THEN a ELSE searchStart
      /\ freepages' = freepages + n /\ largestFree' = freepages'
  BY <1>1 DEF FreePagesAt, MarkFree
<1>3. \A j \in G : j \in b .. b + bPageOffsets[b] - 1 /\ j \in Pages /\ j \notin FreePages
  <2>1. \A j \in G : j \in b .. b + bPageOffsets[b] - 1
    BY <1>1
  <2> QED
    BY <1>0, <2>1, BlocksNotFree
<1>4. \A i \in Bases \ {b} : i \notin G /\ bPageOffsets[i] \in 1 .. NPages - i /\ i \in Nat
                             /\ i \in i .. i + bPageOffsets[i] - 1
  <2> SUFFICES ASSUME NEW i \in Bases \ {b}
               PROVE  i \notin G /\ bPageOffsets[i] \in 1 .. NPages - i /\ i \in Nat
                      /\ i \in i .. i + bPageOffsets[i] - 1
    OBVIOUS
  <2>1. bPageOffsets[i] \in 1 .. NPages - i /\ i \in Nat
    BY <1>0, PagesAre DEF BlocksWhole
  <2>2. i \in i .. i + bPageOffsets[i] - 1
    BY <1>1, <2>1
  <2>3. i \notin G
    BY <1>0, <1>3, <2>2, BlocksDisjoint
  <2> QED
    BY <2>1, <2>2, <2>3
<1>5. bwd \/ a - 1 \notin FreePages
  <2> SUFFICES ASSUME b < a PROVE a - 1 \notin FreePages
    OBVIOUS
  <2>1. a - 1 \in b .. b + bPageOffsets[b] - 1
    BY <1>1
  <2> QED
    BY <1>0, <2>1, BlocksNotFree
<1>6. PICK lo, hi \in Pages :
        /\ lo <= a /\ z <= hi /\ RunIn(FreePages \cup G, lo, hi)
        /\ MergeFree(bPageOffsets, bwd, a, n) = SetFree(bPageOffsets, lo, hi - lo + 1)
        /\ lo + (hi - lo + 1) - 1 = hi
  BY <1>0, <1>3, <1>5, MergeFinds
<1>7. lo \in Nat /\ hi \in Nat /\ lo <= hi /\ lo \in FreePages \cup G /\ hi \in FreePages \cup G
  <2>1. lo \in Nat /\ hi \in Nat /\ lo <= hi
    BY <1>1, <1>6, PagesAre
  <2>2. lo \in lo .. hi /\ hi \in lo .. hi
    BY <2>1
  <2> QED
    BY <1>6, <2>1, <2>2 DEF RunIn
<1>8. \A j \in Pages : j # b \/ a = b =>
        /\ j \in {lo, hi} => bPageOffsets'[j] = hi - lo + 1
        /\ j \notin {lo, hi} => bPageOffsets'[j] = bPageOffsets[j]
  <2>1. hi - lo + 1 \in Nat /\ lo \in Int
    BY <1>7
  <2>2. \A j \in Pages :
          /\ j \in {lo, hi} => SetFree(bPageOffsets, lo, hi - lo + 1)[j] = hi - lo + 1
          /\ j \notin {lo, hi} =>
               SetFree(bPageOffsets, lo, hi - lo + 1)[j] = bPageOffsets[j]
    BY <1>0, <1>6, <2>1, SetFreeIs
  <2> QED
    BY <1>6, <2>2
<1>9. len \in [Bases -> Nat] /\ \A i \in Bases : len[i] <= bPageOffsets[i]
  <2>1. a - b \in Nat /\ a - b <= bPageOffsets[b]
    BY <1>1
  <2>2. ASSUME NEW i \in Bases, i # b PROVE bPageOffsets[i] \in Nat
    BY <1>0, <1>4, PagesAre
  <2>3. \A i \in Bases : bPageOffsets[i] \in Nat
    BY <1>0, PagesAre
  <2> QED
    BY <2>1, <2>3
<1>10. G = UNION {i + len[i] .. i + bPageOffsets[i] - 1 : i \in Bases}
  <2>1. b + len[b] .. b + bPageOffsets[b] - 1 = G
    <3>1. b + (a - b) = a /\ b + bPageOffsets[b] - 1 = z
      BY <1>1
    <3> QED
      BY <3>1
  <2>2. ASSUME NEW i \in Bases, i # b, NEW j \in i + len[i] .. i + bPageOffsets[i] - 1
        PROVE  FALSE
    BY <1>4, <2>2
  <2> HIDE DEF G, len
  <2> QED
    BY <2>1, <2>2
<1>11. \A j \in Pages : pagetable'[j] = IF j \in G THEN "B_FREE" ELSE pagetable[j]
  BY <1>2
<1>12. ASSUME NEW i \in Bases \ {b} PROVE bPageOffsets'[i] = bPageOffsets[i]
  <2>1. i \notin FreePages /\ i \in Pages
    BY PagesAre DEF FreePages, Bases
  <2>2. i \notin {lo, hi}
    BY <1>4, <1>7, <2>1
  <2> QED
    BY <1>8, <2>1, <2>2
<1>13. \A i \in Bases : len[i] > 0 => bPageOffsets'[i] = len[i]
  <2>1. len[b] > 0 => bPageOffsets'[b] = len[b]
    BY <1>1
  <2> QED
    BY <1>12, <2>1
<1>14. ASSUME NEW j \in Pages, pagetable[j] = "B_PAGEPLUS", j \notin G
       PROVE  bPageOffsets'[j] = bPageOffsets[j]
  <2>1. j # b /\ j \notin FreePages
    BY <1>14 DEF FreePages, Bases
  <2>2. j \notin {lo, hi}
    BY <1>7, <1>14, <2>1
  <2> QED
    BY <1>8, <2>1, <2>2
<1>15. \A i \in Bases : len[i] > 0 <=> i # b \/ b < a
  BY <1>1, <1>4
<1> HIDE DEF len
<1>16. /\ FreePages' = FreePages \cup G
       /\ Bases' = {i \in Bases : len[i] > 0}
       /\ BlocksWhole' /\ PlusInside'
  <2>0. G = Tails(len)
    BY <1>10 DEF Tails
  <2>1. LargeTypeOK /\ BlocksWhole /\ PlusInside
    BY <1>0
  <2>2. \A j \in Pages : pagetable'[j] = IF j \in Tails(len) THEN "B_FREE" ELSE pagetable[j]
    BY <1>11, <2>0
  <2>3. \A j \in Pages : pagetable[j] = "B_PAGEPLUS" /\ j \notin Tails(len) =>
                            bPageOffsets'[j] = bPageOffsets[j]
    BY <1>14, <2>0
  <2>4. /\ FreePages' = FreePages \cup Tails(len)
        /\ Bases' = {i \in Bases : len[i] > 0}
        /\ BlocksWhole' /\ PlusInside'
    BY <1>9, <1>13, <2>1, <2>2, <2>3, Shortened
  <2> QED
    BY <2>0, <2>4
<1>17. RunsKnown'
  <2>1. b \notin FreePages /\ (b < a => b \notin G)
    BY <1>1 DEF FreePages, Bases
  <2>2. (lo # b \/ a = b) /\ (hi # b \/ a = b)
    BY <1>1, <1>7, <2>1
  <2>3. bPageOffsets'[lo] = hi - lo + 1 /\ bPageOffsets'[hi] = hi - lo + 1
    BY <1>8, <2>2
  <2>4. \A j \in FreePages \ {lo, hi} : bPageOffsets'[j] = bPageOffsets[j]
    BY <1>8, <2>1, PagesAre
  <2> QED
    BY <1>0, <1>1, <1>6, <1>16, <2>3, <2>4, Joined
<1>18. freepages' = Cardinality(FreePages') /\ freepages' \in Nat
  <2>1. Cardinality(FreePages \cup G) = Cardinality(FreePages) + n
    BY <1>1, <1>3, FreeFinite, PagesCounted
  <2> QED
    BY <1>0, <1>1, <1>2, <1>16, <2>1, FreeFinite
<1>19. LargeTypeOK'
  <2>1. pagetable' \in [Pages -> PageKinds]
    BY <1>0, <1>2 DEF LargeTypeOK, PageKinds
  <2>2. searchStart' \in 0 .. NPages
    BY <1>0, <1>1, <1>2 DEF LargeTypeOK
  <2> QED
    BY <1>2, <1>18, <2>1, <2>2 DEF LargeTypeOK
<1>20. Estimates'
  <2>1. ASSUME NEW k \in FreePages' PROVE searchStart' <= k
    <3>1. searchStart \in Nat
      BY <1>0 DEF LargeTypeOK
    <3>2. CASE k \in FreePages
      <4>1. searchStart <= k /\ k \in Nat
        BY <1>0, <3>2, PagesAre DEF Estimates
      <4> QED
        BY <1>1, <1>2, <3>1, <4>1
    <3>3. CASE k \in G
      <4>1. k \in Nat /\ a <= k
        BY <1>1, <3>3
      <4>2. searchStart' <= a
        BY <1>1, <1>2, <3>1
      <4>3. searchStart' \in Nat
        BY <1>1, <1>2, <3>1
      <4> QED
        BY <1>1, <4>1, <4>2, <4>3
    <3> QED
      BY <1>16, <2>1, <3>2, <3>3
  <2>2. ASSUME NEW i \in Pages, NEW e \in Pages, RunIn(FreePages', i, e)
        PROVE  e - i + 1 <= largestFree'
    <3>1. i \in Nat /\ e \in Nat /\ i <= e /\ i .. e \subseteq FreePages'
      BY <2>2, PagesAre DEF RunIn
    <3>2. IsFiniteSet(FreePages')
      <4>1. IsFiniteSet(G)
        BY <1>1, FS_Interval
      <4>2. IsFiniteSet(FreePages \cup G)
        BY <4>1, FreeFinite, FS_Union
      <4> QED
        BY <1>16, <4>2
    <3>3. e - i + 1 <= Cardinality(FreePages')
      BY <3>1, <3>2, PagesCounted
    <3> QED
      BY <1>2, <1>18, <3>3
  <2> QED
    BY <2>1, <2>2 DEF Estimates
<1>21. LargeInv'
  <2> HIDE DEF G, n
  <2> QED
    BY <1>16, <1>17, <1>18, <1>19, <1>20 DEF LargeInv
<1>22. /\ a = b => Bases' = Bases \ {b}
       /\ b < a => Bases' = Bases
  <2>1. Bases' = {i \in Bases : i # b \/ b < a}
    BY <1>15, <1>16
  <2>2. a = b => ~ (b < a)
    BY <1>1
  <2> QED
    BY <2>1, <2>2
<1> QED
  BY <1>12, <1>21, <1>22

LEMMA MergeFreeType ==
  ASSUME LargeTypeOK, NEW bwd \in BOOLEAN, NEW page \in Pages, NEW num \in Nat
  PROVE  MergeFree(bPageOffsets, bwd, page, num) \in [Pages -> Nat]
<1> DEFINE last == page + num
           before == IF bwd /\ page > 0 /\ pagetable[page - 1] = "B_FREE"
                       THEN bPageOffsets[page - 1] ELSE 0
           after == IF last < NPages /\ pagetable[last] = "B_FREE"
                      THEN bPageOffsets[last] ELSE 0
<1>1. page \in Nat /\ \A j \in Pages : bPageOffsets[j] \in Nat
  BY PagesAre DEF LargeTypeOK
<1>2. page > 0 => page - 1 \in Pages
  BY <1>1, PagesAre
<1>3. last < NPages => last \in Pages
  BY <1>1, PagesAre
<1>4. before \in Nat
  BY <1>1, <1>2
<1>5. after \in Nat
  BY <1>1, <1>3
<1>6. MergeFree(bPageOffsets, bwd, page, num) =
        SetFree(bPageOffsets, page - before, before + num + after)
  BY DEF MergeFree
<1> HIDE DEF before, after
<1>7. page - before \in Int /\ before + num + after \in Nat
  BY <1>1, <1>4, <1>5
<1> QED
  BY <1>6, <1>7, SetFreeIs DEF LargeTypeOK

\* A block has pages, all within the pool.
LEMMA BlockPages ==
  ASSUME LargeInv, NEW page \in Bases
  PROVE  /\ page \in Pages /\ page \in Nat /\ bPageOffsets[page] \in Nat
         /\ 1 <= bPageOffsets[page] /\ page + bPageOffsets[page] - 1 \in Pages
<1>1. page \in Nat /\ page < NPages /\ NPages \in Nat /\ page \in Pages
  BY PagesAre
<1>2. bPageOffsets[page] \in 1 .. NPages - page
  BY DEF LargeInv, BlocksWhole
<1> QED
  BY <1>1, <1>2, PagesAre

LEMMA LargeFreeKeeps ==
  ASSUME LargeInv, NEW page, LargeFree(page)
  PROVE  /\ LargeInv' /\ page \in Bases /\ Bases' = Bases \ {page}
         /\ \A i \in Bases \ {page} : bPageOffsets'[i] = bPageOffsets[i]
<1> DEFINE n == bPageOffsets[page]
           z == page + n - 1
<1>1. /\ page \in Bases /\ FreePagesAt(page, n)
      /\ bPageOffsets' = MergeFree(bPageOffsets, TRUE, page, n)
  BY DEF LargeFree
<1>2. page \in Pages /\ page \in Nat /\ n \in Nat /\ 1 <= n /\ z \in Pages
  BY <1>1, BlockPages
<1>3. End(page) = z + 1 /\ z - page + 1 = n /\ page <= z /\ page <= page /\ z \in Int
  BY <1>2 DEF End
<1>4. MergeFree(bPageOffsets, TRUE, page, n) \in [Pages -> Nat]
  BY <1>2, MergeFreeType DEF LargeInv
<1>5. FreePagesAt(page, z - page + 1)
      /\ MergeFree(bPageOffsets, TRUE, page, z - page + 1) = bPageOffsets'
  BY <1>1, <1>3
<1>6. ~ (page < page) /\ TRUE \in BOOLEAN
  BY <1>2
<1> HIDE DEF z, n
<1>7. bPageOffsets' \in [Pages -> Nat]
  BY <1>1, <1>4
<1>8. \A j \in Pages : j # page \/ page = page =>
        bPageOffsets'[j] = MergeFree(bPageOffsets, TRUE, page, z - page + 1)[j]
  BY <1>5
<1>9. /\ LargeInv' /\ (page = page => Bases' = Bases \ {page})
      /\ \A i \in Bases \ {page} : bPageOffsets'[i] = bPageOffsets[i]
  BY <1>1, <1>2, <1>3, <1>5, <1>6, <1>7, <1>8, FreedKeeps, ZenonT(60)
<1> QED
  BY <1>1, <1>9

LEMMA ShrinkKeeps ==
  ASSUME LargeInv, NEW page, NEW newsz \in Sizes, Shrink(page, newsz)
  PROVE  /\ LargeInv' /\ page \in Bases /\ Bases' = Bases
         /\ \A i \in Bases \ {page} : bPageOffsets'[i] = bPageOffsets[i]
<1> DEFINE psz == bPageOffsets[page]
           a == page + newsz
           z == page + psz - 1
           merged == MergeFree(bPageOffsets, FALSE, a, psz - newsz)
<1>1. /\ page \in Bases /\ newsz < psz /\ FreePagesAt(a, psz - newsz)
      /\ bPageOffsets' = [merged EXCEPT ![page] = newsz]
  BY DEF Shrink
<1>2. page \in Pages /\ page \in Nat /\ psz \in Nat /\ 1 <= psz /\ z \in Pages
  BY <1>1, BlockPages
<1>3. newsz \in Nat /\ 1 <= newsz
  BY PagesAre DEF Sizes
<1>4. /\ End(page) = z + 1 /\ z - a + 1 = psz - newsz /\ a <= z /\ page < a /\ page <= a
      /\ a - page = newsz /\ psz - newsz \in Nat /\ a \in Nat /\ a # page
  BY <1>1, <1>2, <1>3 DEF End
<1>5. a \in Pages
  BY <1>2, <1>4, PagesAre
<1>6. merged \in [Pages -> Nat]
  BY <1>4, <1>5, MergeFreeType DEF LargeInv
<1>7. /\ FreePagesAt(a, z - a + 1)
      /\ MergeFree(bPageOffsets, FALSE, a, z - a + 1) = merged
  BY <1>1, <1>4
<1> HIDE DEF z, a, merged, psz
<1>8. bPageOffsets' \in [Pages -> Nat] /\ bPageOffsets'[page] = a - page
  BY <1>1, <1>2, <1>3, <1>4, <1>6
<1>9. \A j \in Pages : j # page \/ a = page =>
        bPageOffsets'[j] = MergeFree(bPageOffsets, FALSE, a, z - a + 1)[j]
  BY <1>1, <1>4, <1>6, <1>7
<1>10. LargeInv' /\ Bases' = Bases /\ \A i \in Bases \ {page} : bPageOffsets'[i] = bPageOffsets[i]
  BY <1>1, <1>2, <1>4, <1>5, <1>7, <1>8, <1>9, FreedKeeps
<1> QED
  BY <1>1, <1>10

LEMMA ExpandKeeps ==
  ASSUME LargeInv, NEW page, NEW newsz \in Sizes, Expand(page, newsz)
  PROVE  /\ LargeInv' /\ page \in Bases /\ Bases' = Bases
         /\ \A i \in Bases \ {page} : bPageOffsets'[i] = bPageOffsets[i]
<1> DEFINE psz == bPageOffsets[page]
<1>1. /\ page \in Bases /\ newsz > psz /\ page + newsz <= NPages
      /\ pagetable[page + psz] = "B_FREE" /\ bPageOffsets[page + psz] >= newsz - psz
      /\ Grow(page, newsz - psz)
  BY DEF Expand
<1>2. page \in Nat /\ psz \in Nat /\ newsz \in Nat /\ NPages \in Nat
  BY <1>1, BlockPages, PagesAre DEF Sizes
<1>3. newsz - psz \in Nat /\ 1 <= newsz - psz /\ End(page) < NPages /\ page + psz = End(page)
      /\ page + psz \in Pages
  BY <1>1, <1>2, PagesAre DEF End
<1>4. newsz - psz <= bPageOffsets[End(page)]
  <2>1. bPageOffsets[page + psz] \in Nat
    BY <1>3 DEF LargeInv, LargeTypeOK
  <2> QED
    BY <1>1, <1>3, <2>1
<1> HIDE DEF psz
<1> QED
  BY <1>1, <1>3, <1>4, GrowKeeps

LEMMA ExtendKeeps ==
  ASSUME LargeInv, NEW page, NEW minsz \in Sizes, NEW maxsz \in Sizes,
         Extend(page, minsz, maxsz)
  PROVE  /\ LargeInv' /\ page \in Bases /\ Bases' = Bases
         /\ \A i \in Bases \ {page} : bPageOffsets'[i] = bPageOffsets[i]
<1> DEFINE after == page + bPageOffsets[page]
           sz == IF bPageOffsets[after] > maxsz THEN maxsz ELSE bPageOffsets[after]
<1>1. /\ page \in Bases /\ after < NPages /\ pagetable[after] = "B_FREE"
      /\ bPageOffsets[after] >= minsz /\ Grow(page, sz)
  BY DEF Extend
<1>2. after = End(page)
  BY DEF End
<1>3. page \in Nat /\ bPageOffsets[page] \in Nat
  BY <1>1, BlockPages
<1>4. after \in Pages
  BY <1>1, <1>3, PagesAre
<1>5. bPageOffsets[after] \in Nat
  BY <1>4 DEF LargeInv, LargeTypeOK
<1>6. minsz \in Nat /\ 1 <= minsz /\ maxsz \in Nat /\ 1 <= maxsz
  BY PagesAre DEF Sizes
<1>7. sz \in Nat /\ 1 <= sz /\ sz <= bPageOffsets[after]
  BY <1>1, <1>5, <1>6
<1> HIDE DEF after, sz
<1> QED
  BY <1>1, <1>2, <1>7, GrowKeeps

LEMMA SweepKeeps ==
  ASSUME LargeInv, NEW marked \in SUBSET Bases, LargeSweep(marked)
  PROVE  /\ LargeInv' /\ Bases' = marked
         /\ \A i \in marked : bPageOffsets'[i] = bPageOffsets[i]
<1> DEFINE dead == Bases \ marked
           freed == UNION {page .. page + bPageOffsets[page] - 1 : page \in dead}
           free == FreePages \cup freed
           Run(i) == {j \in free : \A k \in (i .. j) \cup (j .. i) : k \in free}
           len == [i \in Bases |-> IF i \in marked THEN bPageOffsets[i] ELSE 0]
<1>0. /\ LargeTypeOK /\ BlocksWhole /\ PlusInside /\ RunsKnown /\ Estimates
      /\ freepages = Cardinality(FreePages) /\ NPages \in Nat
  BY PagesAre DEF LargeInv
<1>1. /\ dead # {}
      /\ pagetable' = [i \in Pages |-> IF i \in free THEN "B_FREE" ELSE pagetable[i]]
      /\ bPageOffsets' = [i \in Pages |-> IF i \in free /\ ~ {i - 1, i + 1} \subseteq free
                                            THEN Cardinality(Run(i)) ELSE bPageOffsets[i]]
      /\ searchStart' = Min({searchStart} \cup dead)
      /\ freepages' = freepages + Cardinality(freed)
      /\ largestFree' = freepages'
  BY DEF LargeSweep
<1>2. ASSUME NEW i \in Bases
      PROVE  /\ i \in Pages /\ i \in Nat /\ bPageOffsets[i] \in Nat /\ 1 <= bPageOffsets[i]
             /\ i \in i .. i + bPageOffsets[i] - 1 /\ i \notin FreePages
  BY BlockPages DEF FreePages, Bases
<1>3. ASSUME NEW j \in freed
      PROVE  j \in Pages /\ j \notin FreePages
             /\ \E page \in dead : j \in page .. page + bPageOffsets[page] - 1
  <2>1. PICK page \in dead : j \in page .. page + bPageOffsets[page] - 1
    OBVIOUS
  <2>2. j \in Pages /\ j \notin FreePages
    BY <1>0, <2>1, BlocksNotFree
  <2> QED
    BY <2>1, <2>2
<1>4. free \in SUBSET Pages /\ IsFiniteSet(free) /\ IsFiniteSet(freed)
  <2>1. freed \in SUBSET Pages /\ FreePages \in SUBSET Pages
    BY <1>3, PagesAre
  <2>2. free \in SUBSET Pages
    BY <2>1
  <2> HIDE DEF free, freed
  <2> QED
    BY <2>1, <2>2, FreeFinite, FS_Subset
<1>5. ASSUME NEW i \in Bases PROVE i \in freed <=> i \notin marked
  <2>1. ASSUME i \in freed PROVE i \notin marked
    <3>1. PICK page \in dead : i \in page .. page + bPageOffsets[page] - 1
      BY <1>3, <2>1
    <3>2. i = page
      BY <1>0, <1>2, <3>1, BlocksDisjoint
    <3> QED
      BY <3>2
  <2>2. ASSUME i \notin marked PROVE i \in freed
    <3>1. i \in dead /\ i \in i .. i + bPageOffsets[i] - 1
      BY <1>2, <2>2
    <3> QED
      BY <3>1
  <2> QED
    BY <2>1, <2>2
<1>6. len \in [Bases -> Nat] /\ \A i \in Bases : len[i] <= bPageOffsets[i]
  BY <1>2
<1>7. freed = UNION {i + len[i] .. i + bPageOffsets[i] - 1 : i \in Bases}
  <2>1. ASSUME NEW i \in Bases
        PROVE  i + len[i] .. i + bPageOffsets[i] - 1 =
                 IF i \in dead THEN i .. i + bPageOffsets[i] - 1 ELSE {}
    <3>1. CASE i \in dead
      <4>1. i + len[i] = i
        BY <1>2, <3>1
      <4> QED
        BY <3>1, <4>1
    <3>2. CASE i \in marked
      <4>1. len[i] = bPageOffsets[i]
        BY <3>2
      <4>2. i + bPageOffsets[i] .. i + bPageOffsets[i] - 1 = {}
        BY <1>2
      <4> QED
        BY <3>2, <4>1, <4>2
    <3> QED
      BY <3>1, <3>2
  <2> HIDE DEF len
  <2>2. \A j : (\E i \in dead : j \in i .. i + bPageOffsets[i] - 1)
               <=> \E i \in Bases : j \in i + len[i] .. i + bPageOffsets[i] - 1
    BY <2>1
  <2> QED
    BY <2>2
<1> HIDE DEF freed
<1>8. \A j \in Pages : pagetable'[j] = IF j \in freed THEN "B_FREE" ELSE pagetable[j]
  BY <1>1 DEF FreePages
<1>9. ASSUME NEW j \in Pages, j \notin free PROVE bPageOffsets'[j] = bPageOffsets[j]
  <2> HIDE DEF Run, free
  <2> QED
    BY <1>1, <1>9
<1>10. ASSUME NEW i \in marked PROVE bPageOffsets'[i] = bPageOffsets[i]
  BY <1>2, <1>5, <1>9
<1>11. \A i \in Bases : len[i] > 0 => bPageOffsets'[i] = len[i]
  BY <1>10
<1>12. \A j \in Pages : pagetable[j] = "B_PAGEPLUS" /\ j \notin freed =>
                          bPageOffsets'[j] = bPageOffsets[j]
  BY <1>9 DEF FreePages
<1>13. \A i \in Bases : len[i] > 0 <=> i \in marked
  BY <1>2
<1> HIDE DEF len
<1>14. /\ FreePages' = free
       /\ Bases' = {i \in Bases : len[i] > 0}
       /\ BlocksWhole' /\ PlusInside'
  <2>0. freed = Tails(len)
    BY <1>7 DEF Tails
  <2>1. LargeTypeOK /\ BlocksWhole /\ PlusInside
    BY <1>0
  <2>2. \A j \in Pages : pagetable'[j] = IF j \in Tails(len) THEN "B_FREE" ELSE pagetable[j]
    BY <1>8, <2>0
  <2>3. \A j \in Pages : pagetable[j] = "B_PAGEPLUS" /\ j \notin Tails(len) =>
                            bPageOffsets'[j] = bPageOffsets[j]
    BY <1>12, <2>0
  <2>4. /\ FreePages' = FreePages \cup Tails(len)
        /\ Bases' = {i \in Bases : len[i] > 0}
        /\ BlocksWhole' /\ PlusInside'
    BY <1>6, <1>11, <2>1, <2>2, <2>3, Shortened
  <2> QED
    BY <2>0, <2>4
<1>15. Bases' = marked
  BY <1>13, <1>14
<1>16. ASSUME NEW i \in Pages PROVE Cardinality(Run(i)) \in Nat
  <2>1. Run(i) \in SUBSET free
    OBVIOUS
  <2> HIDE DEF Run
  <2> QED
    BY <1>4, <2>1, FS_Subset, FS_CardinalityType
<1>17. RunsKnown'
  <2> SUFFICES ASSUME NEW i \in Pages, NEW e \in Pages, RunIn(free, i, e)
               PROVE  bPageOffsets'[i] = e - i + 1 /\ bPageOffsets'[e] = e - i + 1
    BY <1>14 DEF RunsKnown
  <2>1. /\ i \in Nat /\ e \in Nat /\ i <= e
        /\ \A j \in i .. e : j \in free
        /\ i - 1 \notin free /\ e + 1 \notin free
    BY PagesAre DEF RunIn
  <2>2. ASSUME NEW x \in i .. e PROVE Run(x) = i .. e
    <3>1. ASSUME NEW j \in i .. e PROVE j \in Run(x)
      <4>1. \A k \in (x .. j) \cup (j .. x) : k \in i .. e
        BY <2>1
      <4> QED
        BY <2>1, <4>1
    <3>2. ASSUME NEW j \in Run(x) PROVE j \in i .. e
      <4>1. j \in Nat /\ x \in Nat /\ i <= x /\ x <= e
            /\ \A k \in (x .. j) \cup (j .. x) : k \in free
        BY <1>4, <2>1, PagesAre
      <4>2. ASSUME j < i PROVE FALSE
        <5>1. i - 1 \in j .. x
          BY <2>1, <4>1, <4>2
        <5> QED
          BY <2>1, <4>1, <5>1
      <4>3. ASSUME e < j PROVE FALSE
        <5>1. e + 1 \in x .. j
          BY <2>1, <4>1, <4>3
        <5> QED
          BY <2>1, <4>1, <5>1
      <4> QED
        BY <2>1, <4>1, <4>2, <4>3
    <3> HIDE DEF Run
    <3> QED
      BY <3>1, <3>2
  <2>3. Cardinality(i .. e) = e - i + 1
    BY <2>1, FS_Interval
  <2>4. i \in i .. e /\ e \in i .. e
    BY <2>1
  <2> HIDE DEF Run, free
  <2>5. bPageOffsets'[i] = Cardinality(Run(i)) /\ bPageOffsets'[e] = Cardinality(Run(e))
    BY <1>1, <2>1, <2>4
  <2> QED
    BY <2>2, <2>3, <2>4, <2>5
<1>18. freepages' = Cardinality(FreePages') /\ freepages' \in Nat
  <2>1. FreePages \cap freed = {}
    BY <1>3
  <2>2. Cardinality(FreePages \cap freed) = 0
    BY <2>1, FS_EmptySet
  <2>3. Cardinality(FreePages \cup freed) =
          Cardinality(FreePages) + Cardinality(freed) - Cardinality(FreePages \cap freed)
    BY <1>4, FreeFinite, FS_Union
  <2>4. Cardinality(FreePages) \in Nat /\ Cardinality(freed) \in Nat
    BY <1>4, FreeFinite, FS_CardinalityType
  <2> QED
    BY <1>0, <1>1, <1>14, <2>2, <2>3, <2>4
<1>19. searchStart' \in {searchStart} \cup dead
       /\ \A k \in {searchStart} \cup dead : searchStart' <= k
  <2> DEFINE S == {searchStart} \cup dead
  <2>1. S \in SUBSET Nat /\ S # {}
    BY <1>0, <1>2 DEF LargeTypeOK
  <2>2. searchStart' = Min(S)
    BY <1>1
  <2> HIDE DEF S
  <2>3. \E x \in S : \A y \in S : x <= y
    BY <2>1, Least
  <2>4. searchStart' \in S /\ \A k \in S : searchStart' <= k
    BY <2>2, <2>3 DEF Min
  <2> QED
    BY <2>4 DEF S
<1>20. LargeTypeOK'
  <2>1. pagetable' \in [Pages -> PageKinds]
    BY <1>0, <1>1 DEF LargeTypeOK, PageKinds
  <2>2. bPageOffsets' \in [Pages -> Nat]
    <3> HIDE DEF Run, free
    <3> QED
      BY <1>0, <1>1, <1>16 DEF LargeTypeOK
  <2>3. searchStart' \in 0 .. NPages
    <3>1. \A i \in Bases : i \in 0 .. NPages
      BY PagesAre
    <3> QED
      BY <1>0, <1>19, <3>1 DEF LargeTypeOK
  <2> QED
    BY <1>1, <1>18, <2>1, <2>2, <2>3 DEF LargeTypeOK
<1>21. Estimates'
  <2>1. ASSUME NEW k \in free PROVE searchStart' <= k
    <3>0. searchStart' \in Nat /\ searchStart \in Nat /\ k \in Nat
      <4>1. searchStart' \in 0 .. NPages /\ searchStart \in 0 .. NPages /\ k \in Pages
        BY <1>0, <1>4, <1>20 DEF LargeTypeOK
      <4> QED
        BY <4>1, PagesAre
    <3>1. CASE k \in FreePages
      <4>1. searchStart' <= searchStart /\ searchStart <= k
        BY <1>0, <1>19, <3>1 DEF Estimates
      <4> QED
        BY <3>0, <4>1
    <3>2. CASE k \in freed
      <4>1. PICK page \in dead : k \in page .. page + bPageOffsets[page] - 1
        BY <1>3, <3>2
      <4>2. searchStart' <= page /\ page <= k /\ page \in Nat
        BY <1>2, <1>19, <4>1
      <4> QED
        BY <3>0, <4>2
    <3> QED
      BY <3>1, <3>2
  <2>2. ASSUME NEW i \in Pages, NEW e \in Pages, RunIn(free, i, e)
        PROVE  e - i + 1 <= largestFree'
    <3>1. i \in Nat /\ e \in Nat /\ i <= e /\ i .. e \subseteq free
      BY <2>2, PagesAre DEF RunIn
    <3> HIDE DEF free
    <3>2. e - i + 1 <= Cardinality(free)
      BY <1>4, <3>1, PagesCounted
    <3> QED
      BY <1>1, <1>14, <1>18, <3>2
  <2> HIDE DEF free
  <2> QED
    BY <1>14, <2>1, <2>2 DEF Estimates
<1>22. LargeInv'
  <2> HIDE DEF free, dead
  <2> QED
    BY <1>14, <1>17, <1>18, <1>20, <1>21 DEF LargeInv
<1> QED
  BY <1>10, <1>15, <1>22

LEMMA LargeStays ==
  ASSUME LargeInv, [LargeNext]_lvars
  PROVE  LargeInv'
<1>1. ASSUME NEW n \in Sizes, NEW align \in Aligns, allocPages(n, align) PROVE LargeInv'
  BY <1>1, TakeKeeps, TakeNothingKeeps DEF allocPages
<1>2. ASSUME NEW page \in Pages, LargeFree(page) PROVE LargeInv'
  BY <1>2, LargeFreeKeeps
<1>3. ASSUME NEW page \in Pages, NEW newsz \in Sizes, Shrink(page, newsz) PROVE LargeInv'
  BY <1>3, ShrinkKeeps
<1>4. ASSUME NEW page \in Pages, NEW newsz \in Sizes, Expand(page, newsz) PROVE LargeInv'
  BY <1>4, ExpandKeeps
<1>5. ASSUME NEW page \in Pages, NEW minsz \in Sizes, NEW maxsz \in Sizes,
             Extend(page, minsz, maxsz)
      PROVE  LargeInv'
  BY <1>5, ExtendKeeps
<1>6. ASSUME NEW marked \in SUBSET Bases, LargeSweep(marked) PROVE LargeInv'
  BY <1>6, SweepKeeps
<1>7. CASE UNCHANGED lvars
  <2>1. /\ pagetable' = pagetable /\ bPageOffsets' = bPageOffsets /\ freepages' = freepages
        /\ searchStart' = searchStart /\ largestFree' = largestFree
    BY <1>7 DEF lvars
  <2>2. FreePages' = FreePages /\ Bases' = Bases
    BY <2>1 DEF FreePages, Bases
  <2>3. LargeTypeOK' /\ BlocksWhole' /\ PlusInside' /\ RunsKnown' /\ Estimates'
    BY <2>1, <2>2 DEF LargeInv, LargeTypeOK, BlocksWhole, PlusInside, RunsKnown, Estimates
  <2> QED
    BY <2>1, <2>2, <2>3 DEF LargeInv
<1> QED
  BY <1>1, <1>2, <1>3, <1>4, <1>5, <1>6, <1>7 DEF LargeNext

\* In every state that allocPages, freeNoSync, reallocNoSync, extendNoSync and
\* sweep reach: a block has B_PAGEPLUS pages behind its B_PAGE page and nowhere
\* else, each of them and each recorded length of a free run leads where the code
\* reads it to lead, no free page lies below searchStart, no free run is longer
\* than largestFree, and freepages counts the free pages.
THEOREM LargePoolConsistent == LargeSpec => []LargeInv
<1>1. LargeInit => LargeInv
  BY InitKeeps
<1>2. LargeInv /\ [LargeNext]_lvars => LargeInv'
  BY LargeStays
<1> QED
  BY <1>1, <1>2, PTL DEF LargeSpec

\* What findBase, freeNoSync and the loop of allocPages read in bPageOffsets is the
\* number of pages of a block, the distance to its first page, or the length of a
\* run of free pages, whatever was freed, shrunk, extended or swept before.
THEOREM LargePoolOffsets == LargeSpec => []OffsetsRight
  BY LargePoolConsistent, InvOffsets, PTL

\* The walk of allocPages over blocks and runs finds a place of n pages at the
\* alignment asked for whenever there is one: neither searchStart nor largestFree
\* nor an uncombined run makes it give up too early.
THEOREM LargePoolRoom == LargeSpec => []RoomFound
  BY LargePoolConsistent, InvRoom, PTL

-----------------------------------------------------------------------------

\* A block has its number of pages, and none of any other block.
LEMMA BlocksFit ==
  ASSUME LargeInv, NEW i \in Bases
  PROVE  /\ <<i, bPageOffsets[i]>> \in Pages \X Sizes
         /\ \A k \in Bases \ {i} :
              ~ CommonPages(<<i, bPageOffsets[i]>>, <<k, bPageOffsets[k]>>)
<1>0. LargeTypeOK /\ BlocksWhole
  BY DEF LargeInv
<1>1. i \in Pages /\ i \in Nat /\ NPages \in Nat /\ bPageOffsets[i] \in 1 .. NPages - i
  BY <1>0, PagesAre DEF BlocksWhole
<1>2. bPageOffsets[i] \in Sizes
  BY <1>1 DEF Sizes
<1>3. ASSUME NEW k \in Bases, k # i
      PROVE  ~ (i < k + bPageOffsets[k] /\ k < i + bPageOffsets[i])
  <2>1. k \in Nat /\ bPageOffsets[k] \in Nat
    BY <1>0, PagesAre DEF LargeTypeOK
  <2>2. i < k => End(i) <= k
    BY <1>0, BlocksApart
  <2>3. k < i => End(k) <= i
    BY <1>0, BlocksApart
  <2> QED
    BY <1>1, <1>3, <2>1, <2>2, <2>3 DEF End
<1>4. \A k \in Bases \ {i} :
        ~ CommonPages(<<i, bPageOffsets[i]>>, <<k, bPageOffsets[k]>>)
  BY <1>3 DEF CommonPages
<1> QED
  BY <1>1, <1>2, <1>4

LEMMA BlocksFitNext ==
  LargeInv' => \A i \in Bases' :
    /\ <<i, bPageOffsets'[i]>> \in Pages \X Sizes
    /\ \A k \in Bases' \ {i} :
         ~ CommonPages(<<i, bPageOffsets'[i]>>, <<k, bPageOffsets'[k]>>)
<1>1. LargeInv => \A i \in Bases :
        /\ <<i, bPageOffsets[i]>> \in Pages \X Sizes
        /\ \A k \in Bases \ {i} :
             ~ CommonPages(<<i, bPageOffsets[i]>>, <<k, bPageOffsets[k]>>)
  BY BlocksFit
<1>2. (LargeInv => \A i \in Bases :
        /\ <<i, bPageOffsets[i]>> \in Pages \X Sizes
        /\ \A k \in Bases \ {i} :
             ~ CommonPages(<<i, bPageOffsets[i]>>, <<k, bPageOffsets[k]>>))'
  BY <1>1, PTL
<1>3. Pages' = Pages /\ Sizes' = Sizes
  BY DEF Pages, Sizes
<1> QED
  BY <1>2, <1>3 DEF CommonPages

\* Growing and shrinking.
LEMMA ResizeRefines ==
  ASSUME LargeInv, LargeInv', NEW page \in Bases, Bases' = Bases,
         \A i \in Bases \ {page} : bPageOffsets'[i] = bPageOffsets[i]
  PROVE  LargeAbstract!Next
<1> DEFINE b == <<page, bPageOffsets[page]>>
           c == <<page, bPageOffsets'[page]>>
<1>1. b \in largeBlocks /\ SamePage(b, c)
  BY DEF largeBlocks, SamePage
<1>2. /\ c \in Pages \X Sizes
      /\ \A k \in Bases \ {page} : ~ CommonPages(c, <<k, bPageOffsets'[k]>>)
  BY BlocksFitNext
<1>3. ASSUME NEW y \in largeBlocks \ {b} PROVE ~ CommonPages(c, y)
  <2>1. PICK k \in Bases : y = <<k, bPageOffsets[k]>>
    BY DEF largeBlocks
  <2>2. k # page
    BY <2>1
  <2>3. bPageOffsets'[k] = bPageOffsets[k]
    BY <2>2
  <2> HIDE DEF c
  <2> QED
    BY <1>2, <2>1, <2>2, <2>3
<1>4. largeBlocks' = (largeBlocks \ {b}) \cup {c}
  <2>1. largeBlocks' = {<<i, bPageOffsets'[i]>> : i \in Bases}
    BY DEF largeBlocks
  <2>2. ASSUME NEW i \in Bases
        PROVE  <<i, bPageOffsets'[i]>> \in (largeBlocks \ {b}) \cup {c}
    <3>1. CASE i = page
      BY <3>1
    <3>2. CASE i # page
      <4>1. bPageOffsets'[i] = bPageOffsets[i] /\ <<i, bPageOffsets[i]>> # b
        BY <3>2
      <4>2. <<i, bPageOffsets[i]>> \in largeBlocks
        BY DEF largeBlocks
      <4> QED
        BY <4>1, <4>2
    <3> QED
      BY <3>1, <3>2
  <2>3. ASSUME NEW y \in largeBlocks \ {b}
        PROVE  \E i \in Bases : y = <<i, bPageOffsets'[i]>>
    <3>1. PICK k \in Bases : y = <<k, bPageOffsets[k]>>
      BY DEF largeBlocks
    <3>2. k # page
      BY <3>1
    <3> QED
      BY <3>1, <3>2
  <2>4. c \in largeBlocks'
    BY <2>1
  <2> HIDE DEF b, c
  <2> QED
    BY <2>1, <2>2, <2>3, <2>4
<1> HIDE DEF b, c
<1> QED
  BY <1>1, <1>2, <1>3, <1>4
     DEF LargeAbstract!Next, LargeAbstract!Resize, LargeAbstract!Fits

\* Freeing, by the program or by a sweep.
LEMMA BlocksReleased ==
  ASSUME Bases' \subseteq Bases, \A i \in Bases' : bPageOffsets'[i] = bPageOffsets[i]
  PROVE  LargeAbstract!Next
<1> DEFINE S == {<<i, bPageOffsets[i]>> : i \in Bases \ Bases'}
<1>1. S \in SUBSET largeBlocks
  BY DEF largeBlocks
<1>2. largeBlocks' = largeBlocks \ S
  <2>1. ASSUME NEW y \in largeBlocks' PROVE y \in largeBlocks /\ y \notin S
    <3>1. PICK i \in Bases' : y = <<i, bPageOffsets'[i]>>
      BY DEF largeBlocks
    <3>2. y = <<i, bPageOffsets[i]>> /\ i \in Bases
      BY <3>1
    <3> QED
      BY <3>2 DEF largeBlocks
  <2>2. ASSUME NEW y \in largeBlocks, y \notin S PROVE y \in largeBlocks'
    <3>1. PICK i \in Bases : y = <<i, bPageOffsets[i]>>
      BY DEF largeBlocks
    <3>2. i \in Bases'
      BY <2>2, <3>1
    <3> QED
      BY <3>1, <3>2 DEF largeBlocks
  <2> QED
    BY <2>1, <2>2
<1> HIDE DEF S
<1> QED
  BY <1>1, <1>2 DEF LargeAbstract!Next, LargeAbstract!Release

LEMMA TakeRefines ==
  ASSUME LargeInv, NEW n \in Sizes, NEW align \in Aligns, Take(n, align)
  PROVE  LargeAbstract!Next
<1>1. LargeInv'
  BY TakeKeeps
<1>2. PICK page \in Pages :
        /\ page \notin Bases /\ Bases' = Bases \cup {page} /\ bPageOffsets'[page] = n
        /\ \A i \in Bases \ {page} : bPageOffsets'[i] = bPageOffsets[i]
  BY TakeKeeps
<1> DEFINE c == <<page, n>>
<1>3. \A i \in Bases : bPageOffsets'[i] = bPageOffsets[i] /\ i # page
  BY <1>2
<1>4. largeBlocks' = largeBlocks \cup {c}
  <2>1. largeBlocks' = {<<i, bPageOffsets'[i]>> : i \in Bases \cup {page}}
    BY <1>2 DEF largeBlocks
  <2> QED
    BY <1>2, <1>3, <2>1 DEF largeBlocks
<1>5. ASSUME NEW y \in largeBlocks PROVE ~ CommonPages(c, y)
  <2>1. PICK k \in Bases : y = <<k, bPageOffsets[k]>>
    BY DEF largeBlocks
  <2>2. k \in Bases' \ {page} /\ page \in Bases'
    BY <1>2, <1>3
  <2>3. ~ CommonPages(<<page, bPageOffsets'[page]>>, <<k, bPageOffsets'[k]>>)
    BY <1>1, <2>2, BlocksFitNext
  <2> QED
    BY <1>2, <1>3, <2>1, <2>3
<1>6. c \in Pages \X Sizes
  OBVIOUS
<1> HIDE DEF c
<1> QED
  BY <1>4, <1>5, <1>6 DEF LargeAbstract!Next, LargeAbstract!Allocate, LargeAbstract!Fits

LEMMA LargeNextRefines ==
  ASSUME LargeInv, [LargeNext]_lvars
  PROVE  LargeAbstract!Next \/ UNCHANGED largeBlocks
<1>1. ASSUME NEW n \in Sizes, NEW align \in Aligns, allocPages(n, align)
      PROVE  LargeAbstract!Next \/ UNCHANGED largeBlocks
  <2>1. CASE Take(n, align)
    BY <2>1, TakeRefines
  <2>2. CASE TakeNothing(n, align)
    BY <2>2 DEF TakeNothing, largeBlocks, Bases
  <2> QED
    BY <1>1, <2>1, <2>2 DEF allocPages
<1>2. ASSUME NEW page \in Pages, LargeFree(page) PROVE LargeAbstract!Next
  <2>1. Bases' = Bases \ {page} /\ \A i \in Bases \ {page} : bPageOffsets'[i] = bPageOffsets[i]
    BY <1>2, LargeFreeKeeps
  <2> QED
    BY <2>1, BlocksReleased
<1>3. ASSUME NEW page \in Pages, NEW newsz \in Sizes, Shrink(page, newsz)
      PROVE  LargeAbstract!Next
  BY <1>3, ShrinkKeeps, ResizeRefines
<1>4. ASSUME NEW page \in Pages, NEW newsz \in Sizes, Expand(page, newsz)
      PROVE  LargeAbstract!Next
  BY <1>4, ExpandKeeps, ResizeRefines
<1>5. ASSUME NEW page \in Pages, NEW minsz \in Sizes, NEW maxsz \in Sizes,
             Extend(page, minsz, maxsz)
      PROVE  LargeAbstract!Next
  BY <1>5, ExtendKeeps, ResizeRefines
<1>6. ASSUME NEW marked \in SUBSET Bases, LargeSweep(marked) PROVE LargeAbstract!Next
  <2>1. Bases' = marked /\ \A i \in marked : bPageOffsets'[i] = bPageOffsets[i]
    BY <1>6, SweepKeeps
  <2> QED
    BY <2>1, BlocksReleased
<1>7. CASE UNCHANGED lvars
  BY <1>7 DEF lvars, largeBlocks, Bases
<1> QED
  BY <1>1, <1>2, <1>3, <1>4, <1>5, <1>6, <1>7 DEF LargeNext

\* allocPages never hands out a page of a block in use, and what frees, shrinks,
\* extends or sweeps one block leaves the pages of the others as they are: the pool
\* implements a set of blocks that never overlap.
THEOREM LargePoolAllocates == LargeSpec => LargeImplements
<1>1. LargeInit => largeBlocks = {}
  BY DEF LargeInit, largeBlocks, Bases
<1>2. LargeInv /\ [LargeNext]_lvars => LargeAbstract!Next \/ UNCHANGED largeBlocks
  BY LargeNextRefines
<1>3. LargeSpec => LargeAbstract!Init /\ [][LargeAbstract!Next]_largeBlocks
  BY <1>1, <1>2, LargePoolConsistent, PTL DEF LargeSpec, LargeAbstract!Init
<1> QED
  BY <1>3 DEF LargeImplements, LargeAbstract!Spec
=============================================================================
