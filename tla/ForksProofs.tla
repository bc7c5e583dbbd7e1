---------------------------- MODULE ForksProofs -----------------------------
(***************************************************************************)
(* The allocator, the volume it starts from and the forks that hold its    *)
(* blocks, for a volume of any size.                                       *)
(*                                                                         *)
(* The allocator: the induction is on IInv.  NoCrossLink alone is not      *)
(* inductive, since what a new run must not meet is the bitmap, and the    *)
(* bitmap speaks for the extents only because BitmapExact says so; flush   *)
(* and Abandon need ClosedMeansSaved to carry this from one transaction to *)
(* the next.  Then the volume, as the formatter lays it out.               *)
(*                                                                         *)
(* The forks: the induction is on FInv, which says how far the operation   *)
(* in progress has come and what the records, the allocator and the bytes  *)
(* of the volume are at that point; the calls that serve it touch only the *)
(* trees' own forks.  It holds whatever the trees' forks do.  TInv adds    *)
(* what their descriptors and records are while they grow, and needs that  *)
(* the extents file itself does not overflow.                              *)
(***************************************************************************)
EXTENDS Forks, BitmapProofs, SequenceTheorems

-----------------------------------------------------------------------------
\* Every step of the allocator keeps its types.
LEMMA TypeStep == TypeOK /\ [Next]_vars => TypeOK'
<1> SUFFICES ASSUME TypeOK, [Next]_vars
             PROVE  TypeOK'
  OBVIOUS
<1>1. CASE newAllocator
  BY <1>1 DEF newAllocator, TypeOK
<1>2. ASSUME NEW c \in 1 .. TotalBlocks, Allocate(c)
      PROVE  TypeOK'
  <2>1. bitmap \in SUBSET Blocks
    BY DEF TypeOK
  <2>2. allocFragments(bitmap, c) \in SUBSET Extents
    BY <2>1, FragmentsSound
  <2>3. AllBlocks(allocFragments(bitmap, c)) \in SUBSET Blocks
    BY <2>1, FragmentsSound DEF Free
  <2> QED
    BY <1>2, <2>2, <2>3 DEF Allocate, TypeOK
<1>3. ASSUME NEW e \in owned, Release(e)
      PROVE  TypeOK'
  BY <1>3 DEF Release, freeRun, TypeOK
<1>4. CASE flush
  BY <1>4, FreeCountBound DEF flush, TypeOK
<1>5. CASE Abandon
  BY <1>5 DEF Abandon, TypeOK
<1>6. CASE UNCHANGED vars
  BY <1>6 DEF vars, TypeOK
<1> QED
  BY <1>1, <1>2, <1>3, <1>4, <1>5, <1>6 DEF Next

\* The type invariant: every step keeps bitmaps inside the volume and hands
\* out extents of the volume.
THEOREM TypeCorrect == Spec => []TypeOK
<1>1. Init => TypeOK
  BY ReservedAssumption, FreeCountBound DEF Init, TypeOK
<1>2. TypeOK /\ [Next]_vars => TypeOK'
  BY TypeStep
<1> QED
  BY <1>1, <1>2, PTL DEF Spec

-----------------------------------------------------------------------------
\* The inductive invariant of the allocator.
IInv ==
    /\ TypeOK
    /\ NoCrossLink
    /\ BitmapExact
    /\ ClosedMeansSaved

\* Joining non-overlapping extents with others that meet none of their blocks.
LEMMA DisjointUnion ==
    ASSUME NEW E \in SUBSET Extents, NEW F \in SUBSET Extents,
           Disjoint(E), Disjoint(F), AllBlocks(E) \cap AllBlocks(F) = {}
    PROVE  /\ Disjoint(E \cup F)
           /\ AllBlocks(E \cup F) = AllBlocks(E) \cup AllBlocks(F)
BY DEF Disjoint, AllBlocks

\* Taking one extent away takes exactly its blocks away.
LEMMA DisjointMinus ==
    ASSUME NEW E \in SUBSET Extents, NEW e \in E, Disjoint(E)
    PROVE  /\ Disjoint(E \ {e})
           /\ AllBlocks(E \ {e}) = AllBlocks(E) \ ExtentBlocks(e)
           /\ ExtentBlocks(e) \subseteq AllBlocks(E)
BY DEF Disjoint, AllBlocks

\* Allocate keeps the inductive invariant: the new runs miss the bitmap, which
\* is the reserved blocks and those of every extent held.
LEMMA AllocateKeeps ==
    ASSUME IInv, NEW c \in 1 .. TotalBlocks, Allocate(c)
    PROVE  NoCrossLink' /\ BitmapExact' /\ ClosedMeansSaved'
<1> DEFINE runs == allocFragments(bitmap, c)
<1>1. bitmap \in SUBSET Blocks /\ owned \in SUBSET Extents
  BY DEF IInv, TypeOK
<1>2. /\ runs \in SUBSET Extents
      /\ AllBlocks(runs) \subseteq Free(bitmap)
      /\ Disjoint(runs)
  BY <1>1, FragmentsSound
<1>3. /\ open
      /\ bitmap' = bitmap \cup AllBlocks(runs)
      /\ owned' = owned \cup runs
      /\ UNCHANGED <<image, freeBlocks, open, saved>>
  BY DEF Allocate
<1> HIDE DEF runs
<1>4. bitmap = Reserved \cup AllBlocks(owned)
  BY <1>3 DEF IInv, BitmapExact
<1>5. /\ AllBlocks(owned) \cap AllBlocks(runs) = {}
      /\ Reserved \cap AllBlocks(runs) = {}
  BY <1>2, <1>4 DEF Free
<1>6. Disjoint(owned) /\ AllBlocks(owned) \cap Reserved = {}
  BY DEF IInv, NoCrossLink
<1>7. /\ Disjoint(owned \cup runs)
      /\ AllBlocks(owned \cup runs) = AllBlocks(owned) \cup AllBlocks(runs)
  BY <1>1, <1>2, <1>5, <1>6, DisjointUnion
<1>8. NoCrossLink'
  <2>1. Disjoint(owned') /\ AllBlocks(owned') \cap Reserved = {}
    BY <1>3, <1>5, <1>6, <1>7
  <2>2. Disjoint(saved') /\ AllBlocks(saved') \cap Reserved = {}
    BY <1>3 DEF IInv, NoCrossLink
  <2> QED
    BY <2>1, <2>2 DEF NoCrossLink
<1>9. BitmapExact'
  BY <1>3, <1>4, <1>7 DEF IInv, BitmapExact
<1> QED
  BY <1>3, <1>8, <1>9 DEF ClosedMeansSaved

\* Release keeps the inductive invariant: no other extent has its blocks.
LEMMA ReleaseKeeps ==
    ASSUME IInv, NEW e \in owned, Release(e)
    PROVE  NoCrossLink' /\ BitmapExact' /\ ClosedMeansSaved'
<1>1. owned \in SUBSET Extents
  BY DEF IInv, TypeOK
<1>2. /\ open
      /\ bitmap' = bitmap \ ExtentBlocks(e)
      /\ owned' = owned \ {e}
      /\ UNCHANGED <<image, freeBlocks, open, saved>>
  BY DEF Release, freeRun
<1>3. Disjoint(owned) /\ AllBlocks(owned) \cap Reserved = {}
  BY DEF IInv, NoCrossLink
<1>4. /\ Disjoint(owned')
      /\ AllBlocks(owned') = AllBlocks(owned) \ ExtentBlocks(e)
      /\ ExtentBlocks(e) \subseteq AllBlocks(owned)
  BY <1>1, <1>2, <1>3, DisjointMinus
<1>5. NoCrossLink'
  <2>1. Disjoint(saved') /\ AllBlocks(saved') \cap Reserved = {}
    BY <1>2 DEF IInv, NoCrossLink
  <2> QED
    BY <1>3, <1>4, <2>1 DEF NoCrossLink
<1>6. bitmap = Reserved \cup AllBlocks(owned)
  BY <1>2 DEF IInv, BitmapExact
<1>7. bitmap' = Reserved \cup AllBlocks(owned')
  BY <1>2, <1>3, <1>4, <1>6
<1>8. BitmapExact'
  BY <1>2, <1>7 DEF IInv, BitmapExact
<1> QED
  BY <1>2, <1>5, <1>8 DEF ClosedMeansSaved

\* No bitmap without extents: nothing is held on a fresh volume.
LEMMA NoneHeld == AllBlocks({}) = {} /\ Disjoint({})
BY DEF AllBlocks, Disjoint

\* A fresh volume has the inductive invariant.
LEMMA StartsExact == Init => IInv
<1> SUFFICES ASSUME Init
             PROVE  IInv
  OBVIOUS
<1>1. TypeOK
  BY ReservedAssumption, FreeCountBound DEF Init, TypeOK
<1>2. NoCrossLink /\ BitmapExact /\ ClosedMeansSaved
  BY NoneHeld DEF Init, NoCrossLink, BitmapExact, ClosedMeansSaved
<1> QED
  BY <1>1, <1>2 DEF IInv

\* Every step of the allocator keeps the inductive invariant.
LEMMA StepExact == IInv /\ [Next]_vars => IInv'
<1> SUFFICES ASSUME IInv, [Next]_vars
             PROVE  NoCrossLink' /\ BitmapExact' /\ ClosedMeansSaved'
  BY TypeStep DEF IInv
<1>1. CASE newAllocator
  BY <1>1 DEF newAllocator, IInv, NoCrossLink, BitmapExact, ClosedMeansSaved
<1>2. ASSUME NEW c \in 1 .. TotalBlocks, Allocate(c)
      PROVE  NoCrossLink' /\ BitmapExact' /\ ClosedMeansSaved'
  BY <1>2, AllocateKeeps
<1>3. ASSUME NEW e \in owned, Release(e)
      PROVE  NoCrossLink' /\ BitmapExact' /\ ClosedMeansSaved'
  BY <1>3, ReleaseKeeps
<1>4. CASE flush
  BY <1>4 DEF flush, IInv, NoCrossLink, BitmapExact, ClosedMeansSaved
<1>5. CASE Abandon
  BY <1>5 DEF Abandon, IInv, NoCrossLink, BitmapExact, ClosedMeansSaved
<1>6. CASE UNCHANGED vars
  BY <1>6 DEF vars, IInv, NoCrossLink, BitmapExact, ClosedMeansSaved
<1> QED
  BY <1>1, <1>2, <1>3, <1>4, <1>5, <1>6 DEF Next

\* The inductive invariant holds in every state of the allocator.
THEOREM Invariance == Spec => []IInv
BY StartsExact, StepExact, PTL DEF Spec

\* Two forks never share a block, and no fork has a reserved one.
THEOREM NeverCrossLinked == Spec => []NoCrossLink
<1>1. IInv => NoCrossLink
  BY DEF IInv
<1> QED
  BY <1>1, Invariance, PTL

\* The bitmap in the image, and the one of the open transaction, have a bit set
\* exactly for the blocks in use: nothing leaks and nothing dangles.
THEOREM BitmapAlwaysExact == Spec => []BitmapExact
<1>1. IInv => BitmapExact
  BY DEF IInv
<1> QED
  BY <1>1, Invariance, PTL

\* The header's freeBlocks field is the number of clear bits in the image.
THEOREM FreeBlocksAlwaysExact == Spec => []FreeBlocksExact
<1>1. Init => FreeBlocksExact
  BY DEF Init, FreeBlocksExact
<1>2. FreeBlocksExact /\ [Next]_vars => FreeBlocksExact'
  BY DEF FreeBlocksExact, Next, vars, newAllocator, Allocate, Release, flush,
         Abandon
<1> QED
  BY <1>1, <1>2, PTL DEF Spec

-----------------------------------------------------------------------------
(* What the formatter's layout guarantees for every volume it accepts and  *)
(* every block size, node size and reservation.  The sizes of the regions  *)
(* enter only through the comparisons of layout, so the proofs first bring *)
(* them down to naturals (Sizes) and then compare ends with beginnings.    *)

\* Rounding up gives a natural number, large enough to hold what was divided.
LEMMA CeilDivHolds ==
    ASSUME NEW a \in Nat, NEW b \in Nat \ {0}
    PROVE  CeilDiv(a, b) \in Nat /\ CeilDiv(a, b) * b >= a
<1> DEFINE n == a + b - 1
<1>1. n \in Nat
  OBVIOUS
<1>2. n \div b \in Nat /\ n % b \in 0 .. (b - 1) /\ n = b * (n \div b) + (n % b)
  BY <1>1, Z3
<1>3. b * (n \div b) >= a
  BY <1>2
<1> QED
  BY <1>2, <1>3 DEF CeilDiv

\* The sizes layout computes are whole numbers of blocks, and none is empty
\* but, possibly, the smallest catalog.
LEMMA Sizes ==
    ASSUME NEW total \in Nat
    PROVE  /\ allocBlocks(total) \in Nat \ {0}
           /\ extBlocks \in Nat \ {0}
           /\ wantedCatBlocks \in Nat \ {0}
           /\ minCat \in Nat \ {0}
<1>1. CeilDiv(total, 8) \in Nat
  BY CeilDivHolds
<1>2. CeilDiv(CeilDiv(total, 8), BlockSize) \in Nat
  BY <1>1, CeilDivHolds, MkfsAssumption
<1>3. NodeSize * 2 \in Nat /\ NodeSize * ReserveNodes \in Nat
  BY MkfsAssumption
<1>4. (NodeSize * 2) \div BlockSize \in Nat
  BY <1>3, MkfsAssumption, Z3
<1>5. CeilDiv(NodeSize * ReserveNodes, BlockSize) \in Nat
  BY <1>3, CeilDivHolds, MkfsAssumption
<1>6. CeilDiv(NodeSize * 2, BlockSize) \in Nat \ {0}
  <2>1. /\ CeilDiv(NodeSize * 2, BlockSize) \in Nat
        /\ CeilDiv(NodeSize * 2, BlockSize) * BlockSize >= NodeSize * 2
    BY <1>3, CeilDivHolds, MkfsAssumption
  <2> QED
    BY <2>1, MkfsAssumption
<1> QED
  BY <1>2, <1>4, <1>5, <1>6
     DEF allocBlocks, extBlocks, wantedCatBlocks, minCat, minCatalogNodes,
         AtLeastOne

\* Where the regions begin and end: each begins where the one before it ends,
\* and the catalog ends before the last block.
LEMMA Ordered ==
    ASSUME NEW total \in Nat, ~TooSmall(total)
    PROVE  /\ catBlocks(total) \in Nat \ {0}
           /\ extStart(total) = 1 + allocBlocks(total)
           /\ catStart(total) = 1 + allocBlocks(total) + extBlocks
           /\ catStart(total) + catBlocks(total) <= total - 1
BY Sizes DEF TooSmall, catBlocks, fixed, extStart, catStart, allocStart

\* mkfs.go: the reservation "must never be larger than the volume".  Whatever
\* the size of the volume, if layout accepts it then no two of the headers, the
\* bitmap and the two trees share a block, and none runs past the image.
THEOREM RegionsFit ==
    ASSUME NEW total \in Nat, ~TooSmall(total)
    PROVE  /\ \A r \in DOMAIN Regions(total) : Regions(total)[r] \subseteq 0 .. (total - 1)
           /\ \A r, q \in DOMAIN Regions(total) :
                 r # q => Regions(total)[r] \cap Regions(total)[q] = {}
<1> DEFINE a == allocBlocks(total)
           x == extBlocks
           c == catBlocks(total)
<1>1. /\ a \in Nat \ {0} /\ x \in Nat \ {0} /\ c \in Nat \ {0}
      /\ 1 + a + x + c <= total - 1
  BY Sizes, Ordered
<1>2. Regions(total) =
        [header |-> 0 .. 0, bitmap |-> 1 .. a, extents |-> (1 + a) .. (a + x),
         catalog |-> (1 + a + x) .. (a + x + c),
         alternate |-> (total - 1) .. (total - 1)]
  <2>1. /\ markUsed(0, 1) = 0 .. 0
        /\ markUsed(allocStart, a) = 1 .. a
        /\ markUsed(extStart(total), x) = (1 + a) .. (a + x)
        /\ markUsed(catStart(total), c) = (1 + a + x) .. (a + x + c)
        /\ markUsed(total - 1, 1) = (total - 1) .. (total - 1)
    BY <1>1, Ordered DEF markUsed, allocStart
  <2> QED
    BY <2>1 DEF Regions
<1> HIDE DEF a, x, c
<1> QED
  BY <1>1, <1>2

\* The bitmap has a bit for every block of the volume.
THEOREM BitmapHoldsVolume ==
    ASSUME NEW total \in Nat
    PROVE  8 * (allocBlocks(total) * BlockSize) >= total
<1> DEFINE bytes == CeilDiv(total, 8)
<1>1. bytes \in Nat /\ bytes * 8 >= total
  BY CeilDivHolds
<1>2. CeilDiv(bytes, BlockSize) \in Nat /\ CeilDiv(bytes, BlockSize) * BlockSize >= bytes
  BY <1>1, CeilDivHolds, MkfsAssumption
<1>3. /\ allocBlocks(total) * BlockSize \in Nat
      /\ allocBlocks(total) * BlockSize >= bytes
  <2>1. CASE CeilDiv(bytes, BlockSize) = 0
    BY <1>1, <1>2, <2>1, MkfsAssumption DEF allocBlocks, AtLeastOne
  <2>2. CASE CeilDiv(bytes, BlockSize) # 0
    BY <1>1, <1>2, <2>2, MkfsAssumption DEF allocBlocks, AtLeastOne
  <2> QED
    BY <2>1, <2>2
<1> HIDE DEF bytes
<1> QED
  BY <1>1, <1>3

\* The catalog has room for its header node and a leaf, however small the
\* volume made it.
THEOREM CatalogHoldsTree ==
    ASSUME NEW total \in Nat, ~TooSmall(total)
    PROVE  catBlocks(total) * BlockSize >= NodeSize * minCatalogNodes
<1> DEFINE need == NodeSize * minCatalogNodes
           wish == NodeSize * ReserveNodes
<1>1. need \in Nat \ {0} /\ wish \in Nat /\ wish >= need
  <2>1. minCatalogNodes = 2
    BY DEF minCatalogNodes
  <2>2. NodeSize \in Nat \ {0} /\ ReserveNodes \in Nat /\ ReserveNodes >= 2
    BY <2>1, MkfsAssumption
  <2>3. NodeSize * ReserveNodes >= NodeSize * 2
    BY <2>2, Z3
  <2> QED
    BY <2>1, <2>2, <2>3
<1> HIDE DEF need, wish
<1>2. CeilDiv(need, BlockSize) * BlockSize >= need
  BY <1>1, CeilDivHolds, MkfsAssumption
<1>3. /\ CeilDiv(wish, BlockSize) \in Nat
      /\ CeilDiv(wish, BlockSize) * BlockSize >= need
  BY <1>1, CeilDivHolds, MkfsAssumption
<1>4. wantedCatBlocks * BlockSize >= need
  <2>1. CeilDiv(wish, BlockSize) # 0
    BY <1>1, <1>3, MkfsAssumption
  <2> QED
    BY <1>3, <2>1 DEF wantedCatBlocks, AtLeastOne, wish
<1>5. /\ catBlocks(total) \in Nat
      /\ catBlocks(total) = wantedCatBlocks \/ catBlocks(total) >= minCat
  BY Sizes, Ordered DEF TooSmall, catBlocks, fixed
<1>6. minCat * BlockSize >= need
  BY <1>2 DEF minCat, need
<1>7. CASE catBlocks(total) = wantedCatBlocks
  BY <1>4, <1>7 DEF need
<1>8. CASE catBlocks(total) >= minCat
  <2>1. catBlocks(total) * BlockSize >= minCat * BlockSize
    BY <1>5, <1>8, Sizes, MkfsAssumption, Z3
  <2>2. /\ catBlocks(total) * BlockSize \in Nat
        /\ minCat * BlockSize \in Nat
    BY <1>5, Sizes, MkfsAssumption
  <2> QED
    BY <1>1, <1>6, <2>1, <2>2 DEF need
<1> QED
  BY <1>5, <1>7, <1>8

\* The header's freeBlocks is total - usedBlocks, in unsigned arithmetic.  The
\* counter that markUsed advances, block by block and region by region, is the
\* number of bits that are set and never more than the volume has blocks, so the
\* subtraction does not wrap and the field is the number of clear bits.
THEOREM UsedBlocksExact ==
    ASSUME NEW total \in Nat, ~TooSmall(total)
    PROVE  /\ Cardinality(UsedBlocks(total)) = usedBlocks(total)
           /\ usedBlocks(total) <= total
           /\ headerFree(total) = total - Cardinality(UsedBlocks(total))
<1> DEFINE a == allocBlocks(total)
           x == extBlocks
           c == catBlocks(total)
           end == a + x + c
<1>1. /\ a \in Nat \ {0} /\ x \in Nat \ {0} /\ c \in Nat \ {0}
      /\ 1 + a + x + c <= total - 1
      /\ extStart(total) = 1 + a /\ catStart(total) = 1 + a + x
  BY Sizes, Ordered
<1>2. UsedBlocks(total) = (0 .. end) \cup {total - 1}
  <2>1. UsedBlocks(total) =
          markUsed(0, 1) \cup markUsed(1, a) \cup markUsed(1 + a, x)
          \cup markUsed(1 + a + x, c) \cup markUsed(total - 1, 1)
    <3>1. DOMAIN Regions(total) =
            {"header", "bitmap", "extents", "catalog", "alternate"}
      BY DEF Regions
    <3>2. /\ Regions(total)["header"] = markUsed(0, 1)
          /\ Regions(total)["bitmap"] = markUsed(1, a)
          /\ Regions(total)["extents"] = markUsed(1 + a, x)
          /\ Regions(total)["catalog"] = markUsed(1 + a + x, c)
          /\ Regions(total)["alternate"] = markUsed(total - 1, 1)
      BY <1>1 DEF Regions, allocStart
    <3> HIDE DEF a, x, c
    <3> QED
      BY <3>1, <3>2 DEF UsedBlocks
  <2> HIDE DEF a, x, c
  <2> QED
    BY <1>1, <2>1 DEF markUsed, end
<1>3. IsFiniteSet(0 .. end) /\ Cardinality(0 .. end) = end + 1
  <2>1. end \in Nat
    BY <1>1
  <2> HIDE DEF end
  <2> QED
    BY <2>1, FS_Interval
<1>4. total - 1 \notin 0 .. end
  BY <1>1
<1>5. Cardinality((0 .. end) \cup {total - 1}) = end + 2
  <2>1. end \in Nat
    BY <1>1
  <2> HIDE DEF end
  <2>2. Cardinality((0 .. end) \cup {total - 1}) = Cardinality(0 .. end) + 1
    BY <1>3, <1>4, FS_AddElement, Zenon
  <2> QED
    BY <1>3, <2>1, <2>2
<1>6. usedBlocks(total) = end + 2
  BY <1>1 DEF usedBlocks
<1> QED
  BY <1>1, <1>2, <1>5, <1>6 DEF headerFree

\* A formatted volume is one the allocator can start from: the blocks mkfs
\* marks lie in the volume, which ReservedAssumption asks for, and the free
\* count it writes into the header is the one flush would write.
THEOREM FormattedCountsAgree ==
    ASSUME ~TooSmall(TotalBlocks)
    PROVE  /\ UsedBlocks(TotalBlocks) \subseteq Blocks
           /\ headerFree(TotalBlocks) = freeCount(UsedBlocks(TotalBlocks))
<1> DEFINE U == UsedBlocks(TotalBlocks)
<1>1. TotalBlocks \in Nat
  BY TotalBlocksAssumption
<1>2. U \subseteq Blocks
  BY <1>1, RegionsFit DEF UsedBlocks, Blocks
<1>3. headerFree(TotalBlocks) = TotalBlocks - Cardinality(U)
  BY <1>1, UsedBlocksExact
<1>4. IsFiniteSet(Blocks) /\ Cardinality(Blocks) = TotalBlocks
  BY <1>1, FS_Interval, TotalBlocksAssumption DEF Blocks
<1> HIDE DEF U
<1>5. Cardinality(Blocks \ U) = Cardinality(Blocks) - Cardinality(Blocks \cap U)
  BY <1>4, FS_Difference
<1>6. Blocks \cap U = U
  BY <1>2
<1> QED
  BY <1>2, <1>3, <1>4, <1>5, <1>6 DEF freeCount, Free, U

-----------------------------------------------------------------------------
(* Induction and iteration over numbers.                                   *)

\* What holds of the first number and passes from each to the next holds of all.
LEMMA Inducts ==
    ASSUME NEW S, NEW a \in Nat, NEW b \in Nat, a \in S,
           \A n \in a .. b : n \in S /\ n < b => n + 1 \in S
    PROVE  a .. b \subseteq S
<1> SUFFICES ASSUME ~(a .. b \subseteq S) PROVE FALSE
  OBVIOUS
<1> DEFINE B == {n \in a .. b : n \notin S}
<1>1. B \in SUBSET Nat /\ B # {}
  OBVIOUS
<1>2. PICK m \in B : \A x \in B : m <= x
  <2> HIDE DEF B
  <2> QED
    BY <1>1, MinIsLeast
<1>3. m \in a .. b /\ m \notin S /\ m # a
  BY <1>2
<1>4. m - 1 \in a .. b /\ m - 1 < b /\ (m - 1) + 1 = m
  BY <1>3
<1>5. m - 1 \notin B
  BY <1>2, <1>3, <1>4
<1> QED
  BY <1>3, <1>4, <1>5

\* A function given by its first value and by how each follows the one before.
Iteration(f, s0, N, G) == f[0] = s0 /\ \A i \in 1 .. N : f[i] = G[<<i, f[i - 1]>>]

\* The next place of a sequence.
LEMMA NextPlace ==
    ASSUME NEW N \in Nat, NEW n \in 0 .. N, n < N
    PROVE  n + 1 \in 1 .. N /\ (n + 1) - 1 = n /\ n + 1 \in 0 .. N
OBVIOUS

\* A function applied over and over has a sequence of results.
LEMMA Iterates ==
    ASSUME NEW S, NEW s0 \in S, NEW N \in Nat, NEW G \in [(1 .. N) \X S -> S]
    PROVE  \E f \in [0 .. N -> S] : Iteration(f, s0, N, G)
<1> DEFINE P(n) == \E f \in [0 .. n -> S] :
                      f[0] = s0 /\ \A i \in 1 .. n : f[i] = G[<<i, f[i - 1]>>]
           Q == {n \in 0 .. N : P(n)}
<1>1. 0 \in Q
  <2> DEFINE f0 == [i \in 0 .. 0 |-> s0]
  <2>1. f0 \in [0 .. 0 -> S] /\ f0[0] = s0 /\ \A i \in 1 .. 0 : f0[i] = G[<<i, f0[i - 1]>>]
    OBVIOUS
  <2> HIDE DEF f0
  <2>2. P(0)
    BY <2>1
  <2> QED
    BY <2>2
<1>2. ASSUME NEW n \in 0 .. N, n \in Q, n < N
      PROVE  n + 1 \in Q
  <2>1. PICK f \in [0 .. n -> S] : f[0] = s0 /\ \A i \in 1 .. n : f[i] = G[<<i, f[i - 1]>>]
    BY <1>2
  <2> DEFINE g == [i \in 0 .. n + 1 |-> IF i = n + 1 THEN G[<<n + 1, f[n]>>] ELSE f[i]]
  <2>2. f[n] \in S /\ n + 1 \in 1 .. N
    BY <1>2
  <2>3. G[<<n + 1, f[n]>>] \in S
    BY <2>2
  <2>4. g \in [0 .. n + 1 -> S]
    BY <2>3
  <2>5. g[0] = s0
    BY <2>1
  <2>6. ASSUME NEW i \in 1 .. n + 1
        PROVE  g[i] = G[<<i, g[i - 1]>>]
    <3>1. CASE i = n + 1
      <4>1. i - 1 = n /\ n \in 0 .. n + 1 /\ n # n + 1
        BY <3>1
      <4>2. g[i] = G[<<n + 1, f[n]>>] /\ g[n] = f[n]
        BY <3>1, <4>1
      <4> HIDE DEF g
      <4> QED
        BY <3>1, <4>1, <4>2
    <3>2. CASE i # n + 1
      <4>1. i \in 1 .. n /\ i - 1 \in 0 .. n /\ i \in 0 .. n
        BY <3>2
      <4>2. g[i] = f[i] /\ g[i - 1] = f[i - 1]
        BY <4>1
      <4> QED
        BY <4>1, <4>2, <2>1
    <3> QED
      BY <3>1, <3>2
  <2> HIDE DEF g
  <2>7. P(n + 1)
    BY <2>4, <2>5, <2>6
  <2> QED
    BY <2>2, <2>7
<1>3. 0 .. N \subseteq Q
  <2> HIDE DEF Q
  <2> QED
    BY <1>1, <1>2, Inducts
<1> QED
  BY <1>3 DEF Iteration

\* The parts of a sequence of sequences, one after the other.
Joins(g, ss, N) ==
    /\ g[0] = <<>> /\ g[N] = FlattenSeq(ss)
    /\ \A i \in 1 .. N : g[i] = g[i - 1] \o ss[i]

\* FlattenSeq, sequence by sequence.
LEMMA FlattenIs ==
    ASSUME NEW T, NEW N \in Nat \ {0}, NEW ss \in [1 .. N -> Seq(T)]
    PROVE  \E g \in [0 .. N -> Seq(T)] : Joins(g, ss, N)
<1> DEFINE G == [p \in (1 .. N) \X Seq(T) |-> p[2] \o ss[p[1]]]
           P(g) == g = [i \in 1 .. N |-> IF i = 1 THEN ss[i] ELSE g[i - 1] \o ss[i]]
<1>1. ASSUME NEW v \in Seq(T), NEW i \in 1 .. N
      PROVE  v \o ss[i] \in Seq(T)
  OBVIOUS
<1>2. G \in [(1 .. N) \X Seq(T) -> Seq(T)]
  <2>1. ASSUME NEW p \in (1 .. N) \X Seq(T) PROVE p[2] \o ss[p[1]] \in Seq(T)
    <3>1. p[1] \in 1 .. N /\ p[2] \in Seq(T)
      OBVIOUS
    <3> QED
      BY <3>1, <1>1
  <2> QED
    BY <2>1
<1>3. ASSUME NEW i \in 1 .. N, NEW x \in Seq(T)
      PROVE  G[<<i, x>>] = x \o ss[i]
  OBVIOUS
<1> HIDE DEF G
<1>4. <<>> \in Seq(T)
  OBVIOUS
<1>5. PICK f \in [0 .. N -> Seq(T)] : Iteration(f, <<>>, N, G)
  BY <1>2, <1>4, Iterates
<1>6. f[0] = <<>> /\ \A i \in 1 .. N : f[i] = f[i - 1] \o ss[i]
  <2>1. \A i \in 1 .. N : f[i - 1] \in Seq(T)
    OBVIOUS
  <2> QED
    BY <2>1, <1>3, <1>5 DEF Iteration
<1>7. f[1] = ss[1]
  <2>1. 1 \in 1 .. N /\ 1 - 1 = 0
    OBVIOUS
  <2>2. f[1] = <<>> \o ss[1]
    BY <2>1, <1>6
  <2>3. ss[1] \in Seq(T)
    BY <2>1
  <2> QED
    BY <2>2, <2>3, ConcatEmptySeq
<1> DEFINE h == [i \in 1 .. N |-> f[i]]
<1>8. P(h)
  <2>1. ASSUME NEW i \in 1 .. N
        PROVE  h[i] = IF i = 1 THEN ss[i] ELSE h[i - 1] \o ss[i]
    <3>1. CASE i = 1
      BY <3>1, <1>7
    <3>2. CASE i # 1
      <4>1. i - 1 \in 1 .. N
        BY <3>2
      <4>2. h[i - 1] = f[i - 1] /\ h[i] = f[i]
        BY <4>1
      <4> HIDE DEF h
      <4> QED
        BY <3>2, <4>2, <1>6
    <3> QED
      BY <3>1, <3>2
  <2>2. h = [i \in 1 .. N |-> h[i]]
    OBVIOUS
  <2> HIDE DEF h
  <2> QED
    BY <2>1, <2>2
<1> DEFINE g == CHOOSE y : P(y)
<1>9. P(g)
  BY <1>8
<1>10. Len(ss) = N
  OBVIOUS
<1>11. FlattenSeq(ss) = g[N]
  BY <1>10 DEF FlattenSeq
<1> HIDE DEF g, h
<1>12. \A i \in 1 .. N : g[i] = IF i = 1 THEN ss[i] ELSE g[i - 1] \o ss[i]
  BY <1>9
<1> HIDE DEF P
<1> DEFINE S == {i \in 1 .. N : g[i] = f[i]}
<1>13. 1 .. N \subseteq S
  <2>1. 1 \in S
    BY <1>7, <1>12
  <2>2. ASSUME NEW n \in 1 .. N, n \in S, n < N
        PROVE  n + 1 \in S
    <3>1. n + 1 \in 1 .. N /\ (n + 1) - 1 = n /\ n + 1 # 1
      BY <2>2
    <3>2. g[n + 1] = g[n] \o ss[n + 1]
      BY <3>1, <1>12
    <3>3. f[n + 1] = f[n] \o ss[n + 1]
      BY <3>1, <1>6
    <3> QED
      BY <3>1, <3>2, <3>3, <2>2
  <2> HIDE DEF S
  <2> QED
    BY <2>1, <2>2, Inducts
<1>14. f[N] = FlattenSeq(ss)
  BY <1>11, <1>13
<1> QED
  BY <1>6, <1>14 DEF Joins

\* The smaller of two numbers.
LEMMA MinOfTwo ==
    ASSUME NEW a \in Nat, NEW b \in Nat
    PROVE  Min({a, b}) = IF a <= b THEN a ELSE b
<1>1. {a, b} \in SUBSET Nat /\ {a, b} # {}
  OBVIOUS
<1>2. Min({a, b}) \in {a, b} /\ \A x \in {a, b} : Min({a, b}) <= x
  BY <1>1, MinIsLeast
<1> QED
  BY <1>2

-----------------------------------------------------------------------------
(* Running sums over extent lists.                                         *)

\* The blocks of the first extents, extent by extent.
LEMMA BlocksStep ==
    ASSUME NEW ext \in Seq(Extents)
    PROVE  /\ BlocksUpTo(ext) \in [0 .. Len(ext) -> Nat]
           /\ BlocksUpTo(ext)[0] = 0
           /\ \A i \in 1 .. Len(ext) : BlocksUpTo(ext)[i] = BlocksUpTo(ext)[i - 1] + ext[i].count
<1> DEFINE N == Len(ext)
           z == [i \in 1 .. N |-> ext[i].count]
           G == [p \in (1 .. N) \X Nat |-> p[2] + z[p[1]]]
           P(g) == g = [i \in 0 .. N |-> IF i = 0 THEN 0 ELSE g[i - 1] + ext[i].count]
<1>1. N \in Nat
  OBVIOUS
<1>2. \A i \in 1 .. N : z[i] \in Nat /\ z[i] = ext[i].count
  <2> SUFFICES ASSUME NEW i \in 1 .. N PROVE z[i] \in Nat
    OBVIOUS
  <2>1. ext[i] \in Extents
    OBVIOUS
  <2> QED
    BY <2>1, TotalBlocksAssumption DEF Extents
<1> HIDE DEF z
<1>3. G \in [(1 .. N) \X Nat -> Nat]
  BY <1>2
<1>4. ASSUME NEW i \in 1 .. N, NEW x \in Nat
      PROVE  G[<<i, x>>] = x + z[i]
  BY <1>2
<1> HIDE DEF G
<1>13. 0 \in Nat
  OBVIOUS
<1> HIDE DEF N
<1>5. PICK f \in [0 .. N -> Nat] : Iteration(f, 0, N, G)
  BY <1>1, <1>3, <1>13, Iterates
<1>6. f[0] = 0 /\ \A i \in 1 .. N : f[i] = f[i - 1] + z[i]
  <2>1. \A i \in 1 .. N : f[i - 1] \in Nat
    BY <1>1
  <2> QED
    BY <2>1, <1>4, <1>5 DEF Iteration
<1> USE DEF N
<1>7. P(f)
  BY <1>1, <1>2, <1>6
<1> DEFINE g == BlocksUpTo(ext)
<1>8. g = CHOOSE h : P(h)
  BY DEF BlocksUpTo
<1>9. P(g)
  BY <1>7, <1>8
<1> HIDE DEF g
<1>10. DOMAIN g = 0 .. N /\ g[0] = 0 /\ \A i \in 1 .. N : g[i] = g[i - 1] + z[i]
  <2>1. DOMAIN g = 0 .. N /\ g[0] = 0
    BY <1>1, <1>9
  <2>2. \A i \in 1 .. N : g[i] = g[i - 1] + ext[i].count
    BY <1>1, <1>9, SMTT(20)
  <2> QED
    BY <2>1, <2>2, <1>2
<1> DEFINE S == {i \in 0 .. N : g[i] \in Nat}
<1>11. 0 .. N \subseteq S
  <2>1. 0 \in S
    BY <1>1, <1>10
  <2>2. ASSUME NEW n \in 0 .. N, n \in S, n < N
        PROVE  n + 1 \in S
    <3>1. n + 1 \in 1 .. N /\ (n + 1) - 1 = n
      BY <1>1, <2>2
    <3>2. g[n + 1] = g[n] + z[n + 1]
      BY <3>1, <1>10
    <3> QED
      BY <3>1, <3>2, <2>2, <1>2
  <2> HIDE DEF S
  <2> QED
    BY <1>1, <2>1, <2>2, Inducts
<1>12. g \in [0 .. N -> Nat]
  BY <1>9, <1>11
<1> QED
  BY <1>2, <1>10, <1>12 DEF g

\* What an extent list is made of.
LEMMA ListFacts ==
    ASSUME NEW ext \in Seq(Extents)
    PROVE  /\ Len(ext) \in Nat /\ DOMAIN ext = 1 .. Len(ext)
           /\ \A i \in 1 .. Len(ext) : /\ ext[i] \in Extents
                                       /\ ext[i].start \in Nat /\ ext[i].count \in Nat \ {0}
<1>1. \A e \in Extents : e.start \in Nat /\ e.count \in Nat \ {0}
  BY TotalBlocksAssumption DEF Extents, Blocks
<1>2. Len(ext) \in Nat /\ DOMAIN ext = 1 .. Len(ext) /\ \A i \in 1 .. Len(ext) : ext[i] \in Extents
  OBVIOUS
<1> QED
  BY <1>1, <1>2

\* Every extent adds blocks.
LEMMA BlocksGrow ==
    ASSUME NEW ext \in Seq(Extents), NEW i \in 0 .. Len(ext), NEW j \in i .. Len(ext)
    PROVE  /\ BlocksUpTo(ext)[i] \in Nat /\ BlocksUpTo(ext)[j] \in Nat
           /\ BlocksUpTo(ext)[i] + (j - i) <= BlocksUpTo(ext)[j]
<1> DEFINE N == Len(ext)
           B == BlocksUpTo(ext)
           S == {n \in i .. N : B[i] + (n - i) <= B[n]}
<1>1. /\ N \in Nat
      /\ B \in [0 .. N -> Nat]
      /\ \A n \in 1 .. N : B[n] = B[n - 1] + ext[n].count
      /\ \A n \in 1 .. N : ext[n].count \in Nat \ {0}
  BY BlocksStep, ListFacts
<1> HIDE DEF N, B
<1>2. i \in 0 .. N /\ j \in i .. N /\ i \in Nat
  BY <1>1 DEF N
<1>3. i \in S
  BY <1>1, <1>2
<1>4. ASSUME NEW n \in i .. N, n \in S, n < N PROVE n + 1 \in S
  <2>1. n + 1 \in 1 .. N /\ (n + 1) - 1 = n /\ n \in 0 .. N
    BY <1>1, <1>2, <1>4
  <2>2. B[n + 1] = B[n] + ext[n + 1].count /\ ext[n + 1].count \in Nat \ {0} /\ B[n] \in Nat /\ B[i] \in Nat
    BY <2>1, <1>1, <1>2
  <2>3. B[i] + (n - i) <= B[n] /\ n + 1 \in i .. N /\ n \in Nat
    BY <2>1, <1>1, <1>2, <1>4
  <2>4. B[i] + ((n + 1) - i) <= B[n + 1]
    BY <2>2, <2>3, <1>2
  <2> QED
    BY <2>3, <2>4
<1> HIDE DEF S
<1>5. i .. N \subseteq S
  BY <1>1, <1>2, <1>3, <1>4, Inducts
<1>6. B[i] + (j - i) <= B[j] /\ B[i] \in Nat /\ B[j] \in Nat
  BY <1>1, <1>2, <1>5 DEF S
<1> QED
  BY <1>6 DEF B

\* Lists that begin alike.
LEMMA BlocksAlike ==
    ASSUME NEW e \in Seq(Extents), NEW g \in Seq(Extents), NEW a \in 0 .. Len(g), NEW n \in Nat,
           n <= Len(e), a + n <= Len(g), \A i \in 1 .. n : e[i] = g[a + i]
    PROVE  \A i \in 0 .. n : BlocksUpTo(g)[a + i] = BlocksUpTo(g)[a] + BlocksUpTo(e)[i]
<1> DEFINE S == {i \in 0 .. n : BlocksUpTo(g)[a + i] = BlocksUpTo(g)[a] + BlocksUpTo(e)[i]}
<1>1. /\ Len(e) \in Nat /\ Len(g) \in Nat /\ a \in Nat
      /\ BlocksUpTo(e) \in [0 .. Len(e) -> Nat] /\ BlocksUpTo(g) \in [0 .. Len(g) -> Nat]
      /\ BlocksUpTo(e)[0] = 0
  BY BlocksStep
<1>2. 0 \in S
  BY <1>1
<1>3. ASSUME NEW i \in 0 .. n, i \in S, i < n PROVE i + 1 \in S
  <2>1. /\ i + 1 \in 1 .. n /\ i + 1 \in 1 .. Len(e) /\ (i + 1) - 1 = i /\ i \in 0 .. Len(e)
        /\ a + (i + 1) \in 1 .. Len(g) /\ (a + (i + 1)) - 1 = a + i /\ a + i \in 0 .. Len(g)
    BY <1>1, <1>3
  <2>2. BlocksUpTo(e)[i + 1] = BlocksUpTo(e)[i] + e[i + 1].count
    BY <2>1, BlocksStep
  <2>3. BlocksUpTo(g)[a + (i + 1)] = BlocksUpTo(g)[a + i] + g[a + (i + 1)].count
    BY <2>1, BlocksStep
  <2>4. e[i + 1] = g[a + (i + 1)] /\ e[i + 1].count \in Nat
    BY <2>1, ListFacts
  <2>5. BlocksUpTo(e)[i] \in Nat /\ BlocksUpTo(g)[a] \in Nat /\ BlocksUpTo(g)[a + i] = BlocksUpTo(g)[a] + BlocksUpTo(e)[i]
    BY <2>1, <1>1, <1>3
  <2>6. BlocksUpTo(g)[a + (i + 1)] = BlocksUpTo(g)[a] + BlocksUpTo(e)[i + 1]
    BY <2>2, <2>3, <2>4, <2>5
  <2> QED
    BY <2>1, <2>6
<1> HIDE DEF S
<1>4. 0 .. n \subseteq S
  BY <1>2, <1>3, Inducts
<1> USE DEF S
<1> QED
  BY <1>4

\* Two lists, one after the other.
LEMMA CountedBoth ==
    ASSUME NEW e \in Seq(Extents), NEW g \in Seq(Extents)
    PROVE  /\ e \o g \in Seq(Extents)
           /\ Counted(e) \in Nat /\ Counted(g) \in Nat
           /\ Counted(e \o g) = Counted(e) + Counted(g)
           /\ \A i \in 0 .. Len(e) : BlocksUpTo(e \o g)[i] = BlocksUpTo(e)[i]
<1> DEFINE q == e \o g
<1>1. /\ q \in Seq(Extents) /\ Len(q) = Len(e) + Len(g) /\ Len(e) \in Nat /\ Len(g) \in Nat
      /\ \A i \in 1 .. Len(e) : q[i] = e[i]
      /\ \A i \in 1 .. Len(g) : q[Len(e) + i] = g[i]
  OBVIOUS
<1> HIDE DEF q
<1>2. BlocksUpTo(q)[0] = 0 /\ BlocksUpTo(e) \in [0 .. Len(e) -> Nat] /\ BlocksUpTo(g) \in [0 .. Len(g) -> Nat]
  BY <1>1, BlocksStep
<1>3. \A i \in 0 .. Len(e) : BlocksUpTo(q)[0 + i] = BlocksUpTo(q)[0] + BlocksUpTo(e)[i]
  <2>1. 0 \in 0 .. Len(q) /\ Len(e) <= Len(e) /\ 0 + Len(e) <= Len(q) /\ \A i \in 1 .. Len(e) : e[i] = q[0 + i]
    BY <1>1
  <2> QED
    BY <1>1, <2>1, BlocksAlike
<1>4. \A i \in 0 .. Len(e) : BlocksUpTo(q)[i] = BlocksUpTo(e)[i]
  <2> SUFFICES ASSUME NEW i \in 0 .. Len(e) PROVE BlocksUpTo(q)[i] = BlocksUpTo(e)[i]
    OBVIOUS
  <2>1. 0 + i = i /\ BlocksUpTo(e)[i] \in Nat
    BY <1>2
  <2> QED
    BY <2>1, <1>2, <1>3
<1>5. \A i \in 0 .. Len(g) : BlocksUpTo(q)[Len(e) + i] = BlocksUpTo(q)[Len(e)] + BlocksUpTo(g)[i]
  <2>1. Len(e) \in 0 .. Len(q) /\ Len(g) <= Len(g) /\ Len(e) + Len(g) <= Len(q)
        /\ \A i \in 1 .. Len(g) : g[i] = q[Len(e) + i]
    BY <1>1
  <2> QED
    BY <1>1, <2>1, BlocksAlike
<1>6. Len(e) \in 0 .. Len(e) /\ Len(g) \in 0 .. Len(g)
  BY <1>1
<1>7. Counted(q) = Counted(e) + Counted(g) /\ Counted(e) \in Nat /\ Counted(g) \in Nat
  BY <1>1, <1>2, <1>4, <1>5, <1>6 DEF Counted
<1> QED
  BY <1>1, <1>4, <1>7 DEF q

-----------------------------------------------------------------------------
(* Sequences of anything.                                                  *)

\* A sequence, of whatever.
IsSeq(s) == \E S : s \in Seq(S)

\* What is left of a sequence after its first j members.
From(s, j) == SubSeq(s, j + 1, Len(s))

\* What makes a sequence.
LEMMA SeqFacts ==
    ASSUME NEW s, IsSeq(s)
    PROVE  /\ Len(s) \in Nat /\ DOMAIN s = 1 .. Len(s)
           /\ s = [i \in 1 .. Len(s) |-> s[i]]
           /\ s = <<>> <=> Len(s) = 0
BY DEF IsSeq

\* A function on the first numbers is a sequence.
LEMMA SeqIs ==
    ASSUME NEW s, NEW n \in Nat, DOMAIN s = 1 .. n, s = [i \in DOMAIN s |-> s[i]]
    PROVE  IsSeq(s) /\ Len(s) = n
<1> DEFINE S == {s[i] : i \in 1 .. n}
<1>1. s \in [1 .. n -> S]
  OBVIOUS
<1> HIDE DEF S
<1>2. s \in Seq(S)
  BY <1>1
<1> QED
  BY <1>1, <1>2 DEF IsSeq

\* Two sequences with the same members are one.
LEMMA SeqSame ==
    ASSUME NEW s, NEW t, IsSeq(s), IsSeq(t), Len(s) = Len(t), \A i \in 1 .. Len(s) : s[i] = t[i]
    PROVE  s = t
<1>1. s = [i \in 1 .. Len(s) |-> s[i]] /\ t = [i \in 1 .. Len(s) |-> t[i]]
  BY SeqFacts
<1>2. [i \in 1 .. Len(s) |-> s[i]] = [i \in 1 .. Len(s) |-> t[i]]
  OBVIOUS
<1> QED
  BY <1>1, <1>2

\* The head and the tail of a sequence.
LEMMA SeqParts ==
    ASSUME NEW s, IsSeq(s), s # <<>>
    PROVE  /\ Len(s) >= 1 /\ Head(s) = s[1] /\ IsSeq(Tail(s)) /\ Len(Tail(s)) = Len(s) - 1
           /\ \A i \in 1 .. Len(s) - 1 : Tail(s)[i] = s[i + 1]
<1>1. PICK S : s \in Seq(S)
  BY DEF IsSeq
<1>2. Tail(s) \in Seq(S)
  BY <1>1
<1> QED
  BY <1>1, <1>2 DEF IsSeq

\* One sequence after the other.
LEMMA SeqJoin ==
    ASSUME NEW s, NEW t, IsSeq(s), IsSeq(t)
    PROVE  /\ IsSeq(s \o t) /\ Len(s \o t) = Len(s) + Len(t)
           /\ \A i \in 1 .. Len(s) : (s \o t)[i] = s[i]
           /\ \A i \in 1 .. Len(t) : (s \o t)[Len(s) + i] = t[i]
<1>1. PICK S : s \in Seq(S)
  BY DEF IsSeq
<1>2. PICK T : t \in Seq(T)
  BY DEF IsSeq
<1> DEFINE U == S \cup T
<1>3. s \in Seq(U) /\ t \in Seq(U)
  BY <1>1, <1>2
<1> HIDE DEF U
<1>4. s \o t \in Seq(U)
  BY <1>3
<1> QED
  BY <1>3, <1>4 DEF IsSeq

\* Sequences of one member, two or three.
LEMMA SeqShort ==
    ASSUME NEW x, NEW y, NEW z
    PROVE  /\ IsSeq(<<>>) /\ Len(<<>>) = 0
           /\ IsSeq(<<x>>) /\ Len(<<x>>) = 1 /\ <<x>>[1] = x
           /\ IsSeq(<<x, y>>) /\ Len(<<x, y>>) = 2 /\ <<x, y>>[1] = x /\ <<x, y>>[2] = y
           /\ IsSeq(<<x, y, z>>) /\ Len(<<x, y, z>>) = 3
           /\ <<x, y, z>>[1] = x /\ <<x, y, z>>[2] = y /\ <<x, y, z>>[3] = z
<1>1. <<>> \in Seq({x}) /\ <<x>> \in Seq({x}) /\ <<x, y>> \in Seq({x, y}) /\ <<x, y, z>> \in Seq({x, y, z})
  OBVIOUS
<1>2. IsSeq(<<>>) /\ IsSeq(<<x>>) /\ IsSeq(<<x, y>>) /\ IsSeq(<<x, y, z>>)
  BY <1>1, Zenon DEF IsSeq
<1>3. /\ Len(<<>>) = 0
      /\ Len(<<x>>) = 1 /\ <<x>>[1] = x
      /\ Len(<<x, y>>) = 2 /\ <<x, y>>[1] = x /\ <<x, y>>[2] = y
      /\ Len(<<x, y, z>>) = 3
      /\ <<x, y, z>>[1] = x /\ <<x, y, z>>[2] = y /\ <<x, y, z>>[3] = z
  OBVIOUS
<1> QED
  BY <1>2, <1>3

\* A part of a sequence.
LEMMA SeqSub ==
    ASSUME NEW s, IsSeq(s), NEW a \in Nat \ {0}, NEW b \in Nat, b <= Len(s), a <= b + 1
    PROVE  /\ IsSeq(SubSeq(s, a, b)) /\ Len(SubSeq(s, a, b)) = b + 1 - a
           /\ \A i \in 1 .. b + 1 - a : SubSeq(s, a, b)[i] = s[a + i - 1]
<1>1. PICK S : s \in Seq(S)
  BY DEF IsSeq
<1>2. SubSeq(s, a, b) \in Seq(S)
  BY <1>1
<1> QED
  BY <1>1, <1>2 DEF IsSeq

\* What is left of a sequence.
LEMMA FromFacts ==
    ASSUME NEW s, IsSeq(s), NEW j \in 0 .. Len(s)
    PROVE  /\ IsSeq(From(s, j)) /\ Len(From(s, j)) = Len(s) - j
           /\ \A i \in 1 .. Len(s) - j : From(s, j)[i] = s[j + i]
<1>1. Len(s) \in Nat
  BY SeqFacts
<1>2. j + 1 \in Nat \ {0} /\ Len(s) <= Len(s) /\ j + 1 <= Len(s) + 1
  BY <1>1
<1>3. /\ IsSeq(SubSeq(s, j + 1, Len(s))) /\ Len(SubSeq(s, j + 1, Len(s))) = Len(s) + 1 - (j + 1)
      /\ \A i \in 1 .. Len(s) + 1 - (j + 1) : SubSeq(s, j + 1, Len(s))[i] = s[(j + 1) + i - 1]
  BY <1>1, <1>2, SeqSub
<1>4. Len(s) + 1 - (j + 1) = Len(s) - j /\ \A i \in 1 .. Len(s) - j : (j + 1) + i - 1 = j + i
  BY <1>1
<1> QED
  BY <1>3, <1>4 DEF From

\* The first of what is left, and what is left after it.
LEMMA FromNext ==
    ASSUME NEW s, IsSeq(s), NEW j \in 0 .. Len(s) - 1
    PROVE  /\ From(s, j) # <<>> /\ Head(From(s, j)) = s[j + 1]
           /\ Tail(From(s, j)) = From(s, j + 1)
<1>1. Len(s) \in Nat
  BY SeqFacts
<1>2. j \in 0 .. Len(s) /\ j + 1 \in 0 .. Len(s) /\ 1 \in 1 .. Len(s) - j
  BY <1>1
<1> DEFINE f == From(s, j)
           g == From(s, j + 1)
<1>3. IsSeq(f) /\ Len(f) = Len(s) - j /\ \A i \in 1 .. Len(s) - j : f[i] = s[j + i]
  BY <1>2, FromFacts
<1>4. IsSeq(g) /\ Len(g) = Len(s) - (j + 1) /\ \A i \in 1 .. Len(s) - (j + 1) : g[i] = s[(j + 1) + i]
  BY <1>2, FromFacts
<1> HIDE DEF f, g
<1>5. f # <<>>
  BY <1>1, <1>2, <1>3, SeqFacts
<1>6. Head(f) = f[1] /\ IsSeq(Tail(f)) /\ Len(Tail(f)) = Len(f) - 1 /\ \A i \in 1 .. Len(f) - 1 : Tail(f)[i] = f[i + 1]
  BY <1>3, <1>5, SeqParts
<1>7. Len(Tail(f)) = Len(g)
  BY <1>1, <1>3, <1>4, <1>6
<1>8. ASSUME NEW i \in 1 .. Len(Tail(f)) PROVE Tail(f)[i] = g[i]
  <2>1. i \in 1 .. Len(f) - 1 /\ i + 1 \in 1 .. Len(s) - j /\ i \in 1 .. Len(s) - (j + 1) /\ j + (i + 1) = (j + 1) + i
    BY <1>1, <1>3, <1>6
  <2> QED
    BY <2>1, <1>3, <1>4, <1>6
<1>9. Tail(f) = g
  BY <1>4, <1>6, <1>7, <1>8, SeqSame
<1>10. f[1] = s[j + 1]
  BY <1>2, <1>3
<1> QED
  BY <1>5, <1>6, <1>9, <1>10 DEF f, g

\* The whole is left at first, and nothing in the end.
LEMMA FromEnds ==
    ASSUME NEW s, IsSeq(s)
    PROVE  From(s, 0) = s /\ From(s, Len(s)) = <<>>
<1>1. Len(s) \in Nat /\ 0 \in 0 .. Len(s) /\ Len(s) \in 0 .. Len(s)
  BY SeqFacts
<1>2. IsSeq(From(s, 0)) /\ Len(From(s, 0)) = Len(s) - 0 /\ \A i \in 1 .. Len(s) - 0 : From(s, 0)[i] = s[0 + i]
  BY <1>1, FromFacts
<1>3. Len(s) - 0 = Len(s) /\ \A i \in 1 .. Len(s) : 0 + i = i
  BY <1>1
<1>4. From(s, 0) = s
  BY <1>2, <1>3, SeqSame
<1>5. IsSeq(From(s, Len(s))) /\ Len(From(s, Len(s))) = Len(s) - Len(s)
  BY <1>1, FromFacts
<1>6. Len(s) - Len(s) = 0
  BY <1>1
<1> QED
  BY <1>4, <1>5, <1>6, SeqFacts

\* What is left of two sequences.
LEMMA FromJoin ==
    ASSUME NEW s, NEW t, IsSeq(s), IsSeq(t), NEW j \in 0 .. Len(s)
    PROVE  From(s \o t, j) = From(s, j) \o t
<1> DEFINE q == s \o t
           f == From(q, j)
           h == From(s, j)
           r == h \o t
<1>1. /\ IsSeq(q) /\ Len(q) = Len(s) + Len(t) /\ Len(s) \in Nat /\ Len(t) \in Nat
      /\ \A i \in 1 .. Len(s) : q[i] = s[i]
      /\ \A i \in 1 .. Len(t) : q[Len(s) + i] = t[i]
  BY SeqJoin, SeqFacts
<1> HIDE DEF q
<1>2. j \in 0 .. Len(q)
  BY <1>1
<1>3. IsSeq(f) /\ Len(f) = Len(q) - j /\ \A i \in 1 .. Len(q) - j : f[i] = q[j + i]
  BY <1>1, <1>2, FromFacts
<1>4. IsSeq(h) /\ Len(h) = Len(s) - j /\ \A i \in 1 .. Len(s) - j : h[i] = s[j + i]
  BY FromFacts
<1> HIDE DEF f, h
<1>5. /\ IsSeq(r) /\ Len(r) = Len(h) + Len(t)
      /\ \A i \in 1 .. Len(h) : r[i] = h[i]
      /\ \A i \in 1 .. Len(t) : r[Len(h) + i] = t[i]
  BY <1>4, SeqJoin
<1> HIDE DEF r
<1>6. Len(f) = Len(r)
  BY <1>1, <1>3, <1>4, <1>5
<1>7. ASSUME NEW i \in 1 .. Len(f) PROVE f[i] = r[i]
  <2>1. CASE i <= Len(s) - j
    <3>1. i \in 1 .. Len(h) /\ i \in 1 .. Len(s) - j /\ j + i \in 1 .. Len(s) /\ i \in 1 .. Len(q) - j
      BY <2>1, <1>1, <1>3, <1>4
    <3> QED
      BY <3>1, <1>1, <1>3, <1>4, <1>5
  <2>2. CASE ~(i <= Len(s) - j)
    <3>1. PICK n \in 1 .. Len(t) : i = (Len(s) - j) + n
      <4>1. i - (Len(s) - j) \in 1 .. Len(t) /\ i = (Len(s) - j) + (i - (Len(s) - j))
        BY <2>2, <1>1, <1>3
      <4> QED
        BY <4>1
    <3>2. i \in 1 .. Len(q) - j /\ j + i = Len(s) + n /\ i = Len(h) + n
      BY <3>1, <1>1, <1>3, <1>4
    <3>3. f[i] = q[Len(s) + n] /\ r[i] = t[n] /\ q[Len(s) + n] = t[n]
      BY <3>1, <3>2, <1>1, <1>3, <1>5
    <3> QED
      BY <3>3
  <2> QED
    BY <2>1, <2>2
<1>8. f = r
  BY <1>3, <1>5, <1>6, <1>7, SeqSame
<1> QED
  BY <1>8 DEF f, r, h, q

-----------------------------------------------------------------------------
(* Entries put over a function.                                            *)

\* A function with one entry more, or another one.
LEMMA WithFacts ==
    ASSUME NEW f, NEW k, NEW v
    PROVE  /\ DOMAIN With(f, k, v) = DOMAIN f \cup {k}
           /\ With(f, k, v)[k] = v
           /\ \A x \in DOMAIN f : x # k => With(f, k, v)[x] = f[x]
BY DEF With

\* A function some of whose entries are covered.
LEMMA OverFacts ==
    ASSUME NEW l, NEW f
    PROVE  /\ DOMAIN Over(l, f) = DOMAIN l \cup DOMAIN f
           /\ \A x \in DOMAIN f : x \notin DOMAIN l => Over(l, f)[x] = f[x]
           /\ \A x \in DOMAIN l : Over(l, f)[x] = l[x]
BY DEF Over

-----------------------------------------------------------------------------
(* Sorting.                                                                *)

\* The members of a list without repetition are as many as its places.
LEMMA ImageCount ==
    ASSUME NEW n \in Nat, NEW s, \A i, j \in 1 .. n : s[i] = s[j] => i = j,
           NEW S, \A i \in 1 .. n : s[i] \in S, \A x \in S : \E i \in 1 .. n : s[i] = x
    PROVE  IsFiniteSet(S) /\ Cardinality(S) = n
<1> DEFINE f == [i \in 1 .. n |-> s[i]]
<1>1. f \in [1 .. n -> S]
  OBVIOUS
<1>2. \A i, j \in 1 .. n : f[i] = f[j] => i = j
  OBVIOUS
<1>3. \A x \in S : \E i \in 1 .. n : f[i] = x
  OBVIOUS
<1> HIDE DEF f
<1>4. f \in Bijection(1 .. n, S)
  BY <1>1, <1>2, <1>3 DEF Bijection, Injection, IsInjective, Surjection
<1>5. ExistsBijection(1 .. n, S)
  BY <1>4 DEF ExistsBijection
<1>6. IsFiniteSet(1 .. n)
  BY FS_Interval
<1> QED
  BY <1>5, <1>6, FS_Bijection, FS_CountingElements

\* A list whose keys ascend is what sorting its members gives.
LEMMA SortedIs ==
    ASSUME NEW S, NEW f, NEW s, IsSeq(s), S = {s[i] : i \in 1 .. Len(s)},
           \A i \in 1 .. Len(s) : f[s[i]] \in Nat,
           \A i, j \in 1 .. Len(s) : i < j => f[s[i]] < f[s[j]]
    PROVE  Sorted(S, f) = s
<1> DEFINE n == Len(s)
           Smaller(x) == {y \in S : f[y] < f[x]}
<1>1. n \in Nat /\ s = [i \in 1 .. n |-> s[i]]
  BY SeqFacts
<1>2. \A i, j \in 1 .. n : f[s[i]] < f[s[j]] => i < j
  BY <1>1
<1>3. \A i, j \in 1 .. n : s[i] = s[j] => i = j
  BY <1>1
<1>4. Cardinality(S) = n
  <2>1. (\A i \in 1 .. n : s[i] \in S) /\ \A x \in S : \E i \in 1 .. n : s[i] = x
    OBVIOUS
  <2> HIDE DEF n
  <2> QED
    BY <1>1, <1>3, <2>1, ImageCount
<1>5. ASSUME NEW i \in 1 .. n
      PROVE  Cardinality(Smaller(s[i])) = i - 1
  <2>1. Smaller(s[i]) = {s[j] : j \in 1 .. i - 1}
    BY <1>1, <1>2
  <2>2. i - 1 \in Nat /\ 1 .. i - 1 \subseteq 1 .. n
    BY <1>1
  <2>3. \A a, b \in 1 .. i - 1 : s[a] = s[b] => a = b
    BY <2>2, <1>3
  <2>4. (\A a \in 1 .. i - 1 : s[a] \in Smaller(s[i])) /\ \A x \in Smaller(s[i]) : \E a \in 1 .. i - 1 : s[a] = x
    BY <2>1
  <2> HIDE DEF n, Smaller
  <2> QED
    BY <2>2, <2>3, <2>4, ImageCount
<1> HIDE DEF Smaller
<1>6. ASSUME NEW i \in 1 .. n
      PROVE  (CHOOSE x \in S : Cardinality(Smaller(x)) = i - 1) = s[i]
  <2>1. s[i] \in S
    BY <1>6
  <2>2. ASSUME NEW x \in S, Cardinality(Smaller(x)) = i - 1 PROVE x = s[i]
    <3>1. PICK j \in 1 .. n : x = s[j]
      OBVIOUS
    <3>2. Cardinality(Smaller(s[j])) = j - 1
      BY <1>5
    <3>3. j = i
      BY <3>1, <3>2, <2>2, <1>1
    <3> QED
      BY <3>1, <3>3
  <2>3. Cardinality(Smaller(s[i])) = i - 1
    BY <1>5
  <2> QED
    BY <2>1, <2>2, <2>3
<1>7. Sorted(S, f) = [i \in 1 .. n |-> CHOOSE x \in S : Cardinality(Smaller(x)) = i - 1]
  <2> HIDE DEF n
  <2> QED
    BY <1>4, Zenon DEF Sorted, Smaller
<1>8. [i \in 1 .. n |-> CHOOSE x \in S : Cardinality(Smaller(x)) = i - 1] = [i \in 1 .. n |-> s[i]]
  BY <1>6
<1> QED
  BY <1>1, <1>7, <1>8

\* The runs of an allocation, one by one.
Listed(g, runs) ==
    /\ IsSeq(g)
    /\ \A i \in 1 .. Len(g) : g[i] \in runs
    /\ \A e \in runs : \E i \in 1 .. Len(g) : g[i] = e
    /\ \A i, j \in 1 .. Len(g) : g[i] = g[j] => i = j

\* Runs that do not overlap, put in order, are all there and each once.
LEMMA InOrderLists ==
    ASSUME NEW runs \in SUBSET Inside, Disjoint(runs)
    PROVE  Listed(InOrder(runs), runs)
<1> DEFINE B == {e.start : e \in runs}
           N == Cardinality(B)
           rank(b) == Cardinality({a \in B : a < b})
<1>1. \A e \in runs : e.start \in Blocks /\ e.start \in Nat /\ e.start \in ExtentBlocks(e)
  BY TotalBlocksAssumption DEF Inside, Extents, ExtentBlocks, Blocks
<1>2. \A d, e \in runs : d.start = e.start => d = e
  BY <1>1 DEF Disjoint
<1>3. B \in SUBSET Blocks /\ N \in Nat /\ B \subseteq Nat /\ IsFiniteSet(B)
  BY <1>1, BlocksFinite
<1> HIDE DEF B
<1>19. \A x \in B : x \in Nat
  BY <1>3
<1>4. /\ \A n \in 1 .. N : \E b \in B : rank(b) = n - 1
      /\ \A a, b \in B : rank(a) = rank(b) => a = b
  BY <1>3, Ranks
<1>5. \A b \in B : rank(b) \in 0 .. N - 1
  <2> SUFFICES ASSUME NEW b \in B PROVE rank(b) \in 0 .. N - 1
    OBVIOUS
  <2>1. {a \in B : a < b} \subseteq B \ {b}
    BY <1>3
  <2>2. IsFiniteSet(B \ {b}) /\ Cardinality(B \ {b}) = N - 1
    BY <1>3, FS_RemoveElement
  <2>3. rank(b) <= N - 1
    BY <2>1, <2>2, FS_Subset
  <2>4. rank(b) \in Nat
    BY <2>1, <2>2, FS_Subset, FS_CardinalityType
  <2> QED
    BY <2>3, <2>4, <1>3
<1>6. \A a, b \in B : a <= b => rank(a) <= rank(b)
  <2> SUFFICES ASSUME NEW a \in B, NEW b \in B, a <= b PROVE rank(a) <= rank(b)
    OBVIOUS
  <2>1. {x \in B : x < a} \subseteq {x \in B : x < b}
    BY <1>19
  <2>2. IsFiniteSet({x \in B : x < b})
    BY <1>3, FS_Subset
  <2> QED
    BY <2>1, <2>2, FS_Subset
<1> HIDE DEF rank, N
<1> DEFINE at(n) == CHOOSE e \in runs : rank(e.start) = n - 1
           s == [n \in 1 .. N |-> at(n)]
<1>7. \A n \in 1 .. N : at(n) \in runs /\ rank(at(n).start) = n - 1
  BY <1>4 DEF B
<1>8. IsSeq(s) /\ Len(s) = N
  BY <1>3, SeqIs
<1>9. \A n \in 1 .. N : s[n] \in runs /\ rank(s[n].start) = n - 1
  BY <1>7
<1> HIDE DEF s
<1>10. \A i, j \in 1 .. N : i < j => s[i].start < s[j].start
  <2> SUFFICES ASSUME NEW i \in 1 .. N, NEW j \in 1 .. N, i < j, ~(s[i].start < s[j].start) PROVE FALSE
    OBVIOUS
  <2>1. s[i].start \in B /\ s[j].start \in B
    BY <1>9 DEF B
  <2>2. s[j].start <= s[i].start
    BY <2>1, <1>19
  <2>3. rank(s[j].start) <= rank(s[i].start)
    BY <2>1, <2>2, <1>6
  <2> QED
    BY <2>3, <1>9, <1>3
<1>11. ASSUME NEW e \in runs PROVE \E n \in 1 .. N : s[n] = e
  <2>1. e.start \in B
    BY DEF B
  <2>2. PICK n \in 1 .. N : rank(e.start) = n - 1
    <3>1. rank(e.start) \in 0 .. N - 1
      BY <2>1, <1>5
    <3>2. rank(e.start) + 1 \in 1 .. N /\ rank(e.start) = (rank(e.start) + 1) - 1
      BY <3>1, <1>3
    <3> QED
      BY <3>2
  <2>3. s[n].start \in B /\ rank(s[n].start) = rank(e.start)
    BY <2>2, <1>9 DEF B
  <2>4. s[n].start = e.start
    BY <2>1, <2>3, <1>4
  <2> QED
    BY <2>4, <1>2, <1>9
<1>12. runs = {s[i] : i \in 1 .. Len(s)}
  BY <1>8, <1>9, <1>11
<1> DEFINE f == [e \in runs |-> e.start]
<1>13. \A i \in 1 .. Len(s) : f[s[i]] \in Nat /\ f[s[i]] = s[i].start
  BY <1>1, <1>8, <1>9
<1> HIDE DEF f
<1>14. \A i, j \in 1 .. Len(s) : i < j => f[s[i]] < f[s[j]]
  BY <1>8, <1>10, <1>13
<1>15. Sorted(runs, f) = s
  BY <1>8, <1>12, <1>13, <1>14, SortedIs
<1>16. InOrder(runs) = s
  BY <1>15 DEF InOrder, f
<1>17. \A i, j \in 1 .. N : s[i] = s[j] => i = j
  BY <1>3, <1>9
<1>18. Listed(s, runs)
  BY <1>8, <1>9, <1>11, <1>17 DEF Listed
<1> QED
  BY <1>16, <1>18

-----------------------------------------------------------------------------
(* Lists of runs that share no block.                                      *)

ApartList(g) ==
    \A i, j \in 1 .. Len(g) : i # j => ExtentBlocks(g[i]) \cap ExtentBlocks(g[j]) = {}

\* An extent of the volume.
LEMMA InsideFacts ==
    ASSUME NEW e \in Inside
    PROVE  /\ e \in Extents /\ e.start \in Nat /\ e.count \in Nat \ {0} /\ e.start + e.count <= TotalBlocks
           /\ ExtentBlocks(e) \in SUBSET Blocks
           /\ ExtentBlocks(e) # {} /\ Cardinality(ExtentBlocks(e)) = e.count
<1>1. e \in Extents /\ ExtentBlocks(e) \in SUBSET Blocks
  BY DEF Inside
<1>2. e.start \in Nat /\ e.count \in Nat \ {0}
  BY <1>1, TotalBlocksAssumption DEF Extents, Blocks
<1>3. e.start \in ExtentBlocks(e) /\ e.start + e.count - 1 \in ExtentBlocks(e)
  BY <1>2 DEF ExtentBlocks
<1>4. e.start + e.count - 1 \in 0 .. (TotalBlocks - 1)
  BY <1>1, <1>3 DEF Blocks
<1>5. e.start + e.count <= TotalBlocks
  BY <1>2, <1>4, TotalBlocksAssumption
<1>6. Cardinality(ExtentBlocks(e)) = e.count
  <2>1. e.start \in Int /\ e.start + e.count - 1 \in Int /\ ~(e.start > e.start + e.count - 1)
        /\ (e.start + e.count - 1) - e.start + 1 = e.count
    BY <1>2
  <2> QED
    BY <2>1, FS_Interval DEF ExtentBlocks
<1> QED
  BY <1>1, <1>2, <1>3, <1>5, <1>6

\* A list of extents of the volume is a list of extents.
LEMMA InsideList ==
    ASSUME NEW g \in Seq(Inside)
    PROVE  /\ g \in Seq(Extents) /\ IsSeq(g) /\ Len(g) \in Nat /\ DOMAIN g = 1 .. Len(g)
           /\ \A i \in 1 .. Len(g) : g[i] \in Inside
<1>1. Inside \subseteq Extents
  BY DEF Inside
<1> QED
  BY <1>1 DEF IsSeq

\* The blocks of the runs of a list are as many as the runs count together.
LEMMA CountedBlocks ==
    ASSUME NEW g \in Seq(Inside), ApartList(g)
    PROVE  /\ Counted(g) \in Nat
           /\ Counted(g) = Cardinality(AllBlocks(ToSet(g)))
           /\ Counted(g) <= TotalBlocks
<1> DEFINE U(i) == UNION {ExtentBlocks(g[k]) : k \in 1 .. i}
           N == Len(g)
           B == BlocksUpTo(g)
           S == {i \in 0 .. N : U(i) \in SUBSET Blocks /\ Cardinality(U(i)) = B[i]}
<1>1. /\ g \in Seq(Extents) /\ N \in Nat /\ DOMAIN g = 1 .. N
      /\ \A i \in 1 .. N : g[i] \in Inside
  BY InsideList
<1>2. /\ B \in [0 .. N -> Nat] /\ B[0] = 0
      /\ \A i \in 1 .. N : B[i] = B[i - 1] + g[i].count
  BY <1>1, BlocksStep
<1> HIDE DEF B
<1>3. 0 \in S
  <2>1. U(0) = {}
    OBVIOUS
  <2>2. Cardinality(U(0)) = 0
    BY <2>1, FS_EmptySet
  <2>3. U(0) \in SUBSET Blocks
    BY <2>1
  <2> HIDE DEF U
  <2> QED
    BY <2>2, <2>3, <1>1, <1>2
<1>4. ASSUME NEW n \in 0 .. N, n \in S, n < N PROVE n + 1 \in S
  <2>1. n + 1 \in 1 .. N /\ (n + 1) - 1 = n /\ n \in Nat
    BY <1>1, <1>4
  <2> DEFINE E == ExtentBlocks(g[n + 1])
  <2>2. E \in SUBSET Blocks /\ Cardinality(E) = g[n + 1].count /\ g[n + 1].count \in Nat
    BY <1>1, <2>1, InsideFacts
  <2>3. U(n + 1) = U(n) \cup E
    <3>1. 1 .. n + 1 = (1 .. n) \cup {n + 1}
      BY <2>1
    <3> QED
      BY <3>1
  <2>4. U(n) \cap E = {}
    <3> SUFFICES ASSUME NEW b \in U(n) PROVE b \notin E
      OBVIOUS
    <3>1. PICK k \in 1 .. n : b \in ExtentBlocks(g[k])
      OBVIOUS
    <3>2. k \in 1 .. Len(g) /\ n + 1 \in 1 .. Len(g) /\ k # n + 1
      BY <2>1, <1>1
    <3> QED
      BY <3>1, <3>2 DEF ApartList
  <2>5. U(n) \in SUBSET Blocks /\ Cardinality(U(n)) = B[n]
    BY <1>4
  <2> DEFINE V == U(n)
  <2>6. V \in SUBSET Blocks /\ E \in SUBSET Blocks /\ V \cap E = {} /\ Cardinality(V) = B[n] /\ U(n + 1) = V \cup E
    BY <2>2, <2>3, <2>4, <2>5
  <2> HIDE DEF V, E, U
  <2>7. IsFiniteSet(V) /\ IsFiniteSet(E)
    BY <2>6, BlocksFinite
  <2>8. Cardinality(V \cup E) = Cardinality(V) + Cardinality(E) - Cardinality(V \cap E)
    BY <2>7, FS_Union
  <2>9. Cardinality(V \cup E) = B[n] + g[n + 1].count
    <3>1. Cardinality(V \cap E) = 0
      BY <2>6, FS_EmptySet
    <3>2. Cardinality(E) = g[n + 1].count /\ g[n + 1].count \in Nat /\ B[n] \in Nat
      BY <2>1, <2>2, <1>2 DEF E
    <3> QED
      BY <3>1, <3>2, <2>6, <2>8
  <2>10. B[n + 1] = B[n] + g[n + 1].count
    BY <2>1, <1>2
  <2>11. U(n + 1) \in SUBSET Blocks /\ Cardinality(U(n + 1)) = B[n + 1]
    BY <2>6, <2>9, <2>10
  <2> QED
    BY <2>1, <2>11
<1>5. U(N) = AllBlocks(ToSet(g))
  BY <1>1 DEF AllBlocks, ToSet
<1> HIDE DEF U, N
<1>7. 0 .. N \subseteq S
  <2> HIDE DEF S
  <2> QED
    BY <1>1, <1>3, <1>4, Inducts
<1>8. U(N) \in SUBSET Blocks /\ Cardinality(U(N)) = B[N] /\ B[N] \in Nat
  BY <1>1, <1>2, <1>7
<1>9. Counted(g) = B[N]
  BY DEF Counted, B, N
<1>10. B[N] <= TotalBlocks
  <2>1. IsFiniteSet(Blocks) /\ Cardinality(Blocks) = TotalBlocks
    BY FS_Interval, TotalBlocksAssumption DEF Blocks
  <2> QED
    BY <2>1, <1>8, FS_Subset
<1> QED
  BY <1>5, <1>8, <1>9, <1>10

\* What an allocation gives a fork: a list of the runs.
GivenRuns(g, bm, c) ==
    /\ g \in Seq(Inside)
    /\ ToSet(g) = allocFragments(bm, c)
    /\ ApartList(g)
    /\ \A i \in 1 .. Len(g) : ExtentBlocks(g[i]) \in SUBSET Free(bm)
    /\ Counted(g) = c

\* The runs of an allocation as the list they are handed out in.
LEMMA AllocatedList ==
    ASSUME NEW bm \in SUBSET Blocks, NEW c \in Nat, CanAlloc(bm, c)
    PROVE  GivenRuns(InOrder(allocFragments(bm, c)), bm, c)
<1> DEFINE R == allocFragments(bm, c)
           g == InOrder(R)
<1>1. R \in SUBSET Inside /\ AllBlocks(R) \in SUBSET Free(bm) /\ Disjoint(R) /\ Cardinality(AllBlocks(R)) = c
  BY FragmentsExact
<1> HIDE DEF R
<1>2. Listed(g, R)
  BY <1>1, InOrderLists
<1> HIDE DEF g
<1>3. Len(g) \in Nat /\ DOMAIN g = 1 .. Len(g) /\ g = [i \in 1 .. Len(g) |-> g[i]]
  BY <1>2, SeqFacts DEF Listed
<1>4. g \in Seq(Inside)
  <2>1. \A i \in 1 .. Len(g) : g[i] \in Inside
    BY <1>1, <1>2 DEF Listed
  <2>2. g \in [1 .. Len(g) -> Inside]
    BY <1>3, <2>1
  <2> QED
    BY <1>3, <2>2
<1>5. ToSet(g) = R
  BY <1>2, <1>3 DEF Listed, ToSet
<1>6. ApartList(g)
  BY <1>1, <1>2 DEF Listed, ApartList, Disjoint
<1>7. \A i \in 1 .. Len(g) : ExtentBlocks(g[i]) \in SUBSET Free(bm)
  <2> SUFFICES ASSUME NEW i \in 1 .. Len(g) PROVE ExtentBlocks(g[i]) \subseteq Free(bm)
    OBVIOUS
  <2>1. g[i] \in R
    BY <1>2 DEF Listed
  <2>2. ExtentBlocks(g[i]) \subseteq AllBlocks(R)
    BY <2>1 DEF AllBlocks
  <2> QED
    BY <2>2, <1>1
<1>8. Counted(g) = c
  BY <1>1, <1>4, <1>5, <1>6, CountedBlocks
<1>9. GivenRuns(g, bm, c)
  BY <1>4, <1>5, <1>6, <1>7, <1>8 DEF GivenRuns, R
<1> QED
  BY <1>9 DEF g, R

-----------------------------------------------------------------------------
(* How a list of extents is cut into a descriptor and records.             *)

\* Multiples.
LEMMA Multiples ==
    ASSUME NEW b \in Nat \ {0}
    PROVE  /\ \A i \in Nat : i * b \in Nat /\ (i + 1) * b = i * b + b
           /\ 0 * b = 0 /\ 1 * b = b
           /\ \A i, j \in Nat : i < j => i * b + b <= j * b
<1>1. \A i \in Nat : i * b \in Nat /\ (i + 1) * b = i * b + b
  OBVIOUS
<1>2. ASSUME NEW i \in Nat, NEW j \in Nat, i < j PROVE i * b + b <= j * b
  <2>1. PICK d \in Nat : j = (i + 1) + d
    <3>1. j - (i + 1) \in Nat /\ j = (i + 1) + (j - (i + 1))
      BY <1>2
    <3> QED
      BY <3>1
  <2>2. d * b \in Nat /\ j * b = (i + 1) * b + d * b
    BY <2>1
  <2>3. i * b \in Nat /\ (i + 1) * b = i * b + b
    BY <1>1
  <2> QED
    BY <2>2, <2>3
<1> QED
  BY <1>1, <1>2

\* CeilDiv is the least number of pieces that hold the whole.
LEMMA CeilDivTight ==
    ASSUME NEW a \in Nat, NEW b \in Nat \ {0}
    PROVE  /\ CeilDiv(a, b) \in Nat /\ a <= CeilDiv(a, b) * b /\ CeilDiv(a, b) * b <= a + b - 1
<1> DEFINE n == a + b - 1
<1>1. n \in Nat
  OBVIOUS
<1>2. n \div b \in Nat /\ n % b \in 0 .. (b - 1) /\ n = b * (n \div b) + (n % b)
  BY <1>1
<1> DEFINE q == n \div b
<1>3. q \in Nat /\ b * q \in Nat /\ b * q = q * b /\ q = CeilDiv(a, b)
  BY <1>2 DEF CeilDiv
<1>4. a <= b * q /\ b * q <= n
  BY <1>2, <1>3
<1> QED
  BY <1>3, <1>4

\* A part of a sequence, between two places.
IsPart(q, S, g, a, z) ==
    /\ q \in Seq(S) /\ Len(q) = z - a
    /\ \A x \in 1 .. z - a : q[x] = g[a + x]

\* What SubSeq cuts out.
LEMMA Between ==
    ASSUME NEW S, NEW g \in Seq(S), NEW a \in Nat, NEW z \in Nat, a <= z, z <= Len(g)
    PROVE  IsPart(SubSeq(g, a + 1, z), S, g, a, z)
<1>1. a + 1 \in Nat \ {0} /\ a + 1 <= z + 1 /\ z + 1 - (a + 1) = z - a
  OBVIOUS
<1>2. /\ IsSeq(SubSeq(g, a + 1, z)) /\ Len(SubSeq(g, a + 1, z)) = z + 1 - (a + 1)
      /\ \A i \in 1 .. z + 1 - (a + 1) : SubSeq(g, a + 1, z)[i] = g[(a + 1) + i - 1]
  <2>1. IsSeq(g)
    BY DEF IsSeq
  <2> QED
    BY <1>1, <2>1, SeqSub
<1>3. \A i \in 1 .. z - a : (a + 1) + i - 1 = a + i
  OBVIOUS
<1>4. SubSeq(g, a + 1, z) \in Seq(S)
  OBVIOUS
<1> QED
  BY <1>1, <1>2, <1>3, <1>4 DEF IsPart

\* What is in the descriptor and what is not.
LEMMA PartFacts ==
    ASSUME NEW g \in Seq(Inside), NEW m, m = Min({InlineExtents, Len(g)})
    PROVE  /\ m \in Nat /\ m <= Len(g) /\ m <= InlineExtents
           /\ Len(g) <= InlineExtents => m = Len(g)
           /\ Len(g) > InlineExtents => m = InlineExtents
           /\ InlinePart(g) \in Seq(Inside) /\ Len(InlinePart(g)) = m
           /\ \A i \in 1 .. m : InlinePart(g)[i] = g[i]
           /\ OverflowPart(g) \in Seq(Inside) /\ Len(OverflowPart(g)) = Len(g) - m
           /\ \A i \in 1 .. Len(g) - m : OverflowPart(g)[i] = g[m + i]
<1> DEFINE I == InlineExtents
           L == Len(g)
<1>1. L \in Nat /\ I \in Nat \ {0}
  BY ForksAssumption
<1>2. m = IF I <= L THEN I ELSE L
  BY <1>1, MinOfTwo
<1>3. m \in Nat /\ m <= L /\ m <= I /\ (L <= I => m = L) /\ (L > I => m = I)
  BY <1>1, <1>2
<1>4. InlinePart(g) = SubSeq(g, 1, m)
  BY DEF InlinePart
<1>5. /\ SubSeq(g, 1, m) \in Seq(Inside) /\ Len(SubSeq(g, 1, m)) = m
      /\ \A i \in 1 .. m : SubSeq(g, 1, m)[i] = g[i]
  <2>0. PICK o \in Nat : o = 0
    OBVIOUS
  <2>1. o <= m /\ m <= Len(g) /\ o + 1 = 1 /\ m - o = m /\ \A i \in 1 .. m : o + i = i
    BY <1>3, <2>0
  <2>3. m \in Nat
    BY <1>3
  <2>2. IsPart(SubSeq(g, o + 1, m), Inside, g, o, m)
    BY <2>1, <2>3, Between
  <2> QED
    BY <2>1, <2>2 DEF IsPart
<1>6. OverflowPart(g) = SubSeq(g, m + 1, L)
  <2>1. CASE L > I
    BY <2>1, <1>3, Zenon DEF OverflowPart
  <2>2. CASE L <= I
    <3>1. SubSeq(g, I + 1, L) = <<>> /\ SubSeq(g, L + 1, L) = <<>>
      BY <2>2, <1>1
    <3>2. m = L
      BY <2>2, <1>3
    <3>3. OverflowPart(g) = SubSeq(g, I + 1, L)
      BY DEF OverflowPart
    <3> HIDE DEF L, I
    <3> QED
      BY <3>1, <3>2, <3>3
  <2>3. L > I \/ L <= I
    BY <1>1
  <2> QED
    BY <2>1, <2>2, <2>3, Zenon
<1>7. /\ SubSeq(g, m + 1, L) \in Seq(Inside) /\ Len(SubSeq(g, m + 1, L)) = L - m
      /\ \A i \in 1 .. L - m : SubSeq(g, m + 1, L)[i] = g[m + i]
  <2>1. m <= L /\ L <= Len(g) /\ m \in Nat /\ L \in Nat
    BY <1>1, <1>3
  <2> HIDE DEF L
  <2>2. IsPart(SubSeq(g, m + 1, L), Inside, g, m, L)
    BY <2>1, Between
  <2> QED
    BY <2>2 DEF IsPart
<1> HIDE DEF L, I
<1> QED
  BY <1>3, <1>4, <1>5, <1>6, <1>7 DEF L, I

\* The two parts make up the list.
LEMMA PartsJoin ==
    ASSUME NEW g \in Seq(Inside)
    PROVE  g = InlinePart(g) \o OverflowPart(g)
<1> DEFINE m == Min({InlineExtents, Len(g)})
           a == InlinePart(g)
           b == OverflowPart(g)
<1>1. /\ m \in Nat /\ m <= Len(g) /\ a \in Seq(Inside) /\ Len(a) = m
      /\ \A i \in 1 .. m : a[i] = g[i]
      /\ b \in Seq(Inside) /\ Len(b) = Len(g) - m
      /\ \A i \in 1 .. Len(g) - m : b[i] = g[m + i]
  BY PartFacts
<1> HIDE DEF m, a, b
<1>2. Len(g) \in Nat
  OBVIOUS
<1>3. a \o b \in Seq(Inside) /\ Len(a \o b) = Len(g)
  BY <1>1, <1>2
<1>4. \A i \in 1 .. Len(g) : (a \o b)[i] = g[i]
  <2> SUFFICES ASSUME NEW i \in 1 .. Len(g) PROVE (a \o b)[i] = g[i]
    OBVIOUS
  <2>1. CASE i <= m
    BY <2>1, <1>1
  <2>2. CASE ~(i <= m)
    <3>1. i - m \in 1 .. Len(g) - m /\ m + (i - m) = i
      BY <2>2, <1>1, <1>2
    <3>2. (a \o b)[i] = b[i - m]
      BY <2>2, <1>1, <1>2
    <3> QED
      BY <3>1, <3>2, <1>1
  <2> QED
    BY <2>1, <2>2
<1>5. a \o b = g
  BY <1>3, <1>4, SeqSame DEF IsSeq
<1> QED
  BY <1>5 DEF a, b

\* The places of the groups in the list.
LEMMA GroupPlaces ==
    ASSUME NEW g \in Seq(Inside)
    PROVE  /\ Groups(g) \in Nat
           /\ Groups(g) = 0 <=> Len(g) <= InlineExtents
           /\ \A i \in 1 .. Groups(g) : i * InlineExtents \in Nat /\ InlineExtents <= i * InlineExtents
                                        /\ i * InlineExtents < Len(g)
           /\ Len(g) <= (Groups(g) + 1) * InlineExtents
<1> DEFINE I == InlineExtents
           L == Len(g)
           m == Min({InlineExtents, Len(g)})
           N == Groups(g)
<1>1. L \in Nat /\ I \in Nat \ {0}
  BY ForksAssumption
<1>2. /\ m \in Nat /\ m <= L /\ m <= I /\ (L <= I => m = L) /\ (L > I => m = I)
      /\ Len(OverflowPart(g)) = L - m
  BY PartFacts
<1> HIDE DEF m
<1>3. L - m \in Nat
  BY <1>1, <1>2
<1>4. N = CeilDiv(L - m, I)
  BY <1>2 DEF Groups
<1>5. N \in Nat /\ L - m <= N * I /\ N * I <= (L - m) + I - 1
  BY <1>1, <1>3, <1>4, CeilDivTight
<1> HIDE DEF N, I, L
<1>6. N * I \in Nat /\ (N + 1) * I = N * I + I
  BY <1>1, <1>5, Multiples
<1>7. L <= (N + 1) * I
  BY <1>1, <1>2, <1>3, <1>5, <1>6
<1>8. ASSUME NEW i \in 1 .. N PROVE i * I \in Nat /\ I <= i * I /\ i * I < L
  <2>1. i \in Nat /\ i * I \in Nat /\ 0 < i /\ 0 * I = 0
    BY <1>1, <1>5, Multiples
  <2>2. 0 * I + I <= i * I
    BY <2>1, <1>1, Multiples
  <2>3. i * I <= N * I
    <3>1. CASE i = N
      BY <3>1, <1>6
    <3>2. CASE i # N
      <4>1. i < N
        BY <3>2, <1>5
      <4>2. i * I + I <= N * I
        BY <4>1, <2>1, <1>1, <1>5, Multiples
      <4> QED
        BY <4>2, <2>1, <1>1, <1>6
    <3> QED
      BY <3>1, <3>2
  <2>4. I <= N * I
    BY <2>1, <2>2, <2>3, <1>1, <1>6
  <2>5. L > I
    BY <2>4, <1>1, <1>2, <1>3, <1>5, <1>6
  <2>6. N * I < L
    BY <2>5, <1>1, <1>2, <1>3, <1>5, <1>6
  <2> QED
    BY <2>1, <2>2, <2>3, <2>6, <1>1, <1>6
<1>9. N = 0 <=> L <= I
  <2>1. CASE N = 0
    <3>1. (0 + 1) * I = I
      BY <1>1
    <3> QED
      BY <2>1, <3>1, <1>7
  <2>2. CASE N # 0
    <3>1. N \in 1 .. N
      BY <2>2, <1>5
    <3>2. I <= N * I /\ N * I < L
      BY <3>1, <1>8
    <3> QED
      BY <2>2, <3>2, <1>1, <1>6
  <2> QED
    BY <2>1, <2>2
<1> QED
  BY <1>5, <1>7, <1>8, <1>9 DEF N, I, L

\* The end of a group.
GroupEnd(g, i) == Min({(i + 1) * InlineExtents, Len(g)})

\* The extents of a group.
LEMMA GroupFacts ==
    ASSUME NEW g \in Seq(Inside), NEW i \in 1 .. Groups(g)
    PROVE  /\ GroupEnd(g, i) \in Nat /\ i * InlineExtents \in Nat
           /\ i * InlineExtents < GroupEnd(g, i) /\ GroupEnd(g, i) <= Len(g)
           /\ GroupEnd(g, i) <= i * InlineExtents + InlineExtents
           /\ i < Groups(g) => GroupEnd(g, i) = (i + 1) * InlineExtents
           /\ i = Groups(g) => GroupEnd(g, i) = Len(g)
           /\ Group(g, i) \in Seq(Inside)
           /\ Len(Group(g, i)) = GroupEnd(g, i) - i * InlineExtents
           /\ \A x \in 1 .. GroupEnd(g, i) - i * InlineExtents : Group(g, i)[x] = g[i * InlineExtents + x]
<1> DEFINE I == InlineExtents
           L == Len(g)
           N == Groups(g)
           a == i * I
           z == GroupEnd(g, i)
<1>1. /\ L \in Nat /\ I \in Nat \ {0} /\ N \in Nat /\ i \in Nat
      /\ a \in Nat /\ a < L /\ L <= (N + 1) * I
      /\ i + 1 \in 1 .. N => (i + 1) * I < L
  BY ForksAssumption, GroupPlaces
<1>2. (i + 1) * I = a + I /\ (i + 1) * I \in Nat
  BY <1>1, Multiples
<1>3. z = IF (i + 1) * I <= L THEN (i + 1) * I ELSE L
  BY <1>1, <1>2, MinOfTwo DEF GroupEnd
<1>4. z \in Nat /\ a < z /\ z <= L /\ z <= a + I
  BY <1>1, <1>2, <1>3
<1>5. i < N => z = (i + 1) * I
  <2>1. i < N => i + 1 \in 1 .. N
    BY <1>1
  <2> QED
    BY <2>1, <1>1, <1>2, <1>3
<1>6. i = N => z = L
  BY <1>1, <1>2, <1>3
<1>7. Group(g, i) = SubSeq(g, a + 1, z)
  BY DEF Group, GroupEnd
<1> HIDE DEF a, z
<1>8. /\ SubSeq(g, a + 1, z) \in Seq(Inside) /\ Len(SubSeq(g, a + 1, z)) = z - a
      /\ \A x \in 1 .. z - a : SubSeq(g, a + 1, z)[x] = g[a + x]
  <2>1. a <= z /\ z <= Len(g) /\ a \in Nat /\ z \in Nat
    BY <1>1, <1>4
  <2>2. IsPart(SubSeq(g, a + 1, z), Inside, g, a, z)
    BY <2>1, Between
  <2> QED
    BY <2>2 DEF IsPart
<1> QED
  BY <1>1, <1>4, <1>5, <1>6, <1>7, <1>8 DEF a, z

\* The records of a list: what each is and where it is keyed.
LEMMA RecordFacts ==
    ASSUME NEW g \in Seq(Inside), NEW id
    PROVE  /\ IsSeq(insertExtentRecords(id, g)) /\ Len(insertExtentRecords(id, g)) = Groups(g)
           /\ Groups(g) \in Nat
           /\ \A i \in 1 .. Groups(g) :
                 /\ insertExtentRecords(id, g)[i].do = "put"
                 /\ insertExtentRecords(id, g)[i].key = <<id, BlocksUpTo(g)[i * InlineExtents]>>
                 /\ insertExtentRecords(id, g)[i].ext = Group(g, i)
<1>1. Groups(g) \in Nat
  BY GroupPlaces
<1> DEFINE P == insertExtentRecords(id, g)
<1>2. DOMAIN P = 1 .. Groups(g) /\ P = [i \in DOMAIN P |-> P[i]]
  BY DEF insertExtentRecords
<1>3. \A i \in 1 .. Groups(g) : P[i] = Put(<<id, BlocksUpTo(g)[i * InlineExtents]>>, Group(g, i))
  BY DEF insertExtentRecords
<1> HIDE DEF P
<1>4. IsSeq(P) /\ Len(P) = Groups(g)
  BY <1>1, <1>2, SeqIs
<1>5. \A i \in 1 .. Groups(g) :
                 /\ P[i].do = "put"
                 /\ P[i].key = <<id, BlocksUpTo(g)[i * InlineExtents]>>
                 /\ P[i].ext = Group(g, i)
  <2> SUFFICES ASSUME NEW i \in 1 .. Groups(g)
               PROVE  /\ P[i].do = "put"
                      /\ P[i].key = <<id, BlocksUpTo(g)[i * InlineExtents]>>
                      /\ P[i].ext = Group(g, i)
    OBVIOUS
  <2>1. PICK k, x : k = <<id, BlocksUpTo(g)[i * InlineExtents]>> /\ x = Group(g, i)
    OBVIOUS
  <2>2. P[i] = Put(k, x)
    BY <2>1, <1>3
  <2>3. P[i].do = "put" /\ P[i].key = k /\ P[i].ext = x
    BY <2>2 DEF Put
  <2> QED
    BY <2>1, <2>3
<1> QED
  BY <1>1, <1>4, <1>5 DEF P

\* The blocks at which the groups begin ascend.
LEMMA KeysAscend ==
    ASSUME NEW g \in Seq(Inside)
    PROVE  /\ \A i \in 1 .. Groups(g) : /\ BlocksUpTo(g)[i * InlineExtents] \in Nat \ {0}
                                        /\ BlocksUpTo(g)[InlineExtents] <= BlocksUpTo(g)[i * InlineExtents]
                                        /\ BlocksUpTo(g)[i * InlineExtents] < Counted(g)
           /\ \A i, j \in 1 .. Groups(g) : i < j =>
                 BlocksUpTo(g)[i * InlineExtents] < BlocksUpTo(g)[j * InlineExtents]
<1> DEFINE I == InlineExtents
           L == Len(g)
           N == Groups(g)
           B == BlocksUpTo(g)
<1>1. /\ L \in Nat /\ I \in Nat \ {0} /\ N \in Nat
      /\ \A i \in 1 .. N : i * I \in Nat /\ I <= i * I /\ i * I < L
  BY ForksAssumption, GroupPlaces
<1>2. g \in Seq(Extents)
  BY InsideList
<1>3. \A a \in 0 .. L : \A z \in a .. L : B[a] \in Nat /\ B[z] \in Nat /\ B[a] + (z - a) <= B[z]
  BY <1>2, BlocksGrow
<1>4. B[0] = 0 /\ Counted(g) = B[L]
  BY <1>2, BlocksStep DEF Counted
<1> HIDE DEF B, N, L, I
<1>5. ASSUME NEW i \in 1 .. N
      PROVE  B[i * I] \in Nat \ {0} /\ B[I] <= B[i * I] /\ B[i * I] < Counted(g)
  <2>1. PICK a \in Nat : a = i * I
    BY <1>1
  <2>2. I <= a /\ a < L
    BY <2>1, <1>1
  <2>3. 0 \in 0 .. L /\ a \in 0 .. L /\ I \in 0 .. L /\ L \in 0 .. L /\ a \in I .. L /\ L \in a .. L /\ a \in 0 .. L
    BY <2>2, <1>1
  <2>4. B[0] + (a - 0) <= B[a] /\ B[I] + (a - I) <= B[a] /\ B[a] + (L - a) <= B[L]
        /\ B[a] \in Nat /\ B[I] \in Nat /\ B[L] \in Nat
    BY <2>3, <1>3
  <2>5. B[a] \in Nat \ {0} /\ B[I] <= B[a] /\ B[a] < B[L]
    BY <2>2, <2>4, <1>1, <1>4
  <2> QED
    BY <2>1, <2>5, <1>4
<1>6. ASSUME NEW i \in 1 .. N, NEW j \in 1 .. N, i < j PROVE B[i * I] < B[j * I]
  <2>1. PICK a \in Nat : a = i * I
    BY <1>1
  <2>2. PICK z \in Nat : z = j * I
    BY <1>1
  <2>3. a + I <= z
    <3>1. i \in Nat /\ j \in Nat
      BY <1>1
    <3>2. i * I + I <= j * I
      BY <3>1, <1>1, <1>6, Multiples
    <3> QED
      BY <3>2, <2>1, <2>2
  <2>4. a < L /\ z < L
    BY <2>1, <2>2, <1>1
  <2>5. a \in 0 .. L /\ z \in a .. L
    BY <2>3, <2>4, <1>1
  <2>6. B[a] + (z - a) <= B[z] /\ B[a] \in Nat /\ B[z] \in Nat
    BY <2>5, <1>3
  <2>7. B[a] < B[z]
    BY <2>3, <2>6, <1>1
  <2> QED
    BY <2>1, <2>2, <2>7
<1> QED
  BY <1>5, <1>6 DEF B, N, L, I

\* The groups, one after the other, are the part that is not in the descriptor.
LEMMA GroupsFlatten ==
    ASSUME NEW g \in Seq(Inside), NEW ss, ss = [i \in 1 .. Groups(g) |-> Group(g, i)]
    PROVE  FlattenSeq(ss) = OverflowPart(g)
<1> DEFINE I == InlineExtents
           L == Len(g)
           N == Groups(g)
<1>1. /\ L \in Nat /\ I \in Nat \ {0} /\ N \in Nat /\ (N = 0 <=> L <= I)
      /\ \A i \in 1 .. N : i * I \in Nat /\ I <= i * I /\ i * I < L
  BY ForksAssumption, GroupPlaces
<1>2. /\ (L <= I => Len(OverflowPart(g)) = 0)
      /\ (L > I => /\ Len(OverflowPart(g)) = L - I
                   /\ \A i \in 1 .. L - I : OverflowPart(g)[i] = g[I + i])
      /\ OverflowPart(g) \in Seq(Inside)
  <2> DEFINE m == Min({InlineExtents, Len(g)})
  <2>1. /\ m \in Nat
        /\ (L <= I => m = L) /\ (L > I => m = I) /\ Len(OverflowPart(g)) = L - m
        /\ \A i \in 1 .. L - m : OverflowPart(g)[i] = g[m + i]
        /\ OverflowPart(g) \in Seq(Inside)
    BY PartFacts
  <2> HIDE DEF m, I, L
  <2>2. L <= I => L - m = 0
    BY <2>1, <1>1
  <2>3. L > I => m = I
    BY <2>1
  <2> QED
    BY <2>1, <2>2, <2>3, Zenon
<1>3. CASE N = 0
  <2>1. Len(ss) = 0 /\ ss = <<>>
    BY <1>3
  <2>2. FlattenSeq(ss) = <<>>
    BY <2>1 DEF FlattenSeq
  <2>3. OverflowPart(g) = <<>>
    BY <1>1, <1>2, <1>3
  <2> QED
    BY <2>2, <2>3
<1>4. CASE N # 0
  <2>1. L > I /\ N \in Nat \ {0} /\ 1 \in 1 .. N /\ N \in 1 .. N
    BY <1>1, <1>4
  <2>2. \A i \in 1 .. N : ss[i] = Group(g, i) /\ Group(g, i) \in Seq(Inside)
    BY GroupFacts
  <2>3. ss \in [1 .. N -> Seq(Inside)]
    BY <2>2
  <2> HIDE DEF N
  <2>4. PICK h \in [0 .. N -> Seq(Inside)] : Joins(h, ss, N)
    BY <2>1, <2>3, FlattenIs
  <2>5. /\ h[0] = <<>> /\ h[N] = FlattenSeq(ss)
        /\ \A i \in 1 .. N : h[i] = h[i - 1] \o ss[i]
    BY <2>4 DEF Joins
  <2> DEFINE z(i) == IF i = 0 THEN I ELSE GroupEnd(g, i)
             S == {i \in 0 .. N : /\ Len(h[i]) = z(i) - I
                                  /\ \A x \in 1 .. z(i) - I : h[i][x] = g[I + x]}
  <2>6. 0 \in S
    BY <2>5, <1>1
  <2>7. ASSUME NEW n \in 0 .. N, n \in S, n < N PROVE n + 1 \in S
    <3>1. n + 1 \in 1 .. N /\ (n + 1) - 1 = n /\ n \in Nat
      BY <2>7, <1>1
    <3> DEFINE a == (n + 1) * I
               y == GroupEnd(g, n + 1)
    <3>2. /\ y \in Nat /\ a \in Nat /\ a < y /\ y <= L
          /\ Len(Group(g, n + 1)) = y - a
          /\ \A x \in 1 .. y - a : Group(g, n + 1)[x] = g[a + x]
      BY <3>1, GroupFacts DEF N
    <3>3. z(n) = a
      <4>1. CASE n = 0
        BY <4>1, <1>1, Multiples
      <4>2. CASE n # 0
        <5>1. n \in 1 .. N /\ n < N
          BY <4>2, <2>7, <1>1
        <5>2. GroupEnd(g, n) = a
          BY <5>1, GroupFacts DEF N
        <5> QED
          BY <4>2, <5>2
      <4> QED
        BY <4>1, <4>2
    <3>4. h[n + 1] = h[n] \o Group(g, n + 1)
      BY <3>1, <2>2, <2>5
    <3>5. h[n] \in Seq(Inside) /\ Group(g, n + 1) \in Seq(Inside)
      BY <3>1, <2>2
    <3>6. Len(h[n]) = a - I /\ \A x \in 1 .. a - I : h[n][x] = g[I + x]
      BY <3>3, <2>7
    <3>7. z(n + 1) = y
      BY <3>1
    <3>8. I <= a
      BY <3>1, <1>1
    <3> DEFINE p == h[n]
               q == Group(g, n + 1)
    <3>9. /\ IsSeq(p) /\ IsSeq(q) /\ Len(p) = a - I /\ Len(q) = y - a /\ h[n + 1] = p \o q
          /\ \A x \in 1 .. a - I : p[x] = g[I + x]
          /\ \A x \in 1 .. y - a : q[x] = g[a + x]
      BY <3>2, <3>4, <3>5, <3>6 DEF IsSeq
    <3> HIDE DEF p, q, a, y, z
    <3>10. /\ Len(p \o q) = Len(p) + Len(q)
           /\ \A i \in 1 .. Len(p) : (p \o q)[i] = p[i]
           /\ \A i \in 1 .. Len(q) : (p \o q)[Len(p) + i] = q[i]
      <4>1. IsSeq(p) /\ IsSeq(q)
        BY <3>9
      <4> QED
        BY <4>1, SeqJoin
    <3>11. Len(h[n + 1]) = y - I
      BY <3>2, <3>8, <3>9, <3>10, <1>1
    <3>12. ASSUME NEW x \in 1 .. y - I PROVE h[n + 1][x] = g[I + x]
      <4>1. CASE x <= a - I
        <5>1. x \in 1 .. a - I
          BY <4>1, <3>2, <3>8, <1>1
        <5> QED
          BY <5>1, <3>9, <3>10
      <4>2. CASE ~(x <= a - I)
        <5>1. PICK w \in 1 .. y - a : x = (a - I) + w
          <6>1. x - (a - I) \in 1 .. y - a /\ x = (a - I) + (x - (a - I))
            BY <4>2, <3>2, <3>8, <1>1
          <6> QED
            BY <6>1
        <5>2. I + x = a + w
          BY <5>1, <3>2, <3>8, <1>1
        <5>3. (p \o q)[(a - I) + w] = q[w]
          BY <3>9, <3>10
        <5> QED
          BY <5>1, <5>2, <5>3, <3>9
      <4> QED
        BY <4>1, <4>2
    <3> QED
      BY <3>1, <3>7, <3>11, <3>12
  <2> HIDE DEF S, z
  <2>8. 0 .. N \subseteq S
    BY <2>1, <2>6, <2>7, Inducts
  <2>9. z(N) = L
    <3>1. N \in 1 .. Groups(g) /\ N = Groups(g) /\ N # 0
      BY <2>1 DEF N
    <3>2. GroupEnd(g, N) = L
      BY <3>1, GroupFacts
    <3> QED
      BY <3>1, <3>2 DEF z
  <2>10. Len(h[N]) = L - I /\ \A x \in 1 .. L - I : h[N][x] = g[I + x]
    BY <2>1, <2>8, <2>9 DEF S
  <2>11. h[N] \in Seq(Inside)
    BY <2>1
  <2> DEFINE u == h[N]
             v == OverflowPart(g)
  <2>12. IsSeq(u) /\ IsSeq(v) /\ Len(u) = Len(v) /\ \A x \in 1 .. Len(u) : u[x] = v[x]
    BY <2>1, <2>10, <2>11, <1>2 DEF IsSeq
  <2> HIDE DEF u, v
  <2>13. u = v
    BY <2>12, SeqSame
  <2> QED
    BY <2>5, <2>13 DEF u, v
<1> QED
  BY <1>3, <1>4

-----------------------------------------------------------------------------
(* What a reader assembles.                                                *)

\* Of the overflow records for a list, the first j are in the tree as they
\* should be, and the tree has none but the first m.
Recorded(rs, id, g, j, m) ==
    /\ \A k \in DOMAIN rs : k[1] = id =>
          \E i \in 1 .. m : k = <<id, BlocksUpTo(g)[i * InlineExtents]>>
    /\ \A i \in 1 .. j : /\ <<id, BlocksUpTo(g)[i * InlineExtents]>> \in DOMAIN rs
                         /\ rs[<<id, BlocksUpTo(g)[i * InlineExtents]>>] = Group(g, i)

\* A reader finds the records of a list that is recorded, and joins their extents.
LEMMA Assembled ==
    ASSUME NEW rs, NEW id, NEW g \in Seq(Inside), Recorded(rs, id, g, Groups(g), Groups(g)),
           NEW start \in Nat, Groups(g) # 0 => start <= BlocksUpTo(g)[InlineExtents]
    PROVE  overflowExtents(rs, id, start) = OverflowPart(g)
<1> DEFINE N == Groups(g)
           b(i) == BlocksUpTo(g)[i * InlineExtents]
           K(i) == <<id, b(i)>>
<1>1. N \in Nat
  BY GroupPlaces
<1>2. /\ \A i \in 1 .. N : b(i) \in Nat /\ BlocksUpTo(g)[InlineExtents] <= b(i)
      /\ \A i, j \in 1 .. N : i < j => b(i) < b(j)
  BY KeysAscend
<1>3. /\ \A k \in DOMAIN rs : k[1] = id => \E i \in 1 .. N : k = K(i)
      /\ \A i \in 1 .. N : K(i) \in DOMAIN rs /\ rs[K(i)] = Group(g, i)
  BY DEF Recorded
<1>4. \A i \in 1 .. N : start <= b(i)
  <2> SUFFICES ASSUME NEW i \in 1 .. N PROVE start <= b(i)
    OBVIOUS
  <2>1. N # 0
    BY <1>1
  <2>2. start <= BlocksUpTo(g)[InlineExtents]
    BY <2>1
  <2>3. BlocksUpTo(g)[InlineExtents] \in Nat
    <3>1. Len(g) \in Nat /\ InlineExtents \in Nat /\ InlineExtents <= Len(g)
      BY <2>1, GroupPlaces, ForksAssumption
    <3>2. InlineExtents \in 0 .. Len(g) /\ g \in Seq(Extents)
      BY <3>1, InsideList
    <3> QED
      BY <3>2, BlocksStep
  <2> HIDE DEF b
  <2> QED
    BY <2>2, <2>3, <1>2
<1> HIDE DEF b
<1> DEFINE keys == {k \in DOMAIN rs : k[1] = id /\ k[2] >= start}
           s == [i \in 1 .. N |-> K(i)]
           f == [k \in keys |-> k[2]]
<1>5. \A i \in 1 .. N : K(i)[1] = id /\ K(i)[2] = b(i) /\ K(i)[2] \in Nat
  BY <1>2
<1> HIDE DEF K
<1>6. keys = {K(i) : i \in 1 .. N}
  <2>1. ASSUME NEW k \in keys PROVE \E i \in 1 .. N : k = K(i)
    BY <1>3
  <2>2. ASSUME NEW i \in 1 .. N PROVE K(i) \in keys
    <3>1. K(i)[2] >= start
      BY <1>2, <1>4, <1>5
    <3> QED
      BY <3>1, <1>3, <1>5
  <2> HIDE DEF keys
  <2> QED
    BY <2>1, <2>2
<1>7. IsSeq(s) /\ Len(s) = N /\ \A i \in 1 .. N : s[i] = K(i)
  BY <1>1, SeqIs
<1>8. \A i \in 1 .. N : f[K(i)] = b(i)
  BY <1>5, <1>6
<1> HIDE DEF keys, s, f, N
<1>9. keys = {s[i] : i \in 1 .. Len(s)}
  BY <1>6, <1>7
<1>10. \A i \in 1 .. Len(s) : f[s[i]] \in Nat /\ f[s[i]] = b(i)
  BY <1>2, <1>7, <1>8
<1>11. \A i, j \in 1 .. Len(s) : i < j => f[s[i]] < f[s[j]]
  BY <1>2, <1>7, <1>10
<1>12. Sorted(keys, f) = s
  BY <1>7, <1>9, <1>10, <1>11, SortedIs
<1>13. KeysFrom(rs, id, start) = s
  BY <1>12 DEF KeysFrom, keys, f
<1>14. overflowExtents(rs, id, start) = FlattenSeq([i \in DOMAIN s |-> rs[s[i]]])
  BY <1>13 DEF overflowExtents
<1>15. DOMAIN s = 1 .. N
  BY <1>7, SeqFacts
<1>16. [i \in DOMAIN s |-> rs[s[i]]] = [i \in 1 .. N |-> Group(g, i)]
  BY <1>3, <1>7, <1>15
<1>17. FlattenSeq([i \in 1 .. N |-> Group(g, i)]) = OverflowPart(g)
  BY GroupsFlatten DEF N
<1> QED
  BY <1>14, <1>16, <1>17

\* A fork that is filed and recorded resolves to its list.
LEMMA Reassembled ==
    ASSUME NEW rs, NEW id, NEW g \in Seq(Inside), Recorded(rs, id, g, Groups(g), Groups(g)),
           NEW d, d.ext = InlinePart(g), d.total = Counted(g)
    PROVE  resolveForkExtents(d, rs, id) = g
<1> DEFINE I == InlineExtents
           L == Len(g)
           B == BlocksUpTo(g)
           m == Min({InlineExtents, Len(g)})
           p == InlinePart(g)
           v == OverflowPart(g)
<1>1. L \in Nat /\ I \in Nat \ {0} /\ g \in Seq(Extents)
  BY ForksAssumption, InsideList
<1>2. /\ m \in Nat /\ m <= L /\ m <= I /\ (L <= I => m = L) /\ (L > I => m = I)
      /\ p \in Seq(Inside) /\ Len(p) = m /\ (\A i \in 1 .. m : p[i] = g[i])
      /\ v \in Seq(Inside) /\ Len(v) = L - m /\ \A i \in 1 .. L - m : v[i] = g[m + i]
  BY PartFacts
<1>3. p \o v = g
  BY PartsJoin
<1> HIDE DEF m, p, v
<1>4. p \in Seq(Extents) /\ v \in Seq(Extents)
  BY <1>2, InsideList
<1>5. \A i \in 0 .. m : B[i] = BlocksUpTo(p)[i]
  <2>1. \A i \in 0 .. Len(p) : BlocksUpTo(p \o v)[i] = BlocksUpTo(p)[i]
    BY <1>4, CountedBoth
  <2> QED
    BY <2>1, <1>2, <1>3
<1>6. Counted(p) = B[m]
  BY <1>2, <1>5 DEF Counted
<1>7. \A i \in 0 .. L - m : B[m + i] = B[m] + BlocksUpTo(v)[i]
  <2>1. m \in 0 .. Len(g) /\ L - m \in Nat /\ L - m <= Len(v) /\ m + (L - m) <= Len(g)
    BY <1>1, <1>2
  <2>2. \A i \in 1 .. L - m : v[i] = g[m + i]
    BY <1>2
  <2> HIDE DEF L
  <2> QED
    BY <2>1, <2>2, <1>1, <1>4, BlocksAlike
<1>8. \A a \in 0 .. L : \A z \in a .. L : B[a] \in Nat /\ B[z] \in Nat /\ B[a] + (z - a) <= B[z]
  BY <1>1, BlocksGrow
<1>9. Counted(g) = B[L]
  BY DEF Counted
<1> HIDE DEF B
<1>10. m \in 0 .. L /\ L \in m .. L
  BY <1>1, <1>2
<1>11. B[m] \in Nat /\ B[L] \in Nat /\ B[m] + (L - m) <= B[L]
  BY <1>8, <1>10
<1> DEFINE more == overflowExtents(rs, id, B[m])
           enough == {n \in DOMAIN more : B[m] + BlocksUpTo(more)[n] >= B[L]}
<1>12. resolveForkExtents(d, rs, id) =
         IF B[m] >= B[L] THEN p ELSE p \o SubSeq(more, 1, Min(enough \cup {Len(more)}))
  <2>1. d.ext = p /\ d.total = B[L]
    BY <1>9 DEF p
  <2> QED
    BY <2>1, <1>6, Zenon DEF resolveForkExtents
<1>13. CASE m = L
  <2>1. v = <<>>
    BY <1>2, <1>13
  <2>2. p = g
    BY <2>1, <1>2, <1>3
  <2>3. B[m] >= B[L]
    BY <1>11, <1>13
  <2> QED
    BY <2>2, <2>3, <1>12
<1>14. CASE m # L
  <2>1. L > I /\ m = I /\ m < L
    BY <1>1, <1>2, <1>14
  <2>2. ~(B[m] >= B[L])
    BY <2>1, <1>1, <1>2, <1>11
  <2>3. Groups(g) # 0
    BY <2>1, <1>1, GroupPlaces
  <2>4. more = v
    <3>1. B[m] <= BlocksUpTo(g)[InlineExtents]
      BY <2>1, <1>11 DEF B
    <3>2. PICK w \in Nat : w = B[m]
      BY <1>11
    <3>3. overflowExtents(rs, id, w) = OverflowPart(g)
      BY <3>1, <3>2, Assembled
    <3> QED
      BY <3>2, <3>3 DEF v
  <2> HIDE DEF more
  <2>5. enough \cup {Len(more)} = {L - m}
    <3>1. DOMAIN more = 1 .. L - m /\ Len(more) = L - m /\ L - m \in Nat
      BY <2>1, <2>4, <1>1, <1>2
    <3>2. ASSUME NEW n \in 1 .. L - m, B[m] + BlocksUpTo(more)[n] >= B[L] PROVE n = L - m
      <4>1. n \in 0 .. L - m /\ m + n \in 0 .. L /\ L \in m + n .. L
        BY <1>1, <1>2, <3>2
      <4>2. B[m + n] = B[m] + BlocksUpTo(v)[n]
        BY <4>1, <1>7
      <4>3. B[m + n] + (L - (m + n)) <= B[L] /\ B[m + n] \in Nat
        BY <4>1, <1>8
      <4>4. B[m + n] >= B[L]
        BY <4>2, <2>4, <3>2
      <4> QED
        BY <4>3, <4>4, <1>1, <1>2, <1>11
    <3> QED
      BY <3>1, <3>2
  <2>6. Min({L - m}) = L - m
    <3>1. {L - m} \in SUBSET Nat /\ {L - m} # {}
      BY <2>1, <1>1, <1>2
    <3> QED
      BY <3>1, MinIsLeast
  <2>7. SubSeq(v, 1, L - m) = v
    <3>0. L - m \in Nat
      BY <1>1, <1>2
    <3>1. PICK n \in Nat : n = L - m
      BY <3>0
    <3>2. v \in Seq(Inside) /\ Len(v) = n
      BY <3>1, <1>2
    <3>3. SubSeq(v, 1, n) = v
      BY <3>2
    <3> QED
      BY <3>1, <3>3
  <2>8. resolveForkExtents(d, rs, id) = p \o SubSeq(more, 1, Min(enough \cup {Len(more)}))
    BY <2>2, <1>12
  <2> HIDE DEF enough
  <2> QED
    BY <2>4, <2>5, <2>6, <2>7, <2>8, <1>3
<1> QED
  BY <1>13, <1>14

-----------------------------------------------------------------------------
(* Writing the data of a file.                                             *)

\* Which block a byte is in.
LEMMA BlockOfByte ==
    ASSUME NEW s \in Nat, NEW c \in Nat, NEW x \in 0 .. c * BlockSize - 1
    PROVE  (s * BlockSize + x) \div BlockSize \in s .. (s + c - 1)
<1> DEFINE Z == BlockSize
           n == s * Z + x
           q == n \div Z
<1>1. Z \in Nat \ {0}
  BY MkfsAssumption
<1> HIDE DEF Z
<1>2. s * Z \in Nat /\ c * Z \in Nat /\ (s + c) * Z = s * Z + c * Z /\ x \in Nat /\ x < c * Z
  BY <1>1 DEF Z
<1>3. n \in Nat
  BY <1>2
<1> HIDE DEF n
<1>4. q \in Nat /\ n % Z \in 0 .. (Z - 1) /\ n = Z * q + (n % Z)
  BY <1>1, <1>3
<1> HIDE DEF q
<1>5. q * Z \in Nat /\ Z * q = q * Z
  BY <1>1, <1>4
<1>6. q * Z <= n /\ n < q * Z + Z
  BY <1>1, <1>3, <1>4, <1>5
<1>7. s <= q
  <2> SUFFICES ASSUME q < s PROVE FALSE
    BY <1>4
  <2>1. q * Z + Z <= s * Z
    BY <1>1, <1>4, Multiples
  <2> QED
    BY <2>1, <1>1, <1>2, <1>5, <1>6 DEF n
<1>8. q < s + c
  <2> SUFFICES ASSUME s + c <= q PROVE FALSE
    BY <1>4
  <2>1. (s + c) * Z <= q * Z
    <3>1. CASE s + c = q
      BY <3>1, <1>5
    <3>2. CASE s + c # q
      <4>1. s + c < q /\ s + c \in Nat
        BY <3>2, <1>4
      <4>2. (s + c) * Z + Z <= q * Z
        BY <4>1, <1>1, <1>4, Multiples
      <4> QED
        BY <4>2, <1>1, <1>2, <1>5
    <3> QED
      BY <3>1, <3>2
  <2> QED
    BY <2>1, <1>1, <1>2, <1>5, <1>6 DEF n
<1>9. q \in s .. (s + c - 1)
  BY <1>4, <1>7, <1>8
<1> QED
  BY <1>9 DEF q, n, Z

\* The bytes of an extent of the volume.
LEMMA BytesOfExtent ==
    ASSUME NEW e \in Inside, NEW x \in 0 .. e.count * BlockSize - 1
    PROVE  /\ e.start * BlockSize + x \in Bytes
           /\ (e.start * BlockSize + x) \div BlockSize \in ExtentBlocks(e)
<1>1. e.start \in Nat /\ e.count \in Nat /\ e.start + e.count <= TotalBlocks /\ TotalBlocks \in Nat
  BY InsideFacts, TotalBlocksAssumption
<1>2. (e.start * BlockSize + x) \div BlockSize \in ExtentBlocks(e)
  BY <1>1, BlockOfByte DEF ExtentBlocks
<1> DEFINE Z == BlockSize
           d == TotalBlocks - (e.start + e.count)
<1>3. Z \in Nat \ {0} /\ d \in Nat
  BY <1>1, MkfsAssumption
<1>4. TotalBlocks = e.start + e.count + d
  BY <1>1
<1> HIDE DEF d
<1>5. e.start * Z \in Nat /\ e.count * Z \in Nat /\ d * Z \in Nat /\ TotalBlocks * Z = e.start * Z + e.count * Z + d * Z
  BY <1>1, <1>3, <1>4
<1>6. x \in Nat /\ x < e.count * Z
  BY <1>5
<1>7. e.start * Z + x \in 0 .. TotalBlocks * Z - 1
  BY <1>5, <1>6
<1> QED
  BY <1>2, <1>7 DEF Bytes

\* What a byte of a run holds after the data has been written.
LEMMA WriteHits ==
    ASSUME NEW runs \in Seq(Inside), ApartList(runs), NEW id, NEW size \in Nat,
           NEW i \in 1 .. Len(runs), NEW x \in 0 .. runs[i].count * BlockSize - 1,
           BlocksUpTo(runs)[i - 1] * BlockSize + x < size
    PROVE  writeForkData(runs, id, size)[runs[i].start * BlockSize + x]
             = Byte(id, BlocksUpTo(runs)[i - 1] * BlockSize + x)
<1> DEFINE a == runs[i].start * BlockSize
           b == a + x
           c == BlocksUpTo(runs)[i - 1] * BlockSize
<1>1. runs[i] \in Inside /\ DOMAIN runs = 1 .. Len(runs)
  BY InsideList
<1>2. b \in Bytes /\ b \div BlockSize \in ExtentBlocks(runs[i])
  BY <1>1, BytesOfExtent
<1>3. ASSUME NEW j \in DOMAIN runs, b \div BlockSize \in ExtentBlocks(runs[j]) PROVE j = i
  BY <1>1, <1>2, <1>3 DEF ApartList
<1>4. a \in Nat /\ x \in Nat /\ c \in Nat
  <2>1. runs[i].start \in Nat /\ runs[i].count \in Nat /\ BlockSize \in Nat
    BY <1>1, InsideFacts, MkfsAssumption
  <2>2. BlocksUpTo(runs)[i - 1] \in Nat
    <3>1. runs \in Seq(Extents) /\ Len(runs) \in Nat
      BY InsideList
    <3>2. i - 1 \in 0 .. Len(runs)
      BY <3>1
    <3> QED
      BY <3>1, <3>2, BlocksStep
  <2> QED
    BY <2>1, <2>2
<1> HIDE DEF b
<1>5. writeForkData(runs, id, size)[b] =
        LET n == CHOOSE n \in DOMAIN runs : b \div BlockSize \in ExtentBlocks(runs[n])
            k == BlocksUpTo(runs)[n - 1] * BlockSize + b - runs[n].start * BlockSize
        IN  IF k < size THEN Byte(id, k) ELSE Zero
  <2>1. \E n \in DOMAIN runs : b \div BlockSize \in ExtentBlocks(runs[n])
    BY <1>1, <1>2
  <2> QED
    BY <2>1, <1>2 DEF writeForkData
<1>6. (CHOOSE n \in DOMAIN runs : b \div BlockSize \in ExtentBlocks(runs[n])) = i
  BY <1>1, <1>2, <1>3
<1>7. writeForkData(runs, id, size)[b] = IF c + b - a < size THEN Byte(id, c + b - a) ELSE Zero
  BY <1>5, <1>6
<1>8. c + b - a = c + x
  BY <1>4 DEF b
<1> QED
  BY <1>7, <1>8 DEF b, a

\* What is in no run stays as it was.
LEMMA WriteMisses ==
    ASSUME NEW runs, NEW id, NEW size, NEW b \in Bytes,
           \A i \in DOMAIN runs : b \div BlockSize \notin ExtentBlocks(runs[i])
    PROVE  writeForkData(runs, id, size)[b] = store[b]
BY DEF writeForkData

-----------------------------------------------------------------------------
(* Reading windows.                                                        *)

\* The bytes of a list of extents hold those of a file, up to its size.
Holds(st, g, id, size) ==
    \A i \in 1 .. Len(g) : \A x \in 0 .. g[i].count * BlockSize - 1 :
        BlocksUpTo(g)[i - 1] * BlockSize + x < size =>
            st[g[i].start * BlockSize + x] = Byte(id, BlocksUpTo(g)[i - 1] * BlockSize + x)

\* A read of bytes that are all in the list gives those bytes.
LEMMA PiecesExact ==
    ASSUME NEW g \in Seq(Inside), NEW id, NEW size \in Nat, size <= Counted(g) * BlockSize,
           Holds(store, g, id, size), NEW f, f.ext = g,
           NEW off \in Nat, NEW want \in Nat, off + want <= size
    PROVE  Pieces(f, off, want) = [k \in 1 .. want |-> Byte(id, off + k - 1)]
<1> DEFINE N == Len(g)
           Z == BlockSize
           M(i) == BlocksUpTo(g)[i] * Z
           span(i) == g[i].count * Z
           upto(i) == IF M(i) <= off THEN 0 ELSE IF M(i) - off <= want THEN M(i) - off ELSE want
           buf(i) == [k \in 1 .. upto(i) |-> Byte(id, off + k - 1)]
           h == [i \in 0 .. N |-> [base |-> M(i), off |-> off + upto(i), buf |-> buf(i)]]
           PieceOf(acc, start, sp) ==
             LET within == acc.off - acc.base
                 n      == Min({sp - within, want - Len(acc.buf)})
                 from   == start * BlockSize + within
             IN  IF acc.off < acc.base + sp /\ Len(acc.buf) < want
                 THEN [base |-> acc.base + sp, off |-> acc.off + n,
                       buf |-> acc.buf \o [i \in 1 .. n |-> store[from + i - 1]]]
                 ELSE [acc EXCEPT !.base = @ + sp]
           Piece(acc, e) == PieceOf(acc, e.start, e.count * BlockSize)
           P(r) == r = [i \in 0 .. Len(f.ext) |->
                           IF i = 0 THEN [base |-> 0, off |-> off, buf |-> <<>>]
                           ELSE Piece(r[i - 1], f.ext[i])]
<1>1. /\ N \in Nat /\ Z \in Nat \ {0} /\ g \in Seq(Extents)
      /\ \A i \in 1 .. N : g[i] \in Inside /\ g[i].start \in Nat /\ g[i].count \in Nat
  BY InsideList, InsideFacts, MkfsAssumption
<1>2. /\ \A i \in 0 .. N : BlocksUpTo(g)[i] \in Nat
      /\ BlocksUpTo(g)[0] = 0
      /\ \A i \in 1 .. N : BlocksUpTo(g)[i] = BlocksUpTo(g)[i - 1] + g[i].count
  BY <1>1, BlocksStep
<1>3. /\ \A i \in 0 .. N : M(i) \in Nat
      /\ M(0) = 0
      /\ \A i \in 1 .. N : M(i) = M(i - 1) + span(i) /\ span(i) \in Nat
  <2>1. \A i \in 0 .. N : M(i) \in Nat
    BY <1>1, <1>2
  <2>2. M(0) = 0
    BY <1>1, <1>2
  <2>3. ASSUME NEW i \in 1 .. N PROVE M(i) = M(i - 1) + span(i) /\ span(i) \in Nat
    <3>1. PICK u \in Nat : u = BlocksUpTo(g)[i - 1]
      <4>1. i - 1 \in 0 .. N
        BY <1>1
      <4> QED
        BY <4>1, <1>2
    <3>2. PICK c \in Nat : c = g[i].count
      BY <1>1
    <3>3. (u + c) * Z = u * Z + c * Z /\ c * Z \in Nat
      BY <1>1
    <3>4. BlocksUpTo(g)[i] = u + c
      BY <3>1, <3>2, <1>2
    <3> QED
      BY <3>1, <3>2, <3>3, <3>4
  <2> QED
    BY <2>1, <2>2, <2>3
<1>4. ASSUME NEW i \in 1 .. N, NEW x \in Nat, x < span(i), M(i - 1) + x < size
      PROVE  store[g[i].start * Z + x] = Byte(id, M(i - 1) + x)
  <2>1. x \in 0 .. g[i].count * BlockSize - 1
    BY <1>3, <1>4
  <2> QED
    BY <2>1, <1>4 DEF Holds
<1>5. size <= M(N)
  BY DEF Counted
<1> HIDE DEF M, span, N
<1>6. \A i \in 0 .. N : /\ upto(i) \in Nat /\ upto(i) <= want
                        /\ M(i) <= off => upto(i) = 0
                        /\ M(i) > off /\ upto(i) < want => upto(i) = M(i) - off
                        /\ M(i) > off /\ M(i) - off <= want => upto(i) = M(i) - off
                        /\ M(i) > off /\ M(i) - off >= want => upto(i) = want
  <2> SUFFICES ASSUME NEW i \in 0 .. N
               PROVE  /\ upto(i) \in Nat /\ upto(i) <= want
                      /\ M(i) <= off => upto(i) = 0
                      /\ M(i) > off /\ upto(i) < want => upto(i) = M(i) - off
                      /\ M(i) > off /\ M(i) - off <= want => upto(i) = M(i) - off
                      /\ M(i) > off /\ M(i) - off >= want => upto(i) = want
    BY Zenon
  <2>1. PICK m \in Nat : m = M(i)
    BY <1>3
  <2>2. upto(i) = IF m <= off THEN 0 ELSE IF m - off <= want THEN m - off ELSE want
    BY <2>1
  <2> HIDE DEF upto
  <2> QED
    BY <2>1, <2>2
<1> HIDE DEF upto
<1>7. \A i \in 0 .. N : IsSeq(buf(i)) /\ Len(buf(i)) = upto(i) /\ \A k \in 1 .. upto(i) : buf(i)[k] = Byte(id, off + k - 1)
  BY <1>6, SeqIs
<1>8. h[0] = [base |-> 0, off |-> off, buf |-> <<>>]
  <2>1. upto(0) = 0 /\ M(0) = 0 /\ 0 \in 0 .. N
    BY <1>1, <1>3, <1>6
  <2>2. buf(0) = <<>>
    BY <2>1
  <2> QED
    BY <2>1, <2>2
<1> HIDE DEF buf
<1>9. ASSUME NEW i \in 1 .. N PROVE h[i] = Piece(h[i - 1], g[i])
  <2>1. i \in 0 .. N /\ i - 1 \in 0 .. N
    BY <1>1
  <2> DEFINE m == M(i - 1)
             s == span(i)
             u == upto(i - 1)
             w == upto(i)
             p == buf(i - 1)
             q == buf(i)
  <2>2. h[i - 1] = [base |-> m, off |-> off + u, buf |-> p] /\ h[i] = [base |-> M(i), off |-> off + w, buf |-> q]
    BY <2>1
  <2>3. m \in Nat /\ s \in Nat /\ M(i) = m + s
    BY <2>1, <1>3
  <2>4. /\ u \in Nat /\ u <= want
        /\ m <= off => u = 0
        /\ m > off /\ u < want => u = m - off
        /\ m > off /\ m - off <= want => u = m - off
        /\ m > off /\ m - off >= want => u = want
        /\ w \in Nat /\ w <= want
        /\ m + s <= off => w = 0
        /\ m + s > off /\ w < want => w = (m + s) - off
        /\ m + s > off /\ (m + s) - off <= want => w = (m + s) - off
        /\ m + s > off /\ (m + s) - off >= want => w = want
    BY <2>1, <2>3, <1>6
  <2>5. /\ IsSeq(p) /\ Len(p) = u /\ \A k \in 1 .. u : p[k] = Byte(id, off + k - 1)
        /\ IsSeq(q) /\ Len(q) = w /\ \A k \in 1 .. w : q[k] = Byte(id, off + k - 1)
    BY <2>1, <1>7
  <2>6. \A x \in Nat : x < s /\ m + x < size => store[g[i].start * Z + x] = Byte(id, m + x)
    BY <1>4
  <2>7. g[i].count * BlockSize = s
    BY DEF span
  <2> DEFINE acc == h[i - 1]
             within == acc.off - acc.base
             n == Min({s - within, want - Len(acc.buf)})
             from == g[i].start * BlockSize + within
  <2>8. Piece(acc, g[i]) =
          IF acc.off < acc.base + s /\ Len(acc.buf) < want
          THEN [base |-> acc.base + s, off |-> acc.off + n,
                buf |-> acc.buf \o [k \in 1 .. n |-> store[from + k - 1]]]
          ELSE [acc EXCEPT !.base = @ + s]
    <3>1. Piece(acc, g[i]) = PieceOf(acc, g[i].start, s)
      <4> HIDE DEF PieceOf, acc, s
      <4> QED
        BY <2>7, Zenon
    <3> QED
      BY <3>1
  <2>9. acc.off = off + u /\ acc.base = m /\ acc.buf = p /\ acc = [base |-> m, off |-> off + u, buf |-> p]
    BY <2>2
  <2> HIDE DEF m, s, u, w, p, q, acc, h, Piece, PieceOf
  <2>10. CASE off + u < m + s /\ u < want
    <3>1. PICK t \in Int : t = (off + u) - m
      BY <2>3, <2>4
    <3>2. t \in Nat /\ t < s
      BY <3>1, <2>10, <2>3, <2>4
    <3>3. PICK v \in Nat : v = IF s - t <= want - u THEN s - t ELSE want - u
      <4>1. s - t \in Nat /\ want - u \in Nat
        BY <3>2, <2>10, <2>3, <2>4
      <4> QED
        BY <4>1
    <3>4. n = v
      <4>1. within = t
        BY <3>1, <2>9
      <4>2. n = Min({s - t, want - u})
        BY <4>1, <2>5, <2>9
      <4>3. s - t \in Nat /\ want - u \in Nat
        BY <3>2, <2>10, <2>3, <2>4
      <4>4. Min({s - t, want - u}) = IF s - t <= want - u THEN s - t ELSE want - u
        BY <4>3, MinOfTwo
      <4> QED
        BY <4>2, <4>4, <3>3
    <3>5. w = u + v
      BY <3>1, <3>2, <3>3, <2>10, <2>3, <2>4
    <3> DEFINE y == [k \in 1 .. v |-> store[(g[i].start * Z + t) + k - 1]]
    <3>6. Piece(acc, g[i]) = [base |-> m + s, off |-> (off + u) + v, buf |-> p \o y]
      <4>1. from = g[i].start * Z + t
        BY <3>1, <2>9
      <4> HIDE DEF n, from
      <4> QED
        BY <4>1, <3>4, <2>5, <2>8, <2>9, <2>10
    <3>7. IsSeq(y) /\ Len(y) = v /\ \A k \in 1 .. v : y[k] = store[(g[i].start * Z + t) + k - 1]
      BY SeqIs
    <3> HIDE DEF y
    <3>8. ASSUME NEW k \in 1 .. v PROVE y[k] = Byte(id, off + (u + k) - 1)
      <4>1. PICK x \in Nat : x = t + k - 1
        <5>1. t + k - 1 \in Nat
          BY <3>2
        <5> QED
          BY <5>1
      <4>2. x < s /\ m + x < size
        BY <4>1, <3>1, <3>2, <3>3, <2>3, <2>4
      <4>3. g[i].start * Z \in Nat
        BY <1>1
      <4>4. (g[i].start * Z + t) + k - 1 = g[i].start * Z + x /\ m + x = off + (u + k) - 1
        BY <4>1, <4>3, <3>1, <3>2, <2>3, <2>4
      <4> QED
        BY <4>2, <4>4, <3>7, <2>6
    <3>9. p \o y = q
      <4>1. IsSeq(p) /\ IsSeq(y)
        BY <2>5, <3>7
      <4>2. /\ IsSeq(p \o y) /\ Len(p \o y) = Len(p) + Len(y)
            /\ \A k \in 1 .. Len(p) : (p \o y)[k] = p[k]
            /\ \A k \in 1 .. Len(y) : (p \o y)[Len(p) + k] = y[k]
        BY <4>1, SeqJoin
      <4> DEFINE r == p \o y
      <4>3. /\ IsSeq(r) /\ Len(r) = u + v
            /\ \A k \in 1 .. u : r[k] = p[k]
            /\ \A k \in 1 .. v : r[u + k] = y[k]
        BY <4>2, <2>5, <3>7
      <4> HIDE DEF r
      <4>4. ASSUME NEW k \in 1 .. Len(r) PROVE r[k] = q[k]
        <5>0. k \in 1 .. w /\ k \in Nat
          BY <4>3, <3>5, <2>4
        <5>1. CASE k <= u
          <6>1. k \in 1 .. u
            BY <5>0, <5>1, <2>4
          <6> QED
            BY <5>0, <6>1, <4>3, <2>5
        <5>2. CASE ~(k <= u)
          <6>1. PICK z \in 1 .. v : k = u + z
            <7>1. k - u \in 1 .. v /\ k = u + (k - u)
              BY <5>0, <5>2, <3>5, <2>4
            <7> QED
              BY <7>1
          <6>2. r[k] = y[z] /\ y[z] = Byte(id, off + (u + z) - 1)
            BY <6>1, <4>3, <3>8
          <6>3. q[k] = Byte(id, off + k - 1)
            BY <5>0, <2>5
          <6> QED
            BY <6>1, <6>2, <6>3
        <5> QED
          BY <5>1, <5>2
      <4>5. Len(r) = Len(q)
        BY <4>3, <3>5, <2>5
      <4>6. r = q
        BY <4>3, <4>4, <4>5, <2>5, SeqSame
      <4> QED
        BY <4>6 DEF r
    <3>10. (off + u) + v = off + w
      BY <3>5, <2>4
    <3> QED
      BY <3>6, <3>9, <3>10, <2>2, <2>3 DEF acc
  <2>11. CASE ~(off + u < m + s /\ u < want)
    <3>1. w = u
      BY <2>11, <2>3, <2>4
    <3>2. p = q
      BY <3>1, <2>5, SeqSame
    <3>3. Piece(acc, g[i]) = [acc EXCEPT !.base = @ + s]
      BY <2>5, <2>8, <2>9, <2>11
    <3>4. Piece(acc, g[i]) = [base |-> m + s, off |-> off + u, buf |-> p]
      BY <3>3, <2>9
    <3> QED
      BY <3>1, <3>2, <3>4, <2>2, <2>3 DEF acc
  <2> QED
    BY <2>10, <2>11
<1>10. DOMAIN h = 0 .. N /\ h = [i \in 0 .. N |-> h[i]]
  OBVIOUS
<1>18. N = Len(f.ext) /\ f.ext = g
  BY DEF N
<1> DEFINE read == CHOOSE r : P(r)
<1>21. Pieces(f, off, want) = read[Len(f.ext)].buf
  BY DEF Pieces
<1>11. Pieces(f, off, want) = read[N].buf
  BY <1>18, <1>21, Zenon
<1>12. h[N] = [base |-> M(N), off |-> off + upto(N), buf |-> buf(N)]
  BY <1>1
<1> HIDE DEF h, Piece
<1>13. P(h)
  <2>1. \A i \in 0 .. N : h[i] = IF i = 0 THEN [base |-> 0, off |-> off, buf |-> <<>>] ELSE Piece(h[i - 1], g[i])
    <3> SUFFICES ASSUME NEW i \in 0 .. N, i # 0 PROVE h[i] = Piece(h[i - 1], g[i])
      BY <1>8
    <3>1. i \in 1 .. N
      BY <1>1
    <3> QED
      BY <3>1, <1>9
  <2> QED
    BY <2>1, <1>10, <1>18
<1>14. P(read)
  BY <1>13
<1> HIDE DEF read
<1>15. /\ read[0] = [base |-> 0, off |-> off, buf |-> <<>>]
       /\ \A i \in 1 .. N : read[i] = Piece(read[i - 1], g[i])
  <2>1. read = [i \in 0 .. N |-> IF i = 0 THEN [base |-> 0, off |-> off, buf |-> <<>>] ELSE Piece(read[i - 1], g[i])]
    BY <1>14, <1>18
  <2> HIDE DEF P
  <2>2. \A i \in 0 .. N : read[i] = IF i = 0 THEN [base |-> 0, off |-> off, buf |-> <<>>] ELSE Piece(read[i - 1], g[i])
    BY <2>1, Zenon
  <2>3. 0 \in 0 .. N /\ \A i \in 1 .. N : i \in 0 .. N /\ i # 0
    BY <1>1
  <2> QED
    BY <2>2, <2>3, Zenon
<1> HIDE DEF P
<1> DEFINE S == {i \in 0 .. N : read[i] = h[i]}
<1>16. 0 .. N \subseteq S
  <2>1. 0 \in S
    BY <1>1, <1>8, <1>15
  <2>2. ASSUME NEW n \in 0 .. N, n \in S, n < N PROVE n + 1 \in S
    <3>1. n + 1 \in 1 .. N /\ (n + 1) - 1 = n /\ n + 1 \in 0 .. N
      BY <2>2, <1>1, NextPlace, Zenon
    <3>2. read[n + 1] = Piece(read[n], g[n + 1]) /\ h[n + 1] = Piece(h[n], g[n + 1])
      BY <3>1, <1>9, <1>15
    <3> QED
      BY <3>1, <3>2, <2>2
  <2> HIDE DEF S
  <2> QED
    BY <1>1, <2>1, <2>2, Inducts
<1>17. read[N] = h[N]
  BY <1>1, <1>16
<1>19. upto(N) = want
  <2>1. N \in 0 .. N
    BY <1>1
  <2>2. /\ M(N) \in Nat /\ (M(N) <= off => upto(N) = 0) /\ upto(N) \in Nat
        /\ (M(N) > off /\ M(N) - off >= want => upto(N) = want)
    BY <2>1, <1>3, <1>6
  <2> QED
    BY <2>2, <1>5
<1>20. Pieces(f, off, want) = buf(N)
  BY <1>11, <1>12, <1>17
<1> QED
  BY <1>19, <1>20 DEF buf

-----------------------------------------------------------------------------
(* The inductive invariant.                                                *)

\* The runs that mkfs gives the two trees, in blocks that are reserved.
FirstRun ==
    [t \in Trees |-> IF t = ExtentsFile
                     THEN Extent(extStart(TotalBlocks), extBlocks)
                     ELSE Extent(catStart(TotalBlocks), catBlocks(TotalBlocks))]

First == {FirstRun[t] : t \in Trees}

\* The extents that some forks hold of the allocator.
HeldBy(gv, D) == (UNION {ToSet(gv[f]) : f \in D}) \ First

\* No two runs of the lists share a block.
Apart(gv) ==
    \A f, g \in DOMAIN gv : \A i \in 1 .. Len(gv[f]), j \in 1 .. Len(gv[g]) :
        ~(f = g /\ i = j) =>
            ExtentBlocks(gv[f][i]) \cap ExtentBlocks(gv[g][j]) = {}

GoodLists(gv) ==
    /\ Trees \subseteq DOMAIN gv
    /\ \A f \in DOMAIN gv : gv[f] \in Seq(Inside)
    /\ \A t \in Trees : Len(gv[t]) >= 1 /\ gv[t][1] = FirstRun[t]
    /\ Apart(gv)

\* All the records of a fork, and no others of its.
InTree(rs, gv, f) == Recorded(rs, f, gv[f], Groups(gv[f]), Groups(gv[f]))

\* The data of a file is where its list says.
Written(st, g, id, size) ==
    size \in Nat /\ size <= Counted(g) * BlockSize /\ Holds(st, g, id, size)

\* The files there are.
Named ==
    /\ next \in Nat /\ FirstFile <= next
    /\ Trees \subseteq DOMAIN desc /\ DOMAIN desc \subseteq DOMAIN given
    /\ DOMAIN given \subseteq Trees \cup FirstFile .. (next - 1)
    /\ GoodLists(given)

\* Files are described and written as their lists say.
Described ==
    \A f \in Live : /\ desc[f] = Fork(desc[f].size, Counted(given[f]), InlinePart(given[f]))
                    /\ Written(store, given[f], f, desc[f].size)

Handled ==
    /\ handle.id \in Nat /\ handle.id < next
    /\ handle.id \in Live => handle.size = desc[handle.id].size /\ handle.ext = given[handle.id]

\* Records are extents under keys.
Keyed(rs) ==
    /\ IsFiniteSet(DOMAIN rs)
    /\ \A k \in DOMAIN rs : (\E a, b \in Nat : k = <<a, b>>) /\ rs[k] \in Seq(Inside)

Typed ==
    /\ Keyed(recs)
    /\ \A k \in DOMAIN recs : k[1] \in DOMAIN given
    /\ \A t \in Trees : desc[t].ext \in Seq(Inside)
    /\ stack # <<>> => DOMAIN extents = Trees /\ \A t \in Trees : extents[t] \in Seq(Inside)

Undoable == edited \in BOOLEAN /\ (~edited => saved = HeldBy(given, DOMAIN desc))

IsFrame(fr) ==
    fr = [id |-> fr.id, size |-> fr.size, todo |-> fr.todo,
          grown |-> fr.grown, low |-> fr.low, leaf |-> fr.leaf]

\* A call that serves another one: it puts records of a tree's own extents.
Serves(fr) ==
    /\ fr.id \in Trees
    /\ IsSeq(fr.todo)
    /\ \A n \in 1 .. Len(fr.todo) : /\ fr.todo[n].do = "put"
                                    /\ \E b \in Nat : fr.todo[n].key = <<fr.id, b>>
                                    /\ fr.todo[n].ext \in Seq(Inside)

LeafOK(leaf) == Keyed(leaf) /\ \A k \in DOMAIN leaf : k[1] = ExtentsFile

Nested ==
    /\ IsSeq(stack)
    /\ \A i \in 1 .. Len(stack) : IsFrame(stack[i]) /\ LeafOK(stack[i].leaf)
    /\ \A i \in 1 .. Len(stack) - 1 : Serves(stack[i])

\* The operation in progress, which all other calls serve.
Op == stack[Len(stack)]

CreateSteps(id, g) == insertExtentRecords(id, g) \o Rest(g)

FreeSteps(g) == Frees(InlinePart(g)) \o <<Do("drop"), Do("unlink"), Do("commit")>>

EmptySteps(g) == Frees(g) \o <<Do("unlink"), Do("commit")>>

\* Every fork described has its list, and the allocator knows of all the lists.
Settled ==
    /\ DOMAIN given = DOMAIN desc
    /\ owned = HeldBy(given, DOMAIN given)
    /\ \A f \in Live : InTree(recs, given, f)

Resting ==
    /\ stack = <<>>
    /\ ~edited /\ ~open
    /\ Settled

Starting ==
    /\ Len(stack) = 1
    /\ Op.todo = <<Do("alloc")>>
    /\ Op.id \in FirstFile .. (next - 1) /\ Op.id \notin DOMAIN given
    /\ Op.size \in Nat
    /\ handle.id # Op.id
    /\ ~edited
    /\ Settled

Filing(j) ==
    /\ Len(stack) >= 1
    /\ Op.id \in DOMAIN given /\ Op.id \notin DOMAIN desc
    /\ j \in 0 .. Groups(given[Op.id])
    /\ Op.todo = From(CreateSteps(Op.id, given[Op.id]), j)
    /\ DOMAIN given = DOMAIN desc \cup {Op.id}
    /\ handle.id # Op.id
    /\ ~edited => j = 0
    /\ Recorded(recs, Op.id, given[Op.id], j, j)
    /\ Written(store, given[Op.id], Op.id, Op.size)
    /\ owned = HeldBy(given, DOMAIN given)
    /\ \A f \in Live : InTree(recs, given, f)

Closing ==
    /\ Len(stack) >= 1
    /\ Op.todo \in {<<Do("thread"), Do("commit")>>, <<Do("commit")>>}
    /\ edited
    /\ Settled

\* The first j extents of the list have been freed.
Returned(j) ==
    /\ Len(stack) = 1
    /\ Op.id \in Live
    /\ DOMAIN given = DOMAIN desc
    /\ owned = HeldBy(given, DOMAIN given) \ {given[Op.id][i] : i \in 1 .. j}

Freeing(j) ==
    /\ Returned(j)
    /\ j \in 0 .. Len(InlinePart(given[Op.id]))
    /\ Op.todo = From(FreeSteps(given[Op.id]), j)
    /\ ~edited
    /\ \A f \in Live : InTree(recs, given, f)

Emptying(j) ==
    /\ Returned(j)
    /\ j \in 0 .. Len(given[Op.id])
    /\ Op.todo = From(EmptySteps(given[Op.id]), j)
    /\ edited
    /\ \A k \in DOMAIN recs : k[1] # Op.id
    /\ \A f \in Live \ {Op.id} : InTree(recs, given, f)

InProgress ==
    \/ Starting
    \/ Closing
    \/ \E j \in Nat : Filing(j) \/ Freeing(j) \/ Emptying(j)

Phase == Resting \/ (open /\ InProgress)

Orderly == Named /\ Described /\ Handled /\ Typed /\ Undoable /\ Nested /\ Phase

FInv ==
    /\ IInv
    /\ torn \in BOOLEAN
    /\ torn => stack = <<>>
    /\ ~torn => Orderly

-----------------------------------------------------------------------------
(* What a reader assembles is a list of extents, whatever the records are. *)

\* Every member of a finite set has its place in the order.
LEMMA Ranked ==
    ASSUME NEW S, IsFiniteSet(S), NEW f, \A x \in S : f[x] \in Nat,
           \A x, y \in S : f[x] = f[y] => x = y
    PROVE  /\ Cardinality(S) \in Nat
           /\ \A i \in 1 .. Cardinality(S) : Sorted(S, f)[i] \in S
           /\ DOMAIN Sorted(S, f) = 1 .. Cardinality(S)
<1> DEFINE n == Cardinality(S)
           L(x) == {y \in S : f[y] < f[x]}
           rk == [x \in S |-> Cardinality(L(x))]
<1>1. n \in Nat
  BY FS_CardinalityType
<1>2. \A x \in S : IsFiniteSet(L(x)) /\ Cardinality(L(x)) \in Nat
  <2> SUFFICES ASSUME NEW x \in S PROVE IsFiniteSet(L(x)) /\ Cardinality(L(x)) \in Nat
    OBVIOUS
  <2>1. L(x) \in SUBSET S
    OBVIOUS
  <2> HIDE DEF L
  <2> QED
    BY <2>1, FS_Subset, FS_CardinalityType
<1>3. ASSUME NEW x \in S, NEW y \in S, f[x] < f[y]
      PROVE  Cardinality(L(x)) < Cardinality(L(y))
  <2>1. x \notin L(x) /\ L(x) \cup {x} \in SUBSET L(y)
    BY <1>3
  <2> HIDE DEF L
  <2>2. Cardinality(L(x) \cup {x}) = Cardinality(L(x)) + 1
    BY <2>1, <1>2, FS_AddElement
  <2>3. Cardinality(L(x) \cup {x}) <= Cardinality(L(y))
    BY <2>1, <1>2, FS_Subset
  <2> QED
    BY <2>2, <2>3, <1>2
<1>4. \A x \in S : Cardinality(L(x)) < n
  <2> SUFFICES ASSUME NEW x \in S PROVE Cardinality(L(x)) < n
    OBVIOUS
  <2>1. L(x) \in SUBSET (S \ {x})
    OBVIOUS
  <2> HIDE DEF L
  <2>2. IsFiniteSet(S \ {x}) /\ Cardinality(S \ {x}) = n - 1
    BY FS_RemoveElement
  <2>3. Cardinality(L(x)) <= Cardinality(S \ {x})
    BY <2>1, <2>2, FS_Subset
  <2> QED
    BY <2>2, <2>3, <1>1, <1>2
<1>5. rk \in Injection(S, 0 .. n - 1)
  <2> HIDE DEF L, n
  <2>1. rk \in [S -> 0 .. n - 1]
    BY <1>1, <1>2, <1>4
  <2>2. \A x, y \in S : rk[x] = rk[y] => x = y
    <3> SUFFICES ASSUME NEW x \in S, NEW y \in S, Cardinality(L(x)) = Cardinality(L(y))
                 PROVE  x = y
      OBVIOUS
    <3>1. ~(f[x] < f[y]) /\ ~(f[y] < f[x])
      BY <1>2, <1>3
    <3>2. f[x] = f[y]
      BY <3>1
    <3> QED
      BY <3>2
  <2> HIDE DEF rk
  <2> QED
    BY <2>1, <2>2 DEF Injection, IsInjective
<1>6. IsFiniteSet(0 .. n - 1) /\ Cardinality(0 .. n - 1) = n
  <2> HIDE DEF n
  <2>1. 0 \in Int /\ n - 1 \in Int /\ (0 > n - 1 => n = 0) /\ (n - 1) - 0 + 1 = n
    BY <1>1
  <2> QED
    BY <2>1, <1>1, FS_Interval
<1>7. rk \in Surjection(S, 0 .. n - 1)
  <2> HIDE DEF rk, n
  <2>1. Cardinality(S) = Cardinality(0 .. n - 1)
    BY <1>6 DEF n
  <2> QED
    BY <2>1, <1>5, <1>6, FS_Injection
<1>8. \A i \in 1 .. n : \E x \in S : Cardinality(L(x)) = i - 1
  <2> SUFFICES ASSUME NEW i \in 1 .. n PROVE \E x \in S : Cardinality(L(x)) = i - 1
    OBVIOUS
  <2>1. i - 1 \in 0 .. n - 1
    BY <1>1
  <2>2. \E x \in S : rk[x] = i - 1
    <3> HIDE DEF rk, L, n
    <3> QED
      BY <2>1, <1>7 DEF Surjection
  <2> QED
    BY <2>2
<1>9. Sorted(S, f) = [i \in 1 .. n |-> CHOOSE x \in S : Cardinality(L(x)) = i - 1]
  BY DEF Sorted
<1> HIDE DEF L, rk
<1> QED
  BY <1>1, <1>8, <1>9

\* The extents of overflow records are a list.
LEMMA OverflowTyped ==
    ASSUME NEW rs, Keyed(rs), NEW id, NEW start \in Nat
    PROVE  overflowExtents(rs, id, start) \in Seq(Inside)
<1> DEFINE S == {k \in DOMAIN rs : k[1] = id /\ k[2] >= start}
           f == [k \in S |-> k[2]]
           s == Sorted(S, f)
           n == Cardinality(S)
           ss == [i \in DOMAIN s |-> rs[s[i]]]
<1>1. IsFiniteSet(S)
  <2>1. S \in SUBSET DOMAIN rs
    OBVIOUS
  <2> HIDE DEF S
  <2> QED
    BY <2>1, FS_Subset DEF Keyed
<1>2. \A x \in S : f[x] = x[2] /\ f[x] \in Nat
  BY DEF Keyed
<1>3. \A x, y \in S : f[x] = f[y] => x = y
  <2> SUFFICES ASSUME NEW x \in S, NEW y \in S, x[2] = y[2] PROVE x = y
    OBVIOUS
  <2>1. PICK a \in Nat, b \in Nat : x = <<a, b>>
    BY DEF Keyed
  <2>2. PICK c \in Nat, d \in Nat : y = <<c, d>>
    BY DEF Keyed
  <2>3. x[1] = id /\ y[1] = id
    OBVIOUS
  <2> HIDE DEF S
  <2> QED
    BY <2>1, <2>2, <2>3
<1>4. n \in Nat /\ DOMAIN s = 1 .. n /\ \A i \in 1 .. n : s[i] \in S
  <2> HIDE DEF S, f
  <2> QED
    BY <1>1, <1>2, <1>3, Ranked
<1>5. overflowExtents(rs, id, start) = FlattenSeq(ss)
  BY DEF overflowExtents, KeysFrom
<1>6. \A k \in S : rs[k] \in Seq(Inside)
  BY DEF Keyed
<1> HIDE DEF S, f, s, n
<1>7. ss \in [1 .. n -> Seq(Inside)]
  BY <1>4, <1>6
<1>8. CASE n = 0
  <2>1. Len(ss) = 0
    BY <1>7, <1>8
  <2>2. FlattenSeq(ss) = <<>>
    BY <1>7, <1>8 DEF FlattenSeq
  <2> QED
    BY <2>2, <1>5
<1>9. CASE n # 0
  <2> HIDE DEF ss
  <2>1. n \in Nat \ {0}
    BY <1>4, <1>9
  <2>2. PICK g \in [0 .. n -> Seq(Inside)] : Joins(g, ss, n)
    BY <2>1, <1>7, FlattenIs
  <2>3. g[n] \in Seq(Inside)
    BY <2>1
  <2> QED
    BY <2>2, <2>3, <1>5 DEF Joins
<1> QED
  BY <1>8, <1>9

\* The extents a reader assembles are a list.
LEMMA ResolveTyped ==
    ASSUME NEW rs, Keyed(rs), NEW id, NEW d, d.ext \in Seq(Inside)
    PROVE  resolveForkExtents(d, rs, id) \in Seq(Inside)
<1> DEFINE more == overflowExtents(rs, id, Counted(d.ext))
           enough == {n \in DOMAIN more : Counted(d.ext) + BlocksUpTo(more)[n] >= d.total}
           m == Min(enough \cup {Len(more)})
<1>1. d.ext \in Seq(Extents)
  BY InsideList
<1>2. Counted(d.ext) \in Nat
  BY <1>1, CountedBoth
<1>3. more \in Seq(Inside)
  BY <1>2, OverflowTyped
<1> HIDE DEF more
<1>4. Len(more) \in Nat /\ DOMAIN more = 1 .. Len(more)
  BY <1>3
<1>5. enough \cup {Len(more)} \in SUBSET (0 .. Len(more)) /\ Len(more) \in enough \cup {Len(more)}
  BY <1>4
<1> HIDE DEF enough
<1>6. m \in enough \cup {Len(more)}
  <2> DEFINE E == enough \cup {Len(more)}
  <2>1. E \in SUBSET Nat /\ E # {}
    BY <1>4, <1>5
  <2> HIDE DEF E
  <2>2. Min(E) \in E
    BY <2>1, MinIsLeast
  <2> QED
    BY <2>2 DEF E
<1> HIDE DEF m
<1>7. m \in 0 .. Len(more)
  BY <1>5, <1>6
<1>8. SubSeq(more, 1, m) \in Seq(Inside)
  <2>1. IsPart(SubSeq(more, 0 + 1, m), Inside, more, 0, m)
    <3>1. 0 \in Nat /\ m \in Nat /\ 0 <= m /\ m <= Len(more)
      BY <1>4, <1>7
    <3> QED
      BY <3>1, <1>3, Between
  <2> QED
    BY <2>1 DEF IsPart
<1>9. resolveForkExtents(d, rs, id) \in {d.ext, d.ext \o SubSeq(more, 1, m)}
  BY DEF resolveForkExtents, more, enough, m
<1> DEFINE q == SubSeq(more, 1, m)
<1> HIDE DEF q
<1>10. d.ext \o q \in Seq(Inside)
  BY <1>8 DEF q
<1> QED
  BY <1>9, <1>10 DEF q

-----------------------------------------------------------------------------
(* The stack of calls.                                                     *)

\* No records, no keys.
LEMMA NoLeaf == LeafOK(<<>>) /\ Keyed(<<>>)
BY FS_EmptySet DEF LeafOK, Keyed

\* The innermost call and the outermost.
LEMMA Ends ==
    ASSUME Nested, stack # <<>>
    PROVE  /\ Len(stack) \in Nat /\ Len(stack) >= 1 /\ Top = stack[1]
           /\ IsFrame(Top) /\ LeafOK(Top.leaf)
           /\ Len(stack) = 1 => Op = Top
           /\ Len(stack) > 1 => Serves(Top)
<1>1. Len(stack) \in Nat /\ Len(stack) >= 1 /\ Head(stack) = stack[1]
  BY SeqFacts, SeqParts DEF Nested
<1> QED
  BY <1>1 DEF Nested, Top, Op

\* A step other than an insertion of a record is the operation's own.
LEMMA Outermost ==
    ASSUME Nested, NEW w, At(w), w # "put"
    PROVE  /\ stack # <<>> /\ Len(stack) = 1 /\ Op = Top /\ Op.todo # <<>> /\ Head(Op.todo).do = w
<1>1. stack # <<>> /\ Top.todo # <<>> /\ Head(Top.todo).do = w
  BY DEF At, Step
<1>2. CASE Len(stack) > 1
  <2>1. Serves(Top)
    BY <1>1, <1>2, Ends
  <2>2. IsSeq(Top.todo) /\ \A n \in 1 .. Len(Top.todo) : Top.todo[n].do = "put"
    BY <2>1 DEF Serves
  <2>3. Len(Top.todo) \in Nat /\ Len(Top.todo) >= 1 /\ Head(Top.todo) = Top.todo[1]
    BY <2>2, <1>1, SeqFacts, SeqParts
  <2>4. 1 \in 1 .. Len(Top.todo)
    BY <2>3
  <2> QED
    BY <2>2, <2>3, <2>4, <1>1
<1>3. CASE ~(Len(stack) > 1)
  <2>1. Len(stack) \in Nat /\ Len(stack) >= 1
    BY <1>1, Ends
  <2>2. Len(stack) = 1
    <3>1. \A n \in Nat : n >= 1 /\ ~(n > 1) => n = 1
      OBVIOUS
    <3> QED
      BY <3>1, <2>1, <1>3, Zenon
  <2>3. Op = Top
    BY <2>2, <1>1, Ends
  <2> QED
    BY <2>2, <2>3, <1>1
<1> QED
  BY <1>2, <1>3

\* One sequence after another.
Joined(s, t, q) ==
    /\ IsSeq(q) /\ Len(q) = Len(s) + Len(t)
    /\ \A i \in 1 .. Len(s) : q[i] = s[i]
    /\ \A i \in 1 .. Len(t) : q[Len(s) + i] = t[i]

\* What concatenation makes.
LEMMA SeqJoined ==
    ASSUME NEW s, NEW t, IsSeq(s), IsSeq(t)
    PROVE  Joined(s, t, s \o t)
BY SeqJoin DEF Joined

\* A stack with another innermost call.
OtherTop(t, s, fr) ==
    /\ IsSeq(t) /\ Len(t) = Len(s) /\ t # <<>> /\ t[1] = fr
    /\ \A i \in 2 .. Len(s) : t[i] = s[i]

\* Another innermost call put on the others.
LEMMA Replaced ==
    ASSUME NEW s, IsSeq(s), s # <<>>, NEW fr, NEW t, t = <<fr>> \o Tail(s)
    PROVE  OtherTop(t, s, fr)
<1> DEFINE u == Tail(s)
           v == <<fr>>
<1>1. Len(s) \in Nat /\ Len(s) >= 1 /\ IsSeq(u) /\ Len(u) = Len(s) - 1
      /\ \A i \in 1 .. Len(s) - 1 : u[i] = s[i + 1]
  BY SeqFacts, SeqParts
<1>2. IsSeq(v) /\ Len(v) = 1 /\ v[1] = fr
  BY SeqShort
<1> HIDE DEF u, v
<1>3. t = v \o u
  BY DEF u, v
<1>4. /\ IsSeq(t) /\ Len(t) = Len(v) + Len(u)
      /\ \A i \in 1 .. Len(v) : t[i] = v[i]
      /\ \A i \in 1 .. Len(u) : t[Len(v) + i] = u[i]
  <2>1. IsSeq(v) /\ IsSeq(u)
    BY <1>1, <1>2
  <2>2. Joined(v, u, t)
    BY <2>1, <1>3, SeqJoined, Zenon
  <2> QED
    BY <2>2 DEF Joined
<1>5. Len(t) = Len(s) /\ t[1] = fr
  <2>1. 1 \in 1 .. Len(v)
    BY <1>2
  <2> QED
    BY <2>1, <1>1, <1>2, <1>4
<1>6. \A i \in 2 .. Len(s) : t[i] = s[i]
  <2> SUFFICES ASSUME NEW i \in 2 .. Len(s) PROVE t[i] = s[i]
    OBVIOUS
  <2>1. i - 1 \in 1 .. Len(u) /\ i - 1 \in 1 .. Len(s) - 1 /\ Len(v) + (i - 1) = i /\ (i - 1) + 1 = i
    BY <1>1, <1>2
  <2>2. t[i] = u[i - 1]
    BY <2>1, <1>4
  <2>3. u[i - 1] = s[i]
    BY <2>1, <1>1
  <2> QED
    BY <2>2, <2>3
<1>7. t # <<>>
  BY <1>1, <1>4, <1>5, SeqFacts
<1> QED
  BY <1>4, <1>5, <1>6, <1>7 DEF OtherTop

\* A frame with other values.
Edit(fr, x, y, z, w) == [fr EXCEPT !.todo = x, !.grown = y, !.low = z, !.leaf = w]

Consists(fr, a, b, c, d, e, l) ==
    fr = [id |-> a, size |-> b, todo |-> c, grown |-> d, low |-> e, leaf |-> l]

\* What an edited frame is.
LEMMA FrameEdited ==
    ASSUME NEW a, NEW b, NEW c, NEW d, NEW e, NEW l, NEW x, NEW y, NEW z, NEW w,
           NEW fr, Consists(fr, a, b, c, d, e, l)
    PROVE  Consists(Edit(fr, x, y, z, w), a, b, x, y, z, w)
<1>1. fr = [id |-> a, size |-> b, todo |-> c, grown |-> d, low |-> e, leaf |-> l]
  BY DEF Consists
<1>2. PICK g : g = [fr EXCEPT !.todo = x]
  OBVIOUS
<1>3. g = [id |-> a, size |-> b, todo |-> x, grown |-> d, low |-> e, leaf |-> l]
  BY <1>1, <1>2
<1>4. PICK h : h = [g EXCEPT !.grown = y]
  OBVIOUS
<1>5. h = [id |-> a, size |-> b, todo |-> x, grown |-> y, low |-> e, leaf |-> l]
  BY <1>3, <1>4
<1>6. PICK i : i = [h EXCEPT !.low = z]
  OBVIOUS
<1>7. i = [id |-> a, size |-> b, todo |-> x, grown |-> y, low |-> z, leaf |-> l]
  BY <1>5, <1>6
<1>8. [i EXCEPT !.leaf = w] = [id |-> a, size |-> b, todo |-> x, grown |-> y, low |-> z, leaf |-> w]
  BY <1>7
<1> QED
  BY <1>2, <1>4, <1>6, <1>8, Zenon DEF Edit, Consists

\* A call that goes on.
LEMMA ContinueFacts ==
    ASSUME Nested, stack # <<>>, NEW todo, Continue(todo)
    PROVE  /\ IsSeq(stack') /\ Len(stack') = Len(stack) /\ stack' # <<>>
           /\ stack'[1] = [id |-> Top.id, size |-> Top.size, todo |-> todo,
                           grown |-> FALSE, low |-> FALSE, leaf |-> <<>>]
           /\ \A i \in 2 .. Len(stack) : stack'[i] = stack[i]
<1> DEFINE fr == [Top EXCEPT !.todo = todo, !.grown = FALSE, !.low = FALSE, !.leaf = <<>>]
<1>1. IsFrame(Top)
  BY Ends
<1>2. fr = [id |-> Top.id, size |-> Top.size, todo |-> todo,
            grown |-> FALSE, low |-> FALSE, leaf |-> <<>>]
  <2>1. fr = Edit(Top, todo, FALSE, FALSE, <<>>)
    BY DEF Edit
  <2> HIDE DEF fr
  <2>2. Consists(Top, Top.id, Top.size, Top.todo, Top.grown, Top.low, Top.leaf)
    BY <1>1, Zenon DEF IsFrame, Consists
  <2>3. Consists(fr, Top.id, Top.size, todo, FALSE, FALSE, <<>>)
    BY <2>1, <2>2, FrameEdited, Zenon
  <2> QED
    BY <2>3, Zenon DEF Consists
<1>3. stack' = <<fr>> \o Tail(stack)
  BY DEF Continue
<1> HIDE DEF fr
<1>4. IsSeq(stack)
  BY DEF Nested
<1>5. OtherTop(stack', stack, fr)
  BY <1>3, <1>4, Replaced, Zenon
<1> QED
  BY <1>2, <1>5, Zenon DEF OtherTop

\* The calls stay nested when the innermost goes on.
LEMMA ContinueNested ==
    ASSUME Nested, stack # <<>>, NEW todo, Continue(todo),
           Len(stack) > 1 => Serves(stack'[1])
    PROVE  /\ Nested'
           /\ Len(stack) = 1 => /\ Op'.id = Op.id /\ Op'.size = Op.size /\ Op'.todo = todo
           /\ Len(stack) > 1 => Op' = Op
<1>1. /\ IsSeq(stack') /\ Len(stack') = Len(stack) /\ stack' # <<>>
      /\ stack'[1] = [id |-> Top.id, size |-> Top.size, todo |-> todo,
                      grown |-> FALSE, low |-> FALSE, leaf |-> <<>>]
      /\ \A i \in 2 .. Len(stack) : stack'[i] = stack[i]
  BY ContinueFacts
<1>2. Len(stack) \in Nat /\ Len(stack) >= 1 /\ (Len(stack) = 1 => Op = Top)
  BY Ends
<1>3. IsFrame(stack'[1]) /\ LeafOK(stack'[1].leaf)
  BY <1>1, NoLeaf DEF IsFrame
<1>4. \A i \in 1 .. Len(stack') : IsFrame(stack'[i]) /\ LeafOK(stack'[i].leaf)
  BY <1>1, <1>2, <1>3 DEF Nested
<1>5. \A i \in 1 .. Len(stack') - 1 : Serves(stack'[i])
  BY <1>1, <1>2 DEF Nested
<1>6. Nested'
  BY <1>1, <1>4, <1>5 DEF Nested
<1>7. Op' = stack'[Len(stack)]
  BY <1>1 DEF Op
<1>8. CASE Len(stack) = 1
  BY <1>1, <1>2, <1>6, <1>7, <1>8
<1>9. CASE Len(stack) # 1
  <2>1. Len(stack) \in 2 .. Len(stack)
    <3>1. \A n \in Nat : n >= 1 /\ n # 1 => n \in 2 .. n
      OBVIOUS
    <3> QED
      BY <3>1, <1>2, <1>9
  <2> QED
    BY <2>1, <1>1, <1>2, <1>6, <1>7, <1>9 DEF Op
<1> QED
  BY <1>8, <1>9

-----------------------------------------------------------------------------
(* The steps an operation has left.                                        *)

\* The first of the steps left, and those after it.
Ahead(f, x, r) == f # <<>> /\ Head(f) = x /\ Tail(f) = r

\* Some steps, then the others.
LEMMA StepsAhead ==
    ASSUME NEW s, NEW r, IsSeq(s), IsSeq(r), r # <<>>, NEW j \in 0 .. Len(s)
    PROVE  /\ j < Len(s) => Ahead(From(s \o r, j), s[j + 1], From(s \o r, j + 1))
           /\ j = Len(s) => From(s \o r, j) = r
<1>1. PICK q : q = s \o r
  OBVIOUS
<1>2. Joined(s, r, q)
  BY <1>1, SeqJoined, Zenon
<1>3. IsSeq(q) /\ Len(q) = Len(s) + Len(r) /\ Len(s) \in Nat /\ Len(r) \in Nat
      /\ \A i \in 1 .. Len(s) : q[i] = s[i]
  BY <1>2, SeqFacts DEF Joined
<1>4. CASE j < Len(s)
  <2>1. j \in 0 .. Len(q) - 1 /\ j + 1 \in 1 .. Len(s) /\ j # Len(s)
    BY <1>3, <1>4
  <2>2. From(q, j) # <<>> /\ Head(From(q, j)) = q[j + 1] /\ Tail(From(q, j)) = From(q, j + 1)
    BY <2>1, <1>3, FromNext, Zenon
  <2>3. q[j + 1] = s[j + 1]
    BY <2>1, <1>3
  <2>4. Ahead(From(q, j), s[j + 1], From(q, j + 1))
    BY <2>2, <2>3, Zenon DEF Ahead
  <2> QED
    BY <2>1, <2>4, <1>1, Zenon
<1>5. CASE j = Len(s)
  <2>1. From(s \o r, j) = From(s, j) \o r
    BY FromJoin, Zenon
  <2>2. From(s, j) = <<>>
    BY <1>5, FromEnds, Zenon
  <2>3. From(s \o r, j) = <<>> \o r
    BY <2>1, <2>2, Zenon
  <2>4. <<>> \o r = r
    BY ConcatEmptySeq DEF IsSeq
  <2>5. ~(j < Len(s))
    BY <1>3, <1>5
  <2> QED
    BY <2>3, <2>4, <2>5, Zenon
<1> QED
  BY <1>3, <1>4, <1>5

\* Two and three steps, one after the other.
LEMMA FewAhead ==
    ASSUME NEW x, NEW y, NEW z
    PROVE  /\ Ahead(<<x>>, x, <<>>) /\ Ahead(<<x, y>>, x, <<y>>) /\ Ahead(<<x, y, z>>, x, <<y, z>>)
           /\ IsSeq(<<x, y>>) /\ IsSeq(<<x, y, z>>) /\ <<x, y>> # <<>> /\ <<x, y, z>> # <<>>
<1>1. IsSeq(<<x, y>>) /\ IsSeq(<<x, y, z>>)
  BY SeqShort
<1> QED
  BY <1>1 DEF Ahead

\* The steps of a creation: the records, then the catalog.
LEMMA CreateAhead ==
    ASSUME NEW g \in Seq(Inside), NEW id, NEW j \in 0 .. Groups(g)
    PROVE  /\ j < Groups(g) => Ahead(From(CreateSteps(id, g), j),
                                     insertExtentRecords(id, g)[j + 1], From(CreateSteps(id, g), j + 1))
           /\ j = Groups(g) => Ahead(From(CreateSteps(id, g), j),
                                     InsertRecord(g), <<Do("thread"), Do("commit")>>)
<1> DEFINE s == insertExtentRecords(id, g)
           r == Rest(g)
<1>1. IsSeq(s) /\ Len(s) = Groups(g)
  BY RecordFacts
<1>2. IsSeq(r) /\ r # <<>> /\ Ahead(r, InsertRecord(g), <<Do("thread"), Do("commit")>>)
  BY FewAhead DEF Rest
<1>3. CreateSteps(id, g) = s \o r
  BY DEF CreateSteps
<1> HIDE DEF s, r
<1>4. /\ j < Len(s) => Ahead(From(s \o r, j), s[j + 1], From(s \o r, j + 1))
      /\ j = Len(s) => From(s \o r, j) = r
  <2>1. j \in 0 .. Len(s)
    BY <1>1
  <2> QED
    BY <2>1, <1>1, <1>2, StepsAhead, Zenon
<1> QED
  BY <1>1, <1>2, <1>3, <1>4, Zenon DEF s

\* Steps that free extents.
LEMMA FreesFacts ==
    ASSUME NEW g \in Seq(Inside)
    PROVE  IsSeq(Frees(g)) /\ Len(Frees(g)) = Len(g) /\ \A i \in 1 .. Len(g) : Frees(g)[i] = FreeExtent(g[i])
<1>1. Len(g) \in Nat /\ DOMAIN g = 1 .. Len(g)
  OBVIOUS
<1>2. DOMAIN Frees(g) = 1 .. Len(g) /\ \A i \in 1 .. Len(g) : Frees(g)[i] = FreeExtent(g[i])
  BY <1>1 DEF Frees
<1>3. Frees(g) = [i \in DOMAIN Frees(g) |-> Frees(g)[i]]
  BY DEF Frees
<1> QED
  BY <1>1, <1>2, <1>3, SeqIs

\* The steps of a removal, before the records are deleted.
LEMMA FreeAhead ==
    ASSUME NEW g \in Seq(Inside), NEW j \in 0 .. Len(InlinePart(g))
    PROVE  /\ j < Len(InlinePart(g)) => Ahead(From(FreeSteps(g), j), FreeExtent(g[j + 1]), From(FreeSteps(g), j + 1))
           /\ j = Len(InlinePart(g)) => Ahead(From(FreeSteps(g), j), Do("drop"), <<Do("unlink"), Do("commit")>>)
<1> DEFINE p == InlinePart(g)
           s == Frees(p)
           r == <<Do("drop"), Do("unlink"), Do("commit")>>
<1>1. p \in Seq(Inside) /\ Len(p) \in Nat /\ \A i \in 1 .. Len(p) : p[i] = g[i]
  BY PartFacts
<1>2. IsSeq(s) /\ Len(s) = Len(p) /\ \A i \in 1 .. Len(p) : s[i] = FreeExtent(p[i])
  BY <1>1, FreesFacts, Zenon
<1>3. IsSeq(r) /\ r # <<>> /\ Ahead(r, Do("drop"), <<Do("unlink"), Do("commit")>>)
  BY FewAhead
<1>4. FreeSteps(g) = s \o r
  BY DEF FreeSteps
<1>5. j \in 0 .. Len(p)
  OBVIOUS
<1> HIDE DEF p, s, r
<1>6. /\ j < Len(s) => Ahead(From(s \o r, j), s[j + 1], From(s \o r, j + 1))
      /\ j = Len(s) => From(s \o r, j) = r
  BY <1>2, <1>3, <1>5, StepsAhead, Zenon
<1>7. j < Len(p) => s[j + 1] = FreeExtent(g[j + 1])
  <2> SUFFICES ASSUME j < Len(p) PROVE s[j + 1] = FreeExtent(g[j + 1])
    OBVIOUS
  <2>1. j + 1 \in 1 .. Len(p)
    BY <1>1, <1>5
  <2> QED
    BY <2>1, <1>1, <1>2
<1> QED
  BY <1>2, <1>3, <1>4, <1>6, <1>7, Zenon DEF p

\* The steps of a removal, after that.
LEMMA EmptyAhead ==
    ASSUME NEW g \in Seq(Inside), NEW j \in 0 .. Len(g)
    PROVE  /\ j < Len(g) => Ahead(From(EmptySteps(g), j), FreeExtent(g[j + 1]), From(EmptySteps(g), j + 1))
           /\ j = Len(g) => Ahead(From(EmptySteps(g), j), Do("unlink"), <<Do("commit")>>)
<1> DEFINE s == Frees(g)
           r == <<Do("unlink"), Do("commit")>>
<1>1. IsSeq(s) /\ Len(s) = Len(g) /\ \A i \in 1 .. Len(g) : s[i] = FreeExtent(g[i])
  BY FreesFacts, Zenon
<1>2. IsSeq(r) /\ r # <<>> /\ Ahead(r, Do("unlink"), <<Do("commit")>>)
  BY FewAhead
<1>3. EmptySteps(g) = s \o r
  BY DEF EmptySteps
<1>4. Len(g) \in Nat
  OBVIOUS
<1> HIDE DEF s, r
<1>5. /\ j < Len(s) => Ahead(From(s \o r, j), s[j + 1], From(s \o r, j + 1))
      /\ j = Len(s) => From(s \o r, j) = r
  <2>1. j \in 0 .. Len(s)
    BY <1>1
  <2> QED
    BY <2>1, <1>1, <1>2, StepsAhead, Zenon
<1>6. j < Len(g) => s[j + 1] = FreeExtent(g[j + 1])
  <2> SUFFICES ASSUME j < Len(g) PROVE s[j + 1] = FreeExtent(g[j + 1])
    OBVIOUS
  <2>1. j + 1 \in 1 .. Len(g)
    BY <1>4
  <2> QED
    BY <2>1, <1>1
<1> QED
  BY <1>1, <1>2, <1>3, <1>5, <1>6, Zenon

\* What the operation's next step says of its progress.
Stage(w) ==
    \/ w = "alloc" /\ Starting
    \/ w = "thread" /\ Closing /\ Tail(Op.todo) = <<Do("commit")>>
    \/ w = "commit" /\ Closing
    \/ /\ w = "put"
       /\ \E j \in Nat : /\ Filing(j) /\ j < Groups(given[Op.id])
                         /\ Ahead(Op.todo, insertExtentRecords(Op.id, given[Op.id])[j + 1],
                                  From(CreateSteps(Op.id, given[Op.id]), j + 1))
    \/ /\ w = "record"
       /\ Filing(Groups(given[Op.id]))
       /\ Ahead(Op.todo, InsertRecord(given[Op.id]), <<Do("thread"), Do("commit")>>)
    \/ /\ w = "free"
       /\ \E j \in Nat : /\ Freeing(j) /\ j < Len(InlinePart(given[Op.id]))
                         /\ Ahead(Op.todo, FreeExtent(given[Op.id][j + 1]), From(FreeSteps(given[Op.id]), j + 1))
    \/ /\ w = "free"
       /\ \E j \in Nat : /\ Emptying(j) /\ j < Len(given[Op.id])
                         /\ Ahead(Op.todo, FreeExtent(given[Op.id][j + 1]), From(EmptySteps(given[Op.id]), j + 1))
    \/ /\ w = "drop"
       /\ Freeing(Len(InlinePart(given[Op.id])))
       /\ Ahead(Op.todo, Do("drop"), <<Do("unlink"), Do("commit")>>)
    \/ /\ w = "unlink"
       /\ Emptying(Len(given[Op.id]))
       /\ Ahead(Op.todo, Do("unlink"), <<Do("commit")>>)

\* What the steps of an operation are called.
LEMMA StepNames ==
    /\ \A w : Do(w).do = w
    /\ \A e : FreeExtent(e).do = "free"
    /\ \A g : InsertRecord(g).do = "record" /\ InsertRecord(g).ext = g
    /\ \A e : FreeExtent(e).ext = <<e>> /\ Head(FreeExtent(e).ext) = e
<1>1. \A w : Do(w).do = w
  BY DEF Do
<1>2. \A e : FreeExtent(e).do = "free"
  BY DEF FreeExtent
<1>3. \A g : InsertRecord(g).do = "record" /\ InsertRecord(g).ext = g
  BY DEF InsertRecord
<1>4. \A e : FreeExtent(e).ext = <<e>> /\ Head(<<e>>) = e
  BY DEF FreeExtent
<1> QED
  BY <1>1, <1>2, <1>3, <1>4

\* The lists of the forks there are.
LEMMA GivenFacts ==
    ASSUME Named, NEW f \in DOMAIN given
    PROVE  /\ given[f] \in Seq(Inside) /\ IsSeq(given[f]) /\ Len(given[f]) \in Nat
           /\ Groups(given[f]) \in Nat /\ Len(InlinePart(given[f])) \in Nat
           /\ InlinePart(given[f]) \in Seq(Inside) /\ Len(InlinePart(given[f])) <= Len(given[f])
<1>1. given[f] \in Seq(Inside)
  BY DEF Named, GoodLists
<1> QED
  BY <1>1, InsideList, RecordFacts, PartFacts

\* The progress of an operation shows in its next step.
LEMMA Staged ==
    ASSUME Named, InProgress
    PROVE  Op.todo # <<>> /\ Stage(Head(Op.todo).do)
<1> DEFINE g == given[Op.id]
<1>1. CASE Starting
  <2>1. Ahead(Op.todo, Do("alloc"), <<>>)
    BY <1>1, FewAhead DEF Starting
  <2>2. Op.todo # <<>> /\ Head(Op.todo).do = "alloc"
    BY <2>1, StepNames DEF Ahead
  <2> QED
    BY <2>2, <1>1, Zenon DEF Stage
<1>2. CASE Closing
  <2>1. Ahead(<<Do("thread"), Do("commit")>>, Do("thread"), <<Do("commit")>>) /\ Ahead(<<Do("commit")>>, Do("commit"), <<>>)
    BY FewAhead
  <2>2. Op.todo = <<Do("thread"), Do("commit")>> \/ Op.todo = <<Do("commit")>>
    BY <1>2 DEF Closing
  <2>3. Ahead(Op.todo, Do("thread"), <<Do("commit")>>) \/ Ahead(Op.todo, Do("commit"), <<>>)
    BY <2>1, <2>2, Zenon
  <2>4. CASE Ahead(Op.todo, Do("thread"), <<Do("commit")>>)
    <3>1. Op.todo # <<>> /\ Head(Op.todo).do = "thread" /\ Tail(Op.todo) = <<Do("commit")>>
      BY <2>4, StepNames, Zenon DEF Ahead
    <3> QED
      BY <3>1, <1>2, Zenon DEF Stage
  <2>5. CASE Ahead(Op.todo, Do("commit"), <<>>)
    <3>1. Op.todo # <<>> /\ Head(Op.todo).do = "commit"
      BY <2>5, StepNames, Zenon DEF Ahead
    <3> QED
      BY <3>1, <1>2, Zenon DEF Stage
  <2> QED
    BY <2>3, <2>4, <2>5
<1>3. ASSUME NEW j \in Nat, Filing(j)
      PROVE  Op.todo # <<>> /\ Stage(Head(Op.todo).do)
  <2>1. Op.id \in DOMAIN given /\ j \in 0 .. Groups(g) /\ Op.todo = From(CreateSteps(Op.id, g), j)
    BY <1>3 DEF Filing
  <2>2. g \in Seq(Inside) /\ Groups(g) \in Nat
    BY <2>1, GivenFacts
  <2> HIDE DEF g
  <2>3. /\ j < Groups(g) => Ahead(Op.todo, insertExtentRecords(Op.id, g)[j + 1], From(CreateSteps(Op.id, g), j + 1))
        /\ j = Groups(g) => Ahead(Op.todo, InsertRecord(g), <<Do("thread"), Do("commit")>>)
    BY <2>1, <2>2, CreateAhead, Zenon
  <2>4. CASE j < Groups(g)
    <3>1. j + 1 \in 1 .. Groups(g)
      BY <2>1, <2>2, <2>4
    <3>2. insertExtentRecords(Op.id, g)[j + 1].do = "put"
      BY <3>1, <2>2, RecordFacts
    <3>3. Op.todo # <<>> /\ Head(Op.todo).do = "put"
      BY <3>2, <2>3, <2>4, Zenon DEF Ahead
    <3> QED
      BY <3>3, <2>3, <2>4, <1>3, Zenon DEF Stage, g
  <2>5. CASE ~(j < Groups(g))
    <3>1. j = Groups(g)
      BY <2>1, <2>2, <2>5
    <3>2. Op.todo # <<>> /\ Head(Op.todo).do = "record"
      BY <3>1, <2>3, StepNames, Zenon DEF Ahead
    <3> QED
      BY <3>1, <3>2, <2>3, <1>3, Zenon DEF Stage, g
  <2> QED
    BY <2>4, <2>5
<1>4. ASSUME NEW j \in Nat, Freeing(j)
      PROVE  Op.todo # <<>> /\ Stage(Head(Op.todo).do)
  <2>1. Op.id \in DOMAIN given /\ j \in 0 .. Len(InlinePart(g)) /\ Op.todo = From(FreeSteps(g), j)
    BY <1>4 DEF Freeing, Returned, Live
  <2>2. g \in Seq(Inside) /\ Len(InlinePart(g)) \in Nat
    BY <2>1, GivenFacts
  <2> HIDE DEF g
  <2>3. /\ j < Len(InlinePart(g)) => Ahead(Op.todo, FreeExtent(g[j + 1]), From(FreeSteps(g), j + 1))
        /\ j = Len(InlinePart(g)) => Ahead(Op.todo, Do("drop"), <<Do("unlink"), Do("commit")>>)
    BY <2>1, <2>2, FreeAhead, Zenon
  <2>4. CASE j < Len(InlinePart(g))
    <3>1. Op.todo # <<>> /\ Head(Op.todo).do = "free"
      BY <2>3, <2>4, StepNames, Zenon DEF Ahead
    <3> QED
      BY <3>1, <2>3, <2>4, <1>4, Zenon DEF Stage, g
  <2>5. CASE ~(j < Len(InlinePart(g)))
    <3>1. j = Len(InlinePart(g))
      BY <2>1, <2>2, <2>5
    <3>2. Op.todo # <<>> /\ Head(Op.todo).do = "drop"
      BY <3>1, <2>3, StepNames, Zenon DEF Ahead
    <3> QED
      BY <3>1, <3>2, <2>3, <1>4, Zenon DEF Stage, g
  <2> QED
    BY <2>4, <2>5
<1>5. ASSUME NEW j \in Nat, Emptying(j)
      PROVE  Op.todo # <<>> /\ Stage(Head(Op.todo).do)
  <2>1. Op.id \in DOMAIN given /\ j \in 0 .. Len(g) /\ Op.todo = From(EmptySteps(g), j)
    BY <1>5 DEF Emptying, Returned, Live
  <2>2. g \in Seq(Inside) /\ Len(g) \in Nat
    BY <2>1, GivenFacts
  <2> HIDE DEF g
  <2>3. /\ j < Len(g) => Ahead(Op.todo, FreeExtent(g[j + 1]), From(EmptySteps(g), j + 1))
        /\ j = Len(g) => Ahead(Op.todo, Do("unlink"), <<Do("commit")>>)
    BY <2>1, <2>2, EmptyAhead, Zenon
  <2>4. CASE j < Len(g)
    <3>1. Op.todo # <<>> /\ Head(Op.todo).do = "free"
      BY <2>3, <2>4, StepNames, Zenon DEF Ahead
    <3> QED
      BY <3>1, <2>3, <2>4, <1>5, Zenon DEF Stage, g
  <2>5. CASE ~(j < Len(g))
    <3>1. j = Len(g)
      BY <2>1, <2>2, <2>5
    <3>2. Op.todo # <<>> /\ Head(Op.todo).do = "unlink"
      BY <3>1, <2>3, StepNames, Zenon DEF Ahead
    <3> QED
      BY <3>1, <3>2, <2>3, <1>5, Zenon DEF Stage, g
  <2> QED
    BY <2>4, <2>5
<1> QED
  BY <1>1, <1>2, <1>3, <1>4, <1>5 DEF InProgress

-----------------------------------------------------------------------------
(* The steps keep the invariant.                                           *)

\* While a call is in progress.
LEMMA Ongoing ==
    ASSUME FInv, stack # <<>>
    PROVE  /\ IInv /\ torn = FALSE /\ open
           /\ Named /\ Described /\ Handled /\ Typed /\ Undoable /\ Nested /\ InProgress
<1>1. torn = FALSE
  BY DEF FInv
<1>2. Orderly
  BY <1>1 DEF FInv
<1> QED
  BY <1>1, <1>2 DEF FInv, Orderly, Phase, Resting

\* While no call is.
LEMMA AtRest ==
    ASSUME FInv, Idle
    PROVE  /\ IInv /\ torn = FALSE
           /\ Named /\ Described /\ Handled /\ Typed /\ Undoable /\ Nested /\ Resting
<1>1. torn = FALSE /\ stack = <<>>
  BY DEF FInv, Idle
<1>2. Orderly
  BY <1>1 DEF FInv
<1>3. ~InProgress
  BY <1>1 DEF InProgress, Starting, Closing, Filing, Freeing, Emptying, Returned
<1> QED
  BY <1>1, <1>2, <1>3 DEF FInv, Orderly, Phase

\* An operation that takes a step of its own.
LEMMA Busy ==
    ASSUME FInv, NEW w, At(w), w # "put"
    PROVE  /\ stack # <<>> /\ Len(stack) = 1 /\ Op = Top /\ Top.todo = Op.todo /\ Step = Head(Op.todo)
           /\ Op.todo # <<>> /\ Stage(w)
<1>1. stack # <<>>
  BY DEF At
<1>2. Nested /\ Named /\ InProgress
  BY <1>1, Ongoing
<1>3. Len(stack) = 1 /\ Op = Top /\ Head(Op.todo).do = w
  BY <1>2, Outermost
<1>4. Op.todo # <<>> /\ Stage(Head(Op.todo).do)
  BY <1>2, Staged
<1> QED
  BY <1>1, <1>3, <1>4, Zenon DEF Step

\* What does not depend on the calls.
LEMMA FilesStay ==
    ASSUME Named, Described, Handled, Typed, stack # <<>>,
           UNCHANGED <<desc, recs, store, extents, next, handle, given>>
    PROVE  Named' /\ Described' /\ Handled' /\ Typed'
<1>1. Live' = Live
  BY DEF Live
<1> QED
  BY <1>1 DEF Named, Described, Handled, Typed

\* The step keeps the invariant when it keeps its parts.
LEMMA Kept ==
    ASSUME IInv', torn' = FALSE, open', Named', Described', Handled', Typed', Undoable', Nested', InProgress'
    PROVE  FInv'
BY DEF FInv, Orderly, Phase

\* InsertThread.
LEMMA ThreadKeeps ==
    ASSUME FInv, InsertThread
    PROVE  FInv'
<1>1. At("thread") /\ Continue(Tail(Top.todo)) /\ edited' = TRUE
      /\ UNCHANGED <<vars, desc, recs, store, extents, next, handle, torn, given>>
  BY DEF InsertThread
<1>2. /\ stack # <<>> /\ Len(stack) = 1 /\ Op = Top /\ Top.todo = Op.todo
      /\ Stage("thread")
  BY <1>1, Busy
<1>3. /\ IInv /\ torn = FALSE /\ open
      /\ Named /\ Described /\ Handled /\ Typed /\ Undoable /\ Nested
  BY <1>2, Ongoing
<1>4. Closing /\ Tail(Op.todo) = <<Do("commit")>>
  BY <1>2 DEF Stage
<1>5. Nested' /\ Op'.todo = <<Do("commit")>>
  <2>1. ~(Len(stack) > 1)
    BY <1>2
  <2> QED
    BY <2>1, <1>1, <1>2, <1>3, <1>4, ContinueNested
<1>6. Len(stack') = 1 /\ stack' # <<>>
  BY <1>1, <1>2, <1>3, ContinueFacts
<1>7. Named' /\ Described' /\ Handled' /\ Typed'
  BY <1>1, <1>2, <1>3, FilesStay
<1>8. IInv'
  BY <1>1, <1>3, StepExact
<1>9. Closing'
  BY <1>1, <1>4, <1>5, <1>6 DEF Closing, Settled, Live, vars
<1>10. open' /\ torn' = FALSE /\ Undoable'
  BY <1>1, <1>3 DEF vars, Undoable
<1> QED
  BY <1>5, <1>7, <1>8, <1>9, <1>10, Kept DEF InProgress

\* commit.
LEMMA CommitKeeps ==
    ASSUME FInv, commit
    PROVE  FInv'
<1>1. At("commit") /\ flush /\ stack' = <<>> /\ edited' = FALSE
      /\ UNCHANGED <<desc, recs, store, next, handle, torn, given>>
  BY DEF commit
<1>2. stack # <<>> /\ Stage("commit")
  BY <1>1, Busy
<1>3. /\ IInv /\ torn = FALSE /\ open
      /\ Named /\ Described /\ Handled /\ Typed /\ Undoable /\ Nested
  BY <1>2, Ongoing
<1>4. Closing
  BY <1>2 DEF Stage
<1>5. IInv'
  BY <1>1, <1>3, StepExact DEF Next
<1>6. Live' = Live
  BY <1>1 DEF Live
<1>7. Named' /\ Described' /\ Handled' /\ Typed'
  BY <1>1, <1>3, <1>6 DEF Named, Described, Handled, Typed
<1>8. ~open' /\ saved' = owned /\ owned' = owned
  BY <1>1 DEF flush
<1>9. Settled' /\ owned = HeldBy(given, DOMAIN desc)
  BY <1>1, <1>4, <1>6, <1>8 DEF Closing, Settled
<1>10. Undoable' /\ Resting'
  BY <1>1, <1>8, <1>9 DEF Undoable, Resting
<1>11. Nested'
  <2>1. IsSeq(<<>>) /\ Len(<<>>) = 0
    BY SeqShort
  <2> QED
    BY <2>1, <1>1 DEF Nested
<1> QED
  BY <1>1, <1>3, <1>5, <1>7, <1>10, <1>11 DEF FInv, Orderly, Phase

-----------------------------------------------------------------------------
(* Steps of the calls that serve another.                                  *)

\* Two maps have the same records of a fork.
SameFor(rs, qs, f) ==
    \A k : k[1] = f => (k \in DOMAIN rs <=> k \in DOMAIN qs) /\ (k \in DOMAIN rs => rs[k] = qs[k])

\* Records of other forks do not matter.
LEMMA RecordedStays ==
    ASSUME NEW rs, NEW qs, NEW f, NEW g, NEW j, NEW m, Recorded(rs, f, g, j, m), SameFor(rs, qs, f)
    PROVE  Recorded(qs, f, g, j, m)
<1>1. \A b : <<f, b>>[1] = f
  OBVIOUS
<1>2. \A k \in DOMAIN qs : k[1] = f => \E i \in 1 .. m : k = <<f, BlocksUpTo(g)[i * InlineExtents]>>
  BY DEF Recorded, SameFor
<1>3. \A i \in 1 .. j : /\ <<f, BlocksUpTo(g)[i * InlineExtents]>> \in DOMAIN qs
                        /\ qs[<<f, BlocksUpTo(g)[i * InlineExtents]>>] = Group(g, i)
  <2> SUFFICES ASSUME NEW i \in 1 .. j
               PROVE  /\ <<f, BlocksUpTo(g)[i * InlineExtents]>> \in DOMAIN qs
                      /\ qs[<<f, BlocksUpTo(g)[i * InlineExtents]>>] = Group(g, i)
    OBVIOUS
  <2>1. PICK k : k = <<f, BlocksUpTo(g)[i * InlineExtents]>>
    OBVIOUS
  <2>2. k \in DOMAIN rs /\ rs[k] = Group(g, i)
    BY <2>1, Zenon DEF Recorded
  <2>3. k[1] = f
    BY <2>1, <1>1
  <2>4. k \in DOMAIN qs /\ qs[k] = rs[k]
    BY <2>2, <2>3, Zenon DEF SameFor
  <2> QED
    BY <2>1, <2>2, <2>4, Zenon
<1> QED
  BY <1>2, <1>3 DEF Recorded

\* What a step may change that concerns the trees alone.
TreesOnly ==
    /\ DOMAIN desc' = DOMAIN desc /\ DOMAIN given' = DOMAIN given
    /\ \A f \in DOMAIN given \ Trees : given'[f] = given[f] /\ SameFor(recs, recs', f)
    /\ \A f \in Live : desc'[f] = desc[f]
    /\ store' = store /\ handle' = handle /\ next' = next
    /\ edited' \in {TRUE, edited}
    /\ owned' = HeldBy(given', DOMAIN given')

\* The operation goes on where it was.
SameOp == Len(stack') >= 1 /\ Op'.id = Op.id /\ Op'.size = Op.size /\ Op'.todo = Op.todo

\* Files are not in the trees.
LEMMA FilesApart ==
    ASSUME Named
    PROVE  /\ Live \subseteq DOMAIN given \ Trees
           /\ \A f \in DOMAIN given : f \notin DOMAIN desc => f \notin Trees
BY DEF Named, Live

\* Files stay described and written.
LEMMA TreesDescribed ==
    ASSUME Named, Described, Handled, TreesOnly
    PROVE  Described' /\ Handled'
<1>1. Live' = Live
  BY DEF Live, TreesOnly
<1>2. \A f \in Live : given'[f] = given[f] /\ desc'[f] = desc[f]
  BY FilesApart DEF TreesOnly
<1>3. Described'
  BY <1>1, <1>2 DEF Described, TreesOnly
<1>4. Handled'
  BY <1>1, <1>2 DEF Handled, TreesOnly
<1> QED
  BY <1>3, <1>4

\* Files stay recorded.
LEMMA TreesRecorded ==
    ASSUME Named, TreesOnly, \A f \in Live : InTree(recs, given, f)
    PROVE  \A f \in Live' : InTree(recs', given', f)
<1>1. Live' = Live
  BY DEF Live, TreesOnly
<1> SUFFICES ASSUME NEW f \in Live PROVE InTree(recs', given', f)
  BY <1>1
<1>2. f \in DOMAIN given \ Trees
  BY FilesApart
<1>3. given'[f] = given[f] /\ SameFor(recs, recs', f)
  BY <1>2 DEF TreesOnly
<1>4. Recorded(recs, f, given[f], Groups(given[f]), Groups(given[f]))
  BY DEF InTree
<1>5. Recorded(recs', f, given[f], Groups(given[f]), Groups(given[f]))
  BY <1>3, <1>4, RecordedStays, Zenon
<1> QED
  BY <1>3, <1>5, Zenon DEF InTree

\* A creation that waits for an insertion, or whose records are in.
LEMMA CreationStays ==
    ASSUME Named, TreesOnly, SameOp, (\E j \in Nat : Filing(j)) \/ Closing
    PROVE  InProgress'
<1>1. CASE Closing
  <2>1. \A f \in Live' : InTree(recs', given', f)
    BY <1>1, TreesRecorded DEF Closing, Settled
  <2>2. Settled'
    BY <2>1, <1>1 DEF Closing, Settled, TreesOnly
  <2>3. Closing'
    BY <2>2, <1>1 DEF Closing, SameOp, TreesOnly
  <2> QED
    BY <2>3 DEF InProgress
<1>2. ASSUME NEW j \in Nat, Filing(j)
      PROVE  InProgress'
  <2>1. \A f \in Live' : InTree(recs', given', f)
    BY <1>2, TreesRecorded DEF Filing
  <2>2. Op.id \in DOMAIN given \ Trees
    BY <1>2, FilesApart DEF Filing
  <2>3. given'[Op.id] = given[Op.id] /\ SameFor(recs, recs', Op.id) /\ Op'.id = Op.id
    BY <2>2 DEF TreesOnly, SameOp
  <2>4. Recorded(recs', Op.id, given[Op.id], j, j)
    <3>1. Recorded(recs, Op.id, given[Op.id], j, j)
      BY <1>2 DEF Filing
    <3> QED
      BY <3>1, <2>3, RecordedStays, Zenon
  <2>5. Recorded(recs', Op'.id, given'[Op'.id], j, j) /\ Written(store', given'[Op'.id], Op'.id, Op'.size)
        /\ Op'.todo = From(CreateSteps(Op'.id, given'[Op'.id]), j)
    <3>1. Written(store, given[Op.id], Op.id, Op.size) /\ Op.todo = From(CreateSteps(Op.id, given[Op.id]), j)
      BY <1>2 DEF Filing
    <3>2. Op'.todo = Op.todo /\ Op'.size = Op.size /\ store' = store
      BY DEF SameOp, TreesOnly
    <3> QED
      BY <3>1, <3>2, <2>3, <2>4, Zenon
  <2>6. /\ Op'.id \in DOMAIN given' /\ Op'.id \notin DOMAIN desc'
        /\ j \in 0 .. Groups(given'[Op'.id])
        /\ DOMAIN given' = DOMAIN desc' \cup {Op'.id}
        /\ handle'.id # Op'.id
    BY <1>2, <2>3 DEF Filing, TreesOnly
  <2>7. ~edited' => j = 0
    BY <1>2 DEF Filing, TreesOnly
  <2>8. Len(stack') >= 1 /\ owned' = HeldBy(given', DOMAIN given')
    BY DEF SameOp, TreesOnly
  <2>9. Filing(j)'
    BY <2>1, <2>5, <2>6, <2>7, <2>8, Zenon DEF Filing
  <2> QED
    BY <2>9 DEF InProgress
<1> QED
  BY <1>1, <1>2

\* An operation that other calls serve is a creation.
LEMMA ServesCreation ==
    ASSUME Named, InProgress, Len(stack) > 1 \/ Head(Op.todo).do \in {"put", "record", "thread"}
    PROVE  (\E j \in Nat : Filing(j)) \/ Closing
<1>1. CASE Len(stack) > 1
  <2>1. \A n : n = 1 => ~(n > 1)
    OBVIOUS
  <2>2. Len(stack) # 1
    BY <2>1, <1>1, Zenon
  <2> QED
    BY <2>2, Zenon DEF InProgress, Starting, Freeing, Emptying, Returned
<1>2. CASE Head(Op.todo).do \in {"put", "record", "thread"}
  <2>1. Stage(Head(Op.todo).do)
    BY Staged
  <2>2. PICK w : w = Head(Op.todo).do
    OBVIOUS
  <2>3. Stage(w) /\ w \in {"put", "record", "thread"}
    BY <2>1, <2>2, <1>2
  <2>4. Groups(given[Op.id]) \in Nat \/ ~Filing(Groups(given[Op.id]))
    BY GivenFacts DEF Filing
  <2> QED
    BY <2>3, <2>4 DEF Stage
<1> QED
  BY <1>1, <1>2

\* The innermost call returns.
LEMMA Pops ==
    ASSUME Nested, stack # <<>>, Len(stack) # 1, stack' = Tail(stack)
    PROVE  Nested' /\ Len(stack') >= 1 /\ stack' # <<>> /\ Op' = Op
<1>1. PICK n \in Nat : n = Len(stack)
  BY Ends
<1>2. n > 1
  BY <1>1, Ends
<1>3. IsSeq(stack') /\ Len(stack') = n - 1 /\ \A i \in 1 .. n - 1 : stack'[i] = stack[i + 1]
  BY <1>1, SeqParts, Zenon DEF Nested
<1>4. \A i \in 1 .. n : IsFrame(stack[i]) /\ LeafOK(stack[i].leaf)
  BY <1>1 DEF Nested
<1>5. \A i \in 1 .. n - 1 : Serves(stack[i])
  BY <1>1 DEF Nested
<1>6. \A i \in 1 .. n - 1 : i + 1 \in 1 .. n /\ IsFrame(stack'[i]) /\ LeafOK(stack'[i].leaf)
  <2> SUFFICES ASSUME NEW i \in 1 .. n - 1
               PROVE  i + 1 \in 1 .. n /\ IsFrame(stack'[i]) /\ LeafOK(stack'[i].leaf)
    OBVIOUS
  <2>1. i + 1 \in 1 .. n
    BY <1>2
  <2> QED
    BY <2>1, <1>3, <1>4, Zenon
<1>7. \A i \in 1 .. (n - 1) - 1 : Serves(stack'[i])
  <2> SUFFICES ASSUME NEW i \in 1 .. (n - 1) - 1 PROVE Serves(stack'[i])
    OBVIOUS
  <2>1. i \in 1 .. n - 1 /\ i + 1 \in 1 .. n - 1
    BY <1>2
  <2> QED
    BY <2>1, <1>3, <1>5, Zenon
<1>8. Nested'
  BY <1>3, <1>6, <1>7, Zenon DEF Nested
<1>9. Op' = stack'[n - 1]
  BY <1>3, Zenon DEF Op
<1>10. n - 1 \in 1 .. n - 1 /\ (n - 1) + 1 = n /\ n - 1 >= 1
  BY <1>2
<1>11. Op' = Op
  <2>1. stack'[n - 1] = stack[(n - 1) + 1]
    BY <1>3, <1>10
  <2> QED
    BY <2>1, <1>1, <1>9, <1>10, Zenon DEF Op
<1>12. stack' # <<>>
  <2>1. n - 1 # 0
    BY <1>10
  <2>2. stack' = <<>> <=> Len(stack') = 0
    BY <1>3, SeqFacts, Zenon
  <2> QED
    BY <2>1, <2>2, <1>3, Zenon
<1> QED
  BY <1>3, <1>8, <1>10, <1>11, <1>12, Zenon

\* The list of what the allocator handed out, while a file is made.
LEMMA CreationOwns ==
    ASSUME (\E j \in Nat : Filing(j)) \/ Closing
    PROVE  owned = HeldBy(given, DOMAIN given)
BY DEF Filing, Closing, Settled

\* Grown.
LEMMA GrownKeeps ==
    ASSUME FInv, Grown
    PROVE  FInv'
<1>1. stack # <<>> /\ Top.todo = <<>> /\ stack' = Tail(stack)
      /\ UNCHANGED <<vars, desc, recs, store, extents, next, handle, edited, torn, given>>
  BY DEF Grown
<1>2. /\ IInv /\ torn = FALSE /\ open
      /\ Named /\ Described /\ Handled /\ Typed /\ Undoable /\ Nested /\ InProgress
  BY <1>1, Ongoing
<1>3. Op.todo # <<>>
  BY <1>2, Staged
<1>4. Len(stack) # 1
  BY <1>1, <1>2, <1>3, Ends
<1>5. Len(stack) > 1
  <2>1. \A n \in Nat : n >= 1 /\ n # 1 => n > 1
    OBVIOUS
  <2> QED
    BY <2>1, <1>1, <1>2, <1>4, Ends
<1>6. Nested' /\ Len(stack') >= 1 /\ stack' # <<>> /\ Op' = Op
  BY <1>1, <1>2, <1>4, Pops
<1>7. (\E j \in Nat : Filing(j)) \/ Closing
  BY <1>2, <1>5, ServesCreation
<1>8. TreesOnly
  <2>1. owned' = HeldBy(given', DOMAIN given')
    BY <1>1, <1>7, CreationOwns DEF vars
  <2> QED
    BY <2>1, <1>1 DEF TreesOnly, SameFor, vars
<1>9. SameOp
  BY <1>6 DEF SameOp
<1>10. InProgress'
  BY <1>2, <1>7, <1>8, <1>9, CreationStays
<1>11. Named' /\ Described' /\ Handled' /\ Typed'
  BY <1>1, <1>2, FilesStay
<1>12. IInv'
  BY <1>1, <1>2, StepExact
<1>13. open' /\ torn' = FALSE /\ Undoable'
  BY <1>1, <1>2 DEF vars, Undoable
<1> QED
  BY <1>6, <1>10, <1>11, <1>12, <1>13, Kept

-----------------------------------------------------------------------------
(* Insertions into the extents tree.                                       *)

\* A function with one entry more, or another one.
IsWith(q, f, k, v) ==
    /\ DOMAIN q = DOMAIN f \cup {k} /\ q[k] = v
    /\ \A x \in DOMAIN f : x # k => q[x] = f[x]

IsOver(q, l, f) ==
    /\ DOMAIN q = DOMAIN l \cup DOMAIN f
    /\ \A x \in DOMAIN f : x \notin DOMAIN l => q[x] = f[x]
    /\ \A x \in DOMAIN l : q[x] = l[x]

\* What With makes.
LEMMA WithIs ==
    ASSUME NEW f, NEW k, NEW v
    PROVE  IsWith(With(f, k, v), f, k, v)
BY DEF IsWith, With

\* What Over makes.
LEMMA OverIs ==
    ASSUME NEW l, NEW f
    PROVE  IsOver(Over(l, f), l, f)
BY OverFacts DEF IsOver

\* What an insertion makes of the records.
Inserted(qs, rs, id, b, e) ==
    /\ Keyed(qs)
    /\ \A k \in DOMAIN qs : k \in DOMAIN rs \/ k[1] = ExtentsFile \/ k = <<id, b>>
    /\ \A k \in DOMAIN rs : k[1] # ExtentsFile /\ k # <<id, b>> => k \in DOMAIN qs /\ qs[k] = rs[k]
    /\ <<id, b>> \in DOMAIN qs /\ qs[<<id, b>>] = e

\* An insertion, with the leaf its call had loaded.
LEMMA Inserts ==
    ASSUME NEW leaf, LeafOK(leaf), NEW rs, Keyed(rs), NEW id \in Nat, NEW b \in Nat, NEW e \in Seq(Inside),
           NEW qs, qs = With(Over(leaf, rs), <<id, b>>, e)
    PROVE  Inserted(qs, rs, id, b, e)
<1>1. PICK key : key = <<id, b>>
  OBVIOUS
<1>2. PICK os : os = Over(leaf, rs)
  OBVIOUS
<1>3. /\ DOMAIN os = DOMAIN leaf \cup DOMAIN rs
      /\ \A x \in DOMAIN rs : x \notin DOMAIN leaf => os[x] = rs[x]
      /\ \A x \in DOMAIN leaf : os[x] = leaf[x]
  <2>1. IsOver(os, leaf, rs)
    BY <1>2, OverIs, Zenon
  <2> QED
    BY <2>1 DEF IsOver
<1>4. /\ DOMAIN qs = DOMAIN os \cup {key} /\ qs[key] = e
      /\ \A x \in DOMAIN os : x # key => qs[x] = os[x]
  <2>1. IsWith(qs, os, key, e)
    BY <1>1, <1>2, WithIs, Zenon
  <2> QED
    BY <2>1 DEF IsWith
<1>5. Keyed(leaf) /\ \A k \in DOMAIN leaf : k[1] = ExtentsFile
  BY DEF LeafOK
<1>6. IsFiniteSet(DOMAIN qs)
  <2>1. IsFiniteSet(DOMAIN leaf) /\ IsFiniteSet(DOMAIN rs)
    BY <1>5 DEF Keyed
  <2>2. IsFiniteSet(DOMAIN leaf \cup DOMAIN rs)
    BY <2>1, FS_Union
  <2>3. IsFiniteSet(DOMAIN os)
    BY <2>2, <1>3, Zenon
  <2>4. IsFiniteSet(DOMAIN os \cup {key})
    BY <2>3, FS_AddElement, Zenon
  <2> QED
    BY <2>4, <1>4, Zenon
<1>7. \A k \in DOMAIN qs : (\E x, y \in Nat : k = <<x, y>>) /\ qs[k] \in Seq(Inside)
  <2> SUFFICES ASSUME NEW k \in DOMAIN qs
               PROVE  (\E x, y \in Nat : k = <<x, y>>) /\ qs[k] \in Seq(Inside)
    OBVIOUS
  <2>1. CASE k = key
    BY <2>1, <1>1, <1>4
  <2>2. CASE k # key /\ k \in DOMAIN leaf
    BY <2>2, <1>3, <1>4, <1>5 DEF Keyed
  <2>3. CASE k # key /\ k \notin DOMAIN leaf
    BY <2>3, <1>3, <1>4 DEF Keyed
  <2> QED
    BY <2>1, <2>2, <2>3
<1>8. \A k \in DOMAIN qs : k \in DOMAIN rs \/ k[1] = ExtentsFile \/ k = key
  BY <1>3, <1>4, <1>5
<1>9. \A k \in DOMAIN rs : k[1] # ExtentsFile /\ k # key => k \in DOMAIN qs /\ qs[k] = rs[k]
  BY <1>3, <1>4, <1>5
<1>10. Keyed(qs)
  BY <1>6, <1>7 DEF Keyed
<1> QED
  BY <1>1, <1>4, <1>8, <1>9, <1>10, Zenon DEF Inserted

\* Forks other than the one inserted for keep their records.
LEMMA InsertedAside ==
    ASSUME NEW qs, NEW rs, NEW id, NEW b, NEW e, Inserted(qs, rs, id, b, e),
           NEW f, f # ExtentsFile, f # id
    PROVE  SameFor(rs, qs, f)
<1>1. \A k : k[1] = f => k[1] # ExtentsFile /\ k # <<id, b>>
  OBVIOUS
<1> QED
  BY <1>1, Zenon DEF Inserted, SameFor

\* One more record of a list is in.
LEMMA RecordedMore ==
    ASSUME NEW g \in Seq(Inside), NEW id, id # ExtentsFile, NEW rs, NEW qs,
           NEW j \in Nat, NEW m \in Nat, NEW n \in Nat,
           j + 1 <= n, m <= n, n <= Groups(g),
           Recorded(rs, id, g, j, m),
           Inserted(qs, rs, id, BlocksUpTo(g)[(j + 1) * InlineExtents], Group(g, j + 1))
    PROVE  Recorded(qs, id, g, j + 1, n)
<1> DEFINE B(i) == BlocksUpTo(g)[i * InlineExtents]
<1>1. Groups(g) \in Nat /\ \A i, k \in 1 .. Groups(g) : i < k => B(i) < B(k)
  BY RecordFacts, KeysAscend
<1>2. \A i \in 1 .. Groups(g) : B(i) \in Nat
  BY KeysAscend
<1>3. /\ \A k \in DOMAIN qs : k \in DOMAIN rs \/ k[1] = ExtentsFile \/ k = <<id, B(j + 1)>>
      /\ \A k \in DOMAIN rs : k[1] # ExtentsFile /\ k # <<id, B(j + 1)>> => k \in DOMAIN qs /\ qs[k] = rs[k]
      /\ <<id, B(j + 1)>> \in DOMAIN qs /\ qs[<<id, B(j + 1)>>] = Group(g, j + 1)
  BY DEF Inserted
<1>4. /\ \A k \in DOMAIN rs : k[1] = id => \E i \in 1 .. m : k = <<id, B(i)>>
      /\ \A i \in 1 .. j : <<id, B(i)>> \in DOMAIN rs /\ rs[<<id, B(i)>>] = Group(g, i)
  BY DEF Recorded
<1> HIDE DEF B
<1>5. \A k \in DOMAIN qs : k[1] = id => \E i \in 1 .. n : k = <<id, B(i)>>
  <2> SUFFICES ASSUME NEW k \in DOMAIN qs, k[1] = id PROVE \E i \in 1 .. n : k = <<id, B(i)>>
    OBVIOUS
  <2>1. CASE k = <<id, B(j + 1)>>
    <3>1. j + 1 \in 1 .. n
      OBVIOUS
    <3> QED
      BY <3>1, <2>1
  <2>2. CASE k \in DOMAIN rs
    <3>1. PICK i \in 1 .. m : k = <<id, B(i)>>
      BY <2>2, <1>4
    <3>2. i \in 1 .. n
      OBVIOUS
    <3> QED
      BY <3>1, <3>2
  <2> QED
    BY <2>1, <2>2, <1>3
<1>6. \A i \in 1 .. j + 1 : <<id, B(i)>> \in DOMAIN qs /\ qs[<<id, B(i)>>] = Group(g, i)
  <2> SUFFICES ASSUME NEW i \in 1 .. j + 1
               PROVE  <<id, B(i)>> \in DOMAIN qs /\ qs[<<id, B(i)>>] = Group(g, i)
    OBVIOUS
  <2>1. CASE i = j + 1
    BY <2>1, <1>3
  <2>2. CASE i # j + 1
    <3>1. i \in 1 .. j /\ i < j + 1 /\ i \in 1 .. Groups(g) /\ j + 1 \in 1 .. Groups(g)
      BY <2>2, <1>1
    <3>2. B(i) # B(j + 1)
      BY <3>1, <1>1, <1>2
    <3>3. PICK k : k = <<id, B(i)>>
      OBVIOUS
    <3>4. k[1] = id /\ k # <<id, B(j + 1)>>
      BY <3>2, <3>3
    <3>5. k \in DOMAIN rs /\ rs[k] = Group(g, i)
      BY <3>1, <3>3, <1>4, Zenon
    <3>6. k \in DOMAIN qs /\ qs[k] = rs[k]
      BY <3>4, <3>5, <1>3, Zenon
    <3> QED
      BY <3>3, <3>5, <3>6, Zenon
  <2> QED
    BY <2>1, <2>2
<1> QED
  BY <1>5, <1>6 DEF Recorded, B

\* Forks are numbers.
LEMMA Numbers ==
    ASSUME Named
    PROVE  DOMAIN given \subseteq Nat
BY DEF Named, Trees, ExtentsFile, CatalogFile, FirstFile

\* The records that an insertion leaves are records of forks.
LEMMA InsertTyped ==
    ASSUME Named, Typed, NEW id \in DOMAIN given, NEW b \in Nat, NEW e,
           Inserted(recs', recs, id, b, e), UNCHANGED <<desc, given, extents>>, stack # <<>>
    PROVE  Typed'
<1>1. Keyed(recs')
  BY DEF Inserted
<1>2. \A k \in DOMAIN recs' : k[1] \in DOMAIN given
  <2> SUFFICES ASSUME NEW k \in DOMAIN recs' PROVE k[1] \in DOMAIN given
    OBVIOUS
  <2>1. k \in DOMAIN recs \/ k[1] = ExtentsFile \/ k = <<id, b>>
    BY DEF Inserted
  <2> QED
    BY <2>1 DEF Typed, Named, Trees
<1> QED
  BY <1>1, <1>2 DEF Typed

\* A record is put by a call that serves another.
LEMMA ServingInsert ==
    ASSUME FInv, InsertExtents, Len(stack) > 1
    PROVE  FInv'
<1>1. At("put") /\ Continue(Tail(Top.todo)) /\ edited' = TRUE
      /\ recs' = With(Over(Top.leaf, recs), Step.key, Step.ext)
      /\ UNCHANGED <<vars, desc, store, extents, next, handle, torn, given>>
  BY DEF InsertExtents
<1>2. stack # <<>> /\ Top.todo # <<>>
  BY <1>1 DEF At
<1>3. /\ IInv /\ torn = FALSE /\ open
      /\ Named /\ Described /\ Handled /\ Typed /\ Undoable /\ Nested /\ InProgress
  BY <1>2, Ongoing
<1>4. Serves(Top) /\ LeafOK(Top.leaf)
  BY <1>2, <1>3, Ends
<1>5. PICK b \in Nat : Step.key = <<Top.id, b>> /\ Step.ext \in Seq(Inside)
  <2>1. IsSeq(Top.todo)
    BY <1>4 DEF Serves
  <2>2. Len(Top.todo) >= 1 /\ Len(Top.todo) \in Nat /\ Step = Top.todo[1]
    BY <2>1, <1>2, SeqFacts, SeqParts DEF Step
  <2>3. 1 \in 1 .. Len(Top.todo)
    BY <2>2
  <2> QED
    BY <2>2, <2>3, <1>4 DEF Serves
<1>6. Top.id \in Trees /\ Top.id \in DOMAIN given /\ Top.id \in Nat
  BY <1>3, <1>4, Numbers DEF Serves, Named
<1>7. Inserted(recs', recs, Top.id, b, Step.ext)
  <2>1. Keyed(recs)
    BY <1>3 DEF Typed
  <2>2. recs' = With(Over(Top.leaf, recs), <<Top.id, b>>, Step.ext)
    BY <1>1, <1>5
  <2> QED
    BY <2>1, <2>2, <1>4, <1>5, <1>6, Inserts, Zenon
<1>8. Typed'
  BY <1>1, <1>2, <1>3, <1>6, <1>7, InsertTyped
<1>9. (\E j \in Nat : Filing(j)) \/ Closing
  BY <1>3, ServesCreation
<1>10. TreesOnly
  <2>1. owned' = HeldBy(given', DOMAIN given')
    BY <1>1, <1>9, CreationOwns DEF vars
  <2>2. \A f \in DOMAIN given \ Trees : SameFor(recs, recs', f)
    <3> SUFFICES ASSUME NEW f \in DOMAIN given \ Trees PROVE SameFor(recs, recs', f)
      OBVIOUS
    <3>1. f # ExtentsFile /\ f # Top.id
      BY <1>6 DEF Trees
    <3> QED
      BY <3>1, <1>7, InsertedAside, Zenon
  <2> QED
    BY <2>1, <2>2, <1>1 DEF TreesOnly, vars
<1>11. Len(stack) # 1
  <2>1. \A n : n > 1 => n # 1
    OBVIOUS
  <2> QED
    BY <2>1, Zenon
<1>12. Serves(stack'[1])
  <2>1. stack'[1].id = Top.id /\ stack'[1].todo = Tail(Top.todo)
    <3>1. stack'[1] = [id |-> Top.id, size |-> Top.size, todo |-> Tail(Top.todo),
                       grown |-> FALSE, low |-> FALSE, leaf |-> <<>>]
      BY <1>1, <1>2, <1>3, ContinueFacts
    <3> QED
      BY <3>1
  <2>2. IsSeq(Top.todo) /\ \A n \in 1 .. Len(Top.todo) :
             /\ Top.todo[n].do = "put"
             /\ \E x \in Nat : Top.todo[n].key = <<Top.id, x>>
             /\ Top.todo[n].ext \in Seq(Inside)
    BY <1>4 DEF Serves
  <2>3. PICK tl : tl = Tail(Top.todo)
    OBVIOUS
  <2>4. PICK l \in Nat : l = Len(Top.todo)
    BY <2>2, SeqFacts
  <2>5. IsSeq(tl) /\ l >= 1 /\ Len(tl) = l - 1 /\ \A i \in 1 .. l - 1 : tl[i] = Top.todo[i + 1]
    BY <2>2, <2>3, <2>4, <1>2, SeqParts, Zenon
  <2>6. \A n \in 1 .. l - 1 : /\ tl[n].do = "put"
                              /\ \E x \in Nat : tl[n].key = <<Top.id, x>>
                              /\ tl[n].ext \in Seq(Inside)
    <3> SUFFICES ASSUME NEW n \in 1 .. l - 1
                 PROVE  /\ tl[n].do = "put"
                        /\ \E x \in Nat : tl[n].key = <<Top.id, x>>
                        /\ tl[n].ext \in Seq(Inside)
      OBVIOUS
    <3>1. n + 1 \in 1 .. l
      BY <2>5
    <3> QED
      BY <3>1, <2>2, <2>4, <2>5, Zenon
  <2> QED
    BY <2>1, <2>3, <2>5, <2>6, <1>6, Zenon DEF Serves
<1>13. Nested' /\ Op' = Op
  BY <1>1, <1>2, <1>3, <1>12, ContinueNested
<1>14. SameOp
  <2>1. Len(stack') = Len(stack)
    BY <1>1, <1>2, <1>3, ContinueFacts
  <2> QED
    BY <2>1, <1>2, <1>3, <1>13, Ends DEF SameOp
<1>15. InProgress'
  BY <1>3, <1>9, <1>10, <1>14, CreationStays
<1>16. Described' /\ Handled'
  BY <1>3, <1>10, TreesDescribed
<1>17. Named'
  BY <1>1, <1>3 DEF Named
<1>18. IInv'
  BY <1>1, <1>3, StepExact
<1>19. open' /\ torn' = FALSE /\ Undoable'
  BY <1>1, <1>3 DEF vars, Undoable
<1> QED
  BY <1>8, <1>13, <1>15, <1>16, <1>17, <1>18, <1>19, Kept

\* A record of the new file is put by its creation.
LEMMA OwnInsert ==
    ASSUME FInv, InsertExtents, Len(stack) = 1
    PROVE  FInv'
<1>1. At("put") /\ Continue(Tail(Top.todo)) /\ edited' = TRUE
      /\ recs' = With(Over(Top.leaf, recs), Step.key, Step.ext)
      /\ UNCHANGED <<vars, desc, store, extents, next, handle, torn, given>>
  BY DEF InsertExtents
<1>2. stack # <<>> /\ Top.todo # <<>> /\ Head(Top.todo).do = "put"
  BY <1>1 DEF At, Step
<1>3. /\ IInv /\ torn = FALSE /\ open
      /\ Named /\ Described /\ Handled /\ Typed /\ Undoable /\ Nested /\ InProgress
  BY <1>2, Ongoing
<1>4. Op = Top /\ LeafOK(Top.leaf)
  BY <1>2, <1>3, Ends
<1>5. Stage("put")
  <2>1. Stage(Head(Op.todo).do)
    BY <1>3, Staged
  <2> QED
    BY <2>1, <1>2, <1>4, Zenon
<1> DEFINE g == given[Op.id]
<1>6. PICK j \in Nat : /\ Filing(j) /\ j < Groups(g)
                       /\ Ahead(Op.todo, insertExtentRecords(Op.id, g)[j + 1], From(CreateSteps(Op.id, g), j + 1))
  BY <1>5 DEF Stage
<1>7. /\ Op.id \in DOMAIN given /\ Op.id \notin DOMAIN desc /\ DOMAIN given = DOMAIN desc \cup {Op.id}
      /\ handle.id # Op.id /\ Recorded(recs, Op.id, g, j, j) /\ Written(store, g, Op.id, Op.size)
      /\ owned = HeldBy(given, DOMAIN given)
      /\ \A f \in Live : InTree(recs, given, f)
  BY <1>6 DEF Filing
<1>8. g \in Seq(Inside) /\ Groups(g) \in Nat /\ Op.id \in Nat /\ Op.id \notin Trees
  BY <1>3, <1>7, GivenFacts, Numbers, FilesApart
<1> HIDE DEF g
<1>9. j + 1 \in 1 .. Groups(g) /\ j + 1 \in Nat
  BY <1>6, <1>8
<1> DEFINE b == BlocksUpTo(g)[(j + 1) * InlineExtents]
<1>10. /\ Step.key = <<Op.id, b>> /\ Step.ext = Group(g, j + 1) /\ b \in Nat /\ Group(g, j + 1) \in Seq(Inside)
  <2>1. Step = insertExtentRecords(Op.id, g)[j + 1]
    BY <1>4, <1>6, Zenon DEF Ahead, Step
  <2>2. b \in Nat
    BY <1>8, <1>9, KeysAscend
  <2>3. Group(g, j + 1) \in Seq(Inside)
    BY <1>8, <1>9, GroupFacts
  <2> QED
    BY <2>1, <2>2, <2>3, <1>8, <1>9, RecordFacts
<1>11. Inserted(recs', recs, Op.id, b, Group(g, j + 1))
  <2>1. Keyed(recs)
    BY <1>3 DEF Typed
  <2>2. recs' = With(Over(Top.leaf, recs), <<Op.id, b>>, Group(g, j + 1))
    BY <1>1, <1>10, Zenon
  <2> HIDE DEF b
  <2> QED
    BY <2>1, <2>2, <1>4, <1>8, <1>10, Inserts, Zenon
<1>12. Typed'
  <2> HIDE DEF b
  <2> QED
    BY <1>1, <1>2, <1>3, <1>7, <1>10, <1>11, InsertTyped
<1>13. Nested' /\ Op'.id = Op.id /\ Op'.size = Op.size /\ Op'.todo = From(CreateSteps(Op.id, g), j + 1)
  <2>1. ~(Len(stack) > 1)
    OBVIOUS
  <2>2. Nested' /\ Op'.id = Op.id /\ Op'.size = Op.size /\ Op'.todo = Tail(Top.todo)
    BY <2>1, <1>1, <1>2, <1>3, ContinueNested
  <2> QED
    BY <2>2, <1>4, <1>6, Zenon DEF Ahead
<1>14. Len(stack') >= 1
  <2>1. Len(stack') = 1
    BY <1>1, <1>2, <1>3, ContinueFacts
  <2> QED
    BY <2>1
<1>15. Live' = Live /\ given' = given /\ desc' = desc /\ store' = store /\ handle' = handle /\ owned' = owned
  BY <1>1 DEF Live, vars
<1>16. \A f \in Live : InTree(recs', given, f)
  <2> SUFFICES ASSUME NEW f \in Live PROVE InTree(recs', given, f)
    OBVIOUS
  <2>1. f # ExtentsFile /\ f # Op.id
    BY <1>7 DEF Live, Trees
  <2>2. SameFor(recs, recs', f)
    <3> HIDE DEF b
    <3> QED
      BY <2>1, <1>11, InsertedAside, Zenon
  <2>3. Recorded(recs, f, given[f], Groups(given[f]), Groups(given[f]))
    BY <1>7 DEF InTree
  <2>4. Recorded(recs', f, given[f], Groups(given[f]), Groups(given[f]))
    BY <2>2, <2>3, RecordedStays, Zenon
  <2> QED
    BY <2>4, Zenon DEF InTree
<1>17. Recorded(recs', Op.id, g, j + 1, j + 1)
  <2>1. Op.id # ExtentsFile
    BY <1>8 DEF Trees
  <2>2. j + 1 <= j + 1 /\ j <= j + 1 /\ j + 1 <= Groups(g)
    BY <1>9
  <2>3. Recorded(recs, Op.id, g, j, j)
    BY <1>7
  <2> QED
    BY <2>1, <2>2, <2>3, <1>8, <1>9, <1>11, RecordedMore
<1>18. Filing(j + 1)'
  <2>1. given'[Op'.id] = g
    BY <1>13, <1>15 DEF g
  <2>2. j + 1 \in 0 .. Groups(given'[Op'.id]) /\ Op'.todo = From(CreateSteps(Op'.id, given'[Op'.id]), j + 1)
        /\ Recorded(recs', Op'.id, given'[Op'.id], j + 1, j + 1)
        /\ Written(store', given'[Op'.id], Op'.id, Op'.size)
    <3>1. j + 1 \in 0 .. Groups(g)
      BY <1>8, <1>9
    <3> QED
      BY <3>1, <2>1, <1>7, <1>13, <1>15, <1>17, Zenon
  <2>3. /\ Op'.id \in DOMAIN given' /\ Op'.id \notin DOMAIN desc' /\ DOMAIN given' = DOMAIN desc' \cup {Op'.id}
        /\ handle'.id # Op'.id /\ owned' = HeldBy(given', DOMAIN given')
        /\ \A f \in Live' : InTree(recs', given', f)
    BY <1>7, <1>13, <1>15, <1>16, Zenon
  <2>4. ~edited' => j + 1 = 0
    BY <1>1
  <2> QED
    BY <2>2, <2>3, <2>4, <1>14, Zenon DEF Filing
<1>19. InProgress'
  BY <1>9, <1>18 DEF InProgress
<1>20. Named' /\ Described' /\ Handled'
  BY <1>1, <1>3, <1>15 DEF Named, Described, Handled
<1>21. IInv'
  BY <1>1, <1>3, StepExact
<1>22. open' /\ torn' = FALSE /\ Undoable'
  BY <1>1, <1>3 DEF vars, Undoable
<1> QED
  BY <1>12, <1>13, <1>19, <1>20, <1>21, <1>22, Kept

\* InsertExtents.
LEMMA InsertKeeps ==
    ASSUME FInv, InsertExtents
    PROVE  FInv'
<1>1. stack # <<>>
  BY DEF InsertExtents, At
<1>2. Len(stack) \in Nat /\ Len(stack) >= 1
  BY <1>1, Ongoing, Ends
<1>3. \A n \in Nat : n >= 1 => n = 1 \/ n > 1
  OBVIOUS
<1>4. Len(stack) = 1 \/ Len(stack) > 1
  BY <1>2, <1>3
<1> QED
  BY <1>4, OwnInsert, ServingInsert

-----------------------------------------------------------------------------
(* The catalog's record, and removal.                                      *)

\* InsertCatalog.
LEMMA CatalogKeeps ==
    ASSUME FInv, InsertCatalog
    PROVE  FInv'
<1>1. At("record") /\ Continue(Tail(Top.todo)) /\ edited' = TRUE
      /\ desc' = With(desc, Top.id, Fork(Top.size, Counted(Step.ext), InlinePart(Step.ext)))
      /\ UNCHANGED <<vars, recs, store, extents, next, handle, torn, given>>
  BY DEF InsertCatalog
<1>2. /\ stack # <<>> /\ Len(stack) = 1 /\ Op = Top /\ Top.todo = Op.todo /\ Step = Head(Op.todo)
      /\ Stage("record")
  BY <1>1, Busy
<1>3. /\ IInv /\ torn = FALSE /\ open
      /\ Named /\ Described /\ Handled /\ Typed /\ Undoable /\ Nested /\ InProgress
  BY <1>2, Ongoing
<1>4. PICK id, g : id = Op.id /\ g = given[Op.id]
  OBVIOUS
<1>5. Filing(Groups(g)) /\ Ahead(Op.todo, InsertRecord(g), <<Do("thread"), Do("commit")>>)
  BY <1>2, <1>4 DEF Stage
<1>6. /\ id \in DOMAIN given /\ id \notin DOMAIN desc /\ DOMAIN given = DOMAIN desc \cup {id}
      /\ handle.id # id /\ Recorded(recs, id, g, Groups(g), Groups(g)) /\ Written(store, g, id, Op.size)
      /\ owned = HeldBy(given, DOMAIN given)
      /\ \A f \in Live : InTree(recs, given, f)
  BY <1>4, <1>5, Zenon DEF Filing
<1>7. id \notin Trees
  BY <1>3, <1>6, FilesApart
<1>8. PICK d : d = Fork(Op.size, Counted(g), InlinePart(g))
  OBVIOUS
<1>9. Step.ext = g
  BY <1>2, <1>5, StepNames, Zenon DEF Ahead
<1>10. IsWith(desc', desc, id, d)
  BY <1>1, <1>2, <1>4, <1>8, <1>9, WithIs, Zenon
<1>11. /\ DOMAIN desc' = DOMAIN desc \cup {id} /\ desc'[id] = d
       /\ \A x \in DOMAIN desc : desc'[x] = desc[x]
  BY <1>6, <1>10 DEF IsWith
<1>12. Nested' /\ Op'.todo = <<Do("thread"), Do("commit")>>
  <2>1. ~(Len(stack) > 1)
    BY <1>2
  <2>2. Nested' /\ Op'.todo = Tail(Top.todo)
    BY <2>1, <1>1, <1>2, <1>3, ContinueNested
  <2> QED
    BY <2>2, <1>2, <1>5, Zenon DEF Ahead
<1>13. Len(stack') >= 1
  <2>1. Len(stack') = 1
    BY <1>1, <1>2, <1>3, ContinueFacts
  <2> QED
    BY <2>1
<1>14. Live' = Live \cup {id} /\ given' = given /\ store' = store /\ recs' = recs /\ handle' = handle
       /\ next' = next /\ extents' = extents /\ owned' = owned /\ open' = open /\ torn' = torn
  BY <1>1, <1>7, <1>11 DEF Live, vars
<1>15. Named'
  BY <1>3, <1>6, <1>11, <1>14 DEF Named
<1>16. Described'
  <2> SUFFICES ASSUME NEW f \in Live'
               PROVE  /\ desc'[f] = Fork(desc'[f].size, Counted(given[f]), InlinePart(given[f]))
                      /\ Written(store, given[f], f, desc'[f].size)
    BY <1>14 DEF Described
  <2>1. CASE f = id
    <3>1. d.size = Op.size
      BY <1>8 DEF Fork
    <3> QED
      BY <2>1, <3>1, <1>4, <1>6, <1>8, <1>11, Zenon
  <2>2. CASE f # id
    <3>1. f \in Live /\ desc'[f] = desc[f]
      BY <2>2, <1>11, <1>14 DEF Live
    <3> QED
      BY <3>1, <1>3 DEF Described
  <2> QED
    BY <2>1, <2>2
<1>17. Handled'
  <2>1. handle.id \in Live' => handle.id \in Live /\ desc'[handle.id] = desc[handle.id]
    BY <1>6, <1>11, <1>14 DEF Live
  <2> QED
    BY <2>1, <1>3, <1>14 DEF Handled
<1>18. Typed'
  BY <1>2, <1>3, <1>11, <1>14 DEF Typed, Named
<1>19. Settled'
  <2>1. InTree(recs, given, id)
    BY <1>4, <1>6, Zenon DEF InTree
  <2>2. \A f \in Live' : InTree(recs', given', f)
    BY <2>1, <1>6, <1>14
  <2> QED
    BY <2>2, <1>6, <1>11, <1>14 DEF Settled
<1>20. Closing'
  BY <1>1, <1>12, <1>13, <1>19 DEF Closing
<1>21. IInv'
  BY <1>1, <1>3, StepExact
<1>22. open' /\ torn' = FALSE /\ Undoable'
  BY <1>1, <1>3, <1>14 DEF Undoable
<1> QED
  BY <1>12, <1>15, <1>16, <1>17, <1>18, <1>20, <1>21, <1>22, Kept DEF InProgress

\* A removed file leaves the maps.
Without(q, f, x) == DOMAIN q = DOMAIN f \ {x} /\ \A y \in DOMAIN f \ {x} : q[y] = f[y]

\* The extents of the forks that are left.
LEMMA HeldWithout ==
    ASSUME NEW gv, GoodLists(gv), NEW id \in DOMAIN gv \ Trees, NEW hv, Without(hv, gv, id)
    PROVE  /\ GoodLists(hv)
           /\ HeldBy(hv, DOMAIN hv) = HeldBy(gv, DOMAIN gv) \ {gv[id][i] : i \in 1 .. Len(gv[id])}
<1>1. DOMAIN hv = DOMAIN gv \ {id} /\ \A f \in DOMAIN hv : hv[f] = gv[f]
  BY DEF Without
<1>2. Trees \subseteq DOMAIN hv /\ \A t \in Trees : hv[t] = gv[t]
  BY <1>1 DEF GoodLists
<1>3. GoodLists(hv)
  <2>1. Apart(hv)
    <3> SUFFICES ASSUME NEW f \in DOMAIN hv, NEW g \in DOMAIN hv,
                        NEW i \in 1 .. Len(hv[f]), NEW j \in 1 .. Len(hv[g]), ~(f = g /\ i = j)
                 PROVE  ExtentBlocks(hv[f][i]) \cap ExtentBlocks(hv[g][j]) = {}
      BY Zenon DEF Apart
    <3>1. f \in DOMAIN gv /\ g \in DOMAIN gv /\ hv[f] = gv[f] /\ hv[g] = gv[g]
      BY <1>1
    <3>2. Apart(gv)
      BY DEF GoodLists
    <3> QED
      BY <3>1, <3>2, Zenon DEF Apart
  <2> QED
    BY <2>1, <1>1, <1>2 DEF GoodLists
<1>4. \A f \in DOMAIN gv : gv[f] \in Seq(Inside) /\ ToSet(gv[f]) = {gv[f][i] : i \in 1 .. Len(gv[f])}
  BY InsideList DEF GoodLists, ToSet
<1>5. \A f \in DOMAIN hv : \A i \in 1 .. Len(gv[f]), j \in 1 .. Len(gv[id]) : gv[f][i] # gv[id][j]
  <2> SUFFICES ASSUME NEW f \in DOMAIN hv, NEW i \in 1 .. Len(gv[f]), NEW j \in 1 .. Len(gv[id]), gv[f][i] = gv[id][j]
               PROVE  FALSE
    OBVIOUS
  <2>1. f # id /\ f \in DOMAIN gv
    BY <1>1
  <2>2. ExtentBlocks(gv[f][i]) \cap ExtentBlocks(gv[id][j]) = {}
    BY <2>1 DEF GoodLists, Apart
  <2>3. gv[f][i] \in Inside
    BY <2>1, <1>4
  <2> QED
    BY <2>2, <2>3, InsideFacts
<1>6. ToSet(gv[id]) = {gv[id][i] : i \in 1 .. Len(gv[id])}
  BY <1>4
<1>7. \A f \in DOMAIN hv : ToSet(gv[f]) \cap ToSet(gv[id]) = {}
  BY <1>1, <1>4, <1>5
<1>8. UNION {ToSet(hv[f]) : f \in DOMAIN hv} = (UNION {ToSet(gv[f]) : f \in DOMAIN gv}) \ ToSet(gv[id])
  <2>1. \A f \in DOMAIN hv : ToSet(hv[f]) = ToSet(gv[f])
    BY <1>1
  <2>2. \A f \in DOMAIN gv : f \in DOMAIN hv \/ f = id
    BY <1>1
  <2>3. DOMAIN hv \subseteq DOMAIN gv
    BY <1>1
  <2>4. ASSUME NEW e PROVE (\E f \in DOMAIN hv : e \in ToSet(hv[f])) <=> (\E f \in DOMAIN gv : e \in ToSet(gv[f])) /\ e \notin ToSet(gv[id])
    BY <1>7, <2>1, <2>2, <2>3, Zenon
  <2> QED
    BY <2>4
<1> QED
  BY <1>3, <1>6, <1>8 DEF HeldBy

\* Unlink.
LEMMA UnlinkKeeps ==
    ASSUME FInv, Unlink
    PROVE  FInv'
<1>1. At("unlink") /\ Continue(Tail(Top.todo)) /\ edited' = TRUE
      /\ desc' = [f \in DOMAIN desc \ {Top.id} |-> desc[f]]
      /\ given' = [f \in DOMAIN given \ {Top.id} |-> given[f]]
      /\ UNCHANGED <<vars, recs, store, extents, next, handle, torn>>
  BY DEF Unlink
<1>2. /\ stack # <<>> /\ Len(stack) = 1 /\ Op = Top /\ Top.todo = Op.todo
      /\ Stage("unlink")
  BY <1>1, Busy
<1>3. /\ IInv /\ torn = FALSE /\ open
      /\ Named /\ Described /\ Handled /\ Typed /\ Undoable /\ Nested /\ InProgress
  BY <1>2, Ongoing
<1>4. PICK id : id = Op.id
  OBVIOUS
<1>5. Emptying(Len(given[id])) /\ Ahead(Op.todo, Do("unlink"), <<Do("commit")>>)
  BY <1>2, <1>4 DEF Stage
<1>6. /\ id \in Live /\ DOMAIN given = DOMAIN desc
      /\ owned = HeldBy(given, DOMAIN given) \ {given[id][i] : i \in 1 .. Len(given[id])}
      /\ \A k \in DOMAIN recs : k[1] # id
      /\ \A f \in Live \ {id} : InTree(recs, given, f)
  BY <1>4, <1>5, Zenon DEF Emptying, Returned
<1>7. Without(desc', desc, id) /\ Without(given', given, id)
  BY <1>1, <1>2, <1>4 DEF Without
<1>8. Live' = Live \ {id} /\ store' = store /\ recs' = recs /\ handle' = handle
      /\ next' = next /\ extents' = extents /\ owned' = owned /\ open' = open /\ torn' = torn
  BY <1>1, <1>7 DEF Live, vars, Without
<1>9. GoodLists(given') /\ owned = HeldBy(given', DOMAIN given')
  <2>1. id \in DOMAIN given \ Trees /\ GoodLists(given)
    BY <1>3, <1>6 DEF Live, Named
  <2> QED
    BY <2>1, <1>6, <1>7, HeldWithout, Zenon
<1>10. Nested' /\ Op'.todo = <<Do("commit")>>
  <2>1. ~(Len(stack) > 1)
    BY <1>2
  <2>2. Nested' /\ Op'.todo = Tail(Top.todo)
    BY <2>1, <1>1, <1>2, <1>3, ContinueNested
  <2> QED
    BY <2>2, <1>2, <1>5, Zenon DEF Ahead
<1>11. Len(stack') >= 1
  <2>1. Len(stack') = 1
    BY <1>1, <1>2, <1>3, ContinueFacts
  <2> QED
    BY <2>1
<1>12. /\ DOMAIN desc' = DOMAIN desc \ {id} /\ DOMAIN given' = DOMAIN given \ {id}
       /\ \A f \in DOMAIN desc \ {id} : desc'[f] = desc[f] /\ given'[f] = given[f]
  BY <1>6, <1>7 DEF Without
<1>13. Named'
  BY <1>3, <1>6, <1>8, <1>9, <1>12 DEF Named, Live
<1>14. Described'
  BY <1>3, <1>8, <1>12 DEF Described, Live
<1>15. Handled'
  BY <1>3, <1>8, <1>12 DEF Handled, Live
<1>16. Typed'
  <2>1. \A t \in Trees : t \in DOMAIN desc \ {id}
    BY <1>3, <1>6 DEF Live, Named
  <2>2. \A t \in Trees : desc'[t] = desc[t]
    BY <2>1, <1>12
  <2>3. \A k \in DOMAIN recs : k[1] \in DOMAIN given'
    BY <1>3, <1>6, <1>12 DEF Typed
  <2> QED
    BY <2>2, <2>3, <1>2, <1>3, <1>8 DEF Typed
<1>17. Settled'
  <2>1. \A f \in Live' : InTree(recs', given', f)
    BY <1>6, <1>8, <1>12 DEF InTree, Live
  <2> QED
    BY <2>1, <1>6, <1>8, <1>9, <1>12 DEF Settled
<1>18. Closing'
  BY <1>1, <1>10, <1>11, <1>17 DEF Closing
<1>19. IInv'
  BY <1>1, <1>3, StepExact
<1>20. open' /\ torn' = FALSE /\ Undoable'
  BY <1>1, <1>3, <1>8 DEF Undoable
<1> QED
  BY <1>10, <1>13, <1>14, <1>15, <1>16, <1>18, <1>19, <1>20, Kept DEF InProgress

\* Two places of the lists never have the same extent.
LEMMA PlacesApart ==
    ASSUME NEW gv, GoodLists(gv), NEW f \in DOMAIN gv, NEW g \in DOMAIN gv,
           NEW i \in 1 .. Len(gv[f]), NEW j \in 1 .. Len(gv[g]), ~(f = g /\ i = j)
    PROVE  gv[f][i] # gv[g][j]
<1>1. ExtentBlocks(gv[f][i]) \cap ExtentBlocks(gv[g][j]) = {}
  BY DEF GoodLists, Apart
<1>2. gv[f] \in Seq(Inside)
  BY DEF GoodLists
<1>3. gv[f][i] \in Inside
  BY <1>2, InsideList
<1> QED
  BY <1>1, <1>3, InsideFacts

\* No file has the first run of a tree.
LEMMA NotFirst ==
    ASSUME NEW gv, GoodLists(gv), NEW f \in DOMAIN gv \ Trees, NEW i \in 1 .. Len(gv[f])
    PROVE  gv[f][i] \notin First
<1> SUFFICES ASSUME NEW t \in Trees, gv[f][i] = FirstRun[t] PROVE FALSE
  BY DEF First
<1>1. t \in DOMAIN gv /\ Len(gv[t]) >= 1 /\ gv[t][1] = FirstRun[t] /\ gv[t] \in Seq(Inside)
  BY DEF GoodLists
<1>2. 1 \in 1 .. Len(gv[t])
  BY <1>1
<1>3. gv[f][i] # gv[t][1]
  BY <1>1, <1>2, PlacesApart
<1> QED
  BY <1>1, <1>3

\* The next extent of a removed file is still held, and is then given back.
LEMMA FreesNext ==
    ASSUME NEW gv, GoodLists(gv), NEW id \in DOMAIN gv \ Trees, NEW j \in Nat, j < Len(gv[id]),
           NEW O, O = HeldBy(gv, DOMAIN gv) \ {gv[id][i] : i \in 1 .. j}
    PROVE  /\ gv[id][j + 1] \in O
           /\ O \ {gv[id][j + 1]} = HeldBy(gv, DOMAIN gv) \ {gv[id][i] : i \in 1 .. j + 1}
<1>1. gv[id] \in Seq(Inside) /\ Len(gv[id]) \in Nat /\ DOMAIN gv[id] = 1 .. Len(gv[id])
  BY InsideList DEF GoodLists
<1>2. j + 1 \in 1 .. Len(gv[id])
  BY <1>1
<1>3. PICK e : e = gv[id][j + 1]
  OBVIOUS
<1>4. e \in ToSet(gv[id])
  BY <1>1, <1>2, <1>3 DEF ToSet
<1>5. e \notin First
  BY <1>2, <1>3, NotFirst
<1>6. e \in HeldBy(gv, DOMAIN gv)
  BY <1>4, <1>5 DEF HeldBy
<1>7. \A i \in 1 .. j : gv[id][i] # e
  <2> SUFFICES ASSUME NEW i \in 1 .. j PROVE gv[id][i] # e
    OBVIOUS
  <2>1. i \in 1 .. Len(gv[id]) /\ ~(id = id /\ i = j + 1)
    BY <1>1
  <2> QED
    BY <2>1, <1>2, <1>3, PlacesApart
<1>8. e \in O
  BY <1>6, <1>7
<1>9. {gv[id][i] : i \in 1 .. j + 1} = {gv[id][i] : i \in 1 .. j} \cup {e}
  <2>1. \A i : i \in 1 .. j + 1 <=> i \in 1 .. j \/ i = j + 1
    OBVIOUS
  <2> QED
    BY <2>1, <1>3, Zenon
<1> QED
  BY <1>3, <1>8, <1>9

\* An extent of a removed file is given back.
LEMMA ReturnsOne ==
    ASSUME FInv, stack # <<>>, NEW j \in Nat, Returned(j), j < Len(given[Op.id]),
           Release(given[Op.id][j + 1]), NEW todo, Continue(todo),
           UNCHANGED <<desc, recs, store, extents, next, handle, edited, torn, given>>
    PROVE  /\ IInv' /\ Named' /\ Described' /\ Handled' /\ Typed' /\ Undoable' /\ Nested'
           /\ torn' = FALSE /\ open' /\ Returned(j + 1)' /\ Live' = Live
           /\ Op'.id = Op.id /\ Op'.todo = todo
<1>1. /\ IInv /\ torn = FALSE /\ open
      /\ Named /\ Described /\ Handled /\ Typed /\ Undoable /\ Nested /\ InProgress
  BY Ongoing
<1>2. /\ Len(stack) = 1 /\ Op.id \in Live /\ DOMAIN given = DOMAIN desc
      /\ owned = HeldBy(given, DOMAIN given) \ {given[Op.id][i] : i \in 1 .. j}
  BY DEF Returned
<1>3. PICK e : e = given[Op.id][j + 1]
  OBVIOUS
<1>4. Release(e)
  BY <1>3
<1>5. /\ e \in owned
      /\ owned \ {e} = HeldBy(given, DOMAIN given) \ {given[Op.id][i] : i \in 1 .. j + 1}
  <2>1. GoodLists(given) /\ Op.id \in DOMAIN given \ Trees
    BY <1>1, <1>2 DEF Named, Live
  <2>2. PICK id : id = Op.id
    OBVIOUS
  <2>3. owned = HeldBy(given, DOMAIN given) \ {given[id][i] : i \in 1 .. j}
    BY <2>2, <1>2
  <2>4. id \in DOMAIN given \ Trees /\ j < Len(given[id])
    BY <2>1, <2>2
  <2>5. /\ given[id][j + 1] \in owned
        /\ owned \ {given[id][j + 1]} = HeldBy(given, DOMAIN given) \ {given[id][i] : i \in 1 .. j + 1}
    BY <2>1, <2>3, <2>4, FreesNext
  <2> QED
    BY <2>2, <2>5, <1>3
<1>6. IInv'
  BY <1>1, <1>4, <1>5, StepExact DEF Next
<1>7. Live' = Live
  BY DEF Live
<1>8. Named' /\ Described' /\ Handled' /\ Typed'
  BY <1>1, FilesStay
<1>9. saved' = saved /\ open' /\ owned' = owned \ {e}
  BY <1>4 DEF Release
<1>10. Undoable' /\ torn' = FALSE
  BY <1>1, <1>9 DEF Undoable
<1>11. Nested' /\ Op'.id = Op.id /\ Op'.todo = todo /\ Len(stack') = 1
  <2>1. ~(Len(stack) > 1)
    BY <1>2
  <2> QED
    BY <2>1, <1>1, <1>2, ContinueNested, ContinueFacts
<1>12. Returned(j + 1)'
  BY <1>2, <1>5, <1>7, <1>9, <1>11 DEF Returned
<1> QED
  BY <1>6, <1>7, <1>8, <1>9, <1>10, <1>11, <1>12

\* FreeRun.
LEMMA FreeKeeps ==
    ASSUME FInv, FreeRun
    PROVE  FInv'
<1>1. At("free") /\ Continue(Tail(Top.todo)) /\ Release(Head(Step.ext))
      /\ UNCHANGED <<desc, recs, store, extents, next, handle, edited, torn, given>>
  BY DEF FreeRun
<1>2. /\ stack # <<>> /\ Len(stack) = 1 /\ Op = Top /\ Top.todo = Op.todo /\ Step = Head(Op.todo)
      /\ Stage("free")
  BY <1>1, Busy
<1>3. Named
  BY <1>2, Ongoing
<1>4. PICK id, g : id = Op.id /\ g = given[Op.id]
  OBVIOUS
<1>5. ASSUME NEW j \in Nat, Freeing(j), j < Len(InlinePart(g)),
             Ahead(Op.todo, FreeExtent(g[j + 1]), From(FreeSteps(g), j + 1))
      PROVE  FInv'
  <2>1. /\ Returned(j) /\ Op.id \in DOMAIN given /\ ~edited
        /\ \A f \in Live : InTree(recs, given, f)
    BY <1>5 DEF Freeing, Returned, Live
  <2>2. g \in Seq(Inside) /\ Len(g) \in Nat /\ Len(InlinePart(g)) \in Nat /\ Len(InlinePart(g)) <= Len(g)
    BY <2>1, <1>3, <1>4, GivenFacts
  <2>3. j < Len(given[Op.id]) /\ j + 1 \in 0 .. Len(InlinePart(g)) /\ j + 1 \in Nat
    BY <2>2, <1>4, <1>5
  <2>4. Release(given[Op.id][j + 1]) /\ Continue(From(FreeSteps(g), j + 1))
    <3>1. PICK e : e = g[j + 1]
      OBVIOUS
    <3>2. Step = FreeExtent(e) /\ Tail(Top.todo) = From(FreeSteps(g), j + 1)
      BY <3>1, <1>2, <1>5, Zenon DEF Ahead
    <3>3. Head(FreeExtent(e).ext) = e
      BY StepNames
    <3> QED
      BY <3>1, <3>2, <3>3, <1>1, <1>4, Zenon
  <2>5. /\ IInv' /\ Named' /\ Described' /\ Handled' /\ Typed' /\ Undoable' /\ Nested'
        /\ torn' = FALSE /\ open' /\ Returned(j + 1)' /\ Live' = Live
        /\ Op'.id = Op.id /\ Op'.todo = From(FreeSteps(g), j + 1)
    BY <2>1, <2>3, <2>4, <1>1, <1>2, ReturnsOne
  <2>6. given'[Op'.id] = g
    BY <2>5, <1>1, <1>4
  <2>7. Freeing(j + 1)'
    <3>1. j + 1 \in 0 .. Len(InlinePart(given'[Op'.id])) /\ Op'.todo = From(FreeSteps(given'[Op'.id]), j + 1)
      BY <2>3, <2>5, <2>6, Zenon
    <3>2. ~edited' /\ \A f \in Live' : InTree(recs', given', f)
      BY <2>1, <2>5, <1>1
    <3> QED
      BY <3>1, <3>2, <2>5 DEF Freeing
  <2>8. InProgress'
    BY <2>3, <2>7 DEF InProgress
  <2> QED
    BY <2>5, <2>8, Kept
<1>6. ASSUME NEW j \in Nat, Emptying(j), j < Len(g),
             Ahead(Op.todo, FreeExtent(g[j + 1]), From(EmptySteps(g), j + 1))
      PROVE  FInv'
  <2>1. /\ Returned(j) /\ Op.id \in DOMAIN given /\ edited
        /\ \A k \in DOMAIN recs : k[1] # Op.id
        /\ \A f \in Live \ {Op.id} : InTree(recs, given, f)
    BY <1>6 DEF Emptying, Returned, Live
  <2>2. g \in Seq(Inside) /\ Len(g) \in Nat
    BY <2>1, <1>3, <1>4, GivenFacts
  <2>3. j < Len(given[Op.id]) /\ j + 1 \in 0 .. Len(g) /\ j + 1 \in Nat
    BY <2>2, <1>4, <1>6
  <2>4. Release(given[Op.id][j + 1]) /\ Continue(From(EmptySteps(g), j + 1))
    <3>1. PICK e : e = g[j + 1]
      OBVIOUS
    <3>2. Step = FreeExtent(e) /\ Tail(Top.todo) = From(EmptySteps(g), j + 1)
      BY <3>1, <1>2, <1>6, Zenon DEF Ahead
    <3>3. Head(FreeExtent(e).ext) = e
      BY StepNames
    <3> QED
      BY <3>1, <3>2, <3>3, <1>1, <1>4, Zenon
  <2>5. /\ IInv' /\ Named' /\ Described' /\ Handled' /\ Typed' /\ Undoable' /\ Nested'
        /\ torn' = FALSE /\ open' /\ Returned(j + 1)' /\ Live' = Live
        /\ Op'.id = Op.id /\ Op'.todo = From(EmptySteps(g), j + 1)
    BY <2>1, <2>3, <2>4, <1>1, <1>2, ReturnsOne
  <2>6. given'[Op'.id] = g
    BY <2>5, <1>1, <1>4
  <2>7. Emptying(j + 1)'
    <3>1. j + 1 \in 0 .. Len(given'[Op'.id]) /\ Op'.todo = From(EmptySteps(given'[Op'.id]), j + 1)
      BY <2>3, <2>5, <2>6, Zenon
    <3>2. edited' /\ (\A k \in DOMAIN recs' : k[1] # Op'.id) /\ \A f \in Live' \ {Op'.id} : InTree(recs', given', f)
      BY <2>1, <2>5, <1>1
    <3> QED
      BY <3>1, <3>2, <2>5 DEF Emptying
  <2>8. InProgress'
    BY <2>3, <2>7 DEF InProgress
  <2> QED
    BY <2>5, <2>8, Kept
<1> QED
  BY <1>2, <1>4, <1>5, <1>6 DEF Stage

-----------------------------------------------------------------------------
(* Deleted records, failures, and the start of an operation.               *)

\* What is left to free when the descriptor's extents have been freed.
LEMMA EmptyFrom ==
    ASSUME NEW g \in Seq(Inside)
    PROVE  Frees(OverflowPart(g)) \o <<Do("unlink"), Do("commit")>> = From(EmptySteps(g), Len(InlinePart(g)))
<1> DEFINE r == <<Do("unlink"), Do("commit")>>
           s == Frees(g)
           m == Len(InlinePart(g))
           v == OverflowPart(g)
<1>1. /\ m \in Nat /\ m <= Len(g) /\ v \in Seq(Inside) /\ Len(v) = Len(g) - m
      /\ \A i \in 1 .. Len(g) - m : v[i] = g[m + i]
  <2>1. PICK n : n = Min({InlineExtents, Len(g)})
    OBVIOUS
  <2>2. /\ n \in Nat /\ n <= Len(g) /\ Len(InlinePart(g)) = n
        /\ OverflowPart(g) \in Seq(Inside) /\ Len(OverflowPart(g)) = Len(g) - n
        /\ \A i \in 1 .. Len(g) - n : OverflowPart(g)[i] = g[n + i]
    BY <2>1, PartFacts
  <2> QED
    BY <2>2, Zenon
<1>2. IsSeq(r)
  BY SeqShort
<1>3. IsSeq(s) /\ Len(s) = Len(g) /\ Len(g) \in Nat /\ \A i \in 1 .. Len(g) : s[i] = FreeExtent(g[i])
  BY FreesFacts, InsideList
<1>4. EmptySteps(g) = s \o r
  BY DEF EmptySteps
<1> HIDE DEF r, s, m, v
<1>5. IsSeq(Frees(v)) /\ Len(Frees(v)) = Len(v) /\ \A i \in 1 .. Len(v) : Frees(v)[i] = FreeExtent(v[i])
  BY <1>1, FreesFacts
<1>6. m \in 0 .. Len(s)
  BY <1>1, <1>3
<1>7. IsSeq(From(s, m)) /\ Len(From(s, m)) = Len(s) - m /\ \A i \in 1 .. Len(s) - m : From(s, m)[i] = s[m + i]
  BY <1>3, <1>6, FromFacts
<1>8. From(s, m) = Frees(v)
  <2>1. PICK f, h : f = From(s, m) /\ h = Frees(v)
    OBVIOUS
  <2>2. IsSeq(f) /\ IsSeq(h) /\ Len(f) = Len(h)
    BY <2>1, <1>1, <1>3, <1>5, <1>7
  <2>3. \A i \in 1 .. Len(f) : f[i] = h[i]
    <3> SUFFICES ASSUME NEW i \in 1 .. Len(g) - m PROVE f[i] = h[i]
      BY <2>1, <1>3, <1>7
    <3>1. m + i \in 1 .. Len(g)
      BY <1>1, <1>3
    <3>2. f[i] = FreeExtent(g[m + i])
      BY <3>1, <2>1, <1>3, <1>7
    <3>3. h[i] = FreeExtent(g[m + i])
      BY <2>1, <1>1, <1>5
    <3> QED
      BY <3>2, <3>3
  <2> QED
    BY <2>1, <2>2, <2>3, SeqSame, Zenon
<1>9. From(s \o r, m) = From(s, m) \o r
  BY <1>2, <1>3, <1>6, FromJoin, Zenon
<1> QED
  BY <1>4, <1>8, <1>9, Zenon DEF r, m, v

\* deleteAllForFork.
LEMMA DropKeeps ==
    ASSUME FInv, deleteAllForFork
    PROVE  FInv'
<1>1. At("drop") /\ Continue(Frees(overflowExtents(recs, Top.id, 0)) \o Tail(Top.todo)) /\ edited' = TRUE
      /\ recs' = [k \in {l \in DOMAIN recs : l[1] # Top.id} |-> recs[k]]
      /\ UNCHANGED <<vars, desc, store, extents, next, handle, torn, given>>
  BY DEF deleteAllForFork
<1>2. /\ stack # <<>> /\ Len(stack) = 1 /\ Op = Top /\ Top.todo = Op.todo
      /\ Stage("drop")
  BY <1>1, Busy
<1>3. /\ IInv /\ torn = FALSE /\ open
      /\ Named /\ Described /\ Handled /\ Typed /\ Undoable /\ Nested /\ InProgress
  BY <1>2, Ongoing
<1>4. PICK id, g, m : id = Op.id /\ g = given[Op.id] /\ m = Len(InlinePart(g))
  OBVIOUS
<1>5. Freeing(m) /\ Ahead(Op.todo, Do("drop"), <<Do("unlink"), Do("commit")>>)
  BY <1>2, <1>4 DEF Stage
<1>6. /\ Returned(m) /\ id \in Live /\ DOMAIN given = DOMAIN desc
      /\ owned = HeldBy(given, DOMAIN given) \ {given[id][i] : i \in 1 .. m}
      /\ \A f \in Live : InTree(recs, given, f)
  BY <1>4, <1>5, Zenon DEF Freeing, Returned
<1>7. id \in DOMAIN given
  BY <1>6 DEF Live
<1>8. g \in Seq(Inside) /\ m \in Nat /\ Len(g) \in Nat /\ m <= Len(g)
  BY <1>3, <1>4, <1>7, GivenFacts
<1>9. overflowExtents(recs, Top.id, 0) = OverflowPart(g)
  <2>1. Recorded(recs, id, g, Groups(g), Groups(g))
    BY <1>4, <1>6 DEF InTree
  <2>2. Groups(g) # 0 => 0 <= BlocksUpTo(g)[InlineExtents]
    <3>1. Groups(g) \in Nat /\ (Groups(g) = 0 <=> Len(g) <= InlineExtents)
      BY <1>8, GroupPlaces
    <3>2. InlineExtents \in Nat /\ g \in Seq(Extents)
      BY <1>8, InsideList, ForksAssumption
    <3>3. BlocksUpTo(g) \in [0 .. Len(g) -> Nat]
      BY <3>2, BlocksStep
    <3>4. Groups(g) # 0 => InlineExtents \in 0 .. Len(g)
      BY <3>1, <3>2, <1>8
    <3> QED
      BY <3>3, <3>4
  <2>3. 0 \in Nat
    OBVIOUS
  <2>4. overflowExtents(recs, id, 0) = OverflowPart(g)
    BY <2>1, <2>2, <2>3, <1>8, Assembled
  <2> QED
    BY <2>4, <1>2, <1>4, Zenon
<1>10. Continue(From(EmptySteps(g), m))
  <2>1. Tail(Top.todo) = <<Do("unlink"), Do("commit")>>
    BY <1>2, <1>5, Zenon DEF Ahead
  <2>2. Frees(OverflowPart(g)) \o <<Do("unlink"), Do("commit")>> = From(EmptySteps(g), m)
    BY <1>4, <1>8, EmptyFrom, Zenon
  <2> QED
    BY <2>1, <2>2, <1>1, <1>9, Zenon
<1>11. Nested' /\ Op'.id = Op.id /\ Op'.todo = From(EmptySteps(g), m) /\ Len(stack') = 1
  <2>1. ~(Len(stack) > 1)
    BY <1>2
  <2> QED
    BY <2>1, <1>2, <1>3, <1>10, ContinueNested, ContinueFacts
<1>12. /\ Live' = Live /\ given' = given /\ desc' = desc /\ owned' = owned /\ open' = open /\ torn' = torn
  BY <1>1 DEF Live, vars
<1>13. /\ DOMAIN recs' = {l \in DOMAIN recs : l[1] # id} /\ \A k \in DOMAIN recs' : recs'[k] = recs[k]
  BY <1>1, <1>2, <1>4
<1>14. \A k \in DOMAIN recs' : k[1] # id
  BY <1>13
<1>15. \A f \in Live \ {id} : InTree(recs', given, f)
  <2> SUFFICES ASSUME NEW f \in Live \ {id} PROVE InTree(recs', given, f)
    OBVIOUS
  <2>1. SameFor(recs, recs', f)
    <3> SUFFICES ASSUME NEW k, k[1] = f
                 PROVE  (k \in DOMAIN recs <=> k \in DOMAIN recs') /\ (k \in DOMAIN recs => recs[k] = recs'[k])
      BY Zenon DEF SameFor
    <3>1. k[1] # id
      OBVIOUS
    <3> QED
      BY <3>1, <1>13
  <2>2. Recorded(recs, f, given[f], Groups(given[f]), Groups(given[f]))
    BY <1>6 DEF InTree
  <2>3. Recorded(recs', f, given[f], Groups(given[f]), Groups(given[f]))
    BY <2>1, <2>2, RecordedStays, Zenon
  <2> QED
    BY <2>3, Zenon DEF InTree
<1>16. Emptying(m)'
  <2>1. given'[Op'.id] = g
    BY <1>4, <1>11, <1>12
  <2>2. m \in 0 .. Len(g)
    BY <1>8
  <2>3. m \in 0 .. Len(given'[Op'.id]) /\ Op'.todo = From(EmptySteps(given'[Op'.id]), m)
    BY <2>1, <2>2, <1>11, Zenon
  <2>4. Returned(m)'
    BY <1>6, <1>4, <1>11, <1>12 DEF Returned
  <2>5. edited' /\ (\A k \in DOMAIN recs' : k[1] # Op'.id) /\ \A f \in Live' \ {Op'.id} : InTree(recs', given', f)
    BY <1>1, <1>4, <1>11, <1>12, <1>14, <1>15
  <2> QED
    BY <2>3, <2>4, <2>5 DEF Emptying
<1>17. Typed'
  <2>1. IsFiniteSet(DOMAIN recs')
    <3>1. DOMAIN recs' \in SUBSET DOMAIN recs /\ IsFiniteSet(DOMAIN recs)
      BY <1>3, <1>13 DEF Typed, Keyed
    <3> QED
      BY <3>1, FS_Subset
  <2>2. Keyed(recs')
    BY <2>1, <1>3, <1>13 DEF Typed, Keyed
  <2> QED
    BY <2>2, <1>1, <1>2, <1>3, <1>13 DEF Typed
<1>18. Named' /\ Described' /\ Handled'
  BY <1>1, <1>3, <1>12 DEF Named, Described, Handled
<1>19. IInv'
  BY <1>1, <1>3, StepExact
<1>20. open' /\ torn' = FALSE /\ Undoable'
  BY <1>1, <1>3, <1>12 DEF Undoable
<1>21. InProgress'
  BY <1>8, <1>16 DEF InProgress
<1> QED
  BY <1>11, <1>17, <1>18, <1>19, <1>20, <1>21, Kept

\* Fewer lists.
LEMMA ListsRestricted ==
    ASSUME NEW gv, GoodLists(gv), NEW D \in SUBSET DOMAIN gv, Trees \subseteq D, NEW hv, hv = [f \in D |-> gv[f]]
    PROVE  GoodLists(hv) /\ DOMAIN hv = D /\ HeldBy(hv, D) = HeldBy(gv, D)
<1>1. DOMAIN hv = D /\ \A f \in D : hv[f] = gv[f]
  OBVIOUS
<1>2. Apart(hv)
  <2> SUFFICES ASSUME NEW f \in DOMAIN hv, NEW g \in DOMAIN hv,
                      NEW i \in 1 .. Len(hv[f]), NEW j \in 1 .. Len(hv[g]), ~(f = g /\ i = j)
               PROVE  ExtentBlocks(hv[f][i]) \cap ExtentBlocks(hv[g][j]) = {}
    BY Zenon DEF Apart
  <2>1. f \in DOMAIN gv /\ g \in DOMAIN gv /\ hv[f] = gv[f] /\ hv[g] = gv[g]
    BY <1>1
  <2>2. Apart(gv)
    BY DEF GoodLists
  <2> QED
    BY <2>1, <2>2, Zenon DEF Apart
<1>3. GoodLists(hv)
  <2>1. \A t \in Trees : t \in D /\ hv[t] = gv[t]
    BY <1>1
  <2>2. \A f \in DOMAIN hv : hv[f] \in Seq(Inside)
    BY <1>1 DEF GoodLists
  <2>3. \A t \in Trees : Len(hv[t]) >= 1 /\ hv[t][1] = FirstRun[t]
    BY <2>1 DEF GoodLists
  <2> QED
    BY <2>2, <2>3, <1>1, <1>2 DEF GoodLists
<1>4. HeldBy(hv, D) = HeldBy(gv, D)
  <2>1. {ToSet(hv[f]) : f \in D} = {ToSet(gv[f]) : f \in D}
    BY <1>1
  <2> QED
    BY <2>1 DEF HeldBy
<1> QED
  BY <1>1, <1>3, <1>4

\* Fail.
LEMMA FailKeeps ==
    ASSUME FInv, stack # <<>>, Fail
    PROVE  FInv'
<1>1. /\ stack' = <<>> /\ edited' = FALSE /\ torn' = edited
      /\ given' = [f \in DOMAIN desc |-> given[f]]
      /\ IF edited THEN UNCHANGED vars ELSE Abandon
      /\ UNCHANGED <<desc, recs, store, next, handle>>
  BY DEF Fail
<1>2. /\ IInv /\ torn = FALSE /\ open
      /\ Named /\ Described /\ Handled /\ Typed /\ Undoable /\ Nested /\ InProgress
  BY Ongoing
<1>3. edited \in BOOLEAN
  BY <1>2 DEF Undoable
<1>4. IInv'
  BY <1>1, <1>2, StepExact DEF Next
<1>5. CASE edited
  BY <1>1, <1>3, <1>4, <1>5 DEF FInv
<1>6. CASE ~edited
  <2>1. torn' = FALSE /\ Abandon
    BY <1>1, <1>3, <1>6
  <2>2. saved' = saved /\ owned' = saved /\ ~open' /\ saved = HeldBy(given, DOMAIN desc)
    BY <2>1, <1>2, <1>6 DEF Abandon, Undoable
  <2>3. DOMAIN desc \in SUBSET DOMAIN given /\ Trees \subseteq DOMAIN desc /\ GoodLists(given)
    BY <1>2 DEF Named
  <2>4. GoodLists(given') /\ DOMAIN given' = DOMAIN desc /\ HeldBy(given', DOMAIN desc) = HeldBy(given, DOMAIN desc)
    BY <2>3, <1>1, ListsRestricted
  <2>5. Live' = Live /\ \A f \in Live : given'[f] = given[f]
    BY <1>1 DEF Live
  <2>6. Named'
    BY <2>4, <1>1, <1>2 DEF Named
  <2>7. Described'
    BY <2>5, <1>1, <1>2 DEF Described
  <2>8. Handled'
    BY <2>5, <1>1, <1>2 DEF Handled
  <2>9. /\ \A k \in DOMAIN recs : k[1] \in DOMAIN desc
        /\ \A f \in Live : InTree(recs, given, f)
    <3>1. CASE Starting
      BY <3>1, <1>2 DEF Starting, Settled, Typed
    <3>2. CASE Closing
      BY <3>2, <1>6 DEF Closing
    <3>3. ASSUME NEW j \in Nat, Freeing(j)
          PROVE  /\ \A k \in DOMAIN recs : k[1] \in DOMAIN desc
                 /\ \A f \in Live : InTree(recs, given, f)
      BY <3>3, <1>2 DEF Freeing, Returned, Typed
    <3>4. ASSUME NEW j \in Nat, Emptying(j)
          PROVE  FALSE
      BY <3>4, <1>6 DEF Emptying
    <3>5. ASSUME NEW j \in Nat, Filing(j)
          PROVE  /\ \A k \in DOMAIN recs : k[1] \in DOMAIN desc
                 /\ \A f \in Live : InTree(recs, given, f)
      <4>1. /\ Recorded(recs, Op.id, given[Op.id], 0, 0) /\ DOMAIN given = DOMAIN desc \cup {Op.id}
            /\ \A f \in Live : InTree(recs, given, f)
        BY <3>5, <1>6 DEF Filing
      <4>2. \A i : i \notin 1 .. 0
        OBVIOUS
      <4>3. \A k \in DOMAIN recs : k[1] # Op.id
        BY <4>1, <4>2, Zenon DEF Recorded
      <4> QED
        BY <4>1, <4>3, <1>2 DEF Typed
    <3> QED
      BY <3>1, <3>2, <3>3, <3>4, <3>5, <1>2 DEF InProgress
  <2>10. Typed'
    BY <2>4, <2>9, <1>1, <1>2 DEF Typed
  <2>11. Undoable'
    BY <2>2, <2>4, <1>1 DEF Undoable
  <2>12. Nested'
    <3>1. IsSeq(<<>>) /\ Len(<<>>) = 0
      BY SeqShort
    <3> QED
      BY <3>1, <1>1 DEF Nested
  <2>13. Resting'
    <3>1. \A f \in Live' : InTree(recs', given', f)
      BY <2>5, <2>9, <1>1 DEF InTree
    <3> QED
      BY <3>1, <2>2, <2>4, <1>1 DEF Resting, Settled
  <2> QED
    BY <2>1, <2>6, <2>7, <2>8, <2>10, <2>11, <2>12, <2>13, <1>1, <1>4 DEF FInv, Orderly, Phase
<1> QED
  BY <1>3, <1>5, <1>6

-----------------------------------------------------------------------------
(* The start of an operation, and reading.                                 *)

\* A new frame.
IsNew(fr, id, size, todo) ==
    /\ IsFrame(fr) /\ LeafOK(fr.leaf)
    /\ fr.id = id /\ fr.size = size /\ fr.todo = todo
    /\ fr.grown = FALSE /\ fr.low = FALSE /\ fr.leaf = <<>>

\* The fields of a new frame.
LEMMA FrameIs ==
    ASSUME NEW id, NEW size, NEW todo
    PROVE  IsNew(Frame(id, size, todo), id, size, todo)
<1>1. PICK none : none = <<>>
  OBVIOUS
<1>2. PICK fr : fr = [id |-> id, size |-> size, todo |-> todo, grown |-> FALSE, low |-> FALSE, leaf |-> none]
  OBVIOUS
<1>3. fr.id = id /\ fr.size = size /\ fr.todo = todo /\ fr.grown = FALSE /\ fr.low = FALSE /\ fr.leaf = none
  BY <1>2
<1>4. IsFrame(fr)
  BY <1>2, <1>3, Zenon DEF IsFrame
<1>5. Frame(id, size, todo) = fr
  BY <1>1, <1>2, Zenon DEF Frame
<1> QED
  BY <1>1, <1>3, <1>4, <1>5, NoLeaf, Zenon DEF IsNew

\* One call.
LEMMA OneCall ==
    ASSUME NEW fr, IsFrame(fr), LeafOK(fr.leaf), stack' = <<fr>>
    PROVE  Nested' /\ Len(stack') = 1 /\ stack' # <<>> /\ Op' = fr
<1>1. IsSeq(stack') /\ Len(stack') = 1 /\ stack'[1] = fr
  BY SeqShort, Zenon
<1>2. \A i \in 1 .. 1 : i = 1
  OBVIOUS
<1>3. \A i \in 1 .. 1 - 1 : FALSE
  OBVIOUS
<1>4. Nested'
  BY <1>1, <1>2, <1>3, Zenon DEF Nested
<1> QED
  BY <1>1, <1>4 DEF Op

\* begin.
LEMMA Begins ==
    ASSUME FInv, NEW fr, IsFrame(fr), LeafOK(fr.leaf), begin(fr), next' \in {next, next + 1}
    PROVE  /\ IInv' /\ torn' = FALSE /\ open' /\ Named' /\ Described' /\ Handled' /\ Typed' /\ Undoable' /\ Nested'
           /\ Len(stack') = 1 /\ Op' = fr /\ Live' = Live /\ Settled' /\ edited' = FALSE
<1>1. /\ Idle /\ newAllocator /\ extents' = [t \in Trees |-> Resolved(t)] /\ stack' = <<fr>>
      /\ UNCHANGED <<desc, recs, store, handle, edited, torn, given>>
  BY DEF begin
<1>2. /\ IInv /\ torn = FALSE
      /\ Named /\ Described /\ Handled /\ Typed /\ Undoable /\ Nested /\ Resting
  BY <1>1, AtRest
<1>3. IInv'
  BY <1>1, <1>2, StepExact DEF Next
<1>4. open' /\ owned' = owned /\ saved' = saved
  BY <1>1 DEF newAllocator
<1>5. Live' = Live
  BY <1>1 DEF Live
<1>6. Named'
  BY <1>1, <1>2 DEF Named, FirstFile
<1>7. Described' /\ Handled'
  BY <1>1, <1>2, <1>5 DEF Described, Handled, Named
<1>8. Typed'
  <2>1. \A t \in Trees : Resolved(t) \in Seq(Inside)
    <3> SUFFICES ASSUME NEW t \in Trees PROVE resolveForkExtents(desc[t], recs, t) \in Seq(Inside)
      BY DEF Resolved
    <3>1. Keyed(recs) /\ desc[t].ext \in Seq(Inside)
      BY <1>2 DEF Typed
    <3> QED
      BY <3>1, ResolveTyped
  <2>2. \A t \in Trees : extents'[t] \in Seq(Inside)
    BY <2>1, <1>1
  <2> QED
    BY <2>2, <1>1, <1>2 DEF Typed
<1>9. ~edited /\ edited \in BOOLEAN /\ Settled
  BY <1>2 DEF Resting, Undoable
<1>10. edited' = FALSE
  BY <1>1, <1>9
<1>11. Settled'
  BY <1>1, <1>4, <1>5, <1>9 DEF Settled
<1>12. Undoable'
  BY <1>1, <1>2, <1>4 DEF Undoable
<1> QED
  BY <1>1, <1>2, <1>3, <1>4, <1>5, <1>6, <1>7, <1>8, <1>10, <1>11, <1>12, OneCall

\* createFile.
LEMMA CreateKeeps ==
    ASSUME FInv, NEW size \in FileSizes, createFile(size)
    PROVE  FInv'
<1>1. PICK fr : fr = Frame(next, size, <<Do("alloc")>>)
  OBVIOUS
<1>2. begin(fr) /\ next' = next + 1 /\ UNCHANGED <<desc, handle, given>>
  BY <1>1, Zenon DEF createFile, begin
<1>3. IsFrame(fr) /\ LeafOK(fr.leaf) /\ fr.id = next /\ fr.size = size /\ fr.todo = <<Do("alloc")>>
  <2>1. PICK todo : todo = <<Do("alloc")>>
    OBVIOUS
  <2>2. IsNew(fr, next, size, todo)
    BY <2>1, <1>1, FrameIs, Zenon
  <2> QED
    BY <2>1, <2>2, Zenon DEF IsNew
<1>4. /\ IInv' /\ torn' = FALSE /\ open' /\ Named' /\ Described' /\ Handled' /\ Typed' /\ Undoable' /\ Nested'
      /\ Len(stack') = 1 /\ Op' = fr /\ Settled' /\ edited' = FALSE
  <2>1. next' \in {next, next + 1}
    BY <1>2
  <2> QED
    BY <2>1, <1>2, <1>3, Begins
<1>5. Named /\ Handled
  BY <1>2, AtRest DEF begin
<1>6. next \in FirstFile .. (next' - 1) /\ next \notin DOMAIN given' /\ handle'.id # next
  BY <1>2, <1>5 DEF Named, Handled, FirstFile, Trees, ExtentsFile, CatalogFile
<1>7. size \in Nat
  BY ForksAssumption
<1>8. Starting'
  BY <1>3, <1>4, <1>6, <1>7 DEF Starting
<1> QED
  BY <1>4, <1>8, Kept DEF InProgress

\* removeFile.
LEMMA RemoveKeeps ==
    ASSUME FInv, NEW f \in Live, removeFile(f)
    PROVE  FInv'
<1>1. PICK todo : todo = Frees(desc[f].ext) \o <<Do("drop"), Do("unlink"), Do("commit")>>
  OBVIOUS
<1>2. PICK fr : fr = Frame(f, 0, todo)
  OBVIOUS
<1>3. begin(fr) /\ next' = next /\ UNCHANGED <<desc, given>>
  BY <1>1, <1>2, Zenon DEF removeFile, begin
<1>4. IsFrame(fr) /\ LeafOK(fr.leaf) /\ fr.id = f /\ fr.todo = todo
  <2>1. IsNew(fr, f, 0, todo)
    BY <1>2, FrameIs, Zenon
  <2> QED
    BY <2>1, Zenon DEF IsNew
<1>5. /\ IInv' /\ torn' = FALSE /\ open' /\ Named' /\ Described' /\ Handled' /\ Typed' /\ Undoable' /\ Nested'
      /\ Len(stack') = 1 /\ Op' = fr /\ Live' = Live /\ Settled' /\ edited' = FALSE
  <2>1. next' \in {next, next + 1}
    BY <1>3
  <2> QED
    BY <2>1, <1>3, <1>4, Begins
<1>6. Named /\ Described
  BY <1>3, AtRest DEF begin
<1>7. f \in DOMAIN given
  BY <1>6, FilesApart
<1>8. given[f] \in Seq(Inside) /\ InlinePart(given[f]) \in Seq(Inside) /\ Len(InlinePart(given[f])) \in Nat
  BY <1>6, <1>7, GivenFacts
<1>9. desc[f].ext = InlinePart(given[f])
  <2>1. PICK a, b, c : a = desc[f].size /\ b = Counted(given[f]) /\ c = InlinePart(given[f])
    OBVIOUS
  <2>2. desc[f] = Fork(a, b, c)
    BY <2>1, <1>6, Zenon DEF Described
  <2>3. Fork(a, b, c).ext = c
    BY DEF Fork
  <2> QED
    BY <2>1, <2>2, <2>3, Zenon
<1>10. todo = FreeSteps(given[f]) /\ IsSeq(todo)
  <2>1. todo = FreeSteps(given[f])
    BY <1>1, <1>9, Zenon DEF FreeSteps
  <2>2. IsSeq(Frees(InlinePart(given[f])))
    BY <1>8, FreesFacts
  <2>3. IsSeq(<<Do("drop"), Do("unlink"), Do("commit")>>)
    BY FewAhead
  <2>4. IsSeq(FreeSteps(given[f]))
    BY <2>2, <2>3, SeqJoined, Zenon DEF FreeSteps, Joined
  <2> QED
    BY <2>1, <2>4, Zenon
<1>11. todo = From(FreeSteps(given[f]), 0)
  BY <1>10, FromEnds, Zenon
<1>12. Freeing(0)'
  <2>1. Op'.id = f /\ given'[Op'.id] = given[f] /\ Op'.todo = todo
    BY <1>3, <1>4, <1>5
  <2>2. Op'.todo = From(FreeSteps(given'[Op'.id]), 0)
    BY <2>1, <1>11, Zenon
  <2>3. 0 \in 0 .. Len(InlinePart(given'[Op'.id]))
    <3>1. 0 \in 0 .. Len(InlinePart(given[f]))
      BY <1>8
    <3> QED
      BY <3>1, <2>1, Zenon
  <2>4. {given'[Op'.id][i] : i \in 1 .. 0} = {}
    OBVIOUS
  <2>5. /\ DOMAIN given' = DOMAIN desc' /\ owned' = HeldBy(given', DOMAIN given')
        /\ \A x \in Live' : InTree(recs', given', x)
    BY <1>5 DEF Settled
  <2>6. owned' = HeldBy(given', DOMAIN given') \ {given'[Op'.id][i] : i \in 1 .. 0}
    BY <2>4, <2>5
  <2>7. Op'.id \in Live'
    BY <2>1, <1>5
  <2>8. Returned(0)'
    BY <2>5, <2>6, <2>7, <1>5 DEF Returned
  <2> QED
    BY <2>2, <2>3, <2>5, <2>8, <1>5 DEF Freeing
<1> QED
  BY <1>5, <1>12, Kept DEF InProgress

\* A file is read as it was given.
LEMMA FileResolves ==
    ASSUME Named, Described, \A f \in Live : InTree(recs, given, f), NEW f \in Live
    PROVE  /\ Resolved(f) = given[f] /\ dataForkFor(f).id = f
           /\ dataForkFor(f).size = desc[f].size /\ dataForkFor(f).ext = given[f]
<1>1. f \in DOMAIN given
  BY FilesApart
<1>2. given[f] \in Seq(Inside)
  BY <1>1, GivenFacts
<1>3. desc[f].ext = InlinePart(given[f]) /\ desc[f].total = Counted(given[f])
  <2>1. PICK a, b, c : a = desc[f].size /\ b = Counted(given[f]) /\ c = InlinePart(given[f])
    OBVIOUS
  <2>2. desc[f] = Fork(a, b, c)
    BY <2>1, Zenon DEF Described
  <2>3. Fork(a, b, c).ext = c /\ Fork(a, b, c).total = b
    BY DEF Fork
  <2> QED
    BY <2>1, <2>2, <2>3, Zenon
<1>4. Recorded(recs, f, given[f], Groups(given[f]), Groups(given[f]))
  BY DEF InTree
<1>5. Resolved(f) = given[f]
  BY <1>2, <1>3, <1>4, Reassembled DEF Resolved
<1>6. PICK r : r = Resolved(f)
  OBVIOUS
<1>7. dataForkFor(f) = [id |-> f, size |-> desc[f].size, ext |-> r]
  BY <1>6, Zenon DEF dataForkFor
<1> QED
  BY <1>5, <1>6, <1>7

\* OpenFile.
LEMMA OpenKeeps ==
    ASSUME FInv, NEW f \in Live, OpenFile(f)
    PROVE  FInv'
<1>1. Idle /\ handle' = dataForkFor(f)
      /\ UNCHANGED <<vars, desc, recs, store, extents, stack, next, edited, torn, given>>
  BY DEF OpenFile
<1>2. /\ IInv /\ torn = FALSE
      /\ Named /\ Described /\ Handled /\ Typed /\ Undoable /\ Nested /\ Resting
  BY <1>1, AtRest
<1>3. IInv'
  BY <1>1, <1>2, StepExact
<1>4. handle'.id = f /\ handle'.size = desc[f].size /\ handle'.ext = given[f]
  <2>1. \A x \in Live : InTree(recs, given, x)
    BY <1>2 DEF Resting, Settled
  <2> QED
    BY <2>1, <1>1, <1>2, FileResolves
<1>5. f \in Nat /\ f < next
  BY <1>2 DEF Named, Live, FirstFile
<1>6. Live' = Live
  BY <1>1 DEF Live
<1>7. Handled'
  BY <1>1, <1>4, <1>5, <1>6 DEF Handled
<1>8. Named' /\ Described' /\ Typed' /\ Undoable' /\ Nested' /\ Resting'
  BY <1>1, <1>2, <1>6 DEF Named, Described, Typed, Undoable, Nested, Resting, Settled, vars
<1> QED
  BY <1>1, <1>2, <1>3, <1>7, <1>8 DEF FInv, Orderly, Phase, Idle

-----------------------------------------------------------------------------
(* Lists that become longer.                                               *)

\* The runs mkfs gives the trees are in the volume, reserved and apart.
LEMMA FirstFacts ==
    /\ \A t \in Trees : FirstRun[t] \in Inside /\ ExtentBlocks(FirstRun[t]) \subseteq Reserved
    /\ ExtentBlocks(FirstRun[ExtentsFile]) \cap ExtentBlocks(FirstRun[CatalogFile]) = {}
    /\ FirstRun[ExtentsFile] = Extent(extStart(TotalBlocks), extBlocks)
    /\ FirstRun[CatalogFile] = Extent(catStart(TotalBlocks), catBlocks(TotalBlocks))
<1> DEFINE T == TotalBlocks
           x == extBlocks
           c == catBlocks(T)
           s == extStart(T)
           z == catStart(T)
<1>1. T \in Nat \ {0} /\ ~TooSmall(T)
  BY ForksAssumption, TotalBlocksAssumption DEF Accepts
<1>2. x \in Nat \ {0} /\ c \in Nat \ {0} /\ s \in Nat /\ z = s + x /\ z + c <= T - 1
  BY <1>1, Sizes, Ordered
<1>3. Regions(T).extents = s .. (s + x - 1) /\ Regions(T).catalog = z .. (z + c - 1)
      /\ "extents" \in DOMAIN Regions(T) /\ "catalog" \in DOMAIN Regions(T)
  BY DEF Regions, markUsed
<1>4. s .. (s + x - 1) \subseteq Reserved /\ z .. (z + c - 1) \subseteq Reserved
  <2>1. Reserved = UNION {Regions(T)[r] : r \in DOMAIN Regions(T)}
    BY ForksAssumption DEF UsedBlocks
  <2> QED
    BY <2>1, <1>3
<1>5. FirstRun[ExtentsFile] = Extent(s, x) /\ FirstRun[CatalogFile] = Extent(z, c)
  BY DEF FirstRun, Trees, ExtentsFile, CatalogFile
<1> HIDE DEF x, c, s, z
<1>6. s \in Blocks /\ z \in Blocks /\ s + x <= T /\ z + c <= T
  BY <1>1, <1>2 DEF Blocks
<1>7. /\ Extent(s, x) \in Extents /\ ExtentBlocks(Extent(s, x)) = s .. (s + x - 1)
      /\ Extent(z, c) \in Extents /\ ExtentBlocks(Extent(z, c)) = z .. (z + c - 1)
      /\ ExtentBlocks(Extent(s, x)) \subseteq Blocks /\ ExtentBlocks(Extent(z, c)) \subseteq Blocks
  BY <1>2, <1>6, ExtentInVolume
<1>8. Extent(s, x) \in Inside /\ Extent(z, c) \in Inside
  BY <1>7, Zenon DEF Inside
<1>9. s .. (s + x - 1) \cap z .. (z + c - 1) = {}
  BY <1>2
<1> QED
  BY <1>4, <1>5, <1>7, <1>8, <1>9 DEF Trees, s, x, z, c

\* While a transaction is open its bitmap has the blocks of every list.
LEMMA ListsMarked ==
    ASSUME IInv, open, NEW gv, GoodLists(gv), owned = HeldBy(gv, DOMAIN gv),
           NEW f \in DOMAIN gv, NEW i \in 1 .. Len(gv[f])
    PROVE  ExtentBlocks(gv[f][i]) \subseteq bitmap
<1>1. bitmap = Reserved \cup AllBlocks(owned)
  BY DEF IInv, BitmapExact
<1>2. PICK e : e = gv[f][i]
  OBVIOUS
<1>3. e \in ToSet(gv[f])
  <2>1. gv[f] \in Seq(Inside)
    BY DEF GoodLists
  <2>2. i \in DOMAIN gv[f]
    BY <2>1, InsideList
  <2> QED
    BY <2>2, <1>2 DEF ToSet
<1>4. CASE e \in First
  BY <1>1, <1>2, <1>4, FirstFacts DEF First
<1>5. CASE e \notin First
  <2>1. e \in owned
    BY <1>3, <1>5 DEF HeldBy
  <2>2. ExtentBlocks(e) \subseteq AllBlocks(owned)
    BY <2>1 DEF AllBlocks
  <2> QED
    BY <1>1, <1>2, <2>2
<1> QED
  BY <1>4, <1>5

\* One list becomes longer, or begins.
Longer(hv, gv, id, old, g) ==
    /\ DOMAIN hv = DOMAIN gv \cup {id}
    /\ \A f \in DOMAIN gv : f # id => hv[f] = gv[f]
    /\ hv[id] = old \o g
    /\ IF id \in DOMAIN gv THEN old = gv[id] ELSE old = <<>>

\* Then every run of the new lists is an old one, where it was, or a new one.
OldOrNew(hv, gv, id, old, g, f, i) ==
    \/ f \in DOMAIN gv /\ i \in 1 .. Len(gv[f]) /\ hv[f][i] = gv[f][i]
    \/ f = id /\ i - Len(old) \in 1 .. Len(g) /\ hv[f][i] = g[i - Len(old)]

\* What follows of lists of which one was made longer.
LEMMA LongerFacts ==
    ASSUME NEW gv, GoodLists(gv), NEW g \in Seq(Inside), NEW id, NEW old, NEW hv, Longer(hv, gv, id, old, g)
    PROVE  /\ old \in Seq(Inside) /\ Len(old) \in Nat /\ Len(g) \in Nat
           /\ hv[id] \in Seq(Inside) /\ Len(hv[id]) = Len(old) + Len(g)
           /\ \A i \in 1 .. Len(old) : hv[id][i] = old[i]
           /\ \A i \in 1 .. Len(g) : hv[id][Len(old) + i] = g[i]
           /\ \A f \in DOMAIN hv : hv[f] \in Seq(Inside)
           /\ \A f \in DOMAIN hv : \A i \in 1 .. Len(hv[f]) : OldOrNew(hv, gv, id, old, g, f, i)
           /\ \A f \in DOMAIN gv : /\ Len(gv[f]) <= Len(hv[f])
                                   /\ \A i \in 1 .. Len(gv[f]) : hv[f][i] = gv[f][i]
<1>1. \A f \in DOMAIN gv : gv[f] \in Seq(Inside) /\ Len(gv[f]) \in Nat
  BY DEF GoodLists
<1>2. <<>> \in Seq(Inside)
  OBVIOUS
<1>3. old \in Seq(Inside)
  BY <1>1, <1>2, Zenon DEF Longer
<1>4. PICK h : h = hv[id]
  OBVIOUS
<1>5. h = old \o g
  BY <1>4 DEF Longer
<1>6. /\ Len(old) \in Nat /\ Len(g) \in Nat
      /\ h \in Seq(Inside) /\ Len(h) = Len(old) + Len(g)
      /\ \A i \in 1 .. Len(old) : h[i] = old[i]
      /\ \A i \in 1 .. Len(g) : h[Len(old) + i] = g[i]
  BY <1>3, <1>5
<1>7. \A i \in 1 .. Len(h) : i \in 1 .. Len(old) \/ (i - Len(old) \in 1 .. Len(g) /\ h[i] = g[i - Len(old)])
  <2> SUFFICES ASSUME NEW i \in 1 .. Len(h), i \notin 1 .. Len(old)
               PROVE  i - Len(old) \in 1 .. Len(g) /\ h[i] = g[i - Len(old)]
    OBVIOUS
  <2>1. PICK k : k = i - Len(old)
    OBVIOUS
  <2>2. k \in 1 .. Len(g) /\ i = Len(old) + k
    BY <2>1, <1>6
  <2> QED
    BY <2>1, <2>2, <1>6
<1>8. \A f \in DOMAIN hv : f # id => f \in DOMAIN gv /\ hv[f] = gv[f]
  BY DEF Longer
<1>9. \A f \in DOMAIN hv : hv[f] \in Seq(Inside)
  BY <1>1, <1>4, <1>6, <1>8
<1>10. id \notin DOMAIN gv => Len(old) = 0
  BY DEF Longer
<1>11. id \in DOMAIN gv => old = gv[id]
  BY DEF Longer
<1>12. \A f \in DOMAIN hv : \A i \in 1 .. Len(hv[f]) : OldOrNew(hv, gv, id, old, g, f, i)
  <2> SUFFICES ASSUME NEW f \in DOMAIN hv, NEW i \in 1 .. Len(hv[f])
               PROVE  OldOrNew(hv, gv, id, old, g, f, i)
    OBVIOUS
  <2>1. CASE f # id
    BY <2>1, <1>8, Zenon DEF OldOrNew
  <2>2. CASE f = id
    <3>1. CASE i \in 1 .. Len(old)
      <4>1. id \in DOMAIN gv
        <5>1. \A j \in 1 .. 0 : FALSE
          OBVIOUS
        <5> QED
          BY <5>1, <3>1, <1>10
      <4> QED
        BY <2>2, <3>1, <4>1, <1>4, <1>6, <1>11, Zenon DEF OldOrNew
    <3>2. CASE i \notin 1 .. Len(old)
      BY <2>2, <3>2, <1>4, <1>7, Zenon DEF OldOrNew
    <3> QED
      BY <3>1, <3>2
  <2> QED
    BY <2>1, <2>2
<1>13. \A f \in DOMAIN gv : /\ Len(gv[f]) <= Len(hv[f])
                            /\ \A i \in 1 .. Len(gv[f]) : hv[f][i] = gv[f][i]
  <2> SUFFICES ASSUME NEW f \in DOMAIN gv
               PROVE  Len(gv[f]) <= Len(hv[f]) /\ \A i \in 1 .. Len(gv[f]) : hv[f][i] = gv[f][i]
    OBVIOUS
  <2>1. CASE f # id
    BY <2>1, <1>1 DEF Longer
  <2>2. CASE f = id
    BY <2>2, <1>4, <1>6, <1>11
  <2> QED
    BY <2>1, <2>2
<1> QED
  BY <1>3, <1>4, <1>6, <1>9, <1>12, <1>13

\* New runs miss all the lists, and what is held grows by them.
LEMMA ListsLonger ==
    ASSUME NEW gv, GoodLists(gv), NEW bm,
           \A f \in DOMAIN gv : \A i \in 1 .. Len(gv[f]) : ExtentBlocks(gv[f][i]) \subseteq bm,
           NEW g, NEW c, GivenRuns(g, bm, c), NEW id, NEW old, NEW hv, Longer(hv, gv, id, old, g)
    PROVE  GoodLists(hv) /\ HeldBy(hv, DOMAIN hv) = HeldBy(gv, DOMAIN gv) \cup ToSet(g)
<1>1. /\ g \in Seq(Inside) /\ ApartList(g)
      /\ \A i \in 1 .. Len(g) : ExtentBlocks(g[i]) \cap bm = {}
  BY DEF GivenRuns, Free
<1>2. /\ Len(old) \in Nat /\ Len(g) \in Nat
      /\ hv[id] \in Seq(Inside) /\ Len(hv[id]) = Len(old) + Len(g)
      /\ \A i \in 1 .. Len(g) : hv[id][Len(old) + i] = g[i]
      /\ \A f \in DOMAIN hv : hv[f] \in Seq(Inside)
      /\ \A f \in DOMAIN hv : \A i \in 1 .. Len(hv[f]) : OldOrNew(hv, gv, id, old, g, f, i)
      /\ \A f \in DOMAIN gv : /\ Len(gv[f]) <= Len(hv[f])
                              /\ \A i \in 1 .. Len(gv[f]) : hv[f][i] = gv[f][i]
  BY <1>1, LongerFacts
<1>3. Apart(hv)
  <2> SUFFICES ASSUME NEW f \in DOMAIN hv, NEW x \in DOMAIN hv,
                      NEW i \in 1 .. Len(hv[f]), NEW j \in 1 .. Len(hv[x]), ~(f = x /\ i = j)
               PROVE  ExtentBlocks(hv[f][i]) \cap ExtentBlocks(hv[x][j]) = {}
    BY DEF Apart
  <2>0. i \in Int /\ j \in Int
    OBVIOUS
  <2>1. OldOrNew(hv, gv, id, old, g, f, i) /\ OldOrNew(hv, gv, id, old, g, x, j)
    BY <1>2
  <2>2. CASE /\ f \in DOMAIN gv /\ i \in 1 .. Len(gv[f]) /\ hv[f][i] = gv[f][i]
             /\ x \in DOMAIN gv /\ j \in 1 .. Len(gv[x]) /\ hv[x][j] = gv[x][j]
    BY <2>2 DEF GoodLists, Apart
  <2>3. CASE /\ f \in DOMAIN gv /\ i \in 1 .. Len(gv[f]) /\ hv[f][i] = gv[f][i]
             /\ x = id /\ j - Len(old) \in 1 .. Len(g) /\ hv[x][j] = g[j - Len(old)]
    BY <2>3, <1>1
  <2>4. CASE /\ f = id /\ i - Len(old) \in 1 .. Len(g) /\ hv[f][i] = g[i - Len(old)]
             /\ x \in DOMAIN gv /\ j \in 1 .. Len(gv[x]) /\ hv[x][j] = gv[x][j]
    BY <2>4, <1>1
  <2>5. CASE /\ f = id /\ i - Len(old) \in 1 .. Len(g) /\ hv[f][i] = g[i - Len(old)]
             /\ x = id /\ j - Len(old) \in 1 .. Len(g) /\ hv[x][j] = g[j - Len(old)]
    <3>1. i - Len(old) # j - Len(old)
      BY <2>0, <2>5, <1>2
    <3> QED
      BY <2>5, <3>1, <1>1 DEF ApartList
  <2> QED
    BY <2>1, <2>2, <2>3, <2>4, <2>5, Zenon DEF OldOrNew
<1>4. /\ Trees \subseteq DOMAIN gv
      /\ \A t \in Trees : Len(gv[t]) >= 1 /\ gv[t][1] = FirstRun[t]
      /\ \A f \in DOMAIN gv : gv[f] \in Seq(Inside) /\ Len(gv[f]) \in Nat
  BY DEF GoodLists
<1>5. GoodLists(hv)
  <2>1. Trees \subseteq DOMAIN hv
    BY <1>4 DEF Longer
  <2>2. \A t \in Trees : Len(hv[t]) >= 1 /\ hv[t][1] = FirstRun[t]
    <3> SUFFICES ASSUME NEW t \in Trees PROVE Len(hv[t]) >= 1 /\ hv[t][1] = FirstRun[t]
      OBVIOUS
    <3>1. t \in DOMAIN gv /\ Len(gv[t]) \in Nat /\ Len(gv[t]) >= 1 /\ gv[t][1] = FirstRun[t]
      BY <1>4
    <3>2. t \in DOMAIN hv /\ Len(hv[t]) \in Nat
      BY <2>1, <1>2
    <3>3. 1 \in 1 .. Len(gv[t])
      BY <3>1
    <3> QED
      BY <3>1, <3>2, <3>3, <1>2
  <2> QED
    BY <2>1, <2>2, <1>2, <1>3 DEF GoodLists
<1>6. \A s \in Seq(Inside) : \A e : e \in ToSet(s) <=> \E i \in 1 .. Len(s) : s[i] = e
  BY InsideList DEF ToSet
<1>7. \A e \in ToSet(g) : e \notin First
  <2> SUFFICES ASSUME NEW e \in ToSet(g), e \in First PROVE FALSE
    OBVIOUS
  <2>1. PICK i \in 1 .. Len(g) : g[i] = e
    BY <1>1, <1>6
  <2>2. PICK t \in Trees : e = FirstRun[t]
    BY DEF First
  <2>3. 1 \in 1 .. Len(gv[t]) /\ t \in DOMAIN gv /\ gv[t][1] = e
    BY <2>2, <1>4
  <2>4. ExtentBlocks(e) \subseteq bm /\ ExtentBlocks(e) \cap bm = {}
    BY <2>1, <2>3, <1>1
  <2>5. e \in Inside
    BY <2>1, <1>1, InsideList
  <2> QED
    BY <2>4, <2>5, InsideFacts
<1>8. \A e : (\E f \in DOMAIN hv : e \in ToSet(hv[f])) <=> (\E f \in DOMAIN gv : e \in ToSet(gv[f])) \/ e \in ToSet(g)
  <2>1. ASSUME NEW e, NEW f \in DOMAIN hv, e \in ToSet(hv[f])
        PROVE  (\E x \in DOMAIN gv : e \in ToSet(gv[x])) \/ e \in ToSet(g)
    <3>1. PICK i \in 1 .. Len(hv[f]) : hv[f][i] = e
      BY <2>1, <1>2, <1>6
    <3>2. OldOrNew(hv, gv, id, old, g, f, i)
      BY <1>2
    <3>3. CASE f \in DOMAIN gv /\ i \in 1 .. Len(gv[f]) /\ hv[f][i] = gv[f][i]
      <4>1. gv[f] \in Seq(Inside)
        BY <3>3, <1>4
      <4>2. e \in ToSet(gv[f])
        <5>1. PICK s \in Seq(Inside) : s = gv[f]
          BY <4>1
        <5>2. i \in 1 .. Len(s) /\ s[i] = e
          BY <5>1, <3>1, <3>3
        <5> QED
          BY <5>1, <5>2, <1>6
      <4> QED
        BY <3>3, <4>2
    <3>4. CASE f = id /\ i - Len(old) \in 1 .. Len(g) /\ hv[f][i] = g[i - Len(old)]
      BY <3>1, <3>4, <1>1, <1>6, Zenon
    <3> QED
      BY <3>2, <3>3, <3>4, Zenon DEF OldOrNew
  <2>2. ASSUME NEW e, NEW f \in DOMAIN gv, e \in ToSet(gv[f])
        PROVE  \E x \in DOMAIN hv : e \in ToSet(hv[x])
    <3>0. gv[f] \in Seq(Inside)
      BY <1>4
    <3>1. PICK i \in 1 .. Len(gv[f]) : gv[f][i] = e
      <4>1. PICK s \in Seq(Inside) : s = gv[f]
        BY <3>0
      <4>2. \E i \in 1 .. Len(s) : s[i] = e
        BY <2>2, <4>1, <1>6
      <4> QED
        BY <4>1, <4>2
    <3>2. f \in DOMAIN hv
      BY DEF Longer
    <3>3. hv[f] \in Seq(Inside) /\ Len(hv[f]) \in Nat /\ Len(gv[f]) \in Nat /\ Len(gv[f]) <= Len(hv[f])
      BY <3>2, <1>2, <1>4
    <3>4. i \in 1 .. Len(hv[f]) /\ hv[f][i] = e
      BY <3>1, <3>3, <1>2
    <3> QED
      BY <3>2, <3>3, <3>4, <1>6
  <2>3. ASSUME NEW e, e \in ToSet(g)
        PROVE  \E x \in DOMAIN hv : e \in ToSet(hv[x])
    <3>1. PICK i \in 1 .. Len(g) : g[i] = e
      BY <2>3, <1>1, <1>6
    <3>2. Len(old) + i \in 1 .. Len(hv[id]) /\ hv[id][Len(old) + i] = e
      BY <3>1, <1>2
    <3>3. id \in DOMAIN hv
      BY DEF Longer
    <3> QED
      BY <3>2, <3>3, <1>2, <1>6
  <2> QED
    BY <2>1, <2>2, <2>3
<1>9. HeldBy(hv, DOMAIN hv) = HeldBy(gv, DOMAIN gv) \cup ToSet(g)
  <2>1. \A e : e \in HeldBy(hv, DOMAIN hv) <=> (\E f \in DOMAIN hv : e \in ToSet(hv[f])) /\ e \notin First
    BY DEF HeldBy
  <2>2. \A e : e \in HeldBy(gv, DOMAIN gv) <=> (\E f \in DOMAIN gv : e \in ToSet(gv[f])) /\ e \notin First
    BY DEF HeldBy
  <2>3. \A e : e \in HeldBy(hv, DOMAIN hv) <=> e \in HeldBy(gv, DOMAIN gv) \/ e \in ToSet(g)
    BY <2>1, <2>2, <1>7, <1>8, Zenon
  <2> QED
    BY <2>3
<1> QED
  BY <1>5, <1>9

-----------------------------------------------------------------------------
(* The data of a new file.                                                 *)

\* What a volume holds of a list stays when its bytes do.
LEMMA HoldsStays ==
    ASSUME NEW g, NEW id, NEW size, NEW st, NEW qt, Holds(st, g, id, size),
           \A i \in 1 .. Len(g) : \A x \in 0 .. g[i].count * BlockSize - 1 :
               qt[g[i].start * BlockSize + x] = st[g[i].start * BlockSize + x]
    PROVE  Holds(qt, g, id, size)
BY Zenon DEF Holds

\* What the new runs leave alone.
LeftAlone(qt, st, g) ==
    \A b \in Bytes : (\A i \in 1 .. Len(g) : b \div BlockSize \notin ExtentBlocks(g[i])) => qt[b] = st[b]

\* The bytes of a list are not touched by runs that miss its blocks.
LEMMA HoldsAside ==
    ASSUME NEW h \in Seq(Inside), NEW id, NEW size, NEW st, NEW qt, Holds(st, h, id, size), NEW bm,
           \A i \in 1 .. Len(h) : ExtentBlocks(h[i]) \subseteq bm,
           NEW g, NEW c, GivenRuns(g, bm, c), LeftAlone(qt, st, g)
    PROVE  Holds(qt, h, id, size)
<1> SUFFICES ASSUME NEW i \in 1 .. Len(h), NEW x \in 0 .. h[i].count * BlockSize - 1
             PROVE  qt[h[i].start * BlockSize + x] = st[h[i].start * BlockSize + x]
  BY HoldsStays
<1>1. PICK e : e = h[i]
  OBVIOUS
<1>2. e \in Inside
  BY <1>1, InsideList
<1>3. PICK b : b = e.start * BlockSize + x
  OBVIOUS
<1>4. b \in Bytes /\ b \div BlockSize \in ExtentBlocks(e)
  BY <1>1, <1>2, <1>3, BytesOfExtent
<1>5. \A k \in 1 .. Len(g) : ExtentBlocks(g[k]) \cap bm = {}
  BY DEF GivenRuns, Free
<1>6. ExtentBlocks(e) \subseteq bm
  BY <1>1
<1>7. \A k \in 1 .. Len(g) : b \div BlockSize \notin ExtentBlocks(g[k])
  BY <1>4, <1>5, <1>6
<1>8. qt[b] = st[b]
  BY <1>4, <1>7, Zenon DEF LeftAlone
<1> QED
  BY <1>1, <1>3, <1>8

\* An operation that has its blocks and has written them.
LEMMA ProvidesKeeps ==
    ASSUME FInv, At("alloc"), IInv', open' = open, saved' = saved, NEW g, NEW c \in Nat, GivenRuns(g, bitmap, c),
           owned' = owned \cup ToSet(g), Top.size <= c * BlockSize,
           Holds(store', g, Top.id, Top.size), LeftAlone(store', store, g),
           given' = With(given, Top.id, g), NEW todo, todo = CreateSteps(Top.id, g), Continue(todo),
           UNCHANGED <<desc, recs, extents, next, handle, edited, torn>>
    PROVE  FInv'
<1>1. /\ stack # <<>> /\ Len(stack) = 1 /\ Op = Top /\ Stage("alloc")
  BY Busy
<1>2. /\ IInv /\ torn = FALSE /\ open
      /\ Named /\ Described /\ Handled /\ Typed /\ Undoable /\ Nested /\ InProgress
  BY <1>1, Ongoing
<1>3. Starting
  BY <1>1 DEF Stage
<1>4. PICK id : id = Op.id
  OBVIOUS
<1>5. /\ id \in FirstFile .. (next - 1) /\ id \notin DOMAIN given /\ Op.size \in Nat /\ handle.id # id /\ ~edited
      /\ DOMAIN given = DOMAIN desc /\ owned = HeldBy(given, DOMAIN given)
      /\ \A f \in Live : InTree(recs, given, f)
  BY <1>3, <1>4 DEF Starting, Settled
<1>6. GoodLists(given) /\ Trees \subseteq DOMAIN desc /\ DOMAIN desc \subseteq DOMAIN given
  BY <1>2 DEF Named
<1>7. \A f \in DOMAIN given : \A i \in 1 .. Len(given[f]) : ExtentBlocks(given[f][i]) \subseteq bitmap
  BY <1>2, <1>5, <1>6, ListsMarked
<1>8. g \in Seq(Inside) /\ Counted(g) = c
  BY DEF GivenRuns
<1>9. IsWith(given', given, id, g)
  BY <1>1, <1>4, WithIs, Zenon
<1>10. /\ DOMAIN given' = DOMAIN given \cup {id} /\ given'[id] = g
       /\ \A f \in DOMAIN given : given'[f] = given[f]
  BY <1>5, <1>9 DEF IsWith
<1>11. GoodLists(given') /\ HeldBy(given', DOMAIN given') = owned'
  <2>1. PICK none : none = <<>>
    OBVIOUS
  <2>2. none \o g = g
    BY <2>1, <1>8
  <2>3. Longer(given', given, id, none, g)
    BY <2>1, <2>2, <1>5, <1>10, Zenon DEF Longer
  <2>4. PICK hv : hv = given'
    OBVIOUS
  <2>5. Longer(hv, given, id, none, g)
    BY <2>3, <2>4, Zenon
  <2>6. GoodLists(hv) /\ HeldBy(hv, DOMAIN hv) = HeldBy(given, DOMAIN given) \cup ToSet(g)
    BY <2>5, <1>6, <1>7, ListsLonger
  <2> QED
    BY <2>4, <2>6, <1>5
<1>12. /\ desc' = desc /\ recs' = recs /\ extents' = extents /\ next' = next /\ handle' = handle
       /\ edited' = edited /\ torn' = FALSE /\ open' /\ Live' = Live
  BY <1>2 DEF Live
<1>13. Named'
  BY <1>2, <1>5, <1>10, <1>11, <1>12 DEF Named
<1>14. \A f \in Live : f \in DOMAIN given /\ given'[f] = given[f] /\ f # id
  BY <1>5, <1>6, <1>10 DEF Live
<1>15. Described'
  <2> SUFFICES ASSUME NEW f \in Live
               PROVE  /\ desc[f] = Fork(desc[f].size, Counted(given[f]), InlinePart(given[f]))
                      /\ Written(store', given[f], f, desc[f].size)
    BY <1>12, <1>14, Zenon DEF Described
  <2>1. /\ desc[f] = Fork(desc[f].size, Counted(given[f]), InlinePart(given[f]))
        /\ Written(store, given[f], f, desc[f].size)
    BY <1>2 DEF Described
  <2>2. f \in DOMAIN given
    BY <1>14
  <2>3. PICK h, st, qt : h = given[f] /\ st = store /\ qt = store'
    OBVIOUS
  <2>4. h \in Seq(Inside) /\ \A i \in 1 .. Len(h) : ExtentBlocks(h[i]) \subseteq bitmap
    BY <2>2, <2>3, <1>6, <1>7 DEF GoodLists
  <2>5. Holds(st, h, f, desc[f].size) /\ LeftAlone(qt, st, g)
    BY <2>1, <2>3, Zenon DEF Written
  <2>6. Holds(qt, h, f, desc[f].size)
    BY <2>4, <2>5, HoldsAside
  <2> QED
    BY <2>1, <2>3, <2>6, Zenon DEF Written
<1>16. Handled'
  BY <1>2, <1>12, <1>14 DEF Handled
<1>17. Nested' /\ Op'.id = id /\ Op'.size = Op.size /\ Op'.todo = todo /\ Len(stack') >= 1 /\ Len(stack') = 1
  <2>1. ~(Len(stack) > 1)
    BY <1>1
  <2>2. Len(stack') = 1 /\ Len(stack') >= 1
    <3>1. Len(stack') = 1
      BY <1>1, <1>2, ContinueFacts
    <3> QED
      BY <3>1
  <2>3. Nested' /\ Op'.id = Op.id /\ Op'.size = Op.size /\ Op'.todo = todo
    BY <2>1, <1>1, <1>2, ContinueNested
  <2> QED
    BY <2>2, <2>3, <1>4
<1>18. Typed'
  BY <1>1, <1>2, <1>10, <1>12 DEF Typed
<1>19. Undoable'
  <2>1. HeldBy(given', DOMAIN desc) = HeldBy(given, DOMAIN desc)
    BY <1>6, <1>10 DEF HeldBy
  <2> QED
    BY <2>1, <1>2, <1>12 DEF Undoable
<1>20. Filing(0)'
  <2>1. id \in DOMAIN given' /\ id \notin DOMAIN desc' /\ DOMAIN given' = DOMAIN desc' \cup {id}
    BY <1>5, <1>10, <1>12
  <2>2. 0 \in 0 .. Groups(given'[id])
    <3>1. Groups(g) \in Nat
      BY <1>8, GroupPlaces
    <3>2. 0 \in 0 .. Groups(g)
      BY <3>1
    <3> QED
      BY <3>2, <1>10
  <2>3. Op'.todo = From(CreateSteps(id, given'[id]), 0)
    <3>1. IsSeq(insertExtentRecords(id, g))
      BY <1>8, RecordFacts
    <3>2. IsSeq(Rest(g))
      BY FewAhead DEF Rest
    <3>3. IsSeq(CreateSteps(id, g))
      BY <3>1, <3>2, SeqJoined, Zenon DEF CreateSteps, Joined
    <3>4. From(CreateSteps(id, g), 0) = CreateSteps(id, g)
      BY <3>3, FromEnds
    <3> QED
      BY <3>4, <1>1, <1>4, <1>10, <1>17, Zenon
  <2>4. Recorded(recs', id, given'[id], 0, 0)
    <3>1. \A k \in DOMAIN recs : k[1] # id
      BY <1>2, <1>5 DEF Typed
    <3>2. \A i \in 1 .. 0 : FALSE
      OBVIOUS
    <3> QED
      BY <3>1, <3>2, <1>12, Zenon DEF Recorded
  <2>5. Written(store', given'[id], id, Op'.size)
    BY <1>1, <1>4, <1>5, <1>8, <1>10, <1>17 DEF Written
  <2>6. \A f \in Live' : InTree(recs', given', f)
    BY <1>5, <1>12, <1>14 DEF InTree
  <2>7. handle'.id # id /\ owned' = HeldBy(given', DOMAIN given')
    BY <1>5, <1>11, <1>12
  <2>8. PICK d : d = Op'.id
    OBVIOUS
  <2>9. d = id
    BY <2>8, <1>17
  <2> QED
    BY <2>1, <2>2, <2>3, <2>4, <2>5, <2>6, <2>7, <2>9, <1>17, Zenon DEF Filing
<1> QED
  <2>1. InProgress'
    BY <1>20 DEF InProgress
  <2> QED
    BY <2>1, <1>12, <1>13, <1>15, <1>16, <1>17, <1>18, <1>19, Kept

\* An allocation that finds room is a step of the allocator.
LEMMA Allocates ==
    ASSUME IInv, NEW c \in Nat \ {0}, Allocate(c)
    PROVE  /\ IInv' /\ open' = open /\ saved' = saved /\ owned' = owned \cup allocFragments(bitmap, c)
           /\ CanAlloc(bitmap, c) /\ bitmap \in SUBSET Blocks /\ Next
<1>1. /\ CanAlloc(bitmap, c) /\ open' = open /\ saved' = saved /\ owned' = owned \cup allocFragments(bitmap, c)
  BY DEF Allocate
<1>2. bitmap \in SUBSET Blocks
  BY DEF IInv, TypeOK
<1>3. freeCount(bitmap) \in 0 .. TotalBlocks
  BY <1>2, FreeCountBound
<1>4. c \in 1 .. TotalBlocks
  BY <1>1, <1>3, TotalBlocksAssumption DEF CanAlloc, freeCount
<1>5. Next
  BY <1>4 DEF Next
<1> QED
  BY <1>1, <1>2, <1>5, StepExact

\* AllocData.
LEMMA AllocDataKeeps ==
    ASSUME FInv, AllocData
    PROVE  FInv'
<1>1. PICK g : g = InOrder(allocFragments(bitmap, DataBlocks))
  OBVIOUS
<1>2. PICK todo : todo = CreateSteps(Top.id, g)
  OBVIOUS
<1>3. /\ At("alloc") /\ DataBlocks > 0 /\ Allocate(DataBlocks)
      /\ store' = writeForkData(g, Top.id, Top.size) /\ given' = With(given, Top.id, g) /\ Continue(todo)
      /\ UNCHANGED <<desc, recs, extents, next, handle, edited, torn>>
  BY <1>1, <1>2, Zenon DEF AllocData, CreateSteps
<1>4. IInv /\ Op = Top /\ Stage("alloc")
  BY <1>3, Busy DEF FInv
<1>5. Starting
  BY <1>4 DEF Stage
<1>6. Top.size \in Nat
  BY <1>4, <1>5 DEF Starting
<1>7. PICK c : c = DataBlocks
  OBVIOUS
<1>8. c \in Nat /\ Top.size <= c * BlockSize
  BY <1>6, <1>7, CeilDivTight, MkfsAssumption DEF DataBlocks
<1>9. c \in Nat \ {0}
  BY <1>3, <1>7, <1>8
<1>10. /\ IInv' /\ open' = open /\ saved' = saved /\ owned' = owned \cup allocFragments(bitmap, c)
       /\ CanAlloc(bitmap, c) /\ bitmap \in SUBSET Blocks
  BY <1>3, <1>4, <1>7, <1>9, Allocates
<1>11. GivenRuns(g, bitmap, c)
  BY <1>1, <1>7, <1>8, <1>10, AllocatedList, Zenon
<1>12. g \in Seq(Inside) /\ ApartList(g) /\ ToSet(g) = allocFragments(bitmap, c)
  BY <1>11 DEF GivenRuns
<1>13. Holds(store', g, Top.id, Top.size)
  <2> SUFFICES ASSUME NEW i \in 1 .. Len(g), NEW x \in 0 .. g[i].count * BlockSize - 1,
                      BlocksUpTo(g)[i - 1] * BlockSize + x < Top.size
               PROVE  writeForkData(g, Top.id, Top.size)[g[i].start * BlockSize + x]
                        = Byte(Top.id, BlocksUpTo(g)[i - 1] * BlockSize + x)
    BY <1>3, Zenon DEF Holds
  <2> QED
    BY <1>6, <1>12, WriteHits
<1>14. LeftAlone(store', store, g)
  <2>1. DOMAIN g = 1 .. Len(g)
    BY <1>12, InsideList
  <2> SUFFICES ASSUME NEW b \in Bytes, \A i \in 1 .. Len(g) : b \div BlockSize \notin ExtentBlocks(g[i])
               PROVE  writeForkData(g, Top.id, Top.size)[b] = store[b]
    BY <1>3, Zenon DEF LeftAlone
  <2>2. \A i \in DOMAIN g : b \div BlockSize \notin ExtentBlocks(g[i])
    BY <2>1
  <2> QED
    BY <2>2, WriteMisses
<1> QED
  BY <1>2, <1>3, <1>8, <1>10, <1>11, <1>12, <1>13, <1>14, ProvidesKeeps

\* AllocNothing.
LEMMA AllocNothingKeeps ==
    ASSUME FInv, AllocNothing
    PROVE  FInv'
<1>1. PICK g : g = <<>>
  OBVIOUS
<1>2. PICK todo : todo = Rest(g)
  OBVIOUS
<1>3. /\ At("alloc") /\ DataBlocks = 0 /\ given' = With(given, Top.id, g) /\ Continue(todo)
      /\ UNCHANGED <<vars, desc, recs, store, extents, next, handle, edited, torn>>
  BY <1>1, <1>2, Zenon DEF AllocNothing
<1>4. IInv /\ Op = Top /\ Stage("alloc")
  BY <1>3, Busy DEF FInv
<1>5. Starting
  BY <1>4 DEF Stage
<1>6. Top.size \in Nat
  BY <1>4, <1>5 DEF Starting
<1>7. Top.size <= 0 * BlockSize
  BY <1>3, <1>6, CeilDivTight, MkfsAssumption DEF DataBlocks
<1>8. g \in Seq(Inside) /\ g \in Seq(Extents) /\ Len(g) = 0
  BY <1>1
<1>9. \A i \in 1 .. 0 : FALSE
  OBVIOUS
<1>10. ToSet(g) = {} /\ allocFragments(bitmap, 0) = {}
  BY <1>8, <1>9, InsideList DEF ToSet, allocFragments
<1>11. Counted(g) = 0
  BY <1>8, BlocksStep DEF Counted
<1>12. GivenRuns(g, bitmap, 0)
  BY <1>8, <1>9, <1>10, <1>11 DEF GivenRuns, ApartList
<1>13. Holds(store', g, Top.id, Top.size)
  BY <1>8, <1>9, Zenon DEF Holds
<1>14. LeftAlone(store', store, g)
  BY <1>3 DEF LeftAlone
<1>15. todo = CreateSteps(Top.id, g)
  <2>1. PICK r : r = insertExtentRecords(Top.id, g)
    OBVIOUS
  <2>2. Groups(g) = 0
    <3>1. Groups(g) = 0 <=> Len(g) <= InlineExtents
      BY <1>8, GroupPlaces
    <3> QED
      BY <3>1, <1>8, ForksAssumption
  <2>3. IsSeq(r) /\ Len(r) = 0
    BY <2>1, <2>2, <1>8, RecordFacts
  <2>4. r = <<>>
    BY <2>3, SeqFacts
  <2>5. IsSeq(todo)
    BY <1>2, FewAhead DEF Rest
  <2>6. <<>> \o todo = todo
    BY <2>5 DEF IsSeq
  <2> QED
    BY <2>1, <2>4, <2>6, <1>2, Zenon DEF CreateSteps
<1>16. IInv' /\ open' = open /\ saved' = saved /\ owned' = owned
  BY <1>3, <1>4, StepExact DEF vars
<1>17. owned' = owned \cup ToSet(g)
  BY <1>10, <1>16
<1> QED
  BY <1>3, <1>7, <1>12, <1>13, <1>14, <1>15, <1>16, <1>17, ProvidesKeeps

-----------------------------------------------------------------------------
(* The growth of a tree's fork.                                            *)

\* A call that waits for its tree to grow.
Mark(fr, y, z, w) == [fr EXCEPT !.grown = y, !.low = z, !.leaf = w]

\* Marking a frame leaves its other fields.
LEMMA FrameMarked ==
    ASSUME NEW a, NEW b, NEW c, NEW d, NEW e, NEW l, NEW y, NEW z, NEW w,
           NEW fr, Consists(fr, a, b, c, d, e, l)
    PROVE  Consists(Mark(fr, y, z, w), a, b, c, y, z, w)
<1>1. fr = [id |-> a, size |-> b, todo |-> c, grown |-> d, low |-> e, leaf |-> l]
  BY DEF Consists
<1>2. PICK h : h = [fr EXCEPT !.grown = y]
  OBVIOUS
<1>3. h = [id |-> a, size |-> b, todo |-> c, grown |-> y, low |-> e, leaf |-> l]
  BY <1>1, <1>2
<1>4. PICK i : i = [h EXCEPT !.low = z]
  OBVIOUS
<1>5. i = [id |-> a, size |-> b, todo |-> c, grown |-> y, low |-> z, leaf |-> l]
  BY <1>3, <1>4
<1>6. [i EXCEPT !.leaf = w] = [id |-> a, size |-> b, todo |-> c, grown |-> y, low |-> z, leaf |-> w]
  BY <1>5
<1> QED
  BY <1>2, <1>4, <1>6, Zenon DEF Mark, Consists

\* Its frame.
Waits(top, fr, low, leaf) ==
    /\ IsFrame(top) /\ top.id = fr.id /\ top.size = fr.size /\ top.todo = fr.todo
    /\ top.grown = TRUE /\ top.low = low /\ top.leaf = leaf

\* The frame of a call that growFork marks waits.
LEMMA Waiting ==
    ASSUME NEW fr, IsFrame(fr), NEW low, NEW leaf
    PROVE  Waits(Mark(fr, TRUE, low, leaf), fr, low, leaf)
<1>1. PICK top : top = Mark(fr, TRUE, low, leaf)
  OBVIOUS
<1>2. Consists(fr, fr.id, fr.size, fr.todo, fr.grown, fr.low, fr.leaf)
  BY Zenon DEF IsFrame, Consists
<1>3. Consists(top, fr.id, fr.size, fr.todo, TRUE, low, leaf)
  BY <1>1, <1>2, FrameMarked, Zenon
<1>4. PICK a, b, c : a = fr.id /\ b = fr.size /\ c = fr.todo
  OBVIOUS
<1>5. top = [id |-> a, size |-> b, todo |-> c, grown |-> TRUE, low |-> low, leaf |-> leaf]
  BY <1>3, <1>4, Zenon DEF Consists
<1>6. top.id = a /\ top.size = b /\ top.todo = c /\ top.grown = TRUE /\ top.low = low /\ top.leaf = leaf
  BY <1>5
<1>7. IsFrame(top)
  BY <1>5, <1>6, Zenon DEF IsFrame
<1> QED
  BY <1>1, <1>4, <1>6, <1>7, Zenon DEF Waits

\* A new call before the one that waits.
Pushed(q, s, fr, top) ==
    /\ IsSeq(q) /\ q # <<>> /\ Len(q) = Len(s) + 1 /\ q[1] = fr /\ q[2] = top
    /\ \A i \in 2 .. Len(s) : q[i + 1] = s[i]

\* What growFork makes of the stack.
LEMMA PushedIs ==
    ASSUME NEW s, IsSeq(s), s # <<>>, NEW fr, NEW top, NEW q, q = <<fr, top>> \o Tail(s)
    PROVE  Pushed(q, s, fr, top)
<1>1. PICK p, tl : p = <<fr, top>> /\ tl = Tail(s)
  OBVIOUS
<1>2. IsSeq(p) /\ Len(p) = 2 /\ p[1] = fr /\ p[2] = top
  BY <1>1, SeqShort
<1>3. PICK l \in Nat : l = Len(s)
  BY SeqFacts
<1>4. l >= 1 /\ IsSeq(tl) /\ Len(tl) = l - 1 /\ \A i \in 1 .. l - 1 : tl[i] = s[i + 1]
  BY <1>1, <1>3, SeqParts, Zenon
<1>5. q = p \o tl
  BY <1>1
<1>6. Joined(p, tl, q)
  BY <1>2, <1>4, <1>5, SeqJoined, Zenon
<1>7. /\ IsSeq(q) /\ Len(q) = 2 + (l - 1)
      /\ \A i \in 1 .. 2 : q[i] = p[i]
      /\ \A i \in 1 .. l - 1 : q[2 + i] = tl[i]
  BY <1>2, <1>4, <1>6, Zenon DEF Joined
<1>8. Len(q) = l + 1 /\ q[1] = fr /\ q[2] = top
  BY <1>2, <1>4, <1>7
<1>9. q # <<>>
  BY <1>4, <1>7, <1>8, SeqFacts
<1>10. \A i \in 2 .. l : q[i + 1] = s[i]
  <2> SUFFICES ASSUME NEW i \in 2 .. l PROVE q[i + 1] = s[i]
    OBVIOUS
  <2>1. PICK k : k = i - 1
    OBVIOUS
  <2>2. k \in 1 .. l - 1 /\ 2 + k = i + 1 /\ k + 1 = i
    BY <2>1
  <2> QED
    BY <2>2, <1>4, <1>7
<1> QED
  BY <1>3, <1>7, <1>8, <1>9, <1>10, Zenon DEF Pushed

\* A call that serves a tree may be pushed: the calls stay nested, and the operation is the same.
LEMMA Pushes ==
    ASSUME Nested, stack # <<>>, NEW fr, IsFrame(fr), LeafOK(fr.leaf), Serves(fr),
           NEW top, NEW low, NEW leaf, Waits(top, Top, low, leaf), LeafOK(leaf),
           stack' = <<fr, top>> \o Tail(stack)
    PROVE  /\ Nested' /\ SameOp /\ Pushed(stack', stack, fr, top)
<1>1. /\ Len(stack) \in Nat /\ Len(stack) >= 1 /\ Top = stack[1]
      /\ Len(stack) = 1 => Op = Top
      /\ Len(stack) > 1 => Serves(Top)
  BY Ends
<1>2. Pushed(stack', stack, fr, top)
  <2>1. IsSeq(stack)
    BY DEF Nested
  <2>2. PICK q : q = stack'
    OBVIOUS
  <2>3. q = <<fr, top>> \o Tail(stack)
    BY <2>2
  <2>4. Pushed(q, stack, fr, top)
    BY <2>1, <2>3, PushedIs, Zenon
  <2> QED
    BY <2>2, <2>4, Zenon
<1>3. PICK l \in Nat : l = Len(stack)
  BY <1>1
<1>4. /\ IsSeq(stack') /\ Len(stack') = l + 1 /\ stack'[1] = fr /\ stack'[2] = top
      /\ \A i \in 2 .. l : stack'[i + 1] = stack[i]
  BY <1>2, <1>3, Zenon DEF Pushed
<1>5. \A i \in 1 .. l + 1 : i = 1 \/ i = 2 \/ (i - 1 \in 2 .. l /\ i = (i - 1) + 1)
  BY <1>1, <1>3
<1>6. \A i \in 1 .. l : IsFrame(stack[i]) /\ LeafOK(stack[i].leaf)
  BY <1>3 DEF Nested
<1>7. \A i \in 1 .. l + 1 : IsFrame(stack'[i]) /\ LeafOK(stack'[i].leaf)
  <2> SUFFICES ASSUME NEW i \in 1 .. l + 1 PROVE IsFrame(stack'[i]) /\ LeafOK(stack'[i].leaf)
    OBVIOUS
  <2>1. CASE i = 1
    BY <2>1, <1>4
  <2>2. CASE i = 2
    BY <2>2, <1>4 DEF Waits
  <2>3. ASSUME NEW k, k = i - 1, k \in 2 .. l, i = k + 1
        PROVE  IsFrame(stack'[i]) /\ LeafOK(stack'[i].leaf)
    <3>1. stack'[i] = stack[k] /\ k \in 1 .. l
      BY <2>3, <1>4
    <3> QED
      BY <3>1, <1>6
  <2> QED
    BY <2>1, <2>2, <2>3, <1>5
<1>8. \A i \in 1 .. l - 1 : Serves(stack[i])
  BY <1>3 DEF Nested
<1>9. \A i \in 1 .. (l + 1) - 1 : Serves(stack'[i])
  <2> SUFFICES ASSUME NEW i \in 1 .. l PROVE Serves(stack'[i])
    BY <1>3
  <2>1. CASE i = 1
    BY <2>1, <1>4
  <2>2. CASE i = 2
    <3>1. l > 1
      BY <2>2
    <3>2. Serves(Top)
      BY <3>1, <1>1, <1>3
    <3>3. Serves(top)
      BY <3>2, Zenon DEF Serves, Waits
    <3> QED
      BY <3>3, <2>2, <1>4
  <2>3. CASE i # 1 /\ i # 2
    <3>1. PICK k : k = i - 1
      OBVIOUS
    <3>2. k \in 2 .. l /\ i = k + 1 /\ k \in 1 .. l - 1
      BY <3>1, <2>3
    <3>3. stack'[i] = stack[k]
      BY <3>2, <1>4
    <3> QED
      BY <3>2, <3>3, <1>8
  <2> QED
    BY <2>1, <2>2, <2>3
<1>10. Nested'
  BY <1>4, <1>7, <1>9 DEF Nested
<1>11. SameOp
  <2>1. Len(stack') >= 1 /\ Op' = stack'[l + 1]
    BY <1>4 DEF Op
  <2>2. CASE l = 1
    <3>1. Op' = top /\ Op = Top
      BY <2>1, <2>2, <1>1, <1>3, <1>4
    <3> QED
      BY <3>1, <2>1 DEF SameOp, Waits
  <2>3. CASE l # 1
    <3>1. l \in 2 .. l
      BY <2>3, <1>1, <1>3
    <3>2. Op' = Op
      BY <3>1, <2>1, <1>3, <1>4 DEF Op
    <3> QED
      BY <3>2, <2>1 DEF SameOp
  <2> QED
    BY <2>2, <2>3
<1> QED
  BY <1>2, <1>10, <1>11

\* The records of a tree's extents are a call that serves.
LEMMA RecordsServe ==
    ASSUME NEW t \in Trees, NEW g \in Seq(Inside), NEW fr, NEW todo, todo = insertExtentRecords(t, g), IsNew(fr, t, 0, todo)
    PROVE  Serves(fr)
<1>1. IsSeq(todo) /\ Len(todo) = Groups(g) /\ Groups(g) \in Nat
  BY RecordFacts
<1>2. fr.id = t /\ fr.todo = todo
  BY DEF IsNew
<1>3. \A i \in 1 .. Groups(g) : /\ todo[i].do = "put"
                                /\ todo[i].key = <<t, BlocksUpTo(g)[i * InlineExtents]>>
                                /\ todo[i].ext = Group(g, i)
  BY RecordFacts
<1>4. \A i \in 1 .. Groups(g) : BlocksUpTo(g)[i * InlineExtents] \in Nat
  BY KeysAscend
<1>5. \A i \in 1 .. Groups(g) : Group(g, i) \in Seq(Inside)
  BY GroupFacts
<1>6. \A i \in 1 .. Len(todo) : /\ todo[i].do = "put"
                                /\ \E b \in Nat : todo[i].key = <<t, b>>
                                /\ todo[i].ext \in Seq(Inside)
  <2> SUFFICES ASSUME NEW i \in 1 .. Groups(g)
               PROVE  /\ todo[i].do = "put"
                      /\ \E b \in Nat : todo[i].key = <<t, b>>
                      /\ todo[i].ext \in Seq(Inside)
    BY <1>1
  <2> QED
    BY <1>3, <1>4, <1>5, Zenon
<1> QED
  BY <1>1, <1>2, <1>6, Zenon DEF Serves

\* What growFork does, piece by piece.
Grows(t, low, g, all, fr, top, leaf) ==
    /\ stack # <<>> /\ Top.todo # <<>> /\ Inserting(t) /\ t \in Trees
    /\ IInv' /\ open' = open /\ saved' = saved /\ owned' = owned \cup ToSet(g) /\ Next
    /\ GivenRuns(g, bitmap, GrowBlocks)
    /\ all = extents[t] \o g
    /\ leaf = (IF low THEN [k \in {k \in DOMAIN recs : k[1] = ExtentsFile} |-> recs[k]] ELSE <<>>)
    /\ IsNew(fr, t, 0, insertExtentRecords(t, all))
    /\ Waits(top, Top, low, leaf)
    /\ SelfSpill \/ t = CatalogFile \/ Len(all) <= InlineExtents
    /\ extents' = [extents EXCEPT ![t] = all]
    /\ desc' = [desc EXCEPT ![t] = Fork((desc[t].total + GrowBlocks) * BlockSize, desc[t].total + GrowBlocks, InlinePart(all))]
    /\ given' = [given EXCEPT ![t] = @ \o g]
    /\ stack' = <<fr, top>> \o Tail(stack)
    /\ edited' = TRUE
    /\ UNCHANGED <<recs, store, next, handle, torn>>

\* growFork, its parts named.
LEMMA GrowsIs ==
    ASSUME FInv, NEW t \in Trees, NEW low, growFork(t, low)
    PROVE  \E g, all, fr, top, leaf : Grows(t, low, g, all, fr, top, leaf)
<1>1. PICK g : g = InOrder(allocFragments(bitmap, GrowBlocks))
  OBVIOUS
<1>2. PICK all : all = extents[t] \o g
  OBVIOUS
<1>3. PICK leaf : leaf = (IF low THEN [k \in {k \in DOMAIN recs : k[1] = ExtentsFile} |-> recs[k]] ELSE <<>>)
  OBVIOUS
<1>4. PICK todo : todo = insertExtentRecords(t, all)
  OBVIOUS
<1>5. PICK fr : fr = Frame(t, 0, todo)
  OBVIOUS
<1>6. PICK top : top = Mark(Top, TRUE, low, leaf)
  OBVIOUS
<1>7. /\ NeedsNode(t) /\ Allocate(GrowBlocks)
      /\ SelfSpill \/ t = CatalogFile \/ Len(all) <= InlineExtents
      /\ extents' = [extents EXCEPT ![t] = all]
      /\ desc' = [desc EXCEPT ![t] = Fork((desc[t].total + GrowBlocks) * BlockSize, desc[t].total + GrowBlocks, InlinePart(all))]
      /\ given' = [given EXCEPT ![t] = @ \o g]
      /\ stack' = <<fr, top>> \o Tail(stack)
      /\ edited' = TRUE
      /\ UNCHANGED <<recs, store, next, handle, torn>>
  BY <1>1, <1>2, <1>3, <1>4, <1>5, <1>6, Zenon DEF growFork, Mark
<1>8. IInv
  BY DEF FInv
<1>9. /\ IInv' /\ open' = open /\ saved' = saved /\ owned' = owned \cup allocFragments(bitmap, GrowBlocks)
      /\ CanAlloc(bitmap, GrowBlocks) /\ bitmap \in SUBSET Blocks /\ Next
  BY <1>7, <1>8, Allocates, ForksAssumption
<1>10. GivenRuns(g, bitmap, GrowBlocks)
  BY <1>1, <1>9, AllocatedList, ForksAssumption
<1>11. ToSet(g) = allocFragments(bitmap, GrowBlocks)
  BY <1>10 DEF GivenRuns
<1>12. stack # <<>> /\ Top.todo # <<>> /\ Inserting(t)
  BY <1>7 DEF NeedsNode, Inserting, At
<1>13. IsFrame(Top)
  BY <1>12, Ongoing, Ends
<1>14. IsNew(fr, t, 0, todo)
  BY <1>5, FrameIs, Zenon
<1>15. Waits(top, Top, low, leaf)
  BY <1>6, <1>13, Waiting, Zenon
<1>16. Grows(t, low, g, all, fr, top, leaf)
  BY <1>2, <1>3, <1>4, <1>7, <1>9, <1>10, <1>11, <1>12, <1>14, <1>15, Zenon DEF Grows
<1> QED
  BY <1>16

\* The records that a leaf held.
LEMMA LeafTyped ==
    ASSUME Keyed(recs), NEW low, NEW leaf,
           leaf = (IF low THEN [k \in {k \in DOMAIN recs : k[1] = ExtentsFile} |-> recs[k]] ELSE <<>>)
    PROVE  LeafOK(leaf)
<1>1. CASE low
  <2>1. PICK mine : mine = {k \in DOMAIN recs : k[1] = ExtentsFile}
    OBVIOUS
  <2>2. leaf = [k \in mine |-> recs[k]]
    BY <1>1, <2>1, Zenon
  <2>3. DOMAIN leaf = mine /\ \A k \in mine : leaf[k] = recs[k]
    BY <2>2
  <2>4. mine \subseteq DOMAIN recs /\ \A k \in mine : k[1] = ExtentsFile
    BY <2>1
  <2>5. IsFiniteSet(mine)
    BY <2>4, FS_Subset DEF Keyed
  <2> QED
    BY <2>3, <2>4, <2>5, Zenon DEF LeafOK, Keyed
<1>2. CASE ~low
  BY <1>2, NoLeaf
<1> QED
  BY <1>1, <1>2

\* Trees grow while a file is being created.
LEMMA GrowsInCreation ==
    ASSUME FInv, stack # <<>>, Top.todo # <<>>, NEW t \in Trees, Inserting(t)
    PROVE  (\E j \in Nat : Filing(j)) \/ Closing
<1>1. Named /\ Nested /\ InProgress
  BY Ongoing
<1>2. Len(stack) \in Nat /\ Len(stack) >= 1 /\ (Len(stack) = 1 => Op = Top)
  BY <1>1, Ends
<1>3. Head(Top.todo).do \in {"put", "record", "thread"}
  BY DEF Inserting, At, Step
<1>4. Len(stack) > 1 \/ Head(Op.todo).do \in {"put", "record", "thread"}
  <2>1. \A n \in Nat : n >= 1 => n = 1 \/ n > 1
    OBVIOUS
  <2> QED
    BY <2>1, <1>2, <1>3
<1> QED
  BY <1>1, <1>4, ServesCreation

\* What growth does to the lists.
LEMMA GrowsLists ==
    ASSUME FInv, NEW t, NEW low, NEW g, NEW all, NEW fr, NEW top, NEW leaf, Grows(t, low, g, all, fr, top, leaf)
    PROVE  /\ GoodLists(given') /\ owned' = HeldBy(given', DOMAIN given') /\ DOMAIN given' = DOMAIN given
           /\ given'[t] = given[t] \o g /\ \A f \in DOMAIN given : f # t => given'[f] = given[f]
           /\ all \in Seq(Inside) /\ g \in Seq(Inside)
           /\ DOMAIN extents' = Trees /\ extents'[t] = all /\ \A u \in Trees : u # t => extents'[u] = extents[u]
           /\ DOMAIN desc' = DOMAIN desc /\ \A f \in DOMAIN desc : f # t => desc'[f] = desc[f]
           /\ desc'[t] = Fork((desc[t].total + GrowBlocks) * BlockSize, desc[t].total + GrowBlocks, InlinePart(all))
           /\ t \in DOMAIN desc
<1>1. /\ stack # <<>> /\ Top.todo # <<>> /\ Inserting(t) /\ t \in Trees
      /\ GivenRuns(g, bitmap, GrowBlocks) /\ all = extents[t] \o g /\ owned' = owned \cup ToSet(g)
      /\ extents' = [extents EXCEPT ![t] = all]
      /\ desc' = [desc EXCEPT ![t] = Fork((desc[t].total + GrowBlocks) * BlockSize, desc[t].total + GrowBlocks, InlinePart(all))]
      /\ given' = [given EXCEPT ![t] = @ \o g]
  BY Zenon DEF Grows
<1>2. IInv /\ open /\ Named /\ Typed
  BY <1>1, Ongoing
<1>3. owned = HeldBy(given, DOMAIN given)
  BY <1>1, GrowsInCreation, CreationOwns
<1>4. GoodLists(given) /\ t \in DOMAIN desc /\ t \in DOMAIN given
  BY <1>1, <1>2 DEF Named
<1>5. \A f \in DOMAIN given : \A i \in 1 .. Len(given[f]) : ExtentBlocks(given[f][i]) \subseteq bitmap
  BY <1>2, <1>3, <1>4, ListsMarked
<1>6. PICK x : x = given[t] \o g
  OBVIOUS
<1>7. given' = [given EXCEPT ![t] = x]
  BY <1>1, <1>6, Zenon
<1>8. DOMAIN given' = DOMAIN given /\ given'[t] = x /\ \A f \in DOMAIN given : f # t => given'[f] = given[f]
  BY <1>4, <1>7
<1>9. PICK hv : hv = given'
  OBVIOUS
<1>10. Longer(hv, given, t, given[t], g)
  <2>1. DOMAIN given \cup {t} = DOMAIN given
    BY <1>4
  <2> QED
    BY <2>1, <1>4, <1>6, <1>8, <1>9, Zenon DEF Longer
<1>11. GoodLists(hv) /\ HeldBy(hv, DOMAIN hv) = HeldBy(given, DOMAIN given) \cup ToSet(g)
  BY <1>1, <1>4, <1>5, <1>10, ListsLonger
<1>12. g \in Seq(Inside) /\ extents[t] \in Seq(Inside) /\ DOMAIN extents = Trees
  BY <1>1, <1>2 DEF GivenRuns, Typed
<1>13. all \in Seq(Inside)
  BY <1>1, <1>12
<1>14. DOMAIN extents' = Trees /\ extents'[t] = all /\ \A u \in Trees : u # t => extents'[u] = extents[u]
  BY <1>1, <1>12
<1>15. PICK d : d = Fork((desc[t].total + GrowBlocks) * BlockSize, desc[t].total + GrowBlocks, InlinePart(all))
  OBVIOUS
<1>16. desc' = [desc EXCEPT ![t] = d]
  BY <1>1, <1>15, Zenon
<1>17. DOMAIN desc' = DOMAIN desc /\ desc'[t] = d /\ \A f \in DOMAIN desc : f # t => desc'[f] = desc[f]
  BY <1>4, <1>16
<1> QED
  BY <1>1, <1>3, <1>4, <1>6, <1>8, <1>9, <1>11, <1>12, <1>13, <1>14, <1>15, <1>17, Zenon

\* growFork.
LEMMA GrowKeeps ==
    ASSUME FInv, NEW t \in Trees, NEW low, growFork(t, low)
    PROVE  FInv'
<1>1. PICK g, all, fr, top, leaf : Grows(t, low, g, all, fr, top, leaf)
  BY GrowsIs, Zenon
<1>2. /\ stack # <<>> /\ Top.todo # <<>> /\ Inserting(t)
      /\ IInv' /\ open' = open
      /\ leaf = (IF low THEN [k \in {k \in DOMAIN recs : k[1] = ExtentsFile} |-> recs[k]] ELSE <<>>)
      /\ IsNew(fr, t, 0, insertExtentRecords(t, all)) /\ Waits(top, Top, low, leaf)
      /\ stack' = <<fr, top>> \o Tail(stack) /\ edited' = TRUE
  BY <1>1, Zenon DEF Grows
<1>3. recs' = recs /\ store' = store /\ next' = next /\ handle' = handle /\ torn' = torn
  BY <1>1 DEF Grows
<1>4. /\ torn = FALSE /\ open
      /\ Named /\ Described /\ Handled /\ Typed /\ Undoable /\ Nested /\ InProgress
  BY <1>2, Ongoing
<1>5. /\ GoodLists(given') /\ owned' = HeldBy(given', DOMAIN given') /\ DOMAIN given' = DOMAIN given
      /\ \A f \in DOMAIN given : f # t => given'[f] = given[f]
      /\ all \in Seq(Inside)
      /\ DOMAIN extents' = Trees /\ extents'[t] = all /\ \A u \in Trees : u # t => extents'[u] = extents[u]
  BY <1>1, GrowsLists
<1>6. /\ DOMAIN desc' = DOMAIN desc /\ \A f \in DOMAIN desc : f # t => desc'[f] = desc[f]
      /\ t \in DOMAIN desc /\ desc'[t].ext = InlinePart(all)
  <2>1. PICK a, b, c : a = (desc[t].total + GrowBlocks) * BlockSize /\ b = desc[t].total + GrowBlocks /\ c = InlinePart(all)
    OBVIOUS
  <2>2. /\ DOMAIN desc' = DOMAIN desc /\ \A f \in DOMAIN desc : f # t => desc'[f] = desc[f]
        /\ t \in DOMAIN desc /\ desc'[t] = Fork(a, b, c)
    <3>1. desc'[t] = Fork((desc[t].total + GrowBlocks) * BlockSize, desc[t].total + GrowBlocks, InlinePart(all))
      BY <1>1, GrowsLists
    <3>2. desc'[t] = Fork(a, b, c)
      BY <3>1, <2>1, Zenon
    <3>3. /\ DOMAIN desc' = DOMAIN desc /\ \A f \in DOMAIN desc : f # t => desc'[f] = desc[f]
          /\ t \in DOMAIN desc
      BY <1>1, GrowsLists
    <3> QED
      BY <3>2, <3>3
  <2>3. Fork(a, b, c).ext = c
    BY DEF Fork
  <2> QED
    BY <2>1, <2>2, <2>3, Zenon
<1>7. Keyed(recs) /\ LeafOK(leaf)
  <2>1. Keyed(recs)
    BY <1>4 DEF Typed
  <2> QED
    BY <2>1, <1>2, LeafTyped
<1>8. Serves(fr) /\ IsFrame(fr) /\ LeafOK(fr.leaf)
  <2>1. PICK todo : todo = insertExtentRecords(t, all)
    OBVIOUS
  <2>2. Serves(fr)
    BY <2>1, <1>2, <1>5, RecordsServe, Zenon
  <2> QED
    BY <2>2, <1>2 DEF IsNew
<1>9. Nested' /\ SameOp
  BY <1>2, <1>4, <1>7, <1>8, Pushes, Zenon
<1>10. (\E j \in Nat : Filing(j)) \/ Closing
  BY <1>2, GrowsInCreation
<1>11. TreesOnly
  <2>1. \A f : SameFor(recs, recs', f)
    BY <1>3 DEF SameFor
  <2>2. \A f \in Live : desc'[f] = desc[f]
    BY <1>6 DEF Live
  <2> QED
    BY <2>1, <2>2, <1>2, <1>3, <1>5, <1>6 DEF TreesOnly
<1>12. InProgress'
  BY <1>4, <1>9, <1>10, <1>11, CreationStays
<1>13. Described' /\ Handled'
  BY <1>4, <1>11, TreesDescribed
<1>14. Named'
  BY <1>3, <1>4, <1>5, <1>6 DEF Named
<1>15. Typed'
  <2>1. InlinePart(all) \in Seq(Inside)
    BY <1>5, PartFacts
  <2>2. \A u \in Trees : desc'[u].ext \in Seq(Inside)
    BY <2>1, <1>4, <1>6 DEF Typed, Named
  <2>3. \A u \in Trees : extents'[u] \in Seq(Inside)
    BY <1>2, <1>4, <1>5 DEF Typed
  <2> QED
    BY <2>2, <2>3, <1>3, <1>4, <1>5 DEF Typed
<1>16. open' /\ torn' = FALSE /\ Undoable'
  BY <1>2, <1>3, <1>4 DEF Undoable
<1> QED
  BY <1>2, <1>9, <1>12, <1>13, <1>14, <1>15, <1>16, Kept

-----------------------------------------------------------------------------
(* The whole specification.                                                *)

\* The image mkfs leaves.
LEMMA StartsOrderly == ForksInit => FInv
<1> SUFFICES ASSUME ForksInit PROVE FInv
  OBVIOUS
<1>1. PICK first : first = [t \in Trees |-> <<FirstRun[t]>>]
  OBVIOUS
<1>2. first = [t \in Trees |-> <<IF t = ExtentsFile
                    THEN Extent(extStart(TotalBlocks), extBlocks)
                    ELSE Extent(catStart(TotalBlocks), catBlocks(TotalBlocks))>>]
  BY <1>1, Zenon DEF FirstRun
<1>3. /\ Init /\ recs = <<>> /\ stack = <<>> /\ next = FirstFile /\ handle = NoHandle
      /\ edited = FALSE /\ torn = FALSE /\ given = first
      /\ desc = [t \in Trees |-> Fork(Counted(first[t]) * BlockSize, Counted(first[t]), first[t])]
  BY <1>2, Zenon DEF ForksInit
<1>4. IInv /\ owned = {} /\ saved = {} /\ open = FALSE
  BY <1>3, StartsExact DEF Init
<1>5. DOMAIN given = Trees /\ DOMAIN desc = Trees /\ Live = {}
  BY <1>1, <1>3 DEF Live
<1>6. \A t \in Trees : given[t] = <<FirstRun[t]>>
  BY <1>1, <1>3
<1>7. \A t \in Trees : FirstRun[t] \in Inside
  BY FirstFacts
<1>8. \A t \in Trees : given[t] \in Seq(Inside) /\ Len(given[t]) = 1 /\ given[t][1] = FirstRun[t]
  <2> SUFFICES ASSUME NEW t \in Trees
               PROVE  given[t] \in Seq(Inside) /\ Len(given[t]) = 1 /\ given[t][1] = FirstRun[t]
    OBVIOUS
  <2>1. PICK e : e = FirstRun[t]
    OBVIOUS
  <2>2. e \in Inside
    BY <2>1, <1>7
  <2>3. <<e>> \in Seq(Inside) /\ Len(<<e>>) = 1 /\ <<e>>[1] = e
    BY <2>2
  <2> QED
    BY <2>1, <2>3, <1>6, Zenon
<1>9. Apart(given)
  <2> SUFFICES ASSUME NEW f \in Trees, NEW h \in Trees, NEW i \in 1 .. Len(given[f]), NEW j \in 1 .. Len(given[h]),
                      ~(f = h /\ i = j)
               PROVE  ExtentBlocks(given[f][i]) \cap ExtentBlocks(given[h][j]) = {}
    BY <1>5 DEF Apart
  <2>0. \A k \in 1 .. 1 : k = 1
    OBVIOUS
  <2>1. i = 1 /\ j = 1
    BY <2>0, <1>8, Zenon
  <2>2. given[f][i] = FirstRun[f] /\ given[h][j] = FirstRun[h] /\ f # h
    BY <2>1, <1>8
  <2> QED
    BY <2>2, FirstFacts DEF Trees
<1>10. GoodLists(given)
  <2>1. \A t \in Trees : Len(given[t]) >= 1
    BY <1>8
  <2> QED
    BY <2>1, <1>5, <1>8, <1>9 DEF GoodLists
<1>11. HeldBy(given, Trees) = {}
  <2> SUFFICES ASSUME NEW e, NEW t \in Trees, e \in ToSet(given[t]) PROVE e \in First
    BY DEF HeldBy
  <2>1. DOMAIN given[t] = 1 .. 1
    BY <1>8, InsideList
  <2> QED
    BY <2>1, <1>8 DEF ToSet, First
<1>12. Named
  BY <1>3, <1>5, <1>10 DEF Named, FirstFile
<1>13. handle.id = 0
  BY <1>3 DEF NoHandle
<1>14. Described /\ Handled /\ Undoable
  <2>1. Described
    BY <1>5 DEF Described
  <2>2. Handled
    BY <1>3, <1>5, <1>13 DEF Handled, FirstFile
  <2> QED
    BY <2>1, <2>2, <1>3, <1>4, <1>5, <1>11 DEF Undoable
<1>15. Keyed(recs) /\ DOMAIN recs = {}
  <2>1. DOMAIN <<>> = {}
    OBVIOUS
  <2> QED
    BY <2>1, <1>3, NoLeaf
<1>16. Typed
  <2>1. \A t \in Trees : desc[t].ext = given[t]
    <3> SUFFICES ASSUME NEW t \in Trees PROVE desc[t].ext = first[t]
      BY <1>3
    <3>1. PICK a, b, c : a = Counted(first[t]) * BlockSize /\ b = Counted(first[t]) /\ c = first[t]
      OBVIOUS
    <3>2. desc[t] = Fork(a, b, c)
      BY <3>1, <1>3
    <3>3. Fork(a, b, c).ext = c
      BY DEF Fork
    <3> QED
      BY <3>1, <3>2, <3>3
  <2> QED
    BY <2>1, <1>3, <1>8, <1>15 DEF Typed
<1>17. Nested
  <2>1. IsSeq(stack) /\ Len(stack) = 0
    BY <1>3, SeqShort
  <2>2. \A i \in 1 .. 0 : FALSE
    OBVIOUS
  <2>3. \A i \in 1 .. 0 - 1 : FALSE
    OBVIOUS
  <2> QED
    BY <2>1, <2>2, <2>3, Zenon DEF Nested
<1>18. Resting
  BY <1>3, <1>4, <1>5, <1>11 DEF Resting, Settled
<1> QED
  BY <1>3, <1>4, <1>12, <1>14, <1>16, <1>17, <1>18 DEF FInv, Orderly, Phase

\* A step in which nothing happens.
LEMMA StutterKeeps ==
    ASSUME FInv, UNCHANGED allVars
    PROVE  FInv'
<1>1. /\ UNCHANGED vars
      /\ desc' = desc /\ recs' = recs /\ store' = store /\ extents' = extents /\ stack' = stack /\ next' = next
      /\ handle' = handle /\ edited' = edited /\ torn' = torn /\ given' = given
      /\ open' = open /\ owned' = owned /\ saved' = saved
  BY DEF allVars, forkVars, vars
<1>2. IInv'
  BY <1>1, StepExact DEF FInv
<1>3. Live' = Live /\ Op' = Op
  BY <1>1 DEF Live, Op
<1>4. ASSUME Orderly PROVE Orderly'
  <2>1. Named' /\ Described' /\ Handled' /\ Typed' /\ Undoable' /\ Nested'
    BY <1>1, <1>3, <1>4 DEF Orderly, Named, Described, Handled, Typed, Undoable, Nested
  <2>2. Settled = Settled'
    BY <1>1, <1>3 DEF Settled
  <2>3. Resting => Resting'
    BY <2>2, <1>1 DEF Resting
  <2>4. Starting => Starting'
    BY <2>2, <1>1, <1>3 DEF Starting
  <2>5. Closing => Closing'
    BY <2>2, <1>1, <1>3 DEF Closing
  <2>6. \A j \in Nat : Filing(j) => Filing(j)'
    BY <1>1, <1>3 DEF Filing
  <2>7. \A j \in Nat : Returned(j) => Returned(j)'
    BY <1>1, <1>3 DEF Returned
  <2>8. \A j \in Nat : Freeing(j) => Freeing(j)'
    BY <2>7, <1>1, <1>3 DEF Freeing
  <2>9. \A j \in Nat : Emptying(j) => Emptying(j)'
    BY <2>7, <1>1, <1>3 DEF Emptying
  <2>10. InProgress => InProgress'
    BY <2>4, <2>5, <2>6, <2>8, <2>9 DEF InProgress
  <2>11. Phase'
    BY <2>3, <2>10, <1>1, <1>4 DEF Phase, Orderly
  <2> QED
    BY <2>1, <2>11 DEF Orderly
<1> QED
  BY <1>1, <1>2, <1>4 DEF FInv

\* AllocNoSpace and GrowNoSpace.
LEMMA NoSpaceKeeps ==
    ASSUME FInv, AllocNoSpace \/ \E t \in Trees : GrowNoSpace(t)
    PROVE  FInv'
<1>1. stack # <<>> /\ Fail
  BY DEF AllocNoSpace, GrowNoSpace, NeedsNode, Inserting, At
<1> QED
  BY <1>1, FailKeeps

\* Every step keeps the invariant.
LEMMA StepOrderly == FInv /\ [ForksNext]_allVars => FInv'
<1> SUFFICES ASSUME FInv, [ForksNext]_allVars
             PROVE  FInv'
  OBVIOUS
<1>1. ASSUME NEW size \in FileSizes, createFile(size) PROVE FInv'
  BY <1>1, CreateKeeps
<1>2. ASSUME NEW f \in Live, removeFile(f) PROVE FInv'
  BY <1>2, RemoveKeeps
<1>3. ASSUME NEW f \in Live, OpenFile(f) PROVE FInv'
  BY <1>3, OpenKeeps
<1>4. CASE AllocData
  BY <1>4, AllocDataKeeps
<1>5. CASE AllocNothing
  BY <1>5, AllocNothingKeeps
<1>6. CASE AllocNoSpace \/ \E t \in Trees : GrowNoSpace(t)
  BY <1>6, NoSpaceKeeps
<1>7. CASE InsertExtents
  BY <1>7, InsertKeeps
<1>8. CASE InsertCatalog
  BY <1>8, CatalogKeeps
<1>9. CASE InsertThread
  BY <1>9, ThreadKeeps
<1>10. ASSUME NEW t \in Trees, NEW low \in Leftmost, growFork(t, low) PROVE FInv'
  BY <1>10, GrowKeeps
<1>11. CASE Grown
  BY <1>11, GrownKeeps
<1>12. CASE FreeRun
  BY <1>12, FreeKeeps
<1>13. CASE deleteAllForFork
  BY <1>13, DropKeeps
<1>14. CASE Unlink
  BY <1>14, UnlinkKeeps
<1>15. CASE commit
  BY <1>15, CommitKeeps
<1>16. CASE UNCHANGED allVars
  BY <1>16, StutterKeeps
<1> QED
  BY <1>1, <1>2, <1>3, <1>4, <1>5, <1>6, <1>7, <1>8, <1>9, <1>10, <1>11, <1>12, <1>13, <1>14, <1>15, <1>16
     DEF ForksNext, Calls

\* The invariant of the operations on forks, whatever spills where.
THEOREM ForksOrderly == ForksSpec => []FInv
BY StartsOrderly, StepOrderly, PTL DEF ForksSpec

-----------------------------------------------------------------------------
(* The allocator underneath.                                               *)

\* What FreeRun returns is held.
LEMMA FreesHeld ==
    ASSUME FInv, FreeRun
    PROVE  Next
<1>1. At("free") /\ Release(Head(Step.ext))
  BY DEF FreeRun
<1>2. /\ stack # <<>> /\ Op = Top /\ Step = Head(Op.todo) /\ Stage("free")
  BY <1>1, Busy
<1>3. Named
  BY <1>2, Ongoing
<1>4. PICK j \in Nat : /\ Returned(j) /\ j < Len(given[Op.id])
                       /\ Head(Op.todo) = FreeExtent(given[Op.id][j + 1])
  <2>1. ASSUME NEW j \in Nat, Freeing(j), j < Len(InlinePart(given[Op.id])),
               Ahead(Op.todo, FreeExtent(given[Op.id][j + 1]), From(FreeSteps(given[Op.id]), j + 1))
        PROVE  Returned(j) /\ j < Len(given[Op.id]) /\ Head(Op.todo) = FreeExtent(given[Op.id][j + 1])
    <3>1. Returned(j) /\ Op.id \in DOMAIN given
      BY <2>1 DEF Freeing, Returned, Live
    <3>2. Len(given[Op.id]) \in Nat /\ Len(InlinePart(given[Op.id])) \in Nat
          /\ Len(InlinePart(given[Op.id])) <= Len(given[Op.id])
      BY <3>1, <1>3, GivenFacts
    <3>3. j < Len(given[Op.id])
      BY <3>2, <2>1
    <3> QED
      BY <3>1, <3>3, <2>1, Zenon DEF Ahead
  <2>2. ASSUME NEW j \in Nat, Emptying(j), j < Len(given[Op.id]),
               Ahead(Op.todo, FreeExtent(given[Op.id][j + 1]), From(EmptySteps(given[Op.id]), j + 1))
        PROVE  Returned(j) /\ j < Len(given[Op.id]) /\ Head(Op.todo) = FreeExtent(given[Op.id][j + 1])
    BY <2>2, Zenon DEF Emptying, Ahead
  <2> QED
    BY <2>1, <2>2, <1>2 DEF Stage
<1>5. PICK e : e = given[Op.id][j + 1]
  OBVIOUS
<1>6. Release(e)
  <2>1. Head(FreeExtent(e).ext) = e
    BY StepNames
  <2> QED
    BY <2>1, <1>1, <1>2, <1>4, <1>5, Zenon
<1>7. /\ Op.id \in DOMAIN given \ Trees /\ GoodLists(given)
      /\ owned = HeldBy(given, DOMAIN given) \ {given[Op.id][i] : i \in 1 .. j}
  BY <1>3, <1>4 DEF Returned, Live, Named
<1>8. e \in owned
  BY <1>4, <1>5, <1>7, FreesNext
<1> QED
  BY <1>6, <1>8 DEF Next

\* Every step is one of the allocator, or leaves it alone.
LEMMA StepAllocates == FInv /\ [ForksNext]_allVars => [Next]_vars
<1> SUFFICES ASSUME FInv, [ForksNext]_allVars
             PROVE  Next \/ UNCHANGED vars
  OBVIOUS
<1>1. ASSUME NEW size \in FileSizes, createFile(size) PROVE Next
  BY <1>1 DEF createFile, begin, Next
<1>2. ASSUME NEW f \in Live, removeFile(f) PROVE Next
  BY <1>2 DEF removeFile, begin, Next
<1>3. ASSUME NEW f \in Live, OpenFile(f) PROVE UNCHANGED vars
  BY <1>3 DEF OpenFile
<1>4. CASE AllocData
  <2>1. At("alloc") /\ DataBlocks > 0 /\ Allocate(DataBlocks)
    BY <1>4 DEF AllocData
  <2>2. IInv /\ Op = Top /\ Stage("alloc")
    BY <2>1, Busy DEF FInv
  <2>3. Top.size \in Nat
    BY <2>2 DEF Stage, Starting
  <2>4. DataBlocks \in Nat
    BY <2>3, CeilDivTight, MkfsAssumption DEF DataBlocks
  <2>5. PICK c : c = DataBlocks
    OBVIOUS
  <2>6. c \in Nat \ {0}
    BY <2>1, <2>4, <2>5
  <2> QED
    BY <2>1, <2>2, <2>5, <2>6, Allocates
<1>5. CASE AllocNothing
  BY <1>5 DEF AllocNothing
<1>6. CASE AllocNoSpace \/ \E t \in Trees : GrowNoSpace(t)
  <2>1. Fail
    BY <1>6 DEF AllocNoSpace, GrowNoSpace
  <2> QED
    BY <2>1 DEF Fail, Next
<1>7. CASE InsertExtents \/ InsertCatalog \/ InsertThread \/ Grown \/ deleteAllForFork \/ Unlink
  BY <1>7 DEF InsertExtents, InsertCatalog, InsertThread, Grown, deleteAllForFork, Unlink
<1>8. ASSUME NEW t \in Trees, NEW low \in Leftmost, growFork(t, low) PROVE Next
  BY <1>8, GrowsIs DEF Grows
<1>9. CASE FreeRun
  BY <1>9, FreesHeld
<1>10. CASE commit
  BY <1>10 DEF commit, Next
<1>11. CASE UNCHANGED allVars
  BY <1>11 DEF allVars
<1> QED
  BY <1>1, <1>2, <1>3, <1>4, <1>5, <1>6, <1>7, <1>8, <1>9, <1>10, <1>11 DEF ForksNext, Calls

\* Creation, growth inside growth, removal and failure use the allocator as its
\* own specification says: what is freed is an extent that was handed out,
\* whole, and is still held.
THEOREM ForksUseAllocator == ForksSpec => UsesAllocator
<1>1. ForksInit => Init
  BY DEF ForksInit
<1> QED
  BY <1>1, ForksOrderly, StepAllocates, PTL DEF ForksSpec, Spec, UsesAllocator

-----------------------------------------------------------------------------
(* Reading.                                                                *)

\* A fork whose list holds its bytes is read exactly.
LEMMA ReadsExact ==
    ASSUME NEW g \in Seq(Inside), NEW id, NEW size, Written(store, g, id, size), NEW f, f.ext = g, f.size = size, f.id = id
    PROVE  /\ Readable(f)
           /\ \A off \in 0 .. f.size - 1, len \in 1 .. f.size :
                 readAt(f, off, len) = Window(f.id, f.size, off, len)
<1>1. size \in Nat /\ size <= Counted(g) * BlockSize /\ Holds(store, g, id, size)
  BY DEF Written
<1>2. ASSUME NEW off \in 0 .. size - 1, NEW len \in Nat, NEW w, w = Min({len, size - off})
      PROVE  /\ w \in Nat /\ (len <= size - off => w = len)
             /\ readAt(f, off, len) = [k \in 1 .. w |-> Byte(id, off + k - 1)]
  <2>1. off \in Nat /\ size - off \in Nat /\ ~(off >= size)
    BY <1>1
  <2>2. w = IF len <= size - off THEN len ELSE size - off
    BY <1>2, <2>1, MinOfTwo
  <2>3. w \in Nat /\ off + w <= size /\ (len <= size - off => w = len)
    <3>1. CASE len <= size - off
      BY <3>1, <2>1, <2>2, <1>1
    <3>2. CASE ~(len <= size - off)
      BY <3>2, <2>1, <2>2, <1>1
    <3> QED
      BY <3>1, <3>2
  <2>4. Pieces(f, off, w) = [k \in 1 .. w |-> Byte(id, off + k - 1)]
    BY <2>1, <2>3, <1>1, PiecesExact
  <2>5. readAt(f, off, len) = Pieces(f, off, w)
    BY <2>1, <1>2, Zenon DEF readAt
  <2> QED
    BY <2>3, <2>4, <2>5
<1>3. \A off \in 0 .. f.size - 1, len \in 1 .. f.size :
                 readAt(f, off, len) = Window(f.id, f.size, off, len)
  <2> SUFFICES ASSUME NEW off \in 0 .. size - 1, NEW len \in 1 .. size
               PROVE  readAt(f, off, len) = Window(id, size, off, len)
    OBVIOUS
  <2>1. PICK w : w = Min({len, size - off})
    OBVIOUS
  <2>2. readAt(f, off, len) = [k \in 1 .. w |-> Byte(id, off + k - 1)]
    BY <2>1, <1>1, <1>2
  <2> QED
    BY <2>1, <2>2, Zenon DEF Window
<1>4. Readable(f)
  <2>1. CASE size = 0
    BY <2>1 DEF Readable
  <2>2. CASE size # 0
    <3>1. size - 1 \in 0 .. size - 1 /\ 1 <= size - (size - 1)
      BY <2>2, <1>1
    <3>2. PICK w : w = Min({1, size - (size - 1)})
      OBVIOUS
    <3>3. w = 1 /\ readAt(f, size - 1, 1) = [k \in 1 .. w |-> Byte(id, (size - 1) + k - 1)]
      BY <3>1, <3>2, <1>2
    <3>4. PICK r : r = readAt(f, size - 1, 1)
      OBVIOUS
    <3>5. DOMAIN r = 1 .. 1 /\ r = [k \in DOMAIN r |-> r[k]]
      BY <3>3, <3>4
    <3>6. Len(r) = 1
      BY <3>5, SeqIs
    <3>7. \A i \in DOMAIN g : g[i].start + g[i].count <= TotalBlocks
      <4> SUFFICES ASSUME NEW i \in DOMAIN g PROVE g[i].start + g[i].count <= TotalBlocks
        OBVIOUS
      <4>1. g[i] \in Inside
        BY InsideList
      <4> QED
        BY <4>1, InsideFacts
    <3> QED
      BY <3>4, <3>6, <3>7, <1>1 DEF Readable, extentBytes
  <2> QED
    BY <2>1, <2>2
<1> QED
  BY <1>3, <1>4

\* Every file that exists is read exactly.
LEMMA FilesRead == FInv => WindowsExact
<1> SUFFICES ASSUME FInv, Idle,
                    NEW f \in {dataForkFor(g) : g \in Live} \cup {h \in {handle} : h.id \in Live}
             PROVE  /\ Readable(f)
                    /\ \A off \in 0 .. f.size - 1, len \in 1 .. f.size :
                          readAt(f, off, len) = Window(f.id, f.size, off, len)
  BY DEF WindowsExact
<1>1. Named /\ Described /\ Handled /\ \A x \in Live : InTree(recs, given, x)
  BY AtRest DEF Resting, Settled
<1>2. f.id \in Live /\ f.size = desc[f.id].size /\ f.ext = given[f.id]
  <2>1. ASSUME NEW x \in Live, f = dataForkFor(x)
        PROVE  f.id \in Live /\ f.size = desc[f.id].size /\ f.ext = given[f.id]
    <3>1. dataForkFor(x).id = x /\ dataForkFor(x).size = desc[x].size /\ dataForkFor(x).ext = given[x]
      BY <1>1, FileResolves
    <3> QED
      BY <3>1, <2>1, Zenon
  <2>2. ASSUME f = handle, handle.id \in Live
        PROVE  f.id \in Live /\ f.size = desc[f.id].size /\ f.ext = given[f.id]
    BY <2>2, <1>1 DEF Handled
  <2> QED
    BY <2>1, <2>2
<1>3. PICK id, g, size : id = f.id /\ g = given[f.id] /\ size = desc[f.id].size
  OBVIOUS
<1>4. g \in Seq(Inside)
  BY <1>1, <1>2, <1>3, FilesApart, GivenFacts
<1>5. Written(store, g, id, size)
  BY <1>1, <1>2, <1>3, Zenon DEF Described
<1>6. f.ext = g /\ f.size = size /\ f.id = id
  BY <1>2, <1>3
<1> QED
  BY <1>4, <1>5, <1>6, ReadsExact

\* openfile.go: a window of a file that exists, read through a handle opened
\* now or before other files came and went, gives the file's own bytes.
THEOREM WindowsAlwaysExact == ForksSpec => []WindowsExact
BY ForksOrderly, FilesRead, PTL

-----------------------------------------------------------------------------
(* The trees' own forks, when the extents file does not overflow.          *)

\* The descriptor that a list calls for.
TreeFork(g) == Fork(Counted(g) * BlockSize, Counted(g), InlinePart(g))

\* A call that has not loaded a leaf it will store as it was.
Plain(fr) == fr.low = FALSE /\ fr.leaf = <<>>

Drawn ==
    /\ \A t \in Trees : desc[t] = TreeFork(given[t])
    /\ Len(given[ExtentsFile]) <= InlineExtents
    /\ stack # <<>> => \A t \in Trees : extents[t] = given[t]
    /\ \A i \in 1 .. Len(stack) : Plain(stack[i])
    /\ InTree(recs, given, ExtentsFile)

\* No tree is growing.
Shallow ==
    /\ stack = <<>> \/ Len(stack) = 1
    /\ InTree(recs, given, CatalogFile)

GrownExtents(fr) == fr.id = ExtentsFile /\ fr.todo = <<>>

\* The first j records of the catalog's extents are as they should be.
GrowingCatalog(fr, j) ==
    /\ fr.id = CatalogFile
    /\ j \in 0 .. Groups(given[CatalogFile])
    /\ fr.todo = From(insertExtentRecords(CatalogFile, given[CatalogFile]), j)
    /\ Recorded(recs, CatalogFile, given[CatalogFile], j, Groups(given[CatalogFile]))

Deep ==
    /\ edited
    /\ \/ Len(stack) = 2 /\ GrownExtents(stack[1]) /\ InTree(recs, given, CatalogFile)
       \/ \E j \in Nat : \/ Len(stack) = 2 /\ GrowingCatalog(stack[1], j)
                         \/ Len(stack) = 3 /\ GrownExtents(stack[1]) /\ GrowingCatalog(stack[2], j)

TInv == ~torn => Drawn /\ (Shallow \/ Deep)

\* A step of an operation that serves itself: what there is of the trees stays.
TreesStay ==
    /\ \A t \in Trees : desc'[t] = desc[t] /\ given'[t] = given[t] /\ SameFor(recs, recs', t)
    /\ stack' = <<>> \/ (Len(stack') = 1 /\ Plain(stack'[1]) /\ \A t \in Trees : extents'[t] = given[t])

\* Such a step keeps the trees' part of the invariant.
LEMMA StayKeeps ==
    ASSUME Drawn, Shallow, TreesStay
    PROVE  TInv'
<1>1. ExtentsFile \in Trees /\ CatalogFile \in Trees
  BY DEF Trees
<1>2. /\ desc'[ExtentsFile] = desc[ExtentsFile] /\ given'[ExtentsFile] = given[ExtentsFile]
      /\ desc'[CatalogFile] = desc[CatalogFile] /\ given'[CatalogFile] = given[CatalogFile]
      /\ SameFor(recs, recs', ExtentsFile) /\ SameFor(recs, recs', CatalogFile)
  BY <1>1 DEF TreesStay
<1>3. \A t \in Trees : InTree(recs, given, t) => InTree(recs', given', t)
  <2> SUFFICES ASSUME NEW t \in Trees, InTree(recs, given, t) PROVE InTree(recs', given', t)
    OBVIOUS
  <2>1. PICK rs, qs, g : rs = recs /\ qs = recs' /\ g = given[t]
    OBVIOUS
  <2>2. SameFor(rs, qs, t) /\ Recorded(rs, t, g, Groups(g), Groups(g)) /\ given'[t] = g
    BY <2>1, Zenon DEF TreesStay, InTree
  <2>3. Recorded(qs, t, g, Groups(g), Groups(g))
    BY <2>2, RecordedStays, Zenon
  <2> QED
    BY <2>1, <2>2, <2>3, Zenon DEF InTree
<1>4. InTree(recs', given', ExtentsFile) /\ InTree(recs', given', CatalogFile)
  BY <1>1, <1>3 DEF Drawn, Shallow
<1>5. \A t \in Trees : desc'[t] = TreeFork(given'[t])
  BY DEF Drawn, TreesStay
<1>6. Len(given'[ExtentsFile]) <= InlineExtents
  BY <1>2 DEF Drawn
<1>7. stack' # <<>> => \A t \in Trees : extents'[t] = given'[t]
  BY DEF TreesStay
<1>8. \A i \in 1 .. Len(stack') : Plain(stack'[i])
  <2>1. CASE stack' = <<>>
    <3>1. Len(stack') = 0 /\ \A i \in 1 .. 0 : FALSE
      BY <2>1, SeqShort
    <3> QED
      BY <3>1, Zenon
  <2>2. CASE Len(stack') = 1 /\ Plain(stack'[1])
    <3>1. \A i \in 1 .. 1 : i = 1
      OBVIOUS
    <3> QED
      BY <3>1, <2>2, Zenon
  <2> QED
    BY <2>1, <2>2 DEF TreesStay
<1>9. stack' = <<>> \/ Len(stack') = 1
  BY DEF TreesStay
<1> QED
  BY <1>4, <1>5, <1>6, <1>7, <1>8, <1>9 DEF TInv, Drawn, Shallow

\* A single call that goes on is plain.
LEMMA ContinuePlain ==
    ASSUME Nested, stack # <<>>, Len(stack) = 1, NEW todo, Continue(todo)
    PROVE  Len(stack') = 1 /\ Plain(stack'[1])
<1>1. PICK none : none = <<>>
  OBVIOUS
<1>2. /\ Len(stack') = Len(stack)
      /\ stack'[1] = [id |-> Top.id, size |-> Top.size, todo |-> todo,
                      grown |-> FALSE, low |-> FALSE, leaf |-> <<>>]
  BY ContinueFacts
<1>3. stack'[1].low = FALSE /\ stack'[1].leaf = none
  BY <1>1, <1>2
<1> QED
  BY <1>1, <1>2, <1>3, Zenon DEF Plain

\* One call, or none: no tree grows.
LEMMA OneIsShallow ==
    ASSUME ~torn, TInv, stack = <<>> \/ Len(stack) = 1
    PROVE  Drawn /\ Shallow
<1>1. stack = <<>> => Len(stack) = 0
  BY SeqShort
<1>2. Len(stack) # 2 /\ Len(stack) # 3
  <2>1. CASE stack = <<>>
    BY <2>1, <1>1
  <2>2. CASE Len(stack) = 1
    BY <2>2
  <2> QED
    BY <2>1, <2>2
<1>3. ~Deep
  BY <1>2 DEF Deep
<1> QED
  BY <1>3 DEF TInv

\* Between operations every list is assembled as it was given.
LEMMA TreesResolve ==
    ASSUME Named, Drawn, Shallow, NEW t \in Trees
    PROVE  Resolved(t) = given[t]
<1>1. PICK g : g = given[t]
  OBVIOUS
<1>2. g \in Seq(Inside)
  BY <1>1 DEF Named, GoodLists
<1>3. Recorded(recs, t, g, Groups(g), Groups(g))
  BY <1>1 DEF Drawn, Shallow, InTree, Trees
<1>4. desc[t].ext = InlinePart(g) /\ desc[t].total = Counted(g)
  <2>1. PICK a, b, c : a = Counted(g) * BlockSize /\ b = Counted(g) /\ c = InlinePart(g)
    OBVIOUS
  <2>2. desc[t] = Fork(a, b, c)
    BY <2>1, <1>1, Zenon DEF Drawn, TreeFork
  <2>3. Fork(a, b, c).ext = c /\ Fork(a, b, c).total = b
    BY DEF Fork
  <2> QED
    BY <2>1, <2>2, <2>3, Zenon
<1>5. resolveForkExtents(desc[t], recs, t) = g
  BY <1>2, <1>3, <1>4, Reassembled
<1> QED
  BY <1>1, <1>5 DEF Resolved

\* The same records.
LEMMA SameIsSame ==
    ASSUME NEW rs, NEW f
    PROVE  SameFor(rs, rs, f)
BY DEF SameFor

\* createFile and removeFile.
LEMMA BeginTrees ==
    ASSUME FInv, TInv, NEW fr, Plain(fr), begin(fr)
    PROVE  TInv'
<1>1. /\ Idle /\ extents' = [t \in Trees |-> Resolved(t)] /\ stack' = <<fr>>
      /\ UNCHANGED <<desc, recs, given>>
  BY DEF begin
<1>2. stack = <<>> /\ ~torn /\ Named
  BY <1>1, AtRest DEF Idle
<1>3. Drawn /\ Shallow
  BY <1>2, OneIsShallow
<1>4. \A t \in Trees : extents'[t] = given[t]
  BY <1>1, <1>2, <1>3, TreesResolve
<1>5. Len(stack') = 1 /\ stack'[1] = fr
  BY <1>1, SeqShort
<1>6. TreesStay
  BY <1>1, <1>4, <1>5, SameIsSame DEF TreesStay
<1> QED
  BY <1>3, <1>6, StayKeeps

\* Steps of the operation itself, other than puts.
LEMMA OwnStep ==
    ASSUME FInv, TInv, NEW w, At(w), w # "put", NEW todo, Continue(todo),
           \A t \in Trees : desc'[t] = desc[t] /\ given'[t] = given[t] /\ SameFor(recs, recs', t),
           extents' = extents
    PROVE  TInv'
<1>1. stack # <<>> /\ Len(stack) = 1
  BY Busy
<1>2. ~torn /\ Nested
  BY <1>1, Ongoing
<1>3. Drawn /\ Shallow
  BY <1>1, <1>2, OneIsShallow
<1>4. Len(stack') = 1 /\ Plain(stack'[1])
  BY <1>1, <1>2, ContinuePlain
<1>5. \A t \in Trees : extents'[t] = given[t]
  BY <1>1, <1>3 DEF Drawn
<1>6. TreesStay
  BY <1>4, <1>5 DEF TreesStay
<1> QED
  BY <1>3, <1>6, StayKeeps

\* The operation ends.
LEMMA EndTrees ==
    ASSUME FInv, TInv, stack # <<>>, edited = FALSE \/ Len(stack) = 1, stack' = <<>>, desc' = desc, recs' = recs,
           \A t \in Trees : given'[t] = given[t]
    PROVE  TInv'
<1>1. ~torn
  BY Ongoing
<1>2. Drawn /\ Shallow
  <2>1. CASE Len(stack) = 1
    BY <2>1, <1>1, OneIsShallow
  <2>2. CASE edited = FALSE
    BY <2>2, <1>1 DEF TInv, Deep
  <2> QED
    BY <2>1, <2>2
<1>3. TreesStay
  BY SameIsSame DEF TreesStay
<1> QED
  BY <1>2, <1>3, StayKeeps

\* AllocData and AllocNothing.
LEMMA AllocTrees ==
    ASSUME FInv, TInv, AllocData \/ AllocNothing
    PROVE  TInv'
<1>1. At("alloc") /\ UNCHANGED <<desc, recs, extents>>
  BY DEF AllocData, AllocNothing
<1>2. /\ stack # <<>> /\ Op = Top /\ Stage("alloc")
  BY <1>1, Busy
<1>3. Named
  BY <1>2, Ongoing
<1>4. Top.id \notin DOMAIN given
  BY <1>2 DEF Stage, Starting
<1>5. PICK g, todo : given' = With(given, Top.id, g) /\ Continue(todo)
  BY Zenon DEF AllocData, AllocNothing
<1>6. IsWith(given', given, Top.id, g)
  BY <1>5, WithIs, Zenon
<1>7. \A t \in Trees : given'[t] = given[t]
  BY <1>3, <1>4, <1>6 DEF IsWith, Named, GoodLists
<1>8. \A t \in Trees : desc'[t] = desc[t] /\ given'[t] = given[t] /\ SameFor(recs, recs', t)
  BY <1>1, <1>7, SameIsSame
<1> QED
  BY <1>1, <1>5, <1>8, OwnStep

\* A failure.
LEMMA FailTrees ==
    ASSUME FInv, TInv, stack # <<>>, Fail
    PROVE  TInv'
<1>1. /\ stack' = <<>> /\ torn' = edited /\ given' = [f \in DOMAIN desc |-> given[f]]
      /\ desc' = desc /\ recs' = recs
  BY DEF Fail
<1>2. edited \in BOOLEAN /\ Trees \subseteq DOMAIN desc
  BY Ongoing DEF Undoable, Named
<1>3. CASE edited = TRUE
  BY <1>1, <1>3 DEF TInv
<1>4. CASE edited = FALSE
  <2>1. \A t \in Trees : given'[t] = given[t]
    BY <1>1, <1>2
  <2> QED
    BY <2>1, <1>1, <1>4, EndTrees
<1> QED
  BY <1>2, <1>3, <1>4

\* InsertCatalog.
LEMMA CatalogTrees ==
    ASSUME FInv, TInv, InsertCatalog
    PROVE  TInv'
<1>1. /\ At("record") /\ UNCHANGED <<recs, extents, given>>
      /\ desc' = With(desc, Top.id, Fork(Top.size, Counted(Step.ext), InlinePart(Step.ext)))
      /\ Continue(Tail(Top.todo))
  BY DEF InsertCatalog
<1>2. /\ stack # <<>> /\ Op = Top /\ Stage("record")
  BY <1>1, Busy
<1>3. Named
  BY <1>2, Ongoing
<1>4. Top.id \notin DOMAIN desc
  BY <1>2 DEF Stage, Filing
<1>5. PICK d : d = Fork(Top.size, Counted(Step.ext), InlinePart(Step.ext))
  OBVIOUS
<1>6. IsWith(desc', desc, Top.id, d)
  BY <1>1, <1>5, WithIs, Zenon
<1>7. \A t \in Trees : desc'[t] = desc[t]
  BY <1>3, <1>4, <1>6 DEF IsWith, Named
<1>8. \A t \in Trees : desc'[t] = desc[t] /\ given'[t] = given[t] /\ SameFor(recs, recs', t)
  BY <1>1, <1>7, SameIsSame
<1> QED
  BY <1>1, <1>8, OwnStep

\* InsertThread and FreeRun.
LEMMA PassTrees ==
    ASSUME FInv, TInv, InsertThread \/ FreeRun
    PROVE  TInv'
<1>1. UNCHANGED <<desc, recs, extents, given>> /\ (At("thread") \/ At("free")) /\ Continue(Tail(Top.todo))
  BY DEF InsertThread, FreeRun
<1>2. \A t \in Trees : desc'[t] = desc[t] /\ given'[t] = given[t] /\ SameFor(recs, recs', t)
  BY <1>1, SameIsSame
<1>3. extents' = extents
  BY <1>1
<1> QED
  BY <1>1, <1>2, <1>3, OwnStep

\* deleteAllForFork.
LEMMA DropTrees ==
    ASSUME FInv, TInv, deleteAllForFork
    PROVE  TInv'
<1>1. PICK todo : todo = Frees(overflowExtents(recs, Top.id, 0)) \o Tail(Top.todo)
  OBVIOUS
<1>2. /\ At("drop") /\ UNCHANGED <<desc, extents, given>> /\ Continue(todo)
      /\ recs' = [k \in {l \in DOMAIN recs : l[1] # Top.id} |-> recs[k]]
  BY <1>1, Zenon DEF deleteAllForFork
<1>3. /\ stack # <<>> /\ Op = Top /\ Stage("drop")
  BY <1>2, Busy
<1>4. Top.id \notin Trees
  BY <1>3 DEF Stage, Freeing, Returned, Live
<1>5. PICK D : D = {l \in DOMAIN recs : l[1] # Top.id}
  OBVIOUS
<1>6. recs' = [k \in D |-> recs[k]]
  BY <1>2, <1>5, Zenon
<1>7. DOMAIN recs' = D /\ \A k \in D : recs'[k] = recs[k]
  BY <1>6
<1>8. \A t \in Trees : SameFor(recs, recs', t)
  <2> SUFFICES ASSUME NEW t \in Trees, NEW k, k[1] = t
               PROVE  (k \in DOMAIN recs <=> k \in DOMAIN recs') /\ (k \in DOMAIN recs => recs[k] = recs'[k])
    BY DEF SameFor
  <2>1. k \in DOMAIN recs <=> k \in D
    BY <1>4, <1>5
  <2> QED
    BY <2>1, <1>7
<1>9. \A t \in Trees : desc'[t] = desc[t] /\ given'[t] = given[t] /\ SameFor(recs, recs', t)
  BY <1>2, <1>8
<1> QED
  BY <1>2, <1>9, OwnStep

\* Unlink.
LEMMA UnlinkTrees ==
    ASSUME FInv, TInv, Unlink
    PROVE  TInv'
<1>1. /\ At("unlink") /\ UNCHANGED <<recs, extents>> /\ Continue(Tail(Top.todo))
      /\ desc' = [f \in DOMAIN desc \ {Top.id} |-> desc[f]]
      /\ given' = [f \in DOMAIN given \ {Top.id} |-> given[f]]
  BY DEF Unlink
<1>2. /\ stack # <<>> /\ Op = Top /\ Stage("unlink")
  BY <1>1, Busy
<1>3. Named
  BY <1>2, Ongoing
<1>4. Top.id \notin Trees
  BY <1>2 DEF Stage, Emptying, Returned, Live
<1>5. \A t \in Trees : desc'[t] = desc[t] /\ given'[t] = given[t]
  BY <1>1, <1>3, <1>4 DEF Named
<1>6. \A t \in Trees : desc'[t] = desc[t] /\ given'[t] = given[t] /\ SameFor(recs, recs', t)
  BY <1>1, <1>5, SameIsSame
<1> QED
  BY <1>1, <1>6, OwnStep

\* commit.
LEMMA CommitTrees ==
    ASSUME FInv, TInv, commit
    PROVE  TInv'
<1>1. At("commit") /\ stack' = <<>> /\ UNCHANGED <<desc, recs, given>>
  BY DEF commit
<1>2. stack # <<>> /\ Len(stack) = 1
  BY <1>1, Busy
<1> QED
  BY <1>1, <1>2, EndTrees

\* OpenFile, and no step.
LEMMA OpenTrees ==
    ASSUME FInv, TInv, (\E f \in Live : OpenFile(f)) \/ UNCHANGED allVars
    PROVE  TInv'
<1>1. UNCHANGED <<desc, recs, extents, stack, edited, torn, given>>
  BY DEF OpenFile, allVars, forkVars
<1>2. Drawn => Drawn'
  BY <1>1 DEF Drawn
<1>3. Shallow => Shallow'
  BY <1>1 DEF Shallow
<1>4. \A fr : \A j \in Nat : GrowingCatalog(fr, j) => GrowingCatalog(fr, j)'
  BY <1>1 DEF GrowingCatalog
<1>5. Deep => Deep'
  BY <1>1, <1>4 DEF Deep
<1> QED
  BY <1>1, <1>2, <1>3, <1>5 DEF TInv

-----------------------------------------------------------------------------
(* Puts.                                                                   *)

\* A record that is put beside the others.
LEMMA PutAside ==
    ASSUME NEW rs, NEW none, none = <<>>, NEW k0, NEW e, NEW qs, qs = With(Over(none, rs), k0, e), NEW f, f # k0[1]
    PROVE  SameFor(rs, qs, f)
<1>1. PICK os : os = Over(none, rs)
  OBVIOUS
<1>2. DOMAIN none = {}
  OBVIOUS
<1>3. IsOver(os, none, rs)
  BY <1>1, OverIs, Zenon
<1>4. DOMAIN os = DOMAIN rs /\ \A x \in DOMAIN rs : os[x] = rs[x]
  BY <1>2, <1>3 DEF IsOver
<1>5. IsWith(qs, os, k0, e)
  BY <1>1, WithIs, Zenon
<1>6. DOMAIN qs = DOMAIN rs \cup {k0} /\ \A x \in DOMAIN rs : x # k0 => qs[x] = rs[x]
  BY <1>4, <1>5 DEF IsWith
<1> QED
  BY <1>6 DEF SameFor

\* The operation puts a record of its own.
LEMMA OwnPutTrees ==
    ASSUME FInv, TInv, InsertExtents, Len(stack) = 1
    PROVE  TInv'
<1>1. /\ At("put") /\ Continue(Tail(Top.todo))
      /\ recs' = With(Over(Top.leaf, recs), Step.key, Step.ext)
      /\ UNCHANGED <<desc, extents, given>>
  BY DEF InsertExtents
<1>2. stack # <<>> /\ Top.todo # <<>> /\ Step.do = "put" /\ Step = Head(Top.todo)
  BY <1>1 DEF At, Step
<1>3. ~torn /\ Named /\ Nested /\ InProgress
  BY <1>2, Ongoing
<1>4. Drawn /\ Shallow
  BY <1>3, OneIsShallow
<1>5. Op = Top /\ Top = stack[1]
  BY <1>2, <1>3, Ends
<1>6. Stage("put")
  <2>1. Stage(Head(Op.todo).do)
    BY <1>3, Staged
  <2> QED
    BY <2>1, <1>2, <1>5
<1>7. PICK j \in Nat : /\ Filing(j) /\ j < Groups(given[Op.id])
                       /\ Ahead(Op.todo, insertExtentRecords(Op.id, given[Op.id])[j + 1],
                                From(CreateSteps(Op.id, given[Op.id]), j + 1))
  BY <1>6 DEF Stage
<1>8. Op.id \in DOMAIN given /\ Op.id \notin DOMAIN desc
  BY <1>7 DEF Filing
<1>9. Op.id \notin Trees
  BY <1>3, <1>8 DEF Named
<1>10. PICK id, g : id = Op.id /\ g = given[Op.id]
  OBVIOUS
<1>11. g \in Seq(Inside)
  BY <1>3, <1>8, <1>10, GivenFacts
<1>12. Step.key = <<id, BlocksUpTo(g)[(j + 1) * InlineExtents]>>
  <2>1. Step = insertExtentRecords(id, g)[j + 1]
    BY <1>2, <1>5, <1>7, <1>10, Zenon DEF Ahead
  <2>2. j + 1 \in 1 .. Groups(g) /\ Groups(g) \in Nat
    <3>1. Groups(g) \in Nat
      BY <1>11, GroupPlaces
    <3> QED
      BY <3>1, <1>7, <1>10
  <2>3. insertExtentRecords(id, g)[j + 1].key = <<id, BlocksUpTo(g)[(j + 1) * InlineExtents]>>
    BY <2>2, <1>11, RecordFacts
  <2> QED
    BY <2>1, <2>3, Zenon
<1>13. Step.key[1] = Op.id
  BY <1>10, <1>12
<1>14. PICK none : none = <<>>
  OBVIOUS
<1>15. Top.leaf = none
  <2>1. 1 \in 1 .. Len(stack)
    OBVIOUS
  <2> QED
    BY <2>1, <1>4, <1>5, <1>14, Zenon DEF Drawn, Plain
<1>16. \A t \in Trees : SameFor(recs, recs', t)
  <2> SUFFICES ASSUME NEW t \in Trees PROVE SameFor(recs, recs', t)
    OBVIOUS
  <2>1. PICK rs, qs, k0, e : rs = recs /\ qs = recs' /\ k0 = Step.key /\ e = Step.ext
    OBVIOUS
  <2>2. qs = With(Over(none, rs), k0, e) /\ t # k0[1]
    BY <2>1, <1>1, <1>9, <1>13, <1>15
  <2>3. SameFor(rs, qs, t)
    BY <2>2, <1>14, PutAside, Zenon
  <2> QED
    BY <2>1, <2>3, Zenon
<1>17. Len(stack') = 1 /\ Plain(stack'[1])
  BY <1>1, <1>2, <1>3, ContinuePlain
<1>18. \A t \in Trees : extents'[t] = given[t]
  BY <1>1, <1>2, <1>4 DEF Drawn
<1>19. TreesStay
  BY <1>1, <1>16, <1>17, <1>18 DEF TreesStay
<1> QED
  BY <1>4, <1>19, StayKeeps

\* A call that serves and has steps left records the catalog's extents.
LEMMA DeepTop ==
    ASSUME FInv, TInv, stack # <<>>, Top.todo # <<>>, Len(stack) # 1
    PROVE  /\ edited /\ Len(stack) = 2 /\ Drawn
           /\ \E j \in Nat : GrowingCatalog(Top, j) /\ j < Groups(given[CatalogFile])
<1>1. ~torn /\ Named /\ Nested
  BY Ongoing
<1>2. Top = stack[1]
  BY <1>1, Ends
<1>3. Drawn /\ Deep
  BY <1>1 DEF TInv, Shallow
<1>4. PICK j \in Nat : edited /\ Len(stack) = 2 /\ GrowingCatalog(Top, j)
  BY <1>2, <1>3 DEF Deep, GrownExtents
<1>5. PICK g : g = given[CatalogFile]
  OBVIOUS
<1>6. g \in Seq(Inside)
  BY <1>1, <1>5 DEF Named, GoodLists, Trees
<1>7. PICK s : s = insertExtentRecords(CatalogFile, g)
  OBVIOUS
<1>8. IsSeq(s) /\ Len(s) = Groups(g) /\ Groups(g) \in Nat
  BY <1>6, <1>7, RecordFacts
<1>9. j \in 0 .. Groups(g) /\ Top.todo = From(s, j)
  BY <1>4, <1>5, <1>7, Zenon DEF GrowingCatalog
<1>10. j # Groups(g)
  <2>1. From(s, Len(s)) = <<>>
    BY <1>8, FromEnds
  <2> QED
    BY <2>1, <1>8, <1>9
<1> QED
  BY <1>3, <1>4, <1>5, <1>8, <1>9, <1>10

\* It puts the next one.
LEMMA ServingPutTrees ==
    ASSUME FInv, TInv, InsertExtents, Len(stack) # 1
    PROVE  TInv'
<1>1. /\ At("put") /\ Continue(Tail(Top.todo)) /\ edited' = TRUE
      /\ recs' = With(Over(Top.leaf, recs), Step.key, Step.ext)
      /\ desc' = desc /\ extents' = extents /\ given' = given
  BY DEF InsertExtents
<1>2. stack # <<>> /\ Top.todo # <<>> /\ Step = Head(Top.todo)
  BY <1>1 DEF At, Step
<1>3. ~torn /\ Named /\ Nested /\ Typed
  BY <1>2, Ongoing
<1>4. Len(stack) = 2 /\ Drawn
  BY <1>2, DeepTop
<1>5. PICK j \in Nat : GrowingCatalog(Top, j) /\ j < Groups(given[CatalogFile])
  BY <1>2, DeepTop
<1>6. PICK id, g : id = CatalogFile /\ g = given[CatalogFile]
  OBVIOUS
<1>7. g \in Seq(Inside)
  BY <1>3, <1>6 DEF Named, GoodLists, Trees
<1>8. PICK s : s = insertExtentRecords(id, g)
  OBVIOUS
<1>9. IsSeq(s) /\ Len(s) = Groups(g) /\ Groups(g) \in Nat
  BY <1>7, <1>8, RecordFacts
<1>10. /\ Top.id = id /\ j \in 0 .. Groups(g) /\ Top.todo = From(s, j) /\ j < Groups(g)
       /\ Recorded(recs, id, g, j, Groups(g))
  BY <1>5, <1>6, <1>8, Zenon DEF GrowingCatalog
<1>11. Step = s[j + 1] /\ Tail(Top.todo) = From(s, j + 1)
  <2>1. j \in 0 .. Len(s) - 1
    BY <1>9, <1>10
  <2> QED
    BY <2>1, <1>2, <1>9, <1>10, FromNext
<1>12. PICK b : b = BlocksUpTo(g)[(j + 1) * InlineExtents]
  OBVIOUS
<1>13. j + 1 \in 1 .. Groups(g)
  BY <1>9, <1>10
<1>14. Step.key = <<id, b>> /\ Step.ext = Group(g, j + 1)
  BY <1>7, <1>8, <1>11, <1>12, <1>13, RecordFacts
<1>15. b \in Nat /\ Group(g, j + 1) \in Seq(Inside)
  BY <1>7, <1>12, <1>13, KeysAscend, GroupFacts
<1>16. PICK none : none = <<>>
  OBVIOUS
<1>17. Top.leaf = none
  <2>1. 1 \in 1 .. Len(stack) /\ Top = stack[1]
    BY <1>2, <1>3, <1>4, Ends
  <2> QED
    BY <2>1, <1>4, <1>16, Zenon DEF Drawn, Plain
<1>18. PICK rs, qs, e : rs = recs /\ qs = recs' /\ e = Step.ext
  OBVIOUS
<1>19. qs = With(Over(none, rs), <<id, b>>, e)
  BY <1>1, <1>14, <1>17, <1>18
<1>20. Inserted(qs, rs, id, b, Group(g, j + 1))
  <2>1. LeafOK(none) /\ Keyed(rs) /\ id \in Nat /\ e = Group(g, j + 1)
    BY <1>3, <1>6, <1>14, <1>16, <1>18, NoLeaf DEF Typed, CatalogFile
  <2>2. Inserted(qs, rs, id, b, e)
    BY <2>1, <1>15, <1>19, Inserts
  <2> QED
    BY <2>1, <2>2
<1>21. Recorded(qs, id, g, j + 1, Groups(g))
  <2>1. id # ExtentsFile /\ j + 1 <= Groups(g) /\ Groups(g) <= Groups(g)
    BY <1>6, <1>9, <1>13 DEF CatalogFile, ExtentsFile
  <2>2. Recorded(rs, id, g, j, Groups(g))
    BY <1>10, <1>18
  <2> QED
    BY <2>1, <2>2, <1>7, <1>9, <1>12, <1>20, RecordedMore
<1>22. SameFor(rs, qs, ExtentsFile)
  <2>1. PICK k0 : k0 = <<id, b>>
    OBVIOUS
  <2>2. ExtentsFile # k0[1]
    BY <2>1, <1>6 DEF CatalogFile, ExtentsFile
  <2> QED
    BY <2>1, <2>2, <1>16, <1>19, PutAside, Zenon
<1>23. InTree(recs', given', ExtentsFile)
  <2>1. PICK h : h = given[ExtentsFile]
    OBVIOUS
  <2>2. Recorded(rs, ExtentsFile, h, Groups(h), Groups(h))
    BY <2>1, <1>4, <1>18, Zenon DEF Drawn, InTree
  <2>3. Recorded(qs, ExtentsFile, h, Groups(h), Groups(h))
    BY <2>2, <1>22, RecordedStays, Zenon
  <2> QED
    BY <2>1, <2>3, <1>1, <1>18, Zenon DEF InTree
<1>24. /\ Len(stack') = 2 /\ stack' # <<>> /\ stack'[2] = stack[2]
       /\ stack'[1].id = Top.id /\ stack'[1].todo = Tail(Top.todo) /\ Plain(stack'[1])
  <2>1. PICK todo : todo = Tail(Top.todo)
    OBVIOUS
  <2>2. /\ Len(stack') = Len(stack) /\ stack' # <<>>
        /\ stack'[1] = [id |-> Top.id, size |-> Top.size, todo |-> todo,
                        grown |-> FALSE, low |-> FALSE, leaf |-> <<>>]
        /\ \A i \in 2 .. Len(stack) : stack'[i] = stack[i]
    BY <2>1, <1>1, <1>2, <1>3, ContinueFacts
  <2>3. stack'[1].id = Top.id /\ stack'[1].todo = todo /\ stack'[1].low = FALSE /\ stack'[1].leaf = none
    BY <2>2, <1>16
  <2>4. 2 \in 2 .. Len(stack)
    BY <1>4
  <2> QED
    BY <2>1, <2>2, <2>3, <2>4, <1>4, <1>16, Zenon DEF Plain
<1>25. \A i \in 1 .. Len(stack') : Plain(stack'[i])
  <2>1. \A i \in 1 .. 2 : i = 1 \/ i = 2
    OBVIOUS
  <2>2. Plain(stack[2])
    <3>1. 2 \in 1 .. Len(stack)
      BY <1>4
    <3> QED
      BY <3>1, <1>4 DEF Drawn
  <2> QED
    BY <2>1, <2>2, <1>24, Zenon
<1>26. Drawn'
  BY <1>1, <1>2, <1>4, <1>23, <1>24, <1>25 DEF Drawn
<1>27. GrowingCatalog(stack[1], j + 1)'
  <2>1. j + 1 \in 0 .. Groups(g)
    BY <1>13, <1>9
  <2>2. given'[CatalogFile] = g
    BY <1>1, <1>6
  <2>3. stack'[1].id = CatalogFile
    BY <1>6, <1>10, <1>24
  <2>4. stack'[1].todo = From(insertExtentRecords(CatalogFile, g), j + 1)
    BY <1>6, <1>8, <1>11, <1>24, Zenon
  <2>5. Recorded(recs', CatalogFile, g, j + 1, Groups(g))
    BY <1>6, <1>18, <1>21, Zenon
  <2> QED
    BY <2>1, <2>2, <2>3, <2>4, <2>5, Zenon DEF GrowingCatalog
<1>28. Deep'
  <2>1. j + 1 \in Nat
    OBVIOUS
  <2> QED
    BY <2>1, <1>1, <1>24, <1>27 DEF Deep
<1> QED
  BY <1>26, <1>28 DEF TInv

\* InsertExtents.
LEMMA PutTrees ==
    ASSUME FInv, TInv, InsertExtents
    PROVE  TInv'
BY OwnPutTrees, ServingPutTrees

-----------------------------------------------------------------------------
(* Growth.                                                                 *)

\* The records of a list come first among those of a longer one.
LEMMA LongerRecords ==
    ASSUME NEW h \in Seq(Inside), NEW g \in Seq(Inside), NEW all, all = h \o g, NEW id, NEW rs,
           Recorded(rs, id, h, Groups(h), Groups(h))
    PROVE  Recorded(rs, id, all, 0, Groups(all))
<1> DEFINE I == InlineExtents
<1>1. all \in Seq(Inside) /\ Len(all) = Len(h) + Len(g) /\ Len(h) \in Nat /\ Len(g) \in Nat
  OBVIOUS
<1>2. h \in Seq(Extents) /\ g \in Seq(Extents)
  BY InsideList
<1>3. \A i \in 0 .. Len(h) : BlocksUpTo(all)[i] = BlocksUpTo(h)[i]
  BY <1>2, CountedBoth
<1>4. I \in Nat \ {0}
  BY ForksAssumption
<1>5. Groups(h) \in Nat /\ Groups(all) \in Nat
      /\ (\A i \in 1 .. Groups(h) : i * I \in Nat /\ i * I < Len(h))
      /\ Len(all) <= (Groups(all) + 1) * I
  BY <1>1, GroupPlaces
<1>6. \A i, j \in Nat : i < j => i * I + I <= j * I
  BY <1>4, Multiples
<1>7. \A i \in Nat : i * I \in Nat
  BY <1>4, Multiples
<1> HIDE DEF I
<1>8. \A i \in 1 .. Groups(h) : i \in 1 .. Groups(all)
  <2> SUFFICES ASSUME NEW i \in 1 .. Groups(h), i > Groups(all) PROVE FALSE
    BY <1>5
  <2>1. PICK m \in Nat : m = Groups(all) + 1
    BY <1>5
  <2>2. i \in Nat /\ m <= i
    BY <2>1, <1>5
  <2>3. m * I <= i * I /\ m * I \in Nat /\ i * I \in Nat
    <3>1. CASE m = i
      BY <3>1, <2>2, <1>7
    <3>2. CASE m < i
      BY <3>2, <2>2, <1>4, <1>6, <1>7
    <3> QED
      BY <3>1, <3>2, <2>2
  <2>4. i * I < Len(h) /\ Len(all) <= m * I
    BY <2>1, <1>5
  <2> QED
    BY <2>3, <2>4, <1>1
<1>9. \A i \in 1 .. Groups(h) : BlocksUpTo(all)[i * I] = BlocksUpTo(h)[i * I]
  <2> SUFFICES ASSUME NEW i \in 1 .. Groups(h) PROVE BlocksUpTo(all)[i * I] = BlocksUpTo(h)[i * I]
    OBVIOUS
  <2>1. i * I \in 0 .. Len(h)
    BY <1>1, <1>5
  <2> QED
    BY <2>1, <1>3
<1>10. \A k \in DOMAIN rs : k[1] = id => \E i \in 1 .. Groups(all) : k = <<id, BlocksUpTo(all)[i * I]>>
  <2> SUFFICES ASSUME NEW k \in DOMAIN rs, k[1] = id
               PROVE  \E i \in 1 .. Groups(all) : k = <<id, BlocksUpTo(all)[i * I]>>
    OBVIOUS
  <2>1. PICK i \in 1 .. Groups(h) : k = <<id, BlocksUpTo(h)[i * I]>>
    BY Zenon DEF Recorded, I
  <2>2. i \in 1 .. Groups(all) /\ BlocksUpTo(all)[i * I] = BlocksUpTo(h)[i * I]
    BY <1>8, <1>9, Zenon
  <2> QED
    BY <2>1, <2>2, Zenon
<1>11. \A i \in 1 .. 0 : FALSE
  OBVIOUS
<1> QED
  BY <1>10, <1>11, Zenon DEF Recorded, I

\* The descriptor, the writer and the waiting calls after growth.
LEMMA GrowDrawn ==
    ASSUME ~SelfSpill, FInv, TInv, NEW t, NEW g, NEW all, NEW fr, NEW top, NEW leaf,
           Grows(t, FALSE, g, all, fr, top, leaf)
    PROVE  /\ Drawn' /\ given'[t] = all /\ all \in Seq(Inside) /\ all = given[t] \o g /\ g \in Seq(Inside)
           /\ \A u \in Trees : u # t => given'[u] = given[u]
           /\ recs' = recs /\ edited' = TRUE
           /\ Pushed(stack', stack, fr, top)
<1>1. /\ stack # <<>> /\ Top.todo # <<>> /\ Inserting(t) /\ t \in Trees
      /\ GivenRuns(g, bitmap, GrowBlocks) /\ all = extents[t] \o g
      /\ IsNew(fr, t, 0, insertExtentRecords(t, all)) /\ Waits(top, Top, FALSE, leaf)
      /\ SelfSpill \/ t = CatalogFile \/ Len(all) <= InlineExtents
      /\ stack' = <<fr, top>> \o Tail(stack) /\ edited' = TRUE /\ recs' = recs
  BY DEF Grows
<1>2. leaf = <<>>
  BY Zenon DEF Grows
<1>3. ~torn /\ Named /\ Nested
  BY <1>1, Ongoing
<1>4. Drawn
  BY <1>3 DEF TInv
<1>50. PICK low : low = FALSE
  OBVIOUS
<1>51. Grows(t, low, g, all, fr, top, leaf)
  BY <1>50, Zenon
<1>5. /\ DOMAIN given' = DOMAIN given
      /\ given'[t] = given[t] \o g /\ \A f \in DOMAIN given : f # t => given'[f] = given[f]
      /\ all \in Seq(Inside) /\ g \in Seq(Inside)
      /\ extents'[t] = all /\ \A u \in Trees : u # t => extents'[u] = extents[u]
      /\ \A f \in DOMAIN desc : f # t => desc'[f] = desc[f]
  BY <1>51, GrowsLists
<1>6. all = given[t] \o g /\ given'[t] = all
  BY <1>1, <1>4, <1>5 DEF Drawn
<1>7. Trees \subseteq DOMAIN given /\ Trees \subseteq DOMAIN desc
  BY <1>3 DEF Named
<1>8. desc'[t] = TreeFork(all)
  <2>1. desc'[t] = Fork((desc[t].total + GrowBlocks) * BlockSize, desc[t].total + GrowBlocks, InlinePart(all))
    BY <1>51, GrowsLists
  <2>2. PICK h : h = given[t]
    OBVIOUS
  <2>3. h \in Seq(Extents) /\ g \in Seq(Extents)
    <3>1. h \in Seq(Inside)
      BY <2>2, <1>1, <1>3 DEF Named, GoodLists
    <3> QED
      BY <3>1, <1>5, InsideList
  <2>4. Counted(all) = Counted(h) + GrowBlocks
    BY <2>2, <2>3, <1>1, <1>6, CountedBoth DEF GivenRuns
  <2>5. desc[t].total = Counted(h)
    <3>1. PICK a, b, c : a = Counted(h) * BlockSize /\ b = Counted(h) /\ c = InlinePart(h)
      OBVIOUS
    <3>2. desc[t] = Fork(a, b, c)
      BY <3>1, <2>2, <1>1, <1>4, Zenon DEF Drawn, TreeFork
    <3>3. Fork(a, b, c).total = b
      BY DEF Fork
    <3> QED
      BY <3>1, <3>2, <3>3, Zenon
  <2> QED
    BY <2>1, <2>4, <2>5, Zenon DEF TreeFork
<1>9. \A u \in Trees : desc'[u] = TreeFork(given'[u])
  <2> SUFFICES ASSUME NEW u \in Trees PROVE desc'[u] = TreeFork(given'[u])
    OBVIOUS
  <2>1. CASE u = t
    BY <2>1, <1>6, <1>8
  <2>2. CASE u # t
    BY <2>2, <1>4, <1>5, <1>7 DEF Drawn
  <2> QED
    BY <2>1, <2>2
<1>10. Len(given'[ExtentsFile]) <= InlineExtents
  <2>1. CASE t = ExtentsFile
    BY <2>1, <1>1, <1>6 DEF ExtentsFile, CatalogFile
  <2>2. CASE t # ExtentsFile
    BY <2>2, <1>4, <1>5, <1>7 DEF Drawn, Trees
  <2> QED
    BY <2>1, <2>2
<1>11. \A u \in Trees : extents'[u] = given'[u]
  <2> SUFFICES ASSUME NEW u \in Trees PROVE extents'[u] = given'[u]
    OBVIOUS
  <2>1. CASE u = t
    BY <2>1, <1>5, <1>6
  <2>2. CASE u # t
    BY <2>2, <1>1, <1>4, <1>5, <1>7 DEF Drawn
  <2> QED
    BY <2>1, <2>2
<1>12. Pushed(stack', stack, fr, top)
  <2>1. IsSeq(stack)
    BY <1>3 DEF Nested
  <2>2. PICK q : q = stack'
    OBVIOUS
  <2>3. q = <<fr, top>> \o Tail(stack)
    BY <2>2, <1>1
  <2>4. Pushed(q, stack, fr, top)
    BY <2>1, <2>3, <1>1, PushedIs, Zenon
  <2> QED
    BY <2>2, <2>4, Zenon
<1>13. Plain(fr) /\ Plain(top)
  BY <1>1, <1>2, Zenon DEF Plain, IsNew, Waits
<1>14. \A i \in 1 .. Len(stack') : Plain(stack'[i])
  <2>1. PICK l \in Nat : l = Len(stack)
    BY <1>1, <1>3, Ends
  <2>2. /\ Len(stack') = l + 1 /\ stack'[1] = fr /\ stack'[2] = top
        /\ \A i \in 2 .. l : stack'[i + 1] = stack[i]
    BY <2>1, <1>12, Zenon DEF Pushed
  <2>3. \A i \in 1 .. l : Plain(stack[i])
    BY <2>1, <1>4 DEF Drawn
  <2> SUFFICES ASSUME NEW i \in 1 .. l + 1 PROVE Plain(stack'[i])
    BY <2>2
  <2>4. CASE i = 1
    BY <2>2, <2>4, <1>13
  <2>5. CASE i = 2
    BY <2>2, <2>5, <1>13
  <2>6. CASE i # 1 /\ i # 2
    <3>1. PICK k : k = i - 1
      OBVIOUS
    <3>2. k \in 2 .. l /\ i = k + 1 /\ k \in 1 .. l
      BY <3>1, <2>6
    <3> QED
      BY <3>2, <2>2, <2>3
  <2> QED
    BY <2>4, <2>5, <2>6
<1>15. InTree(recs', given', ExtentsFile)
  <2>1. PICK h, x : h = given[ExtentsFile] /\ x = given'[ExtentsFile]
    OBVIOUS
  <2>2. h \in Seq(Inside) /\ x \in Seq(Inside)
    <3>1. h \in Seq(Inside)
      BY <2>1, <1>3 DEF Named, GoodLists, Trees
    <3>2. CASE t = ExtentsFile
      BY <3>1, <3>2, <2>1, <1>5, <1>6
    <3>3. CASE t # ExtentsFile
      BY <3>1, <3>3, <2>1, <1>5, <1>7 DEF Trees
    <3> QED
      BY <3>1, <3>2, <3>3
  <2>3. Groups(h) = 0 /\ Groups(x) = 0
    <3>1. Len(h) <= InlineExtents /\ Len(x) <= InlineExtents
      BY <2>1, <1>4, <1>10 DEF Drawn
    <3> QED
      BY <3>1, <2>2, GroupPlaces
  <2>4. Recorded(recs, ExtentsFile, h, 0, 0)
    BY <2>1, <2>3, <1>4 DEF Drawn, InTree
  <2>5. \A i \in 1 .. 0 : FALSE
    OBVIOUS
  <2>6. Recorded(recs, ExtentsFile, x, 0, 0)
    BY <2>4, <2>5, Zenon DEF Recorded
  <2> QED
    BY <2>1, <2>3, <2>6, <1>1 DEF InTree
<1>16. Drawn'
  BY <1>9, <1>10, <1>11, <1>14, <1>15 DEF Drawn
<1> QED
  BY <1>1, <1>5, <1>6, <1>7, <1>12, <1>16

\* A list that fits in the descriptor has no records.
LEMMA FitsInline ==
    ASSUME NEW g \in Seq(Inside), Len(g) <= InlineExtents, NEW id
    PROVE  insertExtentRecords(id, g) = <<>>
<1>1. PICK s : s = insertExtentRecords(id, g)
  OBVIOUS
<1>2. IsSeq(s) /\ Len(s) = Groups(g)
  BY <1>1, RecordFacts
<1>3. Groups(g) = 0
  BY GroupPlaces
<1> QED
  BY <1>1, <1>2, <1>3, SeqFacts

\* growFork.
LEMMA GrowTrees ==
    ASSUME ~SelfSpill, FInv, TInv, NEW t \in Trees, NEW low \in Leftmost, growFork(t, low)
    PROVE  TInv'
<1>1. low = FALSE
  BY DEF Leftmost
<1>2. PICK g, all, fr, top, leaf : Grows(t, low, g, all, fr, top, leaf)
  BY GrowsIs
<1>3. /\ Drawn' /\ given'[t] = all /\ all \in Seq(Inside) /\ all = given[t] \o g /\ g \in Seq(Inside)
      /\ \A u \in Trees : u # t => given'[u] = given[u]
      /\ recs' = recs /\ edited' = TRUE
      /\ Pushed(stack', stack, fr, top)
  BY <1>1, <1>2, GrowDrawn
<1>4. /\ stack # <<>> /\ Top.todo # <<>> /\ Inserting(t)
      /\ IsNew(fr, t, 0, insertExtentRecords(t, all)) /\ Waits(top, Top, low, leaf)
      /\ t = CatalogFile \/ Len(all) <= InlineExtents
  BY <1>2, Zenon DEF Grows
<1>5. fr.id = t /\ fr.todo = insertExtentRecords(t, all) /\ top.id = Top.id /\ top.todo = Top.todo
  BY <1>4, Zenon DEF IsNew, Waits
<1>6. ~torn
  BY <1>4, Ongoing
<1>7. Len(stack') = Len(stack) + 1 /\ stack'[1] = fr /\ stack'[2] = top
  BY <1>3, Zenon DEF Pushed
<1>8. CASE t = ExtentsFile
  <2>1. Len(all) <= InlineExtents /\ fr.id = ExtentsFile
    BY <1>4, <1>5, <1>8 DEF CatalogFile, ExtentsFile
  <2>2. fr.todo = <<>>
    BY <2>1, <1>3, <1>5, FitsInline
  <2>3. given'[CatalogFile] = given[CatalogFile]
    BY <1>3, <1>8 DEF Trees, CatalogFile, ExtentsFile
  <2>4. GrownExtents(stack[1])'
    BY <2>1, <2>2, <1>7 DEF GrownExtents
  <2>5. CASE Len(stack) = 1
    <3>1. InTree(recs, given, CatalogFile)
      BY <2>5, <1>6, OneIsShallow DEF Shallow
    <3>2. InTree(recs', given', CatalogFile)
      BY <3>1, <2>3, <1>3 DEF InTree
    <3>3. Len(stack') = 2
      BY <2>5, <1>7
    <3> QED
      BY <3>2, <3>3, <2>4, <1>3 DEF TInv, Deep
  <2>6. CASE Len(stack) # 1
    <3>1. Len(stack) = 2
      BY <2>6, <1>4, DeepTop
    <3>2. PICK j \in Nat : GrowingCatalog(Top, j)
      BY <2>6, <1>4, DeepTop
    <3>3. GrowingCatalog(stack[2], j)'
      BY <3>2, <2>3, <1>3, <1>5, <1>7 DEF GrowingCatalog
    <3>4. Len(stack') = 3
      BY <3>1, <1>7
    <3> QED
      BY <3>3, <3>4, <2>4, <1>3 DEF TInv, Deep
  <2> QED
    BY <2>5, <2>6
<1>9. CASE t = CatalogFile
  <2>1. At("record") \/ At("thread")
    BY <1>4, <1>9 DEF Inserting, CatalogFile, ExtentsFile
  <2>2. Len(stack) = 1
    BY <2>1, Busy
  <2>3. InTree(recs, given, CatalogFile) /\ Named
    BY <2>2, <1>4, <1>6, OneIsShallow, Ongoing DEF Shallow
  <2>4. PICK h, id, rs : h = given[CatalogFile] /\ id = CatalogFile /\ rs = recs
    OBVIOUS
  <2>5. h \in Seq(Inside) /\ all = h \o g /\ Recorded(rs, id, h, Groups(h), Groups(h))
    BY <2>3, <2>4, <1>3, <1>9 DEF InTree, Named, GoodLists, Trees
  <2>6. Recorded(rs, id, all, 0, Groups(all))
    BY <2>5, <1>3, LongerRecords
  <2>7. PICK s : s = insertExtentRecords(id, all)
    OBVIOUS
  <2>8. IsSeq(s) /\ Groups(all) \in Nat
    BY <2>7, <1>3, RecordFacts
  <2>9. fr.todo = From(s, 0)
    BY <2>4, <2>7, <2>8, <1>5, <1>9, FromEnds
  <2>10. 0 \in 0 .. Groups(all)
    BY <2>8
  <2>11. GrowingCatalog(stack[1], 0)'
    <3>1. given'[CatalogFile] = all /\ stack'[1].id = CatalogFile
      BY <1>3, <1>5, <1>7, <1>9
    <3>2. stack'[1].todo = From(insertExtentRecords(CatalogFile, all), 0)
      BY <2>4, <2>7, <2>9, <1>7
    <3>3. Recorded(recs', CatalogFile, all, 0, Groups(all))
      BY <2>4, <2>6, <1>3
    <3> QED
      BY <3>1, <3>2, <3>3, <2>10, Zenon DEF GrowingCatalog
  <2>12. Len(stack') = 2
    BY <2>2, <1>7
  <2>13. Deep'
    <3>1. 0 \in Nat
      OBVIOUS
    <3> QED
      BY <3>1, <2>11, <2>12, <1>3 DEF Deep
  <2> QED
    BY <2>13, <1>3 DEF TInv
<1> QED
  BY <1>8, <1>9 DEF Trees

\* Grown.
LEMMA GrownTrees ==
    ASSUME FInv, TInv, Grown
    PROVE  TInv'
<1>1. stack # <<>> /\ Top.todo = <<>> /\ stack' = Tail(stack)
      /\ UNCHANGED <<desc, recs, extents, edited, torn, given>>
  BY DEF Grown
<1>2. ~torn /\ Named /\ Nested /\ InProgress
  BY <1>1, Ongoing
<1>3. Op.todo # <<>>
  BY <1>2, Staged
<1>4. Len(stack) # 1
  BY <1>1, <1>2, <1>3, Ends
<1>5. Drawn /\ Deep
  BY <1>1, <1>2, <1>4 DEF TInv, Shallow
<1>6. PICK l \in Nat : l = Len(stack)
  BY <1>1, <1>2, Ends
<1>7. Len(stack') = l - 1 /\ \A i \in 1 .. l - 1 : stack'[i] = stack[i + 1]
  BY <1>1, <1>2, <1>6, SeqParts, Zenon DEF Nested
<1>8. l = 2 \/ l = 3
  BY <1>5, <1>6 DEF Deep
<1>9. Drawn'
  <2>1. \A i \in 1 .. Len(stack') : Plain(stack'[i])
    <3> SUFFICES ASSUME NEW i \in 1 .. l - 1 PROVE Plain(stack'[i])
      BY <1>7
    <3>1. i + 1 \in 1 .. l /\ stack'[i] = stack[i + 1]
      BY <1>7
    <3> QED
      BY <3>1, <1>5, <1>6 DEF Drawn
  <2> QED
    BY <2>1, <1>1, <1>5 DEF Drawn
<1>10. Top = stack[1]
  BY <1>1, <1>2, Ends
<1>11. ASSUME l = 2, InTree(recs, given, CatalogFile) PROVE TInv'
  <2>1. Len(stack') = 1
    BY <1>7, <1>11
  <2> QED
    BY <2>1, <1>1, <1>9, <1>11 DEF TInv, Shallow
<1>12. ASSUME l = 2, NEW j \in Nat, GrowingCatalog(stack[1], j) PROVE TInv'
  <2>1. PICK g, s : g = given[CatalogFile] /\ s = insertExtentRecords(CatalogFile, g)
    OBVIOUS
  <2>2. g \in Seq(Inside)
    BY <2>1, <1>2 DEF Named, GoodLists, Trees
  <2>3. IsSeq(s) /\ Len(s) = Groups(g) /\ Groups(g) \in Nat
    BY <2>1, <2>2, RecordFacts
  <2>4. /\ j \in 0 .. Groups(g) /\ Top.todo = From(s, j)
        /\ Recorded(recs, CatalogFile, g, j, Groups(g))
    BY <2>1, <1>10, <1>12, Zenon DEF GrowingCatalog
  <2>5. j = Groups(g)
    <3>1. j # Groups(g) => j \in 0 .. Len(s) - 1
      BY <2>3, <2>4
    <3> QED
      BY <3>1, <2>3, <2>4, <1>1, FromNext
  <2>6. InTree(recs, given, CatalogFile)
    BY <2>1, <2>4, <2>5 DEF InTree
  <2> QED
    BY <2>6, <1>11, <1>12
<1>13. ASSUME l = 3, NEW j \in Nat, GrowingCatalog(stack[2], j), edited PROVE TInv'
  <2>1. Len(stack') = 2 /\ stack'[1] = stack[2]
    <3>1. 1 \in 1 .. l - 1 /\ 1 + 1 = 2 /\ l - 1 = 2
      BY <1>13
    <3> QED
      BY <3>1, <1>7
  <2>2. GrowingCatalog(stack[1], j)'
    BY <2>1, <1>1, <1>13 DEF GrowingCatalog
  <2> QED
    BY <2>1, <2>2, <1>1, <1>9, <1>13 DEF TInv, Deep
<1> QED
  BY <1>5, <1>6, <1>11, <1>12, <1>13 DEF Deep

-----------------------------------------------------------------------------
(* The invariant of the trees' forks.                                      *)

\* It holds of what mkfs leaves.
LEMMA TreesStart == ForksInit => TInv
<1> SUFFICES ASSUME ForksInit PROVE TInv
  OBVIOUS
<1>1. FInv /\ stack = <<>> /\ recs = <<>> /\ ~torn /\ given = [t \in Trees |-> given[t]]
  BY StartsOrderly DEF ForksInit
<1>2. Idle
  BY <1>1 DEF Idle
<1>3. Named
  BY <1>1, <1>2, AtRest
<1>4. \A t \in Trees : Len(given[t]) = 1 /\ given[t] \in Seq(Inside) /\ given[t] = <<FirstRun[t]>>
  <2> SUFFICES ASSUME NEW t \in Trees
               PROVE  Len(given[t]) = 1 /\ given[t] \in Seq(Inside) /\ given[t] = <<FirstRun[t]>>
    OBVIOUS
  <2>1. given[t] \in Seq(Inside)
    BY <1>3 DEF Named, GoodLists
  <2>2. given[t] = <<FirstRun[t]>>
    BY Zenon DEF ForksInit, FirstRun
  <2> QED
    BY <2>1, <2>2, SeqShort
<1>41. InlineExtents \in Nat /\ 1 <= InlineExtents
  BY ForksAssumption
<1>42. \A t \in Trees : Len(given[t]) <= InlineExtents
  <2> SUFFICES ASSUME NEW t \in Trees PROVE Len(given[t]) <= InlineExtents
    OBVIOUS
  <2>1. Len(given[t]) = 1
    BY <1>4, Zenon
  <2> QED
    BY <2>1, <1>41
<1>5. \A t \in Trees : desc[t] = TreeFork(given[t])
  <2> SUFFICES ASSUME NEW t \in Trees PROVE desc[t] = TreeFork(given[t])
    OBVIOUS
  <2>1. desc[t] = Fork(Counted(given[t]) * BlockSize, Counted(given[t]), given[t])
    BY Zenon DEF ForksInit
  <2>2. InlinePart(given[t]) = given[t]
    <3>1. PICK g, p, m : g = given[t] /\ p = InlinePart(g) /\ m = Min({InlineExtents, Len(g)})
      OBVIOUS
    <3>2. g \in Seq(Inside) /\ Len(g) = 1 /\ Len(g) <= InlineExtents
      BY <3>1, <1>4, <1>42
    <3>3. p \in Seq(Inside) /\ Len(p) = m /\ m = Len(g) /\ \A i \in 1 .. m : p[i] = g[i]
      <4>1. /\ Len(g) <= InlineExtents => m = Len(g)
            /\ InlinePart(g) \in Seq(Inside) /\ Len(InlinePart(g)) = m
            /\ \A i \in 1 .. m : InlinePart(g)[i] = g[i]
        <5>1. m = Min({InlineExtents, Len(g)}) /\ g \in Seq(Inside)
          BY <3>1, <3>2, Zenon
        <5> QED
          BY <5>1, PartFacts
      <4> QED
        BY <4>1, <3>1, <3>2, Zenon
    <3>4. p = g
      BY <3>2, <3>3, SeqSame DEF IsSeq
    <3> QED
      BY <3>1, <3>4
  <2> QED
    BY <2>1, <2>2, Zenon DEF TreeFork
<1>6. Len(given[ExtentsFile]) <= InlineExtents
  BY <1>42 DEF Trees
<1>7. \A t \in Trees : InTree(recs, given, t)
  <2> SUFFICES ASSUME NEW t \in Trees PROVE InTree(recs, given, t)
    OBVIOUS
  <2>1. Groups(given[t]) = 0
    <3>1. Len(given[t]) <= InlineExtents
      BY <1>42, Zenon
    <3> QED
      BY <3>1, <1>4, GroupPlaces
  <2>2. DOMAIN recs = {} /\ \A i \in 1 .. 0 : FALSE
    BY <1>1
  <2> QED
    BY <2>1, <2>2 DEF InTree, Recorded
<1>8. \A i \in 1 .. Len(stack) : Plain(stack[i])
  <2>1. Len(stack) = 0 /\ \A i \in 1 .. 0 : FALSE
    BY <1>1, SeqShort
  <2> QED
    BY <2>1, Zenon
<1> QED
  BY <1>1, <1>5, <1>6, <1>7, <1>8 DEF TInv, Drawn, Shallow, Trees

\* Every step keeps it, as long as the extents file does not overflow.
LEMMA StepTrees ==
    ASSUME ~SelfSpill
    PROVE  FInv /\ TInv /\ [ForksNext]_allVars => TInv'
<1> SUFFICES ASSUME FInv, TInv, [ForksNext]_allVars
             PROVE  TInv'
  OBVIOUS
<1>1. ASSUME NEW size \in FileSizes, createFile(size) PROVE TInv'
  <2>0. PICK todo : todo = <<Do("alloc")>>
    OBVIOUS
  <2>1. PICK fr : fr = Frame(next, size, todo)
    OBVIOUS
  <2>2. begin(fr)
    BY <2>0, <2>1, <1>1 DEF createFile
  <2>3. Plain(fr)
    <3>1. IsNew(fr, next, size, todo)
      BY <2>1, FrameIs, Zenon
    <3> QED
      BY <3>1, Zenon DEF IsNew, Plain
  <2> QED
    BY <2>2, <2>3, BeginTrees
<1>2. ASSUME NEW f \in Live, removeFile(f) PROVE TInv'
  <2>1. PICK todo : todo = Frees(desc[f].ext) \o <<Do("drop"), Do("unlink"), Do("commit")>>
    OBVIOUS
  <2>2. PICK fr : fr = Frame(f, 0, todo)
    OBVIOUS
  <2>3. begin(fr)
    BY <2>1, <2>2, <1>2 DEF removeFile
  <2>4. Plain(fr)
    <3>1. PICK z : z = 0
      OBVIOUS
    <3>2. IsNew(fr, f, z, todo)
      BY <3>1, <2>2, FrameIs, Zenon
    <3> QED
      BY <3>2, Zenon DEF IsNew, Plain
  <2> QED
    BY <2>3, <2>4, BeginTrees
<1>3. CASE AllocData \/ AllocNothing
  BY <1>3, AllocTrees
<1>4. CASE AllocNoSpace \/ \E t \in Trees : GrowNoSpace(t)
  <2>1. stack # <<>> /\ Fail
    BY <1>4 DEF AllocNoSpace, GrowNoSpace, NeedsNode, Inserting, At
  <2> QED
    BY <2>1, FailTrees
<1>5. CASE InsertExtents
  BY <1>5, PutTrees
<1>6. CASE InsertCatalog
  BY <1>6, CatalogTrees
<1>7. CASE InsertThread \/ FreeRun
  BY <1>7, PassTrees
<1>8. ASSUME NEW t \in Trees, NEW low \in Leftmost, growFork(t, low) PROVE TInv'
  BY <1>8, GrowTrees
<1>9. CASE Grown
  BY <1>9, GrownTrees
<1>10. CASE deleteAllForFork
  BY <1>10, DropTrees
<1>11. CASE Unlink
  BY <1>11, UnlinkTrees
<1>12. CASE commit
  BY <1>12, CommitTrees
<1>13. CASE (\E f \in Live : OpenFile(f)) \/ UNCHANGED allVars
  BY <1>13, OpenTrees
<1> QED
  BY <1>1, <1>2, <1>3, <1>4, <1>5, <1>6, <1>7, <1>8, <1>9, <1>10, <1>11, <1>12, <1>13
     DEF ForksNext, Calls

\* While the extents file does not overflow, the trees' forks are described and
\* recorded as they were given, but for the one record that is being put.
THEOREM TreesOrderly ==
    ASSUME ~SelfSpill
    PROVE  ForksSpec => []TInv
BY StepTrees, TreesStart, ForksOrderly, PTL DEF ForksSpec

\* Between operations every fork resolves to the runs it was given.
LEMMA ForksResolve == FInv /\ TInv => Resolves
<1> SUFFICES ASSUME FInv, TInv, Idle, NEW f \in DOMAIN desc
             PROVE  Resolved(f) = given[f]
  BY DEF Resolves
<1>1. ~torn /\ stack = <<>> /\ Named /\ Described /\ \A x \in Live : InTree(recs, given, x)
  BY AtRest DEF Resting, Settled, Idle
<1>2. CASE f \in Trees
  BY <1>1, <1>2, OneIsShallow, TreesResolve
<1>3. CASE f \in Live
  BY <1>1, <1>3, FileResolves
<1> QED
  BY <1>2, <1>3 DEF Live

\* extents.go gives back what extwrite.go recorded: the extents a reader
\* assembles between operations are the runs the fork was given.
THEOREM AlwaysResolves ==
    ASSUME ~SelfSpill
    PROVE  ForksSpec => []Resolves
BY TreesOrderly, ForksOrderly, ForksResolve, PTL

-----------------------------------------------------------------------------
(* Between operations.                                                     *)

\* Every fork has its records and its list.
LEMMA AllRecorded ==
    ASSUME FInv, TInv, Idle
    PROVE  /\ Named /\ Typed /\ IInv /\ ~open /\ Described /\ Drawn
           /\ DOMAIN given = DOMAIN desc /\ owned = HeldBy(given, DOMAIN given)
           /\ \A f \in DOMAIN desc : InTree(recs, given, f) /\ Resolved(f) = given[f]
<1>1. /\ ~torn /\ stack = <<>> /\ Named /\ Typed /\ IInv /\ ~open /\ Described
      /\ DOMAIN given = DOMAIN desc /\ owned = HeldBy(given, DOMAIN given)
      /\ \A x \in Live : InTree(recs, given, x)
  BY AtRest DEF Resting, Settled, Idle
<1>2. Drawn /\ Shallow
  BY <1>1, OneIsShallow
<1>3. \A t \in Trees : InTree(recs, given, t)
  BY <1>2 DEF Drawn, Shallow, Trees
<1>4. \A f \in DOMAIN desc : Resolved(f) = given[f]
  BY ForksResolve DEF Resolves
<1> QED
  BY <1>1, <1>2, <1>3, <1>4 DEF Live

\* The records of a list, one by one.
AreRecords(s, id, g) ==
    /\ \A i \in 1 .. Groups(g) :
          /\ s[i] = Put(<<id, BlocksUpTo(g)[i * InlineExtents]>>, Group(g, i))
          /\ s[i] \in ToSet(s)
    /\ \A x \in ToSet(s) : \E i \in 1 .. Groups(g) : x = s[i]

\* They are the records that insertExtentRecords puts.
LEMMA RecordIs ==
    ASSUME NEW g \in Seq(Inside), NEW id, NEW s, s = insertExtentRecords(id, g)
    PROVE  AreRecords(s, id, g)
<1>2. s = [i \in 1 .. Groups(g) |-> Put(<<id, BlocksUpTo(g)[i * InlineExtents]>>, Group(g, i))]
  BY Zenon DEF insertExtentRecords
<1>3. DOMAIN s = 1 .. Groups(g)
  BY <1>2, Zenon
<1>4. \A i \in 1 .. Groups(g) : s[i] = Put(<<id, BlocksUpTo(g)[i * InlineExtents]>>, Group(g, i))
  BY <1>2, Zenon
<1>5. ToSet(s) = {s[i] : i \in 1 .. Groups(g)}
  BY <1>3 DEF ToSet
<1> QED
  BY <1>4, <1>5, Zenon DEF AreRecords

\* The tree holds the records of the forks there are and no others.
LEMMA OnlyOwnRecords == FInv /\ TInv => NoStrays
<1> SUFFICES ASSUME FInv, TInv, Idle
             PROVE  {Put(k, recs[k]) : k \in DOMAIN recs} =
                        UNION {ToSet(insertExtentRecords(f, given[f])) : f \in DOMAIN desc}
  BY Zenon DEF NoStrays
<1>1. /\ Named /\ Typed /\ DOMAIN given = DOMAIN desc
      /\ \A f \in DOMAIN desc : InTree(recs, given, f)
  BY AllRecorded
<1>2. ASSUME NEW k \in DOMAIN recs
      PROVE  \E f \in DOMAIN desc : Put(k, recs[k]) \in ToSet(insertExtentRecords(f, given[f]))
  <2>1. PICK f \in DOMAIN desc : f = k[1]
    BY <1>1, <1>2 DEF Typed
  <2>2. PICK g : g = given[f]
    OBVIOUS
  <2>3. Recorded(recs, f, g, Groups(g), Groups(g))
    BY <2>2, <1>1, Zenon DEF InTree
  <2>4. PICK i \in 1 .. Groups(g) : k = <<f, BlocksUpTo(g)[i * InlineExtents]>>
    BY <2>1, <2>3, <1>2, Zenon DEF Recorded
  <2>5. recs[k] = Group(g, i)
    BY <2>3, <2>4, Zenon DEF Recorded
  <2>6. g \in Seq(Inside)
    BY <2>2, <1>1 DEF Named, GoodLists
  <2>7. PICK s : s = insertExtentRecords(f, g)
    OBVIOUS
  <2>8. AreRecords(s, f, g)
    BY <2>6, <2>7, RecordIs, Zenon
  <2>9. s[i] = Put(k, recs[k])
    BY <2>4, <2>5, <2>8, Zenon DEF AreRecords
  <2>10. Put(k, recs[k]) \in ToSet(s)
    BY <2>8, <2>9, Zenon DEF AreRecords
  <2> QED
    BY <2>2, <2>7, <2>10, Zenon
<1>3. ASSUME NEW f \in DOMAIN desc, NEW x \in ToSet(insertExtentRecords(f, given[f]))
      PROVE  \E k \in DOMAIN recs : x = Put(k, recs[k])
  <2>2. PICK g : g = given[f]
    OBVIOUS
  <2>3. Recorded(recs, f, g, Groups(g), Groups(g))
    BY <2>2, <1>1, Zenon DEF InTree
  <2>6. g \in Seq(Inside)
    BY <2>2, <1>1 DEF Named, GoodLists
  <2>7. PICK s : s = insertExtentRecords(f, g)
    OBVIOUS
  <2>8. AreRecords(s, f, g)
    BY <2>6, <2>7, RecordIs, Zenon
  <2>9. PICK i \in 1 .. Groups(g) : x = Put(<<f, BlocksUpTo(g)[i * InlineExtents]>>, Group(g, i))
    <3>1. x \in ToSet(s)
      BY <2>2, <2>7, <1>3, Zenon
    <3> QED
      BY <3>1, <2>8, Zenon DEF AreRecords
  <2>10. PICK k : k = <<f, BlocksUpTo(g)[i * InlineExtents]>>
    OBVIOUS
  <2>11. k \in DOMAIN recs /\ recs[k] = Group(g, i)
    BY <2>3, <2>10, Zenon DEF Recorded
  <2> QED
    BY <2>9, <2>10, <2>11, Zenon
<1> QED
  BY <1>2, <1>3, Zenon

\* Between operations the extents tree has the overflow records of the forks
\* there are: deleteAllForFork leaves none behind, and a tree that grew while
\* records were being put replaced its own.
THEOREM NeverStrays ==
    ASSUME ~SelfSpill
    PROVE  ForksSpec => []NoStrays
BY TreesOrderly, ForksOrderly, OnlyOwnRecords, PTL

-----------------------------------------------------------------------------
(* The blocks in use.                                                      *)

\* What mkfs marks: the headers, the bitmap and the trees' first runs.
LEMMA ReservedIs == Reserved = Fixed \cup AllBlocks(First)
<1> DEFINE T == TotalBlocks
           r == Regions(T)
<1>1. T \in Nat \ {0} /\ ~TooSmall(T)
  BY ForksAssumption, TotalBlocksAssumption DEF Accepts
<1>2. extBlocks \in Nat \ {0} /\ catBlocks(T) \in Nat \ {0} /\ extStart(T) \in Nat /\ catStart(T) \in Nat
  BY <1>1, Sizes, Ordered
<1>3. /\ ExtentBlocks(FirstRun[ExtentsFile]) = markUsed(extStart(T), extBlocks)
      /\ ExtentBlocks(FirstRun[CatalogFile]) = markUsed(catStart(T), catBlocks(T))
  BY <1>2, FirstFacts DEF Extent, ExtentBlocks, markUsed
<1>4. DOMAIN r = {"header", "bitmap", "extents", "catalog", "alternate"}
  BY DEF Regions
<1>5. r.extents = markUsed(extStart(T), extBlocks) /\ r.catalog = markUsed(catStart(T), catBlocks(T))
  BY DEF Regions
<1>6. Reserved = UNION {r[x] : x \in DOMAIN r}
  BY ForksAssumption DEF UsedBlocks
<1>7. Fixed = r.header \cup r.bitmap \cup r.alternate
  BY DEF Fixed
<1>8. AllBlocks(First) = ExtentBlocks(FirstRun[ExtentsFile]) \cup ExtentBlocks(FirstRun[CatalogFile])
  <2>1. First = {FirstRun[ExtentsFile], FirstRun[CatalogFile]}
    BY DEF First, Trees
  <2> QED
    BY <2>1, Zenon DEF AllBlocks
<1> HIDE DEF r, T
<1>9. Reserved = r.header \cup r.bitmap \cup r.extents \cup r.catalog \cup r.alternate
  BY <1>4, <1>6
<1> QED
  BY <1>3, <1>5, <1>7, <1>8, <1>9

\* Blocks of a union.
LEMMA BlocksOfBoth ==
    ASSUME NEW E, NEW F
    PROVE  AllBlocks(E \cup F) = AllBlocks(E) \cup AllBlocks(F)
BY DEF AllBlocks

\* The bitmap in the image has a bit for each block that is in some fork.
LEMMA EveryBlockAccounted == FInv /\ TInv => BlocksAccounted
<1> SUFFICES ASSUME FInv, TInv, Idle
             PROVE  /\ image = Fixed \cup UNION {BlocksOf(f) : f \in DOMAIN desc}
                    /\ \A f, g \in DOMAIN desc : f # g => BlocksOf(f) \cap BlocksOf(g) = {}
  BY Zenon DEF BlocksAccounted
<1>1. /\ Named /\ IInv /\ ~open
      /\ DOMAIN given = DOMAIN desc /\ owned = HeldBy(given, DOMAIN given)
      /\ \A f \in DOMAIN desc : Resolved(f) = given[f]
  BY AllRecorded
<1>2. PICK D, All : D = DOMAIN desc /\ All = UNION {ToSet(given[f]) : f \in D}
  OBVIOUS
<1>3. image = Reserved \cup AllBlocks(All \ First)
  <2>1. image = Reserved \cup AllBlocks(saved) /\ owned = saved
    BY <1>1 DEF IInv, BitmapExact, ClosedMeansSaved
  <2>2. owned = All \ First
    BY <1>1, <1>2, Zenon DEF HeldBy
  <2> QED
    BY <2>1, <2>2, Zenon
<1>4. First \subseteq All
  <2> SUFFICES ASSUME NEW t \in Trees PROVE FirstRun[t] \in All
    BY DEF First
  <2>1. t \in D /\ given[t] \in Seq(Inside) /\ Len(given[t]) >= 1 /\ given[t][1] = FirstRun[t]
    BY <1>1, <1>2 DEF Named, GoodLists
  <2>2. 1 \in DOMAIN given[t]
    BY <2>1, InsideList
  <2>3. FirstRun[t] \in ToSet(given[t])
    BY <2>1, <2>2, Zenon DEF ToSet
  <2> QED
    BY <2>1, <2>3, <1>2, Zenon
<1>5. AllBlocks(All) = AllBlocks(All \ First) \cup AllBlocks(First)
  <2>1. All = (All \ First) \cup First
    BY <1>4
  <2> QED
    BY <2>1, BlocksOfBoth, Zenon
<1>6. \A f \in D : BlocksOf(f) = AllBlocks(ToSet(given[f]))
  BY <1>1, <1>2, Zenon DEF BlocksOf
<1>7. AllBlocks(All) = UNION {BlocksOf(f) : f \in D}
  <2>1. AllBlocks(All) = UNION {AllBlocks(ToSet(given[f])) : f \in D}
    BY <1>2 DEF AllBlocks
  <2> QED
    BY <2>1, <1>6, Zenon
<1>8. image = Fixed \cup UNION {BlocksOf(f) : f \in D}
  BY <1>3, <1>5, <1>7, ReservedIs
<1>9. ASSUME NEW f \in D, NEW g \in D, f # g PROVE BlocksOf(f) \cap BlocksOf(g) = {}
  <2> SUFFICES ASSUME NEW b, b \in BlocksOf(f), b \in BlocksOf(g) PROVE FALSE
    OBVIOUS
  <2>1. Apart(given) /\ given[f] \in Seq(Inside) /\ given[g] \in Seq(Inside) /\ f \in DOMAIN given /\ g \in DOMAIN given
    BY <1>1, <1>2 DEF Named, GoodLists
  <2>2. PICK i \in DOMAIN given[f] : b \in ExtentBlocks(given[f][i])
    BY <1>6 DEF AllBlocks, ToSet
  <2>3. PICK j \in DOMAIN given[g] : b \in ExtentBlocks(given[g][j])
    BY <1>6 DEF AllBlocks, ToSet
  <2>4. i \in 1 .. Len(given[f]) /\ j \in 1 .. Len(given[g])
    BY <2>1, InsideList
  <2>5. ExtentBlocks(given[f][i]) \cap ExtentBlocks(given[g][j]) = {}
    BY <2>1, <2>4, <1>9, Zenon DEF Apart
  <2> QED
    BY <2>2, <2>3, <2>5
<1> QED
  BY <1>2, <1>8, <1>9, Zenon

\* What fsck_hfs compares: the bitmap in the image and the extents of the forks
\* agree after every operation, and no block belongs to two forks.
THEOREM BlocksAlwaysAccounted ==
    ASSUME ~SelfSpill
    PROVE  ForksSpec => []BlocksAccounted
BY TreesOrderly, ForksOrderly, EveryBlockAccounted, PTL

-----------------------------------------------------------------------------
(* Type correctness.                                                       *)

\* Records begin inside the fork and have as many extents as fit in one.
Sized(rs) == \A k \in DOMAIN rs : k[2] \in 1 .. TotalBlocks /\ Len(rs[k]) \in 1 .. InlineExtents

SInv ==
    /\ Sized(recs)
    /\ next \in FirstFile .. (LastFile + 1)
    /\ extents \in [Trees -> Seq(Extents)]

\* The lists of the forks count no more blocks than there are.
LEMMA ListCounts ==
    ASSUME Named, NEW f \in DOMAIN given
    PROVE  /\ given[f] \in Seq(Inside) /\ Counted(given[f]) \in Nat /\ Counted(given[f]) <= TotalBlocks
<1>1. given[f] \in Seq(Inside) /\ Apart(given)
  BY DEF Named, GoodLists
<1>2. ApartList(given[f])
  BY <1>1 DEF Apart, ApartList
<1> QED
  BY <1>1, <1>2, CountedBlocks

\* The records of such a list.
LEMMA RecordSized ==
    ASSUME Named, NEW f \in DOMAIN given, NEW g, g = given[f], NEW i \in 1 .. Groups(g)
    PROVE  BlocksUpTo(g)[i * InlineExtents] \in 1 .. TotalBlocks /\ Len(Group(g, i)) \in 1 .. InlineExtents
<1>1. g \in Seq(Inside) /\ Counted(g) \in Nat /\ Counted(g) <= TotalBlocks /\ TotalBlocks \in Nat
  BY ListCounts, TotalBlocksAssumption
<1>2. PICK b : b = BlocksUpTo(g)[i * InlineExtents]
  OBVIOUS
<1>3. b \in Nat \ {0} /\ b < Counted(g)
  BY <1>1, <1>2, KeysAscend
<1>4. PICK a, z : a = i * InlineExtents /\ z = GroupEnd(g, i)
  OBVIOUS
<1>5. z \in Nat /\ a \in Nat /\ a < z /\ z <= a + InlineExtents /\ Len(Group(g, i)) = z - a
  BY <1>1, <1>4, GroupFacts
<1>6. InlineExtents \in Nat
  BY ForksAssumption
<1>7. z - a \in 1 .. InlineExtents
  BY <1>5, <1>6
<1>8. b \in 1 .. TotalBlocks
  BY <1>1, <1>3
<1> QED
  BY <1>2, <1>5, <1>7, <1>8

\* The operation's own record.
LEMMA OwnPutSized ==
    ASSUME FInv, At("put"), Len(stack) = 1
    PROVE  Step.key[2] \in 1 .. TotalBlocks /\ Len(Step.ext) \in 1 .. InlineExtents
<1>2. stack # <<>> /\ Top.todo # <<>> /\ Head(Top.todo).do = "put"
  BY DEF At, Step
<1>3. Named /\ Nested /\ InProgress
  BY <1>2, Ongoing
<1>4. Op = Top
  BY <1>2, <1>3, Ends
<1>5. Stage("put")
  <2>1. Stage(Head(Op.todo).do)
    BY <1>3, Staged
  <2> QED
    BY <2>1, <1>2, <1>4, Zenon
<1>6. PICK f, g : f = Op.id /\ g = given[Op.id]
  OBVIOUS
<1>7. PICK j \in Nat : /\ Filing(j) /\ j < Groups(g)
                       /\ Ahead(Op.todo, insertExtentRecords(f, g)[j + 1], From(CreateSteps(f, g), j + 1))
  BY <1>5, <1>6 DEF Stage
<1>8. f \in DOMAIN given
  BY <1>6, <1>7 DEF Filing
<1>9. g \in Seq(Inside) /\ Groups(g) \in Nat
  BY <1>3, <1>6, <1>8, GivenFacts
<1>10. j + 1 \in 1 .. Groups(g)
  BY <1>7, <1>9
<1>11. Step = insertExtentRecords(f, g)[j + 1]
  BY <1>4, <1>7, Zenon DEF Ahead, Step
<1>12. PICK b : b = BlocksUpTo(g)[(j + 1) * InlineExtents]
  OBVIOUS
<1>13. Step.key = <<f, b>> /\ Step.ext = Group(g, j + 1)
  BY <1>9, <1>10, <1>11, <1>12, RecordFacts
<1>14. b \in 1 .. TotalBlocks /\ Len(Group(g, j + 1)) \in 1 .. InlineExtents
  BY <1>3, <1>6, <1>8, <1>10, <1>12, RecordSized
<1> QED
  BY <1>13, <1>14

\* A record of the catalog's extents.
LEMMA ServingPutSized ==
    ASSUME FInv, TInv, At("put"), Len(stack) # 1
    PROVE  Step.key[2] \in 1 .. TotalBlocks /\ Len(Step.ext) \in 1 .. InlineExtents
<1>2. stack # <<>> /\ Top.todo # <<>> /\ Step = Head(Top.todo)
  BY DEF At, Step
<1>3. Named
  BY <1>2, Ongoing
<1>5. PICK j \in Nat : GrowingCatalog(Top, j) /\ j < Groups(given[CatalogFile])
  BY <1>2, DeepTop
<1>6. PICK id, g : id = CatalogFile /\ g = given[id]
  OBVIOUS
<1>7. id \in DOMAIN given /\ g \in Seq(Inside)
  BY <1>3, <1>6 DEF Named, GoodLists, Trees
<1>8. PICK s : s = insertExtentRecords(id, g)
  OBVIOUS
<1>9. IsSeq(s) /\ Len(s) = Groups(g) /\ Groups(g) \in Nat
  BY <1>7, <1>8, RecordFacts
<1>10. j \in 0 .. Groups(g) /\ Top.todo = From(s, j) /\ j < Groups(g)
  BY <1>5, <1>6, <1>8, Zenon DEF GrowingCatalog
<1>11. Step = s[j + 1]
  <2>1. j \in 0 .. Len(s) - 1
    BY <1>9, <1>10
  <2> QED
    BY <2>1, <1>2, <1>9, <1>10, FromNext
<1>12. PICK b : b = BlocksUpTo(g)[(j + 1) * InlineExtents]
  OBVIOUS
<1>13. j + 1 \in 1 .. Groups(g)
  BY <1>9, <1>10
<1>14. Step.key = <<id, b>> /\ Step.ext = Group(g, j + 1)
  BY <1>7, <1>8, <1>11, <1>12, <1>13, RecordFacts
<1>15. b \in 1 .. TotalBlocks /\ Len(Group(g, j + 1)) \in 1 .. InlineExtents
  BY <1>3, <1>6, <1>7, <1>12, <1>13, RecordSized
<1> QED
  BY <1>14, <1>15

\* InsertExtents.
LEMMA PutSized ==
    ASSUME FInv, TInv, InsertExtents, Sized(recs)
    PROVE  Sized(recs')
<1>1. At("put") /\ recs' = With(Over(Top.leaf, recs), Step.key, Step.ext)
  BY DEF InsertExtents
<1>2. Step.key[2] \in 1 .. TotalBlocks /\ Len(Step.ext) \in 1 .. InlineExtents
  BY <1>1, OwnPutSized, ServingPutSized
<1>3. stack # <<>>
  BY <1>1 DEF At
<1>4. ~torn /\ Nested
  BY <1>3, Ongoing
<1>5. Drawn /\ 1 \in 1 .. Len(stack) /\ Top = stack[1]
  BY <1>3, <1>4, Ends DEF TInv
<1>6. PICK none, rs, qs, k0, e : none = <<>> /\ rs = recs /\ qs = recs' /\ k0 = Step.key /\ e = Step.ext
  OBVIOUS
<1>7. Top.leaf = none
  BY <1>5, <1>6, Zenon DEF Drawn, Plain
<1>8. qs = With(Over(none, rs), k0, e)
  BY <1>1, <1>6, <1>7, Zenon
<1>9. PICK os : os = Over(none, rs)
  OBVIOUS
<1>10. DOMAIN none = {}
  BY <1>6
<1>11. IsWith(qs, os, k0, e)
  BY <1>8, <1>9, WithIs, Zenon
<1>12. DOMAIN os = DOMAIN rs /\ \A x \in DOMAIN rs : os[x] = rs[x]
  BY <1>9, <1>10 DEF Over
<1>13. DOMAIN qs = DOMAIN rs \cup {k0} /\ qs[k0] = e /\ \A x \in DOMAIN rs : x # k0 => qs[x] = rs[x]
  BY <1>11, <1>12 DEF IsWith
<1>14. ASSUME NEW k \in DOMAIN qs PROVE k[2] \in 1 .. TotalBlocks /\ Len(qs[k]) \in 1 .. InlineExtents
  <2>1. CASE k = k0
    BY <2>1, <1>2, <1>6, <1>13, Zenon
  <2>2. CASE k # k0
    <3>1. k \in DOMAIN rs /\ qs[k] = rs[k]
      BY <2>2, <1>13, <1>14
    <3> QED
      BY <3>1, <1>6, Zenon DEF Sized
  <2> QED
    BY <2>1, <2>2
<1> QED
  BY <1>6, <1>14, Zenon DEF Sized

\* Every step keeps the sizes.
LEMMA StepSized ==
    ASSUME ~SelfSpill
    PROVE  FInv /\ TInv /\ SInv /\ [ForksNext]_allVars => SInv'
<1> SUFFICES ASSUME FInv, TInv, SInv, [ForksNext]_allVars
             PROVE  SInv'
  OBVIOUS
<1>1. NoWriters \in [Trees -> Seq(Extents)]
  BY DEF NoWriters
<1>2. ASSUME Idle, extents' = [t \in Trees |-> Resolved(t)] PROVE extents' \in [Trees -> Seq(Extents)]
  <2>1. stack = <<>> /\ ~torn /\ Named
    BY <1>2, AtRest DEF Idle
  <2>2. Drawn /\ Shallow
    BY <2>1, OneIsShallow
  <2>3. \A t \in Trees : Resolved(t) = given[t] /\ given[t] \in Seq(Inside)
    BY <2>1, <2>2, TreesResolve DEF Named, GoodLists
  <2>4. \A t \in Trees : Resolved(t) \in Seq(Extents)
    BY <2>3, InsideList
  <2> QED
    BY <2>4, <1>2, Zenon
<1>3. next \in Nat /\ LastFile \in Nat /\ FirstFile \in Nat
  BY LastFileAssumption DEF SInv, FirstFile
<1>4. ASSUME NEW size \in FileSizes, createFile(size) PROVE SInv'
  <2>1. next <= LastFile /\ next' = next + 1 /\ Idle /\ extents' = [t \in Trees |-> Resolved(t)] /\ recs' = recs
    BY <1>4 DEF createFile, begin
  <2>2. extents' \in [Trees -> Seq(Extents)]
    BY <2>1, <1>2
  <2>3. next' \in FirstFile .. (LastFile + 1)
    BY <2>1, <1>3 DEF SInv
  <2> QED
    BY <2>1, <2>2, <2>3 DEF SInv
<1>5. ASSUME NEW f \in Live, removeFile(f) PROVE SInv'
  <2>1. next' = next /\ Idle /\ extents' = [t \in Trees |-> Resolved(t)] /\ recs' = recs
    BY <1>5 DEF removeFile, begin
  <2>2. extents' \in [Trees -> Seq(Extents)]
    BY <2>1, <1>2
  <2> QED
    BY <2>1, <2>2 DEF SInv
<1>6. CASE UNCHANGED <<recs, next, extents>>
  BY <1>6 DEF SInv
<1>7. CASE AllocNoSpace \/ (\E t \in Trees : GrowNoSpace(t)) \/ commit
  <2>1. extents' = NoWriters /\ UNCHANGED <<recs, next>>
    BY <1>7 DEF AllocNoSpace, GrowNoSpace, Fail, commit
  <2> QED
    BY <2>1, <1>1 DEF SInv
<1>8. CASE InsertExtents
  <2>1. Sized(recs') /\ UNCHANGED <<next, extents>>
    BY <1>8, PutSized DEF SInv, InsertExtents
  <2> QED
    BY <2>1 DEF SInv
<1>9. ASSUME NEW t \in Trees, NEW low \in Leftmost, growFork(t, low) PROVE SInv'
  <2>1. PICK g, all, fr, top, leaf : Grows(t, low, g, all, fr, top, leaf)
    BY <1>9, GrowsIs
  <2>2. all \in Seq(Inside)
    BY <2>1, GrowsLists
  <2>3. extents' = [extents EXCEPT ![t] = all] /\ UNCHANGED <<recs, next>>
    BY <2>1, Zenon DEF Grows
  <2>4. all \in Seq(Extents)
    BY <2>2, InsideList
  <2>5. extents' \in [Trees -> Seq(Extents)]
    BY <2>3, <2>4 DEF SInv
  <2> QED
    BY <2>3, <2>5 DEF SInv
<1>10. CASE deleteAllForFork
  <2>1. recs' = [k \in {l \in DOMAIN recs : l[1] # Top.id} |-> recs[k]] /\ UNCHANGED <<next, extents>>
    BY <1>10 DEF deleteAllForFork
  <2>2. Sized(recs')
    BY <2>1 DEF SInv, Sized
  <2> QED
    BY <2>1, <2>2 DEF SInv
<1>11. CASE AllocData \/ AllocNothing \/ InsertCatalog \/ InsertThread \/ Grown \/ FreeRun \/ Unlink
            \/ (\E f \in Live : OpenFile(f)) \/ UNCHANGED allVars
  <2>1. UNCHANGED <<recs, next, extents>>
    BY <1>11 DEF AllocData, AllocNothing, InsertCatalog, InsertThread, Grown, FreeRun, Unlink, OpenFile,
                 allVars, forkVars
  <2> QED
    BY <2>1, <1>6
<1> QED
  BY <1>4, <1>5, <1>7, <1>8, <1>9, <1>10, <1>11 DEF ForksNext, Calls

\* The sizes at first.
LEMMA StartsSized == ForksInit => SInv
<1> SUFFICES ASSUME ForksInit PROVE SInv
  OBVIOUS
<1>1. recs = <<>> /\ next = FirstFile /\ extents = NoWriters
  BY DEF ForksInit
<1>2. NoWriters \in [Trees -> Seq(Extents)]
  BY DEF NoWriters
<1>3. DOMAIN recs = {}
  BY <1>1
<1>4. next \in FirstFile .. (LastFile + 1)
  BY <1>1, LastFileAssumption DEF FirstFile
<1> QED
  BY <1>1, <1>2, <1>3, <1>4 DEF SInv, Sized

\* Descriptors.
DescTyped(d) ==
    d.ext \in Seq(Extents) /\ Len(d.ext) <= InlineExtents /\ d.total \in 0 .. TotalBlocks

\* The descriptor of a list is in range.
LEMMA DescribesList ==
    ASSUME Named, NEW f \in DOMAIN given, NEW d, NEW size, d = Fork(size, Counted(given[f]), InlinePart(given[f]))
    PROVE  DescTyped(d)
<1>1. PICK g, b, c : g = given[f] /\ b = Counted(g) /\ c = InlinePart(g)
  OBVIOUS
<1>2. g \in Seq(Inside) /\ b \in Nat /\ b <= TotalBlocks
  BY <1>1, ListCounts
<1>3. c \in Seq(Inside) /\ Len(c) <= InlineExtents
  <2>1. PICK m : m = Min({InlineExtents, Len(g)})
    OBVIOUS
  <2>2. m <= InlineExtents /\ InlinePart(g) \in Seq(Inside) /\ Len(InlinePart(g)) = m
    BY <2>1, <1>2, PartFacts
  <2> QED
    BY <2>2, <1>1, Zenon
<1>4. c \in Seq(Extents)
  BY <1>3, InsideList
<1>5. d = Fork(size, b, c)
  BY <1>1
<1>6. d.ext = c /\ d.total = b
  BY <1>5 DEF Fork
<1>7. b \in 0 .. TotalBlocks
  BY <1>2, TotalBlocksAssumption
<1> QED
  BY <1>3, <1>4, <1>6, <1>7 DEF DescTyped

\* While no operation has failed half way.
LEMMA SoundTyped == FInv /\ TInv /\ SInv /\ ~torn => ForksTypeOK
<1> SUFFICES ASSUME FInv, TInv, SInv, ~torn PROVE ForksTypeOK
  OBVIOUS
<1>1. IInv /\ Named /\ Described /\ Typed /\ Undoable /\ Phase /\ torn \in BOOLEAN
  BY DEF FInv, Orderly
<1>2. Drawn
  BY DEF TInv
<1>3. TypeOK /\ edited \in BOOLEAN
  BY <1>1 DEF IInv, Undoable
<1>4. Trees \subseteq DOMAIN desc /\ DOMAIN desc \subseteq DOMAIN given /\ DOMAIN given \subseteq Forks
  <2>1. FirstFile .. (next - 1) \subseteq Files
    BY LastFileAssumption DEF SInv, Files, FirstFile
  <2> QED
    BY <2>1, <1>1 DEF Named, Forks
<1>5. \A f \in DOMAIN desc : DescTyped(desc[f])
  <2> SUFFICES ASSUME NEW f \in DOMAIN desc PROVE DescTyped(desc[f])
    OBVIOUS
  <2>1. \E size : desc[f] = Fork(size, Counted(given[f]), InlinePart(given[f]))
    <3>1. CASE f \in Trees
      BY <3>1, <1>2, Zenon DEF Drawn, TreeFork
    <3>2. CASE f \in Live
      BY <3>2, <1>1, Zenon DEF Described
    <3> QED
      BY <3>1, <3>2 DEF Live
  <2> QED
    BY <2>1, <1>1, <1>4, DescribesList
<1>6. \A k \in DOMAIN recs : /\ k \in Forks \X (1 .. TotalBlocks)
                             /\ recs[k] \in Seq(Extents)
                             /\ Len(recs[k]) \in 1 .. InlineExtents
  <2> SUFFICES ASSUME NEW k \in DOMAIN recs
               PROVE  /\ k \in Forks \X (1 .. TotalBlocks)
                      /\ recs[k] \in Seq(Extents)
                      /\ Len(recs[k]) \in 1 .. InlineExtents
    OBVIOUS
  <2>1. (\E a, b \in Nat : k = <<a, b>>) /\ recs[k] \in Seq(Inside) /\ k[1] \in Forks
    BY <1>1, <1>4 DEF Typed, Keyed
  <2>2. k[2] \in 1 .. TotalBlocks /\ Len(recs[k]) \in 1 .. InlineExtents
    BY DEF SInv, Sized
  <2>3. recs[k] \in Seq(Extents)
    BY <2>1, InsideList
  <2>4. PICK a, b \in Nat : k = <<a, b>>
    BY <2>1
  <2>5. a \in Forks /\ b \in 1 .. TotalBlocks
    BY <2>1, <2>2, <2>4
  <2> QED
    BY <2>2, <2>3, <2>4, <2>5
<1>7. open <=> stack # <<>> \/ torn
  <2>1. CASE stack = <<>>
    BY <2>1, AtRest DEF Idle, Resting
  <2>2. CASE stack # <<>>
    BY <2>2, Ongoing
  <2> QED
    BY <2>1, <2>2
<1> QED
  BY <1>1, <1>3, <1>4, <1>5, <1>6, <1>7 DEF ForksTypeOK, DescTyped, SInv

\* After an operation failed half way nothing moves.
LEMMA TornStays ==
    ASSUME FInv, torn, [ForksNext]_allVars
    PROVE  UNCHANGED allVars
<1>1. stack = <<>>
  BY DEF FInv
<1>2. ~Idle
  BY DEF Idle
<1>3. \A w : ~At(w)
  BY <1>1 DEF At
<1>4. ~Calls
  BY <1>1, <1>3 DEF Calls, AllocData, AllocNothing, AllocNoSpace, InsertExtents, InsertCatalog, InsertThread,
                    GrowNoSpace, growFork, NeedsNode, Inserting, Grown, FreeRun, deleteAllForFork, Unlink, commit
<1> QED
  BY <1>2, <1>4 DEF ForksNext, createFile, removeFile, begin, OpenFile

\* The types when an operation has failed half way.
TornTyped == torn => ForksTypeOK

\* Only a failure tears.
LEMMA TearsTyped ==
    ASSUME FInv, ForksTypeOK, ~torn, torn', [ForksNext]_allVars
    PROVE  ForksTypeOK'
<1>1. Fail /\ stack # <<>>
  <2>1. torn' # torn
    OBVIOUS
  <2>2. AllocNoSpace \/ \E t \in Trees : GrowNoSpace(t)
    BY <2>1 DEF ForksNext, Calls, createFile, removeFile, begin, OpenFile, AllocData, AllocNothing,
                InsertExtents, InsertCatalog, InsertThread, growFork, Grown, FreeRun, deleteAllForFork, Unlink,
                commit, allVars, forkVars
  <2> QED
    BY <2>2 DEF AllocNoSpace, GrowNoSpace, NeedsNode, Inserting, At
<1>2. /\ extents' = NoWriters /\ torn' = edited /\ edited' = FALSE
      /\ given' = [f \in DOMAIN desc |-> given[f]]
      /\ UNCHANGED <<desc, recs, next>>
  BY <1>1 DEF Fail
<1>3. UNCHANGED vars
  BY <1>1, <1>2 DEF Fail
<1>4. NoWriters \in [Trees -> Seq(Extents)]
  BY DEF NoWriters
<1>5. TypeOK'
  BY <1>3 DEF ForksTypeOK, TypeOK, vars
<1>6. DOMAIN given' = DOMAIN desc
  BY <1>2
<1>7. open' <=> stack' # <<>> \/ torn'
  BY <1>1, <1>3 DEF ForksTypeOK, vars
<1> QED
  BY <1>2, <1>4, <1>5, <1>6, <1>7 DEF ForksTypeOK

\* It stays so.
LEMMA StutterTyped ==
    ASSUME ForksTypeOK, UNCHANGED allVars
    PROVE  ForksTypeOK'
<1>1. TypeOK'
  BY DEF ForksTypeOK, TypeOK, vars, allVars
<1> QED
  BY <1>1 DEF ForksTypeOK, allVars, vars, forkVars

\* Descriptors, records and writers hold extents of the volume, groups are no
\* larger than a record, and calls nest, also after a failure.
THEOREM ForksTypeCorrect ==
    ASSUME ~SelfSpill
    PROVE  ForksSpec => []ForksTypeOK
<1>1. FInv /\ TInv /\ SInv /\ [ForksNext]_allVars => SInv'
  BY StepSized
<1>2. ForksInit => TornTyped
  BY DEF ForksInit, TornTyped
<1>3. FInv /\ TInv /\ SInv /\ TornTyped /\ [ForksNext]_allVars => TornTyped'
  <2> SUFFICES ASSUME FInv, TInv, SInv, TornTyped, [ForksNext]_allVars, torn'
               PROVE  ForksTypeOK'
    BY DEF TornTyped
  <2>1. ForksTypeOK
    BY SoundTyped DEF TornTyped
  <2>2. CASE torn
    BY <2>1, <2>2, TornStays, StutterTyped
  <2>3. CASE ~torn
    BY <2>1, <2>3, TearsTyped
  <2> QED
    BY <2>2, <2>3
<1>4. FInv /\ TInv /\ SInv /\ TornTyped => ForksTypeOK
  BY SoundTyped DEF TornTyped
<1> QED
  BY <1>1, <1>2, <1>3, <1>4, StartsSized, TreesOrderly, ForksOrderly, PTL DEF ForksSpec

-----------------------------------------------------------------------------
(* What the allocator promises, of the forks that use it.                  *)

\* No operation on forks makes two of them share a block.
THEOREM ForksNeverCrossLinked == ForksSpec => []NoCrossLink
BY ForksUseAllocator, NeverCrossLinked, PTL DEF UsesAllocator

\* After any sequence of operations, failed ones among them, a bit is set
\* exactly for the blocks in use.
THEOREM ForksKeepBitmap == ForksSpec => []BitmapExact
BY ForksUseAllocator, BitmapAlwaysExact, PTL DEF UsesAllocator

\* And the header counts the clear ones.
THEOREM ForksKeepCount == ForksSpec => []FreeBlocksExact
BY ForksUseAllocator, FreeBlocksAlwaysExact, PTL DEF UsesAllocator
=============================================================================
