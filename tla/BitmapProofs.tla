---------------------------- MODULE BitmapProofs ----------------------------
(***************************************************************************)
(* What the searches of module Bitmap return, for a volume of any size:    *)
(* extents inside the volume that do not overlap, that take free blocks    *)
(* only, and that hold exactly as many blocks as were asked for.           *)
(***************************************************************************)
EXTENDS Bitmap, FiniteSetTheorems, WellFoundedInduction, TLAPS

\* A non-empty set of naturals has a least element, which Min chooses.
LEMMA MinIsLeast ==
    ASSUME NEW S \in SUBSET Nat, S # {}
    PROVE  /\ Min(S) \in S
           /\ \A x \in S : Min(S) <= x
<1> DEFINE R == OpToRel(<, Nat)
<1>1. IsWellFoundedOn(R, Nat)
  BY NatLessThanWellFounded
<1>2. ASSUME NEW x \in Nat, NEW y \in Nat, x < y
      PROVE  <<x, y>> \in R
  BY <1>2 DEF OpToRel
<1> HIDE DEF R
<1>3. PICK m \in S : \A x \in S : ~(<<x, m>> \in R)
  BY <1>1, WFMin
<1>4. ASSUME NEW x \in S
      PROVE  m <= x
  <2>1. x \in Nat /\ m \in Nat
    OBVIOUS
  <2>2. ~(x < m)
    BY <1>2, <1>3, <2>1, Zenon
  <2> QED
    BY <2>1, <2>2
<1>5. \E m1 \in S : \A x \in S : m1 <= x
  BY <1>3, <1>4
<1> QED
  BY <1>5 DEF Min

\* Every set of blocks of the volume is finite.
LEMMA BlocksFinite ==
    ASSUME NEW S \in SUBSET Blocks
    PROVE  IsFiniteSet(S) /\ Cardinality(S) \in Nat
<1>1. IsFiniteSet(Blocks)
  BY FS_Interval, TotalBlocksAssumption DEF Blocks
<1> QED
  BY <1>1, FS_Subset, FS_CardinalityType

\* The blocks of an extent that ends inside the volume.
LEMMA ExtentInVolume ==
    ASSUME NEW s \in Blocks, NEW c \in Nat \ {0}, s + c <= TotalBlocks
    PROVE  /\ Extent(s, c) \in Extents
           /\ ExtentBlocks(Extent(s, c)) = s .. (s + c - 1)
           /\ ExtentBlocks(Extent(s, c)) \subseteq Blocks
BY TotalBlocksAssumption DEF Extent, Extents, ExtentBlocks, Blocks

\* allocContiguous: the one run lies in the volume and takes free blocks only.
LEMMA ContiguousSound ==
    ASSUME NEW bm \in SUBSET Blocks, NEW c \in 1 .. TotalBlocks,
           FitsAt(bm, c) # {}
    PROVE  /\ allocContiguous(bm, c) \in SUBSET Extents
           /\ AllBlocks(allocContiguous(bm, c)) \subseteq Free(bm)
           /\ Disjoint(allocContiguous(bm, c))
<1> DEFINE s == Min(FitsAt(bm, c))
<1>1. FitsAt(bm, c) \in SUBSET Nat
  BY TotalBlocksAssumption DEF FitsAt, Blocks
<1>2. s \in FitsAt(bm, c)
  BY <1>1, MinIsLeast
<1>3. /\ s \in Blocks
      /\ s + c <= TotalBlocks
      /\ (s .. (s + c - 1)) \cap bm = {}
  BY <1>2 DEF FitsAt
<1> HIDE DEF s
<1>4. /\ Extent(s, c) \in Extents
      /\ ExtentBlocks(Extent(s, c)) = s .. (s + c - 1)
      /\ ExtentBlocks(Extent(s, c)) \subseteq Blocks
  <2>1. c \in Nat \ {0}
    BY TotalBlocksAssumption
  <2> QED
    BY <1>3, <2>1, ExtentInVolume
<1>5. allocContiguous(bm, c) = {Extent(s, c)}
  BY DEF allocContiguous, s
<1>6. AllBlocks(allocContiguous(bm, c)) = ExtentBlocks(Extent(s, c))
  BY <1>5 DEF AllBlocks
<1>7. ExtentBlocks(Extent(s, c)) \subseteq Free(bm)
  BY <1>3, <1>4 DEF Free
<1> QED
  BY <1>4, <1>5, <1>6, <1>7 DEF Disjoint

\* What makes a pair the ends of a maximal run of T.
LEMMA RunEnds ==
    ASSUME NEW T \in SUBSET Blocks, NEW e \in RunsOf(T)
    PROVE  \E a, b \in T : /\ a <= b
                           /\ (a .. b) \subseteq T
                           /\ a - 1 \notin T
                           /\ b + 1 \notin T
                           /\ e = Extent(a, b - a + 1)
                           /\ ExtentBlocks(e) = a .. b
<1>1. PICK p \in T \X T : /\ p[1] <= p[2]
                          /\ (p[1] .. p[2]) \subseteq T
                          /\ p[1] - 1 \notin T
                          /\ p[2] + 1 \notin T
                          /\ e = Extent(p[1], p[2] - p[1] + 1)
  BY DEF RunsOf
<1>2. p[1] \in T /\ p[2] \in T /\ p[1] \in Int /\ p[2] \in Int
  <2>1. p[1] \in T /\ p[2] \in T
    OBVIOUS
  <2>2. \A t \in T : t \in Int
    BY TotalBlocksAssumption DEF Blocks
  <2> QED
    BY <2>1, <2>2
<1>3. ExtentBlocks(e) = p[1] .. p[2]
  BY <1>1, <1>2 DEF ExtentBlocks, Extent
<1> QED
  BY <1>1, <1>2, <1>3

\* The fragment walk's runs lie in the set they cover and never overlap: two
\* maximal runs with a block in common have the same ends.
LEMMA RunsSound ==
    ASSUME NEW T \in SUBSET Blocks
    PROVE  /\ RunsOf(T) \in SUBSET Extents
           /\ AllBlocks(RunsOf(T)) \subseteq T
           /\ Disjoint(RunsOf(T))
<1>1. ASSUME NEW e \in RunsOf(T)
      PROVE  e \in Extents /\ ExtentBlocks(e) \subseteq T
  <2>1. PICK a \in T, b \in T : /\ a <= b
                                /\ (a .. b) \subseteq T
                                /\ e = Extent(a, b - a + 1)
                                /\ ExtentBlocks(e) = a .. b
    BY RunEnds
  <2>2. a \in Blocks /\ b \in Blocks
    OBVIOUS
  <2>3. e \in Extents
    BY <2>1, <2>2, TotalBlocksAssumption DEF Blocks, Extent, Extents
  <2> QED
    BY <2>1, <2>3
<1>2. ASSUME NEW e \in RunsOf(T), NEW f \in RunsOf(T),
             NEW x \in ExtentBlocks(e), x \in ExtentBlocks(f)
      PROVE  e = f
  <2>1. PICK a \in T, b \in T : /\ (a .. b) \subseteq T
                                /\ a - 1 \notin T
                                /\ b + 1 \notin T
                                /\ e = Extent(a, b - a + 1)
                                /\ ExtentBlocks(e) = a .. b
    BY RunEnds
  <2>2. PICK c \in T, d \in T : /\ (c .. d) \subseteq T
                                /\ c - 1 \notin T
                                /\ d + 1 \notin T
                                /\ f = Extent(c, d - c + 1)
                                /\ ExtentBlocks(f) = c .. d
    BY RunEnds
  <2>3. {a, b, c, d} \subseteq Int /\ x \in a .. b /\ x \in c .. d
    BY <1>2, <2>1, <2>2, TotalBlocksAssumption DEF Blocks
  <2>4. a = c
    <3>1. ~(a < c)
      <4>1. a < c => c - 1 \in a .. b
        BY <2>3
      <4> QED
        BY <2>1, <2>2, <4>1
    <3>2. ~(c < a)
      <4>1. c < a => a - 1 \in c .. d
        BY <2>3
      <4> QED
        BY <2>1, <2>2, <4>1
    <3> QED
      BY <2>3, <3>1, <3>2
  <2>5. b = d
    <3>1. ~(b < d)
      <4>1. b < d => b + 1 \in c .. d
        BY <2>3
      <4> QED
        BY <2>1, <2>2, <4>1
    <3>2. ~(d < b)
      <4>1. d < b => d + 1 \in a .. b
        BY <2>3
      <4> QED
        BY <2>1, <2>2, <4>1
    <3> QED
      BY <2>3, <3>1, <3>2
  <2> QED
    BY <2>1, <2>2, <2>4, <2>5
<1> QED
  BY <1>1, <1>2 DEF AllBlocks, Disjoint

\* Whatever allocFragments returns is a set of extents of the volume that do
\* not overlap each other and take free blocks only.
LEMMA FragmentsSound ==
    ASSUME NEW bm \in SUBSET Blocks, NEW c \in 1 .. TotalBlocks
    PROVE  /\ allocFragments(bm, c) \in SUBSET Extents
           /\ AllBlocks(allocFragments(bm, c)) \subseteq Free(bm)
           /\ Disjoint(allocFragments(bm, c))
<1>1. CASE FitsAt(bm, c) # {}
  <2>1. allocFragments(bm, c) = allocContiguous(bm, c)
    BY <1>1, TotalBlocksAssumption DEF allocFragments
  <2> QED
    BY <1>1, <2>1, ContiguousSound
<1>2. CASE FitsAt(bm, c) = {}
  <2>1. allocFragments(bm, c) = RunsOf(FirstFree(bm, c))
    BY <1>2, TotalBlocksAssumption DEF allocFragments
  <2>2. FirstFree(bm, c) \subseteq Free(bm) /\ Free(bm) \subseteq Blocks
    BY DEF FirstFree, Free
  <2> QED
    BY <2>1, <2>2, RunsSound
<1> QED
  BY <1>1, <1>2

\* freeCount counts some of the blocks of the volume.
LEMMA FreeCountBound ==
    ASSUME NEW bm \in SUBSET Blocks
    PROVE  freeCount(bm) \in 0 .. TotalBlocks
<1>1. IsFiniteSet(Blocks) /\ Cardinality(Blocks) = TotalBlocks
  BY FS_Interval, TotalBlocksAssumption DEF Blocks
<1>2. Free(bm) \in SUBSET Blocks
  BY DEF Free
<1>3. /\ Cardinality(Free(bm)) \in Nat
      /\ Cardinality(Free(bm)) <= TotalBlocks
  BY <1>1, <1>2, FS_Subset, FS_CardinalityType
<1> QED
  BY <1>3, TotalBlocksAssumption DEF freeCount

-----------------------------------------------------------------------------
\* Counting the smaller members numbers the members of a set of blocks: every
\* number below the cardinality is the rank of one of them, and as many as
\* wanted have the lowest ranks.
LEMMA Ranks ==
    ASSUME NEW B \in SUBSET Blocks
    PROVE  /\ \A n \in 1 .. Cardinality(B) :
                 \E b \in B : Cardinality({a \in B : a < b}) = n - 1
           /\ \A a, b \in B : Cardinality({x \in B : x < a}) = Cardinality({x \in B : x < b})
                 => a = b
           /\ \A c \in 0 .. Cardinality(B) :
                 Cardinality({b \in B : Cardinality({a \in B : a < b}) < c}) = c
<1> DEFINE N == Cardinality(B)
           Smaller(b) == {a \in B : a < b}
           r == [b \in B |-> Cardinality(Smaller(b))]
<1>1. /\ IsFiniteSet(B)
      /\ N \in Nat
      /\ \A b \in B : b \in Int
      /\ \A b \in B : IsFiniteSet(Smaller(b)) /\ Cardinality(Smaller(b)) \in Nat
  <2>1. ASSUME NEW b \in B
        PROVE  Smaller(b) \in SUBSET Blocks
    OBVIOUS
  <2> QED
    BY <2>1, BlocksFinite, TotalBlocksAssumption DEF Blocks
<1>2. ASSUME NEW b \in B
      PROVE  r[b] \in 0 .. (N - 1)
  <2>1. /\ IsFiniteSet(B \ {b})
        /\ Cardinality(B \ {b}) = N - 1
    BY <1>1, FS_RemoveElement
  <2>2. Smaller(b) \in SUBSET (B \ {b})
    BY <1>1
  <2>3. Cardinality(Smaller(b)) <= N - 1
    BY <2>1, <2>2, FS_Subset
  <2> QED
    BY <1>1, <2>3
<1>3. ASSUME NEW a \in B, NEW b \in B, a < b
      PROVE  r[a] < r[b]
  <2>1. a \notin Smaller(a)
    BY <1>1
  <2>2. /\ IsFiniteSet(Smaller(a) \cup {a})
        /\ Cardinality(Smaller(a) \cup {a}) = Cardinality(Smaller(a)) + 1
    BY <1>1, <2>1, FS_AddElement
  <2>3. Smaller(a) \cup {a} \in SUBSET Smaller(b)
    BY <1>1, <1>3
  <2>4. Cardinality(Smaller(a)) + 1 <= Cardinality(Smaller(b))
    BY <1>1, <2>2, <2>3, FS_Subset
  <2> QED
    BY <1>1, <2>4
<1> HIDE DEF N
<1>4. ASSUME NEW a \in B, NEW b \in B, r[a] = r[b]
      PROVE  a = b
  <2>1. r[a] \in Int /\ r[b] \in Int /\ a \in Int /\ b \in Int
    BY <1>1
  <2> HIDE DEF r
  <2> QED
    BY <1>3, <1>4, <2>1
<1>5. r \in Surjection(B, 0 .. (N - 1))
  <2>1. r \in [B -> 0 .. (N - 1)]
    BY <1>2
  <2> HIDE DEF r
  <2>2. r \in Injection(B, 0 .. (N - 1))
    BY <2>1, <1>4 DEF Injection, IsInjective
  <2>3. IsFiniteSet(0 .. (N - 1)) /\ Cardinality(0 .. (N - 1)) = N
    BY <1>1, FS_Interval
  <2> QED
    BY <2>2, <2>3, FS_Injection DEF N
<1>6. ASSUME NEW n \in 0 .. (N - 1)
      PROVE  \E b \in B : r[b] = n
  BY <1>5 DEF Surjection
<1>7. ASSUME NEW c \in 0 .. N
      PROVE  Cardinality({b \in B : Cardinality(Smaller(b)) < c}) = c
  <2> DEFINE F == {b \in B : Cardinality(Smaller(b)) < c}
             g == [b \in F |-> r[b]]
  <2>1. F = {b \in B : r[b] < c}
    OBVIOUS
  <2>2. \A b \in B : r[b] \in Nat
    BY <1>1
  <2> HIDE DEF r, F
  <2>3. g \in [F -> 0 .. (c - 1)]
    BY <2>1, <2>2, <1>1
  <2>4. \A a, b \in F : g[a] = g[b] => a = b
    BY <1>4, <2>1
  <2>5. ASSUME NEW n \in 0 .. (c - 1)
        PROVE  \E b \in F : g[b] = n
    <3>1. n \in 0 .. (N - 1) /\ n < c
      BY <1>1
    <3>2. PICK b \in B : r[b] = n
      BY <1>6, <3>1
    <3> QED
      BY <2>1, <3>1, <3>2
  <2> HIDE DEF g
  <2>6. g \in Bijection(F, 0 .. (c - 1))
    BY <2>3, <2>4, <2>5 DEF Bijection, Injection, IsInjective, Surjection
  <2>7. IsFiniteSet(F)
    BY <1>1, <2>1, FS_Subset
  <2>8. Cardinality(0 .. (c - 1)) = Cardinality(F)
    BY <2>6, <2>7, FS_Bijection DEF ExistsBijection
  <2>9. Cardinality(0 .. (c - 1)) = c
    BY <1>1, FS_Interval
  <2> QED
    BY <2>8, <2>9 DEF F
<1>8. \A n \in 1 .. N : n - 1 \in 0 .. (N - 1)
  BY <1>1
<1> QED
  BY <1>4, <1>6, <1>7, <1>8 DEF N

\* The maximal runs of a set of blocks cover it: a block's run begins at the
\* lowest block from which the set goes on to it, and ends where it stops.
LEMMA RunsCover ==
    ASSUME NEW T \in SUBSET Blocks
    PROVE  AllBlocks(RunsOf(T)) = T
<1>1. \A t \in T : t \in Nat /\ t < TotalBlocks
  BY TotalBlocksAssumption DEF Blocks
<1>2. ASSUME NEW t \in T
      PROVE  t \in AllBlocks(RunsOf(T))
  <2> DEFINE Lows  == {s \in T : s <= t /\ (s .. t) \subseteq T}
             Gaps  == {x \in Nat : x > t /\ x \notin T}
             a == Min(Lows)
             z == Min(Gaps)
  <2>1. /\ Lows \in SUBSET Nat
        /\ t \in Lows
    BY <1>1
  <2>2. /\ a \in Lows
        /\ \A s \in Lows : a <= s
    BY <2>1, MinIsLeast
  <2>3. /\ Gaps \in SUBSET Nat
        /\ TotalBlocks \in Gaps
    BY <1>1, TotalBlocksAssumption
  <2>4. /\ z \in Gaps
        /\ \A x \in Gaps : z <= x
    BY <2>3, MinIsLeast
  <2> HIDE DEF a, z
  <2>5. /\ a \in T /\ a \in Nat /\ t \in Nat /\ a <= t /\ (a .. t) \subseteq T
        /\ z \in Nat /\ z > t /\ z \notin T
    BY <1>1, <2>2, <2>4
  <2>6. a - 1 \notin T
    <3>1. SUFFICES ASSUME a - 1 \in T
                   PROVE  FALSE
      OBVIOUS
    <3>2. a - 1 \in Lows
      BY <1>1, <2>5, <3>1
    <3> QED
      BY <2>2, <2>5, <3>2
  <2>7. ASSUME NEW x \in t .. (z - 1)
        PROVE  x \in T
    BY <2>4, <2>5
  <2>8. (a .. (z - 1)) \subseteq T
    BY <2>5, <2>7
  <2>9. z - 1 \in T /\ a <= z - 1 /\ (z - 1) + 1 \notin T
    BY <2>5, <2>7
  <2>10. Extent(a, (z - 1) - a + 1) \in RunsOf(T)
    <3> DEFINE q == <<a, z - 1>>
    <3>1. /\ q \in T \X T /\ q[1] = a /\ q[2] = z - 1
      BY <2>5, <2>9
    <3> HIDE DEF q
    <3>2. /\ q[1] <= q[2] /\ (q[1] .. q[2]) \subseteq T
          /\ q[1] - 1 \notin T /\ q[2] + 1 \notin T
      BY <2>6, <2>8, <2>9, <3>1
    <3> QED
      BY <3>1, <3>2 DEF RunsOf
  <2>11. t \in ExtentBlocks(Extent(a, (z - 1) - a + 1))
    BY <2>5 DEF ExtentBlocks, Extent
  <2> QED
    BY <2>10, <2>11 DEF AllBlocks
<1> QED
  BY <1>2, RunsSound

\* The extents whose blocks all lie in the volume.
Inside == {e \in Extents : ExtentBlocks(e) \subseteq Blocks}

\* A call of allocFragments that finds room returns exactly as many blocks as
\* it was asked for, all of them free before, in extents of the volume that do
\* not overlap.
LEMMA FragmentsExact ==
    ASSUME NEW bm \in SUBSET Blocks, NEW c \in Nat, CanAlloc(bm, c)
    PROVE  /\ allocFragments(bm, c) \in SUBSET Inside
           /\ AllBlocks(allocFragments(bm, c)) \in SUBSET Free(bm)
           /\ Disjoint(allocFragments(bm, c))
           /\ Cardinality(AllBlocks(allocFragments(bm, c))) = c
<1> DEFINE runs == allocFragments(bm, c)
<1>1. CASE c = 0
  <2>1. runs = {} /\ AllBlocks(runs) = {}
    BY <1>1 DEF allocFragments, AllBlocks
  <2> HIDE DEF runs
  <2> QED
    BY <1>1, <2>1, FS_EmptySet DEF Disjoint, runs
<1>2. CASE c > 0
  <2>1. Free(bm) \in SUBSET Blocks /\ Cardinality(Free(bm)) \in Nat
    BY BlocksFinite DEF Free
  <2>2. c \in 1 .. TotalBlocks /\ c <= Cardinality(Free(bm))
    <3>1. c <= Cardinality(Free(bm))
      BY DEF CanAlloc
    <3>2. Cardinality(Free(bm)) \in 0 .. TotalBlocks
      BY FreeCountBound DEF freeCount
    <3> QED
      BY <1>2, <3>1, <3>2, TotalBlocksAssumption
  <2>3. /\ runs \in SUBSET Extents
        /\ AllBlocks(runs) \in SUBSET Free(bm)
        /\ Disjoint(runs)
    BY <2>2, FragmentsSound
  <2>4. runs \in SUBSET Inside
    BY <2>1, <2>3 DEF Inside, AllBlocks
  <2>5. Cardinality(AllBlocks(runs)) = c
    <3>1. CASE FitsAt(bm, c) # {}
      <4> DEFINE s == Min(FitsAt(bm, c))
      <4>1. FitsAt(bm, c) \in SUBSET Nat
        BY TotalBlocksAssumption DEF FitsAt, Blocks
      <4>2. s \in FitsAt(bm, c)
        BY <3>1, <4>1, MinIsLeast
      <4>3. s \in Nat
        BY <4>1, <4>2
      <4>4. runs = {Extent(s, c)}
        BY <1>2, <3>1 DEF allocFragments, allocContiguous
      <4> HIDE DEF s, runs
      <4>5. AllBlocks(runs) = s .. (s + c - 1)
        BY <4>3, <4>4, <2>2 DEF AllBlocks, ExtentBlocks, Extent
      <4> QED
        BY <1>2, <4>3, <4>5, FS_Interval
    <3>2. CASE FitsAt(bm, c) = {}
      <4>1. runs = RunsOf(FirstFree(bm, c))
        BY <1>2, <3>2 DEF allocFragments
      <4>2. FirstFree(bm, c) \in SUBSET Blocks
        BY DEF FirstFree, Free
      <4>3. AllBlocks(runs) = FirstFree(bm, c)
        BY <4>1, <4>2, RunsCover
      <4>4. c \in 0 .. Cardinality(Free(bm))
        BY <2>1, <2>2
      <4> QED
        BY <2>1, <4>3, <4>4, Ranks DEF FirstFree
    <3> QED
      BY <3>1, <3>2
  <2> QED
    BY <2>3, <2>4, <2>5
<1> QED
  BY <1>1, <1>2
=============================================================================
