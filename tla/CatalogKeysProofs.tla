------------------------- MODULE CatalogKeysProofs --------------------------
(***************************************************************************)
(* A search that descends by one notion of "the same name" and scans by    *)
(* another finds every record of a folder, for any set of names on which   *)
(* the two agree, and on every HFSX volume, where both are equality.  The  *)
(* inductive invariant is the order of the records: strictly ascending, so *)
(* that no two records compare equal, wherever the leaves begin.           *)
(***************************************************************************)
EXTENDS CatalogKeys, FiniteSetTheorems, SequenceTheorems, WellFoundedInduction,
        TLAPS

\* strings.EqualFold takes two names for the same exactly when the table of
\* foldU16 does.
FoldingsAgree ==
    \A a, b \in Names :
        (/\ Len(a) = Len(b)
         /\ \A i \in DOMAIN a : SameLetter[a[i]] = SameLetter[b[i]])
        <=> Folded(a) = Folded(b)

\* a is a proper prefix of b, or smaller at the first difference, at m.
LessAt(a, b, m) ==
    /\ m \in 1 .. Len(b)
    /\ m <= Len(a) + 1
    /\ \A i \in 1 .. (m - 1) : a[i] = b[i]
    /\ m <= Len(a) => a[m] < b[m]

Less(a, b) == \E m \in Nat : LessAt(a, b, m)

-----------------------------------------------------------------------------
(* The order of the keys. *)

\* A non-empty set of naturals has a least element, which Min chooses.
LEMMA MinIsLeast ==
    ASSUME NEW S \in SUBSET Nat, S # {}
    PROVE  /\ Min(S) \in S
           /\ \A x \in S : Min(S) <= x
<1> DEFINE R == OpToRel(<, Nat)
<1>1. IsWellFoundedOn(R, Nat)
  BY NatLessThanWellFounded
<1>2. ASSUME NEW x \in Nat, NEW y \in Nat, x < y
      PROVE  <<x, y>> \in R
  BY <1>2 DEF OpToRel
<1> HIDE DEF R
<1>3. PICK m \in S : \A x \in S : ~(<<x, m>> \in R)
  BY <1>1, WFMin
<1>4. ASSUME NEW x \in S
      PROVE  m <= x
  <2>1. x \in Nat /\ m \in Nat
    OBVIOUS
  <2>2. ~(x < m)
    BY <1>2, <1>3, <2>1, Zenon
  <2> QED
    BY <2>1, <2>2
<1>5. \E m1 \in S : \A x \in S : m1 <= x
  BY <1>3, <1>4
<1> QED
  BY <1>5 DEF Min

\* compareU16 is the sign of the lexicographic order.
LEMMA CompareIsLess ==
    ASSUME NEW a \in Seq(Int), NEW b \in Seq(Int)
    PROVE  /\ compareU16(a, b) \in {-1, 0, 1}
           /\ compareU16(a, b) < 0 => Less(a, b)
           /\ compareU16(a, b) > 0 => Less(b, a)
           /\ compareU16(a, b) = 0 => a = b
<1> DEFINE D == {i \in DOMAIN a \cap DOMAIN b : a[i] # b[i]}
           m == Min(D)
<1>1. /\ Len(a) \in Nat /\ DOMAIN a = 1 .. Len(a)
      /\ Len(b) \in Nat /\ DOMAIN b = 1 .. Len(b)
      /\ \A i \in 1 .. Len(a) : a[i] \in Int
      /\ \A i \in 1 .. Len(b) : b[i] \in Int
  OBVIOUS
<1>2. D \in SUBSET Nat
  BY <1>1
<1>3. CASE D = {}
  <2>1. compareU16(a, b) = Sign(Len(a) - Len(b))
    BY <1>3 DEF compareU16
  <2>2. \A i \in 1 .. Len(a) : i <= Len(b) => a[i] = b[i]
    BY <1>1, <1>3
  <2>3. CASE Len(a) < Len(b)
    <3>1. compareU16(a, b) = -1
      BY <1>1, <2>1, <2>3 DEF Sign
    <3>2. LessAt(a, b, Len(a) + 1)
      BY <1>1, <2>2, <2>3 DEF LessAt
    <3> QED
      BY <1>1, <3>1, <3>2 DEF Less
  <2>4. CASE Len(b) < Len(a)
    <3>1. compareU16(a, b) = 1
      BY <1>1, <2>1, <2>4 DEF Sign
    <3>2. LessAt(b, a, Len(b) + 1)
      BY <1>1, <2>2, <2>4 DEF LessAt
    <3> QED
      BY <1>1, <3>1, <3>2 DEF Less
  <2>5. CASE Len(a) = Len(b)
    <3>1. compareU16(a, b) = 0
      BY <1>1, <2>1, <2>5 DEF Sign
    <3>2. a = b
      BY <1>1, <2>2, <2>5, SeqEqual
    <3> QED
      BY <3>1, <3>2
  <2>6. Len(a) < Len(b) \/ Len(b) < Len(a) \/ Len(a) = Len(b)
    <3>1. Len(a) \in Int /\ Len(b) \in Int
      BY <1>1
    <3> QED
      BY <3>1
  <2> QED
    BY <2>3, <2>4, <2>5, <2>6, Zenon
<1>4. CASE D # {}
  <2>1. compareU16(a, b) = Sign(a[m] - b[m])
    BY <1>4 DEF compareU16
  <2>2. m \in D /\ \A x \in D : m <= x
    BY <1>2, <1>4, MinIsLeast
  <2> HIDE DEF m
  <2>3. /\ m \in 1 .. Len(a) /\ m \in 1 .. Len(b)
        /\ a[m] \in Int /\ b[m] \in Int /\ a[m] # b[m]
    BY <1>1, <2>2
  <2>4. \A i \in 1 .. (m - 1) : a[i] = b[i]
    <3> SUFFICES ASSUME NEW i \in 1 .. (m - 1), a[i] # b[i]
                 PROVE  FALSE
      OBVIOUS
    <3>1. i \in 1 .. Len(a) /\ i \in 1 .. Len(b) /\ ~(m <= i)
      BY <1>1, <2>3
    <3>2. i \in D
      BY <1>1, <3>1
    <3> QED
      BY <2>2, <3>1, <3>2
  <2>5. CASE a[m] < b[m]
    <3>1. compareU16(a, b) = -1
      BY <2>1, <2>3, <2>5 DEF Sign
    <3>2. LessAt(a, b, m)
      BY <1>1, <2>3, <2>4, <2>5 DEF LessAt
    <3> QED
      BY <2>3, <3>1, <3>2 DEF Less
  <2>6. CASE b[m] < a[m]
    <3>1. compareU16(a, b) = 1
      BY <2>1, <2>3, <2>6 DEF Sign
    <3>2. LessAt(b, a, m)
      BY <1>1, <2>3, <2>4, <2>6 DEF LessAt
    <3> QED
      BY <2>3, <3>1, <3>2 DEF Less
  <2> QED
    BY <2>3, <2>5, <2>6
<1> QED
  BY <1>3, <1>4

\* The order is transitive and no sequence is below itself.
LEMMA LessOrders ==
    ASSUME NEW a \in Seq(Int), NEW b \in Seq(Int), NEW c \in Seq(Int)
    PROVE  /\ ~Less(a, a)
           /\ Less(a, b) /\ Less(b, c) => Less(a, c)
<1>1. /\ Len(a) \in Nat /\ Len(b) \in Nat /\ Len(c) \in Nat
      /\ \A i \in 1 .. Len(a) : a[i] \in Int
      /\ \A i \in 1 .. Len(b) : b[i] \in Int
      /\ \A i \in 1 .. Len(c) : c[i] \in Int
  OBVIOUS
<1>2. ~Less(a, a)
  BY <1>1 DEF Less, LessAt
<1>3. ASSUME Less(a, b), Less(b, c)
      PROVE  Less(a, c)
  <2>1. PICK k \in Nat : LessAt(a, b, k)
    BY <1>3 DEF Less
  <2>2. PICK l \in Nat : LessAt(b, c, l)
    BY <1>3 DEF Less
  <2>3. CASE k <= l
    <3>1. /\ k \in 1 .. Len(b) /\ k <= Len(a) + 1 /\ l \in 1 .. Len(c)
          /\ \A i \in 1 .. (k - 1) : a[i] = b[i]
          /\ \A i \in 1 .. (l - 1) : b[i] = c[i]
          /\ k <= Len(a) => a[k] < b[k]
          /\ l <= Len(b) => b[l] < c[l]
      BY <2>1, <2>2 DEF LessAt
    <3>2. k \in 1 .. Len(c)
      BY <1>1, <2>3, <3>1
    <3>3. \A i \in 1 .. (k - 1) : a[i] = c[i]
      BY <1>1, <2>3, <3>1
    <3>4. ASSUME k <= Len(a)
          PROVE  a[k] < c[k]
      <4>1. a[k] \in Int /\ b[k] \in Int /\ c[k] \in Int /\ a[k] < b[k]
        BY <1>1, <3>1, <3>2, <3>4
      <4>2. CASE k = l
        BY <1>1, <3>1, <4>1, <4>2
      <4>3. CASE k < l
        <5>1. k \in 1 .. (l - 1)
          BY <1>1, <3>1, <4>3
        <5> QED
          BY <3>1, <4>1, <5>1
      <4> QED
        BY <2>3, <4>2, <4>3
    <3>5. LessAt(a, c, k)
      BY <3>1, <3>2, <3>3, <3>4 DEF LessAt
    <3> QED
      BY <3>5 DEF Less
  <2>4. CASE l < k
    <3>1. LessAt(a, c, l)
      BY <1>1, <2>1, <2>2, <2>4 DEF LessAt
    <3> QED
      BY <3>1 DEF Less
  <2> QED
    BY <2>3, <2>4
<1> QED
  BY <1>2, <1>3

\* So compareU16 is a total order.
LEMMA CompareOrders ==
    ASSUME NEW a \in Seq(Int), NEW b \in Seq(Int), NEW c \in Seq(Int)
    PROVE  /\ compareU16(a, b) \in Int
           /\ compareU16(a, b) = 0 <=> a = b
           /\ compareU16(a, b) < 0 <=> Less(a, b)
           /\ compareU16(a, b) > 0 <=> Less(b, a)
           /\ compareU16(a, b) < 0 /\ compareU16(b, c) < 0 => compareU16(a, c) < 0
<1>1. \A x, y \in Seq(Int) :
         /\ compareU16(x, y) < 0 <=> Less(x, y)
         /\ compareU16(x, y) > 0 <=> Less(y, x)
         /\ compareU16(x, y) = 0 <=> x = y
         /\ compareU16(x, y) \in Int
  <2> SUFFICES ASSUME NEW x \in Seq(Int), NEW y \in Seq(Int)
               PROVE  /\ compareU16(x, y) < 0 <=> Less(x, y)
                      /\ compareU16(x, y) > 0 <=> Less(y, x)
                      /\ compareU16(x, y) = 0 <=> x = y
                      /\ compareU16(x, y) \in Int
    OBVIOUS
  <2>1. /\ compareU16(x, y) \in {-1, 0, 1}
        /\ compareU16(x, y) < 0 => Less(x, y)
        /\ compareU16(x, y) > 0 => Less(y, x)
        /\ compareU16(x, y) = 0 => x = y
    BY CompareIsLess
  <2>2. ~Less(x, x) /\ ~Less(y, y)
    BY LessOrders
  <2>3. ~(Less(x, y) /\ Less(y, x))
    BY <2>2, LessOrders
  <2> QED
    BY <2>1, <2>2, <2>3
<1> QED
  BY <1>1, LessOrders

\* The positions kept are numbered by how many are kept before them.
LEMMA KeptNumbered ==
    ASSUME NEW s \in Seq(Units), NEW j \in 1 .. Cardinality(Kept(s))
    PROVE  \E i \in Kept(s) : Cardinality({k \in Kept(s) : k < i}) = j - 1
<1> DEFINE K == Kept(s)
           N == Cardinality(K)
           Before(i) == {k \in K : k < i}
           r == [i \in K |-> Cardinality(Before(i))]
<1>1. /\ IsFiniteSet(K) /\ N \in Nat
      /\ \A i \in K : i \in Int
  <2>1. Len(s) \in Nat /\ DOMAIN s = 1 .. Len(s)
    OBVIOUS
  <2>2. IsFiniteSet(1 .. Len(s))
    BY <2>1, FS_Interval
  <2>3. K \in SUBSET (1 .. Len(s))
    BY <2>1 DEF Kept
  <2> QED
    BY <2>2, <2>3, FS_Subset, FS_CardinalityType
<1> HIDE DEF K
<1>2. \A i \in K : /\ IsFiniteSet(Before(i)) /\ Cardinality(Before(i)) \in Nat
                   /\ r[i] = Cardinality(Before(i))
                   /\ Before(i) \in SUBSET (K \ {i})
  <2> SUFFICES ASSUME NEW i \in K
               PROVE  /\ IsFiniteSet(Before(i)) /\ Cardinality(Before(i)) \in Nat
                      /\ Before(i) \in SUBSET (K \ {i})
    OBVIOUS
  <2>1. Before(i) \in SUBSET (K \ {i}) /\ Before(i) \in SUBSET K
    BY <1>1
  <2> HIDE DEF Before
  <2>2. IsFiniteSet(Before(i))
    BY <1>1, <2>1, FS_Subset
  <2> QED
    BY <2>1, <2>2, FS_CardinalityType
<1>a. \A a, b \in K : a < b => Before(a) \cup {a} \in SUBSET Before(b)
  BY <1>1
<1>b. r \in [K -> Int]
  <2> HIDE DEF Before
  <2>1. \A i \in K : Cardinality(Before(i)) \in Int
    BY <1>2
  <2> QED
    BY <2>1
<1> HIDE DEF Before, r
<1>3. ASSUME NEW i \in K
      PROVE  r[i] \in 0 .. (N - 1)
  <2>1. IsFiniteSet(K \ {i}) /\ Cardinality(K \ {i}) = N - 1
    BY <1>1, FS_RemoveElement
  <2>2. Cardinality(Before(i)) <= N - 1
    BY <1>2, <2>1, FS_Subset
  <2> QED
    BY <1>1, <1>2, <2>2
<1>4. ASSUME NEW a \in K, NEW b \in K, a < b
      PROVE  r[a] < r[b]
  <2>1. /\ IsFiniteSet(Before(a) \cup {a})
        /\ Cardinality(Before(a) \cup {a}) = Cardinality(Before(a)) + 1
    <3>1. IsFiniteSet(Before(a)) /\ a \notin Before(a)
      BY <1>2
    <3> QED
      BY <3>1, FS_AddElement
  <2>2. Before(a) \cup {a} \in SUBSET Before(b)
    BY <1>a, <1>4
  <2>3. Cardinality(Before(a)) + 1 <= Cardinality(Before(b))
    BY <1>2, <2>1, <2>2, FS_Subset
  <2> QED
    BY <1>2, <2>3
<1> HIDE DEF N
<1>5. ASSUME NEW a \in K, NEW b \in K, r[a] = r[b]
      PROVE  a = b
  <2>1. r[a] \in Int /\ r[b] \in Int /\ a \in Int /\ b \in Int
    BY <1>1, <1>2
  <2> QED
    BY <1>4, <1>5, <2>1
<1>6. r \in Surjection(K, 0 .. (N - 1))
  <2>1. r \in [K -> 0 .. (N - 1)]
    BY <1>3, <1>b
  <2>2. r \in Injection(K, 0 .. (N - 1))
    BY <2>1, <1>5 DEF Injection, IsInjective
  <2>3. IsFiniteSet(0 .. (N - 1)) /\ Cardinality(0 .. (N - 1)) = N
    BY <1>1, FS_Interval
  <2> QED
    BY <1>1, <2>2, <2>3, FS_Injection DEF N
<1>7. j - 1 \in 0 .. (N - 1)
  BY <1>1 DEF N, K
<1>8. \E i \in K : r[i] = j - 1
  BY <1>6, <1>7 DEF Surjection
<1> QED
  BY <1>2, <1>8 DEF K, Before

\* Folding gives a sequence of numbers.
LEMMA FoldedType ==
    ASSUME NEW s \in Seq(Units)
    PROVE  Folded(s) \in Seq(Int)
<1> DEFINE N == Cardinality(Kept(s))
           At(j) == CHOOSE i \in Kept(s) : Cardinality({k \in Kept(s) : k < i}) = j - 1
<1>1. \A j \in 1 .. N : At(j) \in Kept(s)
  BY KeptNumbered
<1>2. N \in Nat
  <2>1. Len(s) \in Nat /\ DOMAIN s = 1 .. Len(s)
    OBVIOUS
  <2>2. IsFiniteSet(1 .. Len(s))
    BY <2>1, FS_Interval
  <2>3. Kept(s) \in SUBSET (1 .. Len(s))
    BY <2>1 DEF Kept
  <2> QED
    BY <2>2, <2>3, FS_Subset, FS_CardinalityType
<1>3. Folded(s) = [j \in 1 .. N |-> foldU16(s[At(j)])]
  BY DEF Folded
<1> HIDE DEF N, At
<1>4. ASSUME NEW j \in 1 .. N
      PROVE  foldU16(s[At(j)]) \in Int
  <2>1. s[At(j)] \in Units
    BY <1>1 DEF Kept
  <2>2. ASSUME NEW c \in Units
        PROVE  foldU16(c) \in Int
    <3>1. c \in Int /\ c + 32 \in Int /\ c + 1 \in Int
      BY DEF Units
    <3>2. foldU16(c) \in {c, c + 32, c + 1}
      BY DEF foldU16
    <3> QED
      BY <3>1, <3>2
  <2> QED
    BY <2>1, <2>2
<1> QED
  BY <1>2, <1>3, <1>4

\* Names and their foldings are sequences of numbers.
LEMMA NamesTyped ==
    \A n \in Names : n \in Seq(Int) /\ Folded(n) \in Seq(Int)
<1> SUFFICES ASSUME NEW n \in Names
             PROVE  n \in Seq(Int) /\ Folded(n) \in Seq(Int)
  OBVIOUS
<1>1. n \in Seq(DOMAIN SameLetter)
  BY CatalogKeysAssumption, Zenon
<1>2. DOMAIN SameLetter \subseteq Units
  BY CatalogKeysAssumption, Zenon
<1>3. n \in Seq(Units)
  BY <1>1, <1>2, SeqMonotonic, Zenon
<1>4. Units \subseteq Int
  BY DEF Units
<1>5. n \in Seq(Int)
  BY <1>3, <1>4, SeqMonotonic
<1> QED
  BY <1>3, <1>5, FoldedType

\* The comparison of a tree's keys, of either kind: a total order of classes
\* of names.
LEMMA KeysOrdered ==
    ASSUME binary \in BOOLEAN, NEW a \in Names, NEW b \in Names, NEW c \in Names
    PROVE  /\ compareCatalogKey(a, b) \in Int
           /\ compareCatalogKey(a, b) > 0 <=> compareCatalogKey(b, a) < 0
           /\ compareCatalogKey(a, b) = 0 <=> compareCatalogKey(b, a) = 0
           /\ compareCatalogKey(a, b) < 0 /\ compareCatalogKey(b, c) < 0
                 => compareCatalogKey(a, c) < 0
           /\ compareCatalogKey(a, b) = 0
                 => compareCatalogKey(a, c) = compareCatalogKey(b, c)
<1> DEFINE Key(n) == IF binary THEN n ELSE Folded(n)
<1>1. \A n \in Names : Key(n) \in Seq(Int)
  BY NamesTyped
<1>2. \A m, n \in Names : compareCatalogKey(m, n) = compareU16(Key(m), Key(n))
  BY DEF compareCatalogKey, fastUnicodeCompare
<1> HIDE DEF Key
<1>3. Key(a) \in Seq(Int) /\ Key(b) \in Seq(Int) /\ Key(c) \in Seq(Int)
  BY <1>1
<1>4. /\ compareU16(Key(a), Key(b)) \in Int
      /\ compareU16(Key(a), Key(b)) = 0 <=> Key(a) = Key(b)
      /\ compareU16(Key(b), Key(a)) = 0 <=> Key(a) = Key(b)
      /\ compareU16(Key(a), Key(b)) > 0 <=> compareU16(Key(b), Key(a)) < 0
      /\ compareU16(Key(a), Key(b)) < 0 /\ compareU16(Key(b), Key(c)) < 0
            => compareU16(Key(a), Key(c)) < 0
  <2>1. /\ compareU16(Key(a), Key(b)) \in Int
        /\ compareU16(Key(a), Key(b)) = 0 <=> Key(a) = Key(b)
        /\ compareU16(Key(a), Key(b)) > 0 <=> Less(Key(b), Key(a))
        /\ compareU16(Key(a), Key(b)) < 0 /\ compareU16(Key(b), Key(c)) < 0
            => compareU16(Key(a), Key(c)) < 0
    BY <1>3, CompareOrders
  <2>2. /\ compareU16(Key(b), Key(a)) = 0 <=> Key(b) = Key(a)
        /\ compareU16(Key(b), Key(a)) < 0 <=> Less(Key(b), Key(a))
    BY <1>3, CompareOrders
  <2> QED
    BY <2>1, <2>2
<1> QED
  BY <1>2, <1>4

-----------------------------------------------------------------------------
(* A folder in strictly ascending order. *)

Sorted(d) ==
    \A i, j \in DOMAIN d : i < j => compareCatalogKey(d[i], d[j]) < 0

\* No record compares equal to the name.
Absent(d, n) == \A i \in DOMAIN d : compareCatalogKey(d[i], n) # 0

\* The two notions of "the same name" agree.
NamesAgree ==
    \A a, b \in Names : nameEqual(a, b) <=> compareCatalogKey(a, b) = 0

IInv ==
    /\ binary \in BOOLEAN
    /\ binary \/ FoldingsAgree
    /\ dir \in Seq(Names)
    /\ Sorted(dir)

\* On a binary volume both are equality; elsewhere the foldings decide.
LEMMA AgreementHolds ==
    ASSUME binary \in BOOLEAN, binary \/ FoldingsAgree
    PROVE  NamesAgree
<1> SUFFICES ASSUME NEW a \in Names, NEW b \in Names
             PROVE  nameEqual(a, b) <=> compareCatalogKey(a, b) = 0
  BY DEF NamesAgree
<1>1. \A n \in Names : n \in Seq(Int) /\ Folded(n) \in Seq(Int)
  BY NamesTyped
<1>2. CASE binary
  <2>1. compareU16(a, b) = 0 <=> a = b
    BY <1>1, CompareOrders
  <2> QED
    BY <1>2, <2>1 DEF nameEqual, compareCatalogKey
<1>3. CASE ~binary
  <2>1. compareU16(Folded(a), Folded(b)) = 0 <=> Folded(a) = Folded(b)
    BY <1>1, CompareOrders
  <2>2. compareCatalogKey(a, b) = 0 <=> Folded(a) = Folded(b)
    BY <1>3, <2>1 DEF compareCatalogKey, fastUnicodeCompare
  <2>3. FoldingsAgree
    BY <1>3
  <2> QED
    BY <1>3, <2>2, <2>3 DEF FoldingsAgree, nameEqual
<1> QED
  BY <1>2, <1>3

\* Before the leaf of a name every record is below the name, after it above.
LEMMA LeafBounds ==
    ASSUME binary \in BOOLEAN, NEW d \in Seq(Names), Sorted(d),
           NEW n \in Names, NEW l \in findLeaf(d, n)
    PROVE  /\ l.first \in 1 .. (Len(d) + 1) /\ l.last \in 0 .. Len(d)
           /\ l.first <= l.last + 1
           /\ \A i \in DOMAIN d : /\ i < l.first => compareCatalogKey(d[i], n) < 0
                                  /\ i > l.last => compareCatalogKey(d[i], n) > 0
<1>1. /\ l.first \in 1 .. (Len(d) + 1) /\ l.last \in 0 .. Len(d)
      /\ \/ l.first = 1
         \/ l.first <= l.last /\ compareCatalogKey(d[l.first], n) <= 0
      /\ l.last = Len(d) \/ compareCatalogKey(d[l.last + 1], n) > 0
  BY DEF findLeaf
<1>2. Len(d) \in Nat /\ DOMAIN d = 1 .. Len(d) /\ \A i \in DOMAIN d : d[i] \in Names
  OBVIOUS
<1> DEFINE F == l.first
           E == l.last
<1>3. /\ F \in 1 .. (Len(d) + 1) /\ E \in 0 .. Len(d)
      /\ F = 1 \/ (F <= E /\ compareCatalogKey(d[F], n) <= 0)
      /\ E = Len(d) \/ compareCatalogKey(d[E + 1], n) > 0
  BY <1>1
<1> DEFINE N == Len(d)
<1>a. /\ N \in Nat /\ F \in Int /\ E \in Int /\ 1 <= F /\ F <= N + 1
      /\ 0 <= E /\ E <= N /\ DOMAIN d = 1 .. N
      /\ F = 1 \/ F <= E
  BY <1>2, <1>3
<1> HIDE DEF F, E, N
<1>4. F <= E + 1
  BY <1>a
<1>5. ASSUME NEW i \in DOMAIN d, i < F
      PROVE  compareCatalogKey(d[i], n) < 0
  <2>1. F \in DOMAIN d /\ compareCatalogKey(d[F], n) <= 0
    <3>1. F # 1 /\ F \in 1 .. N
      BY <1>a, <1>5
    <3> QED
      BY <1>a, <1>3, <3>1
  <2>2. d[i] \in Names /\ d[F] \in Names
    BY <1>2, <2>1
  <2>3. compareCatalogKey(d[i], d[F]) < 0
    BY <1>5, <2>1 DEF Sorted
  <2>4. CASE compareCatalogKey(d[F], n) < 0
    BY <2>2, <2>3, <2>4, KeysOrdered
  <2>5. CASE compareCatalogKey(d[F], n) = 0
    <3>1. compareCatalogKey(d[F], d[i]) = compareCatalogKey(n, d[i])
      BY <2>2, <2>5, KeysOrdered
    <3>2. compareCatalogKey(d[F], d[i]) > 0
      BY <2>2, <2>3, KeysOrdered
    <3>3. compareCatalogKey(n, d[i]) > 0
      BY <3>1, <3>2
    <3> QED
      BY <2>2, <3>3, KeysOrdered
  <2>6. compareCatalogKey(d[F], n) \in Int
    BY <2>2, KeysOrdered
  <2> QED
    BY <2>1, <2>4, <2>5, <2>6
<1>6. ASSUME NEW i \in DOMAIN d, i > E
      PROVE  compareCatalogKey(d[i], n) > 0
  <2>1. E + 1 \in DOMAIN d /\ compareCatalogKey(d[E + 1], n) > 0
    <3>1. E # N /\ E + 1 \in 1 .. N
      BY <1>a, <1>6
    <3> QED
      BY <1>a, <1>3, <3>1 DEF N
  <2>2. d[i] \in Names /\ d[E + 1] \in Names
    BY <1>2, <2>1
  <2>3. CASE i = E + 1
    BY <2>1, <2>3
  <2>4. CASE E + 1 < i
    <3>1. compareCatalogKey(d[E + 1], d[i]) < 0
      BY <2>1, <2>4 DEF Sorted
    <3>2. compareCatalogKey(n, d[E + 1]) < 0
      BY <2>1, <2>2, KeysOrdered
    <3>3. compareCatalogKey(n, d[i]) < 0
      BY <2>2, <3>1, <3>2, KeysOrdered
    <3> QED
      BY <2>2, <3>3, KeysOrdered
  <2>5. i = E + 1 \/ E + 1 < i
    BY <1>a, <1>6
  <2> QED
    BY <2>3, <2>4, <2>5
<1> QED
  BY <1>3, <1>4, <1>5, <1>6 DEF F, E

\* At most one record compares equal to a name.
LEMMA OnlyOne ==
    ASSUME binary \in BOOLEAN, NEW d \in Seq(Names), Sorted(d), NEW n \in Names,
           NEW i \in DOMAIN d, NEW j \in DOMAIN d,
           compareCatalogKey(d[i], n) = 0, compareCatalogKey(d[j], n) = 0
    PROVE  i = j
<1>1. i \in Int /\ j \in Int /\ d[i] \in Names /\ d[j] \in Names
  OBVIOUS
<1>2. compareCatalogKey(d[i], d[j]) = 0 /\ compareCatalogKey(d[j], d[i]) = 0
  <2>1. /\ compareCatalogKey(n, d[j]) = 0
        /\ compareCatalogKey(d[i], d[j]) = compareCatalogKey(n, d[j])
    BY <1>1, KeysOrdered
  <2> QED
    BY <1>1, <2>1, KeysOrdered
<1>3. ~(i < j) /\ ~(j < i)
  BY <1>2 DEF Sorted
<1> QED
  BY <1>1, <1>3

\* The scan answers with the one record that compares equal, and the writer's
\* scan of a single leaf with the same.
LEMMA ScansFind ==
    ASSUME binary \in BOOLEAN, NamesAgree, NEW d \in Seq(Names), Sorted(d),
           NEW n \in Names, NEW l \in findLeaf(d, n),
           NEW i \in DOMAIN d, compareCatalogKey(d[i], n) = 0
    PROVE  /\ lookup(d, n, l) = i
           /\ i \in l.first .. l.last
           /\ deleteByKey(d, n, l) = RemoveAt(d, i)
<1>1. /\ l.first \in Int /\ l.last \in Int /\ l.first >= 1 /\ l.last <= Len(d)
      /\ ~(i < l.first) /\ ~(i > l.last)
  BY LeafBounds
<1>2. i \in Int /\ i >= 1 /\ i <= Len(d) /\ Len(d) \in Nat /\ DOMAIN d = 1 .. Len(d)
  OBVIOUS
<1>3. i \in l.first .. l.last /\ i \in l.first .. Len(d)
  BY <1>1, <1>2
<1>4. \A j \in DOMAIN d : nameEqual(d[j], n) <=> j = i
  <2>1. \A j \in DOMAIN d : nameEqual(d[j], n) <=> compareCatalogKey(d[j], n) = 0
    BY DEF NamesAgree
  <2> QED
    BY <2>1, OnlyOne
<1>5. /\ {j \in l.first .. Len(d) : nameEqual(d[j], n)} = {i}
      /\ {j \in l.first .. l.last : nameEqual(d[j], n)} = {i}
  BY <1>1, <1>2, <1>3, <1>4
<1>6. FirstOf({i}) = i /\ i # 0
  <2>1. {i} \in SUBSET Nat /\ {i} # {}
    BY <1>2
  <2>2. Min({i}) \in {i}
    BY <2>1, MinIsLeast
  <2> QED
    BY <1>2, <2>2 DEF FirstOf
<1> QED
  BY <1>3, <1>5, <1>6 DEF lookup, deleteByKey

\* What the reader's scan tells: a record with the name, or that there is none.
LEMMA ScanTells ==
    ASSUME binary \in BOOLEAN, NamesAgree, NEW d \in Seq(Names), Sorted(d),
           NEW n \in Names, NEW l \in findLeaf(d, n)
    PROVE  lookup(d, n, l) = 0 <=> Absent(d, n)
<1>1. ASSUME NEW i \in DOMAIN d, compareCatalogKey(d[i], n) = 0
      PROVE  lookup(d, n, l) # 0
  BY <1>1, ScansFind
<1>2. ASSUME Absent(d, n)
      PROVE  lookup(d, n, l) = 0
  <2>1. l.first \in Nat /\ l.first >= 1 /\ Len(d) \in Nat /\ DOMAIN d = 1 .. Len(d)
    BY LeafBounds
  <2>2. \A j \in DOMAIN d : ~nameEqual(d[j], n)
    BY <1>2 DEF Absent, NamesAgree
  <2>3. {j \in l.first .. Len(d) : nameEqual(d[j], n)} = {}
    BY <2>1, <2>2
  <2> QED
    BY <2>3 DEF lookup, FirstOf
<1> QED
  BY <1>1, <1>2 DEF Absent

-----------------------------------------------------------------------------
(* Removing and inserting a record. *)

\* Removing the i-th element.
LEMMA Removed ==
    ASSUME NEW d \in Seq(Names), NEW i \in 1 .. Len(d)
    PROVE  /\ RemoveAt(d, i) \in Seq(Names)
           /\ Len(RemoveAt(d, i)) = Len(d) - 1
           /\ \A j \in 1 .. (Len(d) - 1) :
                 RemoveAt(d, i)[j] = IF j < i THEN d[j] ELSE d[j + 1]
<1> DEFINE N == Len(d)
           a == SubSeq(d, 1, i - 1)
           b == SubSeq(d, i + 1, N)
<1>1. N \in Nat /\ i \in Int /\ 1 <= i /\ i <= N
  OBVIOUS
<1>2. \A j \in 1 .. N : d[j] \in Names
  OBVIOUS
<1>3. /\ a \in Seq(Names) /\ Len(a) = i - 1
      /\ \A j \in 1 .. (i - 1) : a[j] = d[j]
  <2>1. \A j \in 1 .. (i - 1) : d[j] \in Names
    BY <1>1, <1>2
  <2>2. /\ a \in Seq(Names)
        /\ Len(a) = IF 1 <= i - 1 THEN (i - 1) - 1 + 1 ELSE 0
        /\ \A j \in 1 .. ((i - 1) - 1 + 1) : a[j] = d[1 + j - 1]
    BY <1>1, <2>1, SubSeqProperties
  <2> HIDE DEF a, N
  <2> QED
    BY <1>1, <2>2
<1>4. /\ b \in Seq(Names) /\ Len(b) = N - i
      /\ \A j \in 1 .. (N - i) : b[j] = d[i + j]
  <2>1. \A j \in (i + 1) .. N : d[j] \in Names
    BY <1>1, <1>2
  <2>2. /\ b \in Seq(Names)
        /\ Len(b) = IF i + 1 <= N THEN N - (i + 1) + 1 ELSE 0
        /\ \A j \in 1 .. (N - (i + 1) + 1) : b[j] = d[(i + 1) + j - 1]
    BY <1>1, <2>1, SubSeqProperties
  <2> HIDE DEF b, N
  <2> QED
    BY <1>1, <2>2
<1> HIDE DEF a, b
<1>5. /\ a \o b \in Seq(Names)
      /\ Len(a \o b) = Len(a) + Len(b)
      /\ \A j \in 1 .. (Len(a) + Len(b)) :
            (a \o b)[j] = IF j <= Len(a) THEN a[j] ELSE b[j - Len(a)]
  BY <1>3, <1>4, ConcatProperties
<1> HIDE DEF N
<1>6. Len(a) + Len(b) = N - 1
  BY <1>1, <1>3, <1>4
<1>7. ASSUME NEW j \in 1 .. (N - 1)
      PROVE  (a \o b)[j] = IF j < i THEN d[j] ELSE d[j + 1]
  <2>1. CASE j < i
    <3>1. (a \o b)[j] = a[j]
      BY <1>1, <1>3, <1>5, <1>6, <2>1
    <3> QED
      BY <1>1, <1>3, <2>1, <3>1
  <2>2. CASE ~(j < i)
    <3>1. (a \o b)[j] = b[j - (i - 1)]
      BY <1>1, <1>3, <1>5, <1>6, <2>2
    <3>2. j - (i - 1) \in 1 .. (N - i)
      BY <1>1, <2>2
    <3>3. b[j - (i - 1)] = d[i + (j - (i - 1))]
      BY <1>4, <3>2
    <3>4. i + (j - (i - 1)) = j + 1
      BY <1>1
    <3> QED
      BY <2>2, <3>1, <3>3, <3>4
  <2> QED
    BY <2>1, <2>2
<1>8. RemoveAt(d, i) = a \o b
  BY DEF RemoveAt, a, b, N
<1> QED
  BY <1>5, <1>6, <1>7, <1>8 DEF N

\* Inserting an element before the p-th.
LEMMA Inserted ==
    ASSUME NEW d \in Seq(Names), NEW n \in Names, NEW p \in 1 .. (Len(d) + 1)
    PROVE  /\ InsertAt(d, p, n) \in Seq(Names)
           /\ Len(InsertAt(d, p, n)) = Len(d) + 1
           /\ \A j \in 1 .. (Len(d) + 1) :
                 InsertAt(d, p, n)[j] = IF j < p THEN d[j]
                                        ELSE IF j = p THEN n ELSE d[j - 1]
<1> DEFINE N == Len(d)
           a == SubSeq(d, 1, p - 1)
           b == SubSeq(d, p, N)
           c == a \o <<n>>
<1>1. N \in Nat /\ p \in Int /\ 1 <= p /\ p <= N + 1
  OBVIOUS
<1>2. \A j \in 1 .. N : d[j] \in Names
  OBVIOUS
<1>3. /\ a \in Seq(Names) /\ Len(a) = p - 1
      /\ \A j \in 1 .. (p - 1) : a[j] = d[j]
  <2>1. \A j \in 1 .. (p - 1) : d[j] \in Names
    BY <1>1, <1>2
  <2>2. /\ a \in Seq(Names)
        /\ Len(a) = IF 1 <= p - 1 THEN (p - 1) - 1 + 1 ELSE 0
        /\ \A j \in 1 .. ((p - 1) - 1 + 1) : a[j] = d[1 + j - 1]
    BY <1>1, <2>1, SubSeqProperties
  <2> HIDE DEF a, N
  <2> QED
    BY <1>1, <2>2
<1>4. /\ b \in Seq(Names) /\ Len(b) = N - p + 1
      /\ \A j \in 1 .. (N - p + 1) : b[j] = d[p + j - 1]
  <2>1. \A j \in p .. N : d[j] \in Names
    BY <1>1, <1>2
  <2>2. /\ b \in Seq(Names)
        /\ Len(b) = IF p <= N THEN N - p + 1 ELSE 0
        /\ \A j \in 1 .. (N - p + 1) : b[j] = d[p + j - 1]
    BY <1>1, <2>1, SubSeqProperties
  <2> HIDE DEF b, N
  <2> QED
    BY <1>1, <2>2
<1>5. <<n>> \in Seq(Names) /\ Len(<<n>>) = 1 /\ <<n>>[1] = n
  OBVIOUS
<1> HIDE DEF a, b, N
<1>6. /\ c \in Seq(Names) /\ Len(c) = p
      /\ \A j \in 1 .. p : c[j] = IF j < p THEN d[j] ELSE n
  <2> DEFINE o == <<n>>
  <2>1. o \in Seq(Names) /\ Len(o) = 1 /\ o[1] = n /\ c = a \o o
    BY <1>5
  <2> HIDE DEF o, c
  <2>2. /\ c \in Seq(Names)
        /\ Len(c) = Len(a) + Len(o)
        /\ \A j \in 1 .. (Len(a) + Len(o)) :
              c[j] = IF j <= Len(a) THEN a[j] ELSE o[j - Len(a)]
    BY <1>3, <2>1, ConcatProperties
  <2> QED
    BY <1>1, <1>3, <2>1, <2>2
<1> HIDE DEF c
<1>7. /\ c \o b \in Seq(Names)
      /\ Len(c \o b) = Len(c) + Len(b)
      /\ \A j \in 1 .. (Len(c) + Len(b)) :
            (c \o b)[j] = IF j <= Len(c) THEN c[j] ELSE b[j - Len(c)]
  BY <1>4, <1>6, ConcatProperties
<1>8. Len(c) + Len(b) = N + 1
  BY <1>1, <1>4, <1>6
<1>9. ASSUME NEW j \in 1 .. (N + 1)
      PROVE  (c \o b)[j] = IF j < p THEN d[j] ELSE IF j = p THEN n ELSE d[j - 1]
  <2>1. CASE j <= p
    <3>1. (c \o b)[j] = c[j]
      BY <1>1, <1>6, <1>7, <1>8, <2>1
    <3> QED
      BY <1>1, <1>6, <2>1, <3>1
  <2>2. CASE ~(j <= p)
    <3>1. (c \o b)[j] = b[j - p]
      BY <1>1, <1>6, <1>7, <1>8, <2>2
    <3>2. j - p \in 1 .. (N - p + 1)
      BY <1>1, <2>2
    <3>3. b[j - p] = d[p + (j - p) - 1]
      BY <1>4, <3>2
    <3>4. p + (j - p) - 1 = j - 1 /\ ~(j < p) /\ j # p
      BY <1>1, <2>2
    <3> QED
      BY <3>1, <3>3, <3>4
  <2> QED
    BY <2>1, <2>2
<1>10. InsertAt(d, p, n) = c \o b
  BY DEF InsertAt, a, b, c, N
<1> QED
  BY <1>7, <1>8, <1>9, <1>10 DEF N

\* Without one of its records a folder is still in order, and the name of the
\* record is gone from it.
LEMMA RemoveKeeps ==
    ASSUME binary \in BOOLEAN, NEW d \in Seq(Names), Sorted(d), NEW n \in Names,
           NEW i \in DOMAIN d, compareCatalogKey(d[i], n) = 0
    PROVE  /\ RemoveAt(d, i) \in Seq(Names)
           /\ Sorted(RemoveAt(d, i))
           /\ Absent(RemoveAt(d, i), n)
           /\ \A m \in Names : Absent(d, m) => Absent(RemoveAt(d, i), m)
<1> DEFINE N == Len(d)
           e == RemoveAt(d, i)
           Old(j) == IF j < i THEN j ELSE j + 1
<1>1. N \in Nat /\ DOMAIN d = 1 .. N /\ i \in 1 .. N
  OBVIOUS
<1>2. /\ e \in Seq(Names) /\ Len(e) = N - 1
      /\ \A j \in 1 .. (N - 1) : e[j] = IF j < i THEN d[j] ELSE d[j + 1]
  BY <1>1, Removed
<1> HIDE DEF e, N
<1>3. DOMAIN e = 1 .. (N - 1)
  BY <1>2
<1>4. /\ \A j \in DOMAIN e : Old(j) \in DOMAIN d /\ e[j] = d[Old(j)] /\ Old(j) # i
      /\ \A j, k \in DOMAIN e : j < k => Old(j) < Old(k)
  BY <1>1, <1>2, <1>3
<1> HIDE DEF Old
<1>5. Sorted(e)
  BY <1>4 DEF Sorted
<1>6. Absent(e, n)
  <2> SUFFICES ASSUME NEW j \in DOMAIN e, compareCatalogKey(e[j], n) = 0
               PROVE  FALSE
    BY DEF Absent
  <2>1. Old(j) \in DOMAIN d /\ compareCatalogKey(d[Old(j)], n) = 0 /\ Old(j) # i
    BY <1>4
  <2> QED
    BY <2>1, OnlyOne
<1>7. \A m \in Names : Absent(d, m) => Absent(e, m)
  BY <1>4 DEF Absent
<1> QED
  BY <1>2, <1>5, <1>6, <1>7 DEF e

\* S holds every position from f to one of its own.
DownTo(S, f) == \A x \in S : \A y \in f .. x : y \in S

\* Such a set ends where its number of members says.
LEMMA Prefix ==
    ASSUME NEW f \in Nat, NEW z \in Nat, f <= z,
           NEW S \in SUBSET (f .. (z - 1)), DownTo(S, f)
    PROVE  /\ Cardinality(S) \in Nat
           /\ f + Cardinality(S) <= z
           /\ S = f .. (f + Cardinality(S) - 1)
<1> DEFINE G == {x \in Nat : x >= f /\ x \notin S}
           g == Min(G)
<1>1. G \in SUBSET Nat /\ z \in G
  OBVIOUS
<1>2. g \in G /\ \A x \in G : g <= x
  BY <1>1, MinIsLeast
<1> HIDE DEF g
<1>3. g \in Nat /\ g >= f /\ g \notin S /\ g <= z
  BY <1>1, <1>2
<1>4. S = f .. (g - 1)
  <2>1. ASSUME NEW x \in S
        PROVE  x \in f .. (g - 1)
    <3>1. x \in Int /\ x >= f
      OBVIOUS
    <3>2. ~(g \in f .. x)
      BY <1>3 DEF DownTo
    <3> QED
      BY <1>3, <3>1, <3>2
  <2>2. ASSUME NEW x \in f .. (g - 1)
        PROVE  x \in S
    <3>1. x \in Nat /\ x >= f /\ ~(g <= x)
      BY <1>3
    <3> QED
      BY <1>2, <3>1
  <2> QED
    BY <2>1, <2>2
<1>5. Cardinality(f .. (g - 1)) = g - f
  <2>1. Cardinality(f .. (g - 1)) = IF f > g - 1 THEN 0 ELSE (g - 1) - f + 1
    BY <1>3, FS_Interval
  <2> QED
    BY <1>3, <2>1
<1>6. Cardinality(S) = g - f
  BY <1>4, <1>5
<1> QED
  BY <1>3, <1>4, <1>6

\* insertSorted puts a new name between the records below it and those above.
LEMMA InsertKeeps ==
    ASSUME binary \in BOOLEAN, NEW d \in Seq(Names), Sorted(d), NEW n \in Names,
           Absent(d, n), NEW l \in findLeaf(d, n)
    PROVE  /\ insertSorted(d, n, l) \in Seq(Names)
           /\ Sorted(insertSorted(d, n, l))
<1> DEFINE N == Len(d)
           F == l.first
           E == l.last
           below == {i \in F .. E : compareCatalogKey(d[i], n) < 0}
           p == F + Cardinality(below)
           e == InsertAt(d, p, n)
           Low(i)  == compareCatalogKey(d[i], n) < 0
           High(i) == compareCatalogKey(d[i], n) > 0
<1>1. /\ N \in Nat /\ DOMAIN d = 1 .. N
      /\ F \in Nat /\ E \in Nat /\ 1 <= F /\ F <= E + 1 /\ E <= N
  BY LeafBounds
<1>2. \A i \in 1 .. N : (i < F => Low(i)) /\ (i > E => High(i))
  BY <1>1, LeafBounds
<1>3. \A i \in 1 .. N : d[i] \in Names
  OBVIOUS
<1>4. \A i \in 1 .. N : Low(i) \/ High(i)
  <2> SUFFICES ASSUME NEW i \in 1 .. N
               PROVE  Low(i) \/ High(i)
    OBVIOUS
  <2>1. compareCatalogKey(d[i], n) # 0 /\ compareCatalogKey(d[i], n) \in Int
    BY <1>1, <1>3, KeysOrdered DEF Absent
  <2> QED
    BY <2>1
<1>5. \A i, j \in 1 .. N : i < j /\ Low(j) => Low(i)
  <2> SUFFICES ASSUME NEW i \in 1 .. N, NEW j \in 1 .. N, i < j, Low(j)
               PROVE  Low(i)
    OBVIOUS
  <2>1. compareCatalogKey(d[i], d[j]) < 0
    BY <1>1 DEF Sorted
  <2>2. d[i] \in Names /\ d[j] \in Names
    BY <1>3
  <2> QED
    BY <2>1, <2>2, KeysOrdered
<1> HIDE DEF N, F, E
<1>6. below \in SUBSET (F .. ((E + 1) - 1)) /\ DownTo(below, F)
  <2>1. below \in SUBSET (F .. ((E + 1) - 1))
    BY <1>1
  <2>2. ASSUME NEW x \in below, NEW y \in F .. x
        PROVE  y \in below
    <3>1. x \in 1 .. N /\ y \in 1 .. N /\ y \in F .. E /\ (y < x \/ y = x) /\ Low(x)
      BY <1>1
    <3> QED
      BY <1>5, <3>1
  <2> QED
    BY <2>1, <2>2 DEF DownTo
<1>7. \A i \in F .. E : i \in below <=> Low(i)
  OBVIOUS
<1> HIDE DEF below
<1>8. /\ Cardinality(below) \in Nat /\ p <= E + 1
      /\ below = F .. (p - 1)
  <2> DEFINE z == E + 1
  <2>1. z \in Nat /\ F \in Nat /\ F <= z /\ below \in SUBSET (F .. (z - 1))
    BY <1>1, <1>6
  <2>2. z = E + 1
    OBVIOUS
  <2> HIDE DEF z
  <2>3. Cardinality(below) \in Nat /\ p <= z /\ below = F .. (p - 1)
    BY <1>6, <2>1, Prefix
  <2> HIDE DEF p
  <2> QED
    BY <2>2, <2>3
<1>9. p \in 1 .. (N + 1) /\ p \in Int /\ F <= p
  BY <1>1, <1>8
<1> HIDE DEF p
<1>10. \A i \in 1 .. N : i < p => Low(i)
  <2> SUFFICES ASSUME NEW i \in 1 .. N, i < p
               PROVE  Low(i)
    OBVIOUS
  <2>1. CASE i < F
    BY <1>2, <2>1
  <2>2. CASE ~(i < F)
    <3>1. i \in F .. (p - 1) /\ i \in F .. E
      BY <1>1, <1>8, <1>9, <2>2
    <3> QED
      BY <1>7, <1>8, <3>1
  <2> QED
    BY <2>1, <2>2
<1>11. \A i \in 1 .. N : i >= p => High(i)
  <2> SUFFICES ASSUME NEW i \in 1 .. N, i >= p
               PROVE  High(i)
    OBVIOUS
  <2>1. CASE i > E
    BY <1>2, <2>1
  <2>2. CASE ~(i > E)
    <3>1. i \in F .. E /\ ~(i \in F .. (p - 1))
      BY <1>1, <1>9, <2>2
    <3> QED
      BY <1>4, <1>7, <1>8, <3>1
  <2> QED
    BY <2>1, <2>2
<1>12. /\ e \in Seq(Names) /\ Len(e) = N + 1
       /\ \A j \in 1 .. (N + 1) :
             e[j] = IF j < p THEN d[j] ELSE IF j = p THEN n ELSE d[j - 1]
  BY <1>9, Inserted DEF N
<1> HIDE DEF e
<1>13. DOMAIN e = 1 .. (N + 1)
  BY <1>12
<1>14. Sorted(e)
  <2> SUFFICES ASSUME NEW i \in 1 .. (N + 1), NEW j \in 1 .. (N + 1), i < j
               PROVE  compareCatalogKey(e[i], e[j]) < 0
    BY <1>13 DEF Sorted
  <2>1. CASE j < p
    <3>1. i \in 1 .. N /\ j \in 1 .. N /\ e[i] = d[i] /\ e[j] = d[j]
      BY <1>1, <1>9, <1>12, <2>1
    <3> QED
      BY <1>1, <3>1 DEF Sorted
  <2>2. CASE j = p
    <3>1. i \in 1 .. N /\ i < p /\ e[i] = d[i] /\ e[j] = n
      BY <1>1, <1>9, <1>12, <2>2
    <3> QED
      BY <1>10, <3>1
  <2>3. CASE j > p /\ i < p
    <3>1. /\ i \in 1 .. N /\ j - 1 \in 1 .. N /\ i < j - 1
          /\ e[i] = d[i] /\ e[j] = d[j - 1]
      BY <1>1, <1>9, <1>12, <2>3
    <3> QED
      BY <1>1, <3>1 DEF Sorted
  <2>4. CASE j > p /\ i = p
    <3>1. j - 1 \in 1 .. N /\ j - 1 >= p /\ e[i] = n /\ e[j] = d[j - 1]
      BY <1>1, <1>9, <1>12, <2>4
    <3>2. compareCatalogKey(d[j - 1], n) > 0 /\ d[j - 1] \in Names
      BY <1>3, <1>11, <3>1
    <3> QED
      BY <3>1, <3>2, KeysOrdered
  <2>5. CASE i > p
    <3>1. /\ i - 1 \in 1 .. N /\ j - 1 \in 1 .. N /\ i - 1 < j - 1
          /\ e[i] = d[i - 1] /\ e[j] = d[j - 1]
      BY <1>1, <1>9, <1>12, <2>5
    <3> QED
      BY <1>1, <3>1 DEF Sorted
  <2>6. j < p \/ j = p \/ (j > p /\ i < p) \/ (j > p /\ i = p) \/ i > p
    BY <1>9
  <2> QED
    BY <2>1, <2>2, <2>3, <2>4, <2>5, <2>6
<1>15. insertSorted(d, n, l) = e
  BY DEF insertSorted, e, p, below, F, E
<1> QED
  BY <1>12, <1>14, <1>15

-----------------------------------------------------------------------------
\* A name that the scan does not find is inserted in its place.
LEMMA CreateKeeps ==
    ASSUME IInv, NamesAgree, NEW n \in Names, Create(n)
    PROVE  dir' \in Seq(Names) /\ Sorted(dir')
<1>1. binary \in BOOLEAN /\ dir \in Seq(Names) /\ Sorted(dir)
  BY DEF IInv
<1>2. PICK l \in findLeaf(dir, n) :
         lookup(dir, n, l) = 0 /\ dir' = insertSorted(dir, n, l)
  BY DEF Create
<1>3. Absent(dir, n)
  BY <1>1, <1>2, ScanTells
<1> QED
  BY <1>1, <1>2, <1>3, InsertKeeps

\* A name that the scan finds is deleted: the writer's scan finds it too.
LEMMA DeleteFinds ==
    ASSUME IInv, NamesAgree, NEW n \in Names, NEW l \in findLeaf(dir, n),
           lookup(dir, n, l) # 0
    PROVE  /\ deleteByKey(dir, n, l) \in Seq(Names)
           /\ Sorted(deleteByKey(dir, n, l))
           /\ Absent(deleteByKey(dir, n, l), n)
           /\ \A m \in Names : Absent(dir, m) => Absent(deleteByKey(dir, n, l), m)
<1>1. binary \in BOOLEAN /\ dir \in Seq(Names) /\ Sorted(dir)
  BY DEF IInv
<1>2. ~Absent(dir, n)
  BY <1>1, ScanTells
<1>3. PICK i \in DOMAIN dir : compareCatalogKey(dir[i], n) = 0
  BY <1>2 DEF Absent
<1>4. deleteByKey(dir, n, l) = RemoveAt(dir, i)
  BY <1>1, <1>3, ScansFind
<1> QED
  BY <1>1, <1>3, <1>4, RemoveKeeps

\* Every operation leaves the folder in strictly ascending order.
LEMMA NextKeeps ==
    ASSUME IInv, [Next]_keyVars
    PROVE  IInv'
<1>1. binary \in BOOLEAN /\ (binary \/ FoldingsAgree) /\ NamesAgree
  BY AgreementHolds DEF IInv
<1>2. dir \in Seq(Names)
  BY DEF IInv
<1>3. SUFFICES ASSUME binary' = binary
               PROVE  dir' \in Seq(Names) /\ Sorted(dir')
  <2>1. binary' = binary
    BY DEF IInv, Next, Create, Delete, PutBack, Rename, keyVars
  <2> QED
    BY <1>1, <2>1 DEF IInv, Sorted, compareCatalogKey
<1>4. ASSUME NEW n \in Names, Create(n)
      PROVE  dir' \in Seq(Names) /\ Sorted(dir')
  BY <1>1, <1>4, CreateKeeps
<1>5. ASSUME NEW n \in Names, Delete(n)
      PROVE  dir' \in Seq(Names) /\ Sorted(dir')
  <2>1. PICK l \in findLeaf(dir, n) :
           lookup(dir, n, l) # 0 /\ dir' = deleteByKey(dir, n, l)
    BY <1>5 DEF Delete
  <2> QED
    BY <1>1, <2>1, DeleteFinds
<1>6. ASSUME NEW n \in Names, PutBack(n)
      PROVE  dir' \in Seq(Names) /\ Sorted(dir')
  <2>1. PICK l \in findLeaf(dir, n) :
           /\ lookup(dir, n, l) # 0
           /\ \E k \in findLeaf(deleteByKey(dir, n, l), n) :
                 dir' = insertSorted(deleteByKey(dir, n, l), n, k)
    BY <1>6 DEF PutBack
  <2> DEFINE d == deleteByKey(dir, n, l)
  <2>2. d \in Seq(Names) /\ Sorted(d) /\ Absent(d, n)
    BY <1>1, <2>1, DeleteFinds
  <2>3. PICK k \in findLeaf(d, n) : dir' = insertSorted(d, n, k)
    BY <2>1
  <2> HIDE DEF d
  <2> QED
    BY <1>1, <2>2, <2>3, InsertKeeps
<1>7. ASSUME NEW i \in DOMAIN dir, NEW n \in Names, Rename(dir[i], n)
      PROVE  dir' \in Seq(Names) /\ Sorted(dir')
  <2> DEFINE o == dir[i]
  <2>1. o \in Names /\ Rename(o, n)
    BY <1>2, <1>7
  <2> HIDE DEF o
  <2>2. PICK l \in findLeaf(dir, o) :
           /\ lookup(dir, o, l) # 0
           /\ \E k \in findLeaf(deleteByKey(dir, o, l), n) :
                 dir' = insertSorted(deleteByKey(dir, o, l), n, k)
    BY <2>1 DEF Rename
  <2>3. Absent(dir, n)
    <3>1. PICK l1 \in findLeaf(dir, n) : lookup(dir, n, l1) = 0
      BY <2>1 DEF Rename
    <3>2. Sorted(dir)
      BY DEF IInv
    <3> QED
      BY <1>1, <1>2, <3>1, <3>2, ScanTells
  <2> DEFINE d == deleteByKey(dir, o, l)
  <2>4. d \in Seq(Names) /\ Sorted(d) /\ Absent(d, n)
    BY <1>1, <2>1, <2>2, <2>3, DeleteFinds
  <2>5. PICK k \in findLeaf(d, n) : dir' = insertSorted(d, n, k)
    BY <2>2
  <2> HIDE DEF d
  <2> QED
    BY <1>1, <2>4, <2>5, InsertKeeps
<1>8. CASE UNCHANGED keyVars
  BY <1>8 DEF keyVars, IInv
<1> QED
  BY <1>4, <1>5, <1>6, <1>7, <1>8 DEF Next

\* In a folder in order the scans find what the names say.
LEMMA OrderFinds == IInv => FoundAgain
<1> SUFFICES ASSUME IInv, NEW i \in DOMAIN dir, NEW n \in Names,
                    nameEqual(dir[i], n), NEW l \in findLeaf(dir, n)
             PROVE  lookup(dir, n, l) = i /\ i <= l.last
  BY DEF FoundAgain
<1>1. binary \in BOOLEAN /\ dir \in Seq(Names) /\ Sorted(dir) /\ NamesAgree
  BY AgreementHolds DEF IInv
<1>2. dir[i] \in Names
  BY <1>1
<1>3. compareCatalogKey(dir[i], n) = 0
  BY <1>1, <1>2 DEF NamesAgree
<1>4. lookup(dir, n, l) = i /\ i \in l.first .. l.last
  BY <1>1, <1>3, ScansFind
<1>5. l.last \in Int /\ l.first \in Int
  BY <1>1, LeafBounds
<1> QED
  BY <1>4, <1>5

\* The records of a folder stay in strictly ascending order, so no two of them
\* compare equal, if the volume is binary or the foldings agree.
THEOREM AlwaysSorted == Spec /\ (binary \/ FoldingsAgree) => []IInv
<1>1. Init /\ (binary \/ FoldingsAgree) => IInv
  BY DEF Init, IInv, Sorted
<1>2. IInv /\ [Next]_keyVars => IInv'
  BY NextKeeps
<1> QED
  BY <1>1, <1>2, PTL DEF Spec

\* Every entry is found again under each of its spellings, by readers and by
\* writers, wherever the leaves begin: on every HFSX volume, and on any other
\* as long as foldU16 and strings.EqualFold agree on the names in use.
THEOREM AlwaysFoundAgain == Spec /\ (binary \/ FoldingsAgree) => []FoundAgain
BY AlwaysSorted, OrderFinds, PTL
=============================================================================
