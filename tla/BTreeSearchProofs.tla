-------------------------- MODULE BTreeSearchProofs --------------------------
(***************************************************************************)
(* What the B-tree engine promises between two calls: what a search finds, *)
(* what a listing returns, what the header counts.  All of it follows from *)
(* the invariant of BTreeProofs, which sees a level as a set of nodes: the *)
(* functions of BTree that walk down from the root, or along the links,    *)
(* list those sets in key order.                                           *)
(***************************************************************************)
EXTENDS BTreeProofs

-----------------------------------------------------------------------------
(* Sequences that list a set in order.                                     *)

\* s lists S once, by ascending f.
Ranked(s, T, f, S) ==
    /\ s \in Seq(T)
    /\ \A a, b \in 1 .. Len(s) : a < b => f[s[a]] < f[s[b]]
    /\ \A a \in 1 .. Len(s) : s[a] \in S
    /\ \A x \in S : \E a \in 1 .. Len(s) : s[a] = x

\* The empty sequence.
LEMMA NoneRanked ==
    ASSUME NEW T, NEW f
    PROVE  Ranked(<<>>, T, f, {})
BY DEF Ranked

\* Two in a row.
LEMMA ConcatRanked ==
    ASSUME NEW T, NEW f \in [T -> Nat], NEW S, NEW U, NEW s, NEW u,
           Ranked(s, T, f, S), Ranked(u, T, f, U),
           \A x \in S : \A y \in U : f[x] < f[y]
    PROVE  Ranked(s \o u, T, f, S \cup U)
<1>1. /\ s \in Seq(T) /\ Len(s) \in Nat
      /\ u \in Seq(T) /\ Len(u) \in Nat
  BY DEF Ranked
<1>2. PICK m \in Nat : m = Len(s)
  BY <1>1
<1>3. PICK n \in Nat : n = Len(u)
  BY <1>1
<1>4. PICK q : q = s \o u
  OBVIOUS
<1>5. /\ q \in Seq(T) /\ Len(q) = m + n
      /\ \A i \in 1 .. m + n : q[i] = IF i <= m THEN s[i] ELSE u[i - m]
  BY <1>1, <1>2, <1>3, <1>4, ConcatProperties
<1>6. /\ \A a, b \in 1 .. m : a < b => f[s[a]] < f[s[b]]
      /\ \A a \in 1 .. m : s[a] \in S
      /\ \A x \in S : \E a \in 1 .. m : s[a] = x
      /\ \A a, b \in 1 .. n : a < b => f[u[a]] < f[u[b]]
      /\ \A a \in 1 .. n : u[a] \in U
      /\ \A x \in U : \E a \in 1 .. n : u[a] = x
  BY <1>2, <1>3 DEF Ranked
<1>7. ASSUME NEW a \in 1 .. m + n, NEW b \in 1 .. m + n, a < b
      PROVE  f[q[a]] < f[q[b]]
  <2>1. CASE b <= m
    <3>1. a <= m /\ a \in 1 .. m /\ b \in 1 .. m
      BY <1>7, <2>1
    <3> QED
      BY <3>1, <2>1, <1>5, <1>6, <1>7
  <2>2. CASE ~(b <= m) /\ a <= m
    <3>1. a \in 1 .. m /\ b - m \in 1 .. n
      BY <1>7, <2>2
    <3>2. q[a] = s[a] /\ q[b] = u[b - m]
      BY <2>2, <1>5
    <3> QED
      BY <3>1, <3>2, <1>6
  <2>3. CASE ~(b <= m) /\ ~(a <= m)
    <3>1. a - m \in 1 .. n /\ b - m \in 1 .. n /\ a - m < b - m
      BY <1>7, <2>3
    <3>2. q[a] = u[a - m] /\ q[b] = u[b - m]
      BY <2>3, <1>5
    <3> QED
      BY <3>1, <3>2, <1>6
  <2> QED
    BY <2>1, <2>2, <2>3
<1>8. ASSUME NEW a \in 1 .. m + n
      PROVE  q[a] \in S \cup U
  <2>1. CASE a <= m
    <3>1. a \in 1 .. m
      BY <2>1
    <3> QED
      BY <3>1, <2>1, <1>5, <1>6
  <2>2. CASE ~(a <= m)
    <3>1. a - m \in 1 .. n
      BY <2>2
    <3> QED
      BY <3>1, <2>2, <1>5, <1>6
  <2> QED
    BY <2>1, <2>2
<1>9. ASSUME NEW x \in S \cup U
      PROVE  \E a \in 1 .. m + n : q[a] = x
  <2>1. CASE x \in S
    <3>1. PICK a \in 1 .. m : s[a] = x
      BY <2>1, <1>6
    <3>2. a \in 1 .. m + n /\ a <= m
      OBVIOUS
    <3>3. q[a] = x
      BY <3>1, <3>2, <1>5
    <3> QED
      BY <3>2, <3>3
  <2>2. CASE x \in U
    <3>1. PICK a \in 1 .. n : u[a] = x
      BY <2>2, <1>6
    <3>2. a + m \in 1 .. m + n /\ ~(a + m <= m) /\ (a + m) - m = a
      OBVIOUS
    <3>3. q[a + m] = x
      BY <3>1, <3>2, <1>5
    <3> QED
      BY <3>2, <3>3
  <2> QED
    BY <2>1, <2>2
<1>10. Ranked(q, T, f, S \cup U)
  BY <1>5, <1>7, <1>8, <1>9 DEF Ranked
<1> QED
  BY <1>4, <1>10

\* The parts of a sequence of sequences, one after the other.
Joins(g, ss, N) ==
    /\ g[0] = <<>> /\ g[N] = FlattenSeq(ss)
    /\ \A i \in 1 .. N : g[i] = g[i - 1] \o ss[i]

\* FlattenSeq, sequence by sequence.
LEMMA FlattenIs ==
    ASSUME NEW T, NEW N \in Nat \ {0}, NEW ss \in [1 .. N -> Seq(T)]
    PROVE  \E g \in [0 .. N -> Seq(T)] : Joins(g, ss, N)
<1> DEFINE G == [p \in (1 .. N) \X Seq(T) |-> p[2] \o ss[p[1]]]
           P(g) == g = [i \in 1 .. N |-> IF i = 1 THEN ss[i] ELSE g[i - 1] \o ss[i]]
<1>1. ASSUME NEW v \in Seq(T), NEW i \in 1 .. N
      PROVE  v \o ss[i] \in Seq(T)
  OBVIOUS
<1>2. G \in [(1 .. N) \X Seq(T) -> Seq(T)]
  <2>1. ASSUME NEW p \in (1 .. N) \X Seq(T) PROVE p[2] \o ss[p[1]] \in Seq(T)
    <3>1. p[1] \in 1 .. N /\ p[2] \in Seq(T)
      OBVIOUS
    <3> QED
      BY <3>1, <1>1
  <2> QED
    BY <2>1
<1>3. ASSUME NEW i \in 1 .. N, NEW x \in Seq(T)
      PROVE  G[<<i, x>>] = x \o ss[i]
  OBVIOUS
<1> HIDE DEF G
<1>4. <<>> \in Seq(T)
  OBVIOUS
<1>5. PICK f \in [0 .. N -> Seq(T)] : Iteration(f, <<>>, N, G)
  BY <1>2, <1>4, Iterates
<1>6. f[0] = <<>> /\ \A i \in 1 .. N : f[i] = f[i - 1] \o ss[i]
  <2>1. \A i \in 1 .. N : f[i - 1] \in Seq(T)
    OBVIOUS
  <2> QED
    BY <2>1, <1>3, <1>5 DEF Iteration
<1>7. f[1] = ss[1]
  <2>1. 1 \in 1 .. N /\ 1 - 1 = 0
    OBVIOUS
  <2>2. f[1] = <<>> \o ss[1]
    BY <2>1, <1>6
  <2>3. ss[1] \in Seq(T)
    BY <2>1
  <2> QED
    BY <2>2, <2>3, ConcatEmptySeq
<1> DEFINE h == [i \in 1 .. N |-> f[i]]
<1>8. P(h)
  <2>1. ASSUME NEW i \in 1 .. N
        PROVE  h[i] = IF i = 1 THEN ss[i] ELSE h[i - 1] \o ss[i]
    <3>1. CASE i = 1
      BY <3>1, <1>7
    <3>2. CASE i # 1
      <4>1. i - 1 \in 1 .. N
        BY <3>2
      <4>2. h[i - 1] = f[i - 1] /\ h[i] = f[i]
        BY <4>1
      <4> HIDE DEF h
      <4> QED
        BY <3>2, <4>2, <1>6
    <3> QED
      BY <3>1, <3>2
  <2>2. h = [i \in 1 .. N |-> h[i]]
    OBVIOUS
  <2> HIDE DEF h
  <2> QED
    BY <2>1, <2>2
<1> DEFINE g == CHOOSE y : P(y)
<1>9. P(g)
  BY <1>8
<1>10. Len(ss) = N
  OBVIOUS
<1>11. FlattenSeq(ss) = g[N]
  BY <1>10 DEF FlattenSeq
<1> HIDE DEF g, h
<1>12. \A i \in 1 .. N : g[i] = IF i = 1 THEN ss[i] ELSE g[i - 1] \o ss[i]
  BY <1>9
<1> HIDE DEF P
<1> DEFINE S == {i \in 1 .. N : g[i] = f[i]}
<1>13. 1 .. N \subseteq S
  <2>1. 1 \in S
    BY <1>7, <1>12
  <2>2. ASSUME NEW n \in 1 .. N, n \in S, n < N
        PROVE  n + 1 \in S
    <3>1. n + 1 \in 1 .. N /\ (n + 1) - 1 = n /\ n + 1 # 1
      BY <2>2
    <3>2. g[n + 1] = g[n] \o ss[n + 1]
      BY <3>1, <1>12
    <3>3. f[n + 1] = f[n] \o ss[n + 1]
      BY <3>1, <1>6
    <3> QED
      BY <3>1, <3>2, <3>3, <2>2
  <2> HIDE DEF S
  <2> QED
    BY <2>1, <2>2, Inducts
<1>14. f[N] = FlattenSeq(ss)
  BY <1>11, <1>13
<1> QED
  BY <1>6, <1>14 DEF Joins

\* Any number in a row.
LEMMA Flattened ==
    ASSUME NEW T, NEW f \in [T -> Nat], NEW N \in Nat, NEW ss \in [1 .. N -> Seq(T)], NEW B,
           \A i \in 1 .. N : Ranked(ss[i], T, f, B[i]),
           \A i, j \in 1 .. N : i < j => \A x \in B[i] : \A y \in B[j] : f[x] < f[y],
           NEW W, W = UNION {B[i] : i \in 1 .. N}
    PROVE  Ranked(FlattenSeq(ss), T, f, W)
<1>1. CASE N = 0
  <2>1. Len(ss) = 0 /\ ss = <<>>
    BY <1>1
  <2>2. FlattenSeq(ss) = <<>>
    BY <2>1 DEF FlattenSeq
  <2>3. W = {}
    BY <1>1
  <2>4. Ranked(<<>>, T, f, {})
    BY NoneRanked
  <2> QED
    BY <2>2, <2>3, <2>4, Zenon
<1>2. CASE N # 0
  <2>5. N \in Nat \ {0}
    BY <1>2
  <2>6. PICK g \in [0 .. N -> Seq(T)] : Joins(g, ss, N)
    BY <2>5, FlattenIs
  <2>1. /\ g[0] = <<>> /\ g[N] = FlattenSeq(ss)
        /\ \A i \in 1 .. N : g[i] = g[i - 1] \o ss[i]
    BY <2>6 DEF Joins
  <2> DEFINE U(n) == UNION {B[i] : i \in 1 .. n}
             S == {n \in 0 .. N : Ranked(g[n], T, f, U(n))}
  <2>2. 0 \in S
    <3>1. U(0) = {}
      OBVIOUS
    <3>2. Ranked(<<>>, T, f, {})
      BY NoneRanked
    <3> HIDE DEF U
    <3>3. Ranked(g[0], T, f, U(0))
      BY <3>1, <3>2, <2>1, Zenon
    <3> QED
      BY <3>3
  <2>3. ASSUME NEW n \in 0 .. N, n \in S, n < N
        PROVE  n + 1 \in S
    <3>1. n + 1 \in 1 .. N /\ (n + 1) - 1 = n
      BY <2>3
    <3>2. g[n + 1] = g[n] \o ss[n + 1]
      BY <3>1, <2>1
    <3>3. U(n + 1) = U(n) \cup B[n + 1]
      <4>1. 1 .. n + 1 = (1 .. n) \cup {n + 1}
        OBVIOUS
      <4> QED
        BY <4>1
    <3>4. ASSUME NEW x \in U(n), NEW y \in B[n + 1]
          PROVE  f[x] < f[y]
      <4>1. PICK i \in 1 .. n : x \in B[i]
        OBVIOUS
      <4>2. i \in 1 .. N /\ i < n + 1
        BY <2>3
      <4> QED
        BY <3>1, <4>1, <4>2
    <3>5. Ranked(g[n], T, f, U(n)) /\ Ranked(ss[n + 1], T, f, B[n + 1])
      BY <2>3, <3>1
    <3> HIDE DEF U
    <3>6. Ranked(g[n] \o ss[n + 1], T, f, U(n) \cup B[n + 1])
      BY <3>4, <3>5, ConcatRanked
    <3>7. Ranked(g[n + 1], T, f, U(n + 1))
      BY <3>2, <3>3, <3>6, Zenon
    <3> QED
      BY <3>1, <3>7
  <2>4. N \in S
    <3> HIDE DEF S
    <3>1. 0 .. N \subseteq S
      BY <2>2, <2>3, Inducts
    <3> QED
      BY <3>1
  <2> QED
    BY <2>1, <2>4
<1> QED
  BY <1>1, <1>2

\* In a ranked sequence, elements are in the order of their ranks.
LEMMA RankedOrder ==
    ASSUME NEW T, NEW f \in [T -> Nat], NEW S, NEW s, Ranked(s, T, f, S),
           NEW a \in 1 .. Len(s), NEW b \in 1 .. Len(s)
    PROVE  /\ a < b <=> f[s[a]] < f[s[b]]
           /\ a = b <=> f[s[a]] = f[s[b]]
           /\ s[a] \in T
<1>1. Len(s) \in Nat /\ s[a] \in T /\ s[b] \in T /\ f[s[a]] \in Nat /\ f[s[b]] \in Nat
  BY DEF Ranked
<1>2. /\ a < b => f[s[a]] < f[s[b]]
      /\ b < a => f[s[b]] < f[s[a]]
  BY DEF Ranked
<1> QED
  BY <1>1, <1>2

-----------------------------------------------------------------------------
(* The levels of the tree, and the chain of its leaves.                    *)

\* The nodes at one height, and those an index node leads to.
At(h) == {n \in used : node[n].height = h}
Kids(n) == {r.child : r \in Tree.rs[n]}
Children(n) == [m \in DOMAIN node[n].recs |-> node[n].recs[m].child]
Below(v) == [j \in DOMAIN v |-> Children(v[j])]

\* A tree between two calls, level by level.
LEMMA TreeFacts ==
    ASSUME Resting
    PROVE  /\ Types /\ Stocked /\ Good(Tree, root, {}, {}) /\ Holds(Tree, contents)
           /\ Tree.us = used /\ used \in SUBSET NodeNums
           /\ Tree.lo \in [NodeNums -> Nat]
           /\ root \in At(treeDepth) /\ \A n \in At(treeDepth) : n = root
           /\ \A n \in used : node[n].height \in 1 .. treeDepth
           /\ treeDepth \in Nat \ {0}
<1>1. /\ Types /\ Stocked /\ Good(Tree, root, {}, {}) /\ Holds(Tree, contents)
      /\ root \in used /\ treeDepth = node[root].height /\ treeDepth \in Nat \ {0}
  BY RestingFacts DEF Resting, Grown
<1>2. Tree.us = used
  BY <1>1, NodeFacts
<1>3. \A n \in used : n \in NodeNums /\ Tree.ht[n] = node[n].height
  BY <1>1, NodeFacts
<1>4. Tree.lo \in [NodeNums -> Nat] /\ Tree.ht \in [NodeNums -> Nat]
  BY <1>1 DEF Good, TreeType
<1>5. ASSUME NEW n \in used
      PROVE  node[n].height \in 1 .. treeDepth /\ (node[n].height = treeDepth => n = root)
  <2>1. Tree.ht[n] > 0 /\ Tree.ht[n] <= Tree.ht[root] /\ (Tree.ht[n] = Tree.ht[root] => n = root)
    BY <1>1, <1>2 DEF Good, Filled, Topped
  <2>2. Tree.ht[n] \in Nat
    BY <1>3, <1>4
  <2> QED
    BY <2>1, <2>2, <1>1, <1>3
<1> QED
  BY <1>1, <1>2, <1>3, <1>4, <1>5 DEF At

\* An index node lists its children in the order of their first keys.
LEMMA ChildrenRanked ==
    ASSUME Resting, NEW n \in used, node[n].height > 1
    PROVE  Ranked(Children(n), NodeNums, Tree.lo, Kids(n))
<1> DEFINE s == node[n].recs
<1>1. /\ Good(Tree, root, {}, {}) /\ Tree.us = used /\ used \in SUBSET NodeNums
      /\ Types /\ Stocked
  BY TreeFacts
<1>2. /\ s \in Seq(Recs) /\ DOMAIN s = 1 .. Len(s) /\ Len(s) \in Nat /\ Ascending(s)
      /\ Tree.rs[n] = ToSet(s) /\ Tree.ht[n] = node[n].height
  BY <1>1, NodeFacts
<1>3. PICK m \in Nat : m = Len(s)
  BY <1>2
<1>4. /\ \A i \in 1 .. m : s[i] \in Tree.rs[n]
      /\ \A r \in Tree.rs[n] : \E i \in 1 .. m : s[i] = r
  BY <1>2, <1>3, KeyNumbers
<1>5. \A i \in 1 .. m : s[i].child \in NodeNums /\ Tree.lo[s[i].child] = s[i].key
  BY <1>1, <1>2, <1>4 DEF Good, Indexed
<1>6. \A i, j \in 1 .. m : i < j => s[i].key < s[j].key
  BY <1>2, <1>3 DEF Ascending
<1>7. PICK c : c = Children(n)
  OBVIOUS
<1>8. c = [i \in 1 .. m |-> s[i].child]
  BY <1>2, <1>3, <1>7 DEF Children
<1> HIDE DEF s
<1>9. c \in Seq(NodeNums) /\ Len(c) = m /\ \A i \in 1 .. m : c[i] = s[i].child
  BY <1>5, <1>8
<1>10. ASSUME NEW a \in 1 .. m, NEW b \in 1 .. m, a < b
       PROVE  Tree.lo[c[a]] < Tree.lo[c[b]]
  BY <1>5, <1>6, <1>9, <1>10
<1>11. \A a \in 1 .. m : c[a] \in Kids(n)
  BY <1>4, <1>9 DEF Kids
<1>12. ASSUME NEW x \in Kids(n)
       PROVE  \E a \in 1 .. m : c[a] = x
  BY <1>4, <1>9 DEF Kids
<1>13. Ranked(c, NodeNums, Tree.lo, Kids(n))
  BY <1>9, <1>10, <1>11, <1>12 DEF Ranked
<1> QED
  BY <1>7, <1>13

\* The children of a level, one after the other, are the level below.
LEMMA BelowRanked ==
    ASSUME Resting, NEW h \in 2 .. treeDepth, NEW v, Ranked(v, NodeNums, Tree.lo, At(h))
    PROVE  Ranked(FlattenSeq(Below(v)), NodeNums, Tree.lo, At(h - 1))
<1>1. /\ Good(Tree, root, {}, {}) /\ Tree.us = used /\ used \in SUBSET NodeNums
      /\ Types /\ Stocked /\ Tree.lo \in [NodeNums -> Nat] /\ treeDepth \in Nat
      /\ root \in At(treeDepth) /\ \A n \in At(treeDepth) : n = root
  BY TreeFacts
<1>2. /\ v \in Seq(NodeNums) /\ DOMAIN v = 1 .. Len(v) /\ Len(v) \in Nat
      /\ \A a \in 1 .. Len(v) : v[a] \in At(h)
      /\ \A x \in At(h) : \E a \in 1 .. Len(v) : v[a] = x
      /\ \A a, b \in 1 .. Len(v) : a < b => Tree.lo[v[a]] < Tree.lo[v[b]]
  BY DEF Ranked
<1>3. PICK N \in Nat : N = Len(v)
  BY <1>2
<1>4. ASSUME NEW n \in At(h)
      PROVE  n \in used /\ Tree.ht[n] = h /\ node[n].height = h
  BY <1>1, NodeFacts DEF At
<1> DEFINE B == [i \in 1 .. N |-> Kids(v[i])]
<1>5. PICK ss : ss = Below(v)
  OBVIOUS
<1>6. ss = [i \in 1 .. N |-> Children(v[i])]
  BY <1>2, <1>3, <1>5 DEF Below
<1>7. ASSUME NEW i \in 1 .. N
      PROVE  Ranked(ss[i], NodeNums, Tree.lo, B[i]) /\ ss[i] \in Seq(NodeNums)
  <2>1. v[i] \in used /\ node[v[i]].height > 1
    BY <1>2, <1>3, <1>4
  <2>2. Ranked(Children(v[i]), NodeNums, Tree.lo, Kids(v[i]))
    BY <2>1, ChildrenRanked
  <2> QED
    BY <2>2, <1>6 DEF Ranked
<1>8. ss \in [1 .. N -> Seq(NodeNums)]
  BY <1>6, <1>7
<1>9. ASSUME NEW i \in 1 .. N, NEW j \in 1 .. N, i < j, NEW x \in B[i], NEW y \in B[j]
      PROVE  Tree.lo[x] < Tree.lo[y]
  <2>1. /\ v[i] \in used /\ Tree.ht[v[i]] = h /\ v[j] \in used /\ Tree.ht[v[j]] = h
        /\ Tree.lo[v[i]] < Tree.lo[v[j]] /\ v[i] \in NodeNums /\ v[j] \in NodeNums
    BY <1>1, <1>2, <1>3, <1>4, <1>9
  <2>2. PICK r \in Tree.rs[v[i]] : x = r.child
    BY <1>9 DEF Kids
  <2>3. PICK s \in Tree.rs[v[j]] : y = s.child
    BY <1>9 DEF Kids
  <2>4. Tree.lo[x] = r.key /\ Tree.lo[y] = s.key /\ x \in NodeNums /\ y \in NodeNums
    BY <1>1, <2>1, <2>2, <2>3 DEF Good, Indexed
  <2>5. v[j] \in Peers(Tree, v[i])
    <3>1. v[i] # v[j]
      BY <2>1, <1>1
    <3> QED
      BY <3>1, <2>1, <1>1 DEF Peers
  <2>6. r.key < Tree.lo[v[j]]
    BY <1>1, <2>1, <2>2, <2>5 DEF Good, Apart
  <2>7. Tree.lo[v[j]] <= s.key
    BY <1>1, <2>1, <2>3 DEF Good, Filled
  <2>8. Tree.lo[x] \in Nat /\ Tree.lo[y] \in Nat /\ Tree.lo[v[j]] \in Nat
    BY <1>1, <2>1, <2>4
  <2> QED
    BY <2>4, <2>6, <2>7, <2>8
<1>10. PICK U : U = UNION {B[i] : i \in 1 .. N}
  OBVIOUS
<1>11. U = At(h - 1)
  <2>1. ASSUME NEW x \in U
        PROVE  x \in At(h - 1)
    <3>1. PICK i \in 1 .. N : x \in Kids(v[i])
      BY <1>10
    <3>2. PICK r \in Tree.rs[v[i]] : x = r.child
      BY <3>1 DEF Kids
    <3>3. v[i] \in used /\ Tree.ht[v[i]] = h
      BY <1>2, <1>3, <1>4
    <3>4. x \in used /\ h = Tree.ht[x] + 1
      BY <1>1, <3>2, <3>3 DEF Good, Indexed
    <3>5. Tree.ht[x] = node[x].height /\ node[x].height \in Nat
      BY <1>1, <3>4, NodeFacts, TreeFacts
    <3> QED
      BY <3>4, <3>5 DEF At
  <2>2. ASSUME NEW x \in At(h - 1)
        PROVE  x \in U
    <3>1. x \in used /\ node[x].height = h - 1
      BY DEF At
    <3>2. x # root
      <4>1. node[root].height = treeDepth
        BY <1>1 DEF At
      <4> QED
        BY <4>1, <3>1, <1>1
    <3>3. PICK p \in used : Tree.ht[p] > 1 /\ \E r \in Tree.rs[p] : r.child = x
      BY <1>1, <3>1, <3>2 DEF Good, Owned
    <3>4. PICK r \in Tree.rs[p] : r.child = x
      BY <3>3
    <3>5. Tree.ht[p] = Tree.ht[x] + 1
      BY <1>1, <3>3, <3>4 DEF Good, Indexed
    <3>6. Tree.ht[x] = node[x].height /\ Tree.ht[p] = node[p].height
      BY <1>1, <3>1, <3>3, NodeFacts
    <3>7. p \in At(h)
      BY <3>1, <3>3, <3>5, <3>6 DEF At
    <3>8. PICK i \in 1 .. N : v[i] = p
      BY <3>7, <1>2, <1>3
    <3>9. x \in B[i]
      BY <3>4, <3>8 DEF Kids
    <3> QED
      BY <3>9, <1>10
  <2> QED
    BY <2>1, <2>2
<1> HIDE DEF B
<1>13. /\ \A i \in 1 .. N : Ranked(ss[i], NodeNums, Tree.lo, B[i])
       /\ \A i, j \in 1 .. N : i < j => \A x \in B[i] : \A y \in B[j] : Tree.lo[x] < Tree.lo[y]
  BY <1>7, <1>9
<1>14. Tree.lo \in [NodeNums -> Nat]
  BY <1>1
<1>12. Ranked(FlattenSeq(ss), NodeNums, Tree.lo, U)
  BY <1>8, <1>10, <1>13, <1>14, Flattened
<1> QED
  BY <1>5, <1>11, <1>12, Zenon

\* Levels lists each level in key order.
LEMMA LevelsRanked ==
    ASSUME Resting, NEW d \in 1 .. treeDepth
    PROVE  Ranked(Levels[d], NodeNums, Tree.lo, At(treeDepth + 1 - d))
<1> DEFINE N == treeDepth
           Go(v) == FlattenSeq(Below(v))
           P(g) == g = [i \in 1 .. N |-> IF i = 1 THEN <<root>> ELSE Go(g[i - 1])]
           T == Seq(NodeNums)
           G == [p \in (1 .. N - 1) \X T |-> IF Go(p[2]) \in T THEN Go(p[2]) ELSE <<>>]
           R(v, i) == Ranked(v, NodeNums, Tree.lo, At(N + 1 - i))
<1>1. /\ treeDepth \in Nat \ {0} /\ Tree.lo \in [NodeNums -> Nat]
      /\ root \in At(treeDepth) /\ \A n \in At(treeDepth) : n = root
      /\ root \in NodeNums
  BY TreeFacts DEF At
<1>2. R(<<root>>, 1)
  <2> DEFINE s == <<root>>
  <2>1. s \in Seq(NodeNums) /\ Len(s) = 1 /\ s[1] = root
    BY <1>1
  <2> HIDE DEF s
  <2>2. Ranked(s, NodeNums, Tree.lo, At(treeDepth))
    BY <2>1, <1>1 DEF Ranked
  <2>3. treeDepth + 1 - 1 = treeDepth
    BY <1>1
  <2> QED
    BY <2>2, <2>3 DEF s
<1>3. ASSUME NEW i \in 1 .. N, i < N, NEW v, R(v, i)
      PROVE  R(Go(v), i + 1) /\ Go(v) \in T
  <2>1. N + 1 - i \in 2 .. treeDepth /\ (N + 1 - i) - 1 = N + 1 - (i + 1)
    BY <1>1, <1>3
  <2>2. PICK h : h = N + 1 - i
    OBVIOUS
  <2>3. h \in 2 .. treeDepth /\ h - 1 = N + 1 - (i + 1) /\ Ranked(v, NodeNums, Tree.lo, At(h))
    BY <2>1, <2>2, <1>3
  <2>4. Ranked(Go(v), NodeNums, Tree.lo, At(h - 1))
    BY <2>3, BelowRanked
  <2>5. Go(v) \in T
    BY <2>4 DEF Ranked
  <2> HIDE DEF Go
  <2> QED
    BY <2>3, <2>4, <2>5
<1> HIDE DEF Go
<1>4. G \in [(1 .. N - 1) \X T -> T]
  OBVIOUS
<1>5. ASSUME NEW i \in 1 .. N - 1, NEW v \in T
      PROVE  G[<<i, v>>] = IF Go(v) \in T THEN Go(v) ELSE <<>>
  OBVIOUS
<1> HIDE DEF G
<1>6. <<root>> \in T /\ N - 1 \in Nat
  BY <1>1
<1>7. PICK f \in [0 .. N - 1 -> T] : Iteration(f, <<root>>, N - 1, G)
  <2> HIDE DEF T
  <2>1. PICK M : M = N - 1
    OBVIOUS
  <2>2. M \in Nat /\ G \in [(1 .. M) \X T -> T]
    BY <2>1, <1>4, <1>6
  <2>3. \E f \in [0 .. M -> T] : Iteration(f, <<root>>, M, G)
    BY <2>2, <1>6, Iterates
  <2> QED
    BY <2>1, <2>3
<1>8. f[0] = <<root>> /\ \A i \in 1 .. N - 1 : f[i] = IF Go(f[i - 1]) \in T THEN Go(f[i - 1]) ELSE <<>>
  <2>1. \A i \in 1 .. N - 1 : f[i - 1] \in T
    BY <1>1
  <2> QED
    BY <2>1, <1>5, <1>7 DEF Iteration
<1> DEFINE h == [i \in 1 .. N |-> f[i - 1]]
           S == {i \in 1 .. N : R(h[i], i)}
<1>9. h[1] = <<root>> /\ \A i \in 2 .. N : h[i] = IF Go(h[i - 1]) \in T THEN Go(h[i - 1]) ELSE <<>>
  <2>1. h[1] = <<root>>
    BY <1>1, <1>8
  <2>2. ASSUME NEW i \in 2 .. N
        PROVE  h[i] = IF Go(h[i - 1]) \in T THEN Go(h[i - 1]) ELSE <<>>
    <3>1. i - 1 \in 1 .. N - 1 /\ i - 1 \in 1 .. N /\ i \in 1 .. N
      BY <1>1
    <3>2. h[i] = f[i - 1] /\ h[i - 1] = f[(i - 1) - 1]
      BY <3>1
    <3> HIDE DEF h
    <3> QED
      BY <3>1, <3>2, <1>8
  <2> QED
    BY <2>1, <2>2
<1> HIDE DEF h
<1>10. 1 .. N \subseteq S
  <2>3. R(h[1], 1)
    BY <1>2, <1>9, Zenon
  <2>1. 1 \in S
    BY <1>1, <2>3
  <2>2. ASSUME NEW n \in 1 .. N, n \in S, n < N
        PROVE  n + 1 \in S
    <3>1. n + 1 \in 2 .. N /\ (n + 1) - 1 = n /\ n + 1 \in 1 .. N
      BY <1>1, <2>2
    <3>2. R(Go(h[n]), n + 1) /\ Go(h[n]) \in T
      BY <2>2, <1>3
    <3>3. h[n + 1] = Go(h[n])
      BY <3>1, <3>2, <1>9
    <3>4. R(h[n + 1], n + 1)
      BY <3>2, <3>3, Zenon
    <3> QED
      BY <3>1, <3>4
  <2> HIDE DEF S
  <2> QED
    BY <1>1, <2>1, <2>2, Inducts
<1>11. P(h)
  <2>1. ASSUME NEW i \in 1 .. N
        PROVE  h[i] = IF i = 1 THEN <<root>> ELSE Go(h[i - 1])
    <3>1. CASE i = 1
      BY <3>1, <1>9
    <3>2. CASE i # 1
      <4>1. i \in 2 .. N /\ i - 1 \in 1 .. N /\ i - 1 < N
        BY <3>2, <1>1
      <4>2. R(h[i - 1], i - 1)
        BY <4>1, <1>10
      <4>3. Go(h[i - 1]) \in T
        BY <4>1, <4>2, <1>3
      <4> QED
        BY <3>2, <4>1, <4>3, <1>9
    <3> QED
      BY <3>1, <3>2
  <2>2. h = [i \in 1 .. N |-> h[i]]
    BY DEF h
  <2> QED
    BY <2>1, <2>2
<1> DEFINE g == CHOOSE y : P(y)
<1>12. P(g)
  BY <1>11
<1>13. Levels = [i \in 1 .. N |-> g[i]]
  BY DEF Levels, Go, Below, Children
<1> HIDE DEF g, P
<1>14. \A i \in 1 .. N : g[i] = IF i = 1 THEN <<root>> ELSE Go(g[i - 1])
  BY <1>12 DEF P
<1> DEFINE Q == {i \in 1 .. N : R(g[i], i)}
<1>15. 1 .. N \subseteq Q
  <2>1. 1 \in Q
    BY <1>1, <1>2, <1>14
  <2>2. ASSUME NEW n \in 1 .. N, n \in Q, n < N
        PROVE  n + 1 \in Q
    <3>1. n + 1 \in 2 .. N /\ (n + 1) - 1 = n /\ n + 1 \in 1 .. N /\ n + 1 # 1
      BY <1>1, <2>2
    <3>2. R(Go(g[n]), n + 1)
      BY <2>2, <1>3
    <3>3. g[n + 1] = Go(g[n])
      BY <3>1, <1>14
    <3>4. R(g[n + 1], n + 1)
      BY <3>2, <3>3, Zenon
    <3> QED
      BY <3>1, <3>4
  <2> HIDE DEF Q
  <2> QED
    BY <1>1, <2>1, <2>2, Inducts
<1>16. R(g[d], d) /\ Levels[d] = g[d]
  BY <1>13, <1>15
<1> QED
  BY <1>16, Zenon

\* The nodes reached from the root are the nodes in use.
LEMMA ReachesAll ==
    ASSUME Resting
    PROVE  Reachable = used
<1>1. /\ treeDepth \in Nat \ {0} /\ \A n \in used : node[n].height \in 1 .. treeDepth
  BY TreeFacts
<1>2. ASSUME NEW n \in used
      PROVE  n \in Reachable
  <2>1. PICK d \in 1 .. treeDepth : treeDepth + 1 - d = node[n].height
    <3>1. treeDepth + 1 - node[n].height \in 1 .. treeDepth
      BY <1>1
    <3>2. treeDepth + 1 - (treeDepth + 1 - node[n].height) = node[n].height
      BY <1>1
    <3> QED
      BY <3>1, <3>2
  <2>2. Ranked(Levels[d], NodeNums, Tree.lo, At(treeDepth + 1 - d))
    BY LevelsRanked
  <2>3. n \in At(treeDepth + 1 - d)
    BY <2>1 DEF At
  <2>4. PICK s : s = Levels[d]
    OBVIOUS
  <2>5. PICK a \in 1 .. Len(s) : s[a] = n
    BY <2>2, <2>3, <2>4 DEF Ranked
  <2>6. DOMAIN s = 1 .. Len(s)
    BY <2>2, <2>4 DEF Ranked
  <2>7. n \in ToSet(s)
    BY <2>5, <2>6 DEF ToSet
  <2> QED
    BY <2>4, <2>7 DEF Reachable
<1>3. ASSUME NEW n \in Reachable
      PROVE  n \in used
  <2>1. PICK d \in 1 .. treeDepth : n \in ToSet(Levels[d])
    BY DEF Reachable
  <2>2. Ranked(Levels[d], NodeNums, Tree.lo, At(treeDepth + 1 - d))
    BY LevelsRanked
  <2>4. PICK s : s = Levels[d]
    OBVIOUS
  <2>6. DOMAIN s = 1 .. Len(s) /\ \A a \in 1 .. Len(s) : s[a] \in At(treeDepth + 1 - d)
    BY <2>2, <2>4 DEF Ranked
  <2>7. n \in At(treeDepth + 1 - d)
    BY <2>1, <2>4, <2>6 DEF ToSet
  <2> QED
    BY <2>7 DEF At
<1> QED
  BY <1>2, <1>3

\* The levels of a tree: all but its index records, which an operation in
\* progress may still owe.
Listed ==
    /\ Types /\ Stocked
    /\ TreeType(Tree) /\ Filled(Tree) /\ Apart(Tree) /\ Linked(Tree)
    /\ Holds(Tree, contents)

\* They are in order at every step of an operation.
LEMMA GrownListed ==
    ASSUME Types, Stocked, Grown
    PROVE  Listed
BY DEF Grown, Good, Listed

\* And between two calls.
LEMMA RestingListed ==
    ASSUME Resting
    PROVE  Listed
BY GrownListed DEF Resting

\* The nodes of a level, seen as numbers.
LEMMA ListedFacts ==
    ASSUME Listed
    PROVE  /\ Types /\ Stocked
           /\ Filled(Tree) /\ Apart(Tree) /\ Linked(Tree) /\ Holds(Tree, contents)
           /\ Tree.us = used /\ used \in SUBSET NodeNums
           /\ Tree.lo \in [NodeNums -> Nat]
<1>1. Types /\ TreeType(Tree)
  BY DEF Listed
<1>2. Tree.us = used
  BY DEF Tree, View
<1>3. used \in SUBSET NodeNums /\ Tree.lo \in [NodeNums -> Nat]
  BY <1>1, <1>2 DEF TreeType
<1> QED
  BY <1>2, <1>3 DEF Listed

\* Neighbours in a level are linked to each other.
LEMMA NextInLevel ==
    ASSUME Listed, NEW h, NEW s, Ranked(s, NodeNums, Tree.lo, At(h)), NEW i \in 1 .. Len(s)
    PROVE  /\ node[s[i]].FLink = IF i = Len(s) THEN 0 ELSE s[i + 1]
           /\ node[s[i]].BLink = IF i = 1 THEN 0 ELSE s[i - 1]
<1>1. /\ Linked(Tree) /\ Tree.us = used /\ used \in SUBSET NodeNums
      /\ Types /\ Stocked /\ Tree.lo \in [NodeNums -> Nat]
  BY ListedFacts
<1>2. /\ s \in Seq(NodeNums) /\ Len(s) \in Nat
      /\ \A x \in At(h) : \E a \in 1 .. Len(s) : s[a] = x
  BY DEF Ranked
<1>3. PICK N \in Nat : N = Len(s)
  BY <1>2
<1>4. ASSUME NEW a \in 1 .. N
      PROVE  /\ s[a] \in used /\ Tree.ht[s[a]] = h /\ s[a] # 0
             /\ Tree.fl[s[a]] = node[s[a]].FLink /\ Tree.bl[s[a]] = node[s[a]].BLink
  <2>1. s[a] \in At(h)
    BY <1>3 DEF Ranked
  <2>2. s[a] \in used /\ node[s[a]].height = h
    BY <2>1 DEF At
  <2> QED
    BY <2>2, <1>1, NodeFacts
<1>5. ASSUME NEW a \in 1 .. N, NEW b \in 1 .. N
      PROVE  (a < b <=> Tree.lo[s[a]] < Tree.lo[s[b]]) /\ (a = b <=> Tree.lo[s[a]] = Tree.lo[s[b]])
  BY <1>1, <1>3, RankedOrder
<1>6. ASSUME NEW a \in 1 .. N, NEW b \in 1 .. N, a # b
      PROVE  s[b] \in Peers(Tree, s[a])
  <2>1. s[a] # s[b]
    BY <1>5, <1>6
  <2> QED
    BY <2>1, <1>1, <1>4 DEF Peers
<1>7. ASSUME NEW a \in 1 .. N, NEW x \in Peers(Tree, s[a])
      PROVE  \E b \in 1 .. N : s[b] = x
  <2>1. x \in used /\ Tree.ht[x] = h
    BY <1>1, <1>4 DEF Peers
  <2>2. node[x].height = h
    BY <2>1, <1>1, NodeFacts
  <2>3. x \in At(h)
    BY <2>1, <2>2 DEF At
  <2> QED
    BY <2>3, <1>2, <1>3
<1>8. ASSUME NEW a \in 1 .. N
      PROVE  Tree.lo[s[a]] \in Nat
  BY <1>1, <1>4
<1>9. ASSUME NEW a \in 1 .. N
      PROVE  Tree.fl[s[a]] = IF a = N THEN 0 ELSE s[a + 1]
  <2>1. CASE Tree.fl[s[a]] = 0
    <3>1. \A x \in Peers(Tree, s[a]) : Tree.lo[x] < Tree.lo[s[a]]
      BY <1>1, <1>4, <2>1 DEF Linked
    <3>2. a = N
      <4> SUFFICES ASSUME a # N PROVE FALSE
        OBVIOUS
      <4>1. a + 1 \in 1 .. N /\ a < a + 1 /\ a # a + 1
        OBVIOUS
      <4>2. Tree.lo[s[a + 1]] < Tree.lo[s[a]] /\ Tree.lo[s[a]] < Tree.lo[s[a + 1]]
        BY <4>1, <3>1, <1>5, <1>6
      <4> QED
        BY <4>1, <4>2, <1>8
    <3> QED
      BY <2>1, <3>2
  <2>2. CASE Tree.fl[s[a]] # 0
    <3>1. /\ Tree.fl[s[a]] \in Peers(Tree, s[a])
          /\ Tree.lo[s[a]] < Tree.lo[Tree.fl[s[a]]]
          /\ \A x \in Peers(Tree, s[a]) :
                Tree.lo[s[a]] < Tree.lo[x] => Tree.lo[Tree.fl[s[a]]] <= Tree.lo[x]
      BY <1>1, <1>4, <2>2 DEF Linked
    <3>2. PICK b \in 1 .. N : s[b] = Tree.fl[s[a]]
      BY <3>1, <1>7
    <3>3. a < b
      BY <3>1, <3>2, <1>5
    <3>4. a + 1 \in 1 .. N /\ a < a + 1 /\ a # a + 1 /\ a # N
      BY <3>3
    <3>5. Tree.lo[s[b]] <= Tree.lo[s[a + 1]]
      BY <3>1, <3>2, <3>4, <1>5, <1>6
    <3>6. ~(Tree.lo[s[a + 1]] < Tree.lo[s[b]])
      BY <3>4, <3>5, <1>8
    <3>7. ~(a + 1 < b)
      BY <3>4, <3>6, <1>5
    <3>8. b = a + 1
      BY <3>3, <3>7
    <3> QED
      BY <3>2, <3>4, <3>8
  <2> QED
    BY <2>1, <2>2
<1>10. ASSUME NEW a \in 1 .. N
       PROVE  Tree.bl[s[a]] = IF a = 1 THEN 0 ELSE s[a - 1]
  <2>1. CASE Tree.bl[s[a]] = 0
    <3>1. \A x \in Peers(Tree, s[a]) : Tree.lo[s[a]] < Tree.lo[x]
      BY <1>1, <1>4, <2>1 DEF Linked
    <3>2. a = 1
      <4> SUFFICES ASSUME a # 1 PROVE FALSE
        OBVIOUS
      <4>1. 1 \in 1 .. N /\ 1 < a
        OBVIOUS
      <4>2. Tree.lo[s[a]] < Tree.lo[s[1]] /\ Tree.lo[s[1]] < Tree.lo[s[a]]
        BY <4>1, <3>1, <1>5, <1>6
      <4> QED
        BY <4>1, <4>2, <1>8
    <3> QED
      BY <2>1, <3>2
  <2>2. CASE Tree.bl[s[a]] # 0
    <3>1. Tree.bl[s[a]] \in used /\ Tree.fl[Tree.bl[s[a]]] = s[a]
      BY <1>1, <1>4, <2>2 DEF Linked
    <3>2. PICK y : y = Tree.bl[s[a]]
      OBVIOUS
    <3>3. s[a] \in Peers(Tree, y)
      BY <3>1, <3>2, <1>1, <1>4 DEF Linked
    <3>4. y \in Peers(Tree, s[a])
      BY <3>1, <3>2, <3>3, <1>1 DEF Peers
    <3>5. PICK b \in 1 .. N : s[b] = y
      BY <3>4, <1>7
    <3>6. Tree.fl[s[b]] = s[a]
      BY <3>1, <3>2, <3>5
    <3>7. b # N /\ s[b + 1] = s[a]
      BY <3>6, <1>4, <1>9
    <3>8. b + 1 \in 1 .. N
      BY <3>7
    <3>9. b + 1 = a
      BY <3>7, <3>8, <1>5
    <3>10. a # 1 /\ a - 1 = b
      BY <3>9
    <3> QED
      BY <3>2, <3>5, <3>10
  <2> QED
    BY <2>1, <2>2
<1> QED
  BY <1>3, <1>4, <1>9, <1>10

\* A tree in which no operation failed is empty or at rest between operations.
LEMMA SoundMeans ==
    ASSUME IInv, Sound
    PROVE  /\ Types /\ Stocked /\ pc = "idle"
           /\ Bare \/ Resting
BY DEF IInv, Sound, Kept, Resting

\* From an empty tree nothing is reached.
LEMMA BareReaches ==
    ASSUME Bare
    PROVE  Reachable = {} /\ used = {} /\ treeDepth = 0
<1>1. treeDepth = 0 /\ used = {}
  BY DEF Bare
<1>2. 1 .. treeDepth = {}
  BY <1>1
<1>3. Reachable = {}
  BY <1>2 DEF Reachable
<1> QED
  BY <1>1, <1>3

\* Separators are exact.
LEMMA IndexKeysFollow ==
    ASSUME IInv
    PROVE  IndexKeysExact
<1> SUFFICES ASSUME Sound, NEW n \in Reachable, node[n].kind = "index",
                    NEW i \in DOMAIN node[n].recs
             PROVE  LET r == node[n].recs[i]
                    IN  node[r.child].recs # <<>> /\ r.key = FirstKey(node[r.child])
  BY DEF IndexKeysExact
<1> DEFINE r == node[n].recs[i]
<1>1. Resting /\ n \in used
  BY SoundMeans, BareReaches, ReachesAll
<1>2. Good(Tree, root, {}, {}) /\ Types /\ Stocked /\ Tree.us = used /\ \A x \in used : node[x].height \in Nat \ {0}
  BY <1>1, TreeFacts
<1>3. /\ node[n].height # 1 /\ Tree.ht[n] = node[n].height
      /\ r \in Tree.rs[n]
  BY <1>1, <1>2, NodeFacts
<1>4. Tree.ht[n] > 1
  BY <1>1, <1>2, <1>3
<1> HIDE DEF r
<1>5. r.child \in used /\ r.key = Tree.lo[r.child]
  BY <1>1, <1>2, <1>3, <1>4 DEF Good, Indexed
<1>6. node[r.child].recs # <<>> /\ Tree.lo[r.child] = node[r.child].recs[1].key
  BY <1>2, <1>5, NodeFacts
<1> QED
  BY <1>5, <1>6 DEF FirstKey, r

\* Every level is linked.
LEMMA LevelsFollow ==
    ASSUME IInv
    PROVE  LevelsLinked
<1> SUFFICES ASSUME Sound
             PROVE  /\ \A d \in 1 .. treeDepth :
                          LET lv == Levels[d]
                          IN  \A i \in DOMAIN lv :
                                /\ node[lv[i]].height = treeDepth - d + 1
                                /\ node[lv[i]].kind = IF d = treeDepth THEN "leaf" ELSE "index"
                                /\ node[lv[i]].FLink = IF i = Len(lv) THEN 0 ELSE lv[i + 1]
                                /\ node[lv[i]].BLink = IF i = 1 THEN 0 ELSE lv[i - 1]
                    /\ treeDepth > 0 => firstLeaf = Head(Levels[treeDepth]) /\ lastLeaf = Last(Levels[treeDepth])
                    /\ treeDepth = 0 => root = 0 /\ firstLeaf = 0 /\ lastLeaf = 0
  BY DEF LevelsLinked
<1>1. CASE Bare
  <2>1. treeDepth = 0 /\ root = 0 /\ firstLeaf = 0 /\ lastLeaf = 0
    BY <1>1 DEF Bare
  <2>2. 1 .. treeDepth = {} /\ ~(treeDepth > 0)
    BY <2>1
  <2> QED
    BY <2>1, <2>2
<1>2. CASE Resting
  <2>1. /\ treeDepth \in Nat \ {0} /\ Types /\ Stocked
    BY <1>2, TreeFacts
  <2>2. ASSUME NEW d \in 1 .. treeDepth, NEW i \in DOMAIN Levels[d]
        PROVE  /\ node[Levels[d][i]].height = treeDepth - d + 1
               /\ node[Levels[d][i]].kind = IF d = treeDepth THEN "leaf" ELSE "index"
               /\ node[Levels[d][i]].FLink = IF i = Len(Levels[d]) THEN 0 ELSE Levels[d][i + 1]
               /\ node[Levels[d][i]].BLink = IF i = 1 THEN 0 ELSE Levels[d][i - 1]
    <3>1. Ranked(Levels[d], NodeNums, Tree.lo, At(treeDepth + 1 - d))
      BY <1>2, LevelsRanked
    <3>2. PICK lv : lv = Levels[d]
      OBVIOUS
    <3>3. i \in 1 .. Len(lv) /\ lv[i] \in At(treeDepth + 1 - d)
      BY <3>1, <3>2 DEF Ranked
    <3>4. lv[i] \in used /\ node[lv[i]].height = treeDepth + 1 - d
      BY <3>3 DEF At
    <3>5. node[lv[i]].kind = IF node[lv[i]].height = 1 THEN "leaf" ELSE "index"
      BY <3>4, <2>1, NodeFacts
    <3>6. treeDepth + 1 - d = treeDepth - d + 1 /\ (treeDepth + 1 - d = 1 <=> d = treeDepth)
      BY <2>1
    <3>7. /\ node[lv[i]].FLink = IF i = Len(lv) THEN 0 ELSE lv[i + 1]
          /\ node[lv[i]].BLink = IF i = 1 THEN 0 ELSE lv[i - 1]
      BY <1>2, <3>1, <3>2, <3>3, RestingListed, NextInLevel
    <3> QED
      BY <3>2, <3>4, <3>5, <3>6, <3>7
  <2>3. firstLeaf = Head(Levels[treeDepth]) /\ lastLeaf = Last(Levels[treeDepth])
    <3>1. treeDepth \in 1 .. treeDepth /\ treeDepth + 1 - treeDepth = 1
      BY <2>1
    <3>2. PICK lv : lv = Levels[treeDepth]
      OBVIOUS
    <3>3. Ranked(lv, NodeNums, Tree.lo, At(1))
      BY <1>2, <3>1, <3>2, LevelsRanked
    <3>4. /\ firstLeaf \in At(1) /\ node[firstLeaf].BLink = 0
          /\ lastLeaf \in At(1) /\ node[lastLeaf].FLink = 0
      BY <1>2 DEF Resting, Grown, Ends, At
    <3>5. PICK a \in 1 .. Len(lv) : lv[a] = firstLeaf
      BY <3>3, <3>4 DEF Ranked
    <3>6. PICK b \in 1 .. Len(lv) : lv[b] = lastLeaf
      BY <3>3, <3>4 DEF Ranked
    <3>7. \A i \in 1 .. Len(lv) : lv[i] \in used /\ lv[i] # 0
      <4>1. \A i \in 1 .. Len(lv) : lv[i] \in used
        BY <3>3 DEF Ranked, At
      <4> QED
        BY <4>1, <2>1, NodeFacts
    <3>8. lv \in Seq(NodeNums) /\ Len(lv) \in Nat
      BY <3>3 DEF Ranked
    <3>9. a = 1
      <4>1. node[lv[a]].BLink = IF a = 1 THEN 0 ELSE lv[a - 1]
        BY <1>2, <3>3, RestingListed, NextInLevel
      <4>2. a # 1 => a - 1 \in 1 .. Len(lv)
        BY <3>8
      <4> QED
        BY <4>1, <4>2, <3>4, <3>5, <3>7
    <3>10. b = Len(lv)
      <4>1. node[lv[b]].FLink = IF b = Len(lv) THEN 0 ELSE lv[b + 1]
        BY <1>2, <3>3, RestingListed, NextInLevel
      <4>2. b # Len(lv) => b + 1 \in 1 .. Len(lv)
        BY <3>8
      <4> QED
        BY <4>1, <4>2, <3>4, <3>6, <3>7
    <3> QED
      BY <3>2, <3>5, <3>6, <3>8, <3>9, <3>10 DEF Last
  <2> QED
    BY <2>1, <2>2, <2>3
<1> QED
  BY <1>1, <1>2, SoundMeans

\* No node in use is empty, no index node has one child.
LEMMA CompactFollows ==
    ASSUME IInv
    PROVE  Compact
<1> SUFFICES ASSUME Sound
             PROVE  /\ \A n \in Reachable : node[n].recs # <<>>
                    /\ treeDepth > 1 => Len(node[root].recs) > 1
  BY DEF Compact
<1>1. CASE Bare
  BY <1>1, BareReaches
<1>2. CASE Resting
  <2>1. \A n \in Reachable : node[n].recs # <<>>
    BY <1>2, ReachesAll DEF Resting, Stocked
  <2>2. Thin = {} /\ Wide /\ root \in used /\ treeDepth \in Nat
    BY <1>2, TreeFacts DEF Resting, Grown, Thin
  <2>3. treeDepth > 1 => Len(node[root].recs) > 1
    BY <2>2 DEF Wide
  <2> QED
    BY <2>1, <2>3
<1> QED
  BY <1>1, <1>2, SoundMeans

\* Index keys stay consistent with the nodes they lead to, at every level, for
\* every tree that insertions and deletions make without an error.
THEOREM IndexKeysAlwaysExact == ~FromBelow => (Spec => []IndexKeysExact)
BY IndexKeysFollow, TreeKept, PTL

\* All leaves are at one depth and the links of every level are its nodes in
\* key order, as fsck_hfs expects, whatever splits, merges and rotations did.
THEOREM LevelsAlwaysLinked == ~FromBelow => (Spec => []LevelsLinked)
BY LevelsFollow, TreeKept, PTL

\* Deletion leaves no empty node behind and no root with a single child.
THEOREM AlwaysCompact == ~FromBelow => (Spec => []Compact)
BY CompactFollows, TreeKept, PTL

-----------------------------------------------------------------------------
(* What readers see along the chain of leaves.                             *)

\* A level has no more nodes than the file.
LEMMA LevelBound ==
    ASSUME Listed, NEW h, NEW s, Ranked(s, NodeNums, Tree.lo, At(h))
    PROVE  Len(s) \in 0 .. MaxNode
<1>1. MaxNode \in Nat /\ Tree.lo \in [NodeNums -> Nat]
  BY ListedFacts, MaxNodeAssumption
<1>2. s \in Seq(NodeNums) /\ Len(s) \in Nat
  BY DEF Ranked
<1>3. PICK N \in Nat : N = Len(s)
  BY <1>2
<1>4. s \in [1 .. N -> NodeNums]
  BY <1>2, <1>3
<1>5. ASSUME NEW i \in 1 .. N, NEW j \in 1 .. N, s[i] = s[j]
      PROVE  i = j
  BY <1>1, <1>3, <1>5, RankedOrder
<1>6. s \in Injection(1 .. N, NodeNums)
  BY <1>4, <1>5 DEF Injection, IsInjective
<1>7. IsFiniteSet(NodeNums) /\ Cardinality(NodeNums) = MaxNode
  BY <1>1, FS_Interval DEF NodeNums
<1>8. Cardinality(1 .. N) = N
  BY FS_Interval
<1>9. Cardinality(1 .. N) <= Cardinality(NodeNums)
  BY <1>6, <1>7, FS_Injection
<1> QED
  BY <1>1, <1>3, <1>7, <1>8, <1>9

\* The rest of a sequence, from position a on.
Rest(s, a) == [j \in 1 .. (Len(s) - a + 1) |-> s[j + a - 1]]

\* The chain from a leaf on is the rest of the leaf level.
LEMMA ChainIs ==
    ASSUME Listed, NEW s, Ranked(s, NodeNums, Tree.lo, At(1)), NEW a \in 1 .. Len(s)
    PROVE  ChainFrom(s[a]) = Rest(s, a)
<1> DEFINE n == s[a]
           M == MaxNode
           Go(v) == IF node[Last(v)].FLink = 0 THEN v ELSE Append(v, node[Last(v)].FLink)
           P(g) == g = [i \in 1 .. M |-> IF i = 1 THEN <<n>> ELSE Go(g[i - 1])]
<1>1. s \in Seq(NodeNums) /\ Len(s) \in Nat /\ M \in Nat /\ Len(s) <= M
  BY LevelBound, MaxNodeAssumption DEF Ranked
<1>2. PICK L \in Nat : L = Len(s)
  BY <1>1
<1>3. /\ a \in 1 .. L /\ L <= M /\ \A i \in 1 .. L : s[i] \in NodeNums /\ s[i] # 0
      /\ \A i \in 1 .. L : node[s[i]].FLink = IF i = L THEN 0 ELSE s[i + 1]
  <2>1. \A i \in 1 .. L : s[i] \in NodeNums /\ s[i] # 0
    BY <1>1, <1>2 DEF NodeNums
  <2>2. \A i \in 1 .. L : node[s[i]].FLink = IF i = L THEN 0 ELSE s[i + 1]
    BY <1>2, NextInLevel
  <2> QED
    BY <1>1, <1>2, <2>1, <2>2
<1> DEFINE m(i) == IF i <= L - a + 1 THEN i ELSE L - a + 1
           u == [i \in 1 .. M |-> [j \in 1 .. m(i) |-> s[j + a - 1]]]
<1>4. ASSUME NEW i \in 1 .. M
      PROVE  /\ m(i) \in Nat /\ m(i) >= 1 /\ m(i) + a - 1 \in 1 .. L
             /\ u[i] \in Seq(NodeNums) /\ Len(u[i]) = m(i)
             /\ \A j \in 1 .. m(i) : u[i][j] = s[j + a - 1]
             /\ Last(u[i]) = s[m(i) + a - 1]
  <2>1. m(i) \in Nat /\ m(i) >= 1 /\ m(i) + a - 1 \in 1 .. L
    BY <1>3
  <2>2. PICK z \in Nat : z = m(i)
    BY <2>1
  <2> HIDE DEF m
  <2>3. ASSUME NEW j \in 1 .. z PROVE j + a - 1 \in 1 .. L /\ s[j + a - 1] \in NodeNums
    <3>1. j + a - 1 \in 1 .. L
      BY <2>1, <2>2, <1>3
    <3> QED
      BY <3>1, <1>3
  <2>4. PICK v : v = [j \in 1 .. z |-> s[j + a - 1]]
    OBVIOUS
  <2>5. v \in Seq(NodeNums) /\ Len(v) = z /\ \A j \in 1 .. z : v[j] = s[j + a - 1]
    <3>1. DOMAIN v = 1 .. z /\ \A j \in 1 .. z : v[j] = s[j + a - 1] /\ v[j] \in NodeNums
      BY <2>3, <2>4
    <3>2. v \in [1 .. z -> NodeNums]
      BY <2>4, <3>1
    <3> QED
      BY <3>1, <3>2
  <2>6. u[i] = v
    BY <2>2, <2>4
  <2> HIDE DEF u
  <2> QED
    BY <2>1, <2>2, <2>5, <2>6 DEF Last
<1>5. ASSUME 1 \in 1 .. M
      PROVE  u[1] = <<n>>
  <2>1. m(1) = 1
    BY <1>3
  <2> HIDE DEF u, m
  <2>2. u[1] \in Seq(NodeNums) /\ Len(u[1]) = 1 /\ \A j \in 1 .. 1 : u[1][j] = s[j + a - 1]
    BY <1>4, <1>5, <2>1
  <2>3. u[1][1] = s[1 + a - 1] /\ 1 + a - 1 = a
    BY <2>2
  <2>4. PICK v : v = u[1]
    OBVIOUS
  <2>5. v = <<n>>
    BY <2>2, <2>3, <2>4
  <2> QED
    BY <2>4, <2>5
<1>6. ASSUME NEW i \in 1 .. M, i + 1 \in 1 .. M
      PROVE  Go(u[i]) = u[i + 1]
  <2>1. PICK z : z = m(i)
    OBVIOUS
  <2>2. PICK y : y = m(i + 1)
    OBVIOUS
  <2>3. IF z + a - 1 = L THEN y = z ELSE y = z + 1
    BY <2>1, <2>2, <1>3
  <2> HIDE DEF m, u
  <2>4. /\ z \in Nat /\ z >= 1 /\ z + a - 1 \in 1 .. L
        /\ u[i] \in Seq(NodeNums) /\ Len(u[i]) = z
        /\ \A j \in 1 .. z : u[i][j] = s[j + a - 1]
        /\ Last(u[i]) = s[z + a - 1]
    BY <1>4, <2>1
  <2>5. /\ y \in Nat /\ y >= 1 /\ y + a - 1 \in 1 .. L
        /\ u[i + 1] \in Seq(NodeNums) /\ Len(u[i + 1]) = y
        /\ \A j \in 1 .. y : u[i + 1][j] = s[j + a - 1]
    BY <1>4, <1>6, <2>2
  <2>6. CASE z + a - 1 = L
    <3>1. node[Last(u[i])].FLink = 0
      BY <2>4, <2>6, <1>3
    <3>2. u[i] = u[i + 1]
      BY <2>3, <2>4, <2>5, <2>6, SeqEqual
    <3> QED
      BY <3>1, <3>2
  <2>7. CASE z + a - 1 # L
    <3>1. z + a \in 1 .. L /\ z + a - 1 + 1 = z + a /\ (z + 1) + a - 1 = z + a /\ z + 1 \in 1 .. y
      BY <2>3, <2>4, <2>7
    <3>2. node[Last(u[i])].FLink = s[z + a] /\ s[z + a] # 0 /\ s[z + a] \in NodeNums
      BY <3>1, <2>4, <2>7, <1>3
    <3>3. Go(u[i]) = Append(u[i], s[z + a])
      BY <3>2
    <3>4. PICK v : v = Append(u[i], s[z + a])
      OBVIOUS
    <3>5. v \in Seq(NodeNums) /\ Len(v) = z + 1 /\ v[z + 1] = s[z + a] /\ \A j \in 1 .. z : v[j] = s[j + a - 1]
      BY <3>2, <3>4, <2>4
    <3>6. ASSUME NEW j \in 1 .. z + 1 PROVE v[j] = u[i + 1][j]
      <4>1. CASE j = z + 1
        BY <4>1, <3>1, <3>5, <2>5
      <4>2. CASE j \in 1 .. z
        <5>1. j \in 1 .. y
          BY <4>2, <2>3, <2>4, <2>7
        <5> QED
          BY <4>2, <5>1, <3>5, <2>5
      <4> QED
        BY <4>1, <4>2, <2>4
    <3>7. v = u[i + 1]
      BY <3>5, <3>6, <2>3, <2>5, <2>7, SeqEqual
    <3> QED
      BY <3>3, <3>4, <3>7
  <2> QED
    BY <2>6, <2>7
<1> HIDE DEF Go
<1>7. P(u)
  <2>1. ASSUME NEW i \in 1 .. M
        PROVE  u[i] = IF i = 1 THEN <<n>> ELSE Go(u[i - 1])
    <3>1. CASE i = 1
      BY <3>1, <1>5
    <3>2. CASE i # 1
      <4>1. i - 1 \in 1 .. M /\ (i - 1) + 1 = i
        BY <3>2, <1>1
      <4>2. Go(u[i - 1]) = u[i]
        BY <4>1, <1>6
      <4> HIDE DEF u
      <4> QED
        BY <3>2, <4>2
    <3> QED
      BY <3>1, <3>2
  <2>2. u = [i \in 1 .. M |-> u[i]]
    OBVIOUS
  <2> HIDE DEF u
  <2> QED
    BY <2>1, <2>2
<1> DEFINE g == CHOOSE y : P(y)
<1>8. P(g)
  BY <1>7
<1>9. ChainFrom(n) = g[M]
  <2>1. n # 0
    BY <1>3
  <2> QED
    BY <2>1 DEF ChainFrom, Go
<1> HIDE DEF g, u
<1>10. \A i \in 1 .. M : g[i] = IF i = 1 THEN <<n>> ELSE Go(g[i - 1])
  BY <1>8
<1> HIDE DEF P
<1> DEFINE S == {i \in 1 .. M : g[i] = u[i]}
<1>11. 1 .. M \subseteq S
  <2>1. 1 \in 1 .. M
    BY <1>1, <1>3
  <2>2. 1 \in S
    BY <2>1, <1>5, <1>10
  <2>3. ASSUME NEW i \in 1 .. M, i \in S, i < M
        PROVE  i + 1 \in S
    <3>1. i + 1 \in 1 .. M /\ (i + 1) - 1 = i /\ i + 1 # 1
      BY <2>3, <1>1
    <3>2. g[i + 1] = Go(g[i])
      BY <3>1, <1>10
    <3>3. Go(u[i]) = u[i + 1]
      BY <3>1, <1>6
    <3> QED
      BY <3>1, <3>2, <3>3, <2>3
  <2> HIDE DEF S
  <2> QED
    BY <1>1, <2>2, <2>3, Inducts
<1>12. M \in 1 .. M /\ m(M) = L - a + 1
  BY <1>3, <1>1
<1>13. g[M] = u[M]
  BY <1>11, <1>12
<1>14. u[M] = [j \in 1 .. L - a + 1 |-> s[j + a - 1]]
  BY <1>12 DEF u
<1> QED
  BY <1>2, <1>9, <1>13, <1>14 DEF Rest

\* The rest of a level, in order.
LEMMA RestRanked ==
    ASSUME NEW T, NEW f \in [T -> Nat], NEW S, NEW s, Ranked(s, T, f, S), NEW a \in 1 .. Len(s)
    PROVE  Ranked(Rest(s, a), T, f, {x \in S : f[s[a]] <= f[x]})
<1> DEFINE U == {x \in S : f[s[a]] <= f[x]}
<1>1. s \in Seq(T) /\ Len(s) \in Nat
  BY DEF Ranked
<1>2. PICK L \in Nat : L = Len(s)
  BY <1>1
<1>3. PICK z : z = L - a + 1
  OBVIOUS
<1>4. z \in Nat /\ a \in 1 .. L /\ \A j \in 1 .. z : j + a - 1 \in 1 .. L
  BY <1>2, <1>3
<1>5. PICK q : q = Rest(s, a)
  OBVIOUS
<1>6. q \in Seq(T) /\ Len(q) = z /\ \A j \in 1 .. z : q[j] = s[j + a - 1]
  <2>1. q = [j \in 1 .. z |-> s[j + a - 1]]
    BY <1>2, <1>3, <1>5 DEF Rest
  <2>2. \A j \in 1 .. z : s[j + a - 1] \in T
    BY <1>1, <1>2, <1>4
  <2>3. DOMAIN q = 1 .. z /\ \A j \in 1 .. z : q[j] = s[j + a - 1] /\ q[j] \in T
    BY <2>1, <2>2
  <2>4. q \in [1 .. z -> T]
    BY <2>1, <2>3
  <2> QED
    BY <2>3, <2>4, <1>4
<1>7. ASSUME NEW i \in 1 .. L, NEW j \in 1 .. L
      PROVE  /\ i < j <=> f[s[i]] < f[s[j]]
             /\ i = j <=> f[s[i]] = f[s[j]]
             /\ f[s[i]] \in Nat /\ f[s[j]] \in Nat /\ s[i] \in S
  BY <1>2, RankedOrder DEF Ranked
<1>8. ASSUME NEW i \in 1 .. z, NEW j \in 1 .. z, i < j
      PROVE  f[q[i]] < f[q[j]]
  <2>1. PICK x \in 1 .. L : x = i + a - 1
    BY <1>4
  <2>2. PICK y \in 1 .. L : y = j + a - 1
    BY <1>4
  <2>3. x < y
    BY <2>1, <2>2, <1>4, <1>8
  <2>4. q[i] = s[x] /\ q[j] = s[y]
    BY <2>1, <2>2, <1>6
  <2> QED
    BY <2>3, <2>4, <1>7
<1>9. ASSUME NEW i \in 1 .. z
      PROVE  q[i] \in U
  <2>1. i + a - 1 \in 1 .. L /\ (a < i + a - 1 \/ a = i + a - 1)
    BY <1>4
  <2>2. PICK y \in 1 .. L : y = i + a - 1
    BY <2>1
  <2>3. a < y \/ a = y
    BY <2>1, <2>2
  <2>4. f[s[a]] <= f[s[y]] /\ s[y] \in S
    BY <2>3, <1>4, <1>7
  <2> QED
    BY <2>2, <2>4, <1>6
<1>10. ASSUME NEW x \in U
       PROVE  \E i \in 1 .. z : q[i] = x
  <2>1. PICK b \in 1 .. L : s[b] = x
    BY <1>2 DEF Ranked
  <2>2. ~(b < a)
    <3>1. f[s[a]] <= f[s[b]] /\ f[s[a]] \in Nat /\ f[s[b]] \in Nat
      BY <2>1, <1>4, <1>7
    <3>2. ~(f[s[b]] < f[s[a]])
      BY <3>1
    <3> QED
      BY <3>2, <1>4, <1>7
  <2>3. b - a + 1 \in 1 .. z /\ (b - a + 1) + a - 1 = b
    BY <2>2, <1>3, <1>4
  <2> QED
    BY <2>1, <2>3, <1>6
<1> HIDE DEF U
<1>11. Ranked(q, T, f, U)
  BY <1>6, <1>8, <1>9, <1>10 DEF Ranked
<1> QED
  BY <1>5, <1>11 DEF U

\* The keys of a leaf, by themselves.
Self == [k \in Keys |-> k]
KeysIn(n) == {r.key : r \in Tree.rs[n]}
LeafKeys(n) == [j \in DOMAIN node[n].recs |-> node[n].recs[j].key]

\* Keys rank themselves.
LEMMA SelfFacts ==
    /\ Self \in [Keys -> Nat]
    /\ \A k \in Keys : Self[k] = k
BY KeysAssumption DEF Self

\* A leaf lists its keys in order.
LEMMA LeafKeysRanked ==
    ASSUME Listed, NEW n \in used
    PROVE  Ranked(LeafKeys(n), Keys, Self, KeysIn(n))
<1> DEFINE s == node[n].recs
<1>1. Types /\ Stocked
  BY ListedFacts
<1>2. /\ s \in Seq(Recs) /\ DOMAIN s = 1 .. Len(s) /\ Len(s) \in Nat /\ Ascending(s)
      /\ Tree.rs[n] = ToSet(s)
  BY <1>1, NodeFacts
<1>3. PICK m \in Nat : m = Len(s)
  BY <1>2
<1>4. /\ \A i \in 1 .. m : s[i] \in Tree.rs[n] /\ s[i].key \in Keys
      /\ \A r \in Tree.rs[n] : \E i \in 1 .. m : s[i] = r
  BY <1>2, <1>3, KeyNumbers
<1>5. \A i, j \in 1 .. m : i < j => s[i].key < s[j].key
  BY <1>2, <1>3 DEF Ascending
<1>6. PICK c : c = LeafKeys(n)
  OBVIOUS
<1>7. c = [i \in 1 .. m |-> s[i].key]
  BY <1>2, <1>3, <1>6 DEF LeafKeys
<1> HIDE DEF s
<1>8. c \in Seq(Keys) /\ Len(c) = m /\ \A i \in 1 .. m : c[i] = s[i].key /\ c[i] \in Keys
  BY <1>4, <1>7
<1>9. ASSUME NEW a \in 1 .. m, NEW b \in 1 .. m, a < b
      PROVE  Self[c[a]] < Self[c[b]]
  BY <1>5, <1>8, <1>9, SelfFacts
<1>10. \A a \in 1 .. m : c[a] \in KeysIn(n)
  BY <1>4, <1>8 DEF KeysIn
<1>11. ASSUME NEW x \in KeysIn(n)
       PROVE  \E a \in 1 .. m : c[a] = x
  BY <1>4, <1>8 DEF KeysIn
<1>12. Ranked(c, Keys, Self, KeysIn(n))
  BY <1>8, <1>9, <1>10, <1>11 DEF Ranked
<1> QED
  BY <1>6, <1>12

\* Every set of nodes with different first keys can be listed in their order.
LEMMA SortsLevel ==
    ASSUME NEW f \in [NodeNums -> Nat], NEW S \in SUBSET NodeNums,
           \A x, y \in S : f[x] = f[y] => x = y
    PROVE  \E s : Ranked(s, NodeNums, f, S)
<1>1. PICK b \in Nat : \A x \in S : f[x] <= b
  <2> DEFINE Q == {i \in 0 .. MaxNode : \E b \in Nat : \A x \in 1 .. i : f[x] <= b}
  <2>1. MaxNode \in Nat /\ MaxNode \in 0 .. MaxNode
    BY MaxNodeAssumption
  <2>2. 0 \in Q
    BY <2>1
  <2>3. ASSUME NEW i \in 0 .. MaxNode, i \in Q, i < MaxNode
        PROVE  i + 1 \in Q
    <3>1. PICK b \in Nat : \A x \in 1 .. i : f[x] <= b
      BY <2>3
    <3>2. PICK w \in Nat : w = f[i + 1]
      BY <2>1, <2>3 DEF NodeNums
    <3>3. ASSUME NEW x \in 1 .. i + 1
          PROVE  f[x] <= b + w
      <4>1. CASE x = i + 1
        BY <4>1, <3>1, <3>2
      <4>2. CASE x \in 1 .. i
        <5>1. f[x] \in Nat
          BY <4>2, <2>1, <2>3 DEF NodeNums
        <5> QED
          BY <4>2, <5>1, <3>1
      <4> QED
        BY <4>1, <4>2, <2>3
    <3> QED
      BY <3>3, <2>1, <2>3
  <2>4. 0 .. MaxNode \subseteq Q
    <3> HIDE DEF Q
    <3> QED
      BY <2>1, <2>2, <2>3, Inducts
  <2>5. \E b \in Nat : \A x \in NodeNums : f[x] <= b
    BY <2>1, <2>4 DEF NodeNums
  <2> QED
    BY <2>5
<1> DEFINE Low(i) == {x \in S : f[x] <= i}
           P == {i \in 0 .. b : \E s : Ranked(s, NodeNums, f, Low(i))}
<1>2. ASSUME NEW V, V \in SUBSET S, \A x, y \in V : x = y
      PROVE  \E s : Ranked(s, NodeNums, f, V)
  <2>1. CASE V = {}
    BY <2>1, NoneRanked, Zenon
  <2>2. CASE V # {}
    <3>1. PICK x \in V : TRUE
      BY <2>2
    <3>2. x \in NodeNums /\ V = {x}
      BY <3>1, <1>2
    <3>3. PICK q : q = <<x>>
      OBVIOUS
    <3>4. q \in Seq(NodeNums) /\ Len(q) = 1 /\ q[1] = x
      BY <3>2, <3>3
    <3>5. Ranked(q, NodeNums, f, V)
      BY <3>2, <3>4 DEF Ranked
    <3> QED
      BY <3>5
  <2> QED
    BY <2>1, <2>2
<1>3. 0 \in P
  <2>1. \A x, y \in Low(0) : x = y
    BY SMT
  <2>2. Low(0) \in SUBSET S
    OBVIOUS
  <2> HIDE DEF Low
  <2> QED
    BY <1>1, <1>2, <2>1, <2>2
<1>4. ASSUME NEW i \in 0 .. b, i \in P, i < b
      PROVE  i + 1 \in P
  <2> DEFINE V == {x \in S : f[x] = i + 1}
  <2>1. \A x, y \in V : x = y
    OBVIOUS
  <2>2. V \in SUBSET S
    OBVIOUS
  <2>3. Low(i + 1) = Low(i) \cup V
    BY SMT
  <2>4. \A x \in Low(i) : \A y \in V : f[x] < f[y]
    OBVIOUS
  <2> HIDE DEF V
  <2>5. PICK u : Ranked(u, NodeNums, f, V)
    BY <2>1, <2>2, <1>2
  <2>6. PICK s : Ranked(s, NodeNums, f, Low(i))
    BY <1>4
  <2> HIDE DEF Low
  <2>7. Ranked(s \o u, NodeNums, f, Low(i) \cup V)
    BY <2>4, <2>5, <2>6, ConcatRanked
  <2>8. \E t : Ranked(t, NodeNums, f, Low(i + 1))
    BY <2>3, <2>7, Zenon
  <2>9. i + 1 \in 0 .. b
    BY <1>1, <1>4
  <2> QED
    BY <2>8, <2>9
<1>5. b \in P
  <2>1. b \in 0 .. b /\ 0 .. b \subseteq P
    <3> HIDE DEF P
    <3> QED
      BY <1>1, <1>3, <1>4, Inducts
  <2> QED
    BY <2>1
<1>6. Low(b) = S
  BY <1>1
<1> QED
  BY <1>5, <1>6

\* The keys along the chain from leaf n on are those from its first key on.
LEMMA ChainRanked ==
    ASSUME Listed, NEW n \in At(1)
    PROVE  Ranked(KeysAlong(ChainFrom(n)), Keys, Self, {k \in contents : Tree.lo[n] <= k})
<1>1. /\ Filled(Tree) /\ Apart(Tree) /\ Tree.us = used /\ used \in SUBSET NodeNums
      /\ Types /\ Stocked /\ Tree.lo \in [NodeNums -> Nat] /\ Holds(Tree, contents)
  BY ListedFacts
<1>2. ASSUME NEW x \in At(1), NEW y \in At(1), Tree.lo[x] = Tree.lo[y]
      PROVE  x = y
  <2> SUFFICES ASSUME x # y PROVE FALSE
    OBVIOUS
  <2>1. x \in used /\ y \in used /\ node[x].height = 1 /\ node[y].height = 1
    BY DEF At
  <2>2. Tree.ht[x] = 1 /\ Tree.ht[y] = 1
    BY <2>1, <1>1, NodeFacts
  <2>3. y \in Peers(Tree, x)
    BY <2>1, <2>2, <1>1 DEF Peers
  <2> QED
    BY <2>1, <2>3, <1>1, <1>2 DEF Apart
<1>3. PICK s : Ranked(s, NodeNums, Tree.lo, At(1))
  <2>1. At(1) \in SUBSET NodeNums
    BY <1>1 DEF At
  <2> QED
    BY <2>1, <1>1, <1>2, SortsLevel
<1>4. PICK a \in 1 .. Len(s) : s[a] = n
  BY <1>3 DEF Ranked
<1> DEFINE C == {x \in At(1) : Tree.lo[n] <= Tree.lo[x]}
<1>5. PICK c : c = ChainFrom(n)
  OBVIOUS
<1>6. Ranked(c, NodeNums, Tree.lo, C)
  <2>1. c = Rest(s, a)
    BY <1>3, <1>4, <1>5, ChainIs
  <2>2. Ranked(Rest(s, a), NodeNums, Tree.lo, {x \in At(1) : Tree.lo[s[a]] <= Tree.lo[x]})
    BY <1>1, <1>3, RestRanked
  <2> QED
    BY <2>1, <2>2, <1>4
<1>7. ASSUME NEW x \in C
      PROVE  x \in used /\ Tree.ht[x] = 1 /\ x \in NodeNums /\ Tree.lo[x] \in Nat /\ Tree.lo[n] <= Tree.lo[x]
  <2>1. x \in used /\ node[x].height = 1
    BY DEF At
  <2> QED
    BY <2>1, <1>1, NodeFacts
<1>8. n \in used /\ Tree.ht[n] = 1 /\ Tree.lo[n] \in Nat /\ n \in C
  <2>1. n \in used /\ node[n].height = 1
    BY DEF At
  <2> QED
    BY <2>1, <1>1, NodeFacts
<1> HIDE DEF C
<1>9. /\ c \in Seq(NodeNums) /\ DOMAIN c = 1 .. Len(c) /\ Len(c) \in Nat
      /\ \A i \in 1 .. Len(c) : c[i] \in C
      /\ \A x \in C : \E i \in 1 .. Len(c) : c[i] = x
      /\ \A i, j \in 1 .. Len(c) : i < j => Tree.lo[c[i]] < Tree.lo[c[j]]
  BY <1>6 DEF Ranked
<1>10. PICK N : N = Len(c)
  OBVIOUS
<1>11. N \in Nat
  BY <1>9, <1>10
<1> DEFINE B == [i \in 1 .. N |-> KeysIn(c[i])]
<1>12. PICK ss : ss = [i \in 1 .. N |-> LeafKeys(c[i])]
  OBVIOUS
<1>13. KeysAlong(c) = FlattenSeq(ss)
  BY <1>9, <1>10, <1>12 DEF KeysAlong, LeafKeys
<1>14. ASSUME NEW i \in 1 .. N
       PROVE  Ranked(ss[i], Keys, Self, B[i]) /\ ss[i] \in Seq(Keys)
  <2>1. c[i] \in used
    BY <1>7, <1>9, <1>10
  <2>2. Ranked(LeafKeys(c[i]), Keys, Self, KeysIn(c[i]))
    BY <2>1, LeafKeysRanked
  <2> QED
    BY <2>2, <1>12 DEF Ranked
<1>15. ss \in [1 .. N -> Seq(Keys)]
  BY <1>12, <1>14
<1>16. ASSUME NEW x \in C, NEW k \in KeysIn(x)
       PROVE  k \in contents /\ k \in Keys /\ Tree.lo[x] <= k /\ k \in Nat
  <2>1. PICK r \in Tree.rs[x] : k = r.key
    BY DEF KeysIn
  <2>2. k \in contents
    BY <1>1, <1>7, <2>1 DEF Holds
  <2>3. Tree.lo[x] <= k
    BY <1>1, <1>7, <2>1 DEF Filled
  <2>4. k \in Keys /\ k \in Nat
    BY <1>1, <2>2, KeysAssumption DEF Types
  <2> QED
    BY <2>2, <2>3, <2>4
<1>17. ASSUME NEW x \in C, NEW y \in C, Tree.lo[x] < Tree.lo[y], NEW k \in KeysIn(x)
       PROVE  k < Tree.lo[y]
  <2>1. PICK r \in Tree.rs[x] : k = r.key
    BY DEF KeysIn
  <2>2. y \in Peers(Tree, x)
    <3>1. x # y
      BY <1>7, <1>17
    <3> QED
      BY <3>1, <1>1, <1>7 DEF Peers
  <2> QED
    BY <1>1, <1>7, <1>17, <2>1, <2>2 DEF Apart
<1>18. ASSUME NEW i \in 1 .. N, NEW j \in 1 .. N, i < j, NEW x \in B[i], NEW y \in B[j]
       PROVE  Self[x] < Self[y]
  <2>1. c[i] \in C /\ c[j] \in C /\ Tree.lo[c[i]] < Tree.lo[c[j]]
    BY <1>9, <1>10, <1>18
  <2>2. x \in KeysIn(c[i]) /\ y \in KeysIn(c[j])
    BY <1>18
  <2>3. x < Tree.lo[c[j]] /\ Tree.lo[c[j]] <= y /\ x \in Keys /\ y \in Keys /\ x \in Nat /\ y \in Nat
    BY <2>1, <2>2, <1>16, <1>17
  <2>4. Tree.lo[c[j]] \in Nat
    BY <2>1, <1>7
  <2> QED
    BY <2>3, <2>4, SelfFacts
<1>19. PICK U : U = UNION {B[i] : i \in 1 .. N}
  OBVIOUS
<1>20. U = {k \in contents : Tree.lo[n] <= k}
  <2>1. ASSUME NEW k \in U
        PROVE  k \in contents /\ Tree.lo[n] <= k
    <3>1. PICK i \in 1 .. N : k \in KeysIn(c[i])
      BY <1>19
    <3>2. c[i] \in C
      BY <1>9, <1>10
    <3>3. k \in contents /\ Tree.lo[c[i]] <= k /\ k \in Nat
      BY <3>1, <3>2, <1>16
    <3>4. Tree.lo[n] <= Tree.lo[c[i]] /\ Tree.lo[c[i]] \in Nat
      BY <3>2, <1>7
    <3> QED
      BY <3>3, <3>4, <1>8
  <2>2. ASSUME NEW k \in contents, Tree.lo[n] <= k
        PROVE  k \in U
    <3>1. PICK x \in used : Tree.ht[x] = 1 /\ \E r \in Tree.rs[x] : r.key = k
      BY <1>1 DEF Holds
    <3>2. x \in NodeNums /\ node[x].height = 1 /\ Tree.lo[x] \in Nat
      BY <1>1, <3>1, NodeFacts
    <3>3. k \in Nat
      BY <1>1, KeysAssumption DEF Types
    <3>4. ~(Tree.lo[x] < Tree.lo[n])
      <4> SUFFICES ASSUME Tree.lo[x] < Tree.lo[n] PROVE FALSE
        OBVIOUS
      <4>1. x # n
        BY <1>8
      <4>2. n \in Peers(Tree, x)
        BY <4>1, <1>1, <1>8, <3>1 DEF Peers
      <4>3. k < Tree.lo[n]
        BY <4>2, <1>1, <3>1 DEF Apart
      <4> QED
        BY <4>3, <2>2, <3>3, <1>8
    <3>5. x \in C
      BY <3>1, <3>2, <3>4, <1>8 DEF C, At
    <3>6. PICK i \in 1 .. N : c[i] = x
      BY <3>5, <1>9, <1>10
    <3>7. k \in KeysIn(x)
      BY <3>1 DEF KeysIn
    <3>8. k \in B[i]
      BY <3>6, <3>7
    <3> QED
      BY <3>8, <1>19
  <2> QED
    BY <2>1, <2>2
<1> HIDE DEF B
<1>21. /\ \A i \in 1 .. N : Ranked(ss[i], Keys, Self, B[i])
       /\ \A i, j \in 1 .. N : i < j => \A x \in B[i] : \A y \in B[j] : Self[x] < Self[y]
  BY <1>14, <1>18
<1>23. Self \in [Keys -> Nat]
  BY SelfFacts
<1>22. Ranked(FlattenSeq(ss), Keys, Self, U)
  BY <1>11, <1>15, <1>19, <1>21, <1>23, Flattened
<1> QED
  BY <1>5, <1>13, <1>20, <1>22, Zenon

\* A sequence ranked by its own elements lists them in order.
LEMMA RankedInOrder ==
    ASSUME NEW S, NEW s, Ranked(s, Keys, Self, S)
    PROVE  InOrder(s, S)
<1>1. /\ s \in Seq(Keys) /\ DOMAIN s = 1 .. Len(s) /\ Len(s) \in Nat
      /\ \A i \in 1 .. Len(s) : s[i] \in S /\ s[i] \in Keys
      /\ \A x \in S : \E i \in 1 .. Len(s) : s[i] = x
  BY DEF Ranked
<1>2. ToSet(s) = S
  BY <1>1 DEF ToSet
<1>3. ASSUME NEW i \in 1 .. (Len(s) - 1)
      PROVE  s[i] < s[i + 1]
  <2>1. i \in 1 .. Len(s) /\ i + 1 \in 1 .. Len(s) /\ i < i + 1
    BY <1>1
  <2>2. Self[s[i]] < Self[s[i + 1]]
    BY <2>1 DEF Ranked
  <2> QED
    BY <2>1, <2>2, <1>1, SelfFacts
<1> QED
  BY <1>2, <1>3 DEF InOrder

\* The header counts what the chain of leaves holds.
LEMMA AccountingFollows ==
    ASSUME IInv
    PROVE  AccountingExact
<1> SUFFICES ASSUME Sound
             PROVE  /\ leafRecords = Cardinality(contents)
                    /\ InOrder(KeysAlong(ChainFrom(firstLeaf)), contents)
                    /\ used = Reachable
                    /\ \A n \in NodeNums \ used : node[n] = Erased
  BY DEF AccountingExact
<1>1. leafRecords = Cardinality(contents) /\ \A n \in NodeNums \ used : node[n] = Erased
  BY SoundMeans DEF Types, Stocked
<1>2. CASE Bare
  <2>1. firstLeaf = 0 /\ contents = {}
    BY <1>2 DEF Bare
  <2>2. ChainFrom(firstLeaf) = <<>>
    BY <2>1 DEF ChainFrom
  <2>3. KeysAlong(<<>>) = <<>>
    BY DEF KeysAlong, FlattenSeq
  <2>4. InOrder(<<>>, {})
    BY DEF InOrder, ToSet
  <2> QED
    BY <1>1, <1>2, <2>1, <2>2, <2>3, <2>4, BareReaches
<1>3. CASE Resting
  <2>1. firstLeaf \in At(1) /\ node[firstLeaf].BLink = 0 /\ firstLeaf \in used
    BY <1>3 DEF Resting, Grown, Ends, At
  <2>2. Types /\ Stocked /\ Holds(Tree, contents) /\ Tree.us = used
    BY <1>3, TreeFacts
  <2>3. Tree.bl[firstLeaf] = 0
    BY <2>1, <2>2, NodeFacts
  <2>4. {k \in contents : Tree.lo[firstLeaf] <= k} = contents
    BY <2>1, <2>2, <2>3 DEF Holds
  <2>5. Ranked(KeysAlong(ChainFrom(firstLeaf)), Keys, Self, {k \in contents : Tree.lo[firstLeaf] <= k})
    BY <1>3, <2>1, RestingListed, ChainRanked
  <2>6. Ranked(KeysAlong(ChainFrom(firstLeaf)), Keys, Self, contents)
    BY <2>4, <2>5, Zenon
  <2>7. InOrder(KeysAlong(ChainFrom(firstLeaf)), contents)
    BY <2>6, RankedInOrder
  <2> QED
    BY <1>1, <1>3, <2>7, ReachesAll
<1> QED
  BY <1>2, <1>3, SoundMeans

\* leafRecords, the leaves and the node bitmap agree with what clients stored:
\* no record is lost or doubled, and no node is leaked.
THEOREM AccountingAlwaysExact == ~FromBelow => (Spec => []AccountingExact)
BY AccountingFollows, TreeKept, PTL

\* The beginning of a ranked sequence.
LEMMA PrefixRanked ==
    ASSUME NEW T, NEW f, NEW S, NEW s, Ranked(s, T, f, S), NEW m \in 1 .. Len(s) + 1,
           NEW U \in SUBSET S, \A i \in 1 .. Len(s) : s[i] \in U <=> i < m
    PROVE  Ranked(SubSeq(s, 1, m - 1), T, f, U)
<1>1. s \in Seq(T) /\ Len(s) \in Nat
  BY DEF Ranked
<1>2. PICK L \in Nat : L = Len(s)
  BY <1>1
<1>3. PICK q : q = SubSeq(s, 1, m - 1)
  OBVIOUS
<1>4. PICK z \in Nat : z = m - 1
  BY <1>1
<1>5. z <= L /\ \A i \in 1 .. z : i \in 1 .. L /\ i < m
  BY <1>1, <1>2, <1>4
<1>6. q \in Seq(T) /\ Len(q) = z /\ \A i \in 1 .. z : q[i] = s[i]
  <2>1. q = SubSeq(s, 1, z)
    BY <1>3, <1>4
  <2>2. 1 \in Int /\ z \in Int /\ \A i \in 1 .. z : s[i] \in T
    BY <1>1, <1>2, <1>5
  <2>3. /\ SubSeq(s, 1, z) \in Seq(T) /\ Len(SubSeq(s, 1, z)) = IF 1 <= z THEN z - 1 + 1 ELSE 0
        /\ \A j \in 1 .. z - 1 + 1 : SubSeq(s, 1, z)[j] = s[1 + j - 1]
    BY <2>2, SubSeqProperties
  <2>4. z - 1 + 1 = z /\ \A j \in 1 .. z : 1 + j - 1 = j
    OBVIOUS
  <2> QED
    BY <2>1, <2>3, <2>4
<1>7. ASSUME NEW a \in 1 .. z, NEW b \in 1 .. z, a < b
      PROVE  f[q[a]] < f[q[b]]
  BY <1>2, <1>5, <1>6, <1>7 DEF Ranked
<1>8. \A a \in 1 .. z : q[a] \in U
  BY <1>2, <1>5, <1>6
<1>9. ASSUME NEW x \in U
      PROVE  \E a \in 1 .. z : q[a] = x
  <2>1. PICK a \in 1 .. L : s[a] = x
    BY <1>2 DEF Ranked
  <2>2. a < m
    BY <2>1, <1>2
  <2>3. a \in 1 .. z
    BY <2>1, <2>2, <1>4
  <2> QED
    BY <2>1, <2>3, <1>6
<1>10. Ranked(q, T, f, U)
  BY <1>6, <1>7, <1>8, <1>9 DEF Ranked
<1> QED
  BY <1>3, <1>10

\* A reader that comes for k sees the keys from its leaf on, up to those with
\* the parent of k.
InView(k) == {x \in contents : Tree.lo[HomeOf(k)] <= x /\ ParentOf[x] <= ParentOf[k]}

\* A scan lists the keys from its first leaf's on, in order.
LEMMA ScanRanked ==
    ASSUME Resting, NEW k \in Keys
    PROVE  Ranked(ScanFrom(k), Keys, Self, InView(k))
<1> DEFINE n == HomeOf(k)
           S == {x \in contents : Tree.lo[n] <= x}
<1>1. n \in used /\ node[n].height = 1 /\ root # 0 /\ contents \subseteq Keys
  <2>1. k \in Nat
    BY KeysAssumption
  <2>2. n \in used /\ node[n].height = 1
    BY <2>1, LeafFacts DEF HomeOf
  <2>3. root \in NodeNums /\ contents \subseteq Keys
    BY TreeFacts DEF At, Types
  <2> QED
    BY <2>2, <2>3 DEF NodeNums
<1>2. n \in At(1)
  BY <1>1 DEF At
<1>3. PICK ks : ks = KeysAlong(ChainFrom(n))
  OBVIOUS
<1>4. Ranked(ks, Keys, Self, S)
  BY <1>2, <1>3, RestingListed, ChainRanked
<1>5. PICK beyond : beyond = {i \in DOMAIN ks : ParentOf[ks[i]] > ParentOf[k]}
  OBVIOUS
<1>6. ScanFrom(k) = IF beyond = {} THEN ks ELSE SubSeq(ks, 1, Min(beyond) - 1)
  BY <1>1, <1>3, <1>5 DEF ScanFrom, HomeOf
<1> HIDE DEF n
<1>7. /\ ks \in Seq(Keys) /\ DOMAIN ks = 1 .. Len(ks) /\ Len(ks) \in Nat
      /\ \A i \in 1 .. Len(ks) : ks[i] \in S /\ ks[i] \in Keys
      /\ \A x \in S : \E i \in 1 .. Len(ks) : ks[i] = x
  BY <1>4 DEF Ranked
<1>8. ASSUME NEW x \in S
      PROVE  x \in Keys /\ ParentOf[x] \in Nat /\ ParentOf[k] \in Nat
  BY <1>1, ParentOfAssumption
<1>9. InView(k) = {x \in S : ParentOf[x] <= ParentOf[k]}
  BY DEF InView, n
<1> HIDE DEF S
<1>10. PICK U : U = {x \in S : ParentOf[x] <= ParentOf[k]}
  OBVIOUS
<1>11. CASE beyond = {}
  <2>1. ASSUME NEW x \in S
        PROVE  ParentOf[x] <= ParentOf[k]
    <3>1. PICK i \in 1 .. Len(ks) : ks[i] = x
      BY <1>7
    <3>2. ~(ParentOf[ks[i]] > ParentOf[k])
      BY <1>5, <1>7, <1>11
    <3> QED
      BY <3>1, <3>2, <1>8
  <2>2. U = S
    BY <2>1, <1>10
  <2> QED
    BY <2>2, <1>4, <1>6, <1>9, <1>10, <1>11, Zenon
<1>12. CASE beyond # {}
  <2>1. PICK m : m = Min(beyond)
    OBVIOUS
  <2>2. beyond \in SUBSET Nat
    BY <1>5, <1>7
  <2>3. m \in beyond /\ \A x \in beyond : m <= x
    BY <2>1, <2>2, <1>12, MinOf
  <2>4. m \in 1 .. Len(ks) /\ ParentOf[ks[m]] > ParentOf[k]
    BY <2>3, <1>5, <1>7
  <2>5. ASSUME NEW i \in 1 .. Len(ks)
        PROVE  ks[i] \in U <=> i < m
    <3>1. ks[i] \in S /\ ks[m] \in S /\ ks[i] \in Keys /\ ks[m] \in Keys /\ ks[i] \in Nat /\ ks[m] \in Nat
      BY <2>4, <1>7, KeysAssumption
    <3>2. ParentOf[ks[i]] \in Nat /\ ParentOf[ks[m]] \in Nat /\ ParentOf[k] \in Nat
      BY <3>1, <1>8
    <3>3. CASE i < m
      <4>1. i \notin beyond
        BY <2>3, <2>4, <3>3
      <4>2. ~(ParentOf[ks[i]] > ParentOf[k])
        BY <4>1, <1>5, <1>7
      <4> QED
        BY <4>2, <3>1, <3>2, <3>3, <1>10
    <3>4. CASE ~(i < m)
      <4>1. i = m \/ m < i
        BY <2>4, <3>4, <1>7
      <4>2. i = m \/ ks[m] < ks[i]
        <5>1. m < i => Self[ks[m]] < Self[ks[i]]
          BY <2>4, <1>4 DEF Ranked
        <5> QED
          BY <4>1, <5>1, <3>1, SelfFacts
      <4>3. ParentOf[ks[m]] <= ParentOf[ks[i]]
        BY <4>2, <3>1, <3>2, ParentOfAssumption
      <4>4. ~(ParentOf[ks[i]] <= ParentOf[k])
        BY <4>3, <3>2, <2>4
      <4> QED
        BY <4>4, <3>4, <1>10
    <3> QED
      BY <3>3, <3>4
  <2>6. U \in SUBSET S /\ m \in 1 .. Len(ks) + 1
    BY <2>4, <1>7, <1>10
  <2>7. Ranked(SubSeq(ks, 1, m - 1), Keys, Self, U)
    BY <2>5, <2>6, <1>4, PrefixRanked
  <2> QED
    BY <2>1, <2>7, <1>6, <1>9, <1>10, <1>12, Zenon
<1> QED
  BY <1>11, <1>12

\* Searches find exactly the keys stored.
LEMMA SearchFollows ==
    ASSUME IInv
    PROVE  SearchExact
<1> SUFFICES ASSUME Sound
             PROVE  /\ \A k \in Keys : root # 0 => (lookup(k) <=> k \in contents)
                    /\ \A k \in contents :
                          root # 0 /\ Descends(k) /\ IdxOf(node[Last(descend(k))], k) > 0
  BY DEF SearchExact
<1>1. CASE Bare
  BY <1>1 DEF Bare
<1>2. CASE Resting
  <2>1. /\ Types /\ Stocked /\ Good(Tree, root, {}, {}) /\ Tree.us = used
        /\ contents \subseteq Keys /\ root \in NodeNums
    BY <1>2, TreeFacts DEF Types, At
  <2>2. ASSUME NEW k \in Keys
        PROVE  /\ lookup(k) <=> k \in contents
               /\ k \in contents => Descends(k) /\ IdxOf(node[Last(descend(k))], k) > 0
    <3>1. k \in Nat
      BY KeysAssumption
    <3> DEFINE n == HomeOf(k)
    <3>2. n \in used /\ Descends(k)
      BY <1>2, <3>1, LeafFacts DEF HomeOf
    <3>3. Ranked(ScanFrom(k), Keys, Self, InView(k))
      BY <1>2, ScanRanked
    <3>4. ToSet(ScanFrom(k)) = InView(k)
      BY <3>3, RankedInOrder DEF InOrder
    <3>5. k \in contents <=> \E r \in Tree.rs[n] : r.key = k
      BY <1>2, HomeHolds
    <3>6. k \in contents <=> IdxOf(node[n], k) # 0
      BY <1>2, HomeHolds
    <3> HIDE DEF n
    <3>7. k \in contents => Tree.lo[n] <= k
      BY <2>1, <3>2, <3>5 DEF Good, Filled
    <3>8. ParentOf[k] <= ParentOf[k]
      BY ParentOfAssumption
    <3>9. lookup(k) <=> k \in contents
      BY <3>4, <3>7, <3>8 DEF lookup, InView, n
    <3>10. node[n].recs \in Seq(Recs)
      BY <2>1, <3>2, NodeFacts
    <3>11. IdxOf(node[n], k) \in 0 .. Len(node[n].recs)
      BY <3>10, IdxFacts
    <3>12. k \in contents => IdxOf(node[n], k) > 0
      BY <3>6, <3>11
    <3> QED
      BY <3>2, <3>9, <3>12 DEF n, HomeOf
  <2>3. root # 0
    BY <2>1 DEF NodeNums
  <2> QED
    BY <2>1, <2>2, <2>3
<1> QED
  BY <1>1, <1>2, SoundMeans

\* Both searches find exactly what clients stored: the reader's lookup, which
\* goes on along the chain, and the writer's descent, which looks in one leaf.
THEOREM SearchAlwaysExact == ~FromBelow => (Spec => []SearchExact)
BY SearchFollows, TreeKept, PTL

\* Counting the members up to each numbers the members of a set.
Upto(B, i) == {j \in B : j <= i}

Numbers(r, B, c) ==
    /\ \A i \in B : r[i] = Cardinality(Upto(B, i)) /\ r[i] \in 1 .. c
    /\ \A i, j \in B : i < j => r[i] < r[j]
    /\ \A n \in 1 .. c : \E i \in B : r[i] = n

\* The members of a set of positions, counted off.
LEMMA CountedOff ==
    ASSUME NEW L \in Nat, NEW B \in SUBSET (1 .. L)
    PROVE  \E c \in Nat : \E r : c = Cardinality(B) /\ Numbers(r, B, c)
<1>1. IsFiniteSet(1 .. L)
  BY FS_Interval
<1>2. IsFiniteSet(B) /\ Cardinality(B) \in Nat
  BY <1>1, FS_Subset, FS_CardinalityType
<1>3. PICK c \in Nat : c = Cardinality(B)
  BY <1>2
<1> DEFINE r == [i \in B |-> Cardinality(Upto(B, i))]
<1>4. ASSUME NEW i \in B
      PROVE  /\ IsFiniteSet(Upto(B, i)) /\ Cardinality(Upto(B, i)) \in Nat
             /\ Cardinality(Upto(B, i)) \in 1 .. c
  <2>1. Upto(B, i) \in SUBSET B /\ {i} \in SUBSET Upto(B, i)
    BY DEF Upto
  <2>2. IsFiniteSet(Upto(B, i)) /\ Cardinality(Upto(B, i)) <= c
    BY <2>1, <1>2, <1>3, FS_Subset
  <2>3. Cardinality(Upto(B, i)) \in Nat
    BY <2>2, FS_CardinalityType
  <2>4. Cardinality({i}) = 1 /\ Cardinality({i}) <= Cardinality(Upto(B, i))
    BY <2>1, <2>2, FS_Singleton, FS_Subset
  <2> QED
    BY <2>2, <2>3, <2>4
<1>5. ASSUME NEW i \in B, NEW j \in B, i < j
      PROVE  Cardinality(Upto(B, i)) < Cardinality(Upto(B, j))
  <2>1. j \notin Upto(B, i)
    BY <1>5 DEF Upto
  <2>2. Upto(B, i) \cup {j} \in SUBSET Upto(B, j)
    <3>1. ASSUME NEW x \in Upto(B, i) \cup {j} PROVE x \in Upto(B, j)
      BY <1>5 DEF Upto
    <3> QED
      BY <3>1
  <2>3. /\ IsFiniteSet(Upto(B, i) \cup {j})
        /\ Cardinality(Upto(B, i) \cup {j}) = Cardinality(Upto(B, i)) + 1
    BY <2>1, <1>4, FS_AddElement
  <2>4. Cardinality(Upto(B, i) \cup {j}) <= Cardinality(Upto(B, j))
    BY <2>2, <1>4, FS_Subset
  <2>5. Cardinality(Upto(B, i)) \in Nat /\ Cardinality(Upto(B, j)) \in Nat
    BY <1>4
  <2> QED
    BY <2>3, <2>4, <2>5
<1>6. /\ \A i \in B : r[i] = Cardinality(Upto(B, i)) /\ r[i] \in 1 .. c
      /\ \A i, j \in B : i < j => r[i] < r[j]
      /\ r \in [B -> 1 .. c]
  BY <1>4, <1>5
<1> HIDE DEF r
<1>7. \A i, j \in B : r[i] = r[j] => i = j
  BY <1>6
<1>8. r \in Injection(B, 1 .. c)
  BY <1>6, <1>7 DEF Injection, IsInjective
<1>9. IsFiniteSet(1 .. c) /\ Cardinality(1 .. c) = c
  BY FS_Interval
<1>10. r \in Surjection(B, 1 .. c)
  BY <1>3, <1>8, <1>9, FS_Injection
<1>11. \A n \in 1 .. c : \E i \in B : r[i] = n
  BY <1>10 DEF Surjection
<1>12. Numbers(r, B, c)
  BY <1>6, <1>11 DEF Numbers
<1> QED
  BY <1>3, <1>12

\* Picking out of a ranked sequence keeps its order.
LEMMA OnlyRanked ==
    ASSUME NEW S, NEW ks, Ranked(ks, Keys, Self, S), NEW A, NEW U, U = S \cap A
    PROVE  Ranked(Only(ks, A), Keys, Self, U)
<1>1. /\ ks \in Seq(Keys) /\ DOMAIN ks = 1 .. Len(ks) /\ Len(ks) \in Nat
      /\ \A i \in 1 .. Len(ks) : ks[i] \in S /\ ks[i] \in Keys
      /\ \A x \in S : \E i \in 1 .. Len(ks) : ks[i] = x
      /\ \A i, j \in 1 .. Len(ks) : i < j => Self[ks[i]] < Self[ks[j]]
  BY DEF Ranked
<1>2. PICK L \in Nat : L = Len(ks)
  BY <1>1
<1>3. PICK at : at = {i \in DOMAIN ks : ks[i] \in A}
  OBVIOUS
<1>4. at \in SUBSET (1 .. L) /\ \A i \in 1 .. L : i \in at <=> ks[i] \in A
  BY <1>1, <1>2, <1>3
<1>5. PICK c \in Nat : \E r : c = Cardinality(at) /\ Numbers(r, at, c)
  BY <1>4, CountedOff
<1>6. PICK r : c = Cardinality(at) /\ Numbers(r, at, c)
  BY <1>5
<1>7. /\ \A i \in at : r[i] = Cardinality({j \in at : j <= i}) /\ r[i] \in 1 .. c
      /\ \A i, j \in at : i < j => r[i] < r[j]
      /\ \A n \in 1 .. c : \E i \in at : r[i] = n
  BY <1>6 DEF Numbers, Upto
<1>8. PICK q : q = Only(ks, A)
  OBVIOUS
<1> DEFINE pos(n) == CHOOSE i \in at : Cardinality({j \in at : j <= i}) = n
<1>9. q = [n \in 1 .. c |-> ks[pos(n)]]
  BY <1>3, <1>6, <1>8 DEF Only
<1>10. ASSUME NEW n \in 1 .. c
       PROVE  pos(n) \in at /\ r[pos(n)] = n
  <2>1. PICK i \in at : r[i] = n
    BY <1>7
  <2>2. Cardinality({j \in at : j <= i}) = n
    BY <2>1, <1>7
  <2>3. pos(n) \in at /\ Cardinality({j \in at : j <= pos(n)}) = n
    BY <2>2
  <2> HIDE DEF pos
  <2> QED
    BY <2>3, <1>7
<1> HIDE DEF pos
<1>11. ASSUME NEW n \in 1 .. c
       PROVE  pos(n) \in 1 .. L /\ ks[pos(n)] \in Keys /\ ks[pos(n)] \in U
  BY <1>1, <1>2, <1>4, <1>10
<1>12. q \in Seq(Keys) /\ Len(q) = c /\ \A n \in 1 .. c : q[n] = ks[pos(n)]
  <2>1. DOMAIN q = 1 .. c /\ \A n \in 1 .. c : q[n] = ks[pos(n)] /\ q[n] \in Keys
    BY <1>9, <1>11
  <2>2. q \in [1 .. c -> Keys]
    BY <2>1, <1>9
  <2> QED
    BY <2>1, <2>2
<1>13. ASSUME NEW a \in 1 .. c, NEW b \in 1 .. c, a < b
       PROVE  Self[q[a]] < Self[q[b]]
  <2>1. PICK x \in at : x = pos(a)
    BY <1>10
  <2>2. PICK y \in at : y = pos(b)
    BY <1>10
  <2>3. r[x] = a /\ r[y] = b /\ x \in 1 .. L /\ y \in 1 .. L
    BY <2>1, <2>2, <1>4, <1>10
  <2>4. ~(y < x) /\ x # y
    BY <2>3, <1>7, <1>13
  <2>5. x < y
    BY <2>3, <2>4
  <2>6. q[a] = ks[x] /\ q[b] = ks[y]
    BY <2>1, <2>2, <1>12
  <2> QED
    BY <2>3, <2>5, <2>6, <1>1, <1>2
<1>14. \A a \in 1 .. c : q[a] \in U
  BY <1>11, <1>12
<1>15. ASSUME NEW x \in U
       PROVE  \E a \in 1 .. c : q[a] = x
  <2>1. PICK i \in 1 .. L : ks[i] = x
    BY <1>1, <1>2
  <2>2. i \in at
    BY <2>1, <1>4
  <2>3. PICK a \in 1 .. c : a = r[i]
    BY <2>2, <1>7
  <2>4. PICK y \in at : y = pos(a)
    BY <1>10
  <2>5. r[y] = r[i] /\ y \in 1 .. L
    BY <2>3, <2>4, <1>4, <1>10
  <2>6. ~(y < i) /\ ~(i < y)
    <3>1. r[i] \in 1 .. c /\ r[y] \in 1 .. c
      BY <2>2, <2>4, <1>7
    <3> QED
      BY <3>1, <2>2, <2>5, <1>7
  <2>7. y = i
    BY <2>5, <2>6
  <2> QED
    BY <2>1, <2>4, <2>7, <1>12
<1>16. Ranked(q, Keys, Self, U)
  BY <1>12, <1>13, <1>14, <1>15 DEF Ranked
<1> QED
  BY <1>8, <1>16

\* Listings return exactly the children.
LEMMA ListingFollows ==
    ASSUME IInv
    PROVE  ListingExact
<1> SUFFICES ASSUME Sound, root # 0, NEW t \in Keys,
                    \A k \in Keys : ParentOf[k] = ParentOf[t] => t <= k
             PROVE  InOrder(listChildren(t),
                            {k \in contents : ParentOf[k] = ParentOf[t] /\ k # t})
  BY DEF ListingExact
<1> DEFINE n == HomeOf(t)
           A == Siblings(t) \ {t}
<1>1. Resting
  BY SoundMeans DEF Bare
<1>2. /\ Types /\ Stocked /\ Holds(Tree, contents) /\ Tree.us = used /\ contents \subseteq Keys
      /\ used \in SUBSET NodeNums /\ Tree.lo \in [NodeNums -> Nat]
  BY <1>1, TreeFacts DEF Types
<1>3. n \in used /\ On(Tree, n, t) /\ t \in Nat
  BY <1>1, LeafFacts, KeysAssumption DEF HomeOf
<1> HIDE DEF n
<1>4. Ranked(ScanFrom(t), Keys, Self, InView(t))
  BY <1>1, ScanRanked
<1>5. PICK U : U = InView(t) \cap A
  OBVIOUS
<1>6. U = {k \in contents : ParentOf[k] = ParentOf[t] /\ k # t}
  <2>1. ASSUME NEW k \in U
        PROVE  k \in contents /\ ParentOf[k] = ParentOf[t] /\ k # t
    BY <1>5 DEF InView, Siblings
  <2>2. ASSUME NEW k \in contents, ParentOf[k] = ParentOf[t], k # t
        PROVE  k \in U
    <3>1. k \in Keys /\ k \in Nat /\ t <= k /\ ParentOf[t] \in Nat
      BY <2>2, <1>2, KeysAssumption, ParentOfAssumption
    <3>2. Tree.lo[n] <= k
      <4>1. CASE Tree.lo[n] <= t
        <5>1. Tree.lo[n] \in Nat
          BY <1>2, <1>3
        <5> QED
          BY <4>1, <5>1, <3>1, <1>3
      <4>2. CASE Tree.bl[n] = 0
        BY <4>2, <1>2, <1>3 DEF Holds
      <4> QED
        BY <4>1, <4>2, <1>3 DEF On
    <3>3. ParentOf[k] <= ParentOf[t]
      BY <2>2, <3>1
    <3>4. k \in InView(t)
      BY <3>2, <3>3 DEF InView, n
    <3> QED
      BY <2>2, <3>1, <3>4, <1>5 DEF Siblings
  <2> QED
    BY <2>1, <2>2
<1>7. listChildren(t) = Only(ScanFrom(t), A)
  BY DEF listChildren
<1> HIDE DEF A
<1>8. Ranked(Only(ScanFrom(t), A), Keys, Self, U)
  BY <1>4, <1>5, OnlyRanked
<1>9. InOrder(Only(ScanFrom(t), A), U)
  BY <1>8, RankedInOrder
<1> QED
  BY <1>6, <1>7, <1>9, Zenon

\* listChildren returns every child of a directory once, in key order, however
\* the children are spread over the leaves.
THEOREM ListingAlwaysExact == ~FromBelow => (Spec => []ListingExact)
BY ListingFollows, TreeKept, PTL

\* A step leaves failed a truth value.
LEMMA FailedBoolean ==
    ASSUME Next, failed \in BOOLEAN
    PROVE  failed' \in BOOLEAN
<1>1. \A ok : Return(ok) => failed' \in BOOLEAN
  BY DEF Return
<1>2. ASSUME NEW k \in Keys, Insert(k) PROVE failed' \in BOOLEAN
  <2>1. CASE InsertEmpty(k)
    BY <2>1, <1>1 DEF InsertEmpty
  <2>2. CASE InsertFits(k)
    BY <2>2, <1>1 DEF InsertFits
  <2>3. CASE InsertSplits(k)
    BY <2>3, <1>1 DEF InsertSplits
  <2> QED
    BY <2>1, <2>2, <2>3, <1>2 DEF Insert
<1>3. ASSUME NEW k \in Keys, Delete(k) PROVE failed' \in BOOLEAN
  <2>1. CASE DeleteMissed(k)
    BY <2>1 DEF DeleteMissed
  <2>2. CASE DeleteInRoot(k)
    BY <2>2, <1>1 DEF DeleteInRoot
  <2>3. CASE DeleteInLeaf(k)
    BY <2>3 DEF DeleteInLeaf
  <2> QED
    BY <2>1, <2>2, <2>3, <1>3 DEF Delete
<1>4. ASSUME Continue PROVE failed' \in BOOLEAN
  <2>1. CASE PropagateFits \/ GrowRoot \/ SplitNoSpace \/ RebalanceNone
    BY <2>1, <1>1 DEF PropagateFits, GrowRoot, SplitNoSpace, RebalanceNone
  <2>2. CASE PropagateSplits
    BY <2>2, <1>1 DEF PropagateSplits
  <2>3. CASE UpdateParentKey
    BY <2>3, <1>1 DEF UpdateParentKey
  <2>4. ASSUME NEW l, NEW r, NEW j, merge(l, r, j) PROVE failed' \in BOOLEAN
    BY <2>4, <1>1 DEF merge
  <2>5. CASE MergeLeft \/ MergeRight
    BY <2>4, <2>5 DEF MergeLeft, MergeRight
  <2>6. ASSUME NEW a, NEW b, NEW j, Rotate(a, b, j) PROVE failed' \in BOOLEAN
    BY <2>6, <1>1 DEF Rotate
  <2>7. CASE rotateFromLeft \/ rotateFromRight
    BY <2>6, <2>7 DEF rotateFromLeft, rotateFromRight
  <2>8. CASE ShrinkRoot
    BY <2>8, <1>1 DEF ShrinkRoot, locals
  <2> QED
    BY <2>1, <2>2, <2>3, <2>5, <2>7, <2>8, <1>4 DEF Continue
<1> QED
  BY <1>2, <1>3, <1>4 DEF Next

-----------------------------------------------------------------------------
(* Types.                                                                  *)

\* Every level of a tree has nodes, also in the middle of an operation.
LEMMA HeightBound ==
    ASSUME Kept
    PROVE  treeDepth \in 0 .. MaxNode /\ \A n \in NodeNums : node[n].height \in 0 .. MaxNode
<1>1. MaxNode \in Nat /\ Types /\ Stocked
  BY MaxNodeAssumption DEF Kept
<1>2. CASE Bare
  <2>1. treeDepth = 0 /\ used = {}
    BY <1>2 DEF Bare
  <2>2. \A n \in NodeNums : node[n].height = 0
    BY <1>1, <2>1 DEF Stocked, Erased
  <2> QED
    BY <1>1, <2>1, <2>2
<1>3. CASE Grown
  <2>1. /\ root \in used /\ treeDepth = node[root].height
        /\ Good(Tree, root, Orphans, Stale) /\ treeDepth \in Nat
    BY <1>1, <1>3 DEF Grown, Types
  <2>2. \A n \in used : n \in NodeNums /\ Tree.ht[n] = node[n].height /\ Tree.us = used
    BY <1>1, NodeFacts
  <2>3. Tree.us = used /\ Tree.ht[root] = treeDepth
    BY <2>1, <2>2
  <2>4. \A n \in used : Tree.ht[n] \in Nat /\ Tree.ht[n] > 0 /\ Tree.ht[n] <= treeDepth
    BY <2>1, <2>2, <2>3 DEF Good, Filled, Topped, TreeType
  <2> DEFINE D == treeDepth
             S == {i \in 0 .. D - 1 : \E n \in used : Tree.ht[n] = D - i}
  <2>5. 0 \in S
    BY <2>1, <2>3, <2>4
  <2>6. ASSUME NEW i \in 0 .. D - 1, i \in S, i < D - 1
        PROVE  i + 1 \in S
    <3>1. PICK n \in used : Tree.ht[n] = D - i
      BY <2>6
    <3>2. Tree.ht[n] > 1
      BY <3>1, <2>1, <2>6
    <3>3. PICK r \in Tree.rs[n] : TRUE
      BY <2>1, <2>3 DEF Good, Filled
    <3>4. r.child \in used /\ Tree.ht[n] = Tree.ht[r.child] + 1
      BY <3>2, <3>3, <2>1, <2>3 DEF Good, Indexed
    <3>5. Tree.ht[r.child] = D - (i + 1)
      BY <3>1, <3>4, <2>1, <2>4
    <3> QED
      BY <3>4, <3>5, <2>1, <2>6
  <2>7. 0 .. D - 1 \subseteq S
    <3>1. D - 1 \in Nat
      BY <2>1, <2>4, <2>3
    <3>2. PICK b \in Nat : b = D - 1
      BY <3>1
    <3>3. \A i \in 0 .. b : i \in S /\ i < b => i + 1 \in S
      BY <3>2, <2>6
    <3> HIDE DEF S
    <3>4. 0 .. b \subseteq S
      BY <2>5, <3>3, Inducts
    <3> QED
      BY <3>2, <3>4
  <2>8. ASSUME NEW h \in 1 .. D
        PROVE  \E n \in used : Tree.ht[n] = h
    <3>1. D - h \in 0 .. D - 1 /\ D - (D - h) = h
      BY <2>1
    <3> QED
      BY <3>1, <2>7
  <2> DEFINE f == [h \in 1 .. D |-> CHOOSE n \in used : Tree.ht[n] = h]
  <2>9. ASSUME NEW h \in 1 .. D
        PROVE  f[h] \in used /\ Tree.ht[f[h]] = h
    BY <2>8
  <2>10. f \in [1 .. D -> NodeNums]
    BY <2>2, <2>9
  <2> HIDE DEF f
  <2>11. f \in Injection(1 .. D, NodeNums)
    BY <2>9, <2>10 DEF Injection, IsInjective
  <2>12. IsFiniteSet(NodeNums) /\ Cardinality(NodeNums) = MaxNode
    BY <1>1, FS_Interval DEF NodeNums
  <2>13. Cardinality(1 .. D) = D
    BY <2>1, FS_Interval
  <2>14. Cardinality(1 .. D) <= Cardinality(NodeNums)
    BY <2>11, <2>12, FS_Injection
  <2>15. D <= MaxNode
    BY <2>12, <2>13, <2>14
  <2>16. ASSUME NEW n \in NodeNums
         PROVE  node[n].height \in 0 .. MaxNode
    <3>1. CASE n \in used
      BY <3>1, <1>1, <2>1, <2>2, <2>4, <2>15
    <3>2. CASE n \notin used
      <4>1. node[n].height = 0
        BY <3>2, <1>1 DEF Stocked, Erased
      <4> QED
        BY <4>1, <1>1
    <3> QED
      BY <3>1, <3>2
  <2> QED
    BY <1>1, <2>1, <2>15, <2>16
<1> QED
  BY <1>2, <1>3 DEF Kept

\* The types of the module are those of the invariant.
LEMMA TypesFollow ==
    ASSUME IInv, failed \in BOOLEAN, ~failed
    PROVE  TypeOK
<1>1. Kept /\ Types
  BY DEF IInv, Kept
<1>2. MaxNode \in Nat /\ pool \in 1 .. MaxNode
  BY <1>1, MaxNodeAssumption DEF Types
<1>3. treeDepth \in 0 .. MaxNode /\ \A n \in NodeNums : node[n].height \in 0 .. MaxNode
  BY <1>1, HeightBound
<1>4. /\ pool \in Pools /\ node \in [NodeNums -> Nodes]
      /\ used \in SUBSET NodeNums
      /\ {root, firstLeaf, lastLeaf, treeDepth} \subseteq 0 .. MaxNode
      /\ pc \in {"idle", "propagate", "growRoot", "updateKey", "rebalance", "shrink"}
      /\ contents \in SUBSET Keys
      /\ path \in Seq(NodeNums)
  BY <1>1, <1>2, <1>3 DEF Types, NodeNums
<1>5. leafRecords \in Nat
  BY <1>1, FS_CardinalityType DEF Types
<1>6. ToSet(path) \subseteq NodeNums
  BY <1>4 DEF ToSet
<1>7. ASSUME NEW n \in NodeNums
      PROVE  /\ node[n].kind \in {"leaf", "index"}
             /\ node[n].height \in 0 .. MaxNode
             /\ \A i \in DOMAIN node[n].recs :
                   /\ node[n].recs[i].key \in Keys
                   /\ node[n].recs[i].child \in 0 .. MaxNode
             /\ node[n].FLink \in 0 .. MaxNode /\ node[n].BLink \in 0 .. MaxNode
  <2>1. node[n] \in Nodes
    BY <1>4
  <2>2. node[n].recs \in Seq(Recs)
    BY <2>1 DEF Nodes
  <2>3. \A i \in DOMAIN node[n].recs : node[n].recs[i] \in Recs
    BY <2>2
  <2>4. /\ node[n].kind \in {"leaf", "index"}
        /\ node[n].FLink \in 0 .. MaxNode /\ node[n].BLink \in 0 .. MaxNode
    BY <2>1 DEF Nodes
  <2> QED
    BY <2>3, <2>4, <1>3 DEF Recs
<1>8. DOMAIN node = NodeNums
  BY <1>4
<1> QED
  BY <1>4, <1>5, <1>6, <1>7, <1>8 DEF TypeOK

\* Every field of the header and of the nodes stays in range, at every step,
\* as long as no operation fails: no tree is deeper than the file has nodes.
THEOREM TypeCorrect == ~FromBelow => (Spec => [](~failed => TypeOK))
<1> DEFINE FB == failed \in BOOLEAN
<1>1. Init => FB
  BY DEF Init
<1>2. FB /\ [Next]_vars => FB'
  <2>1. ASSUME FB, Next PROVE FB'
    BY <2>1, FailedBoolean
  <2>2. ASSUME FB, UNCHANGED vars PROVE FB'
    BY <2>2 DEF vars
  <2> QED
    BY <2>1, <2>2
<1>3. Spec => []FB
  BY <1>1, <1>2, PTL DEF Spec
<1>4. IInv /\ FB => (~failed => TypeOK)
  BY TypesFollow
<1> HIDE DEF FB
<1> QED
  BY <1>3, <1>4, TreeKept, PTL

-----------------------------------------------------------------------------
(* What a failed insertion leaves behind.                                  *)

\* At every step of an operation the chain of leaves holds every key.
LEMMA ChainWhole ==
    ASSUME Kept
    PROVE  contents \subseteq ChainKeys
<1>1. CASE Bare
  BY <1>1 DEF Bare
<1>2. CASE Grown
  <2>1. Types /\ Stocked /\ Listed
    BY <1>2, GrownListed DEF Kept
  <2>2. firstLeaf \in At(1) /\ node[firstLeaf].BLink = 0 /\ firstLeaf \in used
    BY <1>2 DEF Grown, Ends, At
  <2>3. Tree.bl[firstLeaf] = 0 /\ Holds(Tree, contents) /\ Tree.us = used
    BY <2>1, <2>2, NodeFacts, ListedFacts
  <2>4. {k \in contents : Tree.lo[firstLeaf] <= k} = contents
    BY <2>2, <2>3 DEF Holds
  <2>5. Ranked(KeysAlong(ChainFrom(firstLeaf)), Keys, Self, {k \in contents : Tree.lo[firstLeaf] <= k})
    BY <2>1, <2>2, ChainRanked
  <2>6. Ranked(KeysAlong(ChainFrom(firstLeaf)), Keys, Self, contents)
    BY <2>4, <2>5, Zenon
  <2>7. InOrder(KeysAlong(ChainFrom(firstLeaf)), contents)
    BY <2>6, RankedInOrder
  <2> QED
    BY <2>7 DEF InOrder, ChainKeys
<1> QED
  BY <1>1, <1>2 DEF Kept

\* As long as no operation fails, the chain that readers walk holds every key
\* at every step, also between the split of a leaf and the index record that
\* leads to its new half, and whatever the sizes of records.
THEOREM ChainAlwaysWhole == ~FromBelow => (Spec => [](~failed => contents \subseteq ChainKeys))
<1>1. IInv => (~failed => contents \subseteq ChainKeys)
  BY ChainWhole DEF IInv
<1> QED
  BY <1>1, TreeKept, PTL

\* Records of one size, as those of the extents tree.
SameSizes == \A j, k \in Keys : LeafSize[j] = LeafSize[k] /\ IndexSize[j] = IndexSize[k]

\* Then no more records take no more bytes.
LEMMA FewerFit ==
    ASSUME SameSizes, NEW a, NEW b, Sized(a), Sized(b), a.kind = b.kind,
           Len(a.recs) <= Len(b.recs), recordsFit(b)
    PROVE  recordsFit(a)
<1> DEFINE M == Len(a.recs)
           N == Len(b.recs)
           A == BytesUpTo(a)
           B == BytesUpTo(b)
<1>1. M \in Nat /\ N \in Nat /\ M <= N
  BY DEF Sized
<1>2. /\ A \in [0 .. M -> Nat] /\ A[0] = 0
      /\ \A i \in 1 .. M : A[i] = A[i - 1] + RecSize(a.kind, a.recs[i])
  BY BytesStep
<1>3. /\ B \in [0 .. N -> Nat] /\ B[0] = 0
      /\ \A i \in 1 .. N : B[i] = B[i - 1] + RecSize(b.kind, b.recs[i])
  BY BytesStep
<1>4. ASSUME NEW i \in 1 .. M
      PROVE  RecSize(a.kind, a.recs[i]) = RecSize(b.kind, b.recs[i]) /\ RecSize(a.kind, a.recs[i]) \in Nat
  <2>1. i \in 1 .. N
    BY <1>1
  <2>2. a.recs[i] \in Recs /\ b.recs[i] \in Recs /\ a.kind \in {"leaf", "index"}
    BY <2>1 DEF Sized
  <2>3. a.recs[i].key \in Keys /\ b.recs[i].key \in Keys
    BY <2>2 DEF Recs
  <2>4. RecSize(a.kind, a.recs[i]) \in Nat
    BY <2>2, RecSizes
  <2>5. RecSize(a.kind, a.recs[i]) = RecSize(a.kind, b.recs[i])
    BY <2>3 DEF RecSize, SameSizes
  <2> QED
    BY <2>4, <2>5
<1>5. B[M] <= B[N] /\ B[N] <= NodeSize
  <2>1. M \in 0 .. N /\ N \in M .. N
    BY <1>1
  <2>2. B[M] <= B[N]
    BY <2>1, BytesGrow
  <2> QED
    BY <2>2 DEF recordsFit, usedBytes
<1> HIDE DEF M, N, A, B
<1> DEFINE S == {i \in 0 .. M : A[i] = B[i]}
<1>6. 0 .. M \subseteq S
  <2>1. 0 \in S
    BY <1>1, <1>2, <1>3
  <2>2. ASSUME NEW i \in 0 .. M, i \in S, i < M
        PROVE  i + 1 \in S
    <3>1. i + 1 \in 1 .. M /\ i + 1 \in 1 .. N /\ (i + 1) - 1 = i
      BY <1>1, <2>2
    <3>2. A[i + 1] = A[i] + RecSize(a.kind, a.recs[i + 1]) /\ B[i + 1] = B[i] + RecSize(b.kind, b.recs[i + 1])
      BY <3>1, <1>2, <1>3
    <3>3. RecSize(a.kind, a.recs[i + 1]) = RecSize(b.kind, b.recs[i + 1])
      BY <3>1, <1>4
    <3>4. A[i] = B[i]
      BY <2>2
    <3>5. A[i + 1] = B[i + 1]
      BY <3>2, <3>3, <3>4
    <3> QED
      BY <3>1, <3>5, <1>1, <2>2
  <2> HIDE DEF S
  <2> QED
    BY <1>1, <2>1, <2>2, Inducts
<1>7. A[M] = B[M] /\ A[M] \in Nat /\ B[N] \in Nat
  BY <1>1, <1>2, <1>3, <1>6
<1>8. A[M] <= NodeSize
  BY <1>5, <1>7, SizesAssumption
<1> QED
  BY <1>8 DEF recordsFit, usedBytes, A, M

\* The halves of a node with one record too many fit, and so does the follower.
LEMMA SplitFits ==
    ASSUME SameSizes, Types, Stocked, NEW n \in used, NEW en \in Nodes, NEW m,
           en.kind = node[n].kind, en.FLink = node[n].FLink,
           en.FLink # 0 => en.FLink \in used,
           Len(en.recs) = Len(node[n].recs) + 1
    PROVE  AllFit(SplitWrites(n, en, m))
<1> DEFINE c == Len(en.recs)
           d == c \div 2
           l == LeftOf(en, m)
           r == RightOf(en, n)
           f == [node[en.FLink] EXCEPT !.BLink = m]
           w == SplitWrites(n, en, m)
<1>1. /\ en.recs \in Seq(Recs) /\ c \in Nat /\ en.kind \in {"leaf", "index"}
  BY DEF Nodes
<1>2. Sized(node[n]) /\ recordsFit(node[n]) /\ Len(node[n].recs) \in Nat \ {0}
  BY NodeFacts
<1>3. c \in Nat /\ c > 1 /\ Len(node[n].recs) = c - 1
  <2>1. PICK z : z = Len(node[n].recs)
    OBVIOUS
  <2>2. z \in Nat \ {0} /\ c = z + 1
    BY <2>1, <1>2
  <2> HIDE DEF c
  <2>3. c > 1 /\ z = c - 1 /\ c \in Nat
    BY <2>2
  <2> QED
    BY <2>1, <2>3
<1>4. d \in Nat /\ d >= 1 /\ d <= c - 1 /\ c - d <= c - 1 /\ c - d \in Nat
  <2>1. \A z \in Nat : z > 1 => LET h == z \div 2
                               IN  h \in Nat /\ h >= 1 /\ h <= z - 1 /\ z - h <= z - 1 /\ z - h \in Nat
    OBVIOUS
  <2> QED
    BY <2>1, <1>3, Zenon
<1> HIDE DEF d
<1>5. /\ SubSeq(en.recs, 1, d) \in Seq(Recs) /\ Len(SubSeq(en.recs, 1, d)) = d
      /\ SubSeq(en.recs, d + 1, c) \in Seq(Recs) /\ Len(SubSeq(en.recs, d + 1, c)) = c - d
  <2>1. \A i \in 1 .. c : en.recs[i] \in Recs
    BY <1>1
  <2> HIDE DEF c
  <2>2. /\ \A i \in 1 .. d : en.recs[i] \in Recs
        /\ \A i \in d + 1 .. c : en.recs[i] \in Recs
    BY <2>1, <1>3, <1>4
  <2>3. /\ IF 1 <= d THEN d - 1 + 1 = d ELSE d = 0
        /\ IF d + 1 <= c THEN c - (d + 1) + 1 = c - d ELSE c - d = 0
    BY <1>3, <1>4
  <2> QED
    BY <2>2, <2>3, <1>3, <1>4, SubSeqProperties
<1>6. l.kind = en.kind /\ l.recs = SubSeq(en.recs, 1, d) /\ r.kind = en.kind /\ r.recs = SubSeq(en.recs, d + 1, c)
  BY DEF LeftOf, RightOf, Nodes, d
<1> HIDE DEF l, r
<1>7. Sized(l) /\ Sized(r)
  BY <1>1, <1>5, <1>6 DEF Sized
<1>8. recordsFit(l)
  BY <1>2, <1>3, <1>4, <1>5, <1>6, <1>7, FewerFit
<1>9. recordsFit(r)
  BY <1>2, <1>3, <1>4, <1>5, <1>6, <1>7, FewerFit
<1>10. CASE en.FLink = 0
  <2>1. w = <<>> \o <<<<n, l>>, <<m, r>>>>
    BY <1>10 DEF SplitWrites, LeftOf, RightOf, l, r
  <2>2. w = <<<<n, l>>, <<m, r>>>>
    <3> HIDE DEF w
    <3> QED
      BY <2>1
  <2> HIDE DEF w
  <2>3. DOMAIN w = {1, 2} /\ w[1][2] = l /\ w[2][2] = r
    BY <2>2
  <2>4. AllFit(w)
    BY <2>3, <1>8, <1>9 DEF AllFit
  <2> QED
    BY <2>4 DEF w
<1>11. CASE en.FLink # 0
  <2>1. en.FLink \in used
    BY <1>11
  <2>2. recordsFit(node[en.FLink]) /\ node[en.FLink] \in Nodes
    BY <2>1, NodeFacts
  <2>3. f.kind = node[en.FLink].kind /\ f.recs = node[en.FLink].recs
    BY <2>2 DEF Nodes
  <2> HIDE DEF f
  <2>4. recordsFit(f)
    BY <2>2, <2>3, SameBytes DEF recordsFit
  <2>5. w = <<<<en.FLink, f>>>> \o <<<<n, l>>, <<m, r>>>>
    BY <1>11 DEF SplitWrites, LeftOf, RightOf, l, r, f
  <2> HIDE DEF w
  <2>6. ASSUME NEW i \in DOMAIN w
        PROVE  w[i][2] \in {f, l, r}
    <3>1. PICK x, y : x = <<<<en.FLink, f>>>> /\ y = <<<<n, l>>, <<m, r>>>>
      OBVIOUS
    <3> DEFINE T == {<<en.FLink, f>>, <<n, l>>, <<m, r>>}
    <3>2. x \in Seq(T) /\ y \in Seq(T)
      BY <3>1
    <3>3. w = x \o y
      BY <3>1, <2>5
    <3> HIDE DEF T
    <3>4. w \in Seq(T)
      BY <3>2, <3>3
    <3>5. w[i] \in T
      BY <3>4
    <3> QED
      BY <3>5 DEF T
  <2>7. AllFit(w)
    BY <2>4, <2>6, <1>8, <1>9 DEF AllFit
  <2> QED
    BY <2>7 DEF w
<1> QED
  BY <1>10, <1>11

\* insert, with records of one size.
LEMMA InsertSucceeds ==
    ASSUME SameSizes, ~FromBelow, Kept, ~failed, NEW k \in Keys, InsertSplits(k)
    PROVE  ~failed'
<1> DEFINE n == HomeOf(k)
           en == WithRecord(k)
           m == NextNode
<1>1. /\ Resting
      /\ n \in used /\ en \in Nodes /\ en.kind = node[n].kind /\ en.FLink = node[n].FLink
      /\ Lists(en.recs, Tree.rs[n] \cup {LeafRec(k)}, Len(node[n].recs) + 1)
  BY InsertPlace DEF InsertSplits
<1>2. AllFit(SplitWrites(n, en, m)) => UNCHANGED failed
  BY DEF InsertSplits, HomeOf, WithRecord
<1> HIDE DEF n, en, m
<1>3. Types /\ Stocked /\ Linked(Tree) /\ Tree.us = used
  BY <1>1, RestingListed, ListedFacts
<1>4. en.FLink # 0 => en.FLink \in used
  <2>1. Tree.fl[n] = node[n].FLink
    BY <1>1, <1>3, NodeFacts
  <2> QED
    BY <2>1, <1>1, <1>3 DEF Linked, Peers
<1>5. Len(en.recs) = Len(node[n].recs) + 1
  BY <1>1 DEF Lists
<1>6. AllFit(SplitWrites(n, en, m))
  BY <1>1, <1>3, <1>4, <1>5, SplitFits
<1> QED
  BY <1>2, <1>6

\* propagateSplit.
LEMMA PropagateSucceeds ==
    ASSUME SameSizes, Kept, ~failed, PropagateSplits
    PROVE  ~failed'
<1> DEFINE n == path[level]
           en == WithSplit
           m == NextNode
<1>1. Types /\ Stocked /\ Grown /\ pc = "propagate"
  BY DEF Kept, Bare, PropagateSplits
<1>2. /\ n \in used /\ en \in Nodes /\ en.kind = node[n].kind /\ en.FLink = node[n].FLink
      /\ Lists(en.recs, ToSet(en.recs), Len(node[n].recs) + 1)
  BY <1>1, PropagatePlace DEF PropagateReady
<1>3. AllFit(SplitWrites(n, en, m)) => UNCHANGED failed
  BY DEF PropagateSplits
<1> HIDE DEF n, en, m
<1>4. Linked(Tree) /\ Tree.us = used
  BY <1>1, GrownListed, ListedFacts
<1>5. en.FLink # 0 => en.FLink \in used
  <2>1. Tree.fl[n] = node[n].FLink
    BY <1>1, <1>2, NodeFacts
  <2> QED
    BY <2>1, <1>2, <1>4 DEF Linked, Peers
<1>6. Len(en.recs) = Len(node[n].recs) + 1
  BY <1>2 DEF Lists
<1>7. AllFit(SplitWrites(n, en, m))
  BY <1>1, <1>2, <1>5, <1>6, SplitFits
<1> QED
  BY <1>3, <1>7

\* updateParentKey: a key takes the place of another.
LEMMA UpdateSucceeds ==
    ASSUME SameSizes, Kept, ~failed, UpdateParentKey
    PROVE  ~failed'
<1> DEFINE i == childIdx[level - 1]
           c == path[level]
           p == path[level - 1]
           e == [node[p] EXCEPT !.recs[i] = indexRecord(FirstKey(node[c]), c)]
<1>1. pc = "updateKey" /\ Types /\ Stocked
  BY DEF Kept, UpdateParentKey
<1>2. p \in used /\ e \in Nodes /\ e.kind = node[p].kind /\ Len(e.recs) = Len(node[p].recs)
  BY <1>1, RekeyPlace DEF RekeyReady
<1>3. recordsFit(e) => UNCHANGED failed
  BY DEF UpdateParentKey
<1> HIDE DEF e, p
<1>4. Sized(node[p]) /\ recordsFit(node[p]) /\ Len(node[p].recs) \in Nat
  BY <1>1, <1>2, NodeFacts
<1>5. Sized(e)
  BY <1>2 DEF Sized, Nodes
<1>6. Len(e.recs) <= Len(node[p].recs)
  BY <1>2, <1>4
<1>7. recordsFit(e)
  BY <1>2, <1>4, <1>5, <1>6, FewerFit
<1> QED
  BY <1>3, <1>7

\* merge, whatever the sizes: the parent loses a record.
LEMMA MergeSucceeds ==
    ASSUME Kept, ~failed, pc = "rebalance", NEW l, NEW r, NEW j,
           Beside(path[level - 1], l, r, j), combinedFits(node[l], node[r]), merge(l, r, j)
    PROVE  ~failed'
<1> DEFINE p == path[level - 1]
           parent == MergedParent(p, l, r, j)
<1>1. Types /\ Stocked /\ RebalanceReady
  BY RebalancePlace DEF Kept
<1>2. /\ level \in Nat /\ level > 1 /\ treeDepth \in Nat /\ level <= treeDepth
      /\ p \in used /\ node[p].height = treeDepth + 2 - level
      /\ Good(Tree, root, {}, {}) /\ Holds(Tree, contents)
  BY <1>1 DEF RebalanceReady
<1>3. node[p].height > 1
  BY <1>2
<1>4. IsMergedParent(p, l, r, j)
  BY <1>1, <1>2, <1>3, MergePlace
<1>5. recordsFit(parent)
  BY <1>4 DEF IsMergedParent, InShape
<1>6. recordsFit(parent) => (UNCHANGED failed \/ Return(TRUE))
  BY DEF merge, MergedLeft, MergedParent, Parent
<1> QED
  BY <1>5, <1>6 DEF Return

\* A rotation whose receiver has room: the donor shrinks and the parent keeps
\* the number of its records.
LEMMA RotateSucceeds ==
    ASSUME SameSizes, Kept, ~failed, pc = "rebalance", NEW l, NEW r, NEW j,
           Beside(path[level - 1], l, r, j), NEW a, NEW b, NEW k, Moved(l, r, a, b, k),
           recordsFit(a), recordsFit(b), Rotate(<<l, a>>, <<r, b>>, j + 1)
    PROVE  ~failed'
<1> DEFINE p == path[level - 1]
           parent == MovedParent(p, j, k, r)
           w == <<<<l, a>>, <<r, b>>, <<p, parent>>>>
<1>1. Types /\ Stocked /\ RebalanceReady
  BY RebalancePlace DEF Kept
<1>2. /\ level \in Nat /\ level > 1 /\ treeDepth \in Nat /\ level <= treeDepth
      /\ p \in used /\ node[p].height = treeDepth + 2 - level
      /\ Good(Tree, root, {}, {})
  BY <1>1 DEF RebalanceReady
<1>3. node[p].height > 1
  BY <1>2
<1>4. Return(AllFit(w))
  <2>1. b.recs[1].key = k
    BY DEF Moved
  <2>2. parent = [Parent EXCEPT !.recs[j + 1] = indexRecord(FirstKey(<<r, b>>[2]), <<r, b>>[1])]
    BY <2>1 DEF MovedParent, FirstKey, Parent
  <2> QED
    BY <2>2 DEF Rotate
<1> HIDE DEF p
<1>5. IsMovedParent(p, j, k, r)
  <2>1. Beside(p, l, r, j)
    BY DEF p
  <2> QED
    BY <2>1, <1>1, <1>2, <1>3, MovedParentIs
<1>6. parent \in Nodes /\ parent.kind = node[p].kind /\ Len(parent.recs) = Len(node[p].recs)
  BY <1>5 DEF IsMovedParent
<1> HIDE DEF parent
<1>7. Sized(node[p]) /\ recordsFit(node[p]) /\ Len(node[p].recs) \in Nat
  BY <1>1, <1>2, NodeFacts
<1>8. Sized(parent)
  BY <1>6 DEF Sized, Nodes
<1>9. Len(parent.recs) <= Len(node[p].recs)
  BY <1>6, <1>7
<1>10. recordsFit(parent)
  BY <1>6, <1>7, <1>8, <1>9, FewerFit
<1>11. AllFit(w)
  <2>1. DOMAIN w = 1 .. 3 /\ w[1][2] = a /\ w[2][2] = b /\ w[3][2] = parent
    OBVIOUS
  <2> HIDE DEF w
  <2> QED
    BY <2>1, <1>10 DEF AllFit
<1> HIDE DEF w
<1> QED
  BY <1>4, <1>11 DEF Return

\* A node that underflows has room for one more record, before or after its own.
LEMMA RoomForOne ==
    ASSUME NEW e, Sized(e), underflows(e), NEW x \in Recs, NEW g, g.kind = e.kind,
           g.recs = <<x>> \o e.recs \/ g.recs = e.recs \o <<x>>
    PROVE  recordsFit(g)
<1> DEFINE o == [kind |-> e.kind, recs |-> <<x>>]
<1>1. Sized(o) /\ o.kind = e.kind /\ o.recs = <<x>> /\ Len(o.recs) = 1
  BY DEF Sized
<1> HIDE DEF o
<1>2. usedBytes(o) \in Nat /\ usedBytes(o) < MinFill /\ MinFill \in Nat /\ NodeSize \in Nat
  <2>1. usedBytes(o) \in Nat /\ MinFill \in Nat /\ NodeSize \in Nat
    BY <1>1, FewRecords, Zenon
  <2>2. Len(o.recs) <= 1 => usedBytes(o) < MinFill
    BY <1>1, FewRecords, Zenon
  <2>3. Len(o.recs) <= 1
    <3>1. \A z : z = 1 => z <= 1
      OBVIOUS
    <3> QED
      BY <1>1, <3>1, Zenon
  <2> QED
    BY <2>1, <2>2, <2>3, Zenon
<1>3. usedBytes(e) \in Nat /\ usedBytes(e) < MinFill
  BY FewRecords DEF underflows
<1>4. 2 * MinFill <= NodeSize
  BY SizesAssumption
<1>5. usedBytes(g) = usedBytes(o) + usedBytes(e) \/ usedBytes(g) = usedBytes(e) + usedBytes(o)
  <2>1. CASE g.recs = <<x>> \o e.recs
    BY <2>1, <1>1, ConcatBytes
  <2>2. CASE g.recs = e.recs \o <<x>>
    <3>1. g.recs = e.recs \o o.recs
      BY <2>2, <1>1
    <3>2. Sized(g) /\ usedBytes(g) = usedBytes(e) + usedBytes(o)
      BY <3>1, <1>1, ConcatBytes, Zenon
    <3> QED
      BY <3>2
  <2> QED
    BY <2>1, <2>2
<1> QED
  BY <1>2, <1>3, <1>4, <1>5 DEF recordsFit

\* A donor fits without the record it gave.
LEMMA DonorFits ==
    ASSUME NEW e, Sized(e), recordsFit(e), Len(e.recs) > 0, NEW g, g.kind = e.kind,
           g.recs = Front(e.recs) \/ g.recs = Tail(e.recs)
    PROVE  recordsFit(g)
<1>1. e.recs \in Seq(Recs) /\ Len(e.recs) \in Nat
  BY DEF Sized
<1>2. Front(e.recs) = RemoveAt(e.recs, Len(e.recs)) /\ Tail(e.recs) = RemoveAt(e.recs, 1)
  BY <1>1, FrontTail
<1>3. 1 \in 1 .. Len(e.recs) /\ Len(e.recs) \in 1 .. Len(e.recs)
  BY <1>1
<1>4. Sized(g) /\ usedBytes(g) <= usedBytes(e)
  <2>1. PICK i \in 1 .. Len(e.recs) : g.recs = RemoveAt(e.recs, i)
    BY <1>2, <1>3
  <2> QED
    BY <2>1, RemoveBytes
<1>5. usedBytes(g) \in Nat /\ usedBytes(e) \in Nat /\ NodeSize \in Nat
  BY <1>4, FewRecords
<1> QED
  BY <1>4, <1>5 DEF recordsFit

\* rotateFromLeft.
LEMMA RotateFromLeftSucceeds ==
    ASSUME SameSizes, Kept, ~failed, rotateFromLeft
    PROVE  ~failed'
<1> DEFINE p == path[level - 1]
           l == LeftNum
           r == path[level]
           j == MyIdx - 1
           a == [node[l] EXCEPT !.recs = Front(@)]
           b == [node[r] EXCEPT !.recs = <<Last(node[l].recs)>> \o @]
           k == Last(node[l].recs).key
<1>1. /\ pc = "rebalance" /\ underflows(node[r]) /\ SparesLeft /\ ~MergesLeft
      /\ Rotate(<<l, a>>, <<r, b>>, MyIdx)
  BY DEF rotateFromLeft, Rebalancing, En
<1>2. Types /\ Stocked /\ RebalanceReady
  BY <1>1, RebalancePlace DEF Kept
<1>3. /\ p \in used /\ MyIdx \in 1 .. Len(node[p].recs) /\ node[p].recs[MyIdx].child = r
      /\ Good(Tree, root, {}, {}) /\ r \in used
      /\ level \in Nat /\ level > 1 /\ treeDepth \in Nat /\ level <= treeDepth
      /\ node[p].height = treeDepth + 2 - level
  BY <1>2 DEF RebalanceReady
<1>4. MyIdx > 1 /\ ~combinedFits(node[l], node[r])
  BY <1>1 DEF MergesLeft, SparesLeft, HasLeft, En
<1>5. Len(node[p].recs) \in Nat /\ node[p].height > 1
  BY <1>2, <1>3, NodeFacts
<1>6. j \in 1 .. Len(node[p].recs) - 1 /\ j + 1 = MyIdx
  BY <1>3, <1>4, <1>5
<1>7. Beside(p, l, r, j)
  BY <1>3, <1>6 DEF Beside, LeftNum, Parent
<1> HIDE DEF l, p, r, j
<1>8. IsBeside(p, l, r, j)
  BY <1>2, <1>3, <1>5, <1>7, BesideFacts
<1>9. l \in used
  BY <1>8 DEF IsBeside
<1>10. /\ Sized(node[l]) /\ Sized(node[r]) /\ recordsFit(node[l]) /\ node[l] \in Nodes /\ node[r] \in Nodes
       /\ node[r].kind = node[l].kind
  BY <1>2, <1>3, <1>8, <1>9, NodeFacts DEF IsBeside
<1>11. Len(node[l].recs) > 2 /\ Len(node[l].recs) \in Nat
  <2>1. usedBytes(node[l]) \in Nat /\ usedBytes(node[r]) \in Nat /\ NodeSize \in Nat
    BY <1>10, FewRecords
  <2>2. usedBytes(node[l]) + usedBytes(node[r]) > NodeSize
    BY <2>1, <1>4 DEF combinedFits
  <2> QED
    BY <2>2, <1>1, <1>10, DonorHas
<1>12. Moved(l, r, a, b, k)
  BY <1>2, <1>8, <1>11, MovedFromLeft
<1>13. Last(node[l].recs) \in Recs
  <2>1. Len(node[l].recs) \in 1 .. Len(node[l].recs) /\ node[l].recs \in Seq(Recs)
    BY <1>10, <1>11 DEF Sized
  <2> QED
    BY <2>1 DEF Last
<1>14. /\ a.kind = node[l].kind /\ a.recs = Front(node[l].recs)
       /\ b.kind = node[r].kind /\ b.recs = <<Last(node[l].recs)>> \o node[r].recs
  BY <1>10 DEF Nodes
<1> HIDE DEF a, b, k
<1>15. recordsFit(a)
  <2>1. Len(node[l].recs) > 0
    BY <1>11
  <2> QED
    BY <2>1, <1>10, <1>14, DonorFits
<1>16. recordsFit(b)
  BY <1>1, <1>10, <1>13, <1>14, RoomForOne
<1>17. Beside(path[level - 1], l, r, j) /\ Rotate(<<l, a>>, <<r, b>>, j + 1)
  BY <1>1, <1>6, <1>7 DEF p
<1> QED
  BY <1>1, <1>12, <1>15, <1>16, <1>17, RotateSucceeds

\* rotateFromRight: canSpare looks at the wrong record, and there is room all
\* the same.
LEMMA RotateFromRightSucceeds ==
    ASSUME SameSizes, Kept, ~failed, rotateFromRight
    PROVE  ~failed'
<1> DEFINE p == path[level - 1]
           l == path[level]
           r == RightNum
           j == MyIdx
           a == [node[l] EXCEPT !.recs = Append(@, Head(node[r].recs))]
           b == [node[r] EXCEPT !.recs = Tail(@)]
           k == node[r].recs[2].key
<1>1. /\ pc = "rebalance" /\ underflows(node[l]) /\ SparesRight /\ ~MergesRight
      /\ Rotate(<<l, a>>, <<r, b>>, MyIdx + 1)
  BY DEF rotateFromRight, Rebalancing, En
<1>2. Types /\ Stocked /\ RebalanceReady
  BY <1>1, RebalancePlace DEF Kept
<1>3. /\ p \in used /\ MyIdx \in 1 .. Len(node[p].recs) /\ node[p].recs[MyIdx].child = l
      /\ Good(Tree, root, {}, {}) /\ l \in used
      /\ level \in Nat /\ level > 1 /\ treeDepth \in Nat /\ level <= treeDepth
      /\ node[p].height = treeDepth + 2 - level
  BY <1>2 DEF RebalanceReady
<1>4. MyIdx < Len(node[p].recs) /\ ~combinedFits(node[l], node[r])
  BY <1>1 DEF MergesRight, SparesRight, HasRight, En, Parent
<1>5. Len(node[p].recs) \in Nat /\ node[p].height > 1
  BY <1>2, <1>3, NodeFacts
<1>6. j \in 1 .. Len(node[p].recs) - 1
  BY <1>3, <1>4, <1>5
<1>7. Beside(p, l, r, j)
  BY <1>3, <1>6 DEF Beside, RightNum, Parent
<1> HIDE DEF l, p, r, j
<1>8. IsBeside(p, l, r, j)
  BY <1>2, <1>3, <1>5, <1>7, BesideFacts
<1>9. r \in used
  BY <1>8 DEF IsBeside
<1>10. /\ Sized(node[l]) /\ Sized(node[r]) /\ recordsFit(node[r]) /\ node[l] \in Nodes /\ node[r] \in Nodes
       /\ node[r].kind = node[l].kind
  BY <1>2, <1>3, <1>8, <1>9, NodeFacts DEF IsBeside
<1>11. Len(node[r].recs) > 2 /\ Len(node[r].recs) \in Nat
  <2>1. usedBytes(node[l]) \in Nat /\ usedBytes(node[r]) \in Nat /\ NodeSize \in Nat
    BY <1>10, FewRecords
  <2>2. usedBytes(node[r]) + usedBytes(node[l]) > NodeSize
    BY <2>1, <1>4 DEF combinedFits
  <2> QED
    BY <2>2, <1>1, <1>10, DonorHas
<1>12. Moved(l, r, a, b, k)
  BY <1>2, <1>8, <1>11, MovedFromRight
<1>13. Head(node[r].recs) \in Recs /\ node[l].recs \in Seq(Recs)
  <2>1. 1 \in 1 .. Len(node[r].recs) /\ node[r].recs \in Seq(Recs) /\ node[l].recs \in Seq(Recs)
    BY <1>10, <1>11 DEF Sized
  <2>2. Head(node[r].recs) = node[r].recs[1]
    BY <2>1, <1>11, FrontTail
  <2> QED
    BY <2>1, <2>2
<1>14. /\ a.kind = node[l].kind /\ a.recs = node[l].recs \o <<Head(node[r].recs)>>
       /\ b.kind = node[r].kind /\ b.recs = Tail(node[r].recs)
  <2>1. Append(node[l].recs, Head(node[r].recs)) = node[l].recs \o <<Head(node[r].recs)>>
    BY <1>13, AppendIsConcat
  <2>2. a.kind = node[l].kind /\ a.recs = Append(node[l].recs, Head(node[r].recs))
    BY <1>10 DEF Nodes
  <2>3. b.kind = node[r].kind /\ b.recs = Tail(node[r].recs)
    BY <1>10 DEF Nodes
  <2> HIDE DEF a, b
  <2> QED
    BY <2>1, <2>2, <2>3
<1> HIDE DEF a, b, k
<1>15. recordsFit(b)
  <2>1. Len(node[r].recs) > 0
    BY <1>11
  <2> QED
    BY <2>1, <1>10, <1>14, DonorFits
<1>16. recordsFit(a)
  BY <1>1, <1>10, <1>13, <1>14, RoomForOne
<1>17. Beside(path[level - 1], l, r, j) /\ Rotate(<<l, a>>, <<r, b>>, j + 1)
  BY <1>1, <1>7 DEF p, j
<1> QED
  BY <1>1, <1>12, <1>15, <1>16, <1>17, RotateSucceeds

\* Merging with a neighbour.
LEMMA MergesSucceed ==
    ASSUME Kept, ~failed, MergeLeft \/ MergeRight
    PROVE  ~failed'
<1> DEFINE p == path[level - 1]
<1>1. pc = "rebalance"
  BY DEF MergeLeft, MergeRight, Rebalancing
<1>2. Types /\ Stocked /\ RebalanceReady
  BY <1>1, RebalancePlace DEF Kept
<1>3. p \in used /\ MyIdx \in 1 .. Len(node[p].recs) /\ node[p].recs[MyIdx].child = path[level]
  BY <1>2 DEF RebalanceReady
<1>4. Len(node[p].recs) \in Nat
  BY <1>2, <1>3, NodeFacts
<1>5. CASE MergeLeft
  <2> DEFINE j == MyIdx - 1
  <2>1. MyIdx > 1 /\ combinedFits(node[LeftNum], node[path[level]]) /\ merge(LeftNum, path[level], j)
    BY <1>5 DEF MergeLeft, MergesLeft, HasLeft, En
  <2>2. j \in 1 .. Len(node[p].recs) - 1 /\ j + 1 = MyIdx
    BY <2>1, <1>3, <1>4
  <2>3. Beside(p, LeftNum, path[level], j)
    BY <2>2, <1>3 DEF Beside, LeftNum, Parent
  <2> HIDE DEF j
  <2> QED
    BY <2>1, <2>3, <1>1, MergeSucceeds
<1>6. CASE MergeRight
  <2>1. /\ MyIdx < Len(node[p].recs) /\ combinedFits(node[path[level]], node[RightNum])
        /\ merge(path[level], RightNum, MyIdx)
    BY <1>6 DEF MergeRight, MergesRight, HasRight, En, Parent
  <2>2. MyIdx \in 1 .. Len(node[p].recs) - 1
    BY <2>1, <1>3, <1>4
  <2>3. Beside(p, path[level], RightNum, MyIdx)
    BY <2>2, <1>3 DEF Beside, RightNum, Parent
  <2> QED
    BY <2>1, <2>3, <1>1, MergeSucceeds
<1> QED
  BY <1>5, <1>6

\* With records of one size nothing fails but an insertion without a free node.
LEMMA FailsForSpace ==
    ASSUME SameSizes, ~FromBelow, Kept, ~failed, Next, failed'
    PROVE  SplitNoSpace /\ pool' = pool
<1>1. \A ok : Return(ok) => (failed' => ~ok)
  BY DEF Return
<1>2. ASSUME NEW k \in Keys, Insert(k) PROVE FALSE
  <2>1. CASE InsertEmpty(k)
    BY <2>1, <1>1 DEF InsertEmpty
  <2>2. CASE InsertFits(k)
    BY <2>2, <1>1 DEF InsertFits
  <2>3. CASE InsertSplits(k)
    BY <2>3, InsertSucceeds
  <2> QED
    BY <2>1, <2>2, <2>3, <1>2 DEF Insert
<1>3. ASSUME NEW k \in Keys, Delete(k) PROVE FALSE
  <2>1. CASE DeleteMissed(k)
    BY <2>1 DEF DeleteMissed
  <2>2. CASE DeleteInRoot(k)
    BY <2>2, <1>1 DEF DeleteInRoot
  <2>3. CASE DeleteInLeaf(k)
    BY <2>3 DEF DeleteInLeaf
  <2> QED
    BY <2>1, <2>2, <2>3, <1>3 DEF Delete
<1>4. ASSUME Continue PROVE SplitNoSpace /\ pool' = pool
  <2>1. CASE SplitNoSpace
    BY <2>1, <1>4 DEF Continue
  <2>2. CASE PropagateFits \/ GrowRoot \/ RebalanceNone
    BY <2>2, <1>1 DEF PropagateFits, GrowRoot, RebalanceNone
  <2>3. CASE PropagateSplits
    BY <2>3, PropagateSucceeds
  <2>4. CASE UpdateParentKey
    BY <2>4, UpdateSucceeds
  <2>5. CASE MergeLeft \/ MergeRight
    BY <2>5, MergesSucceed
  <2>6. CASE rotateFromLeft
    BY <2>6, RotateFromLeftSucceeds
  <2>7. CASE rotateFromRight
    BY <2>7, RotateFromRightSucceeds
  <2>8. CASE ShrinkRoot
    BY <2>8, <1>1 DEF ShrinkRoot, locals
  <2> QED
    BY <2>1, <2>2, <2>3, <2>4, <2>5, <2>6, <2>7, <2>8, <1>4 DEF Continue
<1> QED
  BY <1>2, <1>3, <1>4 DEF Next

\* After a failure nothing more happens, and every key is still in the chain.
Halted == failed => pc = "idle" /\ TypeOK /\ contents \subseteq ChainKeys

\* The chain depends on the nodes and on firstLeaf only.
LEMMA SameChain ==
    ASSUME node' = node, firstLeaf' = firstLeaf
    PROVE  ChainKeys' = ChainKeys
BY DEF ChainKeys, KeysAlong, ChainFrom

\* Neither do the types depend on more than the variables.
LEMMA SameTypes ==
    ASSUME TypeOK, UNCHANGED <<pool, node, used, header, contents>>,
           pc' = "idle", path' = <<>>, failed' \in BOOLEAN
    PROVE  TypeOK'
<1>1. /\ pool' = pool /\ node' = node /\ used' = used /\ contents' = contents
      /\ root' = root /\ firstLeaf' = firstLeaf /\ lastLeaf' = lastLeaf
      /\ treeDepth' = treeDepth /\ leafRecords' = leafRecords
  BY DEF header
<1>2. ToSet(path') = {}
  BY DEF ToSet
<1> QED
  BY <1>1, <1>2 DEF TypeOK

\* A failed tree takes no step when clients stop at the error.
LEMMA NoStepAfterFailure ==
    ASSUME ~AfterFailure, failed, pc = "idle"
    PROVE  ~Next
<1>1. ASSUME NEW k \in Keys PROVE ~Insert(k)
  BY DEF Insert, InsertEmpty, InsertFits, InsertSplits, Begin
<1>2. ASSUME NEW k \in Keys PROVE ~Delete(k)
  BY DEF Delete, DeleteMissed, DeleteInRoot, DeleteInLeaf, BeginDelete
<1>3. ~Continue
  BY DEF Continue, PropagateFits, PropagateSplits, GrowRoot, SplitNoSpace, UpdateParentKey,
         RebalanceNone, MergeLeft, MergeRight, rotateFromLeft, rotateFromRight, Rebalancing,
         ShrinkRoot
<1> QED
  BY <1>1, <1>2, <1>3 DEF Next

\* The only error is a split that finds no node for the level above, which
\* writes nothing.
LEMMA HaltedKept ==
    ASSUME SameSizes, ~FromBelow, ~AfterFailure, IInv, failed \in BOOLEAN, Halted, [Next]_vars
    PROVE  Halted'
<1> SUFFICES ASSUME failed' PROVE pc' = "idle" /\ TypeOK' /\ contents' \subseteq ChainKeys'
  BY DEF Halted
<1>1. CASE UNCHANGED vars
  <2>1. failed /\ pc = "idle" /\ TypeOK /\ contents \subseteq ChainKeys
    BY <1>1 DEF Halted, vars
  <2>2. ChainKeys' = ChainKeys /\ contents' = contents /\ pc' = pc
    BY <1>1, SameChain DEF vars, header
  <2>3. TypeOK'
    BY <2>1, <1>1 DEF TypeOK, vars, header, locals
  <2> QED
    BY <2>1, <2>2, <2>3
<1>2. CASE Next
  <2>1. ~failed
    BY <1>2, NoStepAfterFailure DEF Halted
  <2>2. Kept
    BY <2>1 DEF IInv
  <2>3. SplitNoSpace /\ pool' = pool
    BY <1>2, <2>1, <2>2, FailsForSpace
  <2>4. UNCHANGED <<pool, node, used, header, contents>> /\ pc' = "idle" /\ path' = <<>>
    BY <2>3 DEF SplitNoSpace, Return, NoLocals
  <2>5. failed' \in BOOLEAN
    BY <1>2, FailedBoolean
  <2>6. TypeOK /\ contents \subseteq ChainKeys
    BY <2>1, <2>2, TypesFollow, ChainWhole
  <2>7. TypeOK'
    BY <2>4, <2>5, <2>6, SameTypes
  <2>8. ChainKeys' = ChainKeys /\ contents' = contents
    BY <2>4, SameChain DEF header
  <2> QED
    BY <2>4, <2>6, <2>7, <2>8
<1> QED
  BY <1>1, <1>2

\* What holds of every state when records have one size.
LEMMA AlwaysHalted ==
    SameSizes /\ ~FromBelow /\ ~AfterFailure => (Spec => [](IInv /\ failed \in BOOLEAN /\ Halted))
<1> SUFFICES ASSUME SameSizes, ~FromBelow, ~AfterFailure
             PROVE  Spec => [](IInv /\ failed \in BOOLEAN /\ Halted)
  OBVIOUS
<1> DEFINE FB == failed \in BOOLEAN
<1>1. Init => FB /\ Halted
  BY DEF Init, Halted
<1>2. FB /\ [Next]_vars => FB'
  <2>1. ASSUME FB, Next PROVE FB'
    BY <2>1, FailedBoolean
  <2>2. ASSUME FB, UNCHANGED vars PROVE FB'
    BY <2>2 DEF vars
  <2> QED
    BY <2>1, <2>2
<1>3. IInv /\ FB /\ Halted /\ [Next]_vars => Halted'
  BY HaltedKept
<1>4. Spec => []IInv
  BY TreeKept
<1> HIDE DEF FB
<1>5. Spec => [](IInv /\ FB /\ Halted)
  BY <1>1, <1>2, <1>3, <1>4, PTL DEF Spec
<1> QED
  BY <1>5 DEF FB

\* btops.go, btdelete.go: no operation takes another record out of the chain
\* of leaves, not even an insertion that fails half-way; for records of one
\* size and clients that stop at the first error.
THEOREM NoRecordEverLost ==
    SameSizes /\ ~FromBelow /\ ~AfterFailure => (Spec => []NoRecordLost)
<1> SUFFICES ASSUME SameSizes, ~FromBelow, ~AfterFailure PROVE Spec => []NoRecordLost
  OBVIOUS
<1>1. IInv /\ failed \in BOOLEAN /\ Halted => NoRecordLost
  BY ChainWhole DEF IInv, Halted, NoRecordLost
<1>2. Spec => [](IInv /\ failed \in BOOLEAN /\ Halted)
  BY AlwaysHalted
<1> QED
  BY <1>1, <1>2, PTL

\* Every field of the header and of the nodes stays in range, also after an
\* error, under the same hypotheses.
THEOREM AlwaysTypeCorrect ==
    SameSizes /\ ~FromBelow /\ ~AfterFailure => (Spec => []TypeOK)
<1> SUFFICES ASSUME SameSizes, ~FromBelow, ~AfterFailure PROVE Spec => []TypeOK
  OBVIOUS
<1>1. IInv /\ failed \in BOOLEAN /\ Halted => TypeOK
  BY TypesFollow DEF Halted
<1>2. Spec => [](IInv /\ failed \in BOOLEAN /\ Halted)
  BY AlwaysHalted
<1> QED
  BY <1>1, <1>2, PTL
=============================================================================
