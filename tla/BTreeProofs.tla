----------------------------- MODULE BTreeProofs -----------------------------
(***************************************************************************)
(* The B-tree engine keeps its tree, for every set of keys, every size of  *)
(* nodes and every pool: the order of keys, the separators, the links and  *)
(* the nodes in use, at every step of every insertion and deletion.        *)
(***************************************************************************)
EXTENDS BTree, FiniteSetTheorems, SequenceTheorems, WellFoundedInduction, TLAPS

-----------------------------------------------------------------------------
(* A tree, seen level by level: the nodes in use, and of each its height,  *)
(* its records, its first key and its neighbours.                          *)

Recs == [key : Keys, child : 0 .. MaxNode]

View(nd, us) ==
    [us |-> us,
     ht |-> [n \in NodeNums |-> nd[n].height],
     rs |-> [n \in NodeNums |-> ToSet(nd[n].recs)],
     lo |-> [n \in NodeNums |-> IF nd[n].recs = <<>> THEN 0 ELSE FirstKey(nd[n])],
     fl |-> [n \in NodeNums |-> nd[n].FLink],
     bl |-> [n \in NodeNums |-> nd[n].BLink]]

Tree == View(node, used)

TreeType(t) ==
    /\ t.us \in SUBSET NodeNums
    /\ t.ht \in [NodeNums -> Nat]
    /\ t.rs \in [NodeNums -> SUBSET Recs]
    /\ t.lo \in [NodeNums -> Nat]
    /\ t.fl \in [NodeNums -> 0 .. MaxNode]
    /\ t.bl \in [NodeNums -> 0 .. MaxNode]

\* The other nodes on the level of n.
Peers(t, n) == {x \in t.us : t.ht[x] = t.ht[n] /\ x # n}

\* A node in use has records, one per key, and knows its first key.
Filled(t) ==
    \A n \in t.us :
        /\ t.ht[n] > 0
        /\ \E r \in t.rs[n] : r.key = t.lo[n]
        /\ \A r \in t.rs[n] : t.lo[n] <= r.key
        /\ \A r, s \in t.rs[n] : r.key = s.key => r = s

\* The nodes of a level divide the keys among them.
Apart(t) ==
    \A n \in t.us : \A x \in Peers(t, n) :
        /\ t.lo[n] # t.lo[x]
        /\ t.lo[n] < t.lo[x] => \A r \in t.rs[n] : r.key < t.lo[x]

\* The links of a node are its neighbours in key order.
Linked(t) ==
    \A n \in t.us :
        /\ t.fl[n] = 0 => \A x \in Peers(t, n) : t.lo[x] < t.lo[n]
        /\ t.fl[n] # 0 =>
              /\ t.fl[n] \in Peers(t, n)
              /\ t.lo[n] < t.lo[t.fl[n]]
              /\ \A x \in Peers(t, n) : t.lo[n] < t.lo[x] => t.lo[t.fl[n]] <= t.lo[x]
        /\ t.bl[n] = 0 => \A x \in Peers(t, n) : t.lo[n] < t.lo[x]
        /\ t.bl[n] # 0 => t.bl[n] \in t.us /\ t.fl[t.bl[n]] = n

\* An index record leads to a node one level down.  Its key is the first one
\* there, but for a node whose key is being updated: no other node begins
\* between the two.
Indexed(t, stale) ==
    \A n \in t.us : t.ht[n] > 1 => \A r \in t.rs[n] :
        /\ r.child \in t.us
        /\ t.ht[n] = t.ht[r.child] + 1
        /\ r.child \notin stale => r.key = t.lo[r.child]
        /\ r.child \in stale =>
              /\ r.key < t.lo[r.child]
              /\ \A x \in Peers(t, r.child) : t.lo[x] < r.key \/ t.lo[r.child] < t.lo[x]
              /\ \A p \in t.us : t.ht[p] > 1 =>
                    \A s \in t.rs[p] : s.child = r.child => p = n /\ s = r

\* Every node but the root has an index record, and so has no orphan.
Owned(t, top, orphans) ==
    /\ \A n \in t.us \ ({top} \cup orphans) :
          \E p \in t.us : t.ht[p] > 1 /\ \E r \in t.rs[p] : r.child = n
    /\ \A p \in t.us : t.ht[p] > 1 =>
          \A r \in t.rs[p] : r.child \notin ({top} \cup orphans)

\* The root is alone on the highest level.
Topped(t, top, orphans) ==
    /\ top \in t.us
    /\ \A n \in t.us : t.ht[n] <= t.ht[top]
    /\ \A n \in t.us : t.ht[n] = t.ht[top] => n \in {top} \cup orphans

Good(t, top, orphans, stale) ==
    /\ TreeType(t)
    /\ Filled(t)
    /\ Apart(t)
    /\ Linked(t)
    /\ Indexed(t, stale)
    /\ Owned(t, top, orphans)
    /\ Topped(t, top, orphans)

\* The leaves hold the keys S, and no node begins after all of them.
Holds(t, S) ==
    /\ \A k \in S : \E n \in t.us : t.ht[n] = 1 /\ \E r \in t.rs[n] : r.key = k
    /\ \A n \in t.us : t.ht[n] = 1 => \A r \in t.rs[n] : r.key \in S
    /\ \A n \in t.us : t.bl[n] = 0 => \A k \in S : t.lo[n] <= k

-----------------------------------------------------------------------------
(* The invariant.                                                          *)

Nodes == [kind : {"leaf", "index"}, height : Nat, recs : Seq(Recs),
          FLink : 0 .. MaxNode, BLink : 0 .. MaxNode]

Types ==
    /\ pool \in Pools
    /\ node \in [NodeNums -> Nodes]
    /\ used \in SUBSET (1 .. pool)
    /\ {root, firstLeaf, lastLeaf} \subseteq 0 .. MaxNode
    /\ treeDepth \in Nat
    /\ contents \in SUBSET Keys
    /\ IsFiniteSet(contents)
    /\ leafRecords = Cardinality(contents)
    /\ pc \in {"idle", "propagate", "growRoot", "updateKey", "rebalance", "shrink"}
    /\ path \in Seq(NodeNums)
    /\ childIdx \in Seq(Nat)
    /\ level \in Nat

\* What is in the nodes one by one.
Stocked ==
    /\ \A n \in NodeNums \ used : node[n] = Erased
    /\ \A n \in used : /\ recordsFit(node[n])
                       /\ Ascending(node[n].recs)
                       /\ node[n].recs # <<>>
                       /\ node[n].kind = IF node[n].height = 1 THEN "leaf" ELSE "index"

\* The node whose index record is missing, or has the wrong key, and the one
\* that may have a single record.
Splitting == pc \in {"propagate", "growRoot"}
Orphans == IF Splitting THEN {splitChild} ELSE {}
Stale == IF pc = "updateKey" THEN {path[level]} ELSE {}
Thin == CASE pc = "updateKey" -> {path[Len(path)]}
          [] pc = "rebalance" -> {path[level]}
          [] pc = "shrink" -> {root}
          [] OTHER -> {}

Wide == \A n \in used \ Thin : Len(node[n].recs) > 1 \/ (n = root /\ treeDepth = 1)

Ends ==
    /\ firstLeaf \in used /\ node[firstLeaf].height = 1 /\ node[firstLeaf].BLink = 0
    /\ lastLeaf \in used /\ node[lastLeaf].height = 1 /\ node[lastLeaf].FLink = 0

\* path leads down from the root: as far as an insertion still has to climb,
\* and with the positions a deletion remembers.
Climbs(l) ==
    /\ path # <<>> /\ path[1] = root
    /\ l < Len(path)
    /\ \A i \in 1 .. l :
          /\ path[i] \in used /\ path[i + 1] \in used
          /\ node[path[i]].height = treeDepth + 1 - i
          /\ \E r \in ToSet(node[path[i]].recs) : r.child = path[i + 1]

Remembers(l) ==
    /\ l > 0 /\ l < Len(path) /\ Len(path) = treeDepth
    /\ Len(childIdx) = Len(path) - 1
    /\ path[1] = root
    /\ \A i \in 1 .. l :
          /\ path[i] \in used /\ path[i + 1] \in used
          /\ node[path[i]].height = treeDepth + 1 - i
          /\ childIdx[i] \in DOMAIN node[path[i]].recs
          /\ node[path[i]].recs[childIdx[i]].child = path[i + 1]

Placed ==
    /\ Splitting =>
          /\ Climbs(level)
          /\ (level = 0) = (pc = "growRoot")
          /\ splitChild \in used
          /\ node[splitChild].height = treeDepth - level
          /\ node[path[level + 1]].height = treeDepth - level
          /\ path[level + 1] \in used
          /\ splitKey = FirstKey(node[splitChild])
          /\ node[path[level + 1]].FLink = splitChild
          /\ Len(node[path[level + 1]].recs) > 1
    /\ pc = "updateKey" => Remembers(Len(path) - 1) /\ level \in 2 .. Len(path)
    /\ pc = "rebalance" => Remembers(level - 1)

Bare ==
    /\ used = {} /\ contents = {}
    /\ root = 0 /\ firstLeaf = 0 /\ lastLeaf = 0 /\ treeDepth = 0
    /\ pc = "idle"

Grown ==
    /\ root \in used
    /\ treeDepth = node[root].height
    /\ Good(Tree, root, Orphans, Stale)
    /\ Holds(Tree, contents)
    /\ Wide
    /\ Ends
    /\ Placed

Kept == Types /\ Stocked /\ (Bare \/ Grown)

\* As long as no operation fails.
IInv == ~failed => Kept

-----------------------------------------------------------------------------
(* What single edits do to a tree.                                         *)

\* Heights, keys and links are numbers.
LEMMA TreeNumbers ==
    ASSUME NEW t, TreeType(t)
    PROVE  /\ t.us \subseteq NodeNums
           /\ 0 \notin t.us
           /\ \A x \in t.us : /\ t.lo[x] \in Nat /\ t.ht[x] \in Nat
                             /\ t.fl[x] \in 0 .. MaxNode /\ t.bl[x] \in 0 .. MaxNode
                             /\ t.rs[x] \subseteq Recs
           /\ \A x \in t.us : \A r \in t.rs[x] : r.key \in Nat /\ r.key \in Keys
<1>1. \A r \in Recs : r.key \in Keys /\ r.key \in Nat
  BY KeysAssumption DEF Recs
<1>2. t.us \subseteq NodeNums /\ 0 \notin t.us
  BY DEF TreeType, NodeNums
<1> QED
  BY <1>1, <1>2 DEF TreeType

\* Everything but the records is as it was.
SameShape(t, u) ==
    /\ u.us = t.us /\ u.ht = t.ht /\ u.lo = t.lo /\ u.fl = t.fl /\ u.bl = t.bl
    /\ u.rs \in [NodeNums -> SUBSET Recs]

\* What depends on neither records nor index keys carries over.
LEMMA SameShapeFacts ==
    ASSUME NEW t, NEW u, SameShape(t, u), TreeType(t)
    PROVE  /\ TreeType(u)
           /\ \A n : Peers(u, n) = Peers(t, n)
           /\ Linked(t) => Linked(u)
           /\ \A top, o : Topped(t, top, o) => Topped(u, top, o)
<1>1. TreeType(u)
  BY DEF SameShape, TreeType
<1>2. \A n : Peers(u, n) = Peers(t, n)
  BY DEF SameShape, Peers
<1>3. Linked(t) => Linked(u)
  BY <1>2 DEF SameShape, Linked
<1>4. \A top, o : Topped(t, top, o) => Topped(u, top, o)
  BY DEF SameShape, Topped
<1> QED
  BY <1>1, <1>2, <1>3, <1>4

\* A record comes to node n, not as its first, and before the next node's.
Comes(t, u, n, r) ==
    /\ SameShape(t, u)
    /\ n \in t.us /\ r \in Recs
    /\ u.rs = [t.rs EXCEPT ![n] = @ \cup {r}]
    /\ t.lo[n] < r.key
    /\ \A s \in t.rs[n] : s.key # r.key
    /\ \A x \in Peers(t, n) : t.lo[n] < t.lo[x] => r.key < t.lo[x]

\* A record that comes into a node leaves every node filled and distinct.
LEMMA ComesFacts ==
    ASSUME NEW t, NEW u, NEW n, NEW r, Comes(t, u, n, r),
           TreeType(t), Filled(t), Apart(t)
    PROVE  /\ Filled(u) /\ Apart(u)
           /\ n \in NodeNums
           /\ u.rs[n] = t.rs[n] \cup {r}
           /\ \A m \in NodeNums : m # n => u.rs[m] = t.rs[m]
<1>1. n \in NodeNums /\ u.rs[n] = t.rs[n] \cup {r}
  BY DEF Comes, TreeType
<1>2. \A m \in NodeNums : m # n => u.rs[m] = t.rs[m]
  BY DEF Comes, TreeType
<1>3. t.lo \in [NodeNums -> Nat] /\ t.us \subseteq NodeNums /\ r.key \in Nat
  BY KeysAssumption DEF TreeType, Comes, Recs
<1>4. Filled(u)
  <2> SUFFICES ASSUME NEW m \in u.us
               PROVE  /\ u.ht[m] > 0
                      /\ \E s \in u.rs[m] : s.key = u.lo[m]
                      /\ \A s \in u.rs[m] : u.lo[m] <= s.key
                      /\ \A a, b \in u.rs[m] : a.key = b.key => a = b
    BY DEF Filled
  <2>1. m \in t.us /\ u.lo = t.lo /\ u.ht = t.ht
    BY DEF Comes, SameShape
  <2>2. CASE m = n
    BY <2>1, <2>2, <1>1, <1>3 DEF Filled, Comes
  <2>3. CASE m # n
    BY <2>1, <2>3, <1>2, <1>3 DEF Filled
  <2> QED
    BY <2>2, <2>3
<1>5. Apart(u)
  BY <1>1, <1>2, <1>3, SameShapeFacts DEF Apart, Comes, SameShape
<1> QED
  BY <1>1, <1>2, <1>4, <1>5

\* insertIntoLeaf with room.
LEMMA LeafComes ==
    ASSUME NEW t, NEW u, NEW top, NEW n, NEW r, Good(t, top, {}, {}), Comes(t, u, n, r), t.ht[n] = 1
    PROVE  Good(u, top, {}, {})
<1>1. /\ TreeType(t) /\ TreeType(u) /\ Filled(u) /\ Apart(u) /\ Linked(u) /\ Topped(u, top, {})
      /\ \A m \in NodeNums : m # n => u.rs[m] = t.rs[m]
  BY SameShapeFacts, ComesFacts DEF Good, Comes
<1>2. Indexed(u, {})
  BY <1>1 DEF Good, Indexed, Comes, SameShape, TreeType
<1>3. Owned(u, top, {})
  BY <1>1 DEF Good, Owned, Comes, SameShape, TreeType
<1> QED
  BY <1>1, <1>2, <1>3 DEF Good

\* An index node gets the record of the orphan.
LEMMA OrphanComes ==
    ASSUME NEW t, NEW u, NEW top, NEW n, NEW r, Good(t, top, {r.child}, {}), Comes(t, u, n, r),
           r.child \in t.us, r.child # top, r.key = t.lo[r.child], t.ht[n] = t.ht[r.child] + 1
    PROVE  Good(u, top, {}, {})
<1> DEFINE o == {r.child}
<1>0. Good(t, top, o, {})
  OBVIOUS
<1> HIDE DEF o
<1>1. /\ TreeType(t) /\ Filled(t) /\ Apart(t) /\ Linked(t) /\ Topped(t, top, o) /\ SameShape(t, u)
  BY <1>0 DEF Good, Comes
<1>6. /\ TreeType(u) /\ Linked(u) /\ Topped(u, top, o)
  BY <1>1, SameShapeFacts
<1>7. /\ Filled(u) /\ Apart(u)
      /\ u.rs[n] = t.rs[n] \cup {r}
      /\ \A m \in NodeNums : m # n => u.rs[m] = t.rs[m]
  BY <1>1, ComesFacts
<1> USE DEF o
<1>2. t.ht[r.child] \in Nat /\ t.ht[n] > 1 /\ t.ht[top] \in Nat /\ t.ht[n] <= t.ht[top]
  BY DEF TreeType, Good, Filled, Comes, Topped
<1>3. Topped(u, top, {})
  BY <1>1, <1>2, <1>6, <1>7 DEF Topped, Comes, SameShape
<1>4. Indexed(u, {})
  BY <1>1, <1>2, <1>6, <1>7 DEF Good, Indexed, Comes, SameShape, TreeType
<1>5. Owned(u, top, {})
  BY <1>1, <1>2, <1>6, <1>7 DEF Good, Owned, Comes, SameShape, TreeType
<1> QED
  BY <1>3, <1>4, <1>5, <1>6, <1>7 DEF Good

\* splitLeaf and splitIndex: the records of node n from key k on go to node m.
Cuts(t, u, n, m, k) ==
    /\ n \in t.us /\ m \in NodeNums \ t.us
    /\ \E r \in t.rs[n] : r.key = k
    /\ t.lo[n] < k
    /\ TreeType(u)
    /\ u.us = t.us \cup {m}
    /\ u.ht[m] = t.ht[n] /\ \A x \in t.us : u.ht[x] = t.ht[x]
    /\ u.lo[m] = k /\ \A x \in t.us : u.lo[x] = t.lo[x]
    /\ u.rs[m] = {r \in t.rs[n] : k <= r.key}
    /\ u.rs[n] = {r \in t.rs[n] : r.key < k}
    /\ \A x \in t.us \ {n} : u.rs[x] = t.rs[x]
    /\ u.fl[m] = t.fl[n] /\ u.fl[n] = m /\ \A x \in t.us \ {n} : u.fl[x] = t.fl[x]
    /\ u.bl[m] = n
    /\ t.fl[n] # 0 => u.bl[t.fl[n]] = m
    /\ \A x \in t.us \ {t.fl[n]} : u.bl[x] = t.bl[x]

\* Cutting a node in two leaves a good tree with one orphan, the new half.
LEMMA CutKeeps ==
    ASSUME NEW t, NEW u, NEW top, NEW n, NEW m, NEW k, Good(t, top, {}, {}), Cuts(t, u, n, m, k)
    PROVE  Good(u, top, {m}, {})
<1>1. /\ n \in t.us /\ m \in NodeNums /\ m \notin t.us /\ u.us = t.us \cup {m}
      /\ t.us \subseteq NodeNums
      /\ k \in Nat
      /\ \A x \in t.us : t.lo[x] \in Nat /\ t.ht[x] \in Nat
      /\ \A x \in t.us : \A r \in t.rs[x] : r.key \in Nat
  <2>1. TreeType(t)
    BY DEF Good
  <2>2. n \in t.us /\ m \in NodeNums /\ m \notin t.us /\ u.us = t.us \cup {m}
        /\ \E r \in t.rs[n] : r.key = k
    BY DEF Cuts
  <2> QED
    BY <2>1, <2>2, TreeNumbers
<1>2. /\ u.ht[m] = t.ht[n] /\ \A x \in t.us : u.ht[x] = t.ht[x]
      /\ u.lo[m] = k /\ \A x \in t.us : u.lo[x] = t.lo[x]
      /\ t.lo[n] < k
  BY DEF Cuts
<1>3. /\ \A x \in t.us \ {n} : u.rs[x] = t.rs[x]
      /\ u.rs[m] = {r \in t.rs[n] : k <= r.key}
      /\ u.rs[n] = {r \in t.rs[n] : r.key < k}
      /\ \E r \in t.rs[n] : r.key = k
  BY DEF Cuts
<1>4. Filled(u)
  <2>1. \A x \in t.us : /\ t.ht[x] > 0
                        /\ \E r \in t.rs[x] : r.key = t.lo[x]
                        /\ \A r \in t.rs[x] : t.lo[x] <= r.key
                        /\ \A r, s \in t.rs[x] : r.key = s.key => r = s
    BY DEF Good, Filled
  <2> SUFFICES ASSUME NEW x \in u.us
               PROVE  /\ u.ht[x] > 0
                      /\ \E r \in u.rs[x] : r.key = u.lo[x]
                      /\ \A r \in u.rs[x] : u.lo[x] <= r.key
                      /\ \A r, s \in u.rs[x] : r.key = s.key => r = s
    BY DEF Filled
  <2>2. CASE x = m
    BY <1>1, <1>2, <1>3, <2>1, <2>2
  <2>3. CASE x = n
    BY <1>1, <1>2, <1>3, <2>1, <2>3
  <2>4. CASE x \in t.us \ {n}
    BY <1>1, <1>2, <1>3, <2>1, <2>4
  <2> QED
    BY <1>1, <2>2, <2>3, <2>4
<1>5. \A x \in t.us : \A y \in t.us :
         t.ht[y] = t.ht[x] /\ y # x =>
             t.lo[x] # t.lo[y] /\ (t.lo[x] < t.lo[y] => \A r \in t.rs[x] : r.key < t.lo[y])
  BY DEF Good, Apart, Peers
<1>6. \A x \in t.us : \A r \in t.rs[x] : t.lo[x] <= r.key
  BY DEF Good, Filled
<1>7. Apart(u)
  <2> SUFFICES ASSUME NEW x \in u.us, NEW y \in u.us, u.ht[y] = u.ht[x], y # x
               PROVE  u.lo[x] # u.lo[y] /\ (u.lo[x] < u.lo[y] => \A r \in u.rs[x] : r.key < u.lo[y])
    BY DEF Apart, Peers
  <2>1. CASE x = m /\ y = n
    BY <1>1, <1>2, <1>3, <2>1
  <2>2. CASE x = n /\ y = m
    BY <1>1, <1>2, <1>3, <2>2
  <2>3. CASE x = m /\ y \in t.us \ {n}
    BY <1>1, <1>2, <1>3, <1>5, <1>6, <2>3
  <2>4. CASE y = m /\ x \in t.us \ {n}
    BY <1>1, <1>2, <1>3, <1>5, <1>6, <2>4
  <2>5. CASE x \in t.us /\ y \in t.us
    BY <1>1, <1>2, <1>3, <1>5, <2>5
  <2> QED
    BY <1>1, <2>1, <2>2, <2>3, <2>4, <2>5
<1>8. \A y \in t.us : t.ht[y] = t.ht[n] /\ y # n =>
         (t.lo[y] < t.lo[n] /\ t.lo[y] < k) \/ (t.lo[n] < t.lo[y] /\ k < t.lo[y])
  BY <1>1, <1>2, <1>3, <1>5
<1>9. Linked(u)
  <2> DEFINE f == t.fl[n]
  <2>1. /\ u.fl[m] = f /\ u.fl[n] = m /\ \A x \in t.us \ {n} : u.fl[x] = t.fl[x]
        /\ u.bl[m] = n /\ (f # 0 => u.bl[f] = m)
        /\ \A x \in t.us \ {f} : u.bl[x] = t.bl[x]
    BY DEF Cuts
  <2>2. \A x \in t.us :
          /\ t.fl[x] = 0 => \A y \in t.us : t.ht[y] = t.ht[x] /\ y # x => t.lo[y] < t.lo[x]
          /\ t.fl[x] # 0 =>
                /\ t.fl[x] \in t.us /\ t.ht[t.fl[x]] = t.ht[x] /\ t.fl[x] # x
                /\ t.lo[x] < t.lo[t.fl[x]]
                /\ \A y \in t.us : t.ht[y] = t.ht[x] /\ y # x /\ t.lo[x] < t.lo[y] => t.lo[t.fl[x]] <= t.lo[y]
    BY DEF Good, Linked, Peers
  <2>3. \A x \in t.us :
          /\ t.bl[x] = 0 => \A y \in t.us : t.ht[y] = t.ht[x] /\ y # x => t.lo[x] < t.lo[y]
          /\ t.bl[x] # 0 => t.bl[x] \in t.us /\ t.fl[t.bl[x]] = x
    BY DEF Good, Linked, Peers
  <2> HIDE DEF f
  <2>4. f = t.fl[n]
    BY DEF f
  <2>5. 0 \notin u.us
    BY <1>1 DEF NodeNums
  <2>6. ASSUME NEW x \in u.us
        PROVE  /\ u.fl[x] = 0 => \A y \in u.us : u.ht[y] = u.ht[x] /\ y # x => u.lo[y] < u.lo[x]
               /\ u.fl[x] # 0 =>
                    /\ u.fl[x] \in u.us /\ u.ht[u.fl[x]] = u.ht[x] /\ u.fl[x] # x
                    /\ u.lo[x] < u.lo[u.fl[x]]
                    /\ \A y \in u.us : u.ht[y] = u.ht[x] /\ y # x /\ u.lo[x] < u.lo[y] => u.lo[u.fl[x]] <= u.lo[y]
    <3>1. CASE x = n
      BY <1>1, <1>2, <1>8, <2>1, <2>5, <3>1
    <3>2. CASE x = m
      BY <1>1, <1>2, <1>8, <2>1, <2>2, <2>4, <2>5, <3>2
    <3>3. CASE x \in t.us \ {n}
      BY <1>1, <1>2, <1>8, <2>1, <2>2, <2>5, <3>3
    <3> QED
      BY <1>1, <3>1, <3>2, <3>3
  <2>7. ASSUME NEW x \in u.us
        PROVE  /\ u.bl[x] = 0 => \A y \in u.us : u.ht[y] = u.ht[x] /\ y # x => u.lo[x] < u.lo[y]
               /\ u.bl[x] # 0 => u.bl[x] \in u.us /\ u.fl[u.bl[x]] = x
    <3>1. CASE x = f /\ x # m
      BY <1>1, <2>1, <2>4, <2>5, <3>1
    <3>2. CASE x = m
      BY <1>1, <2>1, <2>5, <3>2
    <3>3. CASE x \in t.us \ {f}
      BY <1>1, <1>2, <1>8, <2>1, <2>3, <2>4, <2>5, <3>3
    <3> QED
      BY <1>1, <3>1, <3>2, <3>3
  <2> QED
    BY <2>6, <2>7 DEF Linked, Peers
<1>10. Indexed(u, {})
  <2>1. \A x \in t.us : t.ht[x] > 1 => \A r \in t.rs[x] :
          r.child \in t.us /\ t.ht[x] = t.ht[r.child] + 1 /\ r.key = t.lo[r.child]
    BY DEF Good, Indexed
  <2> QED
    BY <1>1, <1>2, <1>3, <2>1 DEF Indexed
<1>11. Owned(u, top, {m})
  <2>1. \A x \in t.us : t.ht[x] > 1 => \A r \in t.rs[x] : r.child \in t.us /\ r.child # top
    BY DEF Good, Indexed, Owned
  <2>2. \A x \in t.us \ {top} : \E p \in t.us : t.ht[p] > 1 /\ \E r \in t.rs[p] : r.child = x
    BY DEF Good, Owned
  <2>3. ASSUME NEW p \in t.us, NEW r \in t.rs[p]
        PROVE  \E q \in u.us : u.ht[q] = t.ht[p] /\ r \in u.rs[q]
    <3>1. CASE p # n
      BY <1>1, <1>2, <1>3, <3>1
    <3>2. CASE p = n /\ r.key < k
      BY <1>1, <1>2, <1>3, <3>2
    <3>3. CASE p = n /\ k <= r.key
      BY <1>1, <1>2, <1>3, <3>3
    <3> QED
      BY <1>1, <3>1, <3>2, <3>3
  <2>4. ASSUME NEW x \in u.us \ ({top} \cup {m})
        PROVE  \E p \in u.us : u.ht[p] > 1 /\ \E r \in u.rs[p] : r.child = x
    <3>1. PICK p \in t.us : t.ht[p] > 1 /\ \E r \in t.rs[p] : r.child = x
      BY <1>1, <2>2
    <3>2. PICK r \in t.rs[p] : r.child = x
      BY <3>1
    <3> QED
      BY <2>3, <3>1, <3>2
  <2>5. ASSUME NEW p \in u.us, u.ht[p] > 1, NEW r \in u.rs[p]
        PROVE  r.child \notin ({top} \cup {m})
    BY <1>1, <1>2, <1>3, <2>1, <2>5
  <2> QED
    BY <2>4, <2>5 DEF Owned
<1>12. Topped(u, top, {m})
  BY <1>1, <1>2 DEF Good, Topped
<1> QED
  BY <1>4, <1>7, <1>9, <1>10, <1>11, <1>12 DEF Good, Cuts

\* growRoot: node m becomes the root, over the old one and the orphan c.
Tops(t, u, top, c, m) ==
    /\ top \in t.us /\ c \in t.us /\ m \in NodeNums \ t.us
    /\ c # top /\ t.ht[c] = t.ht[top] /\ t.lo[top] < t.lo[c]
    /\ TreeType(u)
    /\ u.us = t.us \cup {m}
    /\ u.ht[m] = t.ht[top] + 1 /\ u.lo[m] = t.lo[top] /\ u.fl[m] = 0 /\ u.bl[m] = 0
    /\ u.rs[m] = {indexRecord(t.lo[top], top), indexRecord(t.lo[c], c)}
    /\ \A x \in t.us : /\ u.ht[x] = t.ht[x] /\ u.lo[x] = t.lo[x] /\ u.rs[x] = t.rs[x]
                       /\ u.fl[x] = t.fl[x] /\ u.bl[x] = t.bl[x]

\* A new root above the old one and its orphan gives a good tree.
LEMMA TopKeeps ==
    ASSUME NEW t, NEW u, NEW top, NEW c, NEW m, Good(t, top, {c}, {}), Tops(t, u, top, c, m)
    PROVE  Good(u, m, {}, {})
<1>1. /\ top \in t.us /\ c \in t.us /\ m \in NodeNums /\ m \notin t.us /\ u.us = t.us \cup {m}
      /\ c # top /\ t.ht[c] = t.ht[top] /\ t.lo[top] < t.lo[c]
      /\ t.us \subseteq NodeNums /\ 0 \notin t.us
      /\ \A x \in t.us : t.lo[x] \in Nat /\ t.ht[x] \in Nat
      /\ \A x \in t.us : \A r \in t.rs[x] : r.key \in Nat
  <2>1. TreeType(t)
    BY DEF Good
  <2> QED
    BY <2>1, TreeNumbers DEF Tops
<1>2. /\ u.ht[m] = t.ht[top] + 1 /\ u.lo[m] = t.lo[top] /\ u.fl[m] = 0 /\ u.bl[m] = 0
      /\ \A x \in t.us : /\ u.ht[x] = t.ht[x] /\ u.lo[x] = t.lo[x] /\ u.rs[x] = t.rs[x]
                         /\ u.fl[x] = t.fl[x] /\ u.bl[x] = t.bl[x]
  BY DEF Tops
<1>3. \A r : r \in u.rs[m] <=> r = indexRecord(t.lo[top], top) \/ r = indexRecord(t.lo[c], c)
  BY DEF Tops
<1>4. \A k, x : indexRecord(k, x).key = k /\ indexRecord(k, x).child = x
  BY DEF indexRecord
<1>5. \A x \in t.us : t.ht[x] <= t.ht[top] /\ (t.ht[x] = t.ht[top] => x = top \/ x = c)
  BY DEF Good, Topped
<1>6. \A x \in t.us : u.ht[x] # u.ht[m] /\ t.ht[x] < u.ht[m]
  BY <1>1, <1>2, <1>5
<1>7. Filled(u)
  <2>1. \A x \in t.us : /\ t.ht[x] > 0
                        /\ \E r \in t.rs[x] : r.key = t.lo[x]
                        /\ \A r \in t.rs[x] : t.lo[x] <= r.key
                        /\ \A r, s \in t.rs[x] : r.key = s.key => r = s
    BY DEF Good, Filled
  <2>2. /\ u.ht[m] > 0
        /\ \E r \in u.rs[m] : r.key = u.lo[m]
        /\ \A r \in u.rs[m] : u.lo[m] <= r.key
        /\ \A r, s \in u.rs[m] : r.key = s.key => r = s
    BY <1>1, <1>2, <1>3, <1>4
  <2> QED
    BY <1>1, <1>2, <2>1, <2>2 DEF Filled
<1>8. \A x \in t.us : Peers(u, x) = Peers(t, x)
  BY <1>1, <1>2, <1>6 DEF Peers
<1>9. Peers(u, m) = {}
  BY <1>1, <1>2, <1>6 DEF Peers
<1>10. Apart(u)
  <2>1. \A x \in t.us : Peers(t, x) \subseteq t.us
    BY DEF Peers
  <2> QED
    BY <1>1, <1>2, <1>8, <1>9, <2>1 DEF Good, Apart
<1>11. Linked(u)
  <2>1. \A x \in t.us : Peers(t, x) \subseteq t.us
    BY DEF Peers
  <2>2. ASSUME NEW x \in t.us
        PROVE  /\ u.fl[x] = 0 => \A y \in Peers(u, x) : u.lo[y] < u.lo[x]
               /\ u.fl[x] # 0 =>
                     /\ u.fl[x] \in Peers(u, x)
                     /\ u.lo[x] < u.lo[u.fl[x]]
                     /\ \A y \in Peers(u, x) : u.lo[x] < u.lo[y] => u.lo[u.fl[x]] <= u.lo[y]
               /\ u.bl[x] = 0 => \A y \in Peers(u, x) : u.lo[x] < u.lo[y]
               /\ u.bl[x] # 0 => u.bl[x] \in u.us /\ u.fl[u.bl[x]] = x
    BY <1>1, <1>2, <1>8, <2>1 DEF Good, Linked
  <2> QED
    BY <1>1, <1>2, <1>9, <2>2 DEF Linked
<1>12. \A x \in t.us : t.ht[x] > 1 => \A r \in t.rs[x] :
          r.child \in t.us /\ t.ht[x] = t.ht[r.child] + 1 /\ r.key = t.lo[r.child]
  BY DEF Good, Indexed
<1>13. Indexed(u, {})
  <2>1. \A r \in u.rs[m] : r.child \in u.us /\ u.ht[m] = u.ht[r.child] + 1 /\ r.key = u.lo[r.child]
    BY <1>1, <1>2, <1>3, <1>4
  <2>2. \A x \in t.us : u.ht[x] > 1 => \A r \in u.rs[x] :
          r.child \in u.us /\ u.ht[x] = u.ht[r.child] + 1 /\ r.key = u.lo[r.child]
    BY <1>1, <1>2, <1>12
  <2> QED
    BY <1>1, <2>1, <2>2 DEF Indexed
<1>14. Owned(u, m, {})
  <2>1. \A x \in t.us \ {top, c} : \E p \in t.us : t.ht[p] > 1 /\ \E r \in t.rs[p] : r.child = x
    BY DEF Good, Owned
  <2>2. u.ht[m] > 1 /\ \A x \in {top, c} : \E r \in u.rs[m] : r.child = x
    BY <1>1, <1>2, <1>3, <1>4 DEF Good, Filled
  <2>3. \A x \in u.us \ {m} : \E p \in u.us : u.ht[p] > 1 /\ \E r \in u.rs[p] : r.child = x
    BY <1>1, <1>2, <2>1, <2>2
  <2>4. \A p \in u.us : u.ht[p] > 1 => \A r \in u.rs[p] : r.child # m
    BY <1>1, <1>2, <1>3, <1>4, <1>12
  <2> QED
    BY <2>3, <2>4 DEF Owned
<1>15. Topped(u, m, {})
  BY <1>1, <1>2, <1>5, <1>6 DEF Topped
<1> QED
  BY <1>7, <1>10, <1>11, <1>13, <1>14, <1>15 DEF Good, Tops

\* maybeShrinkRoot: the root goes, and its only child takes its place.
Drops(t, u, top, c) ==
    /\ t.ht[top] > 1
    /\ \E r \in t.rs[top] : r.child = c
    /\ \A r \in t.rs[top] : r.child = c
    /\ TreeType(u)
    /\ u.us = t.us \ {top}
    /\ \A x \in u.us : /\ u.ht[x] = t.ht[x] /\ u.lo[x] = t.lo[x] /\ u.rs[x] = t.rs[x]
                       /\ u.fl[x] = t.fl[x] /\ u.bl[x] = t.bl[x]

\* A root with one child gives way to the child.
LEMMA DropKeeps ==
    ASSUME NEW t, NEW u, NEW top, NEW c, Good(t, top, {}, {}), Drops(t, u, top, c)
    PROVE  Good(u, c, {}, {})
<1>1. /\ top \in t.us /\ u.us = t.us \ {top}
      /\ t.us \subseteq NodeNums /\ 0 \notin t.us
      /\ t.ht[top] > 1
      /\ \A r \in t.rs[top] : r.child = c
      /\ \A x \in t.us : t.lo[x] \in Nat /\ t.ht[x] \in Nat
      /\ \A x \in t.us : t.ht[x] <= t.ht[top] /\ (t.ht[x] = t.ht[top] => x = top)
  <2>1. TreeType(t) /\ Topped(t, top, {})
    BY DEF Good
  <2> QED
    BY <2>1, TreeNumbers DEF Drops, Topped
<1>2. \A x \in u.us : /\ u.ht[x] = t.ht[x] /\ u.lo[x] = t.lo[x] /\ u.rs[x] = t.rs[x]
                      /\ u.fl[x] = t.fl[x] /\ u.bl[x] = t.bl[x]
  BY DEF Drops
<1>3. \A x \in t.us : t.ht[x] > 1 => \A r \in t.rs[x] :
          r.child \in t.us /\ t.ht[x] = t.ht[r.child] + 1 /\ r.key = t.lo[r.child] /\ r.child # top
  BY DEF Good, Indexed, Owned
<1>4. c \in u.us /\ t.ht[top] = t.ht[c] + 1
  BY <1>1, <1>3 DEF Drops
<1>5. \A x \in u.us : x # c => \E p \in u.us : t.ht[p] > 1 /\ \E r \in t.rs[p] : r.child = x
  <2>1. \A x \in t.us \ {top} : \E p \in t.us : t.ht[p] > 1 /\ \E r \in t.rs[p] : r.child = x
    BY DEF Good, Owned
  <2> QED
    BY <1>1, <2>1
<1>6. \A x \in u.us : Peers(u, x) = Peers(t, x)
  BY <1>1, <1>2 DEF Peers
<1>7. Filled(u)
  BY <1>1, <1>2 DEF Good, Filled
<1>8. Apart(u)
  <2>1. \A x \in u.us : Peers(u, x) \subseteq u.us
    BY DEF Peers
  <2> QED
    BY <1>1, <1>2, <1>6, <2>1 DEF Good, Apart
<1>9. Linked(u)
  <2>1. \A x \in u.us : Peers(u, x) \subseteq u.us
    BY DEF Peers
  <2>2. ASSUME NEW x \in u.us, t.bl[x] = top
        PROVE  FALSE
    <3>1. t.fl[top] = x
      BY <1>1, <2>2 DEF Good, Linked
    <3>2. x \in Peers(t, top)
      BY <1>1, <3>1 DEF Good, Linked
    <3> QED
      BY <1>1, <3>2 DEF Peers
  <2>3. ASSUME NEW x \in u.us
        PROVE  /\ u.fl[x] = 0 => \A y \in Peers(u, x) : u.lo[y] < u.lo[x]
               /\ u.fl[x] # 0 =>
                     /\ u.fl[x] \in Peers(u, x)
                     /\ u.lo[x] < u.lo[u.fl[x]]
                     /\ \A y \in Peers(u, x) : u.lo[x] < u.lo[y] => u.lo[u.fl[x]] <= u.lo[y]
               /\ u.bl[x] = 0 => \A y \in Peers(u, x) : u.lo[x] < u.lo[y]
    BY <1>1, <1>2, <1>6, <2>1 DEF Good, Linked
  <2>4. ASSUME NEW x \in u.us, u.bl[x] # 0
        PROVE  u.bl[x] \in u.us /\ u.fl[u.bl[x]] = x
    BY <1>1, <1>2, <2>2, <2>4 DEF Good, Linked
  <2> QED
    BY <2>3, <2>4 DEF Linked
<1>10. Indexed(u, {})
  BY <1>1, <1>2, <1>3 DEF Indexed
<1>11. Owned(u, c, {})
  <2>1. ASSUME NEW p \in u.us, u.ht[p] > 1, NEW r \in u.rs[p]
        PROVE  r.child # c
    BY <1>1, <1>2, <1>3, <1>4, <2>1
  <2> QED
    BY <1>2, <1>5, <2>1 DEF Owned
<1>12. Topped(u, c, {})
  <2>1. ASSUME NEW x \in u.us, x # c
        PROVE  t.ht[x] < t.ht[c]
    <3>1. PICK p \in u.us : t.ht[p] > 1 /\ \E r \in t.rs[p] : r.child = x
      BY <1>5, <2>1
    <3>2. t.ht[p] = t.ht[x] + 1
      BY <1>1, <1>3, <3>1
    <3>3. t.ht[p] < t.ht[top]
      BY <1>1
    <3> QED
      BY <1>1, <1>4, <3>2, <3>3
  <2> QED
    BY <1>1, <1>2, <1>4, <2>1 DEF Topped
<1> QED
  BY <1>7, <1>8, <1>9, <1>10, <1>11, <1>12 DEF Good, Drops

\* A node has one index record.
LEMMA OneParent ==
    ASSUME NEW t, NEW top, NEW o, NEW st, Good(t, top, o, st),
           NEW p \in t.us, NEW q \in t.us, t.ht[p] > 1, t.ht[q] > 1,
           NEW r \in t.rs[p], NEW s \in t.rs[q], r.child = s.child
    PROVE  p = q /\ r = s
<1>1. /\ r.child \in t.us
      /\ t.ht[p] = t.ht[r.child] + 1 /\ t.ht[q] = t.ht[r.child] + 1
  BY DEF Good, Indexed
<1>2. CASE r.child \in st
  BY <1>2 DEF Good, Indexed
<1>3. CASE r.child \notin st
  <2>1. r.key = s.key
    BY <1>3 DEF Good, Indexed
  <2>2. t.lo[p] \in Nat /\ t.lo[q] \in Nat /\ r.key \in Nat
    BY TreeNumbers DEF Good
  <2>3. p = q
    <3> SUFFICES ASSUME p # q PROVE FALSE
      OBVIOUS
    <3>1. p \in Peers(t, q) /\ q \in Peers(t, p)
      BY <1>1 DEF Peers
    <3>2. t.lo[p] <= r.key /\ t.lo[q] <= r.key
      BY <2>1 DEF Good, Filled
    <3>3. /\ t.lo[p] # t.lo[q]
          /\ t.lo[p] < t.lo[q] => r.key < t.lo[q]
          /\ t.lo[q] < t.lo[p] => r.key < t.lo[p]
      BY <2>1, <3>1 DEF Good, Apart
    <3> QED
      BY <2>2, <3>2, <3>3
  <2> QED
    BY <2>1, <2>3 DEF Good, Filled
<1> QED
  BY <1>2, <1>3

\* First keys may change, but not their order on a level.
Reordered(t, u) ==
    /\ TreeType(u)
    /\ u.us = t.us /\ u.ht = t.ht /\ u.fl = t.fl /\ u.bl = t.bl
    /\ \A x \in t.us : \A y \in Peers(t, x) : u.lo[x] < u.lo[y] <=> t.lo[x] < t.lo[y]

\* Links and the root stay right when nodes' first keys keep their order.
LEMMA SameOrder ==
    ASSUME NEW t, NEW u, NEW top, NEW o, NEW s, Good(t, top, o, s), Reordered(t, u)
    PROVE  Linked(u) /\ Topped(u, top, o)
<1>1. Topped(u, top, o)
  BY DEF Good, Topped, Reordered
<1>2. /\ u.us = t.us /\ u.fl = t.fl /\ u.bl = t.bl
      /\ \A x : Peers(u, x) = Peers(t, x)
      /\ \A x \in t.us : \A y \in Peers(t, x) :
            /\ y \in t.us /\ t.lo[x] \in Nat /\ t.lo[y] \in Nat /\ u.lo[x] \in Nat /\ u.lo[y] \in Nat
            /\ x \in Peers(t, y)
            /\ u.lo[x] < u.lo[y] <=> t.lo[x] < t.lo[y]
            /\ u.lo[y] < u.lo[x] <=> t.lo[y] < t.lo[x]
  <2>1. TreeType(t) /\ TreeType(u)
    BY DEF Good, Reordered
  <2>2. \A x : Peers(u, x) = Peers(t, x)
    BY DEF Peers, Reordered
  <2>3. \A x \in t.us : \A y \in Peers(t, x) : y \in t.us /\ x \in Peers(t, y)
    BY DEF Peers
  <2> QED
    BY <2>1, <2>2, <2>3, TreeNumbers DEF Reordered
<1>3. ASSUME NEW x \in t.us
      PROVE  /\ u.fl[x] = 0 => \A y \in Peers(u, x) : u.lo[y] < u.lo[x]
             /\ u.bl[x] = 0 => \A y \in Peers(u, x) : u.lo[x] < u.lo[y]
             /\ u.bl[x] # 0 => u.bl[x] \in u.us /\ u.fl[u.bl[x]] = x
  BY <1>2 DEF Good, Linked
<1>4. ASSUME NEW x \in t.us, t.fl[x] # 0
      PROVE  /\ t.fl[x] \in Peers(t, x)
             /\ u.lo[x] < u.lo[t.fl[x]]
             /\ \A y \in Peers(t, x) : u.lo[x] < u.lo[y] => u.lo[t.fl[x]] <= u.lo[y]
  <2>1. /\ t.fl[x] \in Peers(t, x)
        /\ t.lo[x] < t.lo[t.fl[x]]
        /\ \A y \in Peers(t, x) : t.lo[x] < t.lo[y] => t.lo[t.fl[x]] <= t.lo[y]
    BY <1>4 DEF Good, Linked
  <2>2. \A y \in Peers(t, x) : y # t.fl[x] => y \in Peers(t, t.fl[x])
    BY <2>1 DEF Peers
  <2>3. t.fl[x] \in t.us
    BY <2>1 DEF Peers
  <2>4. ASSUME NEW y \in Peers(t, x), u.lo[x] < u.lo[y]
        PROVE  u.lo[t.fl[x]] <= u.lo[y]
    <3>1. CASE y = t.fl[x]
      BY <1>2, <2>1, <2>3, <3>1
    <3>2. CASE y # t.fl[x]
      <4>1. t.lo[t.fl[x]] <= t.lo[y]
        BY <1>2, <2>1, <2>4
      <4>2. ~(u.lo[y] < u.lo[t.fl[x]])
        BY <1>2, <2>2, <2>3, <3>2, <4>1
      <4> QED
        BY <1>2, <2>2, <2>3, <3>2, <4>2
    <3> QED
      BY <3>1, <3>2
  <2> QED
    BY <1>2, <2>1, <2>4
<1>5. Linked(u)
  BY <1>2, <1>3, <1>4 DEF Linked
<1> QED
  BY <1>1, <1>5

\* deleteByKey: record r leaves node n, which has others; the first key may
\* be another one then.
Goes(t, u, n, r) ==
    /\ n \in t.us /\ t.ht[n] = 1 /\ r \in t.rs[n]
    /\ TreeType(u)
    /\ u.us = t.us /\ u.ht = t.ht /\ u.fl = t.fl /\ u.bl = t.bl
    /\ u.rs[n] = t.rs[n] \ {r}
    /\ \E s \in u.rs[n] : s.key = u.lo[n]
    /\ \A s \in u.rs[n] : u.lo[n] <= s.key
    /\ \A x \in t.us \ {n} : u.lo[x] = t.lo[x] /\ u.rs[x] = t.rs[x]

\* A record that goes leaves a good tree; if it was its node's first, the
\* node's index key is stale.
LEMMA GoKeeps ==
    ASSUME NEW t, NEW u, NEW top, NEW n, NEW r, Good(t, top, {}, {}), Goes(t, u, n, r)
    PROVE  /\ r.key = t.lo[n] => Good(u, top, {}, {n})
           /\ r.key # t.lo[n] => Good(u, top, {}, {})
           /\ t.ht[top] = 1 => Good(u, top, {}, {})
           /\ \A x \in t.us : t.lo[x] <= u.lo[x]
<1>1. /\ n \in t.us /\ t.ht[n] = 1 /\ r \in t.rs[n]
      /\ u.us = t.us /\ u.ht = t.ht /\ u.fl = t.fl /\ u.bl = t.bl
      /\ \A x \in t.us \ {n} : u.lo[x] = t.lo[x] /\ u.rs[x] = t.rs[x]
      /\ \A x \in t.us : u.rs[x] \subseteq t.rs[x]
      /\ u.rs[n] = t.rs[n] \ {r}
      /\ \E s \in u.rs[n] : s.key = u.lo[n]
      /\ \A s \in u.rs[n] : u.lo[n] <= s.key
  BY DEF Goes
<1>2. /\ \A x \in t.us : t.lo[x] \in Nat /\ t.ht[x] \in Nat /\ u.lo[x] \in Nat
      /\ \A x \in t.us : \A s \in t.rs[x] : s.key \in Nat
  <2>1. TreeType(t) /\ TreeType(u) /\ u.us = t.us
    BY DEF Good, Goes
  <2> QED
    BY <2>1, TreeNumbers
<1>3. \A x \in t.us : /\ t.ht[x] > 0
                      /\ \A s \in t.rs[x] : t.lo[x] <= s.key
                      /\ \A a, b \in t.rs[x] : a.key = b.key => a = b
                      /\ \E s \in t.rs[x] : s.key = t.lo[x]
  BY DEF Good, Filled
<1>4. /\ t.lo[n] <= u.lo[n]
      /\ r.key # t.lo[n] => u.lo[n] = t.lo[n]
      /\ r.key = t.lo[n] => t.lo[n] < u.lo[n]
  BY <1>1, <1>2, <1>3
<1>5. \A x \in t.us : \A y \in Peers(t, x) :
        /\ y \in t.us
        /\ t.lo[x] # t.lo[y]
        /\ t.lo[x] < t.lo[y] => \A s \in t.rs[x] : s.key < t.lo[y]
  BY DEF Good, Apart, Peers
<1>6. \A x \in t.us : \A y \in Peers(t, x) :
         /\ t.lo[x] < t.lo[y] => u.lo[x] < t.lo[y]
         /\ u.lo[x] < u.lo[y] <=> t.lo[x] < t.lo[y]
  <2> SUFFICES ASSUME NEW x \in t.us, NEW y \in Peers(t, x)
               PROVE  /\ t.lo[x] < t.lo[y] => u.lo[x] < t.lo[y]
                      /\ u.lo[x] < u.lo[y] <=> t.lo[x] < t.lo[y]
    OBVIOUS
  <2>1. y \in t.us /\ x \in Peers(t, y) /\ x # y
    BY DEF Peers
  <2>2. CASE x = n
    BY <1>1, <1>2, <1>4, <1>5, <2>1, <2>2
  <2>3. CASE y = n
    BY <1>1, <1>2, <1>4, <1>5, <2>1, <2>3
  <2>4. CASE x # n /\ y # n
    BY <1>1, <1>2, <1>5, <2>1, <2>4
  <2> QED
    BY <2>2, <2>3, <2>4
<1>7. Reordered(t, u)
  BY <1>1, <1>6 DEF Reordered, Goes
<1>8. TreeType(u) /\ Linked(u) /\ Topped(u, top, {})
  BY <1>7, SameOrder DEF Goes
<1>9. Filled(u)
  BY <1>1, <1>3 DEF Filled
<1>10. \A x : Peers(u, x) = Peers(t, x)
  BY <1>1 DEF Peers
<1>11. Apart(u)
  <2> SUFFICES ASSUME NEW x \in t.us, NEW y \in Peers(t, x)
               PROVE  u.lo[x] # u.lo[y] /\ (u.lo[x] < u.lo[y] => \A s \in u.rs[x] : s.key < u.lo[y])
    BY <1>1, <1>10 DEF Apart
  <2>1. y \in t.us /\ x \in Peers(t, y)
    BY DEF Peers
  <2>2. u.lo[x] # u.lo[y]
    BY <1>2, <1>5, <1>6, <2>1
  <2>3. t.lo[y] <= u.lo[y]
    BY <1>1, <1>2, <1>4, <2>1
  <2>4. ASSUME u.lo[x] < u.lo[y], NEW s \in u.rs[x]
        PROVE  s.key < u.lo[y]
    BY <1>1, <1>2, <1>5, <1>6, <2>1, <2>3, <2>4
  <2> QED
    BY <2>2, <2>4
<1>12. Owned(u, top, {})
  <2>1. \A p \in t.us : t.ht[p] > 1 => u.rs[p] = t.rs[p]
    BY <1>1, <1>2
  <2> QED
    BY <1>1, <2>1 DEF Good, Owned
<1>13. \A p \in t.us : t.ht[p] > 1 => \A s \in u.rs[p] :
          s.child \in t.us /\ t.ht[p] = t.ht[s.child] + 1 /\ s.key = t.lo[s.child]
  BY <1>1, <1>2 DEF Good, Indexed
<1>14. (r.key = t.lo[n] => Indexed(u, {n})) /\ (r.key # t.lo[n] => Indexed(u, {})) /\ (t.ht[top] = 1 => Indexed(u, {}))
  <2>1. r.key # t.lo[n] => Indexed(u, {})
    BY <1>1, <1>4, <1>13 DEF Indexed
  <2>2. t.ht[top] = 1 => Indexed(u, {})
    BY <1>1, <1>2 DEF Indexed, Good, Topped
  <2>3. r.key = t.lo[n] => Indexed(u, {n})
    <3> SUFFICES ASSUME r.key = t.lo[n], NEW p \in t.us, t.ht[p] > 1, NEW s \in u.rs[p]
                 PROVE  /\ s.child \in t.us
                        /\ t.ht[p] = t.ht[s.child] + 1
                        /\ s.child # n => s.key = u.lo[s.child]
                        /\ s.child = n =>
                              /\ s.key < u.lo[s.child]
                              /\ \A x \in Peers(t, s.child) : u.lo[x] < s.key \/ u.lo[s.child] < u.lo[x]
                              /\ \A q \in t.us : t.ht[q] > 1 =>
                                    \A v \in u.rs[q] : v.child = s.child => q = p /\ v = s
      BY <1>1, <1>10 DEF Indexed
    <3>3. \A q \in t.us : t.ht[q] > 1 =>
             \A v \in u.rs[q] : v.child = s.child => q = p /\ v = s
      <4>1. s \in t.rs[p] /\ \A q \in t.us : \A v \in u.rs[q] : v \in t.rs[q]
        BY <1>1
      <4> QED
        BY <4>1, OneParent
    <3>1. s.child \in t.us /\ t.ht[p] = t.ht[s.child] + 1 /\ s.key = t.lo[s.child]
      BY <1>13
    <3>2. ASSUME s.child = n, NEW x \in Peers(t, n)
          PROVE  u.lo[x] < s.key \/ u.lo[n] < u.lo[x]
      <4>1. x \in t.us /\ x # n
        BY DEF Peers
      <4>2. t.lo[x] < t.lo[n] \/ t.lo[n] < t.lo[x]
        BY <1>1, <1>2, <1>5, <4>1
      <4> QED
        BY <1>1, <1>6, <3>1, <3>2, <4>1, <4>2
    <3> QED
      BY <1>1, <1>4, <3>1, <3>2, <3>3
  <2> QED
    BY <2>1, <2>2, <2>3
<1>15. \A x \in t.us : t.lo[x] <= u.lo[x]
  BY <1>1, <1>2, <1>4
<1> QED
  BY <1>8, <1>9, <1>11, <1>12, <1>14, <1>15 DEF Good

\* updateParentKey: the index record r of node c, in node p, gets c's first key.
Rekeys(t, u, c, p, r) ==
    /\ p \in t.us /\ t.ht[p] > 1 /\ r \in t.rs[p] /\ r.child = c
    /\ TreeType(u)
    /\ u.us = t.us /\ u.ht = t.ht /\ u.fl = t.fl /\ u.bl = t.bl
    /\ u.rs[p] = (t.rs[p] \ {r}) \cup {indexRecord(t.lo[c], c)}
    /\ u.lo[p] = IF r.key = t.lo[p] THEN t.lo[c] ELSE t.lo[p]
    /\ \A x \in t.us \ {p} : u.lo[x] = t.lo[x] /\ u.rs[x] = t.rs[x]

Rekeyed(t, u, top, p, r) ==
    /\ r.key = t.lo[p] => Good(u, top, {}, {p})
    /\ r.key # t.lo[p] => Good(u, top, {}, {})
    /\ p = top => Good(u, top, {}, {})

\* Rewriting a stale index key mends it, and may make the parent's stale.
LEMMA RekeyKeeps ==
    ASSUME NEW t, NEW u, NEW top, NEW c, NEW p, NEW r, Good(t, top, {}, {c}), Rekeys(t, u, c, p, r)
    PROVE  Rekeyed(t, u, top, p, r)
<1> DEFINE i == indexRecord(t.lo[c], c)
<1>1. /\ p \in t.us /\ t.ht[p] > 1 /\ r \in t.rs[p] /\ r.child = c
      /\ u.us = t.us /\ u.ht = t.ht /\ u.fl = t.fl /\ u.bl = t.bl
      /\ u.rs[p] = (t.rs[p] \ {r}) \cup {i}
      /\ u.lo[p] = IF r.key = t.lo[p] THEN t.lo[c] ELSE t.lo[p]
      /\ \A x \in t.us \ {p} : u.lo[x] = t.lo[x] /\ u.rs[x] = t.rs[x]
  BY DEF Rekeys
<1>2. i.key = t.lo[c] /\ i.child = c
  BY DEF indexRecord
<1> HIDE DEF i
<1>3. /\ \A x \in t.us : t.lo[x] \in Nat /\ t.ht[x] \in Nat /\ u.lo[x] \in Nat
      /\ \A x \in t.us : \A s \in t.rs[x] : s.key \in Nat
  <2>1. TreeType(t) /\ TreeType(u) /\ u.us = t.us
    BY DEF Good, Rekeys
  <2> QED
    BY <2>1, TreeNumbers
<1>4. /\ c \in t.us /\ t.ht[p] = t.ht[c] + 1 /\ r.key < t.lo[c] /\ c # p
      /\ \A x \in Peers(t, c) : t.lo[x] < r.key \/ t.lo[c] < t.lo[x]
  BY <1>1, <1>3 DEF Good, Indexed
<1>5. \A x \in t.us : t.ht[x] > 1 => \A s \in t.rs[x] :
         /\ s.child \in t.us
         /\ t.ht[x] = t.ht[s.child] + 1
         /\ s.child # c => s.key = t.lo[s.child]
         /\ s.child = c => x = p /\ s = r
  <2>1. \A x \in t.us : t.ht[x] > 1 => \A s \in t.rs[x] : s.child = c => x = p /\ s = r
    BY <1>1, OneParent
  <2> QED
    BY <2>1 DEF Good, Indexed
<1>6. \A x \in t.us : /\ t.ht[x] > 0
                      /\ \A s \in t.rs[x] : t.lo[x] <= s.key
                      /\ \A a, b \in t.rs[x] : a.key = b.key => a = b
                      /\ \E s \in t.rs[x] : s.key = t.lo[x]
  BY DEF Good, Filled
<1>7. \A x \in t.us : \A y \in Peers(t, x) :
        /\ y \in t.us /\ x \in Peers(t, y) /\ x # y /\ t.ht[x] = t.ht[y]
        /\ t.lo[x] # t.lo[y]
        /\ t.lo[x] < t.lo[y] => \A s \in t.rs[x] : s.key < t.lo[y]
  BY DEF Good, Apart, Peers
\* The new key stays below whatever was above the old one.
<1>8. ASSUME NEW x \in t.us, t.ht[x] = t.ht[p], NEW s \in t.rs[x], s # r
      PROVE  s.key < r.key \/ t.lo[c] < s.key
  <2>1. t.ht[x] > 1
    BY <1>1, <1>8
  <2>2. s.child \in t.us /\ t.ht[x] = t.ht[s.child] + 1 /\ s.child # c /\ s.key = t.lo[s.child]
    BY <1>5, <1>8, <2>1
  <2>3. s.child \in Peers(t, c)
    BY <1>3, <1>4, <1>8, <2>2 DEF Peers
  <2> QED
    BY <1>4, <2>2, <2>3
<1>9. Filled(u)
  <2>1. /\ u.ht[p] > 0
        /\ \E s \in u.rs[p] : s.key = u.lo[p]
        /\ \A s \in u.rs[p] : u.lo[p] <= s.key
        /\ \A a, b \in u.rs[p] : a.key = b.key => a = b
    <3>1. \A s \in t.rs[p] \ {r} : s.key < r.key \/ t.lo[c] < s.key
      BY <1>1, <1>8
    <3>2. r.key = t.lo[p] => \A s \in t.rs[p] \ {r} : t.lo[c] < s.key
      BY <1>1, <1>3, <1>6, <3>1
    <3>3. t.lo[p] <= t.lo[c]
      BY <1>1, <1>3, <1>4, <1>6
    <3>4. r.key # t.lo[p] => \E s \in t.rs[p] \ {r} : s.key = t.lo[p]
      BY <1>1, <1>6
    <3>5. \A a, b \in u.rs[p] : a.key = b.key => a = b
      BY <1>1, <1>2, <1>3, <1>4, <1>6, <3>1
    <3>6. CASE r.key = t.lo[p]
      BY <1>1, <1>2, <1>3, <1>4, <1>6, <3>2, <3>5, <3>6
    <3>7. CASE r.key # t.lo[p]
      BY <1>1, <1>2, <1>3, <1>4, <1>6, <3>3, <3>4, <3>5, <3>7
    <3> QED
      BY <3>6, <3>7
  <2> QED
    BY <1>1, <1>6, <2>1 DEF Filled
<1>10. \A y \in Peers(t, p) :
         /\ t.lo[p] < t.lo[y] => u.lo[p] < t.lo[y] /\ \A s \in u.rs[p] : s.key < t.lo[y]
         /\ t.lo[y] < t.lo[p] => t.lo[y] < u.lo[p]
         /\ u.lo[y] = t.lo[y] /\ u.rs[y] = t.rs[y]
  <2> SUFFICES ASSUME NEW y \in Peers(t, p)
               PROVE  /\ t.lo[p] < t.lo[y] => u.lo[p] < t.lo[y] /\ \A s \in u.rs[p] : s.key < t.lo[y]
                      /\ t.lo[y] < t.lo[p] => t.lo[y] < u.lo[p]
                      /\ u.lo[y] = t.lo[y] /\ u.rs[y] = t.rs[y]
    OBVIOUS
  <2>1. y \in t.us /\ y # p /\ t.ht[y] = t.ht[p]
    BY <1>1, <1>7
  <2>2. PICK s \in t.rs[y] : s.key = t.lo[y]
    BY <1>6, <2>1
  <2>3. s # r
    BY <1>1, <1>5, <2>1
  <2>4. ASSUME t.lo[p] < t.lo[y]
        PROVE  t.lo[c] < t.lo[y] /\ \A v \in t.rs[p] : v.key < t.lo[y]
    <3>1. \A v \in t.rs[p] : v.key < t.lo[y]
      BY <1>1, <1>7, <2>4
    <3>2. r.key < t.lo[y]
      BY <1>1, <3>1
    <3> QED
      BY <1>1, <1>3, <1>8, <2>1, <2>2, <2>3, <3>1, <3>2
  <2> QED
    BY <1>1, <1>2, <1>3, <1>4, <1>6, <2>1, <2>4
<1>11. \A x \in t.us : \A y \in Peers(t, x) :
          /\ u.lo[x] < u.lo[y] <=> t.lo[x] < t.lo[y]
          /\ u.lo[x] < u.lo[y] => \A s \in u.rs[x] : s.key < u.lo[y]
  <2> SUFFICES ASSUME NEW x \in t.us, NEW y \in Peers(t, x)
               PROVE  /\ u.lo[x] < u.lo[y] <=> t.lo[x] < t.lo[y]
                      /\ u.lo[x] < u.lo[y] => \A s \in u.rs[x] : s.key < u.lo[y]
    OBVIOUS
  <2>1. y \in t.us /\ x \in Peers(t, y) /\ x # y
    BY <1>7
  <2>2. CASE x = p
    BY <1>1, <1>3, <1>7, <1>10, <2>1, <2>2
  <2>3. CASE y = p
    <3>1. /\ x \in Peers(t, p) /\ u.lo[x] = t.lo[x] /\ u.rs[x] = t.rs[x]
          /\ t.lo[x] < t.lo[p] => t.lo[x] < u.lo[p]
          /\ t.lo[p] < t.lo[x] => u.lo[p] < t.lo[x]
          /\ t.lo[x] # t.lo[p] /\ t.lo[p] <= u.lo[p]
      BY <1>1, <1>3, <1>4, <1>6, <1>7, <1>10, <2>1, <2>3
    <3>2. t.lo[x] < t.lo[p] => \A s \in t.rs[x] : s.key < t.lo[p]
      BY <1>7, <2>3
    <3>3. u.lo[x] < u.lo[p] <=> t.lo[x] < t.lo[p]
      BY <1>1, <1>3, <3>1
    <3>4. u.lo[x] < u.lo[p] => \A s \in u.rs[x] : s.key < u.lo[p]
      BY <1>1, <1>3, <3>1, <3>2, <3>3
    <3> QED
      BY <2>3, <3>3, <3>4
  <2>4. CASE x # p /\ y # p
    BY <1>1, <1>3, <1>7, <2>1, <2>4
  <2> QED
    BY <2>2, <2>3, <2>4
<1>12. Reordered(t, u)
  BY <1>1, <1>11 DEF Reordered, Rekeys
<1>13. TreeType(u) /\ Linked(u) /\ Topped(u, top, {})
  <2> DEFINE st == {c}
  <2>1. Good(t, top, {}, st)
    OBVIOUS
  <2> HIDE DEF st
  <2> QED
    BY <1>12, <2>1, SameOrder DEF Rekeys
<1>14. \A x : Peers(u, x) = Peers(t, x)
  BY <1>1 DEF Peers
<1>15. Apart(u)
  <2> SUFFICES ASSUME NEW x \in t.us, NEW y \in Peers(t, x)
               PROVE  u.lo[x] # u.lo[y] /\ (u.lo[x] < u.lo[y] => \A s \in u.rs[x] : s.key < u.lo[y])
    BY <1>1, <1>14 DEF Apart
  <2>1. y \in t.us /\ x \in Peers(t, y)
    BY <1>7
  <2>2. t.lo[x] < t.lo[y] \/ t.lo[y] < t.lo[x]
    BY <1>3, <1>7, <2>1
  <2> QED
    BY <1>3, <1>11, <2>1, <2>2
<1>16. \A x \in t.us : \A s \in u.rs[x] :
         \E v \in t.rs[x] : v.child = s.child /\ (s.child # c => v = s)
  BY <1>1, <1>2
<1>17. Owned(u, top, {})
  <2>1. ASSUME NEW x \in t.us \ {top}
        PROVE  \E q \in t.us : t.ht[q] > 1 /\ \E s \in u.rs[q] : s.child = x
    <3>1. PICK q \in t.us : t.ht[q] > 1 /\ \E s \in t.rs[q] : s.child = x
      BY DEF Good, Owned
    <3>2. PICK s \in t.rs[q] : s.child = x
      BY <3>1
    <3> QED
      BY <1>1, <1>2, <3>1, <3>2
  <2>2. ASSUME NEW q \in t.us, t.ht[q] > 1, NEW s \in u.rs[q]
        PROVE  s.child # top
    BY <1>16, <2>2 DEF Good, Owned
  <2> QED
    BY <1>1, <2>1, <2>2 DEF Owned
<1>18. \A x \in t.us : t.ht[x] > 1 => \A s \in u.rs[x] :
         /\ s.child \in t.us
         /\ t.ht[x] = t.ht[s.child] + 1
         /\ s.key = t.lo[s.child]
         /\ s.child # p => s.key = u.lo[s.child]
  BY <1>1, <1>2, <1>4, <1>5
<1>19. r.key # t.lo[p] => Indexed(u, {})
  BY <1>1, <1>18 DEF Indexed
<1>20. p = top => Indexed(u, {})
  <2>1. \A x \in t.us : t.ht[x] > 1 => \A s \in u.rs[x] : s.child # top
    BY <1>1, <1>17 DEF Owned
  <2> QED
    BY <1>1, <1>18, <2>1 DEF Indexed
<1>21. ASSUME r.key = t.lo[p]
       PROVE  Indexed(u, {p})
  <2> SUFFICES ASSUME NEW x \in t.us, t.ht[x] > 1, NEW s \in u.rs[x], s.child = p
               PROVE  /\ s.key < u.lo[p]
                      /\ \A y \in Peers(t, p) : u.lo[y] < s.key \/ u.lo[p] < u.lo[y]
                      /\ \A q \in t.us : t.ht[q] > 1 => \A v \in u.rs[q] : v.child = p => q = x /\ v = s
    BY <1>1, <1>14, <1>18 DEF Indexed
  <2>1. s.key = t.lo[p] /\ u.lo[p] = t.lo[c]
    BY <1>1, <1>18, <1>21
  <2>2. \A y \in Peers(t, p) : u.lo[y] < s.key \/ u.lo[p] < u.lo[y]
    BY <1>1, <1>3, <1>7, <1>10, <2>1
  <2>3. \A q \in t.us : \A v \in u.rs[q] : v.child = p => v \in t.rs[q]
    BY <1>4, <1>16
  <2>4. \A q \in t.us : t.ht[q] > 1 => \A v \in u.rs[q] : v.child = p => q = x /\ v = s
    BY <2>3, OneParent
  <2> QED
    BY <1>4, <1>21, <2>1, <2>2, <2>4
<1> QED
  BY <1>9, <1>13, <1>15, <1>17, <1>19, <1>20, <1>21 DEF Good, Rekeyed

\* Nodes l and m are neighbours under node p, where m's record is rm.
Adjoin(t, p, l, m, rm) ==
    /\ p \in t.us /\ l \in t.us /\ m \in t.us
    /\ t.ht[p] > 1
    /\ t.fl[l] = m
    /\ rm \in t.rs[p] /\ rm.child = m
    /\ \E r \in t.rs[p] : r.child = l

\* No other node begins where the two lie.
LEMMA Adjoining ==
    ASSUME NEW t, NEW top, NEW p, NEW l, NEW m, NEW rm,
           Good(t, top, {}, {}), Adjoin(t, p, l, m, rm)
    PROVE  /\ p \in t.us /\ l \in t.us /\ m \in t.us
           /\ t.ht[p] = t.ht[l] + 1 /\ t.ht[m] = t.ht[l]
           /\ l # m /\ p # l /\ p # m
           /\ rm \in t.rs[p] /\ rm.child = m /\ rm.key = t.lo[m]
           /\ t.lo[p] <= t.lo[l] /\ t.lo[l] < t.lo[m]
           /\ \A y \in t.us : t.ht[y] = t.ht[l] /\ y # l /\ y # m =>
                 \/ /\ t.lo[y] < t.lo[l]
                    /\ \A r \in t.rs[y] : r.key < t.lo[l]
                 \/ \A r \in t.rs[l] \cup t.rs[m] : r.key < t.lo[y]
           /\ \A r \in t.rs[l] : t.lo[l] <= r.key /\ r.key < t.lo[m]
           /\ \A r \in t.rs[m] : t.lo[m] <= r.key
           /\ m # top /\ l # top
<1>1. /\ p \in t.us /\ l \in t.us /\ m \in t.us /\ t.ht[p] > 1 /\ t.fl[l] = m
      /\ rm \in t.rs[p] /\ rm.child = m
  BY DEF Adjoin
<1>2. PICK rl \in t.rs[p] : rl.child = l
  BY DEF Adjoin
<1>3. /\ 0 \notin t.us
      /\ \A x \in t.us : t.lo[x] \in Nat /\ t.ht[x] \in Nat
      /\ \A x \in t.us : \A s \in t.rs[x] : s.key \in Nat
  BY TreeNumbers DEF Good
<1>4. /\ t.ht[p] = t.ht[l] + 1 /\ t.ht[p] = t.ht[m] + 1
      /\ rl.key = t.lo[l] /\ rm.key = t.lo[m]
  BY <1>1, <1>2 DEF Good, Indexed
<1>5. l # top /\ m # top
  BY <1>1, <1>2 DEF Good, Owned
<1>6. /\ m \in Peers(t, l) /\ t.lo[l] < t.lo[m]
      /\ \A x \in Peers(t, l) : t.lo[l] < t.lo[x] => t.lo[m] <= t.lo[x]
  BY <1>1, <1>3 DEF Good, Linked
<1>7. \A x \in t.us : \A s \in t.rs[x] : t.lo[x] <= s.key
  BY DEF Good, Filled
<1>8. \A x \in t.us : \A y \in Peers(t, x) :
        /\ t.lo[x] # t.lo[y]
        /\ t.lo[x] < t.lo[y] => \A s \in t.rs[x] : s.key < t.lo[y]
  BY DEF Good, Apart
<1>9. ASSUME NEW y \in t.us, t.ht[y] = t.ht[l], y # l, y # m
      PROVE  \/ /\ t.lo[y] < t.lo[l]
                /\ \A r \in t.rs[y] : r.key < t.lo[l]
             \/ \A r \in t.rs[l] \cup t.rs[m] : r.key < t.lo[y]
  <2>1. y \in Peers(t, l) /\ l \in Peers(t, y) /\ y \in Peers(t, m) /\ m # l
    BY <1>1, <1>3, <1>4, <1>6, <1>9 DEF Peers
  <2>2. CASE t.lo[y] < t.lo[l]
    BY <1>8, <2>1, <2>2
  <2>3. CASE t.lo[l] < t.lo[y]
    <3>1. t.lo[m] < t.lo[y]
      BY <1>1, <1>3, <1>6, <1>8, <2>1, <2>3
    <3> QED
      BY <1>1, <1>8, <2>1, <2>3, <3>1
  <2> QED
    BY <1>1, <1>3, <1>8, <2>1, <2>2, <2>3
<1>10. l # m /\ p # l /\ p # m
  BY <1>1, <1>3, <1>4, <1>6
<1>11. \A r \in t.rs[l] : t.lo[l] <= r.key /\ r.key < t.lo[m]
  BY <1>1, <1>6, <1>7, <1>8
<1>12. t.lo[p] <= t.lo[l]
  BY <1>1, <1>2, <1>4, <1>7
<1>13. t.ht[m] = t.ht[l]
  BY <1>1, <1>3, <1>4
<1> QED
  BY <1>1, <1>4, <1>5, <1>6, <1>7, <1>9, <1>10, <1>11, <1>12, <1>13

\* merge: node m goes, its records are l's now.
Merges(t, u, p, l, m, rm) ==
    /\ Adjoin(t, p, l, m, rm)
    /\ TreeType(u)
    /\ u.us = t.us \ {m}
    /\ \A x \in u.us : u.ht[x] = t.ht[x] /\ u.lo[x] = t.lo[x]
    /\ u.rs[l] = t.rs[l] \cup t.rs[m]
    /\ u.rs[p] = t.rs[p] \ {rm}
    /\ \A x \in u.us \ {l, p} : u.rs[x] = t.rs[x]
    /\ u.fl[l] = t.fl[m] /\ \A x \in u.us \ {l} : u.fl[x] = t.fl[x]
    /\ t.fl[m] # 0 => u.bl[t.fl[m]] = l
    /\ \A x \in u.us \ {t.fl[m]} : u.bl[x] = t.bl[x]

\* Merging two neighbours under one parent leaves a good tree.
LEMMA MergeKeeps ==
    ASSUME NEW t, NEW u, NEW top, NEW p, NEW l, NEW m, NEW rm,
           Good(t, top, {}, {}), Merges(t, u, p, l, m, rm)
    PROVE  Good(u, top, {}, {})
<1>1. /\ p \in t.us /\ l \in t.us /\ m \in t.us
      /\ t.ht[p] = t.ht[l] + 1 /\ t.ht[m] = t.ht[l]
      /\ l # m /\ p # l /\ p # m
      /\ rm \in t.rs[p] /\ rm.child = m /\ rm.key = t.lo[m]
      /\ t.lo[p] <= t.lo[l] /\ t.lo[l] < t.lo[m]
      /\ \A r \in t.rs[l] : t.lo[l] <= r.key /\ r.key < t.lo[m]
      /\ \A r \in t.rs[m] : t.lo[m] <= r.key
      /\ m # top /\ l # top
  BY Adjoining DEF Merges
<1>2. \A y \in t.us : t.ht[y] = t.ht[l] /\ y # l /\ y # m =>
         \/ /\ t.lo[y] < t.lo[l]
            /\ \A r \in t.rs[y] : r.key < t.lo[l]
         \/ \A r \in t.rs[l] \cup t.rs[m] : r.key < t.lo[y]
  BY Adjoining DEF Merges
<1>3. /\ u.us = t.us \ {m} /\ l \in u.us /\ p \in u.us
      /\ \A x \in u.us : u.ht[x] = t.ht[x] /\ u.lo[x] = t.lo[x]
      /\ u.rs[l] = t.rs[l] \cup t.rs[m]
      /\ u.rs[p] = t.rs[p] \ {rm}
      /\ \A x \in u.us \ {l, p} : u.rs[x] = t.rs[x]
  BY <1>1 DEF Merges
<1>4. /\ t.fl[l] = m
      /\ u.fl[l] = t.fl[m] /\ \A x \in u.us \ {l} : u.fl[x] = t.fl[x]
      /\ t.fl[m] # 0 => u.bl[t.fl[m]] = l
      /\ \A x \in u.us \ {t.fl[m]} : u.bl[x] = t.bl[x]
  BY DEF Merges, Adjoin
<1>5. /\ 0 \notin t.us
      /\ \A x \in t.us : t.lo[x] \in Nat /\ t.ht[x] \in Nat
      /\ \A x \in t.us : \A s \in t.rs[x] : s.key \in Nat
  BY TreeNumbers DEF Good
<1>6. \A x \in t.us : /\ t.ht[x] > 0
                      /\ \A s \in t.rs[x] : t.lo[x] <= s.key
                      /\ \A a, b \in t.rs[x] : a.key = b.key => a = b
                      /\ \E s \in t.rs[x] : s.key = t.lo[x]
  BY DEF Good, Filled
<1>7. \A x \in t.us : \A y \in t.us :
         t.ht[y] = t.ht[x] /\ y # x =>
             t.lo[x] # t.lo[y] /\ (t.lo[x] < t.lo[y] => \A r \in t.rs[x] : r.key < t.lo[y])
  BY DEF Good, Apart, Peers
<1>8. Filled(u)
  <2> SUFFICES ASSUME NEW x \in u.us
               PROVE  /\ u.ht[x] > 0
                      /\ \E r \in u.rs[x] : r.key = u.lo[x]
                      /\ \A r \in u.rs[x] : u.lo[x] <= r.key
                      /\ \A r, s \in u.rs[x] : r.key = s.key => r = s
    BY DEF Filled
  <2>1. CASE x = l
    BY <1>1, <1>3, <1>5, <1>6, <2>1
  <2>2. CASE x = p
    BY <1>1, <1>3, <1>5, <1>6, <2>2
  <2>3. CASE x \notin {l, p}
    BY <1>3, <1>6, <2>3
  <2> QED
    BY <2>1, <2>2, <2>3
<1>9. Apart(u)
  <2> SUFFICES ASSUME NEW x \in u.us, NEW y \in u.us, u.ht[y] = u.ht[x], y # x
               PROVE  u.lo[x] # u.lo[y] /\ (u.lo[x] < u.lo[y] => \A r \in u.rs[x] : r.key < u.lo[y])
    BY DEF Apart, Peers
  <2>1. CASE x = l
    BY <1>1, <1>2, <1>3, <1>5, <1>6, <1>7, <2>1
  <2>2. CASE x # l
    BY <1>1, <1>3, <1>5, <1>7, <2>2
  <2> QED
    BY <2>1, <2>2
<1>10. Linked(u)
  <2> DEFINE f == t.fl[m]
  <2>1. /\ u.fl[l] = f /\ \A x \in u.us \ {l} : u.fl[x] = t.fl[x]
        /\ f # 0 => u.bl[f] = l
        /\ \A x \in u.us \ {f} : u.bl[x] = t.bl[x]
    BY <1>4
  <2>2. \A x \in t.us :
          /\ t.fl[x] = 0 => \A y \in t.us : t.ht[y] = t.ht[x] /\ y # x => t.lo[y] < t.lo[x]
          /\ t.fl[x] # 0 =>
                /\ t.fl[x] \in t.us /\ t.ht[t.fl[x]] = t.ht[x] /\ t.fl[x] # x
                /\ t.lo[x] < t.lo[t.fl[x]]
                /\ \A y \in t.us : t.ht[y] = t.ht[x] /\ y # x /\ t.lo[x] < t.lo[y] => t.lo[t.fl[x]] <= t.lo[y]
    BY DEF Good, Linked, Peers
  <2>3. \A x \in t.us :
          /\ t.bl[x] = 0 => \A y \in t.us : t.ht[y] = t.ht[x] /\ y # x => t.lo[x] < t.lo[y]
          /\ t.bl[x] # 0 => t.bl[x] \in t.us /\ t.fl[t.bl[x]] = x
    BY DEF Good, Linked, Peers
  <2> HIDE DEF f
  <2>4. f = t.fl[m]
    BY DEF f
  <2>5. \A y \in u.us : t.ht[y] = t.ht[l] /\ y # l =>
           t.lo[y] < t.lo[l] \/ t.lo[m] < t.lo[y]
    BY <1>1, <1>2, <1>3, <1>5, <1>6
  <2>6. ASSUME NEW x \in t.us, t.fl[x] = m
        PROVE  x = l
    BY <1>1, <1>4, <1>5, <1>7, <2>2, <2>6
  <2>7. ASSUME NEW x \in u.us
        PROVE  /\ u.fl[x] = 0 => \A y \in u.us : u.ht[y] = u.ht[x] /\ y # x => u.lo[y] < u.lo[x]
               /\ u.fl[x] # 0 =>
                    /\ u.fl[x] \in u.us /\ u.ht[u.fl[x]] = u.ht[x] /\ u.fl[x] # x
                    /\ u.lo[x] < u.lo[u.fl[x]]
                    /\ \A y \in u.us : u.ht[y] = u.ht[x] /\ y # x /\ u.lo[x] < u.lo[y] => u.lo[u.fl[x]] <= u.lo[y]
    <3>1. CASE x = l
      <4>1. f # 0 => /\ f \in t.us /\ t.ht[f] = t.ht[l] /\ f # m /\ t.lo[m] < t.lo[f] /\ f # l
        BY <1>1, <1>5, <2>2, <2>4
      <4>2. f = 0 => \A y \in t.us : t.ht[y] = t.ht[l] /\ y # m => t.lo[y] < t.lo[m]
        BY <1>1, <2>2, <2>4
      <4>3. f # 0 => \A y \in t.us : t.ht[y] = t.ht[l] /\ y # m /\ t.lo[m] < t.lo[y] => t.lo[f] <= t.lo[y]
        BY <1>1, <2>2, <2>4
      <4>4. CASE f = 0
        BY <1>1, <1>3, <1>5, <2>1, <2>5, <3>1, <4>2, <4>4
      <4>5. CASE f # 0
        BY <1>1, <1>3, <1>5, <2>1, <2>5, <3>1, <4>1, <4>3, <4>5
      <4> QED
        BY <4>4, <4>5
    <3>2. CASE x # l
      <4>1. u.fl[x] = t.fl[x] /\ t.fl[x] # m /\ x \in t.us
        BY <1>3, <2>1, <2>6, <3>2
      <4>2. t.fl[x] # 0 => t.fl[x] \in u.us
        BY <1>3, <2>2, <4>1
      <4> QED
        BY <1>3, <2>2, <4>1, <4>2
    <3> QED
      BY <3>1, <3>2
  <2>8. ASSUME NEW x \in u.us
        PROVE  /\ u.bl[x] = 0 => \A y \in u.us : u.ht[y] = u.ht[x] /\ y # x => u.lo[x] < u.lo[y]
               /\ u.bl[x] # 0 => u.bl[x] \in u.us /\ u.fl[u.bl[x]] = x
    <3>1. CASE x = f
      BY <1>3, <1>5, <2>1, <3>1
    <3>2. CASE x # f
      <4>1. u.bl[x] = t.bl[x] /\ x \in t.us
        BY <1>3, <2>1, <3>2
      <4>2. t.bl[x] # m /\ t.bl[x] # l
        BY <1>1, <1>3, <1>4, <1>5, <2>3, <2>4, <3>2, <4>1
      <4> QED
        BY <1>3, <2>1, <2>3, <4>1, <4>2
    <3> QED
      BY <3>1, <3>2
  <2> QED
    BY <2>7, <2>8 DEF Linked, Peers
<1>11. \A x \in t.us : t.ht[x] > 1 => \A r \in t.rs[x] :
          /\ r.child \in t.us /\ t.ht[x] = t.ht[r.child] + 1 /\ r.key = t.lo[r.child]
          /\ r.child = m => x = p /\ r = rm
          /\ r.child # top
  <2>1. \A x \in t.us : t.ht[x] > 1 => \A r \in t.rs[x] : r.child = m => x = p /\ r = rm
    BY <1>1, OneParent DEF Merges, Adjoin
  <2> QED
    BY <2>1 DEF Good, Indexed, Owned
<1>12. \A x \in u.us : u.ht[x] > 1 => \A r \in u.rs[x] :
          r.child \in u.us /\ u.ht[x] = u.ht[r.child] + 1 /\ r.key = u.lo[r.child] /\ r.child # top
  <2> SUFFICES ASSUME NEW x \in u.us, u.ht[x] > 1, NEW r \in u.rs[x]
               PROVE  r.child \in u.us /\ u.ht[x] = u.ht[r.child] + 1 /\ r.key = u.lo[r.child] /\ r.child # top
    OBVIOUS
  <2>1. \E y \in t.us : t.ht[y] = t.ht[x] /\ t.ht[y] > 1 /\ r \in t.rs[y] /\ r # rm
    <3>1. CASE x = l
      <4>1. rm \notin t.rs[l] \cup t.rs[m]
        BY <1>1, <1>3, <1>5, <1>11, <2>1, <3>1
      <4> QED
        BY <1>1, <1>3, <3>1, <4>1
    <3>2. CASE x = p
      BY <1>3, <3>2
    <3>3. CASE x \notin {l, p}
      <4>1. rm \notin t.rs[x]
        BY <1>1, <1>3, <1>11, <3>3
      <4> QED
        BY <1>3, <3>3, <4>1
    <3> QED
      BY <3>1, <3>2, <3>3
  <2> QED
    BY <1>1, <1>3, <1>11, <2>1
<1>13. Indexed(u, {})
  BY <1>12 DEF Indexed
<1>14. Owned(u, top, {})
  <2>1. ASSUME NEW x \in u.us \ {top}
        PROVE  \E q \in u.us : u.ht[q] > 1 /\ \E r \in u.rs[q] : r.child = x
    <3>1. PICK q \in t.us : t.ht[q] > 1 /\ \E r \in t.rs[q] : r.child = x
      BY <1>3 DEF Good, Owned
    <3>2. PICK r \in t.rs[q] : r.child = x
      BY <3>1
    <3>3. CASE q = m
      BY <1>1, <1>3, <3>1, <3>2, <3>3
    <3>4. CASE q # m
      BY <1>1, <1>3, <3>1, <3>2, <3>4
    <3> QED
      BY <3>3, <3>4
  <2> QED
    BY <1>12, <2>1 DEF Owned
<1>15. Topped(u, top, {})
  BY <1>1, <1>3 DEF Good, Topped
<1> QED
  BY <1>8, <1>9, <1>10, <1>13, <1>14, <1>15 DEF Good, Merges

\* rotateFromLeft and rotateFromRight: the border between l and m moves to k.
Shifts(t, u, p, l, m, rm, k) ==
    /\ Adjoin(t, p, l, m, rm)
    /\ TreeType(u)
    /\ u.us = t.us /\ u.ht = t.ht /\ u.fl = t.fl /\ u.bl = t.bl
    /\ t.lo[l] < k /\ \E r \in t.rs[l] \cup t.rs[m] : r.key = k
    /\ u.lo[m] = k /\ \A x \in t.us \ {m} : u.lo[x] = t.lo[x]
    /\ u.rs[l] = {r \in t.rs[l] \cup t.rs[m] : r.key < k}
    /\ u.rs[m] = {r \in t.rs[l] \cup t.rs[m] : k <= r.key}
    /\ u.rs[p] = (t.rs[p] \ {rm}) \cup {indexRecord(k, m)}
    /\ \A x \in t.us \ {l, m, p} : u.rs[x] = t.rs[x]

\* Shifting a record between two neighbours leaves a good tree.
LEMMA ShiftKeeps ==
    ASSUME NEW t, NEW u, NEW top, NEW p, NEW l, NEW m, NEW rm, NEW k,
           Good(t, top, {}, {}), Shifts(t, u, p, l, m, rm, k)
    PROVE  Good(u, top, {}, {})
<1> DEFINE i == indexRecord(k, m)
<1>1. /\ p \in t.us /\ l \in t.us /\ m \in t.us
      /\ t.ht[p] = t.ht[l] + 1 /\ t.ht[m] = t.ht[l]
      /\ l # m /\ p # l /\ p # m
      /\ rm \in t.rs[p] /\ rm.child = m /\ rm.key = t.lo[m]
      /\ t.lo[p] <= t.lo[l] /\ t.lo[l] < t.lo[m]
      /\ \A r \in t.rs[l] : t.lo[l] <= r.key /\ r.key < t.lo[m]
      /\ \A r \in t.rs[m] : t.lo[m] <= r.key
      /\ m # top /\ l # top
  BY Adjoining DEF Shifts
<1>2. \A y \in t.us : t.ht[y] = t.ht[l] /\ y # l /\ y # m =>
         \/ /\ t.lo[y] < t.lo[l]
            /\ \A r \in t.rs[y] : r.key < t.lo[l]
         \/ \A r \in t.rs[l] \cup t.rs[m] : r.key < t.lo[y]
  BY Adjoining DEF Shifts
<1>3. /\ u.us = t.us /\ u.ht = t.ht /\ u.fl = t.fl /\ u.bl = t.bl
      /\ t.lo[l] < k /\ \E r \in t.rs[l] \cup t.rs[m] : r.key = k
      /\ u.lo[m] = k /\ \A x \in t.us \ {m} : u.lo[x] = t.lo[x]
      /\ u.rs[l] = {r \in t.rs[l] \cup t.rs[m] : r.key < k}
      /\ u.rs[m] = {r \in t.rs[l] \cup t.rs[m] : k <= r.key}
      /\ u.rs[p] = (t.rs[p] \ {rm}) \cup {i}
      /\ \A x \in t.us \ {l, m, p} : u.rs[x] = t.rs[x]
  BY DEF Shifts
<1>4. i.key = k /\ i.child = m
  BY DEF indexRecord
<1> HIDE DEF i
<1>5. /\ 0 \notin t.us
      /\ \A x \in t.us : t.lo[x] \in Nat /\ t.ht[x] \in Nat /\ u.lo[x] \in Nat
      /\ \A x \in t.us : \A s \in t.rs[x] : s.key \in Nat
      /\ k \in Nat
  <2>1. TreeType(t) /\ TreeType(u) /\ u.us = t.us
    BY DEF Good, Shifts
  <2> QED
    BY <1>1, <1>3, <2>1, TreeNumbers
<1>6. \A x \in t.us : /\ t.ht[x] > 0
                      /\ \A s \in t.rs[x] : t.lo[x] <= s.key
                      /\ \A a, b \in t.rs[x] : a.key = b.key => a = b
                      /\ \E s \in t.rs[x] : s.key = t.lo[x]
  BY DEF Good, Filled
<1>7. \A x \in t.us : \A y \in t.us :
         t.ht[y] = t.ht[x] /\ y # x =>
             t.lo[x] # t.lo[y] /\ (t.lo[x] < t.lo[y] => \A r \in t.rs[x] : r.key < t.lo[y])
  BY DEF Good, Apart, Peers
\* On their level, the nodes that begin before l and those that begin after m.
<1>8. \A y \in t.us : t.ht[y] = t.ht[l] /\ y # l /\ y # m =>
         \/ t.lo[y] < t.lo[l] /\ t.lo[y] < k /\ \A r \in t.rs[y] : r.key < t.lo[l] /\ r.key < k
         \/ /\ t.lo[l] < t.lo[y] /\ t.lo[m] < t.lo[y] /\ k < t.lo[y]
            /\ \A r \in t.rs[l] \cup t.rs[m] : r.key < t.lo[y]
  BY <1>1, <1>2, <1>3, <1>5, <1>6
<1>9. \A x \in t.us : t.ht[x] > 1 => \A r \in t.rs[x] :
          /\ r.child \in t.us /\ t.ht[x] = t.ht[r.child] + 1 /\ r.key = t.lo[r.child]
          /\ r.child = m => x = p /\ r = rm
          /\ r.child # top
  <2>1. \A x \in t.us : t.ht[x] > 1 => \A r \in t.rs[x] : r.child = m => x = p /\ r = rm
    BY <1>1, OneParent DEF Shifts, Adjoin
  <2> QED
    BY <2>1 DEF Good, Indexed, Owned
<1>10. t.ht[p] > 1
  BY <1>1, <1>5, <1>6
\* So the records beside rm have keys below the border or above all of m's.
<1>11. ASSUME NEW x \in t.us, t.ht[x] = t.ht[p], NEW s \in t.rs[x], s # rm
       PROVE  \/ s.key <= t.lo[l] /\ s.key < k /\ s.key < t.lo[m]
              \/ k < s.key /\ t.lo[m] < s.key
  <2>1. s.child \in t.us /\ t.ht[s.child] = t.ht[l] /\ s.child # m /\ s.key = t.lo[s.child]
    BY <1>1, <1>5, <1>9, <1>10, <1>11
  <2>2. CASE s.child = l
    BY <1>1, <1>3, <1>5, <2>1, <2>2
  <2>3. CASE s.child # l
    BY <1>1, <1>5, <1>8, <2>1, <2>3
  <2> QED
    BY <2>2, <2>3
<1>12. Filled(u)
  <2> SUFFICES ASSUME NEW x \in t.us
               PROVE  /\ t.ht[x] > 0
                      /\ \E r \in u.rs[x] : r.key = u.lo[x]
                      /\ \A r \in u.rs[x] : u.lo[x] <= r.key
                      /\ \A r, s \in u.rs[x] : r.key = s.key => r = s
    BY <1>3 DEF Filled
  <2>1. \A r, s \in t.rs[l] \cup t.rs[m] : r.key = s.key => r = s
    BY <1>1, <1>5, <1>6
  <2>2. CASE x = l
    BY <1>1, <1>3, <1>5, <1>6, <2>1, <2>2
  <2>3. CASE x = m
    BY <1>1, <1>3, <1>5, <1>6, <2>1, <2>3
  <2>4. CASE x = p
    <3>1. \A s \in t.rs[p] \ {rm} : s.key # k
      BY <1>1, <1>5, <1>11
    <3>2. \A r, s \in u.rs[p] : r.key = s.key => r = s
      BY <1>1, <1>3, <1>4, <1>6, <3>1
    <3>3. \E r \in u.rs[p] : r.key = t.lo[p]
      BY <1>1, <1>3, <1>5, <1>6
    <3>4. \A r \in u.rs[p] : t.lo[p] <= r.key
      BY <1>1, <1>3, <1>4, <1>5, <1>6
    <3> QED
      BY <1>1, <1>3, <1>6, <2>4, <3>2, <3>3, <3>4
  <2>5. CASE x \notin {l, m, p}
    BY <1>3, <1>6, <2>5
  <2> QED
    BY <2>2, <2>3, <2>4, <2>5
<1>13. \A x \in t.us : \A y \in t.us : t.ht[y] = t.ht[x] /\ y # x =>
          /\ u.lo[x] # u.lo[y]
          /\ u.lo[x] < u.lo[y] <=> t.lo[x] < t.lo[y]
          /\ u.lo[x] < u.lo[y] => \A r \in u.rs[x] : r.key < u.lo[y]
  <2> SUFFICES ASSUME NEW x \in t.us, NEW y \in t.us, t.ht[y] = t.ht[x], y # x
               PROVE  /\ u.lo[x] # u.lo[y]
                      /\ u.lo[x] < u.lo[y] <=> t.lo[x] < t.lo[y]
                      /\ u.lo[x] < u.lo[y] => \A r \in u.rs[x] : r.key < u.lo[y]
    OBVIOUS
  <2>1. CASE x \in {l, m} /\ y \in {l, m}
    BY <1>1, <1>3, <1>5, <2>1
  <2>2. CASE x \in {l, m} /\ y \notin {l, m}
    BY <1>1, <1>3, <1>5, <1>8, <2>2
  <2>3. CASE x \notin {l, m} /\ y \in {l, m}
    <3>1. x # p /\ u.rs[x] = t.rs[x] /\ u.lo[x] = t.lo[x]
      BY <1>1, <1>3, <1>5, <2>3
    <3> QED
      BY <1>1, <1>3, <1>5, <1>8, <2>3, <3>1
  <2>4. CASE x = p
    <3>1. u.lo[x] = t.lo[x] /\ u.lo[y] = t.lo[y] /\ t.lo[x] # t.lo[y] /\ y # m
      BY <1>1, <1>3, <1>5, <1>7, <2>4
    <3>2. ASSUME t.lo[p] < t.lo[y] PROVE k < t.lo[y]
      <4>1. PICK s \in t.rs[y] : s.key = t.lo[y]
        BY <1>6
      <4>2. s # rm
        BY <1>1, <1>9, <1>10, <2>4
      <4>3. t.lo[m] < t.lo[y]
        BY <1>1, <1>7, <2>4, <3>2
      <4> QED
        BY <1>1, <1>5, <1>11, <2>4, <4>1, <4>2, <4>3
    <3>3. ASSUME t.lo[p] < t.lo[y] PROVE \A r \in u.rs[p] : r.key < t.lo[y]
      BY <1>3, <1>4, <1>7, <2>4, <3>2, <3>3
    <3> QED
      BY <2>4, <3>1, <3>3
  <2>5. CASE x \notin {l, m, p} /\ y \notin {l, m}
    BY <1>3, <1>7, <2>5
  <2> QED
    BY <2>1, <2>2, <2>3, <2>4, <2>5
<1>14. Apart(u)
  BY <1>3, <1>13 DEF Apart, Peers
<1>15. TreeType(u) /\ Linked(u) /\ Topped(u, top, {})
  <2>1. Reordered(t, u)
    BY <1>3, <1>13 DEF Reordered, Shifts, Peers
  <2> QED
    BY <2>1, SameOrder DEF Shifts
<1>16. \A x \in t.us : t.ht[x] > 1 => \A r \in u.rs[x] :
          r.child \in t.us /\ t.ht[x] = t.ht[r.child] + 1 /\ r.key = u.lo[r.child] /\ r.child # top
  <2> SUFFICES ASSUME NEW x \in t.us, t.ht[x] > 1, NEW r \in u.rs[x]
               PROVE  r.child \in t.us /\ t.ht[x] = t.ht[r.child] + 1 /\ r.key = u.lo[r.child] /\ r.child # top
    OBVIOUS
  <2>1. CASE x = p /\ r = i
    BY <1>1, <1>3, <1>4, <2>1
  <2>2. CASE ~(x = p /\ r = i)
    <3>1. \E y \in t.us : t.ht[y] = t.ht[x] /\ r \in t.rs[y] /\ (y = p => r # rm)
      BY <1>1, <1>3, <1>5, <2>2
    <3> QED
      BY <1>3, <1>9, <3>1
  <2> QED
    BY <2>1, <2>2
<1>17. Indexed(u, {})
  BY <1>3, <1>16 DEF Indexed
<1>18. Owned(u, top, {})
  <2>1. ASSUME NEW x \in t.us \ {top}
        PROVE  \E q \in t.us : t.ht[q] > 1 /\ \E r \in u.rs[q] : r.child = x
    <3>1. PICK q \in t.us : t.ht[q] > 1 /\ \E r \in t.rs[q] : r.child = x
      BY DEF Good, Owned
    <3>2. PICK r \in t.rs[q] : r.child = x
      BY <3>1
    <3>3. CASE q \in {l, m} /\ r.key < k
      BY <1>1, <1>3, <3>1, <3>2, <3>3
    <3>4. CASE q \in {l, m} /\ k <= r.key
      BY <1>1, <1>3, <3>1, <3>2, <3>4
    <3>5. CASE q = p
      BY <1>1, <1>3, <1>4, <3>1, <3>2, <3>5
    <3>6. CASE q \notin {l, m, p}
      BY <1>3, <3>1, <3>2, <3>6
    <3>7. r.key < k \/ k <= r.key
      BY <1>5
    <3> QED
      BY <3>3, <3>4, <3>5, <3>6, <3>7
  <2> QED
    BY <1>3, <1>16, <2>1 DEF Owned
<1> QED
  BY <1>12, <1>14, <1>15, <1>17, <1>18 DEF Good

-----------------------------------------------------------------------------
(* Induction and recursion, in a form that applies to sets and functions.  *)

\* A set of numbers has a least element.
LEMMA LeastOf ==
    ASSUME NEW S \in SUBSET Nat, S # {}
    PROVE  \E m \in S : \A x \in S : m <= x
<1> DEFINE R == OpToRel(<, Nat)
<1>1. IsWellFoundedOn(R, Nat)
  BY NatLessThanWellFounded
<1>2. ASSUME NEW x \in Nat, NEW y \in Nat, x < y
      PROVE  <<x, y>> \in R
  BY <1>2 DEF OpToRel
<1> HIDE DEF R
<1>3. PICK m \in S : \A x \in S : ~(<<x, m>> \in R)
  BY <1>1, WFMin
<1>4. ASSUME NEW x \in S
      PROVE  m <= x
  <2>1. x \in Nat /\ m \in Nat
    OBVIOUS
  <2>2. ~(x < m)
    BY <1>2, <1>3, <2>1, Zenon
  <2> QED
    BY <2>1, <2>2
<1> QED
  BY <1>3, <1>4

\* Min is that element.
LEMMA MinOf ==
    ASSUME NEW S \in SUBSET Nat, S # {}
    PROVE  Min(S) \in S /\ \A x \in S : Min(S) <= x
<1>1. \E m \in S : \A x \in S : m <= x
  BY LeastOf
<1> QED
  BY <1>1 DEF Min

\* What holds of the first number and passes from each to the next holds of all.
LEMMA Inducts ==
    ASSUME NEW S, NEW a \in Nat, NEW b \in Nat, a \in S,
           \A n \in a .. b : n \in S /\ n < b => n + 1 \in S
    PROVE  a .. b \subseteq S
<1> SUFFICES ASSUME ~(a .. b \subseteq S) PROVE FALSE
  OBVIOUS
<1> DEFINE B == {n \in a .. b : n \notin S}
<1>1. B \in SUBSET Nat /\ B # {}
  OBVIOUS
<1>2. PICK m \in B : \A x \in B : m <= x
  BY <1>1, LeastOf
<1>3. m \in a .. b /\ m \notin S /\ m # a
  BY <1>2
<1>4. m - 1 \in a .. b /\ m - 1 < b /\ (m - 1) + 1 = m
  BY <1>3
<1>5. m - 1 \notin B
  BY <1>2, <1>3, <1>4
<1> QED
  BY <1>3, <1>4, <1>5

\* Max is the greatest element of a bounded set.
LEMMA MaxOf ==
    ASSUME NEW S \in SUBSET Nat, S # {}, NEW b \in Nat, \A x \in S : x <= b
    PROVE  Max(S) \in S /\ \A x \in S : x <= Max(S)
<1> DEFINE U == {n \in Nat : \A x \in S : x <= n}
<1>1. U \in SUBSET Nat /\ U # {}
  OBVIOUS
<1>2. PICK m \in U : \A x \in U : m <= x
  BY <1>1, LeastOf
<1>3. m \in S
  <2> SUFFICES ASSUME m \notin S PROVE FALSE
    OBVIOUS
  <2>1. PICK y \in S : TRUE
    OBVIOUS
  <2>2. m \in Nat /\ y \in Nat /\ y <= m /\ y # m
    BY <1>2, <2>1
  <2>3. m - 1 \in Nat
    BY <2>2
  <2>4. \A x \in S : x <= m - 1
    BY <1>2, <2>2
  <2> QED
    BY <1>2, <2>3, <2>4
<1>4. \E n \in S : \A x \in S : x <= n
  BY <1>2, <1>3
<1> QED
  BY <1>4 DEF Max

\* A function given by its first value and by how each follows the one before.
Iteration(f, s0, N, G) == f[0] = s0 /\ \A i \in 1 .. N : f[i] = G[<<i, f[i - 1]>>]

\* A function applied over and over has a sequence of results.
LEMMA Iterates ==
    ASSUME NEW S, NEW s0 \in S, NEW N \in Nat, NEW G \in [(1 .. N) \X S -> S]
    PROVE  \E f \in [0 .. N -> S] : Iteration(f, s0, N, G)
<1> DEFINE P(n) == \E f \in [0 .. n -> S] :
                      f[0] = s0 /\ \A i \in 1 .. n : f[i] = G[<<i, f[i - 1]>>]
           Q == {n \in 0 .. N : P(n)}
<1>1. 0 \in Q
  <2> DEFINE f0 == [i \in 0 .. 0 |-> s0]
  <2>1. f0 \in [0 .. 0 -> S] /\ f0[0] = s0 /\ \A i \in 1 .. 0 : f0[i] = G[<<i, f0[i - 1]>>]
    OBVIOUS
  <2> HIDE DEF f0
  <2>2. P(0)
    BY <2>1
  <2> QED
    BY <2>2
<1>2. ASSUME NEW n \in 0 .. N, n \in Q, n < N
      PROVE  n + 1 \in Q
  <2>1. PICK f \in [0 .. n -> S] : f[0] = s0 /\ \A i \in 1 .. n : f[i] = G[<<i, f[i - 1]>>]
    BY <1>2
  <2> DEFINE g == [i \in 0 .. n + 1 |-> IF i = n + 1 THEN G[<<n + 1, f[n]>>] ELSE f[i]]
  <2>2. f[n] \in S /\ n + 1 \in 1 .. N
    BY <1>2
  <2>3. G[<<n + 1, f[n]>>] \in S
    BY <2>2
  <2>4. g \in [0 .. n + 1 -> S]
    BY <2>3
  <2>5. g[0] = s0
    BY <2>1
  <2>6. ASSUME NEW i \in 1 .. n + 1
        PROVE  g[i] = G[<<i, g[i - 1]>>]
    <3>1. CASE i = n + 1
      <4>1. i - 1 = n /\ n \in 0 .. n + 1 /\ n # n + 1
        BY <3>1
      <4>2. g[i] = G[<<n + 1, f[n]>>] /\ g[n] = f[n]
        BY <3>1, <4>1
      <4> HIDE DEF g
      <4> QED
        BY <3>1, <4>1, <4>2
    <3>2. CASE i # n + 1
      <4>1. i \in 1 .. n /\ i - 1 \in 0 .. n /\ i \in 0 .. n
        BY <3>2
      <4>2. g[i] = f[i] /\ g[i - 1] = f[i - 1]
        BY <4>1
      <4> QED
        BY <4>1, <4>2, <2>1
    <3> QED
      BY <3>1, <3>2
  <2> HIDE DEF g
  <2>7. P(n + 1)
    BY <2>4, <2>5, <2>6
  <2> QED
    BY <2>2, <2>7
<1>3. 0 .. N \subseteq Q
  <2> HIDE DEF Q
  <2> QED
    BY <1>1, <1>2, Inducts
<1> QED
  BY <1>3 DEF Iteration

-----------------------------------------------------------------------------
(* Records in key order.                                                   *)

\* The records of a node: positions, members and keys.
LEMMA KeyNumbers ==
    ASSUME NEW s \in Seq(Recs)
    PROVE  /\ \A i \in 1 .. Len(s) : s[i] \in Recs /\ s[i].key \in Nat /\ s[i].key \in Keys
           /\ DOMAIN s = 1 .. Len(s) /\ Len(s) \in Nat
           /\ \A x \in ToSet(s) : x \in Recs /\ x.key \in Nat
           /\ ToSet(s) \in SUBSET Recs
           /\ \A i \in 1 .. Len(s) : s[i] \in ToSet(s)
           /\ \A x \in ToSet(s) : \E i \in 1 .. Len(s) : s[i] = x
           /\ s = <<>> <=> Len(s) = 0
<1>1. \A x \in Recs : x.key \in Keys /\ x.key \in Nat
  BY KeysAssumption DEF Recs
<1>2. DOMAIN s = 1 .. Len(s) /\ Len(s) \in Nat /\ \A i \in 1 .. Len(s) : s[i] \in Recs
  OBVIOUS
<1>3. s = <<>> <=> Len(s) = 0
  BY EmptySeq
<1> QED
  BY <1>1, <1>2, <1>3 DEF ToSet

\* A list put together from two, and from three.
IsJoin(z, x, y) ==
    /\ Len(z) = Len(x) + Len(y)
    /\ \A j \in 1 .. Len(x) : z[j] = x[j]
    /\ \A j \in 1 .. Len(y) : z[Len(x) + j] = y[j]

\* A concatenation, position by position.
LEMMA Joined ==
    ASSUME NEW T, NEW x \in Seq(T), NEW y \in Seq(T)
    PROVE  x \o y \in Seq(T) /\ IsJoin(x \o y, x, y)
<1>1. x \o y \in Seq(T) /\ Len(x \o y) = Len(x) + Len(y)
  OBVIOUS
<1>2. Len(x) \in Nat /\ Len(y) \in Nat
  OBVIOUS
<1>3. \A j \in 1 .. Len(x) + Len(y) : (x \o y)[j] = IF j <= Len(x) THEN x[j] ELSE y[j - Len(x)]
  BY ConcatProperties, Zenon
<1> DEFINE z == x \o y
<1> HIDE DEF z
<1>4. \A j \in 1 .. Len(x) + Len(y) : z[j] = IF j <= Len(x) THEN x[j] ELSE y[j - Len(x)]
  BY <1>3 DEF z
<1>5. \A j \in 1 .. Len(x) : z[j] = x[j]
  BY <1>2, <1>4
<1>6. ASSUME NEW j \in 1 .. Len(y)
      PROVE  z[Len(x) + j] = y[j]
  <2>1. Len(x) + j \in 1 .. Len(x) + Len(y) /\ ~(Len(x) + j <= Len(x)) /\ (Len(x) + j) - Len(x) = j
    BY <1>2
  <2> QED
    BY <1>4, <2>1
<1> QED
  BY <1>1, <1>5, <1>6 DEF z, IsJoin

IsSplice(q, s, a, m, b) ==
    /\ Len(q) = a - 1 + Len(m) + (Len(s) + 1 - b)
    /\ \A j \in 1 .. a - 1 : q[j] = s[j]
    /\ \A j \in 1 .. Len(m) : q[a - 1 + j] = m[j]
    /\ \A j \in b .. Len(s) : q[a - 1 + Len(m) + (j - b + 1)] = s[j]

\* A sequence whose middle is replaced, position by position.
LEMMA Spliced ==
    ASSUME NEW T, NEW s \in Seq(T), NEW a \in 1 .. Len(s) + 1, NEW b \in 1 .. Len(s) + 1, NEW m \in Seq(T)
    PROVE  /\ SubSeq(s, 1, a - 1) \o m \o SubSeq(s, b, Len(s)) \in Seq(T)
           /\ IsSplice(SubSeq(s, 1, a - 1) \o m \o SubSeq(s, b, Len(s)), s, a, m, b)
<1> DEFINE x == SubSeq(s, 1, a - 1)
           y == SubSeq(s, b, Len(s))
<1>1. Len(s) \in Nat /\ Len(m) \in Nat
  OBVIOUS
<1>2. x \in Seq(T) /\ Len(x) = a - 1 /\ \A j \in 1 .. a - 1 : x[j] = s[j]
  BY <1>1, SubSeqProperties
<1>3. y \in Seq(T) /\ Len(y) = Len(s) + 1 - b /\ \A j \in 1 .. Len(s) + 1 - b : y[j] = s[b + j - 1]
  BY <1>1, SubSeqProperties
<1> HIDE DEF x, y
<1>4. x \o m \in Seq(T) /\ IsJoin(x \o m, x, m)
  BY <1>2, Joined
<1> DEFINE z == x \o m
<1> HIDE DEF z
<1>5. /\ z \in Seq(T) /\ Len(z) = a - 1 + Len(m)
      /\ \A j \in 1 .. a - 1 : z[j] = s[j]
      /\ \A j \in 1 .. Len(m) : z[a - 1 + j] = m[j]
  <2>1. z \in Seq(T) /\ IsJoin(z, x, m)
    BY <1>4 DEF z
  <2> QED
    BY <2>1, <1>2 DEF IsJoin
<1> DEFINE w == z \o y
<1>11. w \in Seq(T) /\ IsJoin(w, z, y)
  BY <1>3, <1>5, Joined
<1> HIDE DEF w
<1>6. /\ w \in Seq(T) /\ Len(w) = Len(z) + Len(y)
      /\ \A j \in 1 .. Len(z) : w[j] = z[j]
      /\ \A j \in 1 .. Len(y) : w[Len(z) + j] = y[j]
  BY <1>11 DEF IsJoin
<1>7. ASSUME NEW j \in b .. Len(s)
      PROVE  w[a - 1 + Len(m) + (j - b + 1)] = s[j]
  <2>1. j - b + 1 \in 1 .. Len(y) /\ b + (j - b + 1) - 1 = j /\ j - b + 1 \in 1 .. Len(s) + 1 - b
    BY <1>1, <1>3
  <2>2. w[Len(z) + (j - b + 1)] = y[j - b + 1]
    BY <2>1, <1>6
  <2>3. y[j - b + 1] = s[j]
    BY <2>1, <1>3
  <2> QED
    BY <2>2, <2>3, <1>5
<1>8. \A j \in 1 .. a - 1 : w[j] = s[j]
  BY <1>1, <1>3, <1>5, <1>6
<1>9. \A j \in 1 .. Len(m) : w[a - 1 + j] = m[j]
  BY <1>1, <1>3, <1>5, <1>6
<1>10. w = SubSeq(s, 1, a - 1) \o m \o SubSeq(s, b, Len(s))
  BY DEF w, z, x, y
<1>12. IsSplice(w, s, a, m, b)
  BY <1>1, <1>3, <1>5, <1>6, <1>7, <1>8, <1>9 DEF IsSplice
<1> QED
  BY <1>6, <1>10, <1>12

\* In ascending records positions and keys are ordered alike.
LEMMA InKeyOrder ==
    ASSUME NEW s \in Seq(Recs), Ascending(s), NEW i \in 1 .. Len(s), NEW j \in 1 .. Len(s)
    PROVE  /\ s[i].key \in Nat /\ s[j].key \in Nat
           /\ i < j <=> s[i].key < s[j].key
           /\ i = j <=> s[i].key = s[j].key
           /\ i = j <=> s[i] = s[j]
<1>1. s[i].key \in Nat /\ s[j].key \in Nat /\ DOMAIN s = 1 .. Len(s) /\ Len(s) \in Nat
  BY KeyNumbers
<1>2. (i < j => s[i].key < s[j].key) /\ (j < i => s[j].key < s[i].key)
  BY <1>1 DEF Ascending
<1> QED
  BY <1>1, <1>2

\* Where the records of a splice come from.
FromSplice(q, s, a, m, b) ==
    \A j \in 1 .. Len(q) :
        \/ j < a /\ j \in 1 .. Len(s) /\ q[j] = s[j]
        \/ a <= j /\ j - a + 1 \in 1 .. Len(m) /\ q[j] = m[j - a + 1]
        \/ /\ a + Len(m) <= j
           /\ j - a - Len(m) + b \in b .. Len(s)
           /\ q[j] = s[j - a - Len(m) + b]

\* Where the members of a spliced sequence come from.
LEMMA SplicePlaces ==
    ASSUME NEW T, NEW s \in Seq(T), NEW m \in Seq(T), NEW q \in Seq(T),
           NEW a \in 1 .. Len(s) + 1, NEW b \in a .. Len(s) + 1, IsSplice(q, s, a, m, b)
    PROVE  FromSplice(q, s, a, m, b)
<1>1. Len(s) \in Nat /\ Len(m) \in Nat /\ Len(q) \in Nat
  OBVIOUS
<1>2. Len(q) = a - 1 + Len(m) + (Len(s) + 1 - b)
  BY DEF IsSplice
<1> SUFFICES ASSUME NEW j \in 1 .. Len(q)
             PROVE  \/ j < a /\ j \in 1 .. Len(s) /\ q[j] = s[j]
                    \/ a <= j /\ j - a + 1 \in 1 .. Len(m) /\ q[j] = m[j - a + 1]
                    \/ /\ a + Len(m) <= j
                       /\ j - a - Len(m) + b \in b .. Len(s)
                       /\ q[j] = s[j - a - Len(m) + b]
  BY DEF FromSplice
<1>3. CASE j < a
  BY <1>1, <1>3 DEF IsSplice
<1>4. CASE a <= j /\ j < a + Len(m)
  <2>1. j - a + 1 \in 1 .. Len(m) /\ a - 1 + (j - a + 1) = j
    BY <1>1, <1>4
  <2> QED
    BY <2>1, <1>4 DEF IsSplice
<1>5. CASE a + Len(m) <= j
  <2> DEFINE i == j - a - Len(m) + b
  <2>1. i \in b .. Len(s) /\ a - 1 + Len(m) + (i - b + 1) = j
    BY <1>1, <1>2, <1>5
  <2> HIDE DEF i
  <2>2. q[j] = s[i]
    BY <2>1 DEF IsSplice
  <2> QED
    BY <2>1, <2>2, <1>5 DEF i
<1> QED
  BY <1>1, <1>3, <1>4, <1>5

\* Records are taken out at a, up to b, and others put in, in key order.
Between(s, a, m, b) ==
    \A i \in 1 .. Len(m) : /\ \A j \in 1 .. a - 1 : s[j].key < m[i].key
                           /\ \A j \in b .. Len(s) : m[i].key < s[j].key

Around(s, a, b) == {s[j] : j \in 1 .. a - 1} \cup {s[j] : j \in b .. Len(s)}

\* A splice in key order is ascending.
LEMMA SpliceSorted ==
    ASSUME NEW s \in Seq(Recs), NEW m \in Seq(Recs), NEW q \in Seq(Recs),
           NEW a \in 1 .. Len(s) + 1, NEW b \in a .. Len(s) + 1, IsSplice(q, s, a, m, b),
           Ascending(s), Ascending(m), Between(s, a, m, b)
    PROVE  Ascending(q) /\ ToSet(q) = Around(s, a, b) \cup ToSet(m)
<1>11. \A i \in 1 .. Len(m) : /\ \A j \in 1 .. a - 1 : s[j].key < m[i].key
                              /\ \A j \in b .. Len(s) : m[i].key < s[j].key
  BY DEF Between
<1>1. /\ Len(s) \in Nat /\ Len(m) \in Nat /\ Len(q) \in Nat
      /\ DOMAIN s = 1 .. Len(s) /\ DOMAIN m = 1 .. Len(m) /\ DOMAIN q = 1 .. Len(q)
      /\ \A j \in 1 .. Len(s) : s[j].key \in Nat
      /\ \A j \in 1 .. Len(m) : m[j].key \in Nat
  BY KeyNumbers
<1>2. /\ \A i, j \in 1 .. Len(s) : i < j => s[i].key < s[j].key
      /\ \A i, j \in 1 .. Len(m) : i < j => m[i].key < m[j].key
  BY <1>1 DEF Ascending
<1>3. \A j \in 1 .. Len(q) :
         \/ j < a /\ j \in 1 .. Len(s) /\ q[j] = s[j]
         \/ a <= j /\ j - a + 1 \in 1 .. Len(m) /\ q[j] = m[j - a + 1]
         \/ /\ a + Len(m) <= j
            /\ j - a - Len(m) + b \in b .. Len(s)
            /\ q[j] = s[j - a - Len(m) + b]
  <2>1. FromSplice(q, s, a, m, b)
    BY SplicePlaces
  <2> QED
    BY <2>1 DEF FromSplice
<1>4. Ascending(q)
  <2> SUFFICES ASSUME NEW i \in 1 .. Len(q), NEW j \in 1 .. Len(q), i < j
               PROVE  q[i].key < q[j].key
    BY <1>1 DEF Ascending
  <2> DEFINE i2 == i - a + 1
             j2 == j - a + 1
             i3 == i - a - Len(m) + b
             j3 == j - a - Len(m) + b
  <2>1. i2 < j2 /\ i3 < j3
    BY <1>1
  <2>2. \/ i < a /\ i \in 1 .. Len(s) /\ q[i] = s[i]
        \/ a <= i /\ i2 \in 1 .. Len(m) /\ q[i] = m[i2]
        \/ a + Len(m) <= i /\ i3 \in b .. Len(s) /\ q[i] = s[i3]
    BY <1>3
  <2>3. \/ j < a /\ j \in 1 .. Len(s) /\ q[j] = s[j]
        \/ a <= j /\ j2 \in 1 .. Len(m) /\ q[j] = m[j2]
        \/ a + Len(m) <= j /\ j3 \in b .. Len(s) /\ q[j] = s[j3]
    BY <1>3
  <2>4. i2 \in 1 .. Len(m) => i < a + Len(m)
    BY <1>1
  <2> HIDE DEF i2, j2, i3, j3
  <2>5. CASE i < a /\ i \in 1 .. Len(s) /\ q[i] = s[i]
    <3>1. CASE j < a /\ j \in 1 .. Len(s) /\ q[j] = s[j]
      BY <2>5, <3>1, <1>2
    <3>2. CASE a <= j /\ j2 \in 1 .. Len(m) /\ q[j] = m[j2]
      BY <2>5, <3>2, <1>1, <1>11
    <3>3. CASE a + Len(m) <= j /\ j3 \in b .. Len(s) /\ q[j] = s[j3]
      BY <2>5, <3>3, <1>1, <1>2
    <3> QED
      BY <3>1, <3>2, <3>3, <2>3
  <2>6. CASE a <= i /\ i2 \in 1 .. Len(m) /\ q[i] = m[i2]
    <3>1. CASE a <= j /\ j2 \in 1 .. Len(m) /\ q[j] = m[j2]
      BY <2>1, <2>6, <3>1, <1>2
    <3>2. CASE a + Len(m) <= j /\ j3 \in b .. Len(s) /\ q[j] = s[j3]
      BY <2>6, <3>2, <1>11
    <3> QED
      BY <3>1, <3>2, <2>3, <2>6, <1>1
  <2>7. CASE a + Len(m) <= i /\ i3 \in b .. Len(s) /\ q[i] = s[i3]
    <3>1. a + Len(m) <= j /\ ~(j < a)
      BY <2>7, <1>1
    <3>2. ~(j2 \in 1 .. Len(m))
      BY <3>1, <1>1 DEF j2
    <3>3. j3 \in b .. Len(s) /\ q[j] = s[j3]
      BY <3>1, <3>2, <2>3
    <3>4. i3 \in 1 .. Len(s) /\ j3 \in 1 .. Len(s)
      BY <3>3, <2>7, <1>1
    <3> QED
      BY <3>3, <3>4, <2>1, <2>7, <1>2
  <2> QED
    BY <2>2, <2>5, <2>6, <2>7
<1>5. ToSet(q) \subseteq {s[j] : j \in 1 .. a - 1} \cup ToSet(m) \cup {s[j] : j \in b .. Len(s)}
  <2> SUFFICES ASSUME NEW j \in 1 .. Len(q)
               PROVE  q[j] \in {s[i] : i \in 1 .. a - 1} \cup ToSet(m) \cup {s[i] : i \in b .. Len(s)}
    BY <1>1 DEF ToSet
  <2>1. \/ j < a /\ q[j] = s[j]
        \/ j - a + 1 \in 1 .. Len(m) /\ q[j] = m[j - a + 1]
        \/ j - a - Len(m) + b \in b .. Len(s) /\ q[j] = s[j - a - Len(m) + b]
    BY <1>3
  <2>2. j < a => j \in 1 .. a - 1
    OBVIOUS
  <2> QED
    BY <2>1, <2>2, <1>1 DEF ToSet
<1>6. Len(q) = a - 1 + Len(m) + (Len(s) + 1 - b)
  BY DEF IsSplice
<1>7. ASSUME NEW j \in 1 .. a - 1
      PROVE  s[j] \in ToSet(q)
  <2>1. j \in 1 .. Len(q) /\ q[j] = s[j]
    BY <1>1, <1>6 DEF IsSplice
  <2> QED
    BY <2>1, <1>1 DEF ToSet
<1>8. ASSUME NEW j \in 1 .. Len(m)
      PROVE  m[j] \in ToSet(q)
  <2>1. a - 1 + j \in 1 .. Len(q) /\ q[a - 1 + j] = m[j]
    BY <1>1, <1>6 DEF IsSplice
  <2> QED
    BY <2>1, <1>1 DEF ToSet
<1>9. ASSUME NEW j \in b .. Len(s)
      PROVE  s[j] \in ToSet(q)
  <2>1. a - 1 + Len(m) + (j - b + 1) \in 1 .. Len(q) /\ q[a - 1 + Len(m) + (j - b + 1)] = s[j]
    BY <1>1, <1>6 DEF IsSplice
  <2> QED
    BY <2>1, <1>1 DEF ToSet
<1>10. ToSet(m) \subseteq ToSet(q)
  <2> SUFFICES ASSUME NEW x \in ToSet(m) PROVE x \in ToSet(q)
    OBVIOUS
  <2>1. PICK j \in 1 .. Len(m) : m[j] = x
    BY <1>1 DEF ToSet
  <2> QED
    BY <2>1, <1>8
<1> QED
  BY <1>4, <1>5, <1>7, <1>9, <1>10 DEF Around

\* RemoveAt.
LEMMA RemoveKeeps ==
    ASSUME NEW T, NEW s \in Seq(T), NEW i \in 1 .. Len(s)
    PROVE  /\ RemoveAt(s, i) \in Seq(T)
           /\ Len(RemoveAt(s, i)) = Len(s) - 1
           /\ \A j \in 1 .. i - 1 : RemoveAt(s, i)[j] = s[j]
           /\ \A j \in i .. Len(s) - 1 : RemoveAt(s, i)[j] = s[j + 1]
<1> DEFINE q == RemoveAt(s, i)
           x == SubSeq(s, 1, i - 1)
           y == SubSeq(s, i + 1, Len(s))
<1>1. Len(s) \in Nat
  OBVIOUS
<1>2. x \in Seq(T) /\ Len(x) = i - 1 /\ \A j \in 1 .. i - 1 : x[j] = s[j]
  BY <1>1, SubSeqProperties
<1>3. y \in Seq(T) /\ Len(y) = Len(s) - i /\ \A j \in 1 .. Len(s) - i : y[j] = s[i + j]
  BY <1>1, SubSeqProperties
<1>4. q = x \o y
  BY DEF RemoveAt
<1> HIDE DEF q, x, y
<1>5. q \in Seq(T) /\ IsJoin(q, x, y)
  BY <1>2, <1>3, <1>4, Joined
<1>6. Len(q) = Len(s) - 1 /\ \A j \in 1 .. i - 1 : q[j] = s[j]
  BY <1>1, <1>2, <1>3, <1>5 DEF IsJoin
<1>7. ASSUME NEW j \in i .. Len(s) - 1
      PROVE  q[j] = s[j + 1]
  <2>1. j - i + 1 \in 1 .. Len(y) /\ Len(x) + (j - i + 1) = j /\ i + (j - i + 1) = j + 1
        /\ j - i + 1 \in 1 .. Len(s) - i
    BY <1>1, <1>2, <1>3
  <2>2. q[j] = y[j - i + 1]
    BY <2>1, <1>5 DEF IsJoin
  <2> QED
    BY <2>1, <2>2, <1>3
<1> QED
  BY <1>5, <1>6, <1>7 DEF q

-----------------------------------------------------------------------------
(* The bytes of records.                                                   *)

\* What BytesUpTo needs to know of a node.
Sized(en) == en.kind \in {"leaf", "index"} /\ en.recs \in Seq(Recs)

\* No record is longer than a third of a node or a minimal filling.
LEMMA RecSizes ==
    ASSUME NEW kind \in {"leaf", "index"}, NEW r \in Recs, NEW s \in Recs
    PROVE  /\ RecSize(kind, r) \in Nat \ {0}
           /\ 3 * RecSize(kind, r) <= NodeSize
           /\ RecSize(kind, r) < MinFill
           /\ RecSize(kind, r) + RecSize(kind, s) + MinFill <= NodeSize + 1
           /\ NodeSize \in Nat /\ MinFill \in Nat \ {0} /\ 2 * MinFill <= NodeSize
<1>1. r.key \in Keys /\ s.key \in Keys
  BY DEF Recs
<1>2. NodeSize \in Nat /\ MinFill \in 1 .. (NodeSize \div 2)
  BY SizesAssumption
<1>3. MinFill \in Nat \ {0} /\ 2 * MinFill <= NodeSize
  BY <1>2
<1>4. CASE kind = "leaf"
  BY <1>1, <1>2, <1>3, <1>4, SizesAssumption DEF RecSize, Roomy
<1>5. CASE kind = "index"
  BY <1>1, <1>2, <1>3, <1>5, SizesAssumption DEF RecSize, Roomy
<1> QED
  BY <1>4, <1>5

\* The bytes up to a position, record by record.
LEMMA BytesStep ==
    ASSUME NEW en, Sized(en)
    PROVE  /\ BytesUpTo(en) \in [0 .. Len(en.recs) -> Nat]
           /\ BytesUpTo(en)[0] = 0
           /\ \A i \in 1 .. Len(en.recs) :
                 BytesUpTo(en)[i] = BytesUpTo(en)[i - 1] + RecSize(en.kind, en.recs[i])
<1> DEFINE N == Len(en.recs)
           z == [i \in 1 .. N |-> RecSize(en.kind, en.recs[i])]
           G == [p \in (1 .. N) \X Nat |-> p[2] + z[p[1]]]
           P(g) == g = [i \in 0 .. N |-> IF i = 0 THEN 0 ELSE g[i - 1] + RecSize(en.kind, en.recs[i])]
<1>1. N \in Nat
  BY DEF Sized
<1>2. \A i \in 1 .. N : z[i] \in Nat /\ z[i] = RecSize(en.kind, en.recs[i])
  <2> SUFFICES ASSUME NEW i \in 1 .. N PROVE z[i] \in Nat
    OBVIOUS
  <2>1. en.recs[i] \in Recs /\ en.kind \in {"leaf", "index"}
    BY DEF Sized
  <2>2. RecSize(en.kind, en.recs[i]) \in Nat
    BY <2>1, RecSizes
  <2> QED
    BY <2>2
<1> HIDE DEF z
<1>3. G \in [(1 .. N) \X Nat -> Nat]
  BY <1>2
<1>4. ASSUME NEW i \in 1 .. N, NEW x \in Nat
      PROVE  G[<<i, x>>] = x + z[i]
  BY <1>2
<1> HIDE DEF G
<1>13. 0 \in Nat
  OBVIOUS
<1> HIDE DEF N
<1>5. PICK f \in [0 .. N -> Nat] : Iteration(f, 0, N, G)
  BY <1>1, <1>3, <1>13, Iterates
<1>6. f[0] = 0 /\ \A i \in 1 .. N : f[i] = f[i - 1] + z[i]
  <2>1. \A i \in 1 .. N : f[i - 1] \in Nat
    BY <1>1
  <2> QED
    BY <2>1, <1>4, <1>5 DEF Iteration
<1> USE DEF N
<1>7. P(f)
  BY <1>1, <1>2, <1>6
<1> DEFINE g == BytesUpTo(en)
<1>8. g = CHOOSE h : P(h)
  BY DEF BytesUpTo
<1>9. P(g)
  BY <1>7, <1>8
<1> HIDE DEF g
<1>10. DOMAIN g = 0 .. N /\ g[0] = 0 /\ \A i \in 1 .. N : g[i] = g[i - 1] + z[i]
  <2>1. DOMAIN g = 0 .. N /\ g[0] = 0
    BY <1>1, <1>9
  <2>2. \A i \in 1 .. N : g[i] = g[i - 1] + RecSize(en.kind, en.recs[i])
    BY <1>1, <1>9, SMTT(20)
  <2> QED
    BY <2>1, <2>2, <1>2
<1> DEFINE S == {i \in 0 .. N : g[i] \in Nat}
<1>11. 0 .. N \subseteq S
  <2>1. 0 \in S
    BY <1>1, <1>10
  <2>2. ASSUME NEW n \in 0 .. N, n \in S, n < N
        PROVE  n + 1 \in S
    <3>1. n + 1 \in 1 .. N /\ (n + 1) - 1 = n
      BY <1>1, <2>2
    <3>2. g[n + 1] = g[n] + z[n + 1]
      BY <3>1, <1>10
    <3> QED
      BY <3>1, <3>2, <2>2, <1>2
  <2> HIDE DEF S
  <2> QED
    BY <1>1, <2>1, <2>2, Inducts
<1>12. g \in [0 .. N -> Nat]
  BY <1>9, <1>11
<1> QED
  BY <1>2, <1>10, <1>12 DEF g

\* More records, more bytes.
LEMMA BytesGrow ==
    ASSUME NEW en, Sized(en), NEW i \in 0 .. Len(en.recs), NEW j \in i .. Len(en.recs)
    PROVE  BytesUpTo(en)[i] <= BytesUpTo(en)[j]
<1> DEFINE N == Len(en.recs)
           B == BytesUpTo(en)
           S == {n \in i .. N : B[i] <= B[n]}
<1>1. N \in Nat
  BY DEF Sized
<1>2. /\ B \in [0 .. N -> Nat]
      /\ \A n \in 1 .. N : B[n] = B[n - 1] + RecSize(en.kind, en.recs[n])
  BY BytesStep
<1>3. \A n \in 1 .. N : RecSize(en.kind, en.recs[n]) \in Nat
  <2> SUFFICES ASSUME NEW n \in 1 .. N PROVE RecSize(en.kind, en.recs[n]) \in Nat
    OBVIOUS
  <2>1. en.recs[n] \in Recs /\ en.kind \in {"leaf", "index"}
    BY DEF Sized
  <2> QED
    BY <2>1, RecSizes
<1> HIDE DEF B, N
<1>4. i .. N \subseteq S
  <2>1. i \in S /\ i \in Nat
    BY <1>1, <1>2 DEF N
  <2>2. ASSUME NEW n \in i .. N, n \in S, n < N
        PROVE  n + 1 \in S
    <3>1. n + 1 \in 1 .. N /\ (n + 1) - 1 = n /\ n \in 0 .. N /\ n + 1 \in i .. N /\ i \in 0 .. N
      BY <1>1, <2>1, <2>2 DEF N
    <3>2. B[n + 1] = B[n] + RecSize(en.kind, en.recs[n + 1])
      BY <3>1, <1>2
    <3>3. RecSize(en.kind, en.recs[n + 1]) \in Nat
      BY <3>1, <1>3
    <3>4. B[i] \in Nat /\ B[n] \in Nat
      BY <3>1, <1>2
    <3> QED
      BY <3>1, <3>2, <3>3, <3>4, <2>2
  <2> HIDE DEF S
  <2> QED
    BY <1>1, <2>1, <2>2, Inducts
<1> QED
  BY <1>4 DEF B, N

\* The bytes of a splice.
LEMMA SpliceBytes ==
    ASSUME NEW e, NEW em, NEW f, Sized(e), Sized(em), Sized(f), em.kind = e.kind, f.kind = e.kind,
           NEW a \in 1 .. Len(e.recs) + 1, NEW b \in a .. Len(e.recs) + 1,
           IsSplice(f.recs, e.recs, a, em.recs, b)
    PROVE  usedBytes(f) = BytesUpTo(e)[a - 1] + usedBytes(em) + (usedBytes(e) - BytesUpTo(e)[b - 1])
<1> DEFINE N == Len(e.recs)
           M == Len(em.recs)
           L == Len(f.recs)
           E == BytesUpTo(e)
           D == BytesUpTo(em)
           F == BytesUpTo(f)
           z(r) == RecSize(e.kind, r)
<1>1. N \in Nat /\ M \in Nat /\ L \in Nat
  BY DEF Sized
<1>2. L = a - 1 + M + (N + 1 - b)
  BY DEF IsSplice
<1>3. /\ E \in [0 .. N -> Nat] /\ E[0] = 0 /\ \A i \in 1 .. N : E[i] = E[i - 1] + z(e.recs[i])
      /\ D \in [0 .. M -> Nat] /\ D[0] = 0 /\ \A i \in 1 .. M : D[i] = D[i - 1] + z(em.recs[i])
      /\ F \in [0 .. L -> Nat] /\ F[0] = 0 /\ \A i \in 1 .. L : F[i] = F[i - 1] + z(f.recs[i])
  BY BytesStep
<1>4. /\ \A j \in 1 .. a - 1 : f.recs[j] = e.recs[j]
      /\ \A j \in 1 .. M : f.recs[a - 1 + j] = em.recs[j]
      /\ \A j \in b .. N : f.recs[a - 1 + M + (j - b + 1)] = e.recs[j]
  BY DEF IsSplice
<1>5. a \in 1 .. N + 1 /\ b \in a .. N + 1
  OBVIOUS
<1>6. \A n \in 1 .. N : z(e.recs[n]) \in Nat
  <2> SUFFICES ASSUME NEW n \in 1 .. N PROVE z(e.recs[n]) \in Nat
    OBVIOUS
  <2>1. e.recs[n] \in Recs /\ e.kind \in {"leaf", "index"}
    BY DEF Sized
  <2> QED
    BY <2>1, RecSizes
<1>7. \A n \in 1 .. M : z(em.recs[n]) \in Nat
  <2> SUFFICES ASSUME NEW n \in 1 .. M PROVE z(em.recs[n]) \in Nat
    OBVIOUS
  <2>1. em.recs[n] \in Recs /\ e.kind \in {"leaf", "index"}
    BY DEF Sized
  <2> QED
    BY <2>1, RecSizes
<1> HIDE DEF N, M, L, E, D, F, z
<1>8. F[a - 1] = E[a - 1]
  <2> DEFINE S == {n \in 0 .. a - 1 : F[n] = E[n]}
  <2>1. 0 \in S
    BY <1>1, <1>3, <1>5
  <2>2. ASSUME NEW n \in 0 .. a - 1, n \in S, n < a - 1
        PROVE  n + 1 \in S
    <3>1. n + 1 \in 1 .. N /\ n + 1 \in 1 .. L /\ n + 1 \in 1 .. a - 1 /\ (n + 1) - 1 = n
      BY <1>1, <1>2, <1>5, <2>2
    <3> QED
      BY <3>1, <1>3, <1>4, <2>2
  <2>3. a - 1 \in Nat
    BY <1>5
  <2> HIDE DEF S
  <2>4. 0 .. a - 1 \subseteq S
    BY <2>1, <2>2, <2>3, Inducts
  <2> QED
    BY <2>3, <2>4 DEF S
<1>9. F[a - 1 + M] = E[a - 1] + D[M]
  <2> DEFINE S == {n \in 0 .. M : F[a - 1 + n] = E[a - 1] + D[n]}
  <2>0. a - 1 \in 0 .. N
    BY <1>1, <1>5
  <2>1. 0 \in S
    BY <1>1, <1>3, <1>5, <1>8, <2>0
  <2>2. ASSUME NEW n \in 0 .. M, n \in S, n < M
        PROVE  n + 1 \in S
    <3>1. /\ n + 1 \in 1 .. M /\ (n + 1) - 1 = n
          /\ a - 1 + (n + 1) \in 1 .. L /\ (a - 1 + (n + 1)) - 1 = a - 1 + n
      BY <1>1, <1>2, <1>5, <2>2
    <3>2. F[a - 1 + (n + 1)] = F[a - 1 + n] + z(f.recs[a - 1 + (n + 1)])
      BY <3>1, <1>3
    <3>3. f.recs[a - 1 + (n + 1)] = em.recs[n + 1]
      BY <3>1, <1>4
    <3>4. D[n + 1] = D[n] + z(em.recs[n + 1]) /\ D[n] \in Nat /\ E[a - 1] \in Nat
      BY <3>1, <1>3, <2>0
    <3>5. z(em.recs[n + 1]) \in Nat
      BY <3>1, <1>7
    <3>6. F[a - 1 + n] = E[a - 1] + D[n]
      BY <2>2
    <3>7. F[a - 1 + (n + 1)] = E[a - 1] + D[n + 1]
      BY <3>2, <3>3, <3>4, <3>5, <3>6
    <3> QED
      BY <3>1, <3>7, <1>1
  <2> HIDE DEF S
  <2>4. 0 .. M \subseteq S
    BY <1>1, <2>1, <2>2, Inducts
  <2> QED
    BY <1>1, <2>4 DEF S
<1>10. F[L] = E[a - 1] + D[M] + (E[N] - E[b - 1])
  <2> DEFINE S == {n \in b - 1 .. N : F[a - 1 + M + (n - b + 1)] = E[a - 1] + D[M] + (E[n] - E[b - 1])}
  <2>0. a - 1 \in 0 .. N /\ b - 1 \in 0 .. N /\ b - 1 \in Nat /\ M \in 0 .. M
    BY <1>1, <1>5
  <2>10. E[a - 1] \in Nat /\ E[b - 1] \in Nat /\ D[M] \in Nat
    BY <2>0, <1>3
  <2>1. b - 1 \in S
    <3>1. a - 1 + M + ((b - 1) - b + 1) = a - 1 + M
      BY <1>1, <1>5
    <3>2. E[a - 1] + D[M] + (E[b - 1] - E[b - 1]) = E[a - 1] + D[M]
      BY <2>10
    <3> QED
      BY <3>1, <3>2, <1>1, <1>9, <2>0
  <2>2. ASSUME NEW n \in b - 1 .. N, n \in S, n < N
        PROVE  n + 1 \in S
    <3>1. /\ n + 1 \in 1 .. N /\ n + 1 \in b .. N /\ (n + 1) - 1 = n /\ n \in 0 .. N
          /\ a - 1 + M + ((n + 1) - b + 1) \in 1 .. L
          /\ (a - 1 + M + ((n + 1) - b + 1)) - 1 = a - 1 + M + (n - b + 1)
      BY <1>1, <1>2, <1>5, <2>2
    <3>2. F[a - 1 + M + ((n + 1) - b + 1)]
            = F[a - 1 + M + (n - b + 1)] + z(f.recs[a - 1 + M + ((n + 1) - b + 1)])
      BY <3>1, <1>3
    <3>3. f.recs[a - 1 + M + ((n + 1) - b + 1)] = e.recs[n + 1]
      BY <3>1, <1>4
    <3>4. E[n + 1] = E[n] + z(e.recs[n + 1]) /\ E[n] \in Nat
      BY <3>1, <1>3
    <3>5. z(e.recs[n + 1]) \in Nat
      BY <3>1, <1>6
    <3>6. F[a - 1 + M + (n - b + 1)] = E[a - 1] + D[M] + (E[n] - E[b - 1])
      BY <2>2
    <3>7. F[a - 1 + M + ((n + 1) - b + 1)] = E[a - 1] + D[M] + (E[n + 1] - E[b - 1])
      BY <2>10, <3>2, <3>3, <3>4, <3>5, <3>6, SMTT(20)
    <3> QED
      BY <3>1, <3>7, <1>1, <2>0
  <2> HIDE DEF S
  <2>4. b - 1 .. N \subseteq S
    BY <1>1, <2>0, <2>1, <2>2, Inducts
  <2>5. a - 1 + M + (N - b + 1) = L /\ N \in b - 1 .. N
    BY <1>1, <1>2, <1>5
  <2> QED
    BY <2>4, <2>5 DEF S
<1> QED
  BY <1>10 DEF N, M, L, E, D, F, usedBytes

\* What few records take.
LEMMA FewRecords ==
    ASSUME NEW en, Sized(en)
    PROVE  /\ usedBytes(en) \in Nat /\ NodeSize \in Nat /\ MinFill \in Nat
           /\ Len(en.recs) \in Nat
           /\ Len(en.recs) <= 3 => usedBytes(en) <= NodeSize
           /\ Len(en.recs) <= 2 => usedBytes(en) + MinFill <= NodeSize + 1
           /\ Len(en.recs) <= 1 => usedBytes(en) < MinFill
<1> DEFINE N == Len(en.recs)
           B == BytesUpTo(en)
           z(i) == RecSize(en.kind, en.recs[i])
<1>1. N \in Nat
  BY DEF Sized
<1>2. /\ B \in [0 .. N -> Nat] /\ B[0] = 0
      /\ \A i \in 1 .. N : B[i] = B[i - 1] + z(i)
  BY BytesStep
<1>3. NodeSize \in Nat /\ MinFill \in Nat \ {0} /\ 2 * MinFill <= NodeSize
  BY SizesAssumption
<1>4. ASSUME NEW i \in 1 .. N, NEW j \in 1 .. N
      PROVE  z(i) \in Nat /\ 3 * z(i) <= NodeSize /\ z(i) < MinFill /\ z(i) + z(j) + MinFill <= NodeSize + 1
  <2>1. en.recs[i] \in Recs /\ en.recs[j] \in Recs /\ en.kind \in {"leaf", "index"}
    BY DEF Sized
  <2> QED
    BY <2>1, RecSizes
<1>5. usedBytes(en) = B[N]
  BY DEF usedBytes
<1> HIDE DEF N, B, z
<1>6. B[N] \in Nat
  BY <1>1, <1>2
<1>7. CASE N = 0
  BY <1>2, <1>3, <1>5, <1>6, <1>7 DEF N
<1>8. CASE N = 1
  <2>1. B[1] = B[0] + z(1)
    BY <1>2, <1>8
  <2> QED
    BY <2>1, <1>2, <1>3, <1>4, <1>5, <1>6, <1>8 DEF N
<1>9. CASE N = 2
  <2>1. B[1] = B[0] + z(1) /\ B[2] = B[1] + z(2)
    BY <1>2, <1>9
  <2>2. z(1) \in Nat /\ z(2) \in Nat /\ z(1) + z(2) + MinFill <= NodeSize + 1
    BY <1>4, <1>9
  <2> QED
    BY <2>1, <2>2, <1>2, <1>3, <1>5, <1>6, <1>9 DEF N
<1>10. CASE N = 3
  <2>1. B[1] = B[0] + z(1) /\ B[2] = B[1] + z(2) /\ B[3] = B[2] + z(3)
    BY <1>2, <1>10
  <2>2. /\ z(1) \in Nat /\ z(2) \in Nat /\ z(3) \in Nat
        /\ 3 * z(1) <= NodeSize /\ 3 * z(2) <= NodeSize /\ 3 * z(3) <= NodeSize
    BY <1>4, <1>10
  <2> QED
    BY <2>1, <2>2, <1>2, <1>3, <1>5, <1>6, <1>10 DEF N
<1>11. CASE N > 3
  BY <1>1, <1>3, <1>5, <1>6, <1>11 DEF N
<1> QED
  BY <1>1, <1>7, <1>8, <1>9, <1>10, <1>11

\* Two lists of records take together what they take apart, one record less
\* takes no more, and a changed child takes the same.
LEMMA ConcatBytes ==
    ASSUME NEW e, NEW f, NEW g, Sized(e), Sized(f), f.kind = e.kind, g.kind = e.kind,
           g.recs = e.recs \o f.recs
    PROVE  Sized(g) /\ usedBytes(g) = usedBytes(e) + usedBytes(f)
<1> DEFINE N == Len(e.recs)
<1>1. g.recs \in Seq(Recs) /\ IsJoin(g.recs, e.recs, f.recs)
  BY Joined DEF Sized
<1>2. Sized(g) /\ N \in Nat /\ Len(f.recs) \in Nat
  BY <1>1 DEF Sized
<1>3. IsSplice(g.recs, e.recs, N + 1, f.recs, N + 1)
  <2>3. PICK q : q = g.recs
    OBVIOUS
  <2>4. IsJoin(q, e.recs, f.recs)
    BY <2>3, <1>1
  <2>6. \A n, m \in Nat : (n + 1) - 1 + m + (n + 1 - (n + 1)) = n + m /\ (n + 1) - 1 = n
    OBVIOUS
  <2>7. (N + 1) - 1 + Len(f.recs) + (N + 1 - (N + 1)) = N + Len(f.recs) /\ (N + 1) - 1 = N
    BY <2>6, <1>2, Zenon
  <2>1. /\ Len(q) = (N + 1) - 1 + Len(f.recs) + (Len(e.recs) + 1 - (N + 1))
        /\ \A j \in 1 .. (N + 1) - 1 : q[j] = e.recs[j]
        /\ \A j \in 1 .. Len(f.recs) : q[(N + 1) - 1 + j] = f.recs[j]
    BY <2>4, <2>7, Zenon DEF IsJoin
  <2>2. \A j \in N + 1 .. Len(e.recs) : FALSE
    BY <1>2
  <2>5. IsSplice(q, e.recs, N + 1, f.recs, N + 1)
    BY <2>1, <2>2 DEF IsSplice
  <2> QED
    BY <2>3, <2>5
<1>4. N + 1 \in 1 .. Len(e.recs) + 1 /\ N + 1 \in N + 1 .. Len(e.recs) + 1 /\ (N + 1) - 1 = N
  BY <1>2
<1>5. usedBytes(g) = BytesUpTo(e)[(N + 1) - 1] + usedBytes(f) + (usedBytes(e) - BytesUpTo(e)[(N + 1) - 1])
  <2> HIDE DEF N
  <2> DEFINE c == N + 1
  <2>1. c \in 1 .. Len(e.recs) + 1 /\ c \in c .. Len(e.recs) + 1 /\ IsSplice(g.recs, e.recs, c, f.recs, c)
    BY <1>3, <1>4 DEF N
  <2> HIDE DEF c
  <2>2. usedBytes(g) = BytesUpTo(e)[c - 1] + usedBytes(f) + (usedBytes(e) - BytesUpTo(e)[c - 1])
    BY <2>1, <1>2, SpliceBytes
  <2> QED
    BY <2>2 DEF c
<1>6. usedBytes(e) = BytesUpTo(e)[N] /\ usedBytes(e) \in Nat /\ usedBytes(f) \in Nat
  BY FewRecords DEF usedBytes
<1> QED
  BY <1>2, <1>4, <1>5, <1>6

\* A node without one of its records takes no more bytes.
LEMMA RemoveBytes ==
    ASSUME NEW e, NEW g, Sized(e), g.kind = e.kind, NEW i \in 1 .. Len(e.recs), g.recs = RemoveAt(e.recs, i)
    PROVE  Sized(g) /\ usedBytes(g) <= usedBytes(e)
<1> DEFINE em == [kind |-> e.kind, recs |-> <<>>]
<1>1. Sized(em) /\ em.kind = e.kind /\ em.recs = <<>> /\ Len(em.recs) = 0
  BY EmptySeq DEF Sized
<1> HIDE DEF em
<1>2. e.recs \in Seq(Recs) /\ Len(e.recs) \in Nat
  BY DEF Sized
<1>3. /\ g.recs \in Seq(Recs) /\ Len(g.recs) = Len(e.recs) - 1
      /\ \A j \in 1 .. i - 1 : g.recs[j] = e.recs[j]
      /\ \A j \in i .. Len(e.recs) - 1 : g.recs[j] = e.recs[j + 1]
  BY <1>2, RemoveKeeps
<1>4. Sized(g)
  BY <1>3 DEF Sized
<1>5. IsSplice(g.recs, e.recs, i, em.recs, i + 1)
  <2>1. ASSUME NEW j \in i + 1 .. Len(e.recs)
        PROVE  g.recs[i - 1 + Len(em.recs) + (j - (i + 1) + 1)] = e.recs[j]
    <3>1. j - 1 \in i .. Len(e.recs) - 1 /\ i - 1 + Len(em.recs) + (j - (i + 1) + 1) = j - 1 /\ (j - 1) + 1 = j
      BY <1>1, <1>2
    <3> QED
      BY <3>1, <1>3
  <2>2. \A j \in 1 .. Len(em.recs) : FALSE
    BY <1>1
  <2>4. PICK n : n = Len(g.recs)
    OBVIOUS
  <2>5. n = Len(e.recs) - 1
    BY <2>4, <1>3
  <2>6. n = i - 1 + Len(em.recs) + (Len(e.recs) + 1 - (i + 1))
    <3>1. \A N \in Nat : \A x \in 1 .. N : N - 1 = x - 1 + 0 + (N + 1 - (x + 1))
      OBVIOUS
    <3> QED
      BY <3>1, <1>1, <1>2, <2>5, Zenon
  <2>3. Len(g.recs) = i - 1 + Len(em.recs) + (Len(e.recs) + 1 - (i + 1))
    BY <2>4, <2>6
  <2> QED
    BY <2>1, <2>2, <2>3, <1>3 DEF IsSplice
<1>6. i \in 1 .. Len(e.recs) + 1 /\ i + 1 \in i .. Len(e.recs) + 1
  BY <1>2
<1>7. usedBytes(g) = BytesUpTo(e)[i - 1] + usedBytes(em) + (usedBytes(e) - BytesUpTo(e)[(i + 1) - 1])
  BY <1>1, <1>4, <1>5, <1>6, SpliceBytes
<1>8. usedBytes(em) = 0
  BY <1>1, BytesStep DEF usedBytes
<1>9. i - 1 \in 0 .. Len(e.recs) /\ i \in i - 1 .. Len(e.recs) /\ (i + 1) - 1 = i /\ i \in 0 .. Len(e.recs)
  BY <1>2
<1>10. BytesUpTo(e)[i - 1] <= BytesUpTo(e)[i]
  BY <1>9, BytesGrow
<1>11. BytesUpTo(e)[i - 1] \in Nat /\ BytesUpTo(e)[i] \in Nat /\ usedBytes(e) \in Nat
  BY <1>9, BytesStep, FewRecords
<1> QED
  BY <1>4, <1>7, <1>8, <1>9, <1>10, <1>11

\* The bytes used depend on kind and records only.
LEMMA SameBytes ==
    ASSUME NEW e, NEW f, f.kind = e.kind, f.recs = e.recs
    PROVE  usedBytes(f) = usedBytes(e)
BY DEF usedBytes, BytesUpTo

-----------------------------------------------------------------------------
(* Descending.                                                             *)

\* The record chosen in an index node.
LEMMA ChosenFacts ==
    ASSUME NEW en, en.recs \in Seq(Recs), Ascending(en.recs), en.recs # <<>>, NEW k \in Nat
    PROVE  /\ ChosenIdx(en, k) \in 1 .. Len(en.recs)
           /\ \/ en.recs[ChosenIdx(en, k)].key <= k
              \/ ChosenIdx(en, k) = 1 /\ k < en.recs[1].key
           /\ \A j \in 1 .. Len(en.recs) : ChosenIdx(en, k) < j => k < en.recs[j].key
<1> DEFINE s == en.recs
           leading == {i \in DOMAIN s : \A j \in 1 .. i : s[j].key <= k}
           c == ChosenIdx(en, k)
<1>1. /\ Len(s) \in Nat /\ DOMAIN s = 1 .. Len(s) /\ 1 \in 1 .. Len(s)
      /\ \A i \in 1 .. Len(s) : s[i].key \in Nat
  BY KeyNumbers
<1>2. \A i, j \in 1 .. Len(s) : i < j => s[i].key < s[j].key
  BY <1>1 DEF Ascending
<1>3. c = IF leading = {} THEN 1 ELSE Max(leading)
  BY DEF ChosenIdx
<1> HIDE DEF c, s
<1>4. leading = {i \in 1 .. Len(s) : s[i].key <= k}
  <2>1. ASSUME NEW i \in 1 .. Len(s), s[i].key <= k, NEW j \in 1 .. i
        PROVE  s[j].key <= k
    <3>1. j \in 1 .. Len(s) /\ (j = i \/ j < i)
      BY <1>1
    <3> QED
      BY <3>1, <2>1, <1>1, <1>2
  <2> QED
    BY <2>1, <1>1
<1>5. CASE leading = {}
  <2>1. c = 1
    BY <1>3, <1>5
  <2>2. \A j \in 1 .. Len(s) : k < s[j].key
    BY <1>1, <1>4, <1>5
  <2> QED
    BY <2>1, <2>2, <1>1 DEF s, c
<1>6. CASE leading # {}
  <2>1. leading \in SUBSET Nat /\ \A x \in leading : x <= Len(s)
    BY <1>1, <1>4
  <2>2. c \in leading /\ \A x \in leading : x <= c
    <3> HIDE DEF leading
    <3> QED
      BY <1>1, <1>3, <1>6, <2>1, MaxOf
  <2>3. c \in 1 .. Len(s) /\ s[c].key <= k
    BY <2>2, <1>4
  <2>4. \A j \in 1 .. Len(s) : c < j => k < s[j].key
    BY <2>2, <2>3, <1>1, <1>4
  <2> QED
    BY <2>3, <2>4 DEF s, c
<1> QED
  BY <1>5, <1>6

\* Node n is where the walk for key k passes its level.
On(t, n, k) ==
    /\ n \in t.us
    /\ t.lo[n] <= k \/ t.bl[n] = 0
    /\ \A x \in Peers(t, n) : t.lo[n] < t.lo[x] => k < t.lo[x]

\* The index record findChild chooses leads to the node a key belongs on.
LEMMA StepDown ==
    ASSUME NEW t, NEW top, Good(t, top, {}, {}), NEW n, NEW k \in Nat, On(t, n, k), t.ht[n] > 1,
           NEW r \in t.rs[n],
           r.key <= k \/ (r.key = t.lo[n] /\ k < r.key),
           \A s \in t.rs[n] : r.key < s.key => k < s.key
    PROVE  On(t, r.child, k) /\ t.ht[r.child] = t.ht[n] - 1
<1> DEFINE c == r.child
<1>1. /\ t.us \subseteq NodeNums /\ 0 \notin t.us
      /\ \A x \in t.us : t.lo[x] \in Nat /\ t.ht[x] \in Nat
      /\ \A x \in t.us : \A s \in t.rs[x] : s.key \in Nat
  BY TreeNumbers DEF Good
<1>2. n \in t.us
  BY DEF On
<1>3. c \in t.us /\ t.ht[n] = t.ht[c] + 1 /\ r.key = t.lo[c]
  BY <1>2 DEF Good, Indexed
<1>4. t.ht[n] <= t.ht[top]
  BY <1>2 DEF Good, Topped
<1>5. ASSUME NEW x \in t.us, t.ht[x] = t.ht[c]
      PROVE  \E p \in t.us : /\ t.ht[p] = t.ht[n] /\ t.ht[p] > 1
                             /\ \E s \in t.rs[p] : s.child = x /\ s.key = t.lo[x] /\ t.lo[p] <= s.key
  <2>1. x # top
    BY <1>1, <1>2, <1>3, <1>4, <1>5 DEF Good, Topped
  <2>2. PICK p \in t.us : t.ht[p] > 1 /\ \E s \in t.rs[p] : s.child = x
    BY <2>1 DEF Good, Owned
  <2>3. PICK s \in t.rs[p] : s.child = x
    BY <2>2
  <2>4. t.ht[p] = t.ht[x] + 1 /\ s.key = t.lo[x]
    BY <2>2, <2>3 DEF Good, Indexed
  <2>5. t.lo[p] <= s.key
    BY <2>3 DEF Good, Filled
  <2> QED
    BY <2>2, <2>3, <2>4, <2>5, <1>3, <1>5
<1>6. ASSUME NEW x \in Peers(t, c), t.lo[c] < t.lo[x]
      PROVE  k < t.lo[x]
  <2>1. x \in t.us /\ t.ht[x] = t.ht[c]
    BY DEF Peers
  <2>2. PICK p \in t.us : /\ t.ht[p] = t.ht[n] /\ t.ht[p] > 1
                          /\ \E s \in t.rs[p] : s.child = x /\ s.key = t.lo[x] /\ t.lo[p] <= s.key
    BY <2>1, <1>5
  <2>3. PICK s \in t.rs[p] : s.child = x /\ s.key = t.lo[x] /\ t.lo[p] <= s.key
    BY <2>2
  <2>4. CASE p = n
    BY <2>3, <2>4, <1>3, <1>6
  <2>5. CASE p # n
    <3>1. p \in Peers(t, n) /\ n \in Peers(t, p)
      BY <2>2, <2>5, <1>2 DEF Peers
    <3>2. t.lo[p] # t.lo[n] /\ (t.lo[p] < t.lo[n] => s.key < t.lo[n])
      BY <2>3, <3>1, <1>2 DEF Good, Apart
    <3>3. t.lo[n] <= r.key
      BY <1>2 DEF Good, Filled
    <3>4. t.lo[n] < t.lo[p]
      BY <3>2, <3>3, <2>1, <2>3, <1>1, <1>2, <1>3, <1>6
    <3>5. k < t.lo[p]
      BY <3>1, <3>4 DEF On
    <3> QED
      BY <3>5, <2>1, <2>3, <1>1
  <2> QED
    BY <2>4, <2>5
<1>7. t.lo[c] <= k \/ t.bl[c] = 0
  <2> SUFFICES ASSUME ~(t.lo[c] <= k), t.bl[c] # 0 PROVE FALSE
    OBVIOUS
  <2>1. r.key = t.lo[n] /\ k < r.key
    BY <1>3
  <2>2. t.bl[n] = 0
    BY <2>1, <1>1, <1>2 DEF On
  <2> DEFINE b == t.bl[c]
  <2>3. b \in t.us /\ t.fl[b] = c
    BY <1>3 DEF Good, Linked
  <2>4. t.fl[b] # 0
    BY <2>3, <1>1, <1>3
  <2>5. c \in Peers(t, b) /\ t.lo[b] < t.lo[c]
    BY <2>3, <2>4 DEF Good, Linked
  <2>6. t.ht[b] = t.ht[c]
    BY <2>5 DEF Peers
  <2>7. PICK p \in t.us : /\ t.ht[p] = t.ht[n] /\ t.ht[p] > 1
                          /\ \E s \in t.rs[p] : s.child = b /\ s.key = t.lo[b] /\ t.lo[p] <= s.key
    BY <2>3, <2>6, <1>5
  <2>8. t.lo[p] <= t.lo[b]
    BY <2>7
  <2>9. t.lo[n] <= t.lo[p]
    <3>1. CASE p = n
      BY <3>1, <1>1, <1>2
    <3>2. CASE p # n
      <4>1. p \in Peers(t, n)
        BY <2>7, <3>2 DEF Peers
      <4>2. t.lo[n] < t.lo[p]
        BY <4>1, <2>2, <1>2 DEF Good, Linked
      <4> QED
        BY <4>2, <1>1, <1>2, <2>7
    <3> QED
      BY <3>1, <3>2
  <2> QED
    BY <2>1, <2>3, <2>5, <2>7, <2>8, <2>9, <1>1, <1>2, <1>3
<1> QED
  BY <1>1, <1>2, <1>3, <1>6, <1>7 DEF On

\* What the view shows of the nodes.
LEMMA ViewFacts ==
    ASSUME NEW nd \in [NodeNums -> Nodes], NEW us \in SUBSET NodeNums
    PROVE  /\ TreeType(View(nd, us))
           /\ View(nd, us).us = us
           /\ \A n \in NodeNums :
                 /\ View(nd, us).ht[n] = nd[n].height
                 /\ View(nd, us).rs[n] = ToSet(nd[n].recs)
                 /\ View(nd, us).lo[n] = IF nd[n].recs = <<>> THEN 0 ELSE nd[n].recs[1].key
                 /\ View(nd, us).fl[n] = nd[n].FLink
                 /\ View(nd, us).bl[n] = nd[n].BLink
<1> DEFINE t == View(nd, us)
<1>1. ASSUME NEW n \in NodeNums
      PROVE  /\ nd[n].height \in Nat /\ nd[n].recs \in Seq(Recs)
             /\ nd[n].FLink \in 0 .. MaxNode /\ nd[n].BLink \in 0 .. MaxNode
             /\ ToSet(nd[n].recs) \in SUBSET Recs
             /\ nd[n].recs # <<>> => nd[n].recs[1].key \in Nat
  <2>1. nd[n] \in Nodes
    OBVIOUS
  <2>2. /\ nd[n].height \in Nat /\ nd[n].recs \in Seq(Recs)
        /\ nd[n].FLink \in 0 .. MaxNode /\ nd[n].BLink \in 0 .. MaxNode
    BY <2>1 DEF Nodes
  <2>3. nd[n].recs # <<>> => 1 \in 1 .. Len(nd[n].recs)
    BY <2>2, EmptySeq
  <2> QED
    BY <2>2, <2>3, KeyNumbers
<1>2. /\ t.us = us
      /\ t.ht = [n \in NodeNums |-> nd[n].height]
      /\ t.rs = [n \in NodeNums |-> ToSet(nd[n].recs)]
      /\ t.lo = [n \in NodeNums |-> IF nd[n].recs = <<>> THEN 0 ELSE nd[n].recs[1].key]
      /\ t.fl = [n \in NodeNums |-> nd[n].FLink]
      /\ t.bl = [n \in NodeNums |-> nd[n].BLink]
  BY DEF View, FirstKey
<1> HIDE DEF t
<1>3. TreeType(t)
  BY <1>1, <1>2 DEF TreeType
<1> QED
  BY <1>2, <1>3 DEF t

\* What Types and Stocked say of a node in use.
LEMMA NodeFacts ==
    ASSUME Types, Stocked, NEW n \in used
    PROVE  /\ n \in NodeNums /\ n \in 1 .. pool /\ n # 0
           /\ node[n] \in Nodes
           /\ node[n].recs \in Seq(Recs) /\ Len(node[n].recs) \in Nat \ {0}
           /\ DOMAIN node[n].recs = 1 .. Len(node[n].recs)
           /\ Ascending(node[n].recs)
           /\ Sized(node[n])
           /\ recordsFit(node[n])
           /\ node[n].recs # <<>>
           /\ node[n].kind = IF node[n].height = 1 THEN "leaf" ELSE "index"
           /\ Tree.us = used
           /\ Tree.ht[n] = node[n].height
           /\ Tree.rs[n] = ToSet(node[n].recs)
           /\ Tree.lo[n] = node[n].recs[1].key
           /\ Tree.fl[n] = node[n].FLink
           /\ Tree.bl[n] = node[n].BLink
           /\ node[n].recs[1] \in Tree.rs[n]
           /\ \A i \in 1 .. Len(node[n].recs) : node[n].recs[i] \in Tree.rs[n]
<1>1. MaxNode \in Nat /\ pool \in 1 .. MaxNode /\ used \subseteq 1 .. pool
  BY MaxNodeAssumption DEF Types
<1>2. used \in SUBSET NodeNums /\ n \in NodeNums /\ n \in 1 .. pool /\ n # 0
  BY <1>1 DEF NodeNums
<1>3. node \in [NodeNums -> Nodes]
  BY DEF Types
<1>4. node[n] \in Nodes
  BY <1>2, <1>3
<1>5. /\ node[n].recs \in Seq(Recs) /\ node[n].recs # <<>> /\ Ascending(node[n].recs)
      /\ node[n].kind \in {"leaf", "index"} /\ recordsFit(node[n])
      /\ node[n].kind = IF node[n].height = 1 THEN "leaf" ELSE "index"
  BY <1>4 DEF Stocked, Nodes
<1>6. Len(node[n].recs) \in Nat \ {0} /\ DOMAIN node[n].recs = 1 .. Len(node[n].recs)
  BY <1>5, EmptySeq
<1>7. /\ Tree.us = used
      /\ Tree.ht[n] = node[n].height
      /\ Tree.rs[n] = ToSet(node[n].recs)
      /\ Tree.lo[n] = IF node[n].recs = <<>> THEN 0 ELSE node[n].recs[1].key
      /\ Tree.fl[n] = node[n].FLink
      /\ Tree.bl[n] = node[n].BLink
  BY <1>2, <1>3, ViewFacts DEF Tree
<1>8. \A i \in 1 .. Len(node[n].recs) : node[n].recs[i] \in ToSet(node[n].recs)
  BY <1>5, KeyNumbers
<1> QED
  BY <1>2, <1>4, <1>5, <1>6, <1>7, <1>8 DEF Sized

\* A walk from the root for key k.
Walk(p, k) ==
    /\ p \in Seq(NodeNums) /\ p # <<>> /\ p[1] = root
    /\ Len(p) <= treeDepth
    /\ \A i \in 1 .. Len(p) : On(Tree, p[i], k) /\ node[p[i]].height = treeDepth + 1 - i
    /\ \A i \in 1 .. Len(p) - 1 :
          node[p[i]].recs[ChosenIdx(node[p[i]], k)].child = p[i + 1]

\* The tree is whole: no operation is in progress.
Resting == Types /\ Stocked /\ Grown /\ pc = "idle"

\* A tree between two calls.
LEMMA RestingFacts ==
    ASSUME Resting
    PROVE  /\ Good(Tree, root, {}, {})
           /\ root \in used
           /\ treeDepth = node[root].height
           /\ treeDepth \in Nat \ {0}
<1>1. Types /\ Stocked /\ root \in used /\ treeDepth = node[root].height
  BY DEF Resting, Grown
<1>2. Orphans = {} /\ Stale = {}
  BY DEF Resting, Orphans, Stale, Splitting
<1>3. Good(Tree, root, {}, {})
  BY <1>2 DEF Resting, Grown
<1>4. Tree.us = used /\ Tree.ht[root] = node[root].height
  BY <1>1, NodeFacts
<1>5. treeDepth > 0
  BY <1>1, <1>3, <1>4 DEF Good, Filled
<1>6. treeDepth \in Nat
  BY <1>1 DEF Types
<1> QED
  BY <1>1, <1>3, <1>5, <1>6

\* From a node above the leaves the walk goes on to the chosen child.
LEMMA WalkStep ==
    ASSUME Resting, NEW k \in Nat, NEW n, On(Tree, n, k), node[n].height > 1
    PROVE  LET c == node[n].recs[ChosenIdx(node[n], k)].child
           IN  On(Tree, c, k) /\ c \in NodeNums /\ node[c].height = node[n].height - 1
<1> DEFINE i == ChosenIdx(node[n], k)
           r == node[n].recs[i]
<1>1. Types /\ Stocked /\ Good(Tree, root, {}, {})
  BY RestingFacts DEF Resting
<1>2. Tree.us = used /\ n \in used
  BY <1>1, ViewFacts, RestingFacts, NodeFacts DEF On
<1>3. /\ node[n].recs \in Seq(Recs) /\ Ascending(node[n].recs) /\ node[n].recs # <<>>
      /\ Tree.rs[n] = ToSet(node[n].recs) /\ Tree.lo[n] = node[n].recs[1].key
      /\ Tree.ht[n] = node[n].height
      /\ DOMAIN node[n].recs = 1 .. Len(node[n].recs)
      /\ Len(node[n].recs) \in Nat
      /\ \A j \in 1 .. Len(node[n].recs) : node[n].recs[j] \in Tree.rs[n]
  BY <1>1, <1>2, NodeFacts
<1>4. /\ i \in 1 .. Len(node[n].recs)
      /\ \/ node[n].recs[i].key <= k
         \/ i = 1 /\ k < node[n].recs[1].key
      /\ \A j \in 1 .. Len(node[n].recs) : i < j => k < node[n].recs[j].key
  BY <1>3, ChosenFacts
<1> HIDE DEF i
<1>5. r \in Tree.rs[n]
  BY <1>3, <1>4
<1>6. r.key <= k \/ (r.key = Tree.lo[n] /\ k < r.key)
  BY <1>3, <1>4
<1>7. ASSUME NEW s \in Tree.rs[n], r.key < s.key
      PROVE  k < s.key
  <2>1. PICK j \in 1 .. Len(node[n].recs) : s = node[n].recs[j]
    BY <1>3 DEF ToSet
  <2>2. i < j
    BY <1>3, <1>4, <1>7, <2>1, InKeyOrder
  <2> QED
    BY <2>1, <2>2, <1>4
<1> HIDE DEF r
<1>8. On(Tree, r.child, k) /\ Tree.ht[r.child] = Tree.ht[n] - 1
  BY <1>1, <1>3, <1>5, <1>6, <1>7, StepDown
<1>9. r.child \in used
  BY <1>2, <1>8 DEF On
<1>10. r.child \in NodeNums /\ Tree.ht[r.child] = node[r.child].height
  BY <1>1, <1>9, NodeFacts
<1> QED
  BY <1>3, <1>8, <1>10 DEF i, r

\* From the root one can walk down to every level.
LEMMA WalkExists ==
    ASSUME Resting, NEW k \in Nat, NEW m \in 1 .. treeDepth
    PROVE  \E p : Walk(p, k) /\ Len(p) = m
<1> DEFINE S == {n \in 1 .. treeDepth : \E p : Walk(p, k) /\ Len(p) = n}
<1>1. /\ Types /\ Stocked /\ Good(Tree, root, {}, {}) /\ root \in used
      /\ treeDepth = node[root].height /\ treeDepth \in Nat \ {0}
  BY RestingFacts DEF Resting
<1>2. /\ Tree.us = used /\ Tree.ht[root] = treeDepth /\ root \in NodeNums
      /\ Tree.bl[root] = node[root].BLink
  BY <1>1, NodeFacts
<1>3. 1 \in S
  <2> DEFINE p == <<root>>
  <2>1. p \in Seq(NodeNums) /\ p # <<>> /\ Len(p) = 1 /\ p[1] = root
    BY <1>2
  <2>2. Peers(Tree, root) = {}
    BY <1>1 DEF Good, Topped, Peers
  <2>3. Tree.bl[root] = 0
    <3> SUFFICES ASSUME Tree.bl[root] # 0 PROVE FALSE
      OBVIOUS
    <3> DEFINE b == Tree.bl[root]
    <3>1. b \in Tree.us /\ Tree.fl[b] = root
      BY <1>1, <1>2 DEF Good, Linked
    <3>2. root # 0
      BY <1>1, NodeFacts
    <3>3. root \in Peers(Tree, b)
      BY <1>1, <3>1, <3>2 DEF Good, Linked
    <3>4. b \in Peers(Tree, root)
      BY <3>1, <3>3 DEF Peers
    <3> QED
      BY <3>4, <2>2
  <2>4. On(Tree, root, k)
    BY <1>1, <1>2, <2>2, <2>3 DEF On
  <2> HIDE DEF p
  <2>5. ASSUME NEW i \in 1 .. Len(p)
        PROVE  On(Tree, p[i], k) /\ node[p[i]].height = treeDepth + 1 - i
    <3>1. i = 1
      BY <2>1
    <3> QED
      BY <3>1, <2>1, <2>4, <1>1
  <2>6. Len(p) <= treeDepth /\ \A i \in 1 .. Len(p) - 1 : FALSE
    BY <2>1, <1>1
  <2>7. Walk(p, k)
    BY <2>1, <2>5, <2>6 DEF Walk
  <2> QED
    BY <2>1, <2>7, <1>1
<1>4. ASSUME NEW n \in 1 .. treeDepth, n \in S, n < treeDepth
      PROVE  n + 1 \in S
  <2>1. PICK p : Walk(p, k) /\ Len(p) = n
    BY <1>4
  <2>2. /\ p \in Seq(NodeNums) /\ p # <<>> /\ p[1] = root
        /\ \A i \in 1 .. n : On(Tree, p[i], k) /\ node[p[i]].height = treeDepth + 1 - i
        /\ \A i \in 1 .. n - 1 :
              node[p[i]].recs[ChosenIdx(node[p[i]], k)].child = p[i + 1]
    BY <2>1 DEF Walk
  <2> DEFINE c == node[p[n]].recs[ChosenIdx(node[p[n]], k)].child
             q == Append(p, c)
  <2>11. n \in Nat /\ n >= 1 /\ treeDepth \in Nat /\ n < treeDepth
    BY <1>1, <1>4
  <2>3. On(Tree, p[n], k) /\ node[p[n]].height = treeDepth + 1 - n /\ node[p[n]].height > 1
    <3>1. n \in 1 .. n /\ treeDepth + 1 - n > 1
      BY <2>11
    <3> QED
      BY <3>1, <2>2
  <2>4. On(Tree, c, k) /\ c \in NodeNums /\ node[c].height = node[p[n]].height - 1
    BY <2>3, WalkStep
  <2> HIDE DEF c
  <2>5. q \in Seq(NodeNums) /\ Len(q) = n + 1 /\ q[n + 1] = c /\ \A i \in 1 .. n : q[i] = p[i]
    BY <2>1, <2>2, <2>4
  <2> HIDE DEF q
  <2>6. ASSUME NEW i \in 1 .. Len(q)
        PROVE  On(Tree, q[i], k) /\ node[q[i]].height = treeDepth + 1 - i
    <3>1. CASE i = n + 1
      BY <3>1, <2>3, <2>4, <2>5, <1>1
    <3>2. CASE i \in 1 .. n
      BY <3>2, <2>2, <2>5
    <3> QED
      BY <3>1, <3>2, <2>5
  <2>7. ASSUME NEW i \in 1 .. Len(q) - 1
        PROVE  node[q[i]].recs[ChosenIdx(node[q[i]], k)].child = q[i + 1]
    <3>1. CASE i = n
      BY <3>1, <2>5 DEF c
    <3>2. CASE i \in 1 .. n - 1
      <4>1. q[i] = p[i] /\ q[i + 1] = p[i + 1]
        BY <3>2, <2>5
      <4> QED
        BY <3>2, <4>1, <2>2
    <3> QED
      BY <3>1, <3>2, <2>5
  <2>8. q # <<>> /\ q[1] = root
    BY <2>2, <2>5
  <2>12. Len(q) <= treeDepth
    BY <2>5, <2>11
  <2>9. Walk(q, k)
    BY <2>5, <2>6, <2>7, <2>8, <2>12, Zenon DEF Walk
  <2>10. n + 1 \in 1 .. treeDepth
    BY <1>1, <1>4
  <2> QED
    BY <2>5, <2>9, <2>10
<1> HIDE DEF S
<1>5. 1 .. treeDepth \subseteq S
  BY <1>1, <1>3, <1>4, Inducts
<1> QED
  BY <1>5 DEF S

\* The nodes of a walk are different ones.
LEMMA DepthBound ==
    ASSUME Resting
    PROVE  treeDepth \in 1 .. MaxNode
<1>1. treeDepth \in Nat \ {0} /\ MaxNode \in Nat
  BY RestingFacts, MaxNodeAssumption
<1>2. treeDepth \in 1 .. treeDepth /\ 0 \in Nat
  BY <1>1
<1>3. PICK p : Walk(p, 0) /\ Len(p) = treeDepth
  BY <1>2, WalkExists
<1>4. /\ p \in [1 .. treeDepth -> NodeNums]
      /\ \A i \in 1 .. treeDepth : node[p[i]].height = treeDepth + 1 - i
  BY <1>3 DEF Walk
<1>5. ASSUME NEW i \in 1 .. treeDepth, NEW j \in 1 .. treeDepth, p[i] = p[j]
      PROVE  i = j
  BY <1>1, <1>4, <1>5
<1>6. p \in Injection(1 .. treeDepth, NodeNums)
  BY <1>4, <1>5 DEF Injection, IsInjective
<1>7. IsFiniteSet(NodeNums) /\ Cardinality(NodeNums) = MaxNode
  BY <1>1, FS_Interval DEF NodeNums
<1>8. Cardinality(1 .. treeDepth) = treeDepth
  BY <1>1, FS_Interval
<1>9. Cardinality(1 .. treeDepth) <= Cardinality(NodeNums)
  BY <1>6, <1>7, FS_Injection
<1> QED
  BY <1>1, <1>7, <1>8, <1>9

\* descend is the walk from the root to a leaf.
LEMMA Descent ==
    ASSUME Resting, NEW k \in Nat
    PROVE  Walk(descend(k), k) /\ Len(descend(k)) = treeDepth
<1> DEFINE N == MaxNode + 1
           Go(v) == CASE Last(v) <= 0 \/ node[Last(v)].kind = "leaf" -> v
                      [] node[Last(v)].recs = <<>> -> Append(v, -1)
                      [] OTHER -> Append(v, node[Last(v)].recs[ChosenIdx(node[Last(v)], k)].child)
           P(g) == g = [i \in 1 .. N |-> IF i = 1 THEN <<root>> ELSE Go(g[i - 1])]
<1>1. /\ Types /\ Stocked /\ treeDepth \in 1 .. MaxNode /\ MaxNode \in Nat /\ treeDepth \in Nat
  BY RestingFacts, DepthBound, MaxNodeAssumption DEF Resting
<1>2. PICK w : Walk(w, k) /\ Len(w) = treeDepth
  <2>1. treeDepth \in 1 .. treeDepth
    BY <1>1
  <2> QED
    BY <2>1, WalkExists
<1>3. /\ w \in Seq(NodeNums) /\ w[1] = root
      /\ \A i \in 1 .. treeDepth : On(Tree, w[i], k) /\ node[w[i]].height = treeDepth + 1 - i
      /\ \A i \in 1 .. treeDepth - 1 :
            node[w[i]].recs[ChosenIdx(node[w[i]], k)].child = w[i + 1]
  BY <1>2 DEF Walk
<1>4. ASSUME NEW i \in 1 .. treeDepth
      PROVE  /\ w[i] \in used /\ w[i] > 0 /\ node[w[i]].recs # <<>>
             /\ node[w[i]].kind = IF i = treeDepth THEN "leaf" ELSE "index"
  <2>1. On(Tree, w[i], k) /\ node[w[i]].height = treeDepth + 1 - i
    BY <1>3
  <2>2. Tree.us = used
    BY <1>1, RestingFacts, NodeFacts
  <2>3. w[i] \in used
    BY <2>1, <2>2 DEF On
  <2>4. /\ w[i] \in NodeNums /\ node[w[i]].recs # <<>>
        /\ node[w[i]].kind = IF node[w[i]].height = 1 THEN "leaf" ELSE "index"
    BY <1>1, <2>3, NodeFacts
  <2>5. node[w[i]].height = 1 <=> i = treeDepth
    BY <1>1, <2>1
  <2> QED
    BY <2>3, <2>4, <2>5 DEF NodeNums
<1> DEFINE u == [i \in 1 .. treeDepth |-> SubSeq(w, 1, i)]
<1>5. ASSUME NEW i \in 1 .. treeDepth
      PROVE  u[i] \in Seq(NodeNums) /\ Len(u[i]) = i /\ (\A j \in 1 .. i : u[i][j] = w[j]) /\ Last(u[i]) = w[i]
  <2>1. u[i] = SubSeq(w, 1, i)
    OBVIOUS
  <2>2. i \in Int /\ 1 <= i /\ \A j \in 1 .. i : w[j] \in NodeNums
    BY <1>1, <1>2, <1>3
  <2>3. /\ SubSeq(w, 1, i) \in Seq(NodeNums) /\ Len(SubSeq(w, 1, i)) = IF 1 <= i THEN i - 1 + 1 ELSE 0
        /\ \A j \in 1 .. i - 1 + 1 : SubSeq(w, 1, i)[j] = w[1 + j - 1]
    BY <2>2, SubSeqProperties
  <2> HIDE DEF u
  <2>4. u[i] \in Seq(NodeNums) /\ Len(u[i]) = i /\ \A j \in 1 .. i : u[i][j] = w[j]
    BY <2>1, <2>2, <2>3
  <2> QED
    BY <2>2, <2>4 DEF Last
<1>6. u[1] = <<root>>
  <2>1. 1 \in 1 .. treeDepth
    BY <1>1
  <2> HIDE DEF u
  <2>5. u[1] \in Seq(NodeNums) /\ Len(u[1]) = 1 /\ \A j \in 1 .. 1 : u[1][j] = w[j]
    BY <2>1, <1>5
  <2>2. u[1] \in Seq(NodeNums) /\ Len(u[1]) = 1 /\ u[1][1] = root
    BY <2>5, <1>3
  <2>3. PICK a : a = u[1]
    OBVIOUS
  <2>4. a = <<root>>
    BY <2>2, <2>3
  <2> QED
    BY <2>3, <2>4
<1> HIDE DEF u
<1>7. ASSUME NEW i \in 1 .. treeDepth - 1
      PROVE  Go(u[i]) = u[i + 1]
  <2>1. i \in 1 .. treeDepth /\ i + 1 \in 1 .. treeDepth /\ i # treeDepth
    BY <1>1
  <2>5. w[i] > 0 /\ node[w[i]].kind = "index" /\ node[w[i]].recs # <<>>
    BY <2>1, <1>4
  <2>6. w[i] \in Nat
    BY <2>1, <1>1, <1>2, <1>3 DEF NodeNums
  <2>2. /\ Last(u[i]) = w[i] /\ w[i] > 0 /\ w[i] \in Nat /\ node[w[i]].kind = "index" /\ node[w[i]].recs # <<>>
        /\ node[w[i]].recs[ChosenIdx(node[w[i]], k)].child = w[i + 1]
    BY <2>1, <2>5, <2>6, <1>3, <1>5
  <2>3. Go(u[i]) = Append(u[i], w[i + 1])
    BY <2>2
  <2> HIDE DEF Go
  <2>4. Append(u[i], w[i + 1]) = u[i + 1]
    <3>1. /\ u[i] \in Seq(NodeNums) /\ Len(u[i]) = i /\ \A j \in 1 .. i : u[i][j] = w[j]
          /\ u[i + 1] \in Seq(NodeNums) /\ Len(u[i + 1]) = i + 1 /\ \A j \in 1 .. i + 1 : u[i + 1][j] = w[j]
      BY <2>1, <1>5
    <3>2. w[i + 1] \in NodeNums
      BY <2>1, <1>2, <1>3
    <3>3. PICK a : a = Append(u[i], w[i + 1])
      OBVIOUS
    <3>4. a \in Seq(NodeNums) /\ Len(a) = i + 1 /\ a[i + 1] = w[i + 1] /\ \A j \in 1 .. i : a[j] = w[j]
      BY <3>1, <3>2, <3>3, <2>1
    <3>5. a = u[i + 1]
      BY <3>1, <3>4, SeqEqual
    <3> QED
      BY <3>3, <3>5
  <2> QED
    BY <2>3, <2>4
<1>8. u[treeDepth] = w
  <2>1. treeDepth \in 1 .. treeDepth
    BY <1>1
  <2> QED
    BY <2>1, <1>2, <1>3, <1>5, SeqEqual
<1>9. Go(w) = w
  <2>1. treeDepth \in 1 .. treeDepth
    BY <1>1
  <2>2. Last(w) = w[treeDepth] /\ node[w[treeDepth]].kind = "leaf" /\ node[w[treeDepth]].recs # <<>>
    BY <2>1, <1>2, <1>4 DEF Last
  <2> QED
    BY <2>2
<1> HIDE DEF Go
<1> DEFINE f == [i \in 1 .. N |-> IF i <= treeDepth THEN u[i] ELSE w]
<1>10. P(f)
  <2>1. ASSUME NEW i \in 1 .. N
        PROVE  f[i] = IF i = 1 THEN <<root>> ELSE Go(f[i - 1])
    <3>1. CASE i = 1
      BY <3>1, <1>1, <1>6
    <3>2. CASE i # 1 /\ i <= treeDepth
      <4>1. i - 1 \in 1 .. treeDepth - 1 /\ (i - 1) + 1 = i /\ i - 1 \in 1 .. N /\ i - 1 <= treeDepth
        BY <3>2, <1>1
      <4>2. f[i - 1] = u[i - 1] /\ f[i] = u[i]
        BY <3>2, <4>1
      <4>3. Go(u[i - 1]) = u[i]
        BY <4>1, <1>7
      <4> HIDE DEF f
      <4> QED
        BY <3>2, <4>2, <4>3
    <3>3. CASE i # 1 /\ ~(i <= treeDepth)
      <4>1. i - 1 \in 1 .. N /\ f[i] = w
        BY <3>3, <1>1
      <4>2. f[i - 1] = w
        <5>1. CASE i - 1 <= treeDepth
          <6>1. i - 1 = treeDepth
            BY <3>3, <5>1, <1>1
          <6> QED
            BY <4>1, <5>1, <6>1, <1>8
        <5>2. CASE ~(i - 1 <= treeDepth)
          BY <4>1, <5>2
        <5> QED
          BY <5>1, <5>2
      <4> HIDE DEF f
      <4> QED
        BY <3>3, <4>1, <4>2, <1>9
    <3> QED
      BY <3>1, <3>2, <3>3
  <2>2. f = [i \in 1 .. N |-> f[i]]
    OBVIOUS
  <2> HIDE DEF f
  <2> QED
    BY <2>1, <2>2
<1> DEFINE at == CHOOSE g : P(g)
<1>11. descend(k) = at[N]
  BY DEF descend, Go
<1>12. P(at)
  <2> HIDE DEF f
  <2> QED
    BY <1>10
<1> HIDE DEF at
<1>13. at[1] = <<root>> /\ \A i \in 1 .. N : i # 1 => at[i] = Go(at[i - 1])
  BY <1>1, <1>12
<1> DEFINE S == {i \in 1 .. treeDepth : at[i] = u[i]}
           T == {i \in treeDepth .. N : at[i] = w}
<1>14. 1 .. treeDepth \subseteq S
  <2>1. 1 \in S
    BY <1>1, <1>6, <1>13
  <2>2. ASSUME NEW i \in 1 .. treeDepth, i \in S, i < treeDepth
        PROVE  i + 1 \in S
    <3>1. i \in 1 .. treeDepth - 1 /\ i + 1 \in 1 .. N /\ i + 1 # 1 /\ (i + 1) - 1 = i /\ i + 1 \in 1 .. treeDepth
      BY <1>1, <2>2
    <3>2. at[i + 1] = Go(at[i])
      BY <3>1, <1>13
    <3> QED
      BY <3>1, <3>2, <2>2, <1>7
  <2> HIDE DEF S
  <2> QED
    BY <1>1, <2>1, <2>2, Inducts
<1>15. treeDepth .. N \subseteq T
  <2>1. treeDepth \in T
    <3>1. treeDepth \in 1 .. treeDepth
      BY <1>1
    <3> QED
      BY <3>1, <1>1, <1>8, <1>14
  <2>2. ASSUME NEW i \in treeDepth .. N, i \in T, i < N
        PROVE  i + 1 \in T
    <3>1. i + 1 \in 1 .. N /\ i + 1 # 1 /\ (i + 1) - 1 = i /\ i + 1 \in treeDepth .. N
      BY <1>1, <2>2
    <3>2. at[i + 1] = Go(at[i])
      BY <3>1, <1>13
    <3> QED
      BY <3>1, <3>2, <2>2, <1>9
  <2>3. N \in Nat /\ treeDepth \in Nat
    BY <1>1
  <2> HIDE DEF T, N
  <2> QED
    BY <2>1, <2>2, <2>3, Inducts
<1>16. at[N] = w
  BY <1>1, <1>15
<1> QED
  BY <1>2, <1>11, <1>16

\* The leaf that insert, delete and the readers come to.
LEMMA LeafFacts ==
    ASSUME Resting, NEW k \in Nat
    PROVE  /\ descend(k) \in Seq(NodeNums) /\ descend(k) # <<>>
           /\ Len(descend(k)) = treeDepth
           /\ Last(descend(k)) = descend(k)[treeDepth]
           /\ Last(descend(k)) \in used
           /\ node[Last(descend(k))].height = 1
           /\ On(Tree, Last(descend(k)), k)
           /\ Descends(k)
<1>1. treeDepth \in 1 .. MaxNode /\ treeDepth \in Nat \ {0}
  BY DepthBound, RestingFacts
<1>2. PICK p : p = descend(k)
  OBVIOUS
<1>3. Walk(p, k) /\ Len(p) = treeDepth
  BY <1>2, Descent
<1>4. /\ p \in Seq(NodeNums) /\ p # <<>>
      /\ \A i \in 1 .. Len(p) : On(Tree, p[i], k) /\ node[p[i]].height = treeDepth + 1 - i
  BY <1>3 DEF Walk
<1>5. Last(p) = p[treeDepth]
  BY <1>3 DEF Last
<1>6. On(Tree, p[treeDepth], k) /\ node[p[treeDepth]].height = 1
  <2>1. treeDepth \in 1 .. Len(p) /\ treeDepth + 1 - treeDepth = 1
    BY <1>1, <1>3
  <2> QED
    BY <2>1, <1>4
<1>7. Tree.us = used
  BY RestingFacts, NodeFacts DEF Resting
<1>8. p[treeDepth] \in used
  BY <1>6, <1>7 DEF On
<1>9. -1 \notin ToSet(p)
  <2>1. \A i \in 1 .. Len(p) : p[i] \in NodeNums /\ DOMAIN p = 1 .. Len(p)
    BY <1>4
  <2>2. -1 \notin NodeNums
    BY DEF NodeNums
  <2> QED
    BY <2>1, <2>2, <1>4 DEF ToSet
<1>10. Descends(k)
  BY <1>1, <1>2, <1>3, <1>9 DEF Descends
<1> QED
  BY <1>2, <1>3, <1>4, <1>5, <1>6, <1>8, <1>10

-----------------------------------------------------------------------------
(* Storing nodes that fit.                                                 *)

\* A list of writes that all fit stores every one of them.
LEMMA StoredFits ==
    ASSUME NEW nd, NEW writes, AllFit(writes),
           \A i, j \in DOMAIN writes : writes[i][1] = writes[j][1] => i = j
    PROVE  /\ Stored(nd, writes) = [m \in NodeNums |-> Stored(nd, writes)[m]]
           /\ \A m \in NodeNums :
                 /\ \A i \in DOMAIN writes : writes[i][1] = m => Stored(nd, writes)[m] = writes[i][2]
                 /\ (\A i \in DOMAIN writes : writes[i][1] # m) => Stored(nd, writes)[m] = nd[m]
<1> DEFINE bad == {i \in DOMAIN writes : ~recordsFit(writes[i][2])}
           done == {i \in DOMAIN writes : \A j \in bad : i <= j}
           st == Stored(nd, writes)
<1>1. bad = {}
  BY DEF AllFit
<1>2. done = DOMAIN writes
  BY <1>1
<1>3. st = [m \in NodeNums |->
              IF \E i \in done : writes[i][1] = m
              THEN IF (CHOOSE i \in done : writes[i][1] = m) \in bad THEN Erased
                   ELSE writes[CHOOSE i \in done : writes[i][1] = m][2]
              ELSE nd[m]]
  BY DEF Stored
<1> HIDE DEF bad, done, st
<1>4. ASSUME NEW m \in NodeNums, NEW i \in DOMAIN writes, writes[i][1] = m
      PROVE  st[m] = writes[i][2]
  <2> DEFINE c == CHOOSE j \in done : writes[j][1] = m
  <2>1. c \in done /\ writes[c][1] = m
    BY <1>2, <1>4
  <2>2. c = i
    BY <1>2, <1>4, <2>1
  <2>3. \E j \in done : writes[j][1] = m
    BY <1>2, <1>4
  <2> HIDE DEF c
  <2>4. st[m] = writes[c][2]
    BY <1>1, <1>3, <2>1, <2>3 DEF c
  <2> QED
    BY <2>2, <2>4
<1>5. ASSUME NEW m \in NodeNums, \A i \in DOMAIN writes : writes[i][1] # m
      PROVE  st[m] = nd[m]
  BY <1>2, <1>3, <1>5
<1>6. st = [m \in NodeNums |-> st[m]]
  BY <1>3
<1> QED
  BY <1>4, <1>5, <1>6 DEF st

\* One write, two and three.
LEMMA StoredOne ==
    ASSUME NEW nd, NEW a \in NodeNums, NEW x, recordsFit(x)
    PROVE  Stored(nd, <<<<a, x>>>>) = [m \in NodeNums |-> IF m = a THEN x ELSE nd[m]]
<1> DEFINE w == <<<<a, x>>>>
<1>1. DOMAIN w = {1} /\ w[1][1] = a /\ w[1][2] = x
  OBVIOUS
<1> HIDE DEF w
<1>2. AllFit(w)
  BY <1>1 DEF AllFit
<1>3. \A i, j \in DOMAIN w : w[i][1] = w[j][1] => i = j
  BY <1>1
<1>4. /\ Stored(nd, w) = [m \in NodeNums |-> Stored(nd, w)[m]]
      /\ \A m \in NodeNums :
            /\ \A i \in DOMAIN w : w[i][1] = m => Stored(nd, w)[m] = w[i][2]
            /\ (\A i \in DOMAIN w : w[i][1] # m) => Stored(nd, w)[m] = nd[m]
  BY <1>2, <1>3, StoredFits
<1>5. \A m \in NodeNums : Stored(nd, w)[m] = IF m = a THEN x ELSE nd[m]
  BY <1>1, <1>4
<1> QED
  BY <1>4, <1>5 DEF w

\* Two writes that fit.
LEMMA StoredTwo ==
    ASSUME NEW nd, NEW a \in NodeNums, NEW b \in NodeNums, NEW x, NEW y, a # b, recordsFit(x), recordsFit(y)
    PROVE  Stored(nd, <<<<a, x>>, <<b, y>>>>)
             = [m \in NodeNums |-> IF m = a THEN x ELSE IF m = b THEN y ELSE nd[m]]
<1> DEFINE w == <<<<a, x>>, <<b, y>>>>
<1>1. DOMAIN w = {1, 2} /\ w[1][1] = a /\ w[1][2] = x /\ w[2][1] = b /\ w[2][2] = y
  OBVIOUS
<1> HIDE DEF w
<1>2. AllFit(w)
  BY <1>1 DEF AllFit
<1>3. \A i, j \in DOMAIN w : w[i][1] = w[j][1] => i = j
  BY <1>1
<1>4. /\ Stored(nd, w) = [m \in NodeNums |-> Stored(nd, w)[m]]
      /\ \A m \in NodeNums :
            /\ \A i \in DOMAIN w : w[i][1] = m => Stored(nd, w)[m] = w[i][2]
            /\ (\A i \in DOMAIN w : w[i][1] # m) => Stored(nd, w)[m] = nd[m]
  BY <1>2, <1>3, StoredFits
<1>5. \A m \in NodeNums : Stored(nd, w)[m] = IF m = a THEN x ELSE IF m = b THEN y ELSE nd[m]
  BY <1>1, <1>4
<1> QED
  BY <1>4, <1>5 DEF w

IsThree(st, nd, a, b, c, x, y, z) ==
    st = [m \in NodeNums |-> IF m = a THEN x ELSE IF m = b THEN y ELSE IF m = c THEN z ELSE nd[m]]

\* Three writes that fit.
LEMMA StoredThree ==
    ASSUME NEW nd, NEW a \in NodeNums, NEW b \in NodeNums, NEW c \in NodeNums, NEW x, NEW y, NEW z,
           a # b, a # c, b # c, recordsFit(x), recordsFit(y), recordsFit(z)
    PROVE  IsThree(Stored(nd, <<<<a, x>>, <<b, y>>, <<c, z>>>>), nd, a, b, c, x, y, z)
<1> DEFINE w == <<<<a, x>>, <<b, y>>, <<c, z>>>>
<1>1. /\ DOMAIN w = {1, 2, 3} /\ w[1][1] = a /\ w[1][2] = x /\ w[2][1] = b /\ w[2][2] = y
      /\ w[3][1] = c /\ w[3][2] = z
  OBVIOUS
<1> HIDE DEF w
<1>2. AllFit(w)
  BY <1>1 DEF AllFit
<1>3. \A i, j \in DOMAIN w : w[i][1] = w[j][1] => i = j
  BY <1>1
<1>4. /\ Stored(nd, w) = [m \in NodeNums |-> Stored(nd, w)[m]]
      /\ \A m \in NodeNums :
            /\ \A i \in DOMAIN w : w[i][1] = m => Stored(nd, w)[m] = w[i][2]
            /\ (\A i \in DOMAIN w : w[i][1] # m) => Stored(nd, w)[m] = nd[m]
  BY <1>2, <1>3, StoredFits
<1>5. \A m \in NodeNums :
         Stored(nd, w)[m] = IF m = a THEN x ELSE IF m = b THEN y ELSE IF m = c THEN z ELSE nd[m]
  BY <1>1, <1>4
<1> QED
  BY <1>4, <1>5 DEF w, IsThree

-----------------------------------------------------------------------------
(* What the leaves hold after each edit.                                   *)

\* A record that comes into a leaf adds its key to the tree's.
LEMMA ComeHolds ==
    ASSUME NEW t, NEW u, NEW top, NEW o, NEW st, NEW n, NEW r, NEW S \in SUBSET Nat,
           Good(t, top, o, st), Comes(t, u, n, r), Holds(t, S)
    PROVE  /\ t.ht[n] = 1 => Holds(u, S \cup {r.key})
           /\ t.ht[n] # 1 => Holds(u, S)
<1>1. /\ t.us \subseteq NodeNums
      /\ \A x \in t.us : t.lo[x] \in Nat
      /\ \A x \in t.us : \A s \in t.rs[x] : s.key \in Nat
  BY TreeNumbers DEF Good
<1>2. /\ u.us = t.us /\ u.ht = t.ht /\ u.lo = t.lo /\ u.fl = t.fl /\ u.bl = t.bl
      /\ n \in t.us /\ r.key \in Nat /\ t.lo[n] < r.key
  BY KeysAssumption DEF Comes, SameShape, Recs
<1>3. /\ u.rs[n] = t.rs[n] \cup {r}
      /\ \A m \in NodeNums : m # n => u.rs[m] = t.rs[m]
  BY ComesFacts DEF Good
<1>4. CASE t.ht[n] # 1
  BY <1>1, <1>2, <1>3, <1>4 DEF Holds
<1>5. CASE t.ht[n] = 1
  <2>1. t.lo[n] \in S
    BY <1>2, <1>5 DEF Holds, Good, Filled
  <2>2. ASSUME NEW x \in u.us, u.bl[x] = 0
        PROVE  u.lo[x] <= r.key
    BY <1>1, <1>2, <2>1, <2>2 DEF Holds
  <2>3. ASSUME NEW k \in S \cup {r.key}
        PROVE  \E x \in u.us : u.ht[x] = 1 /\ \E s \in u.rs[x] : s.key = k
    <3>1. CASE k = r.key
      BY <3>1, <1>2, <1>3, <1>5
    <3>2. CASE k \in S
      <4>1. PICK x \in t.us : t.ht[x] = 1 /\ \E s \in t.rs[x] : s.key = k
        BY <3>2 DEF Holds
      <4>2. t.rs[x] \subseteq u.rs[x]
        BY <1>1, <1>3
      <4> QED
        BY <4>1, <4>2, <1>2
    <3> QED
      BY <3>1, <3>2
  <2>4. ASSUME NEW x \in u.us, u.ht[x] = 1, NEW s \in u.rs[x]
        PROVE  s.key \in S \cup {r.key}
    BY <1>1, <1>2, <1>3, <2>4 DEF Holds
  <2>5. ASSUME NEW x \in u.us, u.bl[x] = 0, NEW k \in S
        PROVE  u.lo[x] <= k
    BY <1>2, <2>5 DEF Holds
  <2> QED
    BY <1>5, <2>2, <2>3, <2>4, <2>5 DEF Holds
<1> QED
  BY <1>4, <1>5

\* Cutting a node keeps the keys.
LEMMA CutHolds ==
    ASSUME NEW t, NEW u, NEW top, NEW n, NEW m, NEW k, NEW S,
           Good(t, top, {}, {}), Cuts(t, u, n, m, k), Holds(t, S)
    PROVE  Holds(u, S)
<1>1. /\ t.us \subseteq NodeNums /\ 0 \notin t.us
      /\ \A x \in t.us : t.lo[x] \in Nat
      /\ \A x \in t.us : \A s \in t.rs[x] : s.key \in Nat
  BY TreeNumbers DEF Good
<1>2. n \in t.us /\ m \notin t.us /\ u.us = t.us \cup {m} /\ k \in Nat /\ n # 0
  BY <1>1 DEF Cuts
<1>3. ASSUME NEW x \in t.us
      PROVE  t.rs[x] \subseteq u.rs[x] \cup (IF x = n THEN u.rs[m] ELSE {})
  BY <1>1, <1>2 DEF Cuts
<1>4. ASSUME NEW j \in S
      PROVE  \E x \in u.us : u.ht[x] = 1 /\ \E s \in u.rs[x] : s.key = j
  <2>1. PICK x \in t.us : t.ht[x] = 1 /\ \E s \in t.rs[x] : s.key = j
    BY DEF Holds
  <2>2. PICK s \in t.rs[x] : s.key = j
    BY <2>1
  <2>3. s \in u.rs[x] \/ (x = n /\ s \in u.rs[m])
    BY <1>3, <2>2
  <2>4. u.ht[x] = 1 /\ (x = n => u.ht[m] = 1)
    BY <2>1, <1>2 DEF Cuts
  <2> QED
    BY <2>1, <2>2, <2>3, <2>4, <1>2
<1>5. ASSUME NEW x \in u.us, u.ht[x] = 1, NEW s \in u.rs[x]
      PROVE  s.key \in S
  BY <1>2, <1>5 DEF Cuts, Holds
<1>6. ASSUME NEW x \in u.us, u.bl[x] = 0, NEW j \in S
      PROVE  u.lo[x] <= j
  <2>1. x # m
    BY <1>2, <1>6 DEF Cuts
  <2>2. x \in t.us /\ x # t.fl[n]
    <3>1. x \in t.us
      BY <2>1, <1>2
    <3>2. m # 0
      BY DEF Cuts, NodeNums
    <3> QED
      BY <3>1, <3>2, <1>1, <1>6 DEF Cuts
  <2> QED
    BY <2>2, <1>6 DEF Cuts, Holds
<1> QED
  BY <1>4, <1>5, <1>6 DEF Holds

\* A new root keeps the keys.
LEMMA TopHolds ==
    ASSUME NEW t, NEW u, NEW top, NEW c, NEW m, NEW S,
           Good(t, top, {c}, {}), Tops(t, u, top, c, m), Holds(t, S)
    PROVE  Holds(u, S)
<1> DEFINE o == {c}
<1>0. Good(t, top, o, {}) /\ \A x \in o : x = c
  OBVIOUS
<1> HIDE DEF o
<1>1. /\ t.us \subseteq NodeNums /\ 0 \notin t.us
      /\ \A x \in t.us : t.lo[x] \in Nat /\ t.ht[x] \in Nat
  BY <1>0, TreeNumbers DEF Good
<1>2. /\ top \in t.us /\ c \in t.us /\ m \notin t.us /\ t.lo[top] < t.lo[c] /\ t.ht[top] > 0
  BY <1>0 DEF Tops, Good, Filled
<1>3. t.bl[top] = 0
  <2> SUFFICES ASSUME t.bl[top] # 0 PROVE FALSE
    OBVIOUS
  <2> DEFINE b == t.bl[top]
  <2>1. b \in t.us /\ t.fl[b] = top
    BY <1>0, <1>2 DEF Good, Linked
  <2>2. top \in Peers(t, b) /\ t.lo[b] < t.lo[top]
    BY <1>0, <1>1, <1>2, <2>1 DEF Good, Linked
  <2>3. t.ht[b] = t.ht[top] /\ b # top
    BY <2>2 DEF Peers
  <2>4. b \in {top} \cup o
    BY <1>0, <2>1, <2>3 DEF Good, Topped
  <2>5. b = c
    BY <1>0, <2>3, <2>4
  <2> QED
    BY <1>1, <1>2, <2>2, <2>5
<1>4. u.ht[m] # 1
  BY <1>1, <1>2 DEF Tops
<1> QED
  BY <1>2, <1>3, <1>4 DEF Tops, Holds

\* Dropping the root keeps the keys.
LEMMA DropHolds ==
    ASSUME NEW t, NEW u, NEW top, NEW c, NEW S, Good(t, top, {}, {}), Drops(t, u, top, c), Holds(t, S)
    PROVE  Holds(u, S)
BY DEF Drops, Holds

\* A record that goes from a leaf takes its key from the tree's.
LEMMA GoHolds ==
    ASSUME NEW t, NEW u, NEW top, NEW n, NEW r, NEW S,
           Good(t, top, {}, {}), Goes(t, u, n, r), Holds(t, S)
    PROVE  Holds(u, S \ {r.key})
<1>1. /\ t.us \subseteq NodeNums /\ 0 \notin t.us
      /\ \A x \in t.us : t.lo[x] \in Nat
      /\ \A x \in t.us : \A s \in t.rs[x] : s.key \in Nat
  BY TreeNumbers DEF Good
<1>2. n \in t.us /\ t.ht[n] = 1 /\ r \in t.rs[n] /\ u.us = t.us /\ u.ht = t.ht /\ u.bl = t.bl
  BY DEF Goes
<1>3. ASSUME NEW x \in t.us, t.ht[x] = 1, x # n, NEW s \in t.rs[x]
      PROVE  s.key # r.key
  <2>1. x \in Peers(t, n) /\ n \in Peers(t, x)
    BY <1>2, <1>3 DEF Peers
  <2>2. t.lo[n] <= r.key /\ t.lo[x] <= s.key
    BY <1>2, <1>3 DEF Good, Filled
  <2>3. t.lo[n] # t.lo[x] /\ (t.lo[n] < t.lo[x] => r.key < t.lo[x]) /\ (t.lo[x] < t.lo[n] => s.key < t.lo[n])
    BY <1>2, <1>3, <2>1 DEF Good, Apart
  <2> QED
    BY <1>1, <1>2, <1>3, <2>2, <2>3
<1>4. \A s \in t.rs[n] : s # r => s.key # r.key
  BY <1>2 DEF Good, Filled
<1>5. ASSUME NEW k \in S \ {r.key}
      PROVE  \E x \in u.us : u.ht[x] = 1 /\ \E s \in u.rs[x] : s.key = k
  <2>1. PICK x \in t.us : t.ht[x] = 1 /\ \E s \in t.rs[x] : s.key = k
    BY DEF Holds
  <2>2. PICK s \in t.rs[x] : s.key = k
    BY <2>1
  <2>3. s \in u.rs[x]
    BY <2>2 DEF Goes
  <2> QED
    BY <2>1, <2>2, <2>3, <1>2
<1>6. ASSUME NEW x \in u.us, u.ht[x] = 1, NEW s \in u.rs[x]
      PROVE  s.key \in S \ {r.key}
  <2>1. s \in t.rs[x] /\ s.key # r.key
    BY <1>2, <1>3, <1>4, <1>6 DEF Goes
  <2> QED
    BY <2>1, <1>2, <1>6 DEF Holds
<1>7. ASSUME NEW x \in u.us, u.bl[x] = 0, NEW k \in S \ {r.key}
      PROVE  u.lo[x] <= k
  <2>1. CASE x # n
    BY <1>2, <1>7, <2>1 DEF Goes, Holds
  <2>2. CASE x = n
    <3>1. PICK y \in t.us : t.ht[y] = 1 /\ \E s \in t.rs[y] : s.key = k
      BY DEF Holds
    <3>2. PICK s \in t.rs[y] : s.key = k
      BY <3>1
    <3>3. CASE y = n
      <4>1. s \in u.rs[n]
        BY <3>2, <3>3 DEF Goes
      <4> QED
        BY <2>2, <3>2, <4>1 DEF Goes
    <3>4. CASE y # n
      <4>1. y \in Peers(t, n)
        BY <1>2, <3>1, <3>4 DEF Peers
      <4>2. t.lo[n] < t.lo[y]
        BY <1>2, <1>7, <2>2, <4>1 DEF Good, Linked
      <4>3. PICK z \in u.rs[n] : z.key = u.lo[n]
        BY DEF Goes
      <4>4. z \in t.rs[n]
        BY <4>3 DEF Goes
      <4>5. z.key < t.lo[y]
        BY <1>2, <4>1, <4>2, <4>4 DEF Good, Apart
      <4>6. t.lo[y] <= k
        BY <3>1, <3>2 DEF Good, Filled
      <4> QED
        BY <1>1, <1>2, <2>2, <3>1, <3>2, <4>3, <4>4, <4>5, <4>6
    <3> QED
      BY <3>3, <3>4
  <2> QED
    BY <2>1, <2>2
<1> QED
  BY <1>5, <1>6, <1>7 DEF Holds

\* Rewriting an index key keeps the keys.
LEMMA RekeyHolds ==
    ASSUME NEW t, NEW u, NEW top, NEW c, NEW p, NEW r, NEW S,
           Good(t, top, {}, {c}), Rekeys(t, u, c, p, r), Holds(t, S)
    PROVE  Holds(u, S)
<1> DEFINE st == {c}
<1>0. Good(t, top, {}, st) /\ c \in st /\ \A x : x # c => x \notin st
  OBVIOUS
<1> HIDE DEF st
<1>1. /\ t.us \subseteq NodeNums /\ 0 \notin t.us
      /\ \A x \in t.us : t.lo[x] \in Nat /\ t.ht[x] \in Nat
      /\ \A x \in t.us : \A s \in t.rs[x] : s.key \in Nat
  BY <1>0, TreeNumbers DEF Good
<1>2. /\ p \in t.us /\ t.ht[p] > 1 /\ r \in t.rs[p] /\ r.child = c
      /\ u.us = t.us /\ u.ht = t.ht /\ u.bl = t.bl
  BY DEF Rekeys
<1>3. /\ c \in t.us /\ t.ht[p] = t.ht[c] + 1 /\ r.key < t.lo[c]
      /\ \A x \in Peers(t, c) : t.lo[x] < r.key \/ t.lo[c] < t.lo[x]
  BY <1>0, <1>2 DEF Good, Indexed
<1>4. ASSUME t.bl[p] = 0, r.key = t.lo[p]
      PROVE  t.bl[c] = 0
  <2> SUFFICES ASSUME t.bl[c] # 0 PROVE FALSE
    OBVIOUS
  <2> DEFINE b == t.bl[c]
  <2>1. b \in t.us /\ t.fl[b] = c
    BY <1>0, <1>3 DEF Good, Linked
  <2>2. c \in Peers(t, b) /\ t.lo[b] < t.lo[c]
    BY <1>0, <1>1, <1>3, <2>1 DEF Good, Linked
  <2>3. b \in Peers(t, c) /\ t.ht[b] = t.ht[c] /\ b # c
    BY <2>1, <2>2 DEF Peers
  <2>4. t.lo[b] < r.key
    BY <1>1, <1>3, <2>1, <2>2, <2>3
  <2>5. b # top
    BY <1>0, <1>1, <1>2, <1>3, <2>1, <2>3 DEF Good, Topped
  <2>6. PICK q \in t.us : t.ht[q] > 1 /\ \E s \in t.rs[q] : s.child = b
    BY <1>0, <2>1, <2>5 DEF Good, Owned
  <2>7. PICK s \in t.rs[q] : s.child = b
    BY <2>6
  <2>8. t.ht[q] = t.ht[b] + 1 /\ s.key = t.lo[b]
    BY <1>0, <2>3, <2>6, <2>7 DEF Good, Indexed
  <2>9. t.lo[q] <= s.key
    BY <1>0, <2>7 DEF Good, Filled
  <2>10. t.lo[p] <= t.lo[q]
    <3>1. CASE q = p
      BY <3>1, <1>1, <1>2
    <3>2. CASE q # p
      <4>1. q \in Peers(t, p)
        BY <2>3, <2>8, <3>2, <1>3 DEF Peers
      <4>2. t.lo[p] < t.lo[q]
        BY <4>1, <1>0, <1>2, <1>4 DEF Good, Linked
      <4> QED
        BY <4>2, <1>1, <1>2, <2>6
    <3> QED
      BY <3>1, <3>2
  <2> QED
    BY <1>1, <1>2, <1>4, <2>1, <2>4, <2>6, <2>7, <2>8, <2>9, <2>10
<1>5. ASSUME NEW x \in u.us, u.bl[x] = 0, NEW j \in S
      PROVE  u.lo[x] <= j
  <2>1. CASE x # p \/ r.key # t.lo[p]
    BY <2>1, <1>2, <1>5 DEF Rekeys, Holds
  <2>2. CASE x = p /\ r.key = t.lo[p]
    BY <2>2, <1>2, <1>3, <1>4, <1>5 DEF Rekeys, Holds
  <2> QED
    BY <2>1, <2>2
<1>6. \A x \in t.us : t.ht[x] = 1 => u.rs[x] = t.rs[x]
  BY <1>1, <1>2 DEF Rekeys
<1> QED
  BY <1>2, <1>5, <1>6 DEF Holds

\* Merging two nodes keeps the keys.
LEMMA MergeHolds ==
    ASSUME NEW t, NEW u, NEW top, NEW p, NEW l, NEW m, NEW rm, NEW S,
           Good(t, top, {}, {}), Merges(t, u, p, l, m, rm), Holds(t, S)
    PROVE  Holds(u, S)
<1>1. /\ p \in t.us /\ l \in t.us /\ m \in t.us
      /\ t.ht[p] = t.ht[l] + 1 /\ t.ht[m] = t.ht[l]
      /\ l # m /\ p # l /\ p # m
  BY Adjoining DEF Merges
<1>2. 0 \notin t.us /\ t.ht[l] \in Nat /\ t.ht[l] > 0
  BY <1>1, TreeNumbers DEF Good, Filled
<1>3. u.us = t.us \ {m} /\ \A x \in u.us : u.ht[x] = t.ht[x] /\ u.lo[x] = t.lo[x]
  BY DEF Merges
<1>4. /\ u.rs[l] = t.rs[l] \cup t.rs[m]
      /\ \A x \in u.us : t.ht[x] = 1 /\ x # l => u.rs[x] = t.rs[x]
  <2>1. \A x \in u.us : t.ht[x] = 1 => x # p
    BY <1>1, <1>2
  <2> QED
    BY <2>1 DEF Merges
<1>5. ASSUME NEW j \in S
      PROVE  \E x \in u.us : u.ht[x] = 1 /\ \E s \in u.rs[x] : s.key = j
  <2>1. PICK x \in t.us : t.ht[x] = 1 /\ \E s \in t.rs[x] : s.key = j
    BY DEF Holds
  <2>2. PICK s \in t.rs[x] : s.key = j
    BY <2>1
  <2>3. CASE x = m \/ x = l
    BY <2>1, <2>2, <2>3, <1>1, <1>3, <1>4
  <2>4. CASE x # m /\ x # l
    BY <2>1, <2>2, <2>4, <1>3, <1>4
  <2> QED
    BY <2>3, <2>4
<1>6. ASSUME NEW x \in u.us, u.ht[x] = 1, NEW s \in u.rs[x]
      PROVE  s.key \in S
  BY <1>1, <1>3, <1>4, <1>6 DEF Holds
<1>7. ASSUME NEW x \in u.us, u.bl[x] = 0, NEW j \in S
      PROVE  u.lo[x] <= j
  <2>1. x \in t.us /\ u.lo[x] = t.lo[x]
    BY <1>3
  <2>2. x # t.fl[m]
    BY <1>1, <1>2, <1>7, <2>1 DEF Merges
  <2>3. t.bl[x] = 0
    BY <2>2, <1>7 DEF Merges
  <2> QED
    BY <2>1, <2>3 DEF Holds
<1> QED
  BY <1>5, <1>6, <1>7 DEF Holds

\* Shifting a record keeps the keys.
LEMMA ShiftHolds ==
    ASSUME NEW t, NEW u, NEW top, NEW p, NEW l, NEW m, NEW rm, NEW k, NEW S,
           Good(t, top, {}, {}), Shifts(t, u, p, l, m, rm, k), Holds(t, S)
    PROVE  Holds(u, S)
<1>1. /\ p \in t.us /\ l \in t.us /\ m \in t.us
      /\ t.ht[p] = t.ht[l] + 1 /\ t.ht[m] = t.ht[l]
      /\ l # m /\ p # l /\ p # m /\ t.lo[l] < t.lo[m]
  BY Adjoining DEF Shifts
<1>2. /\ t.ht[l] \in Nat /\ t.ht[l] > 0
      /\ \A x \in t.us : t.lo[x] \in Nat
      /\ \A x \in t.us : \A s \in t.rs[x] : s.key \in Nat
  BY <1>1, TreeNumbers DEF Good, Filled
<1>3. u.us = t.us /\ u.ht = t.ht /\ u.bl = t.bl /\ k \in Nat
  BY <1>1, <1>2 DEF Shifts
<1>4. \A s \in t.rs[l] \cup t.rs[m] : s \in u.rs[l] \/ s \in u.rs[m]
  <2> SUFFICES ASSUME NEW s \in t.rs[l] \cup t.rs[m] PROVE s \in u.rs[l] \/ s \in u.rs[m]
    OBVIOUS
  <2>1. s.key \in Nat
    BY <1>1, <1>2
  <2>2. s.key < k \/ k <= s.key
    BY <2>1, <1>3
  <2> QED
    BY <2>2 DEF Shifts
<1>5. \A x \in u.us : t.ht[x] = 1 /\ x # l /\ x # m => u.rs[x] = t.rs[x]
  <2>1. \A x \in u.us : t.ht[x] = 1 => x # p
    BY <1>1, <1>2
  <2> QED
    BY <2>1, <1>3 DEF Shifts
<1>6. ASSUME NEW j \in S
      PROVE  \E x \in u.us : u.ht[x] = 1 /\ \E s \in u.rs[x] : s.key = j
  <2>1. PICK x \in t.us : t.ht[x] = 1 /\ \E s \in t.rs[x] : s.key = j
    BY DEF Holds
  <2>2. PICK s \in t.rs[x] : s.key = j
    BY <2>1
  <2>3. CASE x = m \/ x = l
    <3>1. u.ht[l] = 1 /\ u.ht[m] = 1
      BY <2>1, <2>3, <1>1, <1>3
    <3> QED
      BY <2>2, <2>3, <3>1, <1>1, <1>3, <1>4
  <2>4. CASE x # m /\ x # l
    BY <2>1, <2>2, <2>4, <1>3, <1>5
  <2> QED
    BY <2>3, <2>4
<1>7. ASSUME NEW x \in u.us, u.ht[x] = 1, NEW s \in u.rs[x]
      PROVE  s.key \in S
  <2>1. CASE x = l \/ x = m
    <3>1. s \in t.rs[l] \cup t.rs[m] /\ t.ht[l] = 1 /\ t.ht[m] = 1
      BY <2>1, <1>1, <1>3, <1>7 DEF Shifts
    <3> QED
      BY <3>1, <1>1 DEF Holds
  <2>2. CASE x # l /\ x # m
    BY <2>2, <1>3, <1>5, <1>7 DEF Holds
  <2> QED
    BY <2>1, <2>2
<1>8. ASSUME NEW x \in u.us, u.bl[x] = 0, NEW j \in S
      PROVE  u.lo[x] <= j
  <2>1. x # m
    <3> SUFFICES ASSUME x = m PROVE FALSE
      OBVIOUS
    <3>1. t.bl[m] = 0 /\ l \in Peers(t, m)
      BY <1>1, <1>3, <1>8 DEF Peers
    <3>2. t.lo[m] < t.lo[l]
      BY <3>1, <1>1 DEF Good, Linked
    <3> QED
      BY <3>2, <1>1, <1>2
  <2>2. u.lo[x] = t.lo[x]
    BY <2>1, <1>3 DEF Shifts
  <2> QED
    BY <2>2, <1>3, <1>8 DEF Holds
<1> QED
  BY <1>6, <1>7, <1>8 DEF Holds

-----------------------------------------------------------------------------
(* The actions keep the invariant.                                         *)

\* A tree of one leaf.
LEMMA OneLeaf ==
    ASSUME NEW nd \in [NodeNums -> Nodes], NEW n \in NodeNums, NEW s \in Seq(Recs),
           s # <<>>, Ascending(s), nd[n] = Leaf(s, 0, 0)
    PROVE  /\ Good(View(nd, {n}), n, {}, {})
           /\ Holds(View(nd, {n}), {s[i].key : i \in 1 .. Len(s)})
<1> DEFINE us == {n}
           t == View(nd, us)
<1>1. us \in SUBSET NodeNums /\ us = {n}
  OBVIOUS
<1> HIDE DEF us
<1>2. /\ TreeType(t) /\ t.us = us
      /\ t.ht[n] = 1 /\ t.rs[n] = ToSet(s) /\ t.lo[n] = s[1].key /\ t.fl[n] = 0 /\ t.bl[n] = 0
  BY <1>1, ViewFacts DEF Leaf
<1>3. /\ Len(s) \in Nat /\ 1 \in 1 .. Len(s) /\ s[1] \in ToSet(s)
      /\ \A x \in ToSet(s) : \E i \in 1 .. Len(s) : s[i] = x
      /\ \A i \in 1 .. Len(s) : s[i] \in ToSet(s)
  BY KeyNumbers
<1> HIDE DEF t
<1>4. Filled(t)
  <2>1. \A x \in ToSet(s) : s[1].key <= x.key
    <3> SUFFICES ASSUME NEW i \in 1 .. Len(s) PROVE s[1].key <= s[i].key
      BY <1>3
    <3> QED
      BY <1>3, InKeyOrder
  <2>2. \A x, y \in ToSet(s) : x.key = y.key => x = y
    <3> SUFFICES ASSUME NEW i \in 1 .. Len(s), NEW j \in 1 .. Len(s), s[i].key = s[j].key
                 PROVE  s[i] = s[j]
      BY <1>3
    <3> QED
      BY <1>3, InKeyOrder
  <2> QED
    BY <1>1, <1>2, <1>3, <2>1, <2>2 DEF Filled
<1>5. \A x \in t.us : Peers(t, x) = {}
  BY <1>1, <1>2 DEF Peers
<1>6. Apart(t) /\ Linked(t) /\ Indexed(t, {}) /\ Owned(t, n, {}) /\ Topped(t, n, {})
  BY <1>1, <1>2, <1>5 DEF Apart, Linked, Indexed, Owned, Topped
<1>7. Good(t, n, {}, {})
  BY <1>2, <1>4, <1>6 DEF Good
<1>8. Holds(t, {s[i].key : i \in 1 .. Len(s)})
  <2>1. \A i \in 1 .. Len(s) : s[1].key <= s[i].key
    BY <1>3, InKeyOrder
  <2> QED
    BY <1>1, <1>2, <1>3, <2>1 DEF Holds
<1> QED
  BY <1>7, <1>8 DEF t, us

\* The rest of the invariant for such a tree.
Single ==
    \E n \in 1 .. pool, s \in Seq(Recs) :
        /\ s # <<>> /\ Ascending(s) /\ Len(s) <= 3
        /\ used = {n} /\ node[n] = Leaf(s, 0, 0)
        /\ \A m \in NodeNums \ {n} : node[m] = Erased
        /\ root = n /\ firstLeaf = n /\ lastLeaf = n /\ treeDepth = 1 /\ pc = "idle"
        /\ contents = {s[i].key : i \in 1 .. Len(s)}

\* A tree of one leaf satisfies the invariant.
LEMMA SingleKept == Types /\ Single => Kept
<1> SUFFICES ASSUME Types,
                    NEW n \in 1 .. pool, NEW s \in Seq(Recs), s # <<>>, Ascending(s), Len(s) <= 3,
                    used = {n}, node[n] = Leaf(s, 0, 0), \A m \in NodeNums \ {n} : node[m] = Erased,
                    root = n, firstLeaf = n, lastLeaf = n, treeDepth = 1, pc = "idle",
                    contents = {s[i].key : i \in 1 .. Len(s)}
             PROVE  Kept
  BY DEF Single
<1>1. n \in NodeNums /\ node \in [NodeNums -> Nodes]
  BY MaxNodeAssumption DEF Types, NodeNums
<1>2. Good(Tree, root, {}, {}) /\ Holds(Tree, contents)
  BY <1>1, OneLeaf DEF Tree
<1>3. Orphans = {} /\ Stale = {} /\ Thin = {}
  BY DEF Orphans, Stale, Thin, Splitting
<1>4. /\ node[n].kind = "leaf" /\ node[n].height = 1 /\ node[n].recs = s
      /\ node[n].FLink = 0 /\ node[n].BLink = 0
  BY DEF Leaf
<1>5. recordsFit(node[n])
  <2>1. Sized(node[n]) /\ Len(node[n].recs) <= 3
    BY <1>4 DEF Sized
  <2> QED
    BY <2>1, FewRecords DEF recordsFit
<1>6. Stocked
  BY <1>4, <1>5 DEF Stocked
<1>7. Wide /\ Ends /\ Placed
  BY <1>4 DEF Wide, Ends, Placed, Splitting
<1>8. Grown
  BY <1>2, <1>3, <1>4, <1>7 DEF Grown
<1> QED
  BY <1>6, <1>8 DEF Kept

\* Every initial tree satisfies the invariant.
LEMMA InitKept == Init => Kept
<1> SUFFICES ASSUME Init PROVE Kept
  OBVIOUS
<1> DEFINE c == Cardinality(contents)
           ls == {LeafRec(k) : k \in contents}
           s == CHOOSE f \in [1 .. c -> ls] : Ascending(f)
           n == IF contents = {} THEN 0 ELSE 1
<1>1. /\ contents \in SUBSET Keys /\ IsFiniteSet(contents) /\ c <= 2 /\ c \in Nat
      /\ Keys \subseteq Nat /\ MaxNode \in Nat \ {0} /\ pool \in 1 .. MaxNode
  BY KeysAssumption, MaxNodeAssumption, FS_CardinalityType DEF Init
<1>2. \A k \in contents : LeafRec(k) \in Recs /\ LeafRec(k).key = k
  BY <1>1 DEF LeafRec, Recs
<1>3. /\ root = n /\ firstLeaf = n /\ lastLeaf = n /\ treeDepth = n /\ used = 1 .. n
      /\ node = [m \in NodeNums |-> IF m <= n THEN Leaf(s, 0, 0) ELSE Erased]
      /\ pc = "idle" /\ path = <<>> /\ childIdx = <<>> /\ level = 0
      /\ pool \in Pools /\ leafRecords = c
  BY DEF Init
<1>4. Erased \in Nodes
  BY <1>1 DEF Erased, Nodes
<1>5. CASE contents = {}
  <2>1. c = 0 /\ n = 0
    BY <1>5, FS_EmptySet
  <2>2. used = {} /\ \A m \in NodeNums : node[m] = Erased
    BY <1>3, <2>1 DEF NodeNums
  <2>3. node \in [NodeNums -> Nodes]
    BY <1>3, <1>4, <2>1 DEF NodeNums
  <2>4. Types
    BY <1>1, <1>3, <1>5, <2>1, <2>2, <2>3 DEF Types
  <2>5. Stocked
    BY <2>2 DEF Stocked
  <2>6. Bare
    BY <1>3, <1>5, <2>1, <2>2 DEF Bare
  <2> QED
    BY <2>4, <2>5, <2>6 DEF Kept
<1>6. CASE contents # {}
  <2>1. c > 0
    BY <1>1, <1>6, FS_EmptySet
  <2>2. /\ s \in [1 .. c -> ls] /\ Ascending(s)
    <3> SUFFICES \E f \in [1 .. c -> ls] : Ascending(f)
      OBVIOUS
    <3>1. PICK a : a \in contents
      BY <1>6
    <3>2. CASE c = 1
      <4> DEFINE f == [i \in 1 .. c |-> LeafRec(a)]
      <4>1. f \in [1 .. c -> ls]
        BY <3>1
      <4>2. Ascending(f)
        BY <3>2 DEF Ascending
      <4> QED
        BY <4>1, <4>2
    <3>3. CASE c = 2
      <4>1. /\ IsFiniteSet(contents \ {a}) /\ Cardinality(contents \ {a}) = c - 1
        BY <1>1, <3>1, FS_RemoveElement
      <4>2. contents \ {a} # {}
        BY <3>3, <4>1, FS_EmptySet
      <4>3. PICK b \in contents : b # a
        BY <4>2
      <4>4. PICK x \in contents, y \in contents : x < y
        BY <1>1, <3>1, <4>3
      <4> DEFINE f == [i \in 1 .. c |-> LeafRec(IF i = 1 THEN x ELSE y)]
      <4>5. f \in [1 .. c -> ls]
        BY <4>4
      <4>6. f[1].key = x /\ f[2].key = y /\ DOMAIN f = 1 .. 2
        BY <1>2, <3>3, <4>4
      <4> HIDE DEF f
      <4>7. Ascending(f)
        BY <4>4, <4>6 DEF Ascending
      <4> QED
        BY <4>5, <4>7
    <3> QED
      BY <1>1, <2>1, <3>2, <3>3
  <2> HIDE DEF s
  <2>3. s \in Seq(Recs) /\ Len(s) = c /\ s # <<>>
    <3>1. \A i \in 1 .. c : s[i] \in Recs
      BY <1>2, <2>2
    <3> QED
      BY <1>1, <2>1, <2>2, <3>1
  <2>4. contents = {s[i].key : i \in 1 .. Len(s)}
    <3>1. \A i \in 1 .. c : s[i].key \in contents
      BY <1>2, <2>2
    <3>2. ASSUME NEW a \in contents
          PROVE  \E i \in 1 .. c : s[i].key = a
      <4>1. CASE c = 1
        <5>1. \E z : contents = {z}
          BY <1>1, <4>1, FS_Singleton
        <5>2. s[1].key \in contents
          BY <3>1, <4>1
        <5> QED
          BY <4>1, <5>1, <5>2
      <4>2. CASE c = 2
        <5>1. s[1].key \in contents /\ s[2].key \in contents /\ s[1].key < s[2].key
          <6>1. 1 \in 1 .. c /\ 2 \in 1 .. c /\ DOMAIN s = 1 .. c
            BY <4>2, <2>2
          <6> QED
            BY <6>1, <3>1, <2>2 DEF Ascending
        <5>6. s[1].key \in Nat /\ s[2].key \in Nat
          BY <1>1, <5>1
        <5>2. s[1].key # s[2].key
          BY <5>1, <5>6
        <5>3. SUFFICES ASSUME a # s[1].key, a # s[2].key PROVE FALSE
          BY <4>2
        <5>4. /\ IsFiniteSet(contents \ {a}) /\ Cardinality(contents \ {a}) = c - 1
          BY <1>1, FS_RemoveElement
        <5>5. PICK z : contents \ {a} = {z}
          BY <4>2, <5>4, FS_Singleton
        <5> QED
          BY <5>1, <5>2, <5>3, <5>5
      <4> QED
        BY <1>1, <2>1, <4>1, <4>2
    <3> QED
      BY <2>3, <3>1, <3>2
  <2>10. n = 1
    BY <1>6
  <2> HIDE DEF n
  <2>5. /\ n = 1 /\ used = {1} /\ 1 \in NodeNums /\ node[1] = Leaf(s, 0, 0)
        /\ \A m \in NodeNums \ {1} : node[m] = Erased
    <3>1. 1 .. n = {1} /\ 1 \in NodeNums /\ \A m \in NodeNums \ {1} : ~(m <= n)
      BY <1>1, <2>10 DEF NodeNums
    <3> QED
      BY <1>3, <2>10, <3>1
  <2>6. Leaf(s, 0, 0) \in Nodes
    BY <1>1, <2>3 DEF Leaf, Nodes
  <2>7. node \in [NodeNums -> Nodes]
    BY <1>3, <1>4, <2>6
  <2>8. Types
    BY <1>1, <1>3, <2>5, <2>7 DEF Types
  <2>9. Single
    <3>1. 1 \in 1 .. pool /\ Len(s) <= 3
      BY <1>1, <2>3
    <3>3. /\ s # <<>> /\ Ascending(s) /\ Len(s) <= 3
          /\ used = {1} /\ node[1] = Leaf(s, 0, 0)
          /\ \A m \in NodeNums \ {1} : node[m] = Erased
          /\ root = 1 /\ firstLeaf = 1 /\ lastLeaf = 1 /\ treeDepth = 1 /\ pc = "idle"
          /\ contents = {s[i].key : i \in 1 .. Len(s)}
      BY <1>3, <2>2, <2>3, <2>4, <2>5, <3>1
    <3> QED
      BY <2>3, <3>1, <3>3, Zenon DEF Single
  <2> QED
    BY <2>8, <2>9, SingleKept
<1> QED
  BY <1>5, <1>6

\* A free node is a number of the pool that is not in use.
LEMMA NextNodeFree ==
    ASSUME Types, FreeNums # {}
    PROVE  NextNode \in 1 .. pool /\ NextNode \notin used /\ NextNode \in NodeNums /\ NextNode # 0
<1>1. FreeNums \in SUBSET Nat
  BY DEF FreeNums
<1>2. NextNode \in FreeNums
  BY <1>1, MinOf DEF NextNode
<1> QED
  BY <1>2, MaxNodeAssumption DEF FreeNums, Types, NodeNums

\* A tree with a root is not bare.
LEMMA RootInUse ==
    ASSUME Types, Stocked, Bare \/ Grown, root # 0
    PROVE  Grown /\ root \in used
BY DEF Bare, Grown

\* insert into an empty tree keeps the invariant.
LEMMA InsertEmptyKeeps ==
    ASSUME Kept, ~failed, NEW k \in Keys, InsertEmpty(k), pool' = pool
    PROVE  Kept'
<1> DEFINE n == NextNode
           s == <<LeafRec(k)>>
<1>1. Types /\ Stocked /\ Bare
  BY NodeFacts DEF Kept, Grown, InsertEmpty
<1>2. n \in 1 .. pool /\ n \notin used /\ n \in NodeNums
  BY <1>1, NextNodeFree DEF InsertEmpty
<1> HIDE DEF n
<1>3. LeafRec(k) \in Recs /\ LeafRec(k).key = k
  BY MaxNodeAssumption DEF LeafRec, Recs
<1>4. s \in Seq(Recs) /\ Len(s) = 1 /\ s[1] = LeafRec(k) /\ s # <<>>
  BY <1>3
<1> HIDE DEF s
<1>5. /\ node' = [node EXCEPT ![n] = Leaf(s, 0, 0)]
      /\ used' = used \cup {n} /\ root' = n /\ firstLeaf' = n /\ lastLeaf' = n
      /\ treeDepth' = 1 /\ leafRecords' = 1 /\ contents' = contents \cup {k}
      /\ pc' = "idle" /\ path' = <<>> /\ childIdx' = <<>> /\ level' = 0
  BY DEF InsertEmpty, Return, NoLocals, Added, n, s
<1>6. used' = {n} /\ contents' = {k}
  BY <1>1, <1>5 DEF Bare
<1>7. Leaf(s, 0, 0) \in Nodes
  BY <1>4, MaxNodeAssumption DEF Leaf, Nodes
<1>8. node' \in [NodeNums -> Nodes] /\ node'[n] = Leaf(s, 0, 0) /\ \A m \in NodeNums \ {n} : node'[m] = Erased
  <2>1. node \in [NodeNums -> Nodes] /\ \A m \in NodeNums : node[m] = Erased
    BY <1>1 DEF Types, Stocked, Bare
  <2> QED
    BY <1>2, <1>5, <1>7, <2>1
<1>9. IsFiniteSet(contents') /\ Cardinality(contents') = 1
  BY <1>6, FS_Singleton
<1>10. Types'
  <2>1. pool' \in Pools /\ used' \in SUBSET (1 .. pool') /\ n \in 0 .. MaxNode
    BY <1>1, <1>2, <1>6 DEF Types, NodeNums
  <2>2. path' \in Seq(NodeNums) /\ childIdx' \in Seq(Nat) /\ level' \in Nat
    BY <1>5
  <2> QED
    BY <1>5, <1>6, <1>8, <1>9, <2>1, <2>2 DEF Types
<1>11. Single'
  <2>1. Ascending(s)
    BY <1>4 DEF Ascending
  <2>2. contents' = {s[i].key : i \in 1 .. Len(s)}
    BY <1>3, <1>4, <1>6
  <2>3. n \in 1 .. pool' /\ Len(s) <= 3
    BY <1>2, <1>4
  <2>4. /\ s # <<>> /\ Ascending(s) /\ Len(s) <= 3
        /\ used' = {n} /\ node'[n] = Leaf(s, 0, 0)
        /\ \A m \in NodeNums \ {n} : node'[m] = Erased
    BY <1>4, <1>6, <1>8, <2>1, <2>3
  <2>5. root' = n /\ firstLeaf' = n /\ lastLeaf' = n /\ treeDepth' = 1 /\ pc' = "idle"
    BY <1>5
  <2> QED
    BY <1>4, <2>2, <2>3, <2>4, <2>5, Zenon DEF Single
<1>12. Types' /\ Single' => Kept'
  BY SingleKept, PTL
<1> QED
  BY <1>10, <1>11, <1>12

-----------------------------------------------------------------------------
(* The lists of records that the operations put together.                  *)

\* q lists the records S, n of them, in key order.
Lists(q, S, n) == q \in Seq(Recs) /\ Ascending(q) /\ ToSet(q) = S /\ Len(q) = n

\* The first record listed has the least key.
LEMMA ListsFirst ==
    ASSUME NEW q, NEW S, NEW n \in Nat \ {0}, Lists(q, S, n)
    PROVE  /\ q # <<>> /\ q[1] \in S /\ q[1].key \in Nat
           /\ \A x \in S : q[1].key <= x.key /\ x.key \in Nat
<1>1. q \in Seq(Recs) /\ Ascending(q) /\ ToSet(q) = S /\ Len(q) = n
  BY DEF Lists
<1>2. /\ 1 \in 1 .. Len(q) /\ q # <<>> /\ q[1] \in S
      /\ \A x \in S : \E i \in 1 .. Len(q) : q[i] = x
  BY <1>1, KeyNumbers
<1>3. \A i \in 1 .. Len(q) : q[1].key <= q[i].key /\ q[i].key \in Nat
  BY <1>1, <1>2, InKeyOrder
<1> QED
  BY <1>2, <1>3

\* insertSorted, of a record that is not the first.
LEMMA InsertLists ==
    ASSUME NEW s, NEW S, NEW n \in Nat \ {0}, Lists(s, S, n), NEW r \in Recs,
           s[1].key < r.key, \A x \in S : x.key # r.key
    PROVE  Lists(insertSorted(s, r), S \cup {r}, n + 1) /\ insertSorted(s, r)[1] = s[1]
<1>1. /\ s \in Seq(Recs) /\ Ascending(s) /\ ToSet(s) = S /\ Len(s) = n
      /\ DOMAIN s = 1 .. n
  BY DEF Lists
<1>2. /\ 1 \in 1 .. n /\ \A i \in 1 .. n : s[i] \in S /\ s[i].key \in Nat
      /\ \A x \in S : \E i \in 1 .. n : s[i] = x
  BY <1>1, KeyNumbers
<1>19. r.key \in Nat
  BY KeysAssumption DEF Recs
<1>3. \A i, j \in 1 .. n : i < j => s[i].key < s[j].key
  BY <1>1 DEF Ascending
<1> DEFINE before == {i \in DOMAIN s : s[i].key < r.key}
           c == Max(before)
<1>4. before = {i \in 1 .. n : s[i].key < r.key}
  BY <1>1
<1>5. c \in before /\ \A x \in before : x <= c
  <2>1. before \in SUBSET Nat /\ before # {} /\ \A x \in before : x <= n
    BY <1>2, <1>4
  <2> HIDE DEF before
  <2> QED
    BY <2>1, MaxOf
<1> HIDE DEF c, before
<1>6. c \in 1 .. n /\ s[c].key < r.key
  BY <1>4, <1>5
<1>7. before = 1 .. c
  <2>1. ASSUME NEW i \in 1 .. c PROVE i \in before
    <3>1. i \in 1 .. n /\ (i = c \/ i < c)
      BY <1>6
    <3> QED
      BY <3>1, <1>2, <1>3, <1>4, <1>6, <1>19
  <2>2. ASSUME NEW i \in before PROVE i \in 1 .. c
    BY <1>4, <1>5
  <2> QED
    BY <2>1, <2>2
<1>8. Cardinality(before) = c
  BY <1>6, <1>7, FS_Interval
<1> DEFINE a == c + 1
           q == insertSorted(s, r)
           m == <<r>>
<1>9. a \in 1 .. Len(s) + 1 /\ a \in a .. Len(s) + 1 /\ a - 1 = c
  BY <1>1, <1>6
<1>10. q = SubSeq(s, 1, a - 1) \o m \o SubSeq(s, a, Len(s))
  BY <1>8 DEF insertSorted, InsertAt, before
<1>11. m \in Seq(Recs) /\ Len(m) = 1 /\ m[1] = r /\ DOMAIN m = 1 .. 1
  OBVIOUS
<1> HIDE DEF a, q, m
<1>12. q \in Seq(Recs) /\ IsSplice(q, s, a, m, a)
  BY <1>1, <1>9, <1>10, <1>11, Spliced
<1>13. Ascending(m) /\ ToSet(m) = {r}
  BY <1>11 DEF Ascending, ToSet
<1>14. ASSUME NEW i \in 1 .. Len(m)
       PROVE  /\ \A j \in 1 .. a - 1 : s[j].key < m[i].key
              /\ \A j \in a .. Len(s) : m[i].key < s[j].key
  <2>1. m[i] = r
    BY <1>11
  <2>2. ASSUME NEW j \in 1 .. a - 1 PROVE s[j].key < r.key
    BY <1>4, <1>7, <1>9
  <2>3. ASSUME NEW j \in a .. Len(s) PROVE r.key < s[j].key
    <3>1. j \in 1 .. n /\ j \notin before
      BY <1>1, <1>6, <1>7 DEF a
    <3> QED
      BY <3>1, <1>2, <1>4, <1>19
  <2> QED
    BY <2>1, <2>2, <2>3
<1>15. Ascending(q) /\ ToSet(q) = Around(s, a, a) \cup ToSet(m)
  <2>1. Between(s, a, m, a)
    BY <1>14 DEF Between
  <2> QED
    BY <2>1, <1>1, <1>9, <1>11, <1>12, <1>13, SpliceSorted
<1>16. S = Around(s, a, a)
  <2>1. \A j \in 1 .. n : j \in 1 .. a - 1 \/ j \in a .. Len(s)
    BY <1>1, <1>6, <1>9
  <2>2. /\ \A j \in 1 .. a - 1 : j \in 1 .. n
        /\ \A j \in a .. Len(s) : j \in 1 .. n
    BY <1>1, <1>6, <1>9 DEF a
  <2> QED
    BY <2>1, <2>2, <1>2 DEF Around
<1>17. Len(q) = n + 1
  BY <1>1, <1>6, <1>9, <1>11, <1>12 DEF IsSplice
<1>18. q[1] = s[1]
  <2>1. 1 \in 1 .. a - 1
    BY <1>6, <1>9
  <2> QED
    BY <2>1, <1>12 DEF IsSplice
<1> QED
  BY <1>12, <1>13, <1>15, <1>16, <1>17, <1>18 DEF Lists, q

\* The two parts of a list.
LEMMA CutLists ==
    ASSUME NEW s, NEW S, NEW n \in Nat, Lists(s, S, n), NEW c \in 1 .. n - 1
    PROVE  /\ Lists(SubSeq(s, 1, c), {x \in S : x.key < s[c + 1].key}, c)
           /\ Lists(SubSeq(s, c + 1, n), {x \in S : s[c + 1].key <= x.key}, n - c)
           /\ SubSeq(s, 1, c)[1] = s[1]
           /\ SubSeq(s, c + 1, n)[1] = s[c + 1]
           /\ s[c + 1] \in S /\ s[1].key < s[c + 1].key
<1>1. /\ s \in Seq(Recs) /\ Ascending(s) /\ ToSet(s) = S /\ Len(s) = n
      /\ DOMAIN s = 1 .. n
  BY DEF Lists
<1>2. /\ \A i \in 1 .. n : s[i] \in S /\ s[i].key \in Nat
      /\ \A x \in S : \E i \in 1 .. n : s[i] = x
  BY <1>1, KeyNumbers
<1>3. \A i, j \in 1 .. n : i < j => s[i].key < s[j].key
  BY <1>1 DEF Ascending
<1> DEFINE x == SubSeq(s, 1, c)
           y == SubSeq(s, c + 1, n)
           k == s[c + 1].key
<1>4. x \in Seq(Recs) /\ Len(x) = c /\ \A j \in 1 .. c : x[j] = s[j]
  BY <1>1, SubSeqProperties
<1>5. y \in Seq(Recs) /\ Len(y) = n - c /\ \A j \in 1 .. n - c : y[j] = s[c + j]
  <2>1. y \in Seq(Recs) /\ Len(y) = n - (c + 1) + 1 /\ \A j \in 1 .. n - (c + 1) + 1 : y[j] = s[(c + 1) + j - 1]
    BY <1>1, SubSeqProperties
  <2>2. n - (c + 1) + 1 = n - c /\ \A j \in 1 .. n - c : (c + 1) + j - 1 = c + j
    OBVIOUS
  <2> HIDE DEF y
  <2> QED
    BY <2>1, <2>2
<1> HIDE DEF x, y
<1>6. c + 1 \in 1 .. n /\ 1 \in 1 .. n /\ 1 < c + 1 /\ 1 \in 1 .. c /\ 1 \in 1 .. n - c
  OBVIOUS
<1>7. k \in Nat /\ s[c + 1] \in S /\ s[1].key < k
  BY <1>2, <1>3, <1>6
<1>8. \A j \in 1 .. n : IF j <= c THEN s[j].key < k ELSE k <= s[j].key
  <2> SUFFICES ASSUME NEW j \in 1 .. n PROVE IF j <= c THEN s[j].key < k ELSE k <= s[j].key
    OBVIOUS
  <2>1. CASE j <= c
    BY <2>1, <1>3, <1>6
  <2>2. CASE j = c + 1
    BY <2>2, <1>7
  <2>3. CASE j > c + 1
    <3>1. k < s[j].key
      BY <2>3, <1>3, <1>6
    <3> QED
      BY <3>1, <2>3, <1>2, <1>7
  <2> QED
    BY <2>1, <2>2, <2>3
<1> HIDE DEF k
<1>9. Ascending(x)
  <2>1. DOMAIN x = 1 .. c
    BY <1>4
  <2> QED
    BY <2>1, <1>3, <1>4 DEF Ascending
<1>10. Ascending(y)
  <2>1. DOMAIN y = 1 .. n - c
    BY <1>5
  <2>2. \A j \in 1 .. n - c : c + j \in 1 .. n
    OBVIOUS
  <2>3. \A i, j \in 1 .. n - c : i < j => c + i < c + j
    OBVIOUS
  <2> QED
    BY <2>1, <2>2, <2>3, <1>3, <1>5 DEF Ascending
<1>11. ToSet(x) = {z \in S : z.key < k}
  <2>1. \A z \in ToSet(x) : \E j \in 1 .. c : x[j] = z
    BY <1>4, KeyNumbers
  <2>2. \A j \in 1 .. c : x[j] \in ToSet(x)
    BY <1>4, KeyNumbers
  <2>3. \A z \in ToSet(x) : z \in S /\ z.key < k
    BY <2>1, <1>2, <1>4, <1>8
  <2>4. ASSUME NEW z \in S, z.key < k PROVE z \in ToSet(x)
    <3>1. PICK j \in 1 .. n : s[j] = z
      BY <1>2
    <3>2. j <= c
      BY <3>1, <2>4, <1>2, <1>7, <1>8
    <3> QED
      BY <3>1, <3>2, <2>2, <1>4
  <2> QED
    BY <2>3, <2>4
<1>12. ToSet(y) = {z \in S : k <= z.key}
  <2>1. \A z \in ToSet(y) : \E j \in 1 .. n - c : y[j] = z
    BY <1>5, KeyNumbers
  <2>2. \A j \in 1 .. n - c : y[j] \in ToSet(y)
    BY <1>5, KeyNumbers
  <2>3. \A z \in ToSet(y) : z \in S /\ k <= z.key
    <3> SUFFICES ASSUME NEW j \in 1 .. n - c PROVE y[j] \in S /\ k <= y[j].key
      BY <2>1
    <3>1. c + j \in 1 .. n /\ ~(c + j <= c) /\ y[j] = s[c + j]
      BY <1>5
    <3> QED
      BY <3>1, <1>2, <1>8
  <2>4. ASSUME NEW z \in S, k <= z.key PROVE z \in ToSet(y)
    <3>1. PICK j \in 1 .. n : s[j] = z
      BY <1>2
    <3>2. ~(j <= c)
      BY <3>1, <2>4, <1>2, <1>7, <1>8
    <3>3. j - c \in 1 .. n - c /\ c + (j - c) = j
      BY <3>2
    <3>4. y[j - c] = s[j]
      BY <3>3, <1>5
    <3> QED
      BY <3>1, <3>3, <3>4, <2>2
  <2> QED
    BY <2>3, <2>4
<1>13. x[1] = s[1] /\ y[1] = s[c + 1]
  BY <1>4, <1>5, <1>6
<1> QED
  BY <1>4, <1>5, <1>7, <1>9, <1>10, <1>11, <1>12, <1>13 DEF Lists, x, y, k

\* One record less.
LEMMA RemoveLists ==
    ASSUME NEW s, NEW S, NEW n \in Nat, Lists(s, S, n), NEW i \in 1 .. n
    PROVE  /\ Lists(RemoveAt(s, i), S \ {s[i]}, n - 1)
           /\ n > 1 /\ i > 1 => RemoveAt(s, i)[1] = s[1]
<1>1. /\ s \in Seq(Recs) /\ Ascending(s) /\ ToSet(s) = S /\ Len(s) = n
      /\ DOMAIN s = 1 .. n
  BY DEF Lists
<1>2. /\ \A j \in 1 .. n : s[j] \in S /\ s[j].key \in Nat
      /\ \A x \in S : \E j \in 1 .. n : s[j] = x
  BY <1>1, KeyNumbers
<1>3. \A j, k \in 1 .. n : (j < k => s[j].key < s[k].key) /\ (s[j] = s[k] => j = k)
  BY <1>1, InKeyOrder
<1> DEFINE q == RemoveAt(s, i)
<1>4. /\ q \in Seq(Recs) /\ Len(q) = n - 1
      /\ \A j \in 1 .. i - 1 : q[j] = s[j]
      /\ \A j \in i .. n - 1 : q[j] = s[j + 1]
  BY <1>1, RemoveKeeps
<1> HIDE DEF q
<1> DEFINE at(j) == IF j < i THEN j ELSE j + 1
<1>5. ASSUME NEW j \in 1 .. n - 1
      PROVE  at(j) \in 1 .. n /\ at(j) # i /\ q[j] = s[at(j)]
  <2>1. CASE j < i
    BY <2>1, <1>4
  <2>2. CASE ~(j < i)
    BY <2>2, <1>4
  <2> QED
    BY <2>1, <2>2
<1>6. \A j, k \in 1 .. n - 1 : j < k => at(j) < at(k)
  OBVIOUS
<1>7. \A j \in 1 .. n : j # i => \E k \in 1 .. n - 1 : at(k) = j
  <2> SUFFICES ASSUME NEW j \in 1 .. n, j # i PROVE \E k \in 1 .. n - 1 : at(k) = j
    OBVIOUS
  <2>1. CASE j < i
    <3>1. j \in 1 .. n - 1 /\ at(j) = j
      BY <2>1
    <3> QED
      BY <3>1
  <2>2. CASE ~(j < i)
    <3>1. j - 1 \in 1 .. n - 1 /\ at(j - 1) = j
      BY <2>2
    <3> QED
      BY <3>1
  <2> QED
    BY <2>1, <2>2
<1> HIDE DEF at
<1>8. DOMAIN q = 1 .. n - 1
  BY <1>4
<1>9. Ascending(q)
  BY <1>3, <1>5, <1>6, <1>8, SMTT(20) DEF Ascending
<1>10. ToSet(q) = S \ {s[i]}
  <2>1. \A x \in ToSet(q) : \E j \in 1 .. n - 1 : q[j] = x
    BY <1>4, KeyNumbers
  <2>2. \A j \in 1 .. n - 1 : q[j] \in ToSet(q)
    BY <1>4, KeyNumbers
  <2>3. \A x \in ToSet(q) : x \in S /\ x # s[i]
    BY <2>1, <1>2, <1>3, <1>5
  <2>4. ASSUME NEW x \in S, x # s[i] PROVE x \in ToSet(q)
    <3>1. PICK j \in 1 .. n : s[j] = x
      BY <1>2
    <3>2. PICK k \in 1 .. n - 1 : at(k) = j
      BY <3>1, <2>4, <1>7
    <3> QED
      BY <3>1, <3>2, <2>2, <1>5
  <2> QED
    BY <2>3, <2>4
<1>11. i > 1 => q[1] = s[1]
  BY <1>4
<1> QED
  BY <1>4, <1>9, <1>10, <1>11 DEF Lists, q

\* Another record in the place of one.
IsReplaced(q, s, S, n, i, r) ==
    /\ Lists(q, (S \ {s[i]}) \cup {r}, n)
    /\ q[1] = IF i = 1 THEN r ELSE s[1]

\* A listing with one record replaced in place.
LEMMA ReplaceLists ==
    ASSUME NEW s, NEW S, NEW n \in Nat, Lists(s, S, n), NEW i \in 1 .. n, NEW r \in Recs,
           \A j \in 1 .. n : (j < i => s[j].key < r.key) /\ (i < j => r.key < s[j].key)
    PROVE  IsReplaced([s EXCEPT ![i] = r], s, S, n, i, r)
<1>1. /\ s \in Seq(Recs) /\ Ascending(s) /\ ToSet(s) = S /\ Len(s) = n
      /\ DOMAIN s = 1 .. n
  BY DEF Lists
<1>2. /\ \A j \in 1 .. n : s[j] \in S /\ s[j].key \in Nat
      /\ \A x \in S : \E j \in 1 .. n : s[j] = x
  BY <1>1, KeyNumbers
<1>3. \A j, k \in 1 .. n : (j < k => s[j].key < s[k].key) /\ (s[j] = s[k] => j = k)
  BY <1>1, InKeyOrder
<1> DEFINE q == [s EXCEPT ![i] = r]
<1>4. /\ q \in Seq(Recs) /\ Len(q) = n /\ DOMAIN q = 1 .. n
      /\ q[i] = r
      /\ \A j \in 1 .. n : j # i => q[j] = s[j]
  BY <1>1
<1> HIDE DEF q
<1>5. Ascending(q)
  <2> SUFFICES ASSUME NEW j \in 1 .. n, NEW k \in 1 .. n, j < k PROVE q[j].key < q[k].key
    BY <1>4 DEF Ascending
  <2>1. CASE j = i
    BY <2>1, <1>4
  <2>2. CASE k = i
    BY <2>2, <1>4
  <2>3. CASE j # i /\ k # i
    BY <2>3, <1>3, <1>4
  <2> QED
    BY <2>1, <2>2, <2>3
<1>6. ToSet(q) = (S \ {s[i]}) \cup {r}
  <2>1. \A x \in ToSet(q) : \E j \in 1 .. n : q[j] = x
    BY <1>4, KeyNumbers
  <2>2. \A j \in 1 .. n : q[j] \in ToSet(q)
    BY <1>4, KeyNumbers
  <2>3. ASSUME NEW x \in ToSet(q) PROVE x \in (S \ {s[i]}) \cup {r}
    <3>1. PICK j \in 1 .. n : q[j] = x
      BY <2>1
    <3> QED
      BY <3>1, <1>2, <1>3, <1>4
  <2>4. ASSUME NEW x \in S, x # s[i] PROVE x \in ToSet(q)
    <3>1. PICK j \in 1 .. n : s[j] = x
      BY <1>2
    <3> QED
      BY <3>1, <2>2, <2>4, <1>4
  <2>5. r \in ToSet(q)
    BY <2>2, <1>4
  <2> QED
    BY <2>3, <2>4, <2>5
<1>7. q[1] = IF i = 1 THEN r ELSE s[1]
  BY <1>4
<1> QED
  BY <1>4, <1>5, <1>6, <1>7 DEF Lists, IsReplaced, q

\* One list after another.
IsJoined(q, s, S, n) == Lists(q, S, n) /\ q[1] = s[1]

\* Two listings, one after the other in key order.
LEMMA JoinLists ==
    ASSUME NEW s, NEW S, NEW n \in Nat \ {0}, Lists(s, S, n), NEW t, NEW T, NEW m \in Nat, Lists(t, T, m),
           \A x \in S, y \in T : x.key < y.key
    PROVE  IsJoined(s \o t, s, S \cup T, n + m)
<1>1. /\ s \in Seq(Recs) /\ Ascending(s) /\ ToSet(s) = S /\ Len(s) = n /\ DOMAIN s = 1 .. n
      /\ t \in Seq(Recs) /\ Ascending(t) /\ ToSet(t) = T /\ Len(t) = m /\ DOMAIN t = 1 .. m
  BY DEF Lists
<1>2. /\ \A j \in 1 .. n : s[j] \in S
      /\ \A x \in S : \E j \in 1 .. n : s[j] = x
  BY <1>1, KeyNumbers
<1>3. /\ \A j \in 1 .. m : t[j] \in T
      /\ \A x \in T : \E j \in 1 .. m : t[j] = x
  BY <1>1, KeyNumbers
<1>4. /\ \A j, k \in 1 .. n : j < k => s[j].key < s[k].key
      /\ \A j, k \in 1 .. m : j < k => t[j].key < t[k].key
  BY <1>1 DEF Ascending
<1> DEFINE q == s \o t
<1>5. q \in Seq(Recs) /\ IsJoin(q, s, t)
  BY <1>1, Joined
<1> HIDE DEF q
<1>6. /\ Len(q) = n + m /\ DOMAIN q = 1 .. n + m
      /\ \A j \in 1 .. n : q[j] = s[j]
      /\ \A j \in 1 .. m : q[n + j] = t[j]
  BY <1>1, <1>5 DEF IsJoin
<1>7. ASSUME NEW j \in 1 .. n + m
      PROVE  \/ j \in 1 .. n /\ q[j] = s[j]
             \/ n < j /\ j - n \in 1 .. m /\ q[j] = t[j - n]
  <2>1. CASE j <= n
    BY <2>1, <1>6
  <2>2. CASE n < j
    <3>1. j - n \in 1 .. m /\ n + (j - n) = j
      BY <2>2
    <3> QED
      BY <3>1, <2>2, <1>6
  <2> QED
    BY <2>1, <2>2
<1>8. Ascending(q)
  <2> SUFFICES ASSUME NEW j \in 1 .. n + m, NEW k \in 1 .. n + m, j < k PROVE q[j].key < q[k].key
    BY <1>6 DEF Ascending
  <2>1. j - n < k - n
    OBVIOUS
  <2>2. CASE j \in 1 .. n /\ q[j] = s[j]
    BY <2>2, <1>2, <1>3, <1>4, <1>7
  <2>3. CASE n < j /\ j - n \in 1 .. m /\ q[j] = t[j - n]
    BY <2>1, <2>3, <1>4, <1>7
  <2> QED
    BY <2>2, <2>3, <1>7
<1>9. ToSet(q) = S \cup T
  <2>1. \A x \in ToSet(q) : \E j \in 1 .. n + m : q[j] = x
    BY <1>5, <1>6, KeyNumbers
  <2>2. \A j \in 1 .. n + m : q[j] \in ToSet(q)
    BY <1>5, <1>6, KeyNumbers
  <2>3. ASSUME NEW x \in ToSet(q) PROVE x \in S \cup T
    BY <2>1, <1>2, <1>3, <1>7
  <2>4. ASSUME NEW j \in 1 .. n PROVE s[j] \in ToSet(q)
    <3>1. j \in 1 .. n + m
      OBVIOUS
    <3> QED
      BY <3>1, <2>2, <1>6
  <2>5. ASSUME NEW j \in 1 .. m PROVE t[j] \in ToSet(q)
    <3>1. n + j \in 1 .. n + m
      OBVIOUS
    <3> QED
      BY <3>1, <2>2, <1>6
  <2> QED
    BY <2>3, <2>4, <2>5, <1>2, <1>3
<1>10. q[1] = s[1]
  BY <1>6
<1> QED
  BY <1>5, <1>6, <1>8, <1>9, <1>10 DEF Lists, IsJoined, q

\* A listing of one record.
LEMMA OneLists ==
    ASSUME NEW r \in Recs
    PROVE  Lists(<<r>>, {r}, 1)
<1> DEFINE q == <<r>>
<1>1. q \in Seq(Recs) /\ Len(q) = 1 /\ DOMAIN q = 1 .. 1 /\ q[1] = r
  OBVIOUS
<1> HIDE DEF q
<1>2. Ascending(q) /\ ToSet(q) = {r}
  BY <1>1 DEF Ascending, ToSet
<1> QED
  BY <1>1, <1>2 DEF Lists, q

-----------------------------------------------------------------------------
(* Insertion.                                                              *)

\* The list in a node in use.
LEMMA NodeLists ==
    ASSUME Types, Stocked, NEW n \in used
    PROVE  Lists(node[n].recs, Tree.rs[n], Len(node[n].recs))
<1>1. node[n].recs \in Seq(Recs) /\ Ascending(node[n].recs) /\ Tree.rs[n] = ToSet(node[n].recs)
  BY NodeFacts
<1> QED
  BY <1>1 DEF Lists

\* Trees that agree on every node.
LEMMA SameFields ==
    ASSUME NEW t, NEW u, TreeType(t), TreeType(u)
    PROVE  /\ (\A m \in NodeNums : u.ht[m] = t.ht[m]) => u.ht = t.ht
           /\ (\A m \in NodeNums : u.lo[m] = t.lo[m]) => u.lo = t.lo
           /\ (\A m \in NodeNums : u.fl[m] = t.fl[m]) => u.fl = t.fl
           /\ (\A m \in NodeNums : u.bl[m] = t.bl[m]) => u.bl = t.bl
<1>2. t.ht \in [NodeNums -> Nat] /\ u.ht \in [NodeNums -> Nat]
  BY DEF TreeType
<1>3. t.lo \in [NodeNums -> Nat] /\ u.lo \in [NodeNums -> Nat]
  BY DEF TreeType
<1>4. t.fl \in [NodeNums -> 0 .. MaxNode] /\ u.fl \in [NodeNums -> 0 .. MaxNode]
  BY DEF TreeType
<1>5. t.bl \in [NodeNums -> 0 .. MaxNode] /\ u.bl \in [NodeNums -> 0 .. MaxNode]
  BY DEF TreeType
<1>6. (\A m \in NodeNums : u.ht[m] = t.ht[m]) => u.ht = t.ht
  <2>1. PICK a, b : a = u.ht /\ b = t.ht
    OBVIOUS
  <2>2. a \in [NodeNums -> Nat] /\ b \in [NodeNums -> Nat]
    BY <2>1, <1>2
  <2>3. (\A m \in NodeNums : a[m] = b[m]) => a = b
    BY <2>2
  <2> QED
    BY <2>1, <2>3
<1>7. (\A m \in NodeNums : u.lo[m] = t.lo[m]) => u.lo = t.lo
  <2>1. PICK a, b : a = u.lo /\ b = t.lo
    OBVIOUS
  <2>2. a \in [NodeNums -> Nat] /\ b \in [NodeNums -> Nat]
    BY <2>1, <1>3
  <2>3. (\A m \in NodeNums : a[m] = b[m]) => a = b
    BY <2>2
  <2> QED
    BY <2>1, <2>3
<1>8. (\A m \in NodeNums : u.fl[m] = t.fl[m]) => u.fl = t.fl
  <2>1. PICK a, b : a = u.fl /\ b = t.fl
    OBVIOUS
  <2>2. a \in [NodeNums -> 0 .. MaxNode] /\ b \in [NodeNums -> 0 .. MaxNode]
    BY <2>1, <1>4
  <2>3. (\A m \in NodeNums : a[m] = b[m]) => a = b
    BY <2>2
  <2> QED
    BY <2>1, <2>3
<1>9. (\A m \in NodeNums : u.bl[m] = t.bl[m]) => u.bl = t.bl
  <2>1. PICK a, b : a = u.bl /\ b = t.bl
    OBVIOUS
  <2>2. a \in [NodeNums -> 0 .. MaxNode] /\ b \in [NodeNums -> 0 .. MaxNode]
    BY <2>1, <1>5
  <2>3. (\A m \in NodeNums : a[m] = b[m]) => a = b
    BY <2>2
  <2> QED
    BY <2>1, <2>3
<1> QED
  BY <1>6, <1>7, <1>8, <1>9

\* The view of nodes of which one has been given a record.
LEMMA ComesView ==
    ASSUME NEW nd \in [NodeNums -> Nodes], NEW us \in SUBSET NodeNums, NEW n \in us,
           NEW en \in Nodes, NEW r \in Recs, NEW c \in Nat \ {0},
           nd[n].recs # <<>>,
           Lists(en.recs, ToSet(nd[n].recs) \cup {r}, c), en.recs[1] = nd[n].recs[1],
           en.height = nd[n].height, en.FLink = nd[n].FLink, en.BLink = nd[n].BLink,
           nd[n].recs[1].key < r.key,
           \A s \in ToSet(nd[n].recs) : s.key # r.key,
           \A x \in Peers(View(nd, us), n) : View(nd, us).lo[n] < View(nd, us).lo[x] =>
                                                r.key < View(nd, us).lo[x]
    PROVE  Comes(View(nd, us), View([nd EXCEPT ![n] = en], us), n, r)
<1> DEFINE e == [nd EXCEPT ![n] = en]
           t == View(nd, us)
           u == View(e, us)
<1>1. e \in [NodeNums -> Nodes] /\ e[n] = en /\ \A m \in NodeNums : m # n => e[m] = nd[m]
  OBVIOUS
<1>9. n \in NodeNums
  OBVIOUS
<1> HIDE DEF e
<1>2. /\ TreeType(t) /\ t.us = us
      /\ \A m \in NodeNums : /\ t.ht[m] = nd[m].height
                             /\ t.rs[m] = ToSet(nd[m].recs)
                             /\ t.lo[m] = IF nd[m].recs = <<>> THEN 0 ELSE nd[m].recs[1].key
                             /\ t.fl[m] = nd[m].FLink
                             /\ t.bl[m] = nd[m].BLink
  BY ViewFacts
<1>3. /\ TreeType(u) /\ u.us = us
      /\ \A m \in NodeNums : /\ u.ht[m] = e[m].height
                             /\ u.rs[m] = ToSet(e[m].recs)
                             /\ u.lo[m] = IF e[m].recs = <<>> THEN 0 ELSE e[m].recs[1].key
                             /\ u.fl[m] = e[m].FLink
                             /\ u.bl[m] = e[m].BLink
  BY <1>1, ViewFacts
<1>4. ToSet(en.recs) = ToSet(nd[n].recs) \cup {r} /\ en.recs # <<>>
  BY ListsFirst DEF Lists
<1> HIDE DEF t, u
<1>5. /\ t.ht \in [NodeNums -> Nat] /\ t.rs \in [NodeNums -> SUBSET Recs] /\ t.lo \in [NodeNums -> Nat]
      /\ t.fl \in [NodeNums -> 0 .. MaxNode] /\ t.bl \in [NodeNums -> 0 .. MaxNode]
      /\ u.ht \in [NodeNums -> Nat] /\ u.rs \in [NodeNums -> SUBSET Recs] /\ u.lo \in [NodeNums -> Nat]
      /\ u.fl \in [NodeNums -> 0 .. MaxNode] /\ u.bl \in [NodeNums -> 0 .. MaxNode]
  BY <1>2, <1>3 DEF TreeType
<1>6. \A m \in NodeNums : /\ u.ht[m] = t.ht[m] /\ u.lo[m] = t.lo[m] /\ u.fl[m] = t.fl[m] /\ u.bl[m] = t.bl[m]
                          /\ u.rs[m] = IF m = n THEN t.rs[m] \cup {r} ELSE t.rs[m]
  <2> SUFFICES ASSUME NEW m \in NodeNums
               PROVE  /\ u.ht[m] = t.ht[m] /\ u.lo[m] = t.lo[m] /\ u.fl[m] = t.fl[m] /\ u.bl[m] = t.bl[m]
                      /\ u.rs[m] = IF m = n THEN t.rs[m] \cup {r} ELSE t.rs[m]
    OBVIOUS
  <2>1. CASE m = n
    BY <2>1, <1>1, <1>2, <1>3, <1>4
  <2>2. CASE m # n
    BY <2>2, <1>1, <1>2, <1>3
  <2> QED
    BY <2>1, <2>2
<1>7. SameShape(t, u)
  <2>1. /\ (\A m \in NodeNums : u.ht[m] = t.ht[m]) => u.ht = t.ht
        /\ (\A m \in NodeNums : u.lo[m] = t.lo[m]) => u.lo = t.lo
        /\ (\A m \in NodeNums : u.fl[m] = t.fl[m]) => u.fl = t.fl
        /\ (\A m \in NodeNums : u.bl[m] = t.bl[m]) => u.bl = t.bl
    BY <1>2, <1>3, SameFields
  <2>2. u.ht = t.ht /\ u.lo = t.lo /\ u.fl = t.fl /\ u.bl = t.bl
    BY <2>1, <1>6
  <2> QED
    BY <2>2, <1>2, <1>3, <1>5 DEF SameShape
<1>8. u.rs = [t.rs EXCEPT ![n] = @ \cup {r}]
  BY <1>5, <1>6
<1>10. t.lo[n] = nd[n].recs[1].key /\ t.rs[n] = ToSet(nd[n].recs)
  BY <1>2, <1>9
<1>11. \A x \in Peers(t, n) : t.lo[n] < t.lo[x] => r.key < t.lo[x]
  BY DEF t
<1> QED
  BY <1>2, <1>7, <1>8, <1>10, <1>11 DEF Comes, t, u, e

HomeOf(k) == Last(descend(k))

WithRecord(k) == [node[HomeOf(k)] EXCEPT !.recs = insertSorted(@, LeafRec(k))]

\* The record of an absent key fits in between the others of its leaf.
LEMMA InsertPlace ==
    ASSUME Kept, ~FromBelow, NEW k \in Keys, Begin(k), root # 0
    PROVE  /\ Resting
           /\ HomeOf(k) \in used /\ node[HomeOf(k)].height = 1
           /\ WithRecord(k) \in Nodes
           /\ WithRecord(k).kind = node[HomeOf(k)].kind
           /\ WithRecord(k).height = node[HomeOf(k)].height
           /\ WithRecord(k).FLink = node[HomeOf(k)].FLink
           /\ WithRecord(k).BLink = node[HomeOf(k)].BLink
           /\ Lists(WithRecord(k).recs, Tree.rs[HomeOf(k)] \cup {LeafRec(k)}, Len(node[HomeOf(k)].recs) + 1)
           /\ WithRecord(k).recs[1] = node[HomeOf(k)].recs[1]
           /\ Good(View([node EXCEPT ![HomeOf(k)] = WithRecord(k)], used), root, {}, {})
           /\ Holds(View([node EXCEPT ![HomeOf(k)] = WithRecord(k)], used), contents \cup {k})
<1> DEFINE n == HomeOf(k)
           s == node[n].recs
           r == LeafRec(k)
           en == WithRecord(k)
<1>1. Types /\ Stocked /\ Grown /\ pc = "idle" /\ k \notin contents /\ k \in Nat
  BY RootInUse, KeysAssumption DEF Kept, Begin
<1>2. Resting
  BY <1>1 DEF Resting
<1>3. n \in used /\ node[n].height = 1 /\ On(Tree, n, k)
  BY <1>1, <1>2, LeafFacts DEF HomeOf
<1>4. /\ Good(Tree, root, {}, {}) /\ Holds(Tree, contents)
  BY <1>2, RestingFacts DEF Resting, Grown
<1> HIDE DEF n
<1>5. /\ n \in NodeNums /\ node[n] \in Nodes /\ s \in Seq(Recs) /\ Len(s) \in Nat \ {0} /\ s # <<>>
      /\ Tree.us = used /\ Tree.ht[n] = 1 /\ Tree.lo[n] = s[1].key /\ Tree.rs[n] = ToSet(s)
      /\ Tree.bl[n] = node[n].BLink
      /\ s[1] \in Tree.rs[n] /\ Lists(s, Tree.rs[n], Len(s))
  BY <1>1, <1>3, NodeFacts, NodeLists
<1>6. r \in Recs /\ r.key = k
  BY MaxNodeAssumption DEF LeafRec, Recs
<1> HIDE DEF r
<1>7. \A x \in Tree.rs[n] : x.key \in contents
  BY <1>3, <1>4, <1>5 DEF Holds
<1>8. contents \in SUBSET Nat
  BY <1>1, KeysAssumption DEF Types
<1>9. s[1].key < k
  <2>1. s[1].key \in contents
    BY <1>5, <1>7
  <2>2. PICK j \in contents : j < k
    BY <2>1 DEF Begin
  <2>5. PICK l : l = s[1].key
    OBVIOUS
  <2>6. l \in contents /\ l \in Nat /\ j \in Nat /\ l # k /\ l = Tree.lo[n]
    BY <2>1, <2>2, <2>5, <1>1, <1>5, <1>8
  <2>3. CASE Tree.lo[n] <= k
    <3>1. l < k
      BY <2>3, <2>6, <1>1
    <3> QED
      BY <3>1, <2>5
  <2>4. CASE Tree.bl[n] = 0
    <3>1. l <= j
      BY <2>4, <2>6, <1>3, <1>4, <1>5 DEF Holds
    <3>2. l < k
      BY <3>1, <2>2, <2>6, <1>1
    <3> QED
      BY <3>2, <2>5
  <2> QED
    BY <2>3, <2>4, <1>3 DEF On
<1>10. \A x \in Tree.rs[n] : x.key # r.key
  BY <1>1, <1>6, <1>7
<1> DEFINE q == insertSorted(s, r)
<1>11. Lists(q, Tree.rs[n] \cup {r}, Len(s) + 1) /\ q[1] = s[1]
  BY <1>5, <1>6, <1>9, <1>10, InsertLists
<1>12. en = [node[n] EXCEPT !.recs = q]
  BY DEF WithRecord, n, r
<1> HIDE DEF q, en
<1>13. q \in Seq(Recs)
  BY <1>11 DEF Lists
<1>14. /\ en \in Nodes /\ en.recs = q /\ en.kind = node[n].kind /\ en.height = node[n].height
       /\ en.FLink = node[n].FLink /\ en.BLink = node[n].BLink
  BY <1>5, <1>12, <1>13 DEF Nodes
<1>15. node \in [NodeNums -> Nodes] /\ used \in SUBSET NodeNums
  BY <1>1, MaxNodeAssumption DEF Types, NodeNums
<1>16. \A x \in Peers(Tree, n) : Tree.lo[n] < Tree.lo[x] => r.key < Tree.lo[x]
  BY <1>3, <1>6 DEF On
<1> DEFINE u == View([node EXCEPT ![n] = en], used)
<1>17. Comes(Tree, u, n, r)
  <2> DEFINE c == Len(s) + 1
  <2>1. c \in Nat \ {0}
    BY <1>5
  <2>2. Lists(en.recs, ToSet(s) \cup {r}, c) /\ en.recs[1] = s[1]
    BY <1>5, <1>11, <1>14
  <2>3. s[1].key < r.key /\ \A x \in ToSet(s) : x.key # r.key
    BY <1>5, <1>6, <1>9, <1>10
  <2> HIDE DEF c
  <2> QED
    BY <2>1, <2>2, <2>3, <1>3, <1>5, <1>6, <1>14, <1>15, <1>16, ComesView DEF Tree
<1> HIDE DEF u
<1>18. Good(u, root, {}, {})
  BY <1>4, <1>5, <1>17, LeafComes
<1>19. Holds(u, contents \cup {k})
  BY <1>4, <1>5, <1>6, <1>8, <1>17, ComeHolds
<1> QED
  BY <1>2, <1>3, <1>11, <1>14, <1>18, <1>19 DEF n, r, en, u

\* A node in use is as it should be.
InShape(en) ==
    /\ recordsFit(en)
    /\ Ascending(en.recs)
    /\ en.recs # <<>>
    /\ en.kind = IF en.height = 1 THEN "leaf" ELSE "index"

\* It is enough to look at the nodes that change.
LEMMA Restocks ==
    ASSUME Stocked, NEW C,
           \A m \in NodeNums \ C : node'[m] = node[m] /\ (m \in used' <=> m \in used),
           \A m \in C : IF m \in used' THEN InShape(node'[m]) ELSE node'[m] = Erased,
           used' \in SUBSET NodeNums
    PROVE  Stocked'
<1>1. \A m \in used : InShape(node[m])
  BY DEF Stocked, InShape
<1>2. ASSUME NEW m \in used'
      PROVE  InShape(node'[m])
  BY <1>1
<1>3. ASSUME NEW m \in NodeNums \ used'
      PROVE  node'[m] = Erased
  BY DEF Stocked
<1> QED
  BY <1>2, <1>3 DEF Stocked, InShape

\* The number of records follows the contents.
LEMMA OneMore ==
    ASSUME Types, NEW k \in Keys, k \notin contents
    PROVE  /\ contents \cup {k} \in SUBSET Keys
           /\ IsFiniteSet(contents \cup {k})
           /\ Cardinality(contents \cup {k}) = leafRecords + 1
BY FS_AddElement DEF Types

\* The record count after a deletion.
LEMMA OneLess ==
    ASSUME Types, NEW k \in contents
    PROVE  /\ contents \ {k} \in SUBSET Keys
           /\ IsFiniteSet(contents \ {k})
           /\ Cardinality(contents \ {k}) = leafRecords - 1
BY FS_RemoveElement DEF Types

\* insertIntoLeaf without a split keeps the invariant.
LEMMA InsertFitsKeeps ==
    ASSUME Kept, ~failed, ~FromBelow, NEW k \in Keys, InsertFits(k), pool' = pool
    PROVE  Kept'
<1> DEFINE n == HomeOf(k)
           en == WithRecord(k)
<1>1. /\ Resting
      /\ n \in used /\ node[n].height = 1
      /\ en \in Nodes /\ en.kind = node[n].kind /\ en.height = node[n].height
      /\ en.FLink = node[n].FLink /\ en.BLink = node[n].BLink
      /\ Lists(en.recs, Tree.rs[n] \cup {LeafRec(k)}, Len(node[n].recs) + 1)
      /\ Good(View([node EXCEPT ![n] = en], used), root, {}, {})
      /\ Holds(View([node EXCEPT ![n] = en], used), contents \cup {k})
  BY InsertPlace DEF InsertFits
<1>2. /\ Begin(k) /\ contents' = contents \cup {k} /\ recordsFit(en)
      /\ node' = [node EXCEPT ![n] = en] /\ leafRecords' = leafRecords + 1
      /\ pc' = "idle" /\ path' = <<>> /\ childIdx' = <<>> /\ level' = 0
      /\ used' = used /\ root' = root /\ firstLeaf' = firstLeaf /\ lastLeaf' = lastLeaf
      /\ treeDepth' = treeDepth
  BY DEF InsertFits, Added, Return, NoLocals, HomeOf, WithRecord
<1> HIDE DEF n, en
<1>3. Types /\ Stocked /\ Grown /\ k \notin contents
  BY <1>1, <1>2 DEF Resting, Begin
<1>4. n \in NodeNums /\ used \in SUBSET NodeNums /\ node \in [NodeNums -> Nodes]
  BY <1>1, <1>3, NodeFacts, MaxNodeAssumption DEF Types, NodeNums
<1>5. node' \in [NodeNums -> Nodes] /\ node'[n] = en /\ \A m \in NodeNums \ {n} : node'[m] = node[m]
  BY <1>1, <1>2, <1>4
<1>6. Types'
  <2>1. path' \in Seq(NodeNums) /\ childIdx' \in Seq(Nat) /\ level' \in Nat
    BY <1>2
  <2>2. /\ contents' \in SUBSET Keys /\ IsFiniteSet(contents')
        /\ leafRecords' = Cardinality(contents')
    BY <1>2, <1>3, OneMore
  <2> QED
    BY <1>2, <1>3, <1>5, <2>1, <2>2 DEF Types
<1>7. Len(node[n].recs) \in Nat \ {0} /\ node[n].kind = IF node[n].height = 1 THEN "leaf" ELSE "index"
  BY <1>1, <1>3, NodeFacts
<1>8. /\ en.recs \in Seq(Recs) /\ Ascending(en.recs) /\ Len(en.recs) = Len(node[n].recs) + 1
      /\ en.recs # <<>>
  <2>1. Len(node[n].recs) + 1 \in Nat \ {0}
    BY <1>7
  <2> QED
    BY <2>1, <1>1, ListsFirst DEF Lists
<1>9. InShape(en)
  BY <1>1, <1>2, <1>7, <1>8 DEF InShape
<1>10. Stocked'
  <2> DEFINE C == {n}
  <2>1. /\ \A m \in NodeNums \ C : node'[m] = node[m] /\ (m \in used' <=> m \in used)
        /\ \A m \in C : IF m \in used' THEN InShape(node'[m]) ELSE node'[m] = Erased
        /\ used' \in SUBSET NodeNums
    BY <1>1, <1>2, <1>4, <1>5, <1>9
  <2> HIDE DEF C
  <2> QED
    BY <2>1, <1>3, Restocks
<1>11. Good(Tree', root', {}, {}) /\ Holds(Tree', contents')
  BY <1>1, <1>2 DEF Tree
<1>12. Orphans' = {} /\ Stale' = {} /\ Thin' = {} /\ Thin = {} /\ pc = "idle"
  BY <1>1, <1>2 DEF Orphans, Stale, Thin, Splitting, Resting
<1>13. Wide'
  <2>1. Wide /\ used' = used /\ root' = root /\ treeDepth' = treeDepth
    BY <1>2, <1>3 DEF Grown
  <2>2. ASSUME NEW m \in used
        PROVE  Len(node'[m].recs) > 1 \/ (m = root /\ treeDepth = 1)
    <3>1. CASE m = n
      BY <3>1, <1>5, <1>7, <1>8
    <3>2. CASE m # n
      BY <3>2, <2>1, <1>4, <1>5, <1>12 DEF Wide
    <3> QED
      BY <3>1, <3>2
  <2> QED
    BY <2>1, <2>2, <1>12 DEF Wide
<1>14. \A m \in used : /\ node'[m].height = node[m].height
                       /\ node'[m].FLink = node[m].FLink /\ node'[m].BLink = node[m].BLink
  BY <1>1, <1>4, <1>5
<1>15. Ends'
  BY <1>2, <1>3, <1>14 DEF Grown, Ends
<1>16. Placed'
  BY <1>2 DEF Placed, Splitting
<1>17. root' \in used' /\ treeDepth' = node'[root'].height
  BY <1>2, <1>3, <1>14 DEF Grown
<1>18. Grown'
  BY <1>11, <1>12, <1>13, <1>15, <1>16, <1>17 DEF Grown
<1> QED
  BY <1>6, <1>10, <1>18 DEF Kept

\* What a split stores, when everything fits.
LeftOf(en, m) == [en EXCEPT !.recs = SubSeq(@, 1, Len(en.recs) \div 2), !.FLink = m]
RightOf(en, n) == [en EXCEPT !.recs = SubSeq(@, (Len(en.recs) \div 2) + 1, Len(@)), !.BLink = n]
SplitNodes(n, en, m) ==
    [x \in NodeNums |-> IF x = n THEN LeftOf(en, m)
                        ELSE IF x = m THEN RightOf(en, n)
                        ELSE IF x = en.FLink THEN [node[x] EXCEPT !.BLink = m]
                        ELSE node[x]]

\* What splitLeaf and splitIndex store.
LEMMA SplitStores ==
    ASSUME NEW n \in NodeNums, NEW m \in NodeNums, NEW en, n # m,
           en.FLink # 0 => en.FLink \in NodeNums /\ en.FLink # n /\ en.FLink # m,
           AllFit(SplitWrites(n, en, m))
    PROVE  /\ recordsFit(LeftOf(en, m)) /\ recordsFit(RightOf(en, n))
           /\ en.FLink # 0 => recordsFit([node[en.FLink] EXCEPT !.BLink = m])
           /\ Stored(node, SplitWrites(n, en, m)) = SplitNodes(n, en, m)
<1> DEFINE l == LeftOf(en, m)
           r == RightOf(en, n)
           f == [node[en.FLink] EXCEPT !.BLink = m]
           w == SplitWrites(n, en, m)
<1>1. CASE en.FLink = 0
  <2>1. w = <<<<n, l>>, <<m, r>>>>
    <3>1. w = <<>> \o <<<<n, l>>, <<m, r>>>>
      BY <1>1 DEF SplitWrites, LeftOf, RightOf
    <3> HIDE DEF l, r, w
    <3> QED
      BY <3>1
  <2> HIDE DEF l, r, w
  <2>2. recordsFit(l) /\ recordsFit(r)
    <3>1. DOMAIN w = {1, 2} /\ w[1][2] = l /\ w[2][2] = r
      BY <2>1
    <3>2. AllFit(w)
      BY DEF w
    <3> QED
      BY <3>1, <3>2 DEF AllFit
  <2>3. Stored(node, w) = [x \in NodeNums |-> IF x = n THEN l ELSE IF x = m THEN r ELSE node[x]]
    BY <2>1, <2>2, StoredTwo
  <2>4. \A x \in NodeNums : x # en.FLink
    BY <1>1 DEF NodeNums
  <2> QED
    BY <1>1, <2>2, <2>3, <2>4 DEF l, r, w, SplitNodes
<1>2. CASE en.FLink # 0
  <2>1. w = <<<<en.FLink, f>>, <<n, l>>, <<m, r>>>>
    <3>1. w = <<<<en.FLink, f>>>> \o <<<<n, l>>, <<m, r>>>>
      BY <1>2 DEF SplitWrites, LeftOf, RightOf
    <3> HIDE DEF l, r, w, f
    <3>2. ASSUME NEW a, NEW b, NEW c
          PROVE  <<a>> \o <<b, c>> = <<a, b, c>>
      <4> DEFINE x == <<a>>
                 y == <<b, c>>
                 T == {a, b, c}
      <4>1. x \in Seq(T) /\ y \in Seq(T) /\ Len(x) = 1 /\ Len(y) = 2 /\ x[1] = a /\ y[1] = b /\ y[2] = c
        OBVIOUS
      <4> HIDE DEF x, y, T
      <4>2. PICK z : z = x \o y
        OBVIOUS
      <4>3. z \in Seq(T) /\ IsJoin(z, x, y)
        BY <4>1, <4>2, Joined
      <4>4. z \in Seq(T) /\ Len(z) = 3 /\ z[1] = a /\ z[2] = b /\ z[3] = c
        <5>1. Len(z) = 3
          BY <4>1, <4>3 DEF IsJoin
        <5>2. z[1] = a
          BY <4>1, <4>3 DEF IsJoin
        <5>3. z[1 + 1] = b /\ z[1 + 2] = c
          BY <4>1, <4>3 DEF IsJoin
        <5> QED
          BY <5>1, <5>2, <5>3, <4>3
      <4>5. z = <<a, b, c>>
        BY <4>4
      <4> QED
        BY <4>2, <4>5 DEF x, y
    <3> QED
      BY <3>1, <3>2, Zenon
  <2> HIDE DEF l, r, w, f
  <2>2. recordsFit(l) /\ recordsFit(r) /\ recordsFit(f)
    <3>1. DOMAIN w = {1, 2, 3} /\ w[1][2] = f /\ w[2][2] = l /\ w[3][2] = r
      BY <2>1
    <3>2. AllFit(w)
      BY DEF w
    <3> QED
      BY <3>1, <3>2 DEF AllFit
  <2>3. Stored(node, w) = [x \in NodeNums |-> IF x = en.FLink THEN f ELSE IF x = n THEN l
                                              ELSE IF x = m THEN r ELSE node[x]]
    <3>1. PICK k : k = en.FLink
      OBVIOUS
    <3>2. k \in NodeNums /\ k # n /\ k # m
      BY <1>2, <3>1
    <3>3. IsThree(Stored(node, <<<<k, f>>, <<n, l>>, <<m, r>>>>), node, k, n, m, f, l, r)
      BY <2>2, <3>2, StoredThree
    <3> QED
      BY <2>1, <3>1, <3>3 DEF IsThree
  <2>4. \A x \in NodeNums : (IF x = en.FLink THEN f ELSE IF x = n THEN l
                             ELSE IF x = m THEN r ELSE node[x])
                          = (IF x = n THEN l ELSE IF x = m THEN r
                             ELSE IF x = en.FLink THEN [node[x] EXCEPT !.BLink = m] ELSE node[x])
    BY <1>2 DEF f
  <2>5. Stored(node, w) = [x \in NodeNums |-> IF x = n THEN l ELSE IF x = m THEN r
                             ELSE IF x = en.FLink THEN [node[x] EXCEPT !.BLink = m] ELSE node[x]]
    BY <2>3, <2>4
  <2> QED
    BY <2>2, <2>5 DEF l, r, w, f, SplitNodes
<1> QED
  BY <1>1, <1>2

\* The halves of a node that is too full.
Before(S, k) == {x \in S : x.key < k}
After(S, k) == {x \in S : k <= x.key}

IsHalved(en, S, c, n, m) ==
    /\ c > 3
    /\ SplitKeyOf(en) \in Nat /\ en.recs[1].key < SplitKeyOf(en)
    /\ \E x \in S : x.key = SplitKeyOf(en)
    /\ LeftOf(en, m) \in Nodes /\ RightOf(en, n) \in Nodes
    /\ Lists(LeftOf(en, m).recs, Before(S, SplitKeyOf(en)), Len(LeftOf(en, m).recs))
    /\ Lists(RightOf(en, n).recs, After(S, SplitKeyOf(en)), Len(RightOf(en, n).recs))
    /\ Len(LeftOf(en, m).recs) \in Nat /\ Len(LeftOf(en, m).recs) > 1
    /\ Len(RightOf(en, n).recs) \in Nat /\ Len(RightOf(en, n).recs) > 1
    /\ LeftOf(en, m).recs[1] = en.recs[1]
    /\ FirstKey(RightOf(en, n)) = SplitKeyOf(en)
    /\ LeftOf(en, m).kind = en.kind /\ LeftOf(en, m).height = en.height
    /\ LeftOf(en, m).FLink = m /\ LeftOf(en, m).BLink = en.BLink
    /\ RightOf(en, n).kind = en.kind /\ RightOf(en, n).height = en.height
    /\ RightOf(en, n).FLink = en.FLink /\ RightOf(en, n).BLink = n

\* The halves of a node that is too full: neither is empty, and they part
\* the keys.
LEMMA Halves ==
    ASSUME NEW en \in Nodes, NEW S, NEW c \in Nat, Lists(en.recs, S, c), ~recordsFit(en),
           NEW n \in NodeNums, NEW m \in NodeNums
    PROVE  IsHalved(en, S, c, n, m)
<1> DEFINE d == c \div 2
           s == en.recs
           x == SubSeq(s, 1, d)
           y == SubSeq(s, d + 1, c)
           k == s[d + 1].key
<1>1. s \in Seq(Recs) /\ Len(s) = c
  BY DEF Lists
<1>2. c > 3
  <2>1. Sized(en)
    BY <1>1 DEF Sized, Nodes
  <2>2. usedBytes(en) \in Nat /\ NodeSize \in Nat /\ (Len(s) <= 3 => usedBytes(en) <= NodeSize)
    BY <2>1, FewRecords
  <2> QED
    BY <2>2, <1>1 DEF recordsFit
<1>3. d \in 1 .. c - 1 /\ d \in Nat /\ d > 1 /\ c - d \in Nat /\ c - d > 1
  BY <1>2
<1> HIDE DEF d
<1>4. /\ Lists(x, {z \in S : z.key < k}, d)
      /\ Lists(y, {z \in S : k <= z.key}, c - d)
      /\ x[1] = s[1] /\ y[1] = s[d + 1]
      /\ s[d + 1] \in S /\ s[1].key < k
  BY <1>3, CutLists
<1>5. LeftOf(en, m) = [en EXCEPT !.recs = x, !.FLink = m] /\ RightOf(en, n) = [en EXCEPT !.recs = y, !.BLink = n]
  BY <1>1 DEF LeftOf, RightOf, d
<1>6. SplitKeyOf(en) = k
  BY <1>1 DEF SplitKeyOf, d
<1>7. k \in Nat
  BY <1>1, <1>3, KeyNumbers
<1> HIDE DEF x, y, k, s
<1>8. x \in Seq(Recs) /\ Len(x) = d /\ y \in Seq(Recs) /\ Len(y) = c - d
  BY <1>4 DEF Lists
<1>9. n \in 0 .. MaxNode /\ m \in 0 .. MaxNode
  BY DEF NodeNums
<1> DEFINE l == LeftOf(en, m)
           r == RightOf(en, n)
<1>10. /\ l \in Nodes /\ l.recs = x /\ l.kind = en.kind /\ l.height = en.height
       /\ l.FLink = m /\ l.BLink = en.BLink
  BY <1>5, <1>8, <1>9 DEF Nodes
<1>11. /\ r \in Nodes /\ r.recs = y /\ r.kind = en.kind /\ r.height = en.height
       /\ r.FLink = en.FLink /\ r.BLink = n
  BY <1>5, <1>8, <1>9 DEF Nodes
<1> HIDE DEF l, r
<1>12. Lists(l.recs, Before(S, k), Len(l.recs)) /\ Lists(r.recs, After(S, k), Len(r.recs))
  BY <1>4, <1>8, <1>10, <1>11 DEF Before, After
<1>13. l.recs[1] = en.recs[1] /\ FirstKey(r) = k
  BY <1>4, <1>10, <1>11 DEF FirstKey, s, k
<1>14. (\E z \in S : z.key = k) /\ en.recs[1].key < k
  BY <1>4 DEF k, s
<1> QED
  BY <1>2, <1>3, <1>6, <1>7, <1>8, <1>10, <1>11, <1>12, <1>13, <1>14 DEF l, r, IsHalved

\* The split of node n, with content en, into n and m.
SplitStep(n, en, m) ==
    /\ n \in used /\ m \in (1 .. pool) \ used
    /\ en \in Nodes /\ en.kind = node[n].kind /\ en.height = node[n].height
    /\ en.FLink = node[n].FLink /\ en.BLink = node[n].BLink
    /\ Lists(en.recs, ToSet(en.recs), Len(en.recs))
    /\ ~recordsFit(en)
    /\ node' = Stored(node, SplitWrites(n, en, m))
    /\ AllFit(SplitWrites(n, en, m))
    /\ used' = used \cup {m}
    /\ pool' = pool

\* What is the same after it, and what is new.
SplitLeaves(n, en, m) ==
    /\ used' \in SUBSET (1 .. pool') /\ used' \in SUBSET NodeNums
    /\ node' \in [NodeNums -> Nodes]
    /\ \A x \in used : /\ node'[x].height = node[x].height
                       /\ x # n => node'[x].recs = node[x].recs /\ node'[x].FLink = node[x].FLink
                       /\ node[x].BLink = 0 => node'[x].BLink = 0
    /\ Len(node'[n].recs) > 1 /\ Len(node'[m].recs) > 1
    /\ node'[n].FLink = m
    /\ node'[m].height = node[n].height /\ node'[m].FLink = node[n].FLink
    /\ FirstKey(node'[m]) = SplitKeyOf(en)

\* Splitting a node that is too full gives a good tree with one orphan.
LEMMA SplitKeeps ==
    ASSUME Types, Stocked, NEW n, NEW en, NEW m, SplitStep(n, en, m), NEW top, NEW K,
           Good(View([node EXCEPT ![n] = en], used), top, {}, {}),
           Holds(View([node EXCEPT ![n] = en], used), K)
    PROVE  /\ SplitLeaves(n, en, m)
           /\ Stocked'
           /\ Good(Tree', top, {m}, {})
           /\ Holds(Tree', K)
<1> DEFINE e == [node EXCEPT ![n] = en]
           t == View(e, used)
           l == LeftOf(en, m)
           r == RightOf(en, n)
           S == ToSet(en.recs)
           k == SplitKeyOf(en)
           f == en.FLink
           u == View(node', used')
<1>1. /\ n \in used /\ m \in (1 .. pool) \ used
      /\ en \in Nodes /\ en.kind = node[n].kind /\ en.height = node[n].height
      /\ en.FLink = node[n].FLink /\ en.BLink = node[n].BLink
      /\ Lists(en.recs, S, Len(en.recs)) /\ ~recordsFit(en)
      /\ used' = used \cup {m}
  BY DEF SplitStep
<1>2. /\ used \in SUBSET NodeNums /\ node \in [NodeNums -> Nodes] /\ MaxNode \in Nat
      /\ m \in NodeNums /\ n \in NodeNums /\ n # m /\ m # 0 /\ n # 0
      /\ used \subseteq 1 .. pool
  BY <1>1, MaxNodeAssumption DEF Types, NodeNums
<1>3. e \in [NodeNums -> Nodes] /\ e[n] = en /\ \A x \in NodeNums : x # n => e[x] = node[x]
  BY <1>1, <1>2
<1> HIDE DEF e
<1>4. /\ TreeType(t) /\ t.us = used
      /\ \A x \in NodeNums : /\ t.ht[x] = e[x].height
                             /\ t.rs[x] = ToSet(e[x].recs)
                             /\ t.lo[x] = IF e[x].recs = <<>> THEN 0 ELSE e[x].recs[1].key
                             /\ t.fl[x] = e[x].FLink
                             /\ t.bl[x] = e[x].BLink
  BY <1>2, <1>3, ViewFacts
<1>5. Good(t, top, {}, {}) /\ Holds(t, K)
  BY DEF e
<1> HIDE DEF t
<1>6. Len(en.recs) \in Nat /\ en.recs \in Seq(Recs)
  BY <1>1 DEF Lists
<1>7. /\ Len(en.recs) > 3
      /\ k \in Nat /\ en.recs[1].key < k
      /\ \E x \in S : x.key = k
      /\ l \in Nodes /\ r \in Nodes
      /\ Lists(l.recs, Before(S, k), Len(l.recs))
      /\ Lists(r.recs, After(S, k), Len(r.recs))
      /\ Len(l.recs) \in Nat /\ Len(l.recs) > 1
      /\ Len(r.recs) \in Nat /\ Len(r.recs) > 1
      /\ l.recs[1] = en.recs[1]
      /\ FirstKey(r) = k
      /\ l.kind = en.kind /\ l.height = en.height
      /\ l.FLink = m /\ l.BLink = en.BLink
      /\ r.kind = en.kind /\ r.height = en.height
      /\ r.FLink = en.FLink /\ r.BLink = n
  <2>1. IsHalved(en, S, Len(en.recs), n, m)
    BY <1>1, <1>2, <1>6, Halves
  <2> QED
    BY <2>1 DEF IsHalved
<1>8. f # 0 => /\ f \in used /\ f \in NodeNums /\ f # n /\ f # m
               /\ t.bl[f] # 0
  <2> SUFFICES ASSUME f # 0 PROVE f \in used /\ f # n /\ f # m /\ t.bl[f] # 0
    BY <1>2
  <2>1. t.fl[n] = f
    BY <1>2, <1>3, <1>4
  <2>2. f \in Peers(t, n) /\ t.lo[n] < t.lo[f]
    BY <1>1, <1>4, <1>5, <2>1 DEF Good, Linked
  <2>3. f \in used /\ f # n /\ n \in Peers(t, f)
    BY <2>2, <1>1, <1>4 DEF Peers
  <2>4. t.bl[f] = 0 => t.lo[f] < t.lo[n]
    BY <2>3, <1>4, <1>5 DEF Good, Linked
  <2>5. t.lo[f] \in Nat /\ t.lo[n] \in Nat
    BY <2>3, <1>1, <1>4, TreeNumbers
  <2> QED
    BY <2>2, <2>3, <2>4, <2>5, <1>1
<1>9. /\ recordsFit(l) /\ recordsFit(r)
      /\ node' = [x \in NodeNums |-> IF x = n THEN l ELSE IF x = m THEN r
                                     ELSE IF x = f THEN [node[x] EXCEPT !.BLink = m] ELSE node[x]]
  <2>1. n \in NodeNums /\ m \in NodeNums /\ n # m
        /\ (en.FLink # 0 => en.FLink \in NodeNums /\ en.FLink # n /\ en.FLink # m)
        /\ AllFit(SplitWrites(n, en, m))
    BY <1>2, <1>8 DEF SplitStep
  <2>2. /\ recordsFit(l) /\ recordsFit(r)
        /\ Stored(node, SplitWrites(n, en, m)) = SplitNodes(n, en, m)
    BY <2>1, SplitStores
  <2>3. node' = SplitNodes(n, en, m)
    BY <2>2 DEF SplitStep
  <2> QED
    BY <2>2, <2>3 DEF SplitNodes
<1>10. f # 0 => /\ [node[f] EXCEPT !.BLink = m] \in Nodes
                /\ [node[f] EXCEPT !.BLink = m].BLink = m
                /\ [node[f] EXCEPT !.BLink = m].recs = node[f].recs
                /\ [node[f] EXCEPT !.BLink = m].kind = node[f].kind
                /\ [node[f] EXCEPT !.BLink = m].height = node[f].height
                /\ [node[f] EXCEPT !.BLink = m].FLink = node[f].FLink
  <2>1. m \in 0 .. MaxNode
    BY <1>2 DEF NodeNums
  <2>2. f # 0 => node[f] \in Nodes
    BY <1>2, <1>8
  <2> QED
    BY <2>1, <2>2 DEF Nodes
<1> HIDE DEF l, r, f, k, S
<1>11. /\ node'[n] = l /\ node'[m] = r
       /\ f # 0 => node'[f] = [node[f] EXCEPT !.BLink = m]
       /\ \A x \in NodeNums : x \notin {n, m, f} => node'[x] = node[x]
  BY <1>2, <1>8, <1>9
<1>12. node' \in [NodeNums -> Nodes]
  <2>1. \A x \in NodeNums : node'[x] \in Nodes
    <3> SUFFICES ASSUME NEW x \in NodeNums PROVE node'[x] \in Nodes
      OBVIOUS
    <3>1. CASE x \in {n, m}
      BY <3>1, <1>7, <1>11
    <3>2. CASE x = f
      <4>1. f # 0
        BY <3>2 DEF NodeNums
      <4> QED
        BY <3>2, <4>1, <1>10, <1>11
    <3>3. CASE x \notin {n, m, f}
      BY <3>3, <1>2, <1>11
    <3> QED
      BY <3>1, <3>2, <3>3
  <2> QED
    BY <2>1, <1>9
<1>13. ASSUME NEW x \in used
       PROVE  /\ node'[x].height = node[x].height
              /\ x # n => node'[x].recs = node[x].recs /\ node'[x].FLink = node[x].FLink /\ node'[x].kind = node[x].kind
              /\ x # f /\ x # n => node'[x].BLink = node[x].BLink
              /\ x = n => node'[x].BLink = node[x].BLink
              /\ x = f => node'[x].BLink = m
  <2>1. x \in NodeNums /\ x # m /\ x # 0
    BY <1>1, <1>2 DEF NodeNums
  <2>2. CASE x = n
    BY <2>2, <1>1, <1>7, <1>8, <1>11, <2>1 DEF f
  <2>3. CASE x = f
    BY <2>1, <2>3, <1>8, <1>10, <1>11
  <2>4. CASE x \notin {n, m, f}
    BY <2>1, <2>4, <1>11
  <2> QED
    BY <2>1, <2>2, <2>3, <2>4
<1>14. used' \in SUBSET (1 .. pool') /\ used' \in SUBSET NodeNums
  BY <1>1, <1>2 DEF SplitStep
<1>15. \A x \in used : node[x].BLink = 0 => node'[x].BLink = 0
  <2> SUFFICES ASSUME NEW x \in used, node[x].BLink = 0, node'[x].BLink # 0 PROVE FALSE
    OBVIOUS
  <2>1. x = f /\ x # n
    BY <1>13
  <2>2. f # 0 /\ x \in NodeNums
    BY <2>1, <1>2 DEF NodeNums
  <2>3. t.bl[f] = node[f].BLink
    BY <2>1, <2>2, <1>3, <1>4
  <2> QED
    BY <2>1, <2>2, <2>3, <1>8
<1>16. SplitLeaves(n, en, m)
  <2>1. /\ Len(node'[n].recs) > 1 /\ Len(node'[m].recs) > 1
        /\ node'[n].FLink = m
        /\ node'[m].height = node[n].height /\ node'[m].FLink = node[n].FLink
        /\ FirstKey(node'[m]) = k
    BY <1>1, <1>7, <1>11
  <2> QED
    BY <2>1, <1>12, <1>13, <1>14, <1>15 DEF SplitLeaves, k
<1>17. /\ l.recs \in Seq(Recs) /\ Ascending(l.recs) /\ ToSet(l.recs) = {x \in S : x.key < k} /\ l.recs # <<>>
       /\ r.recs \in Seq(Recs) /\ Ascending(r.recs) /\ ToSet(r.recs) = {x \in S : k <= x.key} /\ r.recs # <<>>
  <2>1. Len(l.recs) \in Nat \ {0} /\ Len(r.recs) \in Nat \ {0}
    BY <1>7
  <2> QED
    BY <2>1, <1>7, ListsFirst DEF Lists, Before, After
<1>18. node[n].kind = IF node[n].height = 1 THEN "leaf" ELSE "index"
  BY <1>1, NodeFacts
<1>19. InShape(l) /\ InShape(r)
  BY <1>1, <1>7, <1>9, <1>17, <1>18 DEF InShape
<1>20. Stocked'
  <2> DEFINE C == {n, m, f} \cap NodeNums
  <2>1. \A x \in NodeNums \ C : node'[x] = node[x] /\ (x \in used' <=> x \in used)
    BY <1>1, <1>11
  <2>2. ASSUME NEW x \in C
        PROVE  x \in used' /\ InShape(node'[x])
    <3>1. CASE x \in {n, m}
      BY <3>1, <1>1, <1>11, <1>19
    <3>2. CASE x = f
      <4>1. f # 0 /\ f \in used /\ f # n
        BY <3>2, <1>8 DEF NodeNums
      <4>2. node'[f].kind = node[f].kind /\ node'[f].recs = node[f].recs /\ node'[f].height = node[f].height
        BY <4>1, <1>13
      <4>3. recordsFit(node'[f])
        <5>1. recordsFit(node[f])
          BY <4>1, NodeFacts
        <5>2. usedBytes(node'[f]) = usedBytes(node[f])
          BY <4>2, SameBytes
        <5> QED
          BY <5>1, <5>2 DEF recordsFit
      <4>4. Ascending(node[f].recs) /\ node[f].recs # <<>> /\ node[f].kind = IF node[f].height = 1 THEN "leaf" ELSE "index"
        BY <4>1, NodeFacts
      <4>5. InShape(node'[f])
        BY <4>2, <4>3, <4>4 DEF InShape
      <4> QED
        BY <3>2, <4>1, <4>5, <1>1
    <3> QED
      BY <3>1, <3>2
  <2> HIDE DEF C
  <2>3. \A x \in C : IF x \in used' THEN InShape(node'[x]) ELSE node'[x] = Erased
    BY <2>2
  <2> QED
    BY <2>1, <2>3, <1>14, Restocks
<1>21. /\ TreeType(u) /\ u.us = used'
       /\ \A x \in NodeNums : /\ u.ht[x] = node'[x].height
                              /\ u.rs[x] = ToSet(node'[x].recs)
                              /\ u.lo[x] = IF node'[x].recs = <<>> THEN 0 ELSE node'[x].recs[1].key
                              /\ u.fl[x] = node'[x].FLink
                              /\ u.bl[x] = node'[x].BLink
  BY <1>12, <1>14, ViewFacts
<1> HIDE DEF u
<1>22. /\ t.ht[n] = en.height /\ t.rs[n] = S /\ t.lo[n] = en.recs[1].key /\ t.fl[n] = f /\ t.bl[n] = en.BLink
  <2>1. en.recs # <<>>
    BY <1>6, <1>7
  <2> QED
    BY <2>1, <1>2, <1>3, <1>4 DEF S, f
<1>23. /\ u.ht[n] = t.ht[n] /\ u.lo[n] = t.lo[n] /\ u.bl[n] = t.bl[n] /\ u.fl[n] = m
       /\ u.rs[n] = {x \in t.rs[n] : x.key < k}
  BY <1>2, <1>7, <1>11, <1>17, <1>21, <1>22
<1>24. /\ u.ht[m] = t.ht[n] /\ u.lo[m] = k /\ u.bl[m] = n /\ u.fl[m] = t.fl[n]
       /\ u.rs[m] = {x \in t.rs[n] : k <= x.key}
  BY <1>2, <1>7, <1>11, <1>17, <1>21, <1>22 DEF FirstKey, f
<1>25. ASSUME NEW x \in used, x # n
       PROVE  /\ u.ht[x] = t.ht[x] /\ u.lo[x] = t.lo[x] /\ u.rs[x] = t.rs[x] /\ u.fl[x] = t.fl[x]
              /\ x # f => u.bl[x] = t.bl[x]
              /\ x = f => u.bl[x] = m
  <2>1. x \in NodeNums /\ e[x] = node[x]
    BY <1>2, <1>3, <1>25
  <2>2. /\ node'[x].height = e[x].height /\ node'[x].recs = e[x].recs /\ node'[x].FLink = e[x].FLink
        /\ x # f => node'[x].BLink = e[x].BLink
        /\ x = f => node'[x].BLink = m
    BY <1>13, <1>25, <2>1
  <2> QED
    BY <2>1, <2>2, <1>4, <1>21
<1>26. Cuts(t, u, n, m, k)
  <2>1. n \in t.us /\ m \in NodeNums \ t.us /\ (\E x \in t.rs[n] : x.key = k) /\ t.lo[n] < k /\ u.us = t.us \cup {m}
    BY <1>1, <1>2, <1>4, <1>7, <1>21, <1>22
  <2>2. \A x \in t.us : u.ht[x] = t.ht[x] /\ u.lo[x] = t.lo[x]
    BY <1>4, <1>23, <1>25
  <2>3. \A x \in t.us \ {n} : u.rs[x] = t.rs[x] /\ u.fl[x] = t.fl[x]
    BY <1>4, <1>25
  <2>4. t.fl[n] # 0 => u.bl[t.fl[n]] = m
    BY <1>8, <1>22, <1>25
  <2>5. \A x \in t.us \ {t.fl[n]} : u.bl[x] = t.bl[x]
    BY <1>4, <1>22, <1>23, <1>25
  <2> QED
    BY <2>1, <2>2, <2>3, <2>4, <2>5, <1>21, <1>23, <1>24 DEF Cuts
<1>27. Good(u, top, {m}, {}) /\ Holds(u, K)
  BY <1>5, <1>26, CutKeeps, CutHolds
<1>28. Tree' = u
  BY DEF Tree, u
<1> QED
  BY <1>16, <1>20, <1>27, <1>28

\* insertIntoLeaf with a split keeps the invariant.
LEMMA InsertSplitsKeeps ==
    ASSUME Kept, ~failed, ~failed', ~FromBelow, NEW k \in Keys, InsertSplits(k), pool' = pool
    PROVE  Kept'
<1> DEFINE n == HomeOf(k)
           en == WithRecord(k)
           m == NextNode
           p == descend(k)
<1>1. /\ Resting
      /\ n \in used /\ node[n].height = 1
      /\ en \in Nodes /\ en.kind = node[n].kind /\ en.height = node[n].height
      /\ en.FLink = node[n].FLink /\ en.BLink = node[n].BLink
      /\ Lists(en.recs, Tree.rs[n] \cup {LeafRec(k)}, Len(node[n].recs) + 1)
      /\ Good(View([node EXCEPT ![n] = en], used), root, {}, {})
      /\ Holds(View([node EXCEPT ![n] = en], used), contents \cup {k})
  BY InsertPlace DEF InsertSplits
<1>2. Types /\ Stocked /\ Grown /\ k \in Nat /\ pc = "idle"
  BY <1>1, KeysAssumption DEF Resting
<1>3. /\ Begin(k) /\ FreeNums # {} /\ ~recordsFit(en)
      /\ node' = Stored(node, SplitWrites(n, en, m))
      /\ used' = used \cup {m}
      /\ lastLeaf' = IF en.FLink = 0 THEN m ELSE lastLeaf
      /\ root' = root /\ firstLeaf' = firstLeaf /\ treeDepth' = treeDepth
  BY DEF InsertSplits, HomeOf, WithRecord
<1>4. /\ AllFit(SplitWrites(n, en, m))
      /\ contents' = contents \cup {k} /\ leafRecords' = leafRecords + 1
      /\ splitKey' = SplitKeyOf(en) /\ splitChild' = m
      /\ path' = p /\ childIdx' = <<>> /\ level' = Len(p) - 1
      /\ pc' = IF Len(p) = 1 THEN "growRoot" ELSE "propagate"
  BY DEF InsertSplits, HomeOf, WithRecord, Added, Return
<1>5. /\ p \in Seq(NodeNums) /\ p # <<>> /\ Len(p) = treeDepth /\ n = p[treeDepth]
      /\ treeDepth \in Nat \ {0}
  BY <1>1, <1>2, LeafFacts, RestingFacts DEF HomeOf
<1>6. Walk(p, k)
  BY <1>1, <1>2, Descent
<1>7. m \in (1 .. pool) \ used
  BY <1>2, <1>3, NextNodeFree
<1> HIDE DEF n, en, m, p
<1>8. SplitStep(n, en, m)
  <2>1. Lists(en.recs, ToSet(en.recs), Len(en.recs))
    BY <1>1 DEF Lists
  <2> QED
    BY <2>1, <1>1, <1>3, <1>4, <1>7 DEF SplitStep
<1>9. /\ SplitLeaves(n, en, m) /\ Stocked'
      /\ Good(Tree', root, {m}, {}) /\ Holds(Tree', contents \cup {k})
  BY <1>1, <1>2, <1>8, SplitKeeps
<1>10. /\ used' \in SUBSET (1 .. pool') /\ used' \in SUBSET NodeNums
       /\ node' \in [NodeNums -> Nodes]
       /\ \A x \in used : /\ node'[x].height = node[x].height
                          /\ x # n => node'[x].recs = node[x].recs /\ node'[x].FLink = node[x].FLink
                          /\ node[x].BLink = 0 => node'[x].BLink = 0
       /\ Len(node'[n].recs) > 1 /\ Len(node'[m].recs) > 1
       /\ node'[n].FLink = m
       /\ node'[m].height = node[n].height /\ node'[m].FLink = node[n].FLink
       /\ FirstKey(node'[m]) = SplitKeyOf(en)
  BY <1>9 DEF SplitLeaves
<1>11. m \in NodeNums /\ m \in 0 .. MaxNode
  BY <1>3, <1>10 DEF NodeNums
<1>12. Types'
  <2>1. /\ contents' \in SUBSET Keys /\ IsFiniteSet(contents')
        /\ leafRecords' = Cardinality(contents')
    BY <1>2, <1>3, <1>4, OneMore DEF Begin
  <2>2. path' \in Seq(NodeNums) /\ childIdx' \in Seq(Nat) /\ level' \in Nat
    BY <1>4, <1>5
  <2>3. {root', firstLeaf', lastLeaf'} \subseteq 0 .. MaxNode /\ treeDepth' \in Nat /\ pool' \in Pools
    BY <1>2, <1>3, <1>11 DEF Types
  <2>4. pc' \in {"idle", "propagate", "growRoot", "updateKey", "rebalance", "shrink"}
    BY <1>4
  <2> QED
    BY <2>1, <2>2, <2>3, <2>4, <1>10 DEF Types
<1>13. Splitting' /\ Orphans' = {m} /\ Stale' = {} /\ Thin' = {} /\ Thin = {}
  BY <1>2, <1>4 DEF Splitting, Orphans, Stale, Thin
<1>14. Wide'
  <2>1. Wide
    BY <1>2 DEF Grown
  <2>2. ASSUME NEW x \in used'
        PROVE  Len(node'[x].recs) > 1 \/ (x = root /\ treeDepth = 1)
    <3>1. CASE x \in {n, m}
      BY <3>1, <1>10
    <3>2. CASE x \notin {n, m}
      <4>1. x \in used /\ node'[x].recs = node[x].recs
        BY <3>2, <1>3, <1>10
      <4> QED
        BY <4>1, <2>1, <1>13 DEF Wide
    <3> QED
      BY <3>1, <3>2
  <2> QED
    BY <2>2, <1>3, <1>13 DEF Wide
<1>15. Ends'
  <2>1. /\ firstLeaf \in used /\ node[firstLeaf].height = 1 /\ node[firstLeaf].BLink = 0
        /\ lastLeaf \in used /\ node[lastLeaf].height = 1 /\ node[lastLeaf].FLink = 0
    BY <1>2 DEF Grown, Ends
  <2>2. firstLeaf' \in used' /\ node'[firstLeaf'].height = 1 /\ node'[firstLeaf'].BLink = 0
    BY <2>1, <1>3, <1>10
  <2>3. CASE en.FLink = 0
    BY <2>2, <2>3, <1>1, <1>3, <1>10 DEF Ends
  <2>4. CASE en.FLink # 0
    <3>1. lastLeaf # n
      BY <2>1, <2>4, <1>1
    <3> QED
      BY <3>1, <2>1, <2>2, <2>4, <1>3, <1>10 DEF Ends
  <2> QED
    BY <2>3, <2>4
<1>16. ASSUME NEW i \in 1 .. level'
       PROVE  /\ path'[i] \in used' /\ path'[i + 1] \in used'
              /\ node'[path'[i]].height = treeDepth' + 1 - i
              /\ \E r \in ToSet(node'[path'[i]].recs) : r.child = path'[i + 1]
  <2>1. i \in 1 .. Len(p) - 1 /\ i \in 1 .. Len(p) /\ i + 1 \in 1 .. Len(p) /\ i < treeDepth /\ i \in Nat
    BY <1>4, <1>5
  <2>2. /\ On(Tree, p[i], k) /\ node[p[i]].height = treeDepth + 1 - i
        /\ On(Tree, p[i + 1], k)
        /\ node[p[i]].recs[ChosenIdx(node[p[i]], k)].child = p[i + 1]
    BY <2>1, <1>6 DEF Walk
  <2>3. p[i] \in used /\ p[i + 1] \in used
    <3>1. Tree.us = used
      BY <1>1, <1>2, NodeFacts
    <3> QED
      BY <3>1, <2>2 DEF On
  <2>4. p[i] # n
    BY <2>1, <2>2, <1>1, <1>5
  <2>5. /\ node[p[i]].recs \in Seq(Recs) /\ Ascending(node[p[i]].recs) /\ node[p[i]].recs # <<>>
    BY <2>3, <1>2, NodeFacts
  <2>6. ChosenIdx(node[p[i]], k) \in 1 .. Len(node[p[i]].recs)
    BY <2>5, <1>2, ChosenFacts
  <2>7. \E r \in ToSet(node[p[i]].recs) : r.child = p[i + 1]
    BY <2>2, <2>5, <2>6, KeyNumbers
  <2>8. node'[p[i]].recs = node[p[i]].recs /\ node'[p[i]].height = node[p[i]].height
    BY <2>3, <2>4, <1>10
  <2> QED
    BY <2>2, <2>3, <2>7, <2>8, <1>3, <1>4
<1>17. Placed'
  <2>1. level' = treeDepth - 1 /\ level' + 1 = treeDepth /\ treeDepth' - level' = 1 /\ level' < Len(path')
    BY <1>3, <1>4, <1>5
  <2>2. path' # <<>> /\ path'[1] = root'
    BY <1>3, <1>4, <1>6 DEF Walk
  <2>3. Climbs(level)'
    BY <2>1, <2>2, <1>16 DEF Climbs
  <2>4. (level' = 0) = (pc' = "growRoot")
    BY <1>4, <1>5
  <2>5. path'[level' + 1] = n
    BY <2>1, <1>4, <1>5
  <2>6. /\ splitChild' \in used' /\ node'[splitChild'].height = treeDepth' - level'
        /\ node'[path'[level' + 1]].height = treeDepth' - level'
        /\ path'[level' + 1] \in used'
        /\ splitKey' = FirstKey(node'[splitChild'])
        /\ node'[path'[level' + 1]].FLink = splitChild'
        /\ Len(node'[path'[level' + 1]].recs) > 1
    BY <2>1, <2>5, <1>1, <1>3, <1>4, <1>10
  <2>7. pc' # "updateKey" /\ pc' # "rebalance"
    BY <1>4
  <2> QED
    BY <2>3, <2>4, <2>6, <2>7 DEF Placed, FirstKey
<1>18. root' \in used' /\ treeDepth' = node'[root'].height
  BY <1>2, <1>3, <1>10 DEF Grown
<1>19. Good(Tree', root', Orphans', Stale') /\ Holds(Tree', contents')
  BY <1>3, <1>4, <1>9, <1>13
<1>20. Grown'
  BY <1>14, <1>15, <1>17, <1>18, <1>19 DEF Grown
<1> QED
  BY <1>9, <1>12, <1>20 DEF Kept

\* Where the index record of an orphan belongs: in the parent of the node
\* before it.
Due(t, top, o, n) ==
    /\ t.lo[n] < t.lo[o]
    /\ \A s \in t.rs[n] : s.key # t.lo[o]
    /\ \A x \in Peers(t, n) : t.lo[n] < t.lo[x] => t.lo[o] < t.lo[x]
    /\ t.ht[n] = t.ht[o] + 1
    /\ o # top

\* Where the orphan's index record belongs.
LEMMA OrphanPlace ==
    ASSUME NEW t, NEW top, NEW o, Good(t, top, {o}, {}), NEW n \in t.us, t.ht[n] > 1,
           NEW rc \in t.rs[n], t.fl[rc.child] = o, o \in t.us
    PROVE  Due(t, top, o, n)
<1> DEFINE c == rc.child
           os == {o}
<1>0. Good(t, top, os, {}) /\ o \in os
  OBVIOUS
<1> HIDE DEF os
<1>1. /\ 0 \notin t.us
      /\ \A x \in t.us : t.lo[x] \in Nat /\ t.ht[x] \in Nat
      /\ \A x \in t.us : \A s \in t.rs[x] : s.key \in Nat
  BY <1>0, TreeNumbers DEF Good
<1>2. ASSUME NEW x \in t.us, t.ht[x] > 1, NEW s \in t.rs[x]
      PROVE  s.child \in t.us /\ t.ht[x] = t.ht[s.child] + 1 /\ s.key = t.lo[s.child] /\ s.child # o
             /\ t.lo[x] <= s.key
  BY <1>0, <1>2 DEF Good, Indexed, Owned, Filled
<1>3. c \in t.us /\ t.ht[n] = t.ht[c] + 1 /\ rc.key = t.lo[c] /\ t.lo[n] <= rc.key
  BY <1>2
<1>4. /\ o \in Peers(t, c) /\ t.lo[c] < t.lo[o]
      /\ \A x \in Peers(t, c) : t.lo[c] < t.lo[x] => t.lo[o] <= t.lo[x]
  BY <1>0, <1>1, <1>3 DEF Good, Linked
<1>5. t.ht[o] = t.ht[c]
  BY <1>4 DEF Peers
<1>6. ASSUME NEW x \in t.us, t.ht[x] = t.ht[o], x # o
      PROVE  t.lo[x] # t.lo[o]
  <2>1. o \in Peers(t, x)
    BY <1>6 DEF Peers
  <2> QED
    BY <2>1, <1>0 DEF Good, Apart
<1>7. ASSUME NEW s \in t.rs[n]
      PROVE  s.key # t.lo[o]
  <2>1. s.child \in t.us /\ t.ht[n] = t.ht[s.child] + 1 /\ s.key = t.lo[s.child] /\ s.child # o
    BY <1>2
  <2>2. t.ht[s.child] = t.ht[o]
    BY <2>1, <1>1, <1>3, <1>5
  <2> QED
    BY <2>1, <2>2, <1>6
<1>8. ASSUME NEW x \in Peers(t, n), t.lo[n] < t.lo[x]
      PROVE  t.lo[o] < t.lo[x]
  <2>1. x \in t.us /\ t.ht[x] = t.ht[n]
    BY DEF Peers
  <2>2. PICK s \in t.rs[x] : s.key = t.lo[x]
    BY <2>1, <1>0 DEF Good, Filled
  <2> DEFINE d == s.child
  <2>3. d \in t.us /\ t.ht[x] = t.ht[d] + 1 /\ t.lo[x] = t.lo[d] /\ d # o
    BY <2>1, <2>2, <1>2
  <2>4. rc.key < t.lo[x]
    BY <1>0, <1>8 DEF Good, Apart
  <2>5. t.ht[d] = t.ht[c] /\ d # c
    <3>1. t.ht[d] \in Nat /\ t.ht[c] \in Nat /\ t.lo[d] \in Nat /\ t.lo[c] \in Nat
      BY <2>3, <1>1, <1>3
    <3>2. t.ht[d] + 1 = t.ht[c] + 1
      BY <2>1, <2>3, <1>3
    <3>3. t.ht[d] = t.ht[c]
      BY <3>1, <3>2
    <3>4. t.lo[c] < t.lo[d]
      BY <2>3, <2>4, <1>3
    <3>5. t.lo[c] # t.lo[d]
      BY <3>1, <3>4
    <3> QED
      BY <3>3, <3>5
  <2>6. d \in Peers(t, c)
    BY <2>3, <2>5 DEF Peers
  <2>7. t.lo[o] <= t.lo[d]
    BY <2>3, <2>4, <2>6, <1>3, <1>4
  <2>8. t.lo[d] # t.lo[o]
    BY <2>3, <2>5, <1>5, <1>6
  <2> QED
    BY <2>3, <2>7, <2>8, <1>1
<1>9. t.lo[n] < t.lo[o]
  BY <1>1, <1>3, <1>4
<1>10. t.ht[n] = t.ht[o] + 1
  BY <1>3, <1>5
<1>11. o # top
  <2>1. t.ht[n] <= t.ht[top]
    BY <1>0 DEF Good, Topped
  <2> QED
    BY <2>1, <1>1, <1>10
<1> QED
  BY <1>7, <1>8, <1>9, <1>10, <1>11 DEF Due

\* What the step up finds.
PropagateReady ==
    /\ level \in Nat \ {0} /\ level < Len(path)
    /\ path[level] \in used /\ node[path[level]].height = treeDepth + 1 - level
    /\ node[path[level]].height > 1
    /\ Len(node[path[level]].recs) \in Nat \ {0}
    /\ WithSplit \in Nodes
    /\ WithSplit.kind = node[path[level]].kind
    /\ WithSplit.height = node[path[level]].height
    /\ WithSplit.FLink = node[path[level]].FLink
    /\ WithSplit.BLink = node[path[level]].BLink
    /\ Lists(WithSplit.recs, ToSet(WithSplit.recs), Len(node[path[level]].recs) + 1)
    /\ Good(View([node EXCEPT ![path[level]] = WithSplit], used), root, {}, {})
    /\ Holds(View([node EXCEPT ![path[level]] = WithSplit], used), contents)

\* The node propagateSplit reaches is the one the orphan belongs under.
LEMMA PropagatePlace ==
    ASSUME Kept, pc = "propagate"
    PROVE  PropagateReady
<1> DEFINE n == path[level]
           c == path[level + 1]
           o == splitChild
           s == node[n].recs
           r == indexRecord(splitKey, splitChild)
           en == WithSplit
<1>1. Types /\ Stocked /\ Grown /\ Splitting /\ Orphans = {o} /\ Stale = {}
  BY DEF Kept, Bare, Splitting, Orphans, Stale
<1>2. /\ Climbs(level) /\ level # 0
      /\ o \in used /\ node[o].height = treeDepth - level
      /\ c \in used /\ node[c].height = treeDepth - level
      /\ splitKey = FirstKey(node[o])
      /\ node[c].FLink = o
  BY <1>1 DEF Grown, Placed
<1>3. level \in Nat \ {0} /\ level \in 1 .. level /\ treeDepth \in Nat
  BY <1>1, <1>2 DEF Types
<1>4. /\ level < Len(path)
      /\ n \in used /\ node[n].height = treeDepth + 1 - level
      /\ \E x \in ToSet(s) : x.child = c
  BY <1>2, <1>3 DEF Climbs
<1>5. Good(Tree, root, {o}, {}) /\ Holds(Tree, contents)
  BY <1>1 DEF Grown
<1> HIDE DEF n, c, o
<1>6. /\ n \in NodeNums /\ node[n] \in Nodes /\ s \in Seq(Recs) /\ Len(s) \in Nat \ {0} /\ s # <<>>
      /\ Tree.us = used /\ Tree.ht[n] = node[n].height /\ Tree.lo[n] = s[1].key /\ Tree.rs[n] = ToSet(s)
      /\ Lists(s, Tree.rs[n], Len(s)) /\ node[n].height \in Nat
  BY <1>1, <1>4, NodeFacts, NodeLists DEF Nodes
<1>7. /\ Tree.ht[o] = node[o].height /\ Tree.lo[o] = splitKey /\ o \in NodeNums
      /\ node[o].height \in Nat /\ node[o].recs[1] \in Recs
  <2>1. node[o].recs \in Seq(Recs) /\ Len(node[o].recs) \in Nat \ {0} /\ node[o] \in Nodes
    BY <1>1, <1>2, NodeFacts
  <2>2. node[o].recs[1] \in Recs /\ node[o].height \in Nat
    BY <2>1, KeyNumbers DEF Nodes
  <2> QED
    BY <2>2, <1>1, <1>2, NodeFacts DEF FirstKey
<1>8. Tree.fl[c] = o /\ Tree.ht[o] > 0
  <2>1. Tree.ht[o] > 0
    BY <1>2, <1>5, <1>6 DEF Good, Filled
  <2> QED
    BY <2>1, <1>1, <1>2, NodeFacts
<1>9. Tree.ht[n] > 1
  BY <1>2, <1>3, <1>4, <1>6, <1>7, <1>8
<1>10. PICK rc \in Tree.rs[n] : rc.child = c
  BY <1>4, <1>6
<1>11. /\ Tree.lo[n] < Tree.lo[o]
       /\ \A x \in Tree.rs[n] : x.key # Tree.lo[o]
       /\ \A x \in Peers(Tree, n) : Tree.lo[n] < Tree.lo[x] => Tree.lo[o] < Tree.lo[x]
       /\ Tree.ht[n] = Tree.ht[o] + 1
       /\ o # root
  <2>1. n \in Tree.us /\ o \in Tree.us /\ Tree.fl[rc.child] = o
    BY <1>2, <1>4, <1>6, <1>8, <1>10
  <2>2. Due(Tree, root, o, n)
    BY <2>1, <1>5, <1>9, OrphanPlace
  <2> QED
    BY <2>2 DEF Due
<1>12. r \in Recs /\ r.key = Tree.lo[o] /\ r.child = o
  <2>1. splitKey \in Keys
    BY <1>2, <1>7 DEF FirstKey, Recs
  <2>2. o \in 0 .. MaxNode
    BY <1>7 DEF NodeNums
  <2> QED
    BY <2>1, <2>2, <1>7 DEF indexRecord, Recs, o
<1> HIDE DEF r
<1> DEFINE q == insertSorted(s, r)
<1>13. Lists(q, Tree.rs[n] \cup {r}, Len(s) + 1) /\ q[1] = s[1]
  BY <1>6, <1>11, <1>12, InsertLists
<1>14. en = [node[n] EXCEPT !.recs = q]
  BY DEF WithSplit, n, r
<1> HIDE DEF q, en
<1>15. q \in Seq(Recs)
  BY <1>13 DEF Lists
<1>16. /\ en \in Nodes /\ en.recs = q /\ en.kind = node[n].kind /\ en.height = node[n].height
       /\ en.FLink = node[n].FLink /\ en.BLink = node[n].BLink
  BY <1>6, <1>14, <1>15 DEF Nodes
<1>17. node \in [NodeNums -> Nodes] /\ used \in SUBSET NodeNums /\ contents \in SUBSET Nat
  BY <1>1, MaxNodeAssumption, KeysAssumption DEF Types, NodeNums
<1> DEFINE u == View([node EXCEPT ![n] = en], used)
<1>18. Comes(Tree, u, n, r)
  <2> DEFINE d == Len(s) + 1
  <2>1. d \in Nat \ {0}
    BY <1>6
  <2>2. Lists(en.recs, ToSet(s) \cup {r}, d) /\ en.recs[1] = s[1]
    BY <1>6, <1>13, <1>16
  <2>3. s[1].key < r.key /\ \A x \in ToSet(s) : x.key # r.key
    BY <1>6, <1>11, <1>12
  <2>4. \A x \in Peers(Tree, n) : Tree.lo[n] < Tree.lo[x] => r.key < Tree.lo[x]
    BY <1>11, <1>12
  <2> HIDE DEF d
  <2> QED
    BY <2>1, <2>2, <2>3, <2>4, <1>4, <1>6, <1>12, <1>16, <1>17, ComesView DEF Tree
<1> HIDE DEF u
<1>19. Good(u, root, {}, {})
  <2>1. Good(Tree, root, {r.child}, {}) /\ r.child \in Tree.us /\ r.child # root
        /\ r.key = Tree.lo[r.child] /\ Tree.ht[n] = Tree.ht[r.child] + 1
    BY <1>2, <1>5, <1>6, <1>11, <1>12
  <2> QED
    BY <2>1, <1>18, OrphanComes
<1>20. Holds(u, contents)
  <2> DEFINE os == {o}
  <2>1. Good(Tree, root, os, {})
    BY <1>5
  <2> HIDE DEF os
  <2>2. Tree.ht[n] # 1
    BY <1>9
  <2> QED
    BY <2>1, <2>2, <1>5, <1>17, <1>18, ComeHolds
<1>21. Lists(en.recs, ToSet(en.recs), Len(s) + 1)
  BY <1>13, <1>16 DEF Lists
<1> QED
  BY <1>3, <1>4, <1>6, <1>9, <1>16, <1>19, <1>20, <1>21 DEF PropagateReady, n, en, u

\* A node has new records; the operation returns.
Returns0 ==
    pc' = "idle" /\ path' = <<>> /\ childIdx' = <<>> /\ level' = 0 /\ splitKey' = 0 /\ splitChild' = 0

\* The state an operation leaves when it returns.
LEMMA ReturnIs ==
    ASSUME NEW ok, Return(ok)
    PROVE  Returns0 /\ (~failed' => ok)
BY DEF Return, NoLocals, Returns0

\* What is left to show of an operation that returns.
LEMMA ReturnKeeps ==
    ASSUME Returns0, Types, pool' = pool,
           node' \in [NodeNums -> Nodes], used' \in SUBSET (1 .. pool),
           root' \in 0 .. MaxNode, firstLeaf' \in 0 .. MaxNode, lastLeaf' \in 0 .. MaxNode, treeDepth' \in Nat,
           contents' \in SUBSET Keys, IsFiniteSet(contents'), leafRecords' = Cardinality(contents'),
           Stocked', root' \in used', treeDepth' = node'[root'].height,
           Good(Tree', root', {}, {}), Holds(Tree', contents'), Ends',
           \A m \in used' : Len(node'[m].recs) > 1 \/ (m = root' /\ treeDepth' = 1)
    PROVE  Kept'
<1>1. Types'
  <2>1. path' \in Seq(NodeNums) /\ childIdx' \in Seq(Nat) /\ level' \in Nat
    BY DEF Returns0
  <2> QED
    BY <2>1 DEF Types, Returns0
<1>2. Orphans' = {} /\ Stale' = {} /\ Thin' = {}
  BY DEF Orphans, Stale, Thin, Splitting, Returns0
<1>3. Wide'
  BY <1>2 DEF Wide
<1>4. Placed'
  BY DEF Placed, Splitting, Returns0
<1>5. Grown'
  BY <1>2, <1>3, <1>4 DEF Grown
<1> QED
  BY <1>1, <1>5 DEF Kept

\* propagateSplit keeps the invariant when the index record fits.
LEMMA PropagateFitsKeeps ==
    ASSUME Kept, PropagateFits, pool' = pool
    PROVE  Kept'
<1> DEFINE n == path[level]
           en == WithSplit
<1>1. Types /\ Stocked /\ Grown
  BY DEF Kept, Bare, PropagateFits
<1>2. /\ n \in used
      /\ Len(node[n].recs) \in Nat \ {0}
      /\ en \in Nodes /\ en.kind = node[n].kind /\ en.height = node[n].height
      /\ en.FLink = node[n].FLink /\ en.BLink = node[n].BLink
      /\ Lists(en.recs, ToSet(en.recs), Len(node[n].recs) + 1)
      /\ Good(View([node EXCEPT ![n] = en], used), root, {}, {})
      /\ Holds(View([node EXCEPT ![n] = en], used), contents)
  BY PropagatePlace DEF PropagateFits, PropagateReady
<1>3. /\ recordsFit(en) /\ node' = [node EXCEPT ![n] = en]
      /\ used' = used /\ root' = root /\ firstLeaf' = firstLeaf /\ lastLeaf' = lastLeaf
      /\ treeDepth' = treeDepth /\ leafRecords' = leafRecords /\ contents' = contents
  BY DEF PropagateFits, header
<1>4. Returns0
  BY ReturnIs DEF PropagateFits
<1> HIDE DEF n, en
<1>5. n \in NodeNums /\ used \in SUBSET NodeNums /\ node \in [NodeNums -> Nodes] /\ used \in SUBSET (1 .. pool)
  BY <1>1, <1>2, NodeFacts, MaxNodeAssumption DEF Types, NodeNums
<1>6. node' \in [NodeNums -> Nodes] /\ node'[n] = en /\ \A m \in NodeNums \ {n} : node'[m] = node[m]
  BY <1>2, <1>3, <1>5
<1>7. node[n].kind = IF node[n].height = 1 THEN "leaf" ELSE "index"
  BY <1>1, <1>2, NodeFacts
<1>8. /\ en.recs \in Seq(Recs) /\ Ascending(en.recs) /\ Len(en.recs) = Len(node[n].recs) + 1
      /\ en.recs # <<>>
  <2>1. Len(node[n].recs) + 1 \in Nat \ {0}
    BY <1>2
  <2> QED
    BY <2>1, <1>2, ListsFirst DEF Lists
<1>9. InShape(en)
  BY <1>2, <1>3, <1>7, <1>8 DEF InShape
<1>10. Stocked'
  <2> DEFINE C == {n}
  <2>1. /\ \A m \in NodeNums \ C : node'[m] = node[m] /\ (m \in used' <=> m \in used)
        /\ \A m \in C : IF m \in used' THEN InShape(node'[m]) ELSE node'[m] = Erased
        /\ used' \in SUBSET NodeNums
    BY <1>2, <1>3, <1>5, <1>6, <1>9
  <2> HIDE DEF C
  <2> QED
    BY <2>1, <1>1, Restocks
<1>11. Good(Tree', root', {}, {}) /\ Holds(Tree', contents')
  BY <1>2, <1>3 DEF Tree
<1>12. Thin = {}
  BY DEF Thin, PropagateFits
<1>13. ASSUME NEW m \in used'
       PROVE  Len(node'[m].recs) > 1 \/ (m = root' /\ treeDepth' = 1)
  <2>1. CASE m = n
    BY <2>1, <1>2, <1>6, <1>8
  <2>2. CASE m # n
    BY <2>2, <1>1, <1>3, <1>5, <1>6, <1>12 DEF Grown, Wide
  <2> QED
    BY <2>1, <2>2
<1>14. \A m \in used : /\ node'[m].height = node[m].height
                       /\ node'[m].FLink = node[m].FLink /\ node'[m].BLink = node[m].BLink
  BY <1>2, <1>5, <1>6
<1>15. Ends'
  BY <1>1, <1>3, <1>14 DEF Grown, Ends
<1>17. root' \in used' /\ treeDepth' = node'[root'].height
  BY <1>1, <1>3, <1>14 DEF Grown
<1>18. /\ used' \in SUBSET (1 .. pool)
       /\ root' \in 0 .. MaxNode /\ firstLeaf' \in 0 .. MaxNode /\ lastLeaf' \in 0 .. MaxNode
       /\ treeDepth' \in Nat /\ contents' \in SUBSET Keys /\ IsFiniteSet(contents')
       /\ leafRecords' = Cardinality(contents')
  BY <1>1, <1>3 DEF Types
<1> QED
  BY <1>1, <1>4, <1>6, <1>10, <1>11, <1>13, <1>15, <1>17, <1>18, ReturnKeeps

\* propagateSplit keeps it when splitIndex is needed.
LEMMA PropagateSplitsKeeps ==
    ASSUME Kept, ~failed', PropagateSplits, pool' = pool
    PROVE  Kept'
<1> DEFINE n == path[level]
           en == WithSplit
           m == NextNode
<1>1. Types /\ Stocked /\ Grown /\ pc = "propagate" /\ Splitting
  BY DEF Kept, Bare, PropagateSplits, Splitting
<1>2. /\ level \in Nat \ {0} /\ level < Len(path)
      /\ n \in used
      /\ node[n].height = treeDepth + 1 - level /\ node[n].height > 1
      /\ Len(node[n].recs) \in Nat \ {0}
      /\ en \in Nodes /\ en.kind = node[n].kind /\ en.height = node[n].height
      /\ en.FLink = node[n].FLink /\ en.BLink = node[n].BLink
      /\ Lists(en.recs, ToSet(en.recs), Len(node[n].recs) + 1)
      /\ Good(View([node EXCEPT ![n] = en], used), root, {}, {})
      /\ Holds(View([node EXCEPT ![n] = en], used), contents)
  BY <1>1, PropagatePlace DEF PropagateReady
<1>3. /\ FreeNums # {} /\ ~recordsFit(en)
      /\ node' = Stored(node, SplitWrites(n, en, m))
      /\ used' = used \cup {m}
      /\ root' = root /\ firstLeaf' = firstLeaf /\ lastLeaf' = lastLeaf
      /\ treeDepth' = treeDepth /\ leafRecords' = leafRecords /\ contents' = contents
  BY DEF PropagateSplits, header
<1>4. /\ AllFit(SplitWrites(n, en, m))
      /\ splitKey' = SplitKeyOf(en) /\ splitChild' = m
      /\ path' = path /\ childIdx' = childIdx /\ level' = level - 1
      /\ pc' = IF level = 1 THEN "growRoot" ELSE "propagate"
  BY DEF PropagateSplits, Return
<1>7. m \in (1 .. pool) \ used
  BY <1>1, <1>3, NextNodeFree
<1> HIDE DEF n, en, m
<1>8. SplitStep(n, en, m)
  <2>1. Lists(en.recs, ToSet(en.recs), Len(en.recs))
    BY <1>2 DEF Lists
  <2> QED
    BY <2>1, <1>2, <1>3, <1>4, <1>7 DEF SplitStep
<1>9. /\ SplitLeaves(n, en, m) /\ Stocked'
      /\ Good(Tree', root, {m}, {}) /\ Holds(Tree', contents)
  BY <1>1, <1>2, <1>8, SplitKeeps
<1>10. /\ used' \in SUBSET (1 .. pool') /\ used' \in SUBSET NodeNums
       /\ node' \in [NodeNums -> Nodes]
       /\ \A x \in used : /\ node'[x].height = node[x].height
                          /\ x # n => node'[x].recs = node[x].recs /\ node'[x].FLink = node[x].FLink
                          /\ node[x].BLink = 0 => node'[x].BLink = 0
       /\ Len(node'[n].recs) > 1 /\ Len(node'[m].recs) > 1
       /\ node'[n].FLink = m
       /\ node'[m].height = node[n].height /\ node'[m].FLink = node[n].FLink
       /\ FirstKey(node'[m]) = SplitKeyOf(en)
  BY <1>9 DEF SplitLeaves
<1>12. Types'
  <2>1. path' \in Seq(NodeNums) /\ childIdx' \in Seq(Nat) /\ level' \in Nat
    BY <1>1, <1>2, <1>4 DEF Types
  <2>2. pc' \in {"idle", "propagate", "growRoot", "updateKey", "rebalance", "shrink"}
    BY <1>4
  <2> QED
    BY <2>1, <2>2, <1>1, <1>3, <1>10 DEF Types
<1>13. Splitting' /\ Orphans' = {m} /\ Stale' = {} /\ Thin' = {} /\ Thin = {}
  BY <1>1, <1>4 DEF Splitting, Orphans, Stale, Thin
<1>14. Wide'
  <2>1. Wide
    BY <1>1 DEF Grown
  <2>2. ASSUME NEW x \in used'
        PROVE  Len(node'[x].recs) > 1 \/ (x = root /\ treeDepth = 1)
    <3>1. CASE x \in {n, m}
      BY <3>1, <1>10
    <3>2. CASE x \notin {n, m}
      <4>1. x \in used /\ node'[x].recs = node[x].recs
        BY <3>2, <1>3, <1>10
      <4> QED
        BY <4>1, <2>1, <1>13 DEF Wide
    <3> QED
      BY <3>1, <3>2
  <2> QED
    BY <2>2, <1>3, <1>13 DEF Wide
<1>15. Ends'
  <2>1. /\ firstLeaf \in used /\ node[firstLeaf].height = 1 /\ node[firstLeaf].BLink = 0
        /\ lastLeaf \in used /\ node[lastLeaf].height = 1 /\ node[lastLeaf].FLink = 0
    BY <1>1 DEF Grown, Ends
  <2>2. lastLeaf # n
    BY <2>1, <1>2
  <2> QED
    BY <2>1, <2>2, <1>3, <1>10 DEF Ends
<1>16. /\ path # <<>> /\ path[1] = root
       /\ \A i \in 1 .. level :
             /\ path[i] \in used /\ path[i + 1] \in used
             /\ node[path[i]].height = treeDepth + 1 - i
             /\ \E r \in ToSet(node[path[i]].recs) : r.child = path[i + 1]
  BY <1>1 DEF Grown, Placed, Climbs
<1>17. ASSUME NEW i \in 1 .. level - 1
       PROVE  /\ path[i] \in used' /\ path[i + 1] \in used'
              /\ node'[path[i]].height = treeDepth + 1 - i
              /\ \E r \in ToSet(node'[path[i]].recs) : r.child = path[i + 1]
  <2>1. i \in 1 .. level /\ i \in Nat /\ i < level /\ level \in Nat /\ treeDepth \in Nat
    BY <1>1, <1>2 DEF Types
  <2>2. /\ path[i] \in used /\ path[i + 1] \in used
        /\ node[path[i]].height = treeDepth + 1 - i
        /\ \E r \in ToSet(node[path[i]].recs) : r.child = path[i + 1]
    BY <2>1, <1>16
  <2>3. path[i] # n
    BY <2>1, <2>2, <1>2
  <2>4. node'[path[i]].recs = node[path[i]].recs /\ node'[path[i]].height = node[path[i]].height
    BY <2>2, <2>3, <1>10
  <2> QED
    BY <2>2, <2>4, <1>3
<1>18. Placed'
  <2>1. level' = level - 1 /\ level' + 1 = level /\ treeDepth' - level' = treeDepth + 1 - level
        /\ level' < Len(path')
    BY <1>1, <1>2, <1>3, <1>4 DEF Types
  <2>3. Climbs(level)'
    BY <2>1, <1>3, <1>4, <1>16, <1>17 DEF Climbs
  <2>4. (level' = 0) = (pc' = "growRoot")
    BY <1>2, <1>4
  <2>5. path'[level' + 1] = n
    BY <2>1, <1>4 DEF n
  <2>6. /\ splitChild' \in used' /\ node'[splitChild'].height = treeDepth' - level'
        /\ node'[path'[level' + 1]].height = treeDepth' - level'
        /\ path'[level' + 1] \in used'
        /\ splitKey' = FirstKey(node'[splitChild'])
        /\ node'[path'[level' + 1]].FLink = splitChild'
        /\ Len(node'[path'[level' + 1]].recs) > 1
    BY <2>1, <2>5, <1>2, <1>3, <1>4, <1>10
  <2>7. pc' # "updateKey" /\ pc' # "rebalance"
    BY <1>4
  <2> QED
    BY <2>3, <2>4, <2>6, <2>7 DEF Placed, FirstKey
<1>19. root' \in used' /\ treeDepth' = node'[root'].height
  BY <1>1, <1>3, <1>10 DEF Grown
<1>20. Good(Tree', root', Orphans', Stale') /\ Holds(Tree', contents')
  BY <1>3, <1>9, <1>13
<1>21. Grown'
  BY <1>14, <1>15, <1>18, <1>19, <1>20 DEF Grown
<1> QED
  BY <1>9, <1>12, <1>21 DEF Kept

\* A listing of two records.
LEMMA TwoLists ==
    ASSUME NEW r \in Recs, NEW s \in Recs, r.key < s.key
    PROVE  Lists(<<r, s>>, {r, s}, 2)
<1> DEFINE q == <<r, s>>
<1>1. q \in Seq(Recs) /\ Len(q) = 2 /\ DOMAIN q = {1, 2} /\ q[1] = r /\ q[2] = s
  OBVIOUS
<1> HIDE DEF q
<1>2. Ascending(q)
  BY <1>1 DEF Ascending
<1>3. ToSet(q) = {r, s}
  BY <1>1 DEF ToSet
<1> QED
  BY <1>1, <1>2, <1>3 DEF Lists, q

\* The node growRoot builds.
LEMMA NewRootIs ==
    ASSUME NEW h, NEW q
    PROVE  [Erased EXCEPT !.height = h, !.recs = q]
             = [kind |-> "index", height |-> h, recs |-> q, FLink |-> 0, BLink |-> 0]
<1>1. PICK z : z = <<>>
  OBVIOUS
<1>2. PICK e : e = Erased
  OBVIOUS
<1>3. e = [kind |-> "index", height |-> 0, recs |-> z, FLink |-> 0, BLink |-> 0]
  BY <1>1, <1>2 DEF Erased
<1>4. [e EXCEPT !.height = h, !.recs = q]
        = [kind |-> "index", height |-> h, recs |-> q, FLink |-> 0, BLink |-> 0]
  <2>1. PICK f : f = [e EXCEPT !.height = h]
    OBVIOUS
  <2>2. f = [kind |-> "index", height |-> h, recs |-> z, FLink |-> 0, BLink |-> 0]
    BY <2>1, <1>3
  <2>3. [f EXCEPT !.recs = q] = [kind |-> "index", height |-> h, recs |-> q, FLink |-> 0, BLink |-> 0]
    BY <2>2
  <2> QED
    BY <2>1, <2>3, Zenon
<1> QED
  BY <1>2, <1>4, Zenon

\* growRoot keeps the invariant.
LEMMA GrowRootKeeps ==
    ASSUME Kept, GrowRoot, pool' = pool
    PROVE  Kept'
<1> DEFINE m == NextNode
           c == splitChild
           a == indexRecord(FirstKey(node[root]), root)
           b == indexRecord(splitKey, c)
           q == <<a, b>>
           nr == [Erased EXCEPT !.height = treeDepth + 1, !.recs = q]
<1>1. Types /\ Stocked /\ Grown /\ pc = "growRoot" /\ Splitting /\ Orphans = {c} /\ Stale = {}
  BY DEF Kept, Bare, GrowRoot, Splitting, Orphans, Stale
<1>2. /\ Climbs(0) /\ level = 0
      /\ c \in used /\ node[c].height = treeDepth - 0
      /\ splitKey = FirstKey(node[c])
      /\ node[path[0 + 1]].FLink = c
      /\ Len(node[path[0 + 1]].recs) > 1
  BY <1>1 DEF Grown, Placed
<1>3. path[1] = root /\ treeDepth \in Nat /\ root \in used /\ treeDepth = node[root].height
  BY <1>1, <1>2 DEF Climbs, Types, Grown
<1>4. node[c].height = treeDepth /\ node[root].FLink = c /\ Len(node[root].recs) > 1
  BY <1>2, <1>3
<1>5. Good(Tree, root, {c}, {}) /\ Holds(Tree, contents)
  BY <1>1 DEF Grown
<1>6. /\ FreeNums # {} /\ node' = [node EXCEPT ![m] = nr]
      /\ used' = used \cup {m} /\ root' = m /\ treeDepth' = treeDepth + 1
      /\ firstLeaf' = firstLeaf /\ lastLeaf' = lastLeaf
      /\ leafRecords' = leafRecords /\ contents' = contents
  BY <1>3 DEF GrowRoot
<1>7. Returns0
  BY ReturnIs DEF GrowRoot
<1>8. m \in 1 .. pool /\ m \notin used /\ m \in NodeNums /\ m # 0
  BY <1>1, <1>6, NextNodeFree
<1> HIDE DEF m, c
<1>9. /\ root \in NodeNums /\ Tree.us = used /\ Tree.ht[root] = treeDepth /\ Tree.fl[root] = c
      /\ Tree.lo[root] = FirstKey(node[root]) /\ node[root].recs[1] \in Recs /\ Tree.lo[root] \in Nat
  <2>1. node[root].recs \in Seq(Recs) /\ Len(node[root].recs) \in Nat \ {0}
    BY <1>1, <1>3, NodeFacts
  <2>2. node[root].recs[1] \in Recs /\ node[root].recs[1].key \in Nat
    BY <2>1, KeyNumbers
  <2> QED
    BY <2>2, <1>1, <1>3, <1>4, NodeFacts DEF FirstKey
<1>10. /\ c \in NodeNums /\ Tree.ht[c] = treeDepth
       /\ Tree.lo[c] = splitKey /\ node[c].recs[1] \in Recs /\ Tree.lo[c] \in Nat /\ c # 0
  <2>1. node[c].recs \in Seq(Recs) /\ Len(node[c].recs) \in Nat \ {0}
    BY <1>1, <1>2, NodeFacts
  <2>2. node[c].recs[1] \in Recs /\ node[c].recs[1].key \in Nat
    BY <2>1, KeyNumbers
  <2> QED
    BY <2>2, <1>1, <1>2, <1>4, NodeFacts DEF FirstKey
<1>11. c # root /\ Tree.lo[root] < Tree.lo[c] /\ Tree.ht[root] > 0
  <2>1. Tree.fl[root] # 0 /\ root \in Tree.us
    BY <1>3, <1>9, <1>10
  <2>2. c \in Peers(Tree, root) /\ Tree.lo[root] < Tree.lo[c] /\ Tree.ht[root] > 0
    BY <2>1, <1>5, <1>9 DEF Good, Linked, Filled
  <2> QED
    BY <2>2 DEF Peers
<1>12. /\ a \in Recs /\ b \in Recs
       /\ a.key = Tree.lo[root] /\ b.key = Tree.lo[c]
       /\ a = indexRecord(Tree.lo[root], root) /\ b = indexRecord(Tree.lo[c], c)
  <2>1. FirstKey(node[root]) \in Keys /\ splitKey \in Keys
    BY <1>2, <1>9, <1>10 DEF FirstKey, Recs
  <2>2. root \in 0 .. MaxNode /\ c \in 0 .. MaxNode
    BY <1>9, <1>10 DEF NodeNums
  <2> QED
    BY <2>1, <2>2, <1>9, <1>10 DEF indexRecord, Recs
<1> HIDE DEF a, b
<1>13. Lists(q, {a, b}, 2) /\ q[1] = a
  BY <1>11, <1>12, TwoLists
<1> HIDE DEF q
<1>14. q \in Seq(Recs) /\ Ascending(q) /\ ToSet(q) = {a, b} /\ Len(q) = 2 /\ q # <<>>
  <2>1. q \in Seq(Recs) /\ Ascending(q) /\ ToSet(q) = {a, b} /\ Len(q) = 2
    BY <1>13 DEF Lists
  <2> QED
    BY <2>1
<1>15. /\ nr \in Nodes /\ nr.recs = q /\ nr.kind = "index" /\ nr.height = treeDepth + 1
       /\ nr.FLink = 0 /\ nr.BLink = 0
  <2>1. nr = [kind |-> "index", height |-> treeDepth + 1, recs |-> q, FLink |-> 0, BLink |-> 0]
    BY NewRootIs, Zenon
  <2>2. treeDepth + 1 \in Nat /\ 0 \in 0 .. MaxNode
    BY <1>3, MaxNodeAssumption
  <2> HIDE DEF nr
  <2> QED
    BY <2>1, <2>2, <1>14 DEF Nodes
<1> HIDE DEF nr
<1>16. /\ used \in SUBSET NodeNums /\ node \in [NodeNums -> Nodes] /\ used \in SUBSET (1 .. pool)
       /\ used' \in SUBSET NodeNums /\ used' \in SUBSET (1 .. pool)
  BY <1>1, <1>6, <1>8, MaxNodeAssumption DEF Types, NodeNums
<1>17. node' \in [NodeNums -> Nodes] /\ node'[m] = nr /\ \A x \in NodeNums \ {m} : node'[x] = node[x]
  BY <1>6, <1>8, <1>15, <1>16
<1>18. InShape(nr)
  <2>1. recordsFit(nr)
    <3>1. Sized(nr)
      BY <1>14, <1>15 DEF Sized
    <3>2. nr.recs = q /\ Len(q) = 2
      BY <1>14, <1>15
    <3>3. Len(nr.recs) = 2 /\ 2 <= 3
      BY <3>2
    <3>4. Len(nr.recs) <= 3
      BY <3>3
    <3> QED
      BY <3>1, <3>4, FewRecords DEF recordsFit
  <2>2. nr.height # 1
    BY <1>3, <1>9, <1>11, <1>15
  <2> QED
    BY <2>1, <2>2, <1>14, <1>15 DEF InShape
<1>19. Stocked'
  <2> DEFINE C == {m}
  <2>1. /\ \A x \in NodeNums \ C : node'[x] = node[x] /\ (x \in used' <=> x \in used)
        /\ \A x \in C : IF x \in used' THEN InShape(node'[x]) ELSE node'[x] = Erased
    BY <1>6, <1>17, <1>18
  <2> HIDE DEF C
  <2> QED
    BY <2>1, <1>1, <1>16, Restocks
<1> DEFINE u == View(node', used')
<1>20. /\ TreeType(u) /\ u.us = used'
       /\ \A x \in NodeNums : /\ u.ht[x] = node'[x].height
                              /\ u.rs[x] = ToSet(node'[x].recs)
                              /\ u.lo[x] = IF node'[x].recs = <<>> THEN 0 ELSE node'[x].recs[1].key
                              /\ u.fl[x] = node'[x].FLink
                              /\ u.bl[x] = node'[x].BLink
  BY <1>16, <1>17, ViewFacts
<1>21. \A x \in NodeNums : /\ Tree.ht[x] = node[x].height
                           /\ Tree.rs[x] = ToSet(node[x].recs)
                           /\ Tree.lo[x] = IF node[x].recs = <<>> THEN 0 ELSE node[x].recs[1].key
                           /\ Tree.fl[x] = node[x].FLink
                           /\ Tree.bl[x] = node[x].BLink
  BY <1>16, ViewFacts DEF Tree
<1> HIDE DEF u
<1>22. Tops(Tree, u, root, c, m)
  <2>1. \A x \in Tree.us : /\ u.ht[x] = Tree.ht[x] /\ u.lo[x] = Tree.lo[x] /\ u.rs[x] = Tree.rs[x]
                           /\ u.fl[x] = Tree.fl[x] /\ u.bl[x] = Tree.bl[x]
    <3> SUFFICES ASSUME NEW x \in used
                 PROVE  /\ u.ht[x] = Tree.ht[x] /\ u.lo[x] = Tree.lo[x] /\ u.rs[x] = Tree.rs[x]
                        /\ u.fl[x] = Tree.fl[x] /\ u.bl[x] = Tree.bl[x]
      BY <1>9
    <3>1. x \in NodeNums /\ node'[x] = node[x]
      BY <1>8, <1>16, <1>17
    <3> QED
      BY <3>1, <1>20, <1>21
  <2>2. /\ u.ht[m] = Tree.ht[root] + 1 /\ u.lo[m] = Tree.lo[root] /\ u.fl[m] = 0 /\ u.bl[m] = 0
    BY <1>8, <1>9, <1>12, <1>13, <1>14, <1>15, <1>17, <1>20
  <2>3. u.rs[m] = {indexRecord(Tree.lo[root], root), indexRecord(Tree.lo[c], c)}
    BY <1>8, <1>12, <1>14, <1>15, <1>17, <1>20
  <2>4. u.us = Tree.us \cup {m} /\ root \in Tree.us /\ c \in Tree.us /\ m \in NodeNums \ Tree.us
        /\ c # root /\ Tree.ht[c] = Tree.ht[root] /\ Tree.lo[root] < Tree.lo[c]
    BY <1>2, <1>3, <1>6, <1>8, <1>9, <1>10, <1>11, <1>20
  <2> QED
    BY <2>1, <2>2, <2>3, <2>4, <1>20 DEF Tops
<1>23. Good(u, m, {}, {}) /\ Holds(u, contents)
  BY <1>5, <1>22, TopKeeps, TopHolds
<1>24. Good(Tree', root', {}, {}) /\ Holds(Tree', contents')
  BY <1>6, <1>23 DEF u, Tree
<1>25. ASSUME NEW x \in used'
       PROVE  Len(node'[x].recs) > 1 \/ (x = root' /\ treeDepth' = 1)
  <2>1. CASE x = m
    BY <2>1, <1>14, <1>15, <1>17
  <2>2. CASE x # m /\ x # root
    <3>1. x \in used /\ node'[x] = node[x] /\ Thin = {}
      BY <2>2, <1>1, <1>6, <1>16, <1>17 DEF Thin
    <3> QED
      BY <3>1, <2>2, <1>1 DEF Grown, Wide
  <2>3. CASE x = root
    BY <2>3, <1>3, <1>4, <1>8, <1>9, <1>17
  <2> QED
    BY <2>1, <2>2, <2>3
<1>26. Ends'
  <2>1. \A x \in used : x \in used' /\ node'[x] = node[x]
    BY <1>6, <1>8, <1>16, <1>17
  <2> QED
    BY <2>1, <1>1, <1>6 DEF Grown, Ends
<1>27. root' \in used' /\ treeDepth' = node'[root'].height
  BY <1>6, <1>15, <1>17
<1>28. /\ root' \in 0 .. MaxNode /\ firstLeaf' \in 0 .. MaxNode /\ lastLeaf' \in 0 .. MaxNode
       /\ treeDepth' \in Nat /\ contents' \in SUBSET Keys /\ IsFiniteSet(contents')
       /\ leafRecords' = Cardinality(contents')
  BY <1>1, <1>3, <1>6, <1>8 DEF Types, NodeNums
<1> QED
  BY <1>1, <1>7, <1>16, <1>17, <1>19, <1>24, <1>25, <1>26, <1>27, <1>28, ReturnKeeps

-----------------------------------------------------------------------------
(* Deletion.                                                               *)

\* IdxOf finds a record by its key.
LEMMA IdxFacts ==
    ASSUME NEW en, en.recs \in Seq(Recs), NEW k
    PROVE  /\ IdxOf(en, k) \in 0 .. Len(en.recs)
           /\ IdxOf(en, k) # 0 => en.recs[IdxOf(en, k)].key = k
           /\ IdxOf(en, k) = 0 => \A r \in ToSet(en.recs) : r.key # k
<1> DEFINE I == {i \in 1 .. Len(en.recs) : en.recs[i].key = k}
           j == IdxOf(en, k)
<1>1. j = IF I # {} THEN Min(I) ELSE 0
  BY DEF IdxOf, SelectInSeq
<1>2. Len(en.recs) \in Nat /\ \A r \in ToSet(en.recs) : \E i \in 1 .. Len(en.recs) : en.recs[i] = r
  BY KeyNumbers
<1> HIDE DEF j
<1>3. CASE I = {}
  BY <1>1, <1>2, <1>3 DEF j
<1>4. CASE I # {}
  <2>1. I \in SUBSET Nat
    BY <1>2
  <2>2. Min(I) \in I
    BY <2>1, <1>4, MinOf
  <2>3. j \in I
    BY <2>2, <1>1, <1>4
  <2>4. j \in 1 .. Len(en.recs) /\ en.recs[j].key = k
    BY <2>3
  <2>5. j \in 0 .. Len(en.recs) /\ j # 0
    BY <2>4, <1>2
  <2> QED
    BY <2>4, <2>5 DEF j
<1> QED
  BY <1>3, <1>4

\* A key is in the leaf the descent reaches, or nowhere.
LEMMA HomeHolds ==
    ASSUME Resting, NEW k \in Keys
    PROVE  /\ k \in contents <=> \E r \in Tree.rs[HomeOf(k)] : r.key = k
           /\ k \in contents <=> IdxOf(node[HomeOf(k)], k) # 0
<1> DEFINE n == HomeOf(k)
<1>1. k \in Nat
  BY KeysAssumption
<1>2. n \in used /\ node[n].height = 1 /\ On(Tree, n, k)
  BY <1>1, LeafFacts DEF HomeOf
<1> HIDE DEF n
<1>3. Good(Tree, root, {}, {}) /\ Holds(Tree, contents) /\ Types /\ Stocked
  BY RestingFacts DEF Resting, Grown
<1>4. Tree.us = used /\ Tree.ht[n] = 1 /\ Tree.rs[n] = ToSet(node[n].recs) /\ node[n].recs \in Seq(Recs)
  BY <1>2, <1>3, NodeFacts
<1>5. \A r \in Tree.rs[n] : r.key \in contents
  BY <1>2, <1>3, <1>4 DEF Holds
<1>6. ASSUME k \in contents
      PROVE  \E r \in Tree.rs[n] : r.key = k
  <2>1. PICK x \in Tree.us : Tree.ht[x] = 1 /\ \E r \in Tree.rs[x] : r.key = k
    BY <1>3, <1>6 DEF Holds
  <2>2. PICK r \in Tree.rs[x] : r.key = k
    BY <2>1
  <2>3. CASE x = n
    BY <2>2, <2>3
  <2>4. CASE x # n
    <3>1. x \in Peers(Tree, n) /\ n \in Peers(Tree, x) /\ n \in Tree.us
      BY <2>1, <2>4, <1>2, <1>4 DEF Peers
    <3>2. Tree.lo[x] \in Nat /\ Tree.lo[n] \in Nat
      BY <3>1, <2>1, <1>3, TreeNumbers DEF Good
    <3>3. Tree.lo[n] # Tree.lo[x] /\ Tree.lo[x] <= k /\ (Tree.lo[x] < Tree.lo[n] => k < Tree.lo[n])
      BY <3>1, <2>1, <2>2, <1>3 DEF Good, Apart, Filled
    <3>4. Tree.lo[n] < Tree.lo[x] => k < Tree.lo[x]
      BY <3>1, <1>2 DEF On
    <3>5. Tree.lo[x] < Tree.lo[n] /\ k < Tree.lo[n]
      BY <3>2, <3>3, <3>4, <1>1
    <3>6. Tree.bl[n] = 0
      BY <3>5, <3>2, <1>1, <1>2 DEF On
    <3>7. Tree.lo[n] < Tree.lo[x]
      BY <3>1, <3>6, <1>3 DEF Good, Linked
    <3> QED
      BY <3>2, <3>5, <3>7
  <2> QED
    BY <2>3, <2>4
<1>7. k \in contents <=> \E r \in Tree.rs[n] : r.key = k
  BY <1>5, <1>6
<1>8. k \in contents <=> IdxOf(node[n], k) # 0
  <2>1. /\ IdxOf(node[n], k) \in 0 .. Len(node[n].recs)
        /\ IdxOf(node[n], k) # 0 => node[n].recs[IdxOf(node[n], k)].key = k
        /\ IdxOf(node[n], k) = 0 => \A r \in ToSet(node[n].recs) : r.key # k
    BY <1>4, IdxFacts
  <2>2. CASE IdxOf(node[n], k) = 0
    BY <2>1, <2>2, <1>4, <1>6
  <2>3. CASE IdxOf(node[n], k) # 0
    <3>1. IdxOf(node[n], k) \in 1 .. Len(node[n].recs)
      <4>1. Len(node[n].recs) \in Nat
        BY <1>4
      <4> QED
        BY <4>1, <2>1, <2>3
    <3>2. node[n].recs[IdxOf(node[n], k)] \in Tree.rs[n]
      BY <3>1, <1>4, KeyNumbers
    <3> QED
      BY <3>2, <2>1, <2>3, <1>5
  <2> QED
    BY <2>2, <2>3
<1> QED
  BY <1>7, <1>8 DEF n

\* Deleting a key that is absent keeps the invariant: the descent misses no
\* key the tree has.
LEMMA DeleteMissedKeeps ==
    ASSUME Kept, NEW k \in Keys, DeleteMissed(k), pool' = pool
    PROVE  Kept'
<1>1. pc = "idle" /\ contents' = contents \ {k}
  BY DEF DeleteMissed, BeginDelete
<1>2. k \notin contents
  <2>1. CASE root = 0
    <3>1. ~Grown
      BY <2>1, MaxNodeAssumption DEF Kept, Types, Grown
    <3> QED
      BY <3>1 DEF Kept, Bare
  <2>2. CASE root # 0
    <3>1. Resting
      BY <2>2, <1>1, RootInUse DEF Kept, Resting
    <3> QED
      BY <3>1, <2>2, HomeHolds DEF DeleteMissed, HomeOf
  <2> QED
    BY <2>1, <2>2
<1>3. contents' = contents
  BY <1>1, <1>2
<1>4. /\ node' = node /\ used' = used /\ root' = root /\ firstLeaf' = firstLeaf /\ lastLeaf' = lastLeaf
      /\ treeDepth' = treeDepth /\ leafRecords' = leafRecords /\ pc' = pc
      /\ path' = path /\ childIdx' = childIdx /\ level' = level
      /\ splitKey' = splitKey /\ splitChild' = splitChild
  BY DEF DeleteMissed, header, locals
<1>5. Types' /\ Stocked'
  <2>1. Types'
    BY <1>3, <1>4 DEF Kept, Types
  <2>2. Types /\ Stocked /\ used' \in SUBSET NodeNums
    BY <1>4, MaxNodeAssumption DEF Kept, Types, NodeNums
  <2> DEFINE C == {}
  <2>3. /\ \A m \in NodeNums \ C : node'[m] = node[m] /\ (m \in used' <=> m \in used)
        /\ \A m \in C : IF m \in used' THEN InShape(node'[m]) ELSE node'[m] = Erased
    BY <1>4
  <2> HIDE DEF C
  <2>4. Stocked'
    BY <2>2, <2>3, Restocks
  <2> QED
    BY <2>1, <2>4
<1>6. Bare => Bare'
  BY <1>3, <1>4 DEF Bare
<1>7. Tree' = Tree /\ Orphans' = {} /\ Orphans = {} /\ Stale' = {} /\ Stale = {} /\ Thin' = {} /\ Thin = {}
  BY <1>1, <1>4 DEF Tree, Orphans, Stale, Thin, Splitting
<1>8. Grown => Grown'
  <2>1. Wide => Wide'
    BY <1>4, <1>7 DEF Wide
  <2>2. Ends => Ends'
    BY <1>4 DEF Ends
  <2>3. Placed'
    BY <1>1, <1>4 DEF Placed, Splitting
  <2> QED
    BY <2>1, <2>2, <2>3, <1>3, <1>4, <1>7 DEF Grown
<1> QED
  BY <1>5, <1>6, <1>8 DEF Kept

\* Only records change.
OnlyRecords(t, u, nd, ne) ==
    /\ TreeType(t) /\ TreeType(u)
    /\ u.us = t.us /\ u.ht = t.ht /\ u.fl = t.fl /\ u.bl = t.bl
    /\ \A x \in NodeNums :
          /\ t.rs[x] = ToSet(nd[x].recs)
          /\ u.rs[x] = ToSet(ne[x].recs)
          /\ ne[x].recs # <<>> => u.lo[x] = ne[x].recs[1].key
          /\ ne[x].recs = nd[x].recs => u.rs[x] = t.rs[x] /\ u.lo[x] = t.lo[x]

\* Writes that change records only.
LEMMA RecordsView ==
    ASSUME NEW nd \in [NodeNums -> Nodes], NEW ne \in [NodeNums -> Nodes], NEW us \in SUBSET NodeNums,
           \A x \in NodeNums : /\ ne[x].height = nd[x].height
                               /\ ne[x].FLink = nd[x].FLink /\ ne[x].BLink = nd[x].BLink
    PROVE  OnlyRecords(View(nd, us), View(ne, us), nd, ne)
<1> DEFINE t == View(nd, us)
           u == View(ne, us)
<1>1. /\ TreeType(t) /\ t.us = us
      /\ \A x \in NodeNums : /\ t.ht[x] = nd[x].height
                             /\ t.rs[x] = ToSet(nd[x].recs)
                             /\ t.lo[x] = IF nd[x].recs = <<>> THEN 0 ELSE nd[x].recs[1].key
                             /\ t.fl[x] = nd[x].FLink
                             /\ t.bl[x] = nd[x].BLink
  BY ViewFacts
<1>2. /\ TreeType(u) /\ u.us = us
      /\ \A x \in NodeNums : /\ u.ht[x] = ne[x].height
                             /\ u.rs[x] = ToSet(ne[x].recs)
                             /\ u.lo[x] = IF ne[x].recs = <<>> THEN 0 ELSE ne[x].recs[1].key
                             /\ u.fl[x] = ne[x].FLink
                             /\ u.bl[x] = ne[x].BLink
  BY ViewFacts
<1> HIDE DEF t, u
<1>3. /\ (\A m \in NodeNums : u.ht[m] = t.ht[m]) => u.ht = t.ht
      /\ (\A m \in NodeNums : u.fl[m] = t.fl[m]) => u.fl = t.fl
      /\ (\A m \in NodeNums : u.bl[m] = t.bl[m]) => u.bl = t.bl
  BY <1>1, <1>2, SameFields
<1>4. u.ht = t.ht /\ u.fl = t.fl /\ u.bl = t.bl
  BY <1>1, <1>2, <1>3
<1>5. \A x \in NodeNums :
          /\ t.rs[x] = ToSet(nd[x].recs)
          /\ u.rs[x] = ToSet(ne[x].recs)
          /\ ne[x].recs # <<>> => u.lo[x] = ne[x].recs[1].key
          /\ ne[x].recs = nd[x].recs => u.rs[x] = t.rs[x] /\ u.lo[x] = t.lo[x]
  BY <1>1, <1>2
<1> QED
  BY <1>1, <1>2, <1>4, <1>5 DEF OnlyRecords, t, u

\* The leaf of k without its record.
Without(k) == [node[HomeOf(k)] EXCEPT !.recs = RemoveAt(@, IdxOf(node[HomeOf(k)], k))]

IsWithout(k) ==
    LET n == HomeOf(k)
        e == [node EXCEPT ![n] = Without(k)]
    IN  /\ n \in used /\ node[n].height = 1 /\ k \in contents
        /\ Without(k) \in Nodes
        /\ Without(k).kind = node[n].kind /\ Without(k).height = 1
        /\ Without(k).FLink = node[n].FLink /\ Without(k).BLink = node[n].BLink
        /\ Len(Without(k).recs) = Len(node[n].recs) - 1
        /\ InShape(Without(k))
        /\ e \in [NodeNums -> Nodes]
        /\ Holds(View(e, used), contents \ {k})
        /\ IdxOf(node[n], k) = 1 => Good(View(e, used), root, {}, {n})
        /\ IdxOf(node[n], k) # 1 => Good(View(e, used), root, {}, {})
        /\ treeDepth = 1 => Good(View(e, used), root, {}, {})

\* What taking a key's record out of its leaf leaves.
LEMMA WithoutRecord ==
    ASSUME Resting, NEW k \in Keys, IdxOf(node[HomeOf(k)], k) > 0, Len(node[HomeOf(k)].recs) > 1
    PROVE  IsWithout(k)
<1> DEFINE n == HomeOf(k)
           s == node[n].recs
           i == IdxOf(node[n], k)
           en == Without(k)
           q == RemoveAt(s, i)
           r == s[i]
           e == [node EXCEPT ![n] = en]
           u == View(e, used)
           c == Len(s)
<1>1. k \in Nat /\ Types /\ Stocked /\ Grown /\ treeDepth = node[root].height /\ root \in used
  BY KeysAssumption DEF Resting, Grown
<1>2. n \in used /\ node[n].height = 1
  BY <1>1, LeafFacts DEF HomeOf
<1>3. Good(Tree, root, {}, {}) /\ Holds(Tree, contents)
  BY RestingFacts DEF Resting, Grown
<1> HIDE DEF n
<1>4. /\ n \in NodeNums /\ node[n] \in Nodes /\ s \in Seq(Recs) /\ c \in Nat \ {0} /\ s # <<>>
      /\ Tree.us = used /\ Tree.ht[n] = 1 /\ Tree.lo[n] = s[1].key /\ Tree.rs[n] = ToSet(s)
      /\ Lists(s, Tree.rs[n], c) /\ Sized(node[n]) /\ recordsFit(node[n])
      /\ node[n].kind = IF node[n].height = 1 THEN "leaf" ELSE "index"
      /\ Ascending(s)
  BY <1>1, <1>2, NodeFacts, NodeLists
<1>5. i \in 1 .. c /\ r.key = k /\ c > 1
  <2>1. i \in 0 .. c /\ (i # 0 => r.key = k)
    BY <1>4, IdxFacts
  <2>2. i > 0 /\ c > 1
    BY DEF n
  <2> QED
    BY <2>1, <2>2, <1>4
<1> HIDE DEF i
<1>6. r \in Tree.rs[n]
  BY <1>4, <1>5, KeyNumbers
<1>7. k \in contents
  BY <1>2, <1>3, <1>4, <1>5, <1>6 DEF Holds
<1>8. r.key = Tree.lo[n] <=> i = 1
  <2>1. 1 \in 1 .. Len(s)
    BY <1>4
  <2>2. i = 1 <=> s[i].key = s[1].key
    BY <2>1, <1>4, <1>5, InKeyOrder
  <2> QED
    BY <2>2, <1>4
<1>9. Lists(q, Tree.rs[n] \ {r}, c - 1)
  BY <1>4, <1>5, RemoveLists
<1>10. en = [node[n] EXCEPT !.recs = q]
  BY DEF Without, n, i
<1> HIDE DEF q, en, r
<1>11. q \in Seq(Recs) /\ Ascending(q) /\ ToSet(q) = Tree.rs[n] \ {r} /\ Len(q) = c - 1
  BY <1>9 DEF Lists
<1>12. /\ q # <<>> /\ q[1] \in Tree.rs[n] \ {r}
       /\ \A x \in Tree.rs[n] \ {r} : q[1].key <= x.key
  <2> DEFINE S == Tree.rs[n] \ {r}
             d == c - 1
  <2>0. PICK z : z = c
    OBVIOUS
  <2>3. z \in Nat /\ z > 1
    BY <2>0, <1>4, <1>5
  <2>4. z - 1 \in Nat \ {0}
    BY <2>3
  <2>1. d \in Nat \ {0} /\ Lists(q, S, d)
    BY <2>0, <2>4, <1>9
  <2> HIDE DEF S, d
  <2>2. q # <<>> /\ q[1] \in S /\ \A x \in S : q[1].key <= x.key
    BY <2>1, ListsFirst
  <2> QED
    BY <2>2 DEF S
<1>13. /\ en \in Nodes /\ en.recs = q /\ en.kind = node[n].kind /\ en.height = node[n].height
       /\ en.FLink = node[n].FLink /\ en.BLink = node[n].BLink
  BY <1>4, <1>10, <1>11 DEF Nodes
<1>14. recordsFit(en)
  <2>1. en.recs = RemoveAt(node[n].recs, i)
    BY <1>13 DEF q
  <2>2. Sized(en) /\ usedBytes(en) <= usedBytes(node[n])
    BY <2>1, <1>4, <1>5, <1>13, RemoveBytes
  <2>3. usedBytes(en) \in Nat /\ usedBytes(node[n]) \in Nat /\ NodeSize \in Nat
    BY <2>2, <1>4, FewRecords
  <2> QED
    BY <2>2, <2>3, <1>4 DEF recordsFit
<1>15. InShape(en)
  BY <1>4, <1>11, <1>12, <1>13, <1>14 DEF InShape
<1>16. node \in [NodeNums -> Nodes] /\ used \in SUBSET NodeNums
  BY <1>1, MaxNodeAssumption DEF Types, NodeNums
<1>17. e \in [NodeNums -> Nodes] /\ e[n] = en /\ \A x \in NodeNums : x # n => e[x] = node[x]
  BY <1>4, <1>13, <1>16
<1> HIDE DEF e
<1>18. OnlyRecords(Tree, u, node, e)
  <2>1. \A x \in NodeNums : /\ e[x].height = node[x].height
                            /\ e[x].FLink = node[x].FLink /\ e[x].BLink = node[x].BLink
    BY <1>13, <1>17
  <2> QED
    BY <2>1, <1>16, <1>17, RecordsView DEF Tree
<1> HIDE DEF u
<1>19. Goes(Tree, u, n, r)
  <2>1. u.rs[n] = Tree.rs[n] \ {r} /\ u.lo[n] = q[1].key
    BY <1>4, <1>11, <1>12, <1>13, <1>17, <1>18 DEF OnlyRecords
  <2>2. \A x \in Tree.us \ {n} : u.lo[x] = Tree.lo[x] /\ u.rs[x] = Tree.rs[x]
    BY <1>4, <1>16, <1>17, <1>18 DEF OnlyRecords
  <2>3. TreeType(u) /\ u.us = Tree.us /\ u.ht = Tree.ht /\ u.fl = Tree.fl /\ u.bl = Tree.bl
    BY <1>18 DEF OnlyRecords
  <2>4. (\E x \in u.rs[n] : x.key = u.lo[n]) /\ \A x \in u.rs[n] : u.lo[n] <= x.key
    BY <2>1, <1>12
  <2> QED
    BY <2>1, <2>2, <2>3, <2>4, <1>2, <1>4, <1>6 DEF Goes
<1>20. Holds(u, contents \ {k})
  BY <1>3, <1>5, <1>19, GoHolds
<1>21. /\ r.key = Tree.lo[n] => Good(u, root, {}, {n})
       /\ r.key # Tree.lo[n] => Good(u, root, {}, {})
       /\ Tree.ht[root] = 1 => Good(u, root, {}, {})
  BY <1>3, <1>19, GoKeeps
<1>22. Tree.ht[root] = treeDepth
  BY <1>1, NodeFacts
<1>23. /\ i = 1 => Good(u, root, {}, {n})
       /\ i # 1 => Good(u, root, {}, {})
       /\ treeDepth = 1 => Good(u, root, {}, {})
  BY <1>8, <1>21, <1>22
<1> QED
  BY <1>2, <1>7, <1>11, <1>13, <1>15, <1>17, <1>20, <1>23 DEF IsWithout, n, en, e, u, i

\* A tree of one leaf.
LEMMA LeafRoot ==
    ASSUME Resting, node[root].kind = "leaf"
    PROVE  /\ treeDepth = 1 /\ used = {root} /\ node[root].height = 1
           /\ \A k \in Nat : HomeOf(k) = root
           /\ \A k \in contents : \E r \in ToSet(node[root].recs) : r.key = k
           /\ \A r \in ToSet(node[root].recs) : r.key \in contents
<1>1. /\ Good(Tree, root, {}, {}) /\ root \in used /\ treeDepth = node[root].height
      /\ treeDepth \in Nat \ {0} /\ Types /\ Stocked /\ Holds(Tree, contents)
  BY RestingFacts DEF Resting, Grown
<1>2. /\ node[root].height = 1 /\ Tree.us = used /\ Tree.ht[root] = 1
      /\ Tree.rs[root] = ToSet(node[root].recs)
  BY <1>1, NodeFacts
<1>3. ASSUME NEW x \in used
      PROVE  x = root
  <2>1. Tree.ht[x] <= 1 /\ Tree.ht[x] > 0
    BY <1>1, <1>2 DEF Good, Topped, Filled
  <2>2. Tree.ht[x] \in Nat
    BY <1>1, <1>2, TreeNumbers DEF Good
  <2>3. Tree.ht[x] = Tree.ht[root]
    BY <2>1, <2>2, <1>2
  <2> QED
    BY <2>3, <1>1, <1>2 DEF Good, Topped
<1>4. used = {root}
  BY <1>1, <1>3
<1>5. ASSUME NEW k \in Nat
      PROVE  HomeOf(k) = root
  <2>1. Walk(descend(k), k) /\ Len(descend(k)) = treeDepth
    BY Descent
  <2>2. descend(k)[1] = root
    BY <2>1 DEF Walk
  <2>3. Last(descend(k)) = descend(k)[treeDepth]
    BY LeafFacts
  <2> QED
    BY <2>2, <2>3, <1>1, <1>2 DEF HomeOf
<1>6. \A k \in contents : \E r \in ToSet(node[root].recs) : r.key = k
  BY <1>1, <1>2, <1>3 DEF Holds
<1>7. \A r \in ToSet(node[root].recs) : r.key \in contents
  BY <1>1, <1>2 DEF Holds
<1> QED
  BY <1>1, <1>2, <1>4, <1>5, <1>6, <1>7

\* deleteByKey in a tree of one leaf keeps the invariant.
LEMMA DeleteInRootKeeps ==
    ASSUME Kept, NEW k \in Keys, DeleteInRoot(k), pool' = pool
    PROVE  Kept'
<1> DEFINE en == node[root]
           i == IdxOf(en, k)
<1>1. pc = "idle" /\ contents' = contents \ {k} /\ root # 0 /\ en.kind = "leaf" /\ i > 0
      /\ leafRecords' = leafRecords - 1
  BY DEF DeleteInRoot, BeginDelete
<1>2. Returns0
  BY ReturnIs DEF DeleteInRoot
<1>3. Resting
  BY <1>1, RootInUse DEF Kept, Resting
<1>4. /\ treeDepth = 1 /\ used = {root} /\ en.height = 1 /\ HomeOf(k) = root
      /\ \A j \in contents : \E r \in ToSet(en.recs) : r.key = j
      /\ \A r \in ToSet(en.recs) : r.key \in contents
  BY <1>1, <1>3, LeafRoot, KeysAssumption
<1>5. Types /\ Stocked /\ root \in used /\ root \in NodeNums /\ node \in [NodeNums -> Nodes]
  <2>1. Types /\ Stocked /\ root \in used
    BY <1>3 DEF Resting, Grown
  <2> QED
    BY <2>1, NodeFacts DEF Types
<1>6. en.recs \in Seq(Recs) /\ Len(en.recs) \in Nat \ {0}
  BY <1>5, NodeFacts
<1>7. i \in 1 .. Len(en.recs) /\ en.recs[i].key = k
  <2>1. i \in 0 .. Len(en.recs) /\ (i # 0 => en.recs[i].key = k)
    BY <1>6, IdxFacts
  <2> QED
    BY <2>1, <1>1, <1>6
<1>8. k \in contents
  BY <1>4, <1>6, <1>7, KeyNumbers
<1>9. /\ contents' \in SUBSET Keys /\ IsFiniteSet(contents')
      /\ leafRecords' = Cardinality(contents')
  BY <1>1, <1>5, <1>8, OneLess
<1>10. CASE Len(en.recs) = 1
  <2>1. /\ node' = [node EXCEPT ![root] = Erased]
        /\ used' = used \ {root}
        /\ root' = 0 /\ firstLeaf' = 0 /\ lastLeaf' = 0 /\ treeDepth' = 0
    BY <1>10 DEF DeleteInRoot
  <2>2. used' = {}
    BY <2>1, <1>4
  <2>3. contents' = {}
    <3>1. ASSUME NEW j \in contents
          PROVE  j = k
      <4>1. PICK r \in ToSet(en.recs) : r.key = j
        BY <1>4
      <4>2. PICK x \in 1 .. Len(en.recs) : en.recs[x] = r
        BY <1>6, KeyNumbers
      <4>3. x = i
        BY <4>2, <1>7, <1>10
      <4> QED
        BY <4>1, <4>2, <4>3, <1>7
    <3> QED
      BY <3>1, <1>1
  <2>4. Bare'
    BY <2>1, <2>2, <2>3, <1>2 DEF Bare, Returns0
  <2>5. Erased \in Nodes
    BY MaxNodeAssumption DEF Erased, Nodes
  <2>6. node' \in [NodeNums -> Nodes] /\ node'[root] = Erased /\ \A x \in NodeNums \ {root} : node'[x] = node[x]
    BY <2>1, <2>5, <1>5
  <2>7. Stocked'
    <3>1. \A x \in NodeNums : node'[x] = Erased
      BY <2>6, <1>4, <1>5 DEF Stocked
    <3> QED
      BY <3>1, <2>2 DEF Stocked
  <2>8. Types'
    <3>1. path' \in Seq(NodeNums) /\ childIdx' \in Seq(Nat) /\ level' \in Nat /\ pc' = "idle"
      BY <1>2 DEF Returns0
    <3>2. used' \in SUBSET (1 .. pool') /\ {root', firstLeaf', lastLeaf'} \subseteq 0 .. MaxNode /\ treeDepth' \in Nat
      BY <2>1, <2>2, MaxNodeAssumption
    <3> QED
      BY <3>1, <3>2, <2>6, <1>5, <1>9 DEF Types
  <2> QED
    BY <2>4, <2>7, <2>8 DEF Kept
<1>11. CASE Len(en.recs) # 1
  <2> DEFINE w == Without(k)
  <2>1. Len(en.recs) > 1
    <3>1. PICK z : z = Len(en.recs)
      OBVIOUS
    <3>2. z \in Nat \ {0} /\ z # 1
      BY <3>1, <1>6, <1>11
    <3>3. z > 1
      BY <3>2
    <3> QED
      BY <3>1, <3>3
  <2>2. IsWithout(k)
    BY <2>1, <1>1, <1>3, <1>4, WithoutRecord
  <2>3. /\ w \in Nodes /\ w.height = 1
        /\ w.FLink = en.FLink /\ w.BLink = en.BLink
        /\ Len(w.recs) = Len(en.recs) - 1
        /\ InShape(w)
        /\ [node EXCEPT ![root] = w] \in [NodeNums -> Nodes]
        /\ Holds(View([node EXCEPT ![root] = w], used), contents \ {k})
        /\ Good(View([node EXCEPT ![root] = w], used), root, {}, {})
    BY <2>2, <1>4 DEF IsWithout
  <2>4. /\ node' = [node EXCEPT ![root].recs = RemoveAt(@, i)]
        /\ used' = used /\ root' = root /\ firstLeaf' = firstLeaf /\ lastLeaf' = lastLeaf
        /\ treeDepth' = treeDepth
    BY <1>11 DEF DeleteInRoot
  <2>5. node' = [node EXCEPT ![root] = w]
    BY <2>4, <1>4 DEF Without
  <2> HIDE DEF w
  <2>6. node' \in [NodeNums -> Nodes] /\ node'[root] = w /\ \A x \in NodeNums \ {root} : node'[x] = node[x]
    BY <2>3, <2>5, <1>5
  <2>7. Stocked'
    <3> DEFINE C == {root}
    <3>1. /\ \A x \in NodeNums \ C : node'[x] = node[x] /\ (x \in used' <=> x \in used)
          /\ \A x \in C : IF x \in used' THEN InShape(node'[x]) ELSE node'[x] = Erased
          /\ used' \in SUBSET NodeNums
      BY <2>3, <2>4, <2>6, <1>4, <1>5
    <3> HIDE DEF C
    <3> QED
      BY <3>1, <1>5, Restocks
  <2>8. Good(Tree', root', {}, {}) /\ Holds(Tree', contents')
    BY <2>3, <2>4, <2>5, <1>1 DEF Tree
  <2>9. \A x \in used' : Len(node'[x].recs) > 1 \/ (x = root' /\ treeDepth' = 1)
    BY <2>4, <1>4
  <2>10. Ends'
    BY <2>3, <2>4, <2>6, <1>3, <1>4 DEF Resting, Grown, Ends
  <2>11. root' \in used' /\ treeDepth' = node'[root'].height
    BY <2>3, <2>4, <2>6, <1>4, <1>5
  <2>12. /\ used' \in SUBSET (1 .. pool)
         /\ root' \in 0 .. MaxNode /\ firstLeaf' \in 0 .. MaxNode /\ lastLeaf' \in 0 .. MaxNode
         /\ treeDepth' \in Nat
    BY <2>4, <1>5 DEF Types
  <2> QED
    BY <2>6, <2>7, <2>8, <2>9, <2>10, <2>11, <2>12, <1>2, <1>5, <1>9, ReturnKeeps
<1> QED
  BY <1>10, <1>11

\* A walk leads along index records.
LeadsOn(p, i, k) ==
    /\ i \in Nat /\ i < Len(p)
    /\ p[i] \in used /\ p[i + 1] \in used
    /\ node[p[i]].height = treeDepth + 1 - i
    /\ ChosenIdx(node[p[i]], k) \in 1 .. Len(node[p[i]].recs)
    /\ DOMAIN node[p[i]].recs = 1 .. Len(node[p[i]].recs)
    /\ node[p[i]].recs[ChosenIdx(node[p[i]], k)].child = p[i + 1]

\* One step of a walk down the tree.
LEMMA WalkFacts ==
    ASSUME Resting, NEW k \in Nat, NEW p, Walk(p, k), NEW i \in 1 .. Len(p) - 1
    PROVE  LeadsOn(p, i, k)
<1>1. p \in Seq(NodeNums) /\ Len(p) \in Nat
  BY DEF Walk
<1>2. i \in Nat /\ i < Len(p) /\ i \in 1 .. Len(p) /\ i + 1 \in 1 .. Len(p)
  BY <1>1
<1>3. /\ On(Tree, p[i], k) /\ node[p[i]].height = treeDepth + 1 - i
      /\ On(Tree, p[i + 1], k)
      /\ node[p[i]].recs[ChosenIdx(node[p[i]], k)].child = p[i + 1]
  BY <1>2 DEF Walk
<1>4. Types /\ Stocked /\ root \in used
  BY RestingFacts DEF Resting
<1>5. p[i] \in used /\ p[i + 1] \in used
  <2>1. Tree.us = used
    BY <1>4, NodeFacts
  <2> QED
    BY <2>1, <1>3 DEF On
<1>6. /\ node[p[i]].recs \in Seq(Recs) /\ Ascending(node[p[i]].recs) /\ node[p[i]].recs # <<>>
      /\ DOMAIN node[p[i]].recs = 1 .. Len(node[p[i]].recs)
  BY <1>4, <1>5, NodeFacts
<1>7. ChosenIdx(node[p[i]], k) \in 1 .. Len(node[p[i]].recs)
  BY <1>6, ChosenFacts
<1> QED
  BY <1>2, <1>3, <1>5, <1>6, <1>7 DEF LeadsOn

\* deleteByKey in a leaf keeps the invariant; the key above may be stale.
LEMMA DeleteInLeafKeeps ==
    ASSUME Kept, NEW k \in Keys, DeleteInLeaf(k), pool' = pool
    PROVE  Kept'
<1> DEFINE p == descend(k)
           n == HomeOf(k)
           i == IdxOf(node[n], k)
           w == Without(k)
<1>1. /\ pc = "idle" /\ contents' = contents \ {k} /\ root # 0 /\ node[root].kind = "index" /\ i > 0
      /\ leafRecords' = leafRecords - 1
      /\ node' = [node EXCEPT ![n].recs = RemoveAt(@, i)]
      /\ path' = p /\ childIdx' = ChildIdxOf(p, k) /\ level' = Len(p)
      /\ pc' = IF i = 1 /\ Len(node[n].recs) > 1 THEN "updateKey" ELSE "rebalance"
      /\ used' = used /\ root' = root /\ firstLeaf' = firstLeaf /\ lastLeaf' = lastLeaf
      /\ treeDepth' = treeDepth
  BY DEF DeleteInLeaf, BeginDelete, HomeOf
<1>2. Resting
  BY <1>1, RootInUse DEF Kept, Resting
<1>3. Types /\ Stocked /\ Grown /\ k \in Nat /\ root \in used /\ treeDepth = node[root].height /\ treeDepth \in Nat \ {0}
  BY <1>2, RestingFacts, KeysAssumption DEF Resting
<1>4. /\ p \in Seq(NodeNums) /\ p # <<>> /\ Len(p) = treeDepth /\ n = p[treeDepth]
      /\ n \in used /\ node[n].height = 1 /\ Walk(p, k) /\ p[1] = root
  BY <1>2, <1>3, LeafFacts, Descent DEF HomeOf, Walk
<1>5. treeDepth > 1
  <2>1. node[root].kind = IF node[root].height = 1 THEN "leaf" ELSE "index"
    BY <1>3, NodeFacts
  <2> QED
    BY <2>1, <1>1, <1>3
<1>6. Len(node[n].recs) > 1
  <2>1. Thin = {} /\ Wide
    BY <1>1, <1>3 DEF Thin, Grown
  <2> QED
    BY <2>1, <1>4, <1>5 DEF Wide
<1>7. IsWithout(k)
  BY <1>1, <1>2, <1>6, WithoutRecord
<1>8. /\ w \in Nodes /\ w.height = 1
      /\ w.FLink = node[n].FLink /\ w.BLink = node[n].BLink
      /\ InShape(w) /\ k \in contents
      /\ [node EXCEPT ![n] = w] \in [NodeNums -> Nodes]
      /\ Holds(View([node EXCEPT ![n] = w], used), contents \ {k})
      /\ i = 1 => Good(View([node EXCEPT ![n] = w], used), root, {}, {n})
      /\ i # 1 => Good(View([node EXCEPT ![n] = w], used), root, {}, {})
  BY <1>7 DEF IsWithout
<1>9. node' = [node EXCEPT ![n] = w]
  BY <1>1 DEF Without
<1> HIDE DEF w, n, p, i
<1>10. n \in NodeNums /\ node \in [NodeNums -> Nodes] /\ used \in SUBSET NodeNums
  BY <1>3, <1>4, NodeFacts, MaxNodeAssumption DEF Types, NodeNums
<1>11. node' \in [NodeNums -> Nodes] /\ node'[n] = w /\ \A x \in NodeNums : x # n => node'[x] = node[x]
  BY <1>8, <1>9, <1>10
<1>12. Stocked'
  <2> DEFINE C == {n}
  <2>1. /\ \A x \in NodeNums \ C : node'[x] = node[x] /\ (x \in used' <=> x \in used)
        /\ \A x \in C : IF x \in used' THEN InShape(node'[x]) ELSE node'[x] = Erased
        /\ used' \in SUBSET NodeNums
    BY <1>1, <1>4, <1>8, <1>10, <1>11
  <2> HIDE DEF C
  <2> QED
    BY <2>1, <1>3, Restocks
<1>13. ASSUME NEW j \in 1 .. Len(p) - 1
       PROVE  /\ p[j] \in used /\ p[j + 1] \in used
              /\ node'[p[j]].height = treeDepth + 1 - j
              /\ childIdx'[j] \in Nat
              /\ childIdx'[j] \in DOMAIN node'[p[j]].recs
              /\ node'[p[j]].recs[childIdx'[j]].child = p[j + 1]
  <2>1. /\ j \in Nat /\ j < Len(p)
        /\ p[j] \in used /\ p[j + 1] \in used
        /\ node[p[j]].height = treeDepth + 1 - j
        /\ ChosenIdx(node[p[j]], k) \in 1 .. Len(node[p[j]].recs)
        /\ DOMAIN node[p[j]].recs = 1 .. Len(node[p[j]].recs)
        /\ node[p[j]].recs[ChosenIdx(node[p[j]], k)].child = p[j + 1]
    <3>1. LeadsOn(p, j, k)
      BY <1>2, <1>3, <1>4, WalkFacts
    <3> QED
      BY <3>1 DEF LeadsOn
  <2>2. p[j] # n
    BY <2>1, <1>3, <1>4
  <2>3. node'[p[j]] = node[p[j]]
    BY <2>1, <2>2, <1>10, <1>11
  <2>4. childIdx'[j] = ChosenIdx(node[p[j]], k)
    BY <1>1 DEF ChildIdxOf
  <2> QED
    BY <2>1, <2>3, <2>4
<1>14. childIdx' \in Seq(Nat) /\ Len(childIdx') = Len(p) - 1
  <2>1. childIdx' = [j \in 1 .. Len(p) - 1 |-> ChosenIdx(node[p[j]], k)]
    BY <1>1 DEF ChildIdxOf
  <2>2. childIdx' \in [1 .. Len(p) - 1 -> Nat]
    BY <2>1, <1>13
  <2>3. Len(p) - 1 \in Nat
    BY <1>3, <1>4
  <2> QED
    BY <2>2, <2>3
<1>15. Types'
  <2>1. /\ contents' \in SUBSET Keys /\ IsFiniteSet(contents')
        /\ leafRecords' = Cardinality(contents')
    BY <1>1, <1>3, <1>8, OneLess
  <2>2. path' \in Seq(NodeNums) /\ level' \in Nat
    BY <1>1, <1>3, <1>4
  <2>3. pc' \in {"idle", "propagate", "growRoot", "updateKey", "rebalance", "shrink"}
    BY <1>1
  <2> QED
    BY <2>1, <2>2, <2>3, <1>1, <1>3, <1>11, <1>14 DEF Types
<1>16. Thin' = {n} /\ Orphans' = {} /\ (i = 1 => Stale' = {n}) /\ (i # 1 => Stale' = {})
  <2>1. path'[Len(path')] = n /\ path'[level'] = n
    BY <1>1, <1>4
  <2>2. (i = 1 => pc' = "updateKey") /\ (i # 1 => pc' = "rebalance")
    BY <1>1, <1>6
  <2> QED
    BY <2>1, <2>2 DEF Thin, Orphans, Stale, Splitting
<1>17. Good(Tree', root', Orphans', Stale') /\ Holds(Tree', contents')
  BY <1>1, <1>8, <1>9, <1>16 DEF Tree
<1>18. Wide'
  <2>1. Thin = {} /\ Wide
    BY <1>1, <1>3 DEF Thin, Grown
  <2>2. ASSUME NEW x \in used' \ Thin'
        PROVE  Len(node'[x].recs) > 1 \/ (x = root' /\ treeDepth' = 1)
    <3>1. x \in used /\ x # n /\ node'[x] = node[x]
      BY <1>1, <1>10, <1>11, <1>16
    <3> QED
      BY <3>1, <2>1, <1>1 DEF Wide
  <2> QED
    BY <2>2 DEF Wide
<1>19. \A m \in used : /\ node'[m].height = node[m].height
                       /\ node'[m].FLink = node[m].FLink /\ node'[m].BLink = node[m].BLink
  BY <1>4, <1>8, <1>10, <1>11
<1>20. Ends'
  BY <1>1, <1>3, <1>19 DEF Grown, Ends
<1>25. PICK l : l = treeDepth - 1
  OBVIOUS
<1>26. /\ l \in Nat /\ l > 0 /\ l < Len(path') /\ Len(path') = treeDepth' /\ Len(childIdx') = Len(path') - 1
       /\ l = Len(path') - 1 /\ l = level' - 1 /\ level' \in 2 .. Len(path') /\ l = Len(p) - 1
  <2>1. Len(path') = treeDepth /\ level' = treeDepth /\ Len(childIdx') = treeDepth - 1 /\ treeDepth' = treeDepth
        /\ Len(p) = treeDepth
    BY <1>1, <1>4, <1>14
  <2>2. l \in Nat /\ l > 0 /\ l < treeDepth /\ treeDepth \in 2 .. treeDepth
    BY <1>3, <1>5, <1>25
  <2> QED
    BY <2>1, <2>2, <1>25
<1>21. Remembers(l)'
  <2>1. \A j \in 1 .. l : /\ path'[j] \in used' /\ path'[j + 1] \in used'
                          /\ node'[path'[j]].height = treeDepth' + 1 - j
                          /\ childIdx'[j] \in DOMAIN node'[path'[j]].recs
                          /\ node'[path'[j]].recs[childIdx'[j]].child = path'[j + 1]
    BY <1>1, <1>13, <1>26
  <2>2. path'[1] = root'
    BY <1>1, <1>4
  <2> QED
    BY <2>1, <2>2, <1>26 DEF Remembers
<1>22. Placed'
  <2>1. level' \in 2 .. Len(path')
    BY <1>26
  <2>2. Remembers(Len(path) - 1)' /\ Remembers(level - 1)'
    BY <1>21, <1>26
  <2>3. ~Splitting'
    BY <1>1 DEF Splitting
  <2> QED
    BY <2>1, <2>2, <2>3 DEF Placed
<1>23. root' \in used' /\ treeDepth' = node'[root'].height
  BY <1>1, <1>3, <1>19
<1>24. Grown'
  BY <1>17, <1>18, <1>20, <1>22, <1>23 DEF Grown
<1> QED
  BY <1>12, <1>15, <1>24 DEF Kept

\* The new key of a stale record is still between its neighbours'.
StillFits(t, c, p, r) ==
    /\ c \in t.us /\ t.ht[p] = t.ht[c] + 1
    /\ r.key < t.lo[c]
    /\ \A s \in t.rs[p] : /\ s.key < r.key => s.key < t.lo[c]
                          /\ r.key < s.key => t.lo[c] < s.key

\* The first key of the stale node keeps its place in the parent.
LEMMA StaleFits ==
    ASSUME NEW t, NEW top, NEW c, Good(t, top, {}, {c}), NEW p \in t.us, t.ht[p] > 1,
           NEW r \in t.rs[p], r.child = c
    PROVE  StillFits(t, c, p, r)
<1> DEFINE st == {c}
<1>0. Good(t, top, {}, st) /\ c \in st /\ \A x : x \in st => x = c
  OBVIOUS
<1> HIDE DEF st
<1>1. /\ \A x \in t.us : t.lo[x] \in Nat /\ t.ht[x] \in Nat
      /\ \A x \in t.us : \A s \in t.rs[x] : s.key \in Nat
  BY <1>0, TreeNumbers DEF Good
<1>2. /\ c \in t.us /\ t.ht[p] = t.ht[c] + 1 /\ r.key < t.lo[c]
      /\ \A x \in Peers(t, c) : t.lo[x] < r.key \/ t.lo[c] < t.lo[x]
      /\ \A s \in t.rs[p] : s.child = c => s = r
  BY <1>0 DEF Good, Indexed
<1>3. ASSUME NEW s \in t.rs[p], s.key < r.key
      PROVE  s.key < t.lo[c]
  BY <1>1, <1>2, <1>3
<1>4. ASSUME NEW s \in t.rs[p], r.key < s.key
      PROVE  t.lo[c] < s.key
  <2>1. s # r
    BY <1>1, <1>4
  <2>2. s.child # c
    BY <2>1, <1>2
  <2>3. s.child \in t.us /\ t.ht[p] = t.ht[s.child] + 1 /\ s.key = t.lo[s.child]
    BY <2>2, <1>0 DEF Good, Indexed
  <2>4. t.ht[s.child] = t.ht[c]
    <3>1. t.ht[s.child] \in Nat /\ t.ht[c] \in Nat /\ t.ht[s.child] + 1 = t.ht[c] + 1
      BY <2>3, <1>1, <1>2
    <3> QED
      BY <3>1
  <2>5. s.child \in Peers(t, c)
    BY <2>2, <2>3, <2>4 DEF Peers
  <2>6. t.lo[s.child] < r.key \/ t.lo[c] < t.lo[s.child]
    BY <2>5, <1>2
  <2> QED
    BY <2>3, <2>6, <1>1, <1>2, <1>4
<1> QED
  BY <1>2, <1>3, <1>4 DEF StillFits

\* What updateParentKey finds.
RekeyReady ==
    LET i == childIdx[level - 1]
        c == path[level]
        p == path[level - 1]
        e == [node[p] EXCEPT !.recs[i] = indexRecord(FirstKey(node[c]), c)]
        nd == [node EXCEPT ![p] = e]
    IN  /\ p \in used /\ c \in used /\ p # c
        /\ node[p].height = treeDepth + 2 - level
        /\ i \in 1 .. Len(node[p].recs)
        /\ e \in Nodes /\ e.kind = node[p].kind /\ e.height = node[p].height
        /\ e.FLink = node[p].FLink /\ e.BLink = node[p].BLink
        /\ Len(e.recs) = Len(node[p].recs)
        /\ Ascending(e.recs) /\ e.recs # <<>>
        /\ e.recs[i].child = c
        /\ Holds(View(nd, used), contents)
        /\ i = 1 => Good(View(nd, used), root, {}, {p})
        /\ i # 1 => Good(View(nd, used), root, {}, {})
        /\ p = root => Good(View(nd, used), root, {}, {})

\* The record updateParentKey rewrites is the stale one.
LEMMA RekeyPlace ==
    ASSUME Kept, pc = "updateKey"
    PROVE  RekeyReady
<1> DEFINE i == childIdx[level - 1]
           c == path[level]
           p == path[level - 1]
           s == node[p].recs
           x == indexRecord(FirstKey(node[c]), c)
           e == [node[p] EXCEPT !.recs[i] = x]
           nd == [node EXCEPT ![p] = e]
           u == View(nd, used)
           r == s[i]
           q == [s EXCEPT ![i] = x]
<1>1. Types /\ Stocked /\ Grown /\ Orphans = {} /\ Stale = {c}
  BY DEF Kept, Bare, Orphans, Stale, Splitting
<1>2. Remembers(Len(path) - 1) /\ level \in 2 .. Len(path) /\ Len(path) \in Nat /\ treeDepth \in Nat
  BY <1>1 DEF Grown, Placed, Types
<1>3. level - 1 \in 1 .. Len(path) - 1 /\ (level - 1) + 1 = level /\ level \in Nat
  BY <1>2
<1>4. /\ p \in used /\ c \in used /\ node[p].height = treeDepth + 1 - (level - 1)
      /\ i \in DOMAIN s /\ r.child = c
  <2>1. \A j \in 1 .. Len(path) - 1 :
          /\ path[j] \in used /\ path[j + 1] \in used
          /\ node[path[j]].height = treeDepth + 1 - j
          /\ childIdx[j] \in DOMAIN node[path[j]].recs
          /\ node[path[j]].recs[childIdx[j]].child = path[j + 1]
    BY <1>2 DEF Remembers
  <2> QED
    BY <2>1, <1>3
<1>5. node[p].height = treeDepth + 2 - level
  BY <1>2, <1>3, <1>4
<1>6. Good(Tree, root, {}, {c}) /\ Holds(Tree, contents)
  BY <1>1 DEF Grown
<1> HIDE DEF i, c, p
<1>7. /\ p \in NodeNums /\ node[p] \in Nodes /\ s \in Seq(Recs) /\ Len(s) \in Nat \ {0} /\ s # <<>>
      /\ Tree.us = used /\ Tree.ht[p] = node[p].height /\ Tree.lo[p] = s[1].key /\ Tree.rs[p] = ToSet(s)
      /\ Lists(s, Tree.rs[p], Len(s)) /\ node[p].height \in Nat /\ DOMAIN s = 1 .. Len(s)
      /\ Ascending(s)
  BY <1>1, <1>4, NodeFacts, NodeLists DEF Nodes
<1>8. i \in 1 .. Len(s) /\ r \in Tree.rs[p]
  BY <1>4, <1>7, KeyNumbers
<1>9. Tree.ht[c] = node[c].height /\ Tree.lo[c] = FirstKey(node[c]) /\ c \in NodeNums
      /\ FirstKey(node[c]) \in Keys /\ Tree.lo[c] \in Nat
  <2>1. node[c].recs \in Seq(Recs) /\ Len(node[c].recs) \in Nat \ {0}
    BY <1>1, <1>4, NodeFacts
  <2>2. node[c].recs[1].key \in Keys /\ node[c].recs[1].key \in Nat
    BY <2>1, KeyNumbers
  <2> QED
    BY <2>2, <1>1, <1>4, NodeFacts DEF FirstKey
<1>10. Tree.ht[p] > 1
  <2>1. Tree.ht[p] = treeDepth + 2 - level /\ level <= treeDepth
    <3>1. Len(path) = treeDepth
      BY <1>2 DEF Remembers
    <3> QED
      BY <3>1, <1>2, <1>5, <1>7
  <2> QED
    BY <2>1, <1>2, <1>3
<1>11. StillFits(Tree, c, p, r)
  <2>1. p \in Tree.us
    BY <1>4, <1>7
  <2> QED
    BY <2>1, <1>4, <1>6, <1>8, <1>10, StaleFits
<1>12. /\ x \in Recs /\ x.key = Tree.lo[c] /\ x.child = c /\ x = indexRecord(Tree.lo[c], c)
  <2>1. c \in 0 .. MaxNode
    BY <1>9 DEF NodeNums
  <2> QED
    BY <2>1, <1>9 DEF indexRecord, Recs
<1> HIDE DEF x, r
<1>13. \A j \in 1 .. Len(s) : (j < i => s[j].key < x.key) /\ (i < j => x.key < s[j].key)
  <2> SUFFICES ASSUME NEW j \in 1 .. Len(s)
               PROVE  (j < i => s[j].key < x.key) /\ (i < j => x.key < s[j].key)
    OBVIOUS
  <2>1. j < i <=> s[j].key < s[i].key
    BY <1>7, <1>8, InKeyOrder
  <2>2. i < j <=> s[i].key < s[j].key
    BY <1>7, <1>8, InKeyOrder
  <2>3. s[j] \in Tree.rs[p]
    BY <1>7, KeyNumbers
  <2>4. /\ s[j].key < r.key => s[j].key < Tree.lo[c]
        /\ r.key < s[j].key => Tree.lo[c] < s[j].key
    BY <2>3, <1>11 DEF StillFits
  <2> QED
    BY <2>1, <2>2, <2>4, <1>12 DEF r
<1>14. /\ Lists(q, (Tree.rs[p] \ {r}) \cup {x}, Len(s)) /\ q[1] = IF i = 1 THEN x ELSE s[1]
  <2>1. Len(s) \in Nat
    BY <1>7
  <2>2. IsReplaced(q, s, Tree.rs[p], Len(s), i, x)
    BY <2>1, <1>7, <1>8, <1>12, <1>13, ReplaceLists
  <2> HIDE DEF q
  <2> QED
    BY <2>2 DEF IsReplaced, r
<1>15. e = [node[p] EXCEPT !.recs = q]
  OBVIOUS
<1>16. q[i] = x
  BY <1>7, <1>8
<1> HIDE DEF q, e
<1>17. q \in Seq(Recs) /\ Ascending(q) /\ ToSet(q) = (Tree.rs[p] \ {r}) \cup {x} /\ Len(q) = Len(s)
  BY <1>14 DEF Lists
<1>18. q # <<>>
  BY <1>7, <1>17
<1>19. /\ e \in Nodes /\ e.recs = q /\ e.kind = node[p].kind /\ e.height = node[p].height
       /\ e.FLink = node[p].FLink /\ e.BLink = node[p].BLink
  BY <1>7, <1>15, <1>17 DEF Nodes
<1>20. node \in [NodeNums -> Nodes] /\ used \in SUBSET NodeNums
  BY <1>1, MaxNodeAssumption DEF Types, NodeNums
<1>21. nd \in [NodeNums -> Nodes] /\ nd[p] = e /\ \A m \in NodeNums : m # p => nd[m] = node[m]
  BY <1>7, <1>19, <1>20
<1> HIDE DEF nd
<1>22. OnlyRecords(Tree, u, node, nd)
  <2>1. \A m \in NodeNums : /\ nd[m].height = node[m].height
                            /\ nd[m].FLink = node[m].FLink /\ nd[m].BLink = node[m].BLink
    BY <1>19, <1>21
  <2> QED
    BY <2>1, <1>20, <1>21, RecordsView DEF Tree
<1> HIDE DEF u
<1>23. r.key = Tree.lo[p] <=> i = 1
  <2>1. 1 \in 1 .. Len(s)
    BY <1>7
  <2>2. i = 1 <=> s[i].key = s[1].key
    BY <2>1, <1>7, <1>8, InKeyOrder
  <2> QED
    BY <2>2, <1>7 DEF r
<1>24. Rekeys(Tree, u, c, p, r)
  <2>1. u.rs[p] = (Tree.rs[p] \ {r}) \cup {indexRecord(Tree.lo[c], c)}
    BY <1>7, <1>12, <1>17, <1>19, <1>21, <1>22 DEF OnlyRecords
  <2>2. u.lo[p] = q[1].key
    BY <1>7, <1>18, <1>19, <1>21, <1>22 DEF OnlyRecords
  <2>3. u.lo[p] = IF r.key = Tree.lo[p] THEN Tree.lo[c] ELSE Tree.lo[p]
    BY <2>2, <1>7, <1>12, <1>14, <1>23
  <2>4. \A m \in Tree.us \ {p} : u.lo[m] = Tree.lo[m] /\ u.rs[m] = Tree.rs[m]
    BY <1>7, <1>20, <1>21, <1>22 DEF OnlyRecords
  <2>5. TreeType(u) /\ u.us = Tree.us /\ u.ht = Tree.ht /\ u.fl = Tree.fl /\ u.bl = Tree.bl
    BY <1>22 DEF OnlyRecords
  <2>6. p \in Tree.us /\ Tree.ht[p] > 1 /\ r \in Tree.rs[p] /\ r.child = c
    BY <1>4, <1>7, <1>8, <1>10 DEF r
  <2> QED
    BY <2>1, <2>3, <2>4, <2>5, <2>6 DEF Rekeys
<1>25. Holds(u, contents)
  BY <1>6, <1>24, RekeyHolds
<1>26. /\ r.key = Tree.lo[p] => Good(u, root, {}, {p})
       /\ r.key # Tree.lo[p] => Good(u, root, {}, {})
       /\ p = root => Good(u, root, {}, {})
  <2>1. Rekeyed(Tree, u, root, p, r)
    BY <1>6, <1>24, RekeyKeeps
  <2> QED
    BY <2>1 DEF Rekeyed
<1>27. p # c
  <2>1. Tree.ht[p] = Tree.ht[c] + 1 /\ Tree.ht[c] \in Nat
    <3>1. node[c].height \in Nat
      BY <1>9, <1>20 DEF Nodes
    <3> QED
      BY <3>1, <1>9, <1>11 DEF StillFits
  <2> QED
    BY <2>1
<1>28. /\ i = 1 => Good(u, root, {}, {p})
       /\ i # 1 => Good(u, root, {}, {})
       /\ p = root => Good(u, root, {}, {})
  BY <1>23, <1>26
<1>29. e.recs[i].child = c /\ Len(e.recs) = Len(s) /\ Ascending(e.recs) /\ e.recs # <<>>
  BY <1>12, <1>16, <1>17, <1>18, <1>19
<1> QED
  BY <1>4, <1>5, <1>8, <1>19, <1>25, <1>27, <1>28, <1>29 DEF RekeyReady, i, c, p, e, nd, u, x

\* updateParentKey keeps the invariant.
LEMMA UpdateParentKeyKeeps ==
    ASSUME Kept, ~failed', UpdateParentKey, pool' = pool
    PROVE  Kept'
<1> DEFINE i == childIdx[level - 1]
           c == path[level]
           p == path[level - 1]
           e == [node[p] EXCEPT !.recs[i] = indexRecord(FirstKey(node[c]), c)]
           nd == [node EXCEPT ![p] = e]
           up == i = 1 /\ level > 2
<1>1. pc = "updateKey" /\ Types /\ Stocked /\ Grown
  BY DEF Kept, Bare, UpdateParentKey
<1>2. /\ p \in used /\ c \in used /\ p # c
      /\ node[p].height = treeDepth + 2 - level
      /\ i \in 1 .. Len(node[p].recs)
      /\ e \in Nodes /\ e.kind = node[p].kind /\ e.height = node[p].height
      /\ e.FLink = node[p].FLink /\ e.BLink = node[p].BLink
      /\ Len(e.recs) = Len(node[p].recs)
      /\ Ascending(e.recs) /\ e.recs # <<>>
      /\ e.recs[i].child = c
      /\ Holds(View(nd, used), contents)
      /\ i = 1 => Good(View(nd, used), root, {}, {p})
      /\ i # 1 => Good(View(nd, used), root, {}, {})
      /\ p = root => Good(View(nd, used), root, {}, {})
  BY <1>1, RekeyPlace DEF RekeyReady
<1>3. /\ node' = Stored(node, <<<<p, e>>>>) /\ recordsFit(e)
      /\ pc' = IF up THEN "updateKey" ELSE "rebalance"
      /\ level' = IF up THEN level - 1 ELSE Len(path)
      /\ path' = path /\ childIdx' = childIdx
      /\ used' = used /\ root' = root /\ firstLeaf' = firstLeaf /\ lastLeaf' = lastLeaf
      /\ treeDepth' = treeDepth /\ leafRecords' = leafRecords /\ contents' = contents
  <2>1. recordsFit(e)
    BY DEF UpdateParentKey, Return
  <2> QED
    BY <2>1 DEF UpdateParentKey, header
<1>4. /\ Remembers(Len(path) - 1) /\ level \in 2 .. Len(path) /\ Len(path) \in Nat /\ treeDepth \in Nat
      /\ level \in Nat
  BY <1>1 DEF Grown, Placed, Types
<1>5. /\ Len(path) - 1 > 0 /\ Len(path) = treeDepth
      /\ Len(childIdx) = Len(path) - 1
      /\ path[1] = root
      /\ \A j \in 1 .. Len(path) - 1 :
            /\ path[j] \in used /\ path[j + 1] \in used
            /\ node[path[j]].height = treeDepth + 1 - j
            /\ childIdx[j] \in DOMAIN node[path[j]].recs
            /\ node[path[j]].recs[childIdx[j]].child = path[j + 1]
  BY <1>4 DEF Remembers
<1>6. level = 2 => p = root
  BY <1>5
<1>7. \A j \in 1 .. Len(path) - 1 : path[j] = p => childIdx[j] = i /\ path[j + 1] = c
  <2> SUFFICES ASSUME NEW j \in 1 .. Len(path) - 1, path[j] = p
               PROVE  childIdx[j] = i /\ path[j + 1] = c
    OBVIOUS
  <2>1. treeDepth + 1 - j = treeDepth + 2 - level /\ j \in Nat
    BY <1>2, <1>4, <1>5, SMTT(20)
  <2>2. j = level - 1 /\ j + 1 = level
    BY <2>1, <1>4
  <2> QED
    BY <2>2
<1> HIDE DEF i, c, p, e
<1>8. /\ node \in [NodeNums -> Nodes] /\ used \in SUBSET NodeNums /\ p \in NodeNums
      /\ node[p].kind = IF node[p].height = 1 THEN "leaf" ELSE "index"
      /\ DOMAIN node[p].recs = 1 .. Len(node[p].recs)
  <2>1. p \in used
    BY <1>2
  <2>2. /\ p \in NodeNums
        /\ node[p].kind = IF node[p].height = 1 THEN "leaf" ELSE "index"
        /\ DOMAIN node[p].recs = 1 .. Len(node[p].recs)
    BY <2>1, <1>1, NodeFacts
  <2>3. node \in [NodeNums -> Nodes] /\ used \in SUBSET NodeNums
    BY <1>1, MaxNodeAssumption DEF Types, NodeNums
  <2> QED
    BY <2>2, <2>3
<1>9. node' = nd
  <2>1. Stored(node, <<<<p, e>>>>) = [m \in NodeNums |-> IF m = p THEN e ELSE node[m]]
    <3>1. recordsFit(e) /\ p \in NodeNums
      BY <1>3, <1>8
    <3> QED
      BY <3>1, StoredOne
  <2>2. nd = [m \in NodeNums |-> IF m = p THEN e ELSE node[m]]
    BY <1>8
  <2> QED
    BY <2>1, <2>2, <1>3
<1>10. nd \in [NodeNums -> Nodes] /\ nd[p] = e /\ \A m \in NodeNums : m # p => nd[m] = node[m]
  BY <1>2, <1>8
<1> HIDE DEF nd
<1>11. Stocked'
  <2> DEFINE C == {p}
  <2>1. InShape(e)
    <3>1. e.kind = node[p].kind /\ e.height = node[p].height /\ Ascending(e.recs) /\ e.recs # <<>> /\ recordsFit(e)
      BY <1>2, <1>3
    <3> QED
      BY <3>1, <1>8 DEF InShape
  <2>2. /\ \A x \in NodeNums \ C : node'[x] = node[x] /\ (x \in used' <=> x \in used)
        /\ \A x \in C : IF x \in used' THEN InShape(node'[x]) ELSE node'[x] = Erased
        /\ used' \in SUBSET NodeNums
    <3>1. p \in used' /\ used' = used
      BY <1>2, <1>3
    <3> QED
      BY <2>1, <3>1, <1>8, <1>9, <1>10
  <2> HIDE DEF C
  <2> QED
    BY <2>2, <1>1, Restocks
<1>12. up => level - 1 \in 2 .. Len(path) /\ level - 1 \in Nat
  BY <1>4
<1>13. Types'
  <2>1. level' \in Nat
    BY <1>3, <1>4, <1>12
  <2>2. pc' \in {"idle", "propagate", "growRoot", "updateKey", "rebalance", "shrink"}
    BY <1>3
  <2>3. node' \in [NodeNums -> Nodes]
    BY <1>9, <1>10
  <2> QED
    BY <2>1, <2>2, <2>3, <1>1, <1>3 DEF Types
<1>14. Thin' = Thin
  BY <1>1, <1>3 DEF Thin
<1>15. Orphans' = {} /\ (up => Stale' = {p}) /\ (~up => Stale' = {})
  <2>1. up => path'[level'] = p
    BY <1>3 DEF p
  <2> QED
    BY <2>1, <1>3 DEF Orphans, Stale, Splitting
<1>16. Good(Tree', root', Orphans', Stale') /\ Holds(Tree', contents')
  <2>1. up => i = 1
    OBVIOUS
  <2>2. ~up => i # 1 \/ p = root
    BY <1>4, <1>6
  <2>3. up => Good(View(nd, used), root, {}, {p})
    BY <2>1, <1>2
  <2>4. ~up => Good(View(nd, used), root, {}, {})
    BY <2>2, <1>2
  <2>5. Tree' = View(nd, used)
    BY <1>3, <1>9 DEF Tree
  <2> HIDE DEF up
  <2>6. Holds(View(nd, used), contents) /\ contents' = contents /\ root' = root
    BY <1>2, <1>3
  <2> QED
    BY <2>3, <2>4, <2>5, <2>6, <1>15
<1>17. \A m \in used : /\ node'[m].height = node[m].height
                       /\ node'[m].FLink = node[m].FLink /\ node'[m].BLink = node[m].BLink
                       /\ Len(node'[m].recs) = Len(node[m].recs)
  BY <1>2, <1>8, <1>9, <1>10
<1>18. Wide'
  BY <1>1, <1>3, <1>14, <1>17 DEF Grown, Wide
<1>20. Ends'
  BY <1>1, <1>3, <1>17 DEF Grown, Ends
<1>21. PICK l : l = Len(path) - 1
  OBVIOUS
<1>22. Remembers(l)'
  <2>1. ASSUME NEW j \in 1 .. l
        PROVE  /\ path[j] \in used /\ path[j + 1] \in used
               /\ node'[path[j]].height = treeDepth + 1 - j
               /\ childIdx[j] \in DOMAIN node'[path[j]].recs
               /\ node'[path[j]].recs[childIdx[j]].child = path[j + 1]
    <3>1. /\ path[j] \in used /\ path[j + 1] \in used
          /\ node[path[j]].height = treeDepth + 1 - j
          /\ childIdx[j] \in DOMAIN node[path[j]].recs
          /\ node[path[j]].recs[childIdx[j]].child = path[j + 1]
      BY <1>5, <1>21
    <3>2. node'[path[j]].height = treeDepth + 1 - j
      BY <3>1, <1>17
    <3>3. CASE path[j] # p
      BY <3>1, <3>3, <1>8, <1>9, <1>10
    <3>4. CASE path[j] = p
      <4>1. childIdx[j] = i /\ path[j + 1] = c
        BY <3>4, <1>7, <1>21
      <4>2. node'[p] = e
        BY <1>9, <1>10
      <4>3. e.recs \in Seq(Recs)
        BY <1>2 DEF Nodes
      <4>4. DOMAIN e.recs = 1 .. Len(e.recs)
        BY <4>3
      <4> QED
        BY <4>1, <4>2, <4>4, <3>1, <3>2, <3>4, <1>2
    <3> QED
      BY <3>3, <3>4
  <2>2. l > 0 /\ l < Len(path) /\ Len(path) = treeDepth /\ Len(childIdx) = Len(path) - 1 /\ path[1] = root
    BY <1>4, <1>5, <1>21
  <2> QED
    BY <2>1, <2>2, <1>3 DEF Remembers
<1>23. Placed'
  <2>1. l = Len(path') - 1 /\ (up => level' \in 2 .. Len(path')) /\ (~up => l = level' - 1)
    BY <1>3, <1>12, <1>21
  <2>2. Remembers(Len(path) - 1)' /\ (~up => Remembers(level - 1)')
    BY <2>1, <1>22
  <2>3. ~Splitting' /\ (up => pc' = "updateKey") /\ (~up => pc' = "rebalance")
    BY <1>3 DEF Splitting
  <2> HIDE DEF up
  <2> QED
    BY <2>1, <2>2, <2>3 DEF Placed
<1>24. root' \in used' /\ treeDepth' = node'[root'].height
  BY <1>1, <1>3, <1>17 DEF Grown
<1>25. Grown'
  BY <1>16, <1>18, <1>20, <1>23, <1>24 DEF Grown
<1> QED
  BY <1>11, <1>13, <1>25 DEF Kept

\* Nodes with neighbouring index records are neighbours.
LEMMA NextDoor ==
    ASSUME NEW t, NEW top, Good(t, top, {}, {}), NEW p \in t.us, t.ht[p] > 1,
           NEW ra \in t.rs[p], NEW rb \in t.rs[p], ra.key < rb.key,
           \A s \in t.rs[p] : s.key <= ra.key \/ rb.key <= s.key
    PROVE  Adjoin(t, p, ra.child, rb.child, rb)
<1> DEFINE a == ra.child
           b == rb.child
           f == t.fl[a]
<1>1. /\ \A x \in t.us : t.lo[x] \in Nat /\ t.ht[x] \in Nat
      /\ \A x \in t.us : \A s \in t.rs[x] : s.key \in Nat
  BY TreeNumbers DEF Good
<1>2. ASSUME NEW x \in t.us, t.ht[x] > 1, NEW s \in t.rs[x]
      PROVE  s.child \in t.us /\ t.ht[x] = t.ht[s.child] + 1 /\ s.key = t.lo[s.child] /\ t.lo[x] <= s.key
  BY <1>2 DEF Good, Indexed, Filled
<1>3. /\ a \in t.us /\ t.ht[p] = t.ht[a] + 1 /\ ra.key = t.lo[a] /\ t.lo[p] <= t.lo[a]
  BY <1>2
<1>4. /\ b \in t.us /\ t.ht[p] = t.ht[b] + 1 /\ rb.key = t.lo[b]
  BY <1>2
<1>5. t.ht[a] = t.ht[b] /\ a # b /\ t.lo[a] < t.lo[b] /\ t.lo[a] # t.lo[b]
  <2>1. t.ht[a] \in Nat /\ t.ht[b] \in Nat /\ t.ht[a] + 1 = t.ht[b] + 1
    BY <1>1, <1>3, <1>4
  <2>2. t.lo[a] < t.lo[b]
    BY <1>3, <1>4
  <2>3. t.lo[a] # t.lo[b]
    BY <2>2, <1>1, <1>3, <1>4
  <2> QED
    BY <2>1, <2>2, <2>3
<1>6. b \in Peers(t, a)
  BY <1>4, <1>5 DEF Peers
<1> HIDE DEF a, b, f
<1>7. f # 0
  <2> SUFFICES ASSUME f = 0 PROVE FALSE
    OBVIOUS
  <2>1. t.lo[b] < t.lo[a]
    BY <1>3, <1>6 DEF Good, Linked, f
  <2> QED
    BY <2>1, <1>1, <1>3, <1>4, <1>5
<1>8. f \in Peers(t, a) /\ t.lo[a] < t.lo[f] /\ t.lo[f] <= t.lo[b]
  BY <1>3, <1>5, <1>6, <1>7 DEF Good, Linked, f
<1>9. f \in t.us /\ t.ht[f] = t.ht[a]
  BY <1>8 DEF Peers
<1>10. f = b
  <2> SUFFICES ASSUME f # b PROVE FALSE
    OBVIOUS
  <2>1. t.lo[f] # t.lo[b]
    <3>1. b \in Peers(t, f)
      BY <1>4, <1>5, <1>9 DEF Peers
    <3> QED
      BY <3>1, <1>9 DEF Good, Apart
  <2>2. t.lo[f] < t.lo[b]
    BY <2>1, <1>1, <1>4, <1>8, <1>9
  <2>3. f # top
    <3>1. t.ht[p] <= t.ht[top] /\ t.ht[top] \in Nat
      BY <1>1 DEF Good, Topped
    <3>2. t.ht[f] < t.ht[p]
      BY <1>1, <1>3, <1>9
    <3> QED
      BY <3>1, <3>2, <1>1
  <2>4. PICK q \in t.us : t.ht[q] > 1 /\ \E s \in t.rs[q] : s.child = f
    BY <2>3, <1>9 DEF Good, Owned
  <2>5. PICK s \in t.rs[q] : s.child = f
    BY <2>4
  <2>6. t.ht[q] = t.ht[f] + 1 /\ s.key = t.lo[f] /\ t.lo[q] <= s.key
    BY <2>4, <2>5, <1>2
  <2>7. t.ht[q] = t.ht[p]
    BY <2>6, <1>3, <1>9
  <2>8. q # p
    <3>1. ~(s.key <= ra.key \/ rb.key <= s.key)
      BY <2>2, <2>6, <1>1, <1>3, <1>4, <1>8, <1>9
    <3> QED
      BY <3>1, <2>5
  <2>9. q \in Peers(t, p) /\ p \in Peers(t, q)
    BY <2>4, <2>7, <2>8 DEF Peers
  <2>10. /\ t.lo[p] # t.lo[q]
         /\ t.lo[p] < t.lo[q] => rb.key < t.lo[q]
         /\ t.lo[q] < t.lo[p] => s.key < t.lo[p]
    BY <2>4, <2>5, <2>9 DEF Good, Apart
  <2>11. CASE t.lo[p] < t.lo[q]
    BY <2>2, <2>4, <2>6, <2>10, <2>11, <1>1, <1>4, <1>9
  <2>12. CASE t.lo[q] < t.lo[p]
    BY <2>4, <2>6, <2>10, <2>12, <1>1, <1>3, <1>8, <1>9
  <2> QED
    BY <2>4, <2>10, <2>11, <2>12, <1>1
<1> QED
  BY <1>3, <1>4, <1>10 DEF Adjoin, a, b, f

\* What rebalance finds.
RebalanceReady ==
    LET c == path[level]
        p == path[level - 1]
    IN  /\ level \in Nat /\ level > 1 /\ level <= Len(path) /\ Len(path) = treeDepth
        /\ treeDepth \in Nat
        /\ c \in used /\ p \in used /\ p # c
        /\ node[p].height = treeDepth + 2 - level /\ node[c].height = treeDepth + 1 - level
        /\ MyIdx \in 1 .. Len(node[p].recs)
        /\ node[p].recs[MyIdx].child = c
        /\ Len(node[p].recs) > 1
        /\ c # root
        /\ Good(Tree, root, {}, {})
        /\ Holds(Tree, contents)

\* What rebalance finds when it reaches a level.
LEMMA RebalancePlace ==
    ASSUME Kept, pc = "rebalance"
    PROVE  RebalanceReady
<1> DEFINE i == childIdx[level - 1]
           c == path[level]
           p == path[level - 1]
<1>1. Types /\ Stocked /\ Grown /\ Orphans = {} /\ Stale = {} /\ Thin = {c}
  BY DEF Kept, Bare, Orphans, Stale, Splitting, Thin
<1>2. Remembers(level - 1) /\ Len(path) \in Nat /\ treeDepth \in Nat /\ level \in Nat
  BY <1>1 DEF Grown, Placed, Types
<1>3. /\ level - 1 > 0 /\ level - 1 < Len(path) /\ Len(path) = treeDepth
      /\ \A j \in 1 .. level - 1 :
          /\ path[j] \in used /\ path[j + 1] \in used
          /\ node[path[j]].height = treeDepth + 1 - j
          /\ childIdx[j] \in DOMAIN node[path[j]].recs
          /\ node[path[j]].recs[childIdx[j]].child = path[j + 1]
  BY <1>2 DEF Remembers
<1>4. level > 1 /\ level <= Len(path) /\ level - 1 \in 1 .. level - 1 /\ (level - 1) + 1 = level
  BY <1>2, <1>3
<1>5. /\ p \in used /\ c \in used /\ node[p].height = treeDepth + 1 - (level - 1)
      /\ i \in DOMAIN node[p].recs /\ node[p].recs[i].child = c
  BY <1>3, <1>4
<1>6. node[p].height = treeDepth + 2 - level /\ node[p].height > 1
  BY <1>2, <1>3, <1>4, <1>5
<1>7. Good(Tree, root, {}, {}) /\ Holds(Tree, contents) /\ root \in used /\ treeDepth = node[root].height
  BY <1>1 DEF Grown
<1> HIDE DEF i, c, p
<1>8. /\ Tree.us = used /\ Tree.ht[p] = node[p].height /\ Tree.rs[p] = ToSet(node[p].recs)
      /\ node[p].recs \in Seq(Recs) /\ DOMAIN node[p].recs = 1 .. Len(node[p].recs)
      /\ node[p].height \in Nat
  BY <1>1, <1>5, NodeFacts DEF Nodes
<1>9. i \in 1 .. Len(node[p].recs) /\ node[p].recs[i] \in Tree.rs[p]
  BY <1>5, <1>8, KeyNumbers
<1>10. Tree.ht[p] = Tree.ht[c] + 1 /\ Tree.ht[c] = node[c].height /\ node[c].height \in Nat
  <2>1. Tree.ht[p] = Tree.ht[c] + 1
    BY <1>5, <1>6, <1>7, <1>8, <1>9 DEF Good, Indexed
  <2>2. Tree.ht[c] = node[c].height /\ node[c].height \in Nat
    BY <1>1, <1>5, NodeFacts DEF Nodes
  <2> QED
    BY <2>1, <2>2
<1>11. node[c].height = treeDepth + 1 - level
  BY <1>2, <1>6, <1>8, <1>10
<1>12. p # c
  BY <1>8, <1>10
<1>13. c # root
  BY <1>2, <1>4, <1>7, <1>11
<1>14. Len(node[p].recs) > 1
  <2>1. treeDepth # 1
    BY <1>2, <1>3, <1>4
  <2> QED
    BY <2>1, <1>1, <1>5, <1>12 DEF Grown, Wide
<1> QED
  BY <1>2, <1>3, <1>4, <1>5, <1>6, <1>7, <1>9, <1>11, <1>12, <1>13, <1>14 DEF RebalanceReady, MyIdx, i, c, p

\* Two records in a row lead to neighbours on the level below.
LEMMA Neighbours ==
    ASSUME Types, Stocked, Good(Tree, root, {}, {}), NEW p \in used, node[p].height > 1,
           NEW j \in 1 .. Len(node[p].recs) - 1
    PROVE  Adjoin(Tree, p, node[p].recs[j].child, node[p].recs[j + 1].child, node[p].recs[j + 1])
<1> DEFINE s == node[p].recs
<1>1. /\ s \in Seq(Recs) /\ Len(s) \in Nat \ {0} /\ Ascending(s) /\ Tree.us = used
      /\ Tree.ht[p] = node[p].height /\ Tree.rs[p] = ToSet(s)
  BY NodeFacts
<1>2. j \in 1 .. Len(s) /\ j + 1 \in 1 .. Len(s) /\ j < j + 1 /\ j \in Nat
  BY <1>1
<1>3. s[j] \in Tree.rs[p] /\ s[j + 1] \in Tree.rs[p]
  BY <1>1, <1>2, KeyNumbers
<1>4. s[j].key < s[j + 1].key
  BY <1>1, <1>2, InKeyOrder
<1>5. ASSUME NEW x \in Tree.rs[p]
      PROVE  x.key <= s[j].key \/ s[j + 1].key <= x.key
  <2>1. PICK i \in 1 .. Len(s) : s[i] = x
    BY <1>1, KeyNumbers
  <2>2. s[i].key \in Nat /\ s[j].key \in Nat /\ s[j + 1].key \in Nat
    BY <1>1, <1>2, KeyNumbers
  <2>3. CASE i <= j
    <3>1. j < i <=> s[j].key < s[i].key
      BY <1>1, <1>2, InKeyOrder
    <3> QED
      BY <3>1, <2>1, <2>2, <2>3, <1>2
  <2>4. CASE i >= j + 1
    <3>1. i < j + 1 <=> s[i].key < s[j + 1].key
      BY <1>1, <1>2, InKeyOrder
    <3> QED
      BY <3>1, <2>1, <2>2, <2>4, <1>2
  <2> QED
    BY <2>3, <2>4, <1>1, <1>2
<1>6. p \in Tree.us /\ Tree.ht[p] > 1
  BY <1>1
<1> HIDE DEF s
<1>7. PICK a, b : a = s[j] /\ b = s[j + 1]
  OBVIOUS
<1>8. a \in Tree.rs[p] /\ b \in Tree.rs[p] /\ a.key < b.key /\ \A x \in Tree.rs[p] : x.key <= a.key \/ b.key <= x.key
  BY <1>3, <1>4, <1>5, <1>7
<1>9. Adjoin(Tree, p, a.child, b.child, b)
  BY <1>6, <1>8, NextDoor
<1> QED
  BY <1>7, <1>9 DEF s

\* A node that does not underflow has two records.
LEMMA FullEnough ==
    ASSUME NEW en, Sized(en), ~underflows(en)
    PROVE  Len(en.recs) > 1
BY FewRecords DEF underflows

\* rebalance keeps the invariant when it has nothing to do.
LEMMA RebalanceNoneKeeps ==
    ASSUME Kept, RebalanceNone, pool' = pool
    PROVE  Kept'
<1> DEFINE c == path[level]
<1>1. Types /\ Stocked /\ Grown /\ pc = "rebalance" /\ Thin = {c}
  BY DEF Kept, Bare, RebalanceNone, Thin
<1>2. c \in used /\ Good(Tree, root, {}, {}) /\ Holds(Tree, contents)
  BY <1>1, RebalancePlace DEF RebalanceReady
<1>3. Returns0
  BY ReturnIs DEF RebalanceNone
<1>4. /\ node' = node /\ used' = used /\ root' = root /\ firstLeaf' = firstLeaf /\ lastLeaf' = lastLeaf
      /\ treeDepth' = treeDepth /\ leafRecords' = leafRecords /\ contents' = contents
  BY DEF RebalanceNone, header
<1>5. ~underflows(node[c])
  BY DEF RebalanceNone, En
<1> HIDE DEF c
<1>6. Len(node[c].recs) > 1
  <2>1. Sized(node[c])
    BY <1>1, <1>2, NodeFacts
  <2> QED
    BY <2>1, <1>5, FullEnough
<1>7. Stocked'
  <2> DEFINE C == {}
  <2>1. /\ \A m \in NodeNums \ C : node'[m] = node[m] /\ (m \in used' <=> m \in used)
        /\ \A m \in C : IF m \in used' THEN InShape(node'[m]) ELSE node'[m] = Erased
        /\ used' \in SUBSET NodeNums
    BY <1>1, <1>4, MaxNodeAssumption DEF Types, NodeNums
  <2> HIDE DEF C
  <2> QED
    BY <2>1, <1>1, Restocks
<1>8. \A m \in used' : Len(node'[m].recs) > 1 \/ (m = root' /\ treeDepth' = 1)
  BY <1>1, <1>4, <1>6 DEF Grown, Wide
<1>9. Ends' /\ root' \in used' /\ treeDepth' = node'[root'].height
  BY <1>1, <1>4 DEF Grown, Ends
<1>10. Good(Tree', root', {}, {}) /\ Holds(Tree', contents')
  BY <1>2, <1>4 DEF Tree
<1>11. /\ node' \in [NodeNums -> Nodes] /\ used' \in SUBSET (1 .. pool)
       /\ root' \in 0 .. MaxNode /\ firstLeaf' \in 0 .. MaxNode /\ lastLeaf' \in 0 .. MaxNode /\ treeDepth' \in Nat
       /\ contents' \in SUBSET Keys /\ IsFiniteSet(contents') /\ leafRecords' = Cardinality(contents')
  BY <1>1, <1>4 DEF Types
<1> QED
  BY <1>1, <1>3, <1>7, <1>8, <1>9, <1>10, <1>11, ReturnKeeps

\* What a merge stores, when everything fits.
MergedNodes(p, l, r, left, parent) ==
    [x \in NodeNums |-> IF x = p THEN parent
                        ELSE IF x = r THEN Erased
                        ELSE IF x = l THEN left
                        ELSE IF x = node[r].FLink THEN [node[x] EXCEPT !.BLink = l]
                        ELSE node[x]]

MergeWrites(l, r, left) ==
    (IF node[r].FLink = 0 THEN <<>>
     ELSE <<<<node[r].FLink, [node[node[r].FLink] EXCEPT !.BLink = l]>>>>) \o <<<<l, left>>>>

\* A sequence of two.
LEMMA PairIs ==
    ASSUME NEW a, NEW b
    PROVE  <<a>> \o <<b>> = <<a, b>>
<1> DEFINE x == <<a>>
           y == <<b>>
           T == {a, b}
<1>1. x \in Seq(T) /\ y \in Seq(T) /\ Len(x) = 1 /\ Len(y) = 1 /\ x[1] = a /\ y[1] = b
  OBVIOUS
<1> HIDE DEF x, y, T
<1>2. PICK z : z = x \o y
  OBVIOUS
<1>3. z \in Seq(T) /\ IsJoin(z, x, y)
  BY <1>1, <1>2, Joined
<1>4. z \in Seq(T) /\ Len(z) = 2 /\ z[1] = a
  BY <1>1, <1>3 DEF IsJoin
<1>5. z[1 + 1] = b
  BY <1>1, <1>3 DEF IsJoin
<1>6. z = <<a, b>>
  BY <1>4, <1>5
<1> QED
  BY <1>2, <1>6 DEF x, y

\* What a merge stores.
LEMMA MergeStores ==
    ASSUME NEW p \in NodeNums, NEW l \in NodeNums, NEW r \in NodeNums, NEW left, NEW parent,
           p # l, p # r, l # r, recordsFit(left), recordsFit(parent),
           node[r].FLink # 0 => /\ node[r].FLink \in NodeNums /\ node[r].FLink # p
                                /\ node[r].FLink # l /\ node[r].FLink # r
                                /\ recordsFit([node[node[r].FLink] EXCEPT !.BLink = l])
    PROVE  Stored([Stored(node, MergeWrites(l, r, left)) EXCEPT ![r] = Erased], <<<<p, parent>>>>)
             = MergedNodes(p, l, r, left, parent)
<1> DEFINE f == node[r].FLink
           ff == [node[f] EXCEPT !.BLink = l]
           w == MergeWrites(l, r, left)
           a == Stored(node, w)
           b == [a EXCEPT ![r] = Erased]
           c == Stored(b, <<<<p, parent>>>>)
<1>1. a = [x \in NodeNums |-> IF x = l THEN left ELSE IF x = f THEN [node[x] EXCEPT !.BLink = l] ELSE node[x]]
  <2>1. CASE f = 0
    <3>1. w = <<>> \o <<<<l, left>>>>
      BY <2>1 DEF MergeWrites
    <3>2. w = <<<<l, left>>>>
      BY <3>1
    <3> HIDE DEF w
    <3>3. a = [x \in NodeNums |-> IF x = l THEN left ELSE node[x]]
      BY <3>2, StoredOne
    <3>4. \A x \in NodeNums : x # f
      BY <2>1 DEF NodeNums
    <3> QED
      BY <3>3, <3>4
  <2>2. CASE f # 0
    <3>1. w = <<<<f, ff>>>> \o <<<<l, left>>>>
      BY <2>2 DEF MergeWrites
    <3>2. f \in NodeNums /\ f # l /\ recordsFit(ff)
      BY <2>2
    <3> HIDE DEF w, ff, f
    <3>3. w = <<<<f, ff>>, <<l, left>>>>
      BY <3>1, PairIs, Zenon
    <3>4. a = [x \in NodeNums |-> IF x = f THEN ff ELSE IF x = l THEN left ELSE node[x]]
      BY <3>2, <3>3, StoredTwo
    <3>5. \A x \in NodeNums : (IF x = f THEN ff ELSE IF x = l THEN left ELSE node[x])
                   = (IF x = l THEN left ELSE IF x = f THEN [node[x] EXCEPT !.BLink = l] ELSE node[x])
      BY <3>2 DEF ff
    <3> QED
      BY <3>4, <3>5
  <2> QED
    BY <2>1, <2>2
<1> HIDE DEF a, f
<1>2. b = [x \in NodeNums |-> IF x = r THEN Erased ELSE IF x = l THEN left
                              ELSE IF x = f THEN [node[x] EXCEPT !.BLink = l] ELSE node[x]]
  BY <1>1
<1> HIDE DEF b
<1>3. c = [x \in NodeNums |-> IF x = p THEN parent ELSE b[x]]
  BY StoredOne
<1> HIDE DEF c
<1>4. c = [x \in NodeNums |-> IF x = p THEN parent ELSE IF x = r THEN Erased ELSE IF x = l THEN left
                              ELSE IF x = f THEN [node[x] EXCEPT !.BLink = l] ELSE node[x]]
  BY <1>2, <1>3
<1>5. MergedNodes(p, l, r, left, parent)
        = [x \in NodeNums |-> IF x = p THEN parent ELSE IF x = r THEN Erased ELSE IF x = l THEN left
                              ELSE IF x = f THEN [node[x] EXCEPT !.BLink = l] ELSE node[x]]
  BY Zenon DEF MergedNodes, f
<1> QED
  BY <1>4, <1>5 DEF a, b, c, f

MergedLeft(l, r) == [node[l] EXCEPT !.recs = @ \o node[r].recs, !.FLink = node[r].FLink]

MergedParent(p, l, r, sep) ==
    [node[p] EXCEPT !.recs =
        [RemoveAt(@, sep + 1) EXCEPT ![sep] = indexRecord(FirstKey(MergedLeft(l, r)), l)]]

\* Two neighbours under one parent.
Beside(p, l, r, j) ==
    /\ j \in 1 .. Len(node[p].recs) - 1
    /\ l = node[p].recs[j].child /\ r = node[p].recs[j + 1].child

IsBeside(p, l, r, j) ==
    /\ l \in used /\ r \in used /\ p \in used
    /\ l # r /\ p # l /\ p # r /\ l # root /\ r # root
    /\ node[p].height = node[l].height + 1 /\ node[r].height = node[l].height
    /\ node[r].kind = node[l].kind
    /\ node[l].FLink = r /\ node[r].BLink # 0
    /\ node[l].height \in Nat
    /\ Tree.lo[l] < Tree.lo[r]
    /\ node[p].recs[j] = indexRecord(Tree.lo[l], l)
    /\ node[p].recs[j + 1] = indexRecord(Tree.lo[r], r)
    /\ \A x \in Tree.rs[l], y \in Tree.rs[r] : x.key < y.key
    /\ node[r].FLink # 0 =>
          /\ node[r].FLink \in used /\ node[node[r].FLink].BLink # 0
          /\ node[r].FLink # p /\ node[r].FLink # l /\ node[r].FLink # r

\* Two children of one parent, one beside the other.
LEMMA BesideFacts ==
    ASSUME Types, Stocked, Good(Tree, root, {}, {}), NEW p \in used, node[p].height > 1,
           NEW l, NEW r, NEW j, Beside(p, l, r, j)
    PROVE  IsBeside(p, l, r, j) /\ Adjoin(Tree, p, l, r, node[p].recs[j + 1])
<1> DEFINE s == node[p].recs
           rm == s[j + 1]
           t == Tree
<1>1. j \in 1 .. Len(s) - 1 /\ l = s[j].child /\ r = s[j + 1].child
  BY DEF Beside
<1>2. Adjoin(t, p, l, r, rm)
  BY <1>1, Neighbours
<1>3. /\ s \in Seq(Recs) /\ Len(s) \in Nat \ {0} /\ t.us = used
      /\ t.ht[p] = node[p].height /\ t.rs[p] = ToSet(s)
  BY NodeFacts
<1>4. j \in 1 .. Len(s) /\ j + 1 \in 1 .. Len(s)
  BY <1>1, <1>3
<1>5. s[j] \in Recs /\ s[j + 1] \in Recs /\ s[j] \in t.rs[p]
  BY <1>3, <1>4, KeyNumbers
<1> HIDE DEF rm, s, t
<1>6. Good(t, root, {}, {})
  BY DEF t
<1>7. /\ p \in t.us /\ l \in t.us /\ r \in t.us
      /\ t.ht[p] = t.ht[l] + 1 /\ t.ht[r] = t.ht[l]
      /\ l # r /\ p # l /\ p # r
      /\ rm.key = t.lo[r]
      /\ t.lo[l] < t.lo[r]
      /\ \A x \in t.rs[l] : x.key < t.lo[r]
      /\ \A x \in t.rs[r] : t.lo[r] <= x.key
      /\ r # root /\ l # root
  BY <1>2, <1>6, Adjoining
<1>8. /\ \A x \in t.us : t.lo[x] \in Nat /\ t.ht[x] \in Nat
      /\ \A x \in t.us : \A y \in t.rs[x] : y.key \in Nat
  BY <1>6, TreeNumbers DEF Good
<1>9. /\ t.ht[l] = node[l].height /\ t.fl[l] = node[l].FLink /\ node[l].kind = IF node[l].height = 1 THEN "leaf" ELSE "index"
  BY <1>3, <1>7, NodeFacts DEF t
<1>10. /\ t.ht[r] = node[r].height /\ t.fl[r] = node[r].FLink /\ t.bl[r] = node[r].BLink
       /\ node[r].kind = IF node[r].height = 1 THEN "leaf" ELSE "index"
  BY <1>3, <1>7, NodeFacts DEF t
<1>11. t.fl[l] = r
  BY <1>2 DEF Adjoin
<1>12. l \in Peers(t, r) /\ r \in Peers(t, l)
  BY <1>7 DEF Peers
<1>13. t.bl[r] # 0
  <2> SUFFICES ASSUME t.bl[r] = 0 PROVE FALSE
    OBVIOUS
  <2>1. t.lo[r] < t.lo[l]
    BY <1>6, <1>7, <1>12 DEF Good, Linked
  <2> QED
    BY <2>1, <1>7, <1>8
<1>14. s[j].key = t.lo[l]
  BY <1>1, <1>3, <1>5, <1>6, <1>7 DEF Good, Indexed
<1>15. s[j] = indexRecord(t.lo[l], l) /\ s[j + 1] = indexRecord(t.lo[r], r)
  BY <1>1, <1>5, <1>7, <1>14 DEF Recs, indexRecord, rm
<1>16. ASSUME NEW x \in t.rs[l], NEW y \in t.rs[r]
       PROVE  x.key < y.key
  BY <1>7, <1>8
<1>17. ASSUME t.fl[r] # 0
       PROVE  /\ t.fl[r] \in used /\ node[t.fl[r]].BLink # 0
              /\ t.fl[r] # p /\ t.fl[r] # l /\ t.fl[r] # r
  <2> DEFINE f == t.fl[r]
  <2>1. f \in Peers(t, r) /\ t.lo[r] < t.lo[f]
    BY <1>6, <1>7, <1>17 DEF Good, Linked
  <2>2. f \in t.us /\ t.ht[f] = t.ht[r] /\ f # r
    BY <2>1 DEF Peers
  <2> HIDE DEF f
  <2>3. f # p
    BY <2>2, <1>7, <1>8
  <2>4. f # l
    BY <2>1, <2>2, <1>7, <1>8
  <2>5. t.bl[f] # 0
    <3> SUFFICES ASSUME t.bl[f] = 0 PROVE FALSE
      OBVIOUS
    <3>1. r \in Peers(t, f)
      BY <2>2, <1>7 DEF Peers
    <3>2. t.lo[f] < t.lo[r]
      BY <3>1, <2>2, <1>6 DEF Good, Linked
    <3> QED
      BY <3>2, <2>1, <2>2, <1>7, <1>8
  <2>6. f \in used /\ t.bl[f] = node[f].BLink
    BY <2>2, <1>3, NodeFacts DEF t
  <2> QED
    BY <2>2, <2>3, <2>4, <2>5, <2>6 DEF f
<1>18. node[l].height \in Nat
  BY <1>7, <1>8, <1>9
<1>19. /\ l \in used /\ r \in used
       /\ node[p].height = node[l].height + 1 /\ node[r].height = node[l].height
       /\ node[r].kind = node[l].kind
       /\ node[l].FLink = r /\ node[r].BLink # 0
  BY <1>3, <1>7, <1>9, <1>10, <1>11, <1>13
<1>20. node[r].FLink # 0 =>
          /\ node[r].FLink \in used /\ node[node[r].FLink].BLink # 0
          /\ node[r].FLink # p /\ node[r].FLink # l /\ node[r].FLink # r
  BY <1>10, <1>17
<1>21. IsBeside(p, l, r, j)
  BY <1>7, <1>15, <1>16, <1>18, <1>19, <1>20 DEF IsBeside, s, t
<1> QED
  BY <1>2, <1>21 DEF rm, s, t

IsMergedLeft(l, r) ==
    LET left == MergedLeft(l, r)
    IN  /\ left \in Nodes /\ InShape(left)
        /\ left.kind = node[l].kind /\ left.height = node[l].height
        /\ left.BLink = node[l].BLink /\ left.FLink = node[r].FLink
        /\ ToSet(left.recs) = Tree.rs[l] \cup Tree.rs[r]
        /\ left.recs[1] = node[l].recs[1] /\ FirstKey(left) = Tree.lo[l]
        /\ Len(left.recs) > 1

\* The left node after a merge: both nodes' records, in order, and they fit.
LEMMA MergeLeftIs ==
    ASSUME Types, Stocked, NEW p, NEW l, NEW r, NEW j, IsBeside(p, l, r, j), combinedFits(node[l], node[r])
    PROVE  IsMergedLeft(l, r)
<1> DEFINE s == node[l].recs
           v == node[r].recs
           q == s \o v
           left == MergedLeft(l, r)
           a == Len(s)
           b == Len(v)
<1>1. /\ l \in used /\ r \in used /\ node[r].kind = node[l].kind
      /\ \A x \in Tree.rs[l], y \in Tree.rs[r] : x.key < y.key
  BY DEF IsBeside
<1>2. /\ node[l] \in Nodes /\ s \in Seq(Recs) /\ a \in Nat \ {0} /\ Sized(node[l])
      /\ Tree.lo[l] = s[1].key /\ Lists(s, Tree.rs[l], a)
      /\ node[l].kind = IF node[l].height = 1 THEN "leaf" ELSE "index"
  BY <1>1, NodeFacts, NodeLists
<1>3. /\ node[r] \in Nodes /\ v \in Seq(Recs) /\ b \in Nat \ {0} /\ Sized(node[r])
      /\ Lists(v, Tree.rs[r], b)
  BY <1>1, NodeFacts, NodeLists
<1>4. Lists(q, Tree.rs[l] \cup Tree.rs[r], a + b) /\ q[1] = s[1]
  <2> DEFINE S == Tree.rs[l]
             T == Tree.rs[r]
  <2>1. \A x \in S, y \in T : x.key < y.key
    BY <1>1
  <2>2. Lists(s, S, a) /\ Lists(v, T, b) /\ a \in Nat \ {0} /\ b \in Nat
    BY <1>2, <1>3
  <2> HIDE DEF S, T, a, b, s, v
  <2>3. IsJoined(s \o v, s, S \cup T, a + b)
    BY <2>1, <2>2, JoinLists
  <2> QED
    BY <2>3 DEF S, T, IsJoined
<1>5. left = [node[l] EXCEPT !.recs = q, !.FLink = node[r].FLink]
  BY DEF MergedLeft
<1>6. PICK z : z = q
  OBVIOUS
<1>7. z \in Seq(Recs) /\ Ascending(z) /\ ToSet(z) = Tree.rs[l] \cup Tree.rs[r] /\ Len(z) = a + b /\ z[1] = s[1]
  BY <1>4, <1>6 DEF Lists
<1>8. left = [node[l] EXCEPT !.recs = z, !.FLink = node[r].FLink]
  BY <1>5, <1>6
<1> HIDE DEF left, q
<1>9. /\ left \in Nodes /\ left.recs = z /\ left.kind = node[l].kind /\ left.height = node[l].height
      /\ left.BLink = node[l].BLink /\ left.FLink = node[r].FLink
  BY <1>2, <1>3, <1>7, <1>8 DEF Nodes
<1>10. usedBytes(left) = usedBytes(node[l]) + usedBytes(node[r])
  <2>1. left.recs = node[l].recs \o node[r].recs
    BY <1>6, <1>9 DEF q
  <2>2. Sized(node[l]) /\ Sized(node[r]) /\ node[r].kind = node[l].kind /\ left.kind = node[l].kind
    BY <1>1, <1>2, <1>3, <1>9
  <2> QED
    BY <2>1, <2>2, ConcatBytes, ZenonT(30)
<1>11. recordsFit(left)
  BY <1>10 DEF combinedFits, recordsFit
<1>12. a + b > 1
  <2>1. PICK x, y : x = a /\ y = b
    OBVIOUS
  <2>2. x \in Nat \ {0} /\ y \in Nat \ {0}
    BY <2>1, <1>2, <1>3
  <2>3. x + y > 1
    BY <2>2
  <2> QED
    BY <2>1, <2>3
<1>13. z # <<>> /\ Len(z) > 1
  <2>1. Len(z) > 1
    BY <1>7, <1>12
  <2>2. z # <<>>
    BY <2>1
  <2> QED
    BY <2>1, <2>2
<1>14. FirstKey(left) = Tree.lo[l]
  BY <1>2, <1>7, <1>9 DEF FirstKey
<1>15. InShape(left)
  BY <1>2, <1>7, <1>9, <1>11, <1>13 DEF InShape
<1> QED
  BY <1>7, <1>9, <1>13, <1>14, <1>15 DEF IsMergedLeft, left

IsMergedParent(p, l, r, j) ==
    LET parent == MergedParent(p, l, r, j)
    IN  /\ parent \in Nodes /\ InShape(parent)
        /\ parent.kind = node[p].kind /\ parent.height = node[p].height
        /\ parent.BLink = node[p].BLink /\ parent.FLink = node[p].FLink
        /\ ToSet(parent.recs) = Tree.rs[p] \ {node[p].recs[j + 1]}
        /\ parent.recs[1] = node[p].recs[1]
        /\ Sized(parent)
        /\ Len(parent.recs) = Len(node[p].recs) - 1

\* The parent after a merge: the right node's record is gone.
LEMMA MergeParentIs ==
    ASSUME Types, Stocked, NEW p \in used, NEW l, NEW r, NEW j, Beside(p, l, r, j), IsBeside(p, l, r, j),
           IsMergedLeft(l, r)
    PROVE  IsMergedParent(p, l, r, j)
<1> DEFINE s == node[p].recs
           i == j + 1
           q == RemoveAt(s, i)
           n == Len(s)
           parent == MergedParent(p, l, r, j)
<1>1. j \in 1 .. n - 1 /\ s[j] = indexRecord(Tree.lo[l], l)
  <2>1. j \in 1 .. n - 1
    BY DEF Beside
  <2>2. s[j] = indexRecord(Tree.lo[l], l)
    BY Zenon DEF IsBeside
  <2> QED
    BY <2>1, <2>2
<1>2. /\ node[p] \in Nodes /\ s \in Seq(Recs) /\ n \in Nat \ {0} /\ Sized(node[p]) /\ recordsFit(node[p])
      /\ Lists(s, Tree.rs[p], n)
      /\ node[p].kind = IF node[p].height = 1 THEN "leaf" ELSE "index"
  BY NodeFacts, NodeLists
<1>3. FirstKey(MergedLeft(l, r)) = Tree.lo[l]
  BY DEF IsMergedLeft
<1>4. i \in 1 .. n /\ i > 1 /\ n > 1 /\ j \in 1 .. i - 1 /\ n - 1 \in Nat \ {0} /\ j \in 1 .. n - 1
  <2>1. PICK z : z = n
    OBVIOUS
  <2>2. z \in Nat \ {0} /\ j \in 1 .. z - 1
    BY <2>1, <1>1, <1>2
  <2>3. j + 1 \in 1 .. z /\ j + 1 > 1 /\ z > 1 /\ j \in 1 .. (j + 1) - 1 /\ z - 1 \in Nat \ {0} /\ j \in 1 .. z - 1
    BY <2>2
  <2> QED
    BY <2>1, <2>3
<1> HIDE DEF i
<1>5. Lists(q, Tree.rs[p] \ {s[i]}, n - 1) /\ q[1] = s[1]
  BY <1>2, <1>4, RemoveLists
<1>6. q \in Seq(Recs) /\ Len(q) = n - 1 /\ q[j] = s[j]
  BY <1>2, <1>4, RemoveKeeps
<1>7. parent = [node[p] EXCEPT !.recs = [q EXCEPT ![j] = indexRecord(Tree.lo[l], l)]]
  BY <1>3 DEF MergedParent, i
<1>8. PICK z : z = q
  OBVIOUS
<1>9. /\ z \in Seq(Recs) /\ Len(z) = n - 1 /\ z[j] = indexRecord(Tree.lo[l], l) /\ z[1] = s[1]
      /\ Ascending(z) /\ ToSet(z) = Tree.rs[p] \ {s[i]} /\ z = RemoveAt(node[p].recs, i)
  BY <1>1, <1>5, <1>6, <1>8 DEF Lists
<1>10. [z EXCEPT ![j] = indexRecord(Tree.lo[l], l)] = z
  BY <1>9
<1>11. parent = [node[p] EXCEPT !.recs = z]
  BY <1>7, <1>8, <1>10
<1> HIDE DEF parent, q
<1>12. /\ parent \in Nodes /\ parent.recs = z /\ parent.kind = node[p].kind /\ parent.height = node[p].height
       /\ parent.BLink = node[p].BLink /\ parent.FLink = node[p].FLink
  BY <1>2, <1>9, <1>11 DEF Nodes
<1>13. Sized(parent) /\ usedBytes(parent) <= usedBytes(node[p])
  BY <1>2, <1>4, <1>9, <1>12, RemoveBytes
<1>14. recordsFit(parent)
  <2>1. usedBytes(parent) \in Nat /\ usedBytes(node[p]) \in Nat /\ NodeSize \in Nat
    BY <1>2, <1>13, FewRecords
  <2> QED
    BY <2>1, <1>2, <1>13 DEF recordsFit
<1>15. z # <<>>
  BY <1>4, <1>9
<1>16. InShape(parent)
  BY <1>2, <1>9, <1>12, <1>14, <1>15 DEF InShape
<1> QED
  BY <1>9, <1>12, <1>13, <1>16 DEF IsMergedParent, parent, i

MergeResult(p, l, r, j) == MergedNodes(p, l, r, MergedLeft(l, r), MergedParent(p, l, r, j))

IsMerged(p, l, r, j) ==
    LET e == MergeResult(p, l, r, j)
        f == node[r].FLink
    IN  /\ e \in [NodeNums -> Nodes]
        /\ e[p] = MergedParent(p, l, r, j) /\ e[l] = MergedLeft(l, r) /\ e[r] = Erased
        /\ \A x \in NodeNums \ {p, l, r} :
              /\ e[x].recs = node[x].recs /\ e[x].height = node[x].height
              /\ e[x].kind = node[x].kind /\ e[x].FLink = node[x].FLink
              /\ x # f => e[x] = node[x]
              /\ x = f => e[x].BLink = l
        /\ f # 0 => recordsFit([node[f] EXCEPT !.BLink = l]) /\ InShape(e[f])

\* All nodes after a merge.
LEMMA MergeNodesAre ==
    ASSUME Types, Stocked, NEW p \in used, NEW l, NEW r, NEW j, IsBeside(p, l, r, j),
           IsMergedLeft(l, r), IsMergedParent(p, l, r, j)
    PROVE  IsMerged(p, l, r, j)
<1> DEFINE f == node[r].FLink
           left == MergedLeft(l, r)
           parent == MergedParent(p, l, r, j)
           e == MergeResult(p, l, r, j)
<1>1. /\ l \in used /\ r \in used /\ l # r /\ p # l /\ p # r
      /\ f # 0 => f \in used /\ f # p /\ f # l /\ f # r
  BY DEF IsBeside
<1>2. /\ p \in NodeNums /\ l \in NodeNums /\ r \in NodeNums /\ 0 \notin NodeNums
      /\ node \in [NodeNums -> Nodes]
  <2>1. p \in NodeNums /\ l \in NodeNums /\ r \in NodeNums
    BY <1>1, NodeFacts
  <2> QED
    BY <2>1 DEF Types, NodeNums
<1>3. left \in Nodes /\ parent \in Nodes
  BY DEF IsMergedLeft, IsMergedParent
<1>4. Erased \in Nodes
  BY MaxNodeAssumption DEF Erased, Nodes
<1>5. l \in 0 .. MaxNode
  BY <1>2, MaxNodeAssumption DEF NodeNums
<1> DEFINE g(x) == [node[x] EXCEPT !.BLink = l]
<1>6. \A x \in NodeNums : /\ g(x) \in Nodes /\ g(x).recs = node[x].recs /\ g(x).height = node[x].height
                          /\ g(x).kind = node[x].kind /\ g(x).FLink = node[x].FLink /\ g(x).BLink = l
  BY <1>2, <1>5 DEF Nodes
<1>7. e = [x \in NodeNums |-> IF x = p THEN parent
                        ELSE IF x = r THEN Erased
                        ELSE IF x = l THEN left
                        ELSE IF x = f THEN g(x)
                        ELSE node[x]]
  BY Zenon DEF MergeResult, MergedNodes
<1> HIDE DEF e, f, left, parent, g
<1>8. /\ e \in [NodeNums -> Nodes]
      /\ e[p] = parent /\ e[l] = left /\ e[r] = Erased
      /\ \A x \in NodeNums \ {p, l, r} : e[x] = IF x = f THEN g(x) ELSE node[x]
  BY <1>1, <1>2, <1>3, <1>4, <1>6, <1>7
<1>9. \A x \in NodeNums \ {p, l, r} :
          /\ e[x].recs = node[x].recs /\ e[x].height = node[x].height
          /\ e[x].kind = node[x].kind /\ e[x].FLink = node[x].FLink
          /\ x # f => e[x] = node[x]
          /\ x = f => e[x].BLink = l
  BY <1>6, <1>8
<1>10. ASSUME f # 0
       PROVE  recordsFit(g(f)) /\ InShape(e[f])
  <2>1. f \in used /\ f \in NodeNums \ {p, l, r}
    BY <1>1, <1>10, NodeFacts
  <2>2. /\ recordsFit(node[f]) /\ Ascending(node[f].recs) /\ node[f].recs # <<>>
        /\ node[f].kind = IF node[f].height = 1 THEN "leaf" ELSE "index"
    BY <2>1, NodeFacts
  <2>3. usedBytes(g(f)) = usedBytes(node[f])
    BY <2>1, <1>6, SameBytes
  <2>4. recordsFit(g(f))
    BY <2>2, <2>3 DEF recordsFit
  <2>5. e[f] = g(f)
    BY <2>1, <1>8
  <2> QED
    BY <2>1, <2>2, <2>4, <2>5, <1>6 DEF InShape
<1> QED
  BY <1>8, <1>9, <1>10 DEF IsMerged, e, f, left, parent, g

\* The tree after a merge is good and has the same keys.
LEMMA MergePlace ==
    ASSUME Types, Stocked, Good(Tree, root, {}, {}), Holds(Tree, contents), NEW p \in used, node[p].height > 1,
           NEW l, NEW r, NEW j, Beside(p, l, r, j), combinedFits(node[l], node[r])
    PROVE  /\ IsBeside(p, l, r, j) /\ IsMergedLeft(l, r) /\ IsMergedParent(p, l, r, j) /\ IsMerged(p, l, r, j)
           /\ Good(View(MergeResult(p, l, r, j), used \ {r}), root, {}, {})
           /\ Holds(View(MergeResult(p, l, r, j), used \ {r}), contents)
<1> DEFINE e == MergeResult(p, l, r, j)
           us == used \ {r}
           u == View(e, us)
           rm == node[p].recs[j + 1]
           f == node[r].FLink
<1>1. IsBeside(p, l, r, j) /\ Adjoin(Tree, p, l, r, rm)
  BY BesideFacts
<1>2. IsMergedLeft(l, r)
  BY <1>1, MergeLeftIs
<1>3. IsMergedParent(p, l, r, j)
  BY <1>1, <1>2, MergeParentIs
<1>4. IsMerged(p, l, r, j)
  BY <1>1, <1>2, <1>3, MergeNodesAre
<1>5. /\ l \in used /\ r \in used /\ l # r /\ p # l /\ p # r
      /\ f # 0 => f \in used /\ f # p /\ f # l /\ f # r
  BY <1>1 DEF IsBeside
<1>6. p \in NodeNums /\ l \in NodeNums /\ r \in NodeNums /\ us \in SUBSET NodeNums /\ used \subseteq NodeNums
      /\ node \in [NodeNums -> Nodes] /\ 0 \notin NodeNums
  <2>1. \A x \in used : x \in NodeNums
    BY NodeFacts
  <2> QED
    BY <2>1, <1>5 DEF Types, NodeNums
<1>7. /\ e \in [NodeNums -> Nodes]
      /\ e[p] = MergedParent(p, l, r, j) /\ e[l] = MergedLeft(l, r)
      /\ \A x \in NodeNums \ {p, l, r} :
              /\ e[x].recs = node[x].recs /\ e[x].height = node[x].height
              /\ e[x].FLink = node[x].FLink
              /\ x # f => e[x] = node[x]
              /\ x = f => e[x].BLink = l
  BY <1>4 DEF IsMerged
<1> HIDE DEF e, us
<1>8. /\ TreeType(u)
      /\ u.us = us
      /\ \A n \in NodeNums :
            /\ u.ht[n] = e[n].height
            /\ u.rs[n] = ToSet(e[n].recs)
            /\ u.lo[n] = IF e[n].recs = <<>> THEN 0 ELSE e[n].recs[1].key
            /\ u.fl[n] = e[n].FLink
            /\ u.bl[n] = e[n].BLink
  BY <1>6, <1>7, ViewFacts
<1> HIDE DEF u
<1>9. \A x \in used :
            /\ Tree.us = used /\ Tree.ht[x] = node[x].height /\ Tree.rs[x] = ToSet(node[x].recs)
            /\ Tree.lo[x] = node[x].recs[1].key /\ Tree.fl[x] = node[x].FLink /\ Tree.bl[x] = node[x].BLink
            /\ node[x].recs # <<>>
  BY NodeFacts
<1>10. /\ u.ht[l] = Tree.ht[l] /\ u.lo[l] = Tree.lo[l] /\ u.rs[l] = Tree.rs[l] \cup Tree.rs[r]
       /\ u.fl[l] = f /\ u.bl[l] = Tree.bl[l]
  <2>1. /\ e[l].height = node[l].height /\ e[l].BLink = node[l].BLink /\ e[l].FLink = f
        /\ ToSet(e[l].recs) = Tree.rs[l] \cup Tree.rs[r]
        /\ e[l].recs[1] = node[l].recs[1] /\ e[l].recs # <<>>
    BY <1>2, <1>7 DEF IsMergedLeft, InShape
  <2> QED
    BY <2>1, <1>5, <1>6, <1>8, <1>9
<1>11. /\ u.ht[p] = Tree.ht[p] /\ u.lo[p] = Tree.lo[p] /\ u.rs[p] = Tree.rs[p] \ {rm}
       /\ u.fl[p] = Tree.fl[p] /\ u.bl[p] = Tree.bl[p]
  <2>1. /\ e[p].height = node[p].height /\ e[p].BLink = node[p].BLink /\ e[p].FLink = node[p].FLink
        /\ ToSet(e[p].recs) = Tree.rs[p] \ {rm}
        /\ e[p].recs[1] = node[p].recs[1] /\ e[p].recs # <<>>
    BY <1>3, <1>7 DEF IsMergedParent, InShape
  <2> QED
    BY <2>1, <1>5, <1>6, <1>8, <1>9
<1>12. ASSUME NEW x \in us, x # l, x # p
       PROVE  /\ u.ht[x] = Tree.ht[x] /\ u.lo[x] = Tree.lo[x] /\ u.rs[x] = Tree.rs[x]
              /\ u.fl[x] = Tree.fl[x]
              /\ x # f => u.bl[x] = Tree.bl[x]
              /\ x = f => u.bl[x] = l
  <2>1. x \in used /\ x \in NodeNums \ {p, l, r}
    BY <1>6, <1>12 DEF us
  <2> QED
    BY <2>1, <1>7, <1>8, <1>9
<1>13. Tree.fl[r] = f /\ Tree.us = used
  BY <1>5, <1>9
<1>14. Merges(Tree, u, p, l, r, rm)
  <2>1. u.us = Tree.us \ {r} /\ \A x \in u.us : x \in us
    BY <1>8, <1>13 DEF us
  <2>2. \A x \in u.us : u.ht[x] = Tree.ht[x] /\ u.lo[x] = Tree.lo[x]
    BY <2>1, <1>10, <1>11, <1>12
  <2>3. \A x \in u.us \ {l, p} : u.rs[x] = Tree.rs[x]
    BY <2>1, <1>12
  <2>4. u.fl[l] = Tree.fl[r] /\ \A x \in u.us \ {l} : u.fl[x] = Tree.fl[x]
    BY <2>1, <1>10, <1>11, <1>12, <1>13
  <2>5. Tree.fl[r] # 0 => u.bl[Tree.fl[r]] = l
    BY <1>5, <1>12, <1>13 DEF us
  <2>6. \A x \in u.us \ {Tree.fl[r]} : u.bl[x] = Tree.bl[x]
    BY <2>1, <1>10, <1>11, <1>12, <1>13
  <2> QED
    BY <2>1, <2>2, <2>3, <2>4, <2>5, <2>6, <1>1, <1>8, <1>10, <1>11, Zenon DEF Merges
<1>15. Good(u, root, {}, {})
  BY <1>14, MergeKeeps
<1>16. Holds(u, contents)
  BY <1>14, MergeHolds
<1> QED
  BY <1>1, <1>2, <1>3, <1>4, <1>15, <1>16 DEF e, us, u

\* What a merge leaves, before the parent is looked at.
MergeLeaves(p, l, r) ==
    /\ node' \in [NodeNums -> Nodes] /\ used' = used \ {r} /\ Stocked'
    /\ root' = root /\ treeDepth' = treeDepth /\ firstLeaf' = firstLeaf /\ leafRecords' = leafRecords
    /\ contents' = contents /\ lastLeaf' \in 0 .. MaxNode
    /\ Good(Tree', root', {}, {}) /\ Holds(Tree', contents')
    /\ Ends'
    /\ root' \in used' /\ treeDepth' = node'[root'].height
    /\ \A m \in used' \ {p} : Len(node'[m].recs) > 1
    /\ \A x \in NodeNums \ {p, l, r} : node'[x].recs = node[x].recs /\ node'[x].height = node[x].height
    /\ Sized(node'[p])

\* The whole state after a merge.
LEMMA MergeLeavesIs ==
    ASSUME Kept, pc = "rebalance", NEW l, NEW r, NEW j, path[level] \in {l, r},
           Beside(path[level - 1], l, r, j), combinedFits(node[l], node[r]), merge(l, r, j)
    PROVE  MergeLeaves(path[level - 1], l, r)
<1> DEFINE p == path[level - 1]
           c == path[level]
           e == MergeResult(p, l, r, j)
           left == MergedLeft(l, r)
           parent == MergedParent(p, l, r, j)
           f == node[r].FLink
<1>1. Types /\ Stocked /\ Grown /\ Thin = {c} /\ RebalanceReady
  BY RebalancePlace DEF Kept, Bare, Thin
<1>2. /\ level \in Nat /\ level > 1 /\ treeDepth \in Nat /\ level <= treeDepth
      /\ p \in used /\ node[p].height = treeDepth + 2 - level
      /\ Good(Tree, root, {}, {}) /\ Holds(Tree, contents)
  BY <1>1 DEF RebalanceReady
<1>3. node[p].height > 1 /\ treeDepth # 1
  BY <1>2
<1>4. /\ node' = Stored([Stored(node, MergeWrites(l, r, left)) EXCEPT ![r] = Erased], <<<<p, parent>>>>)
      /\ used' = used \ {r}
      /\ lastLeaf' = IF f = 0 /\ left.kind = "leaf" THEN l ELSE lastLeaf
      /\ root' = root /\ firstLeaf' = firstLeaf /\ treeDepth' = treeDepth
      /\ leafRecords' = leafRecords /\ contents' = contents
  BY DEF merge, MergeWrites, MergedLeft, MergedParent, Parent
<1>5. /\ IsBeside(p, l, r, j) /\ IsMergedLeft(l, r) /\ IsMergedParent(p, l, r, j) /\ IsMerged(p, l, r, j)
      /\ Good(View(e, used \ {r}), root, {}, {})
      /\ Holds(View(e, used \ {r}), contents)
  <2> HIDE DEF p
  <2>1. Beside(p, l, r, j)
    BY DEF p
  <2> QED
    BY <2>1, <1>1, <1>2, <1>3, MergePlace
<1> HIDE DEF p, c
<1>6. /\ l \in used /\ r \in used /\ l # r /\ p # l /\ p # r /\ l # root /\ r # root
      /\ node[l].FLink = r /\ node[r].BLink # 0
      /\ node[p].height = node[l].height + 1 /\ node[r].height = node[l].height /\ node[l].height \in Nat
      /\ f # 0 => f \in used /\ f # p /\ f # l /\ f # r /\ node[f].BLink # 0
  BY <1>5 DEF IsBeside
<1>7. /\ p \in NodeNums /\ l \in NodeNums /\ r \in NodeNums /\ used \subseteq NodeNums /\ 0 \notin NodeNums
      /\ f # 0 => f \in NodeNums
  <2>1. \A x \in used : x \in NodeNums
    BY <1>1, NodeFacts
  <2> QED
    BY <2>1, <1>2, <1>6 DEF NodeNums
<1>8. InShape(left) /\ InShape(parent) /\ Sized(parent)
  BY <1>5 DEF IsMergedLeft, IsMergedParent
<1>9. /\ e \in [NodeNums -> Nodes]
      /\ e[p] = parent /\ e[l] = left /\ e[r] = Erased
      /\ \A x \in NodeNums \ {p, l, r} :
              /\ e[x].recs = node[x].recs /\ e[x].height = node[x].height
              /\ e[x].kind = node[x].kind /\ e[x].FLink = node[x].FLink
              /\ x # f => e[x] = node[x]
              /\ x = f => e[x].BLink = l
      /\ f # 0 => recordsFit([node[f] EXCEPT !.BLink = l]) /\ InShape(e[f])
  BY <1>5 DEF IsMerged
<1> HIDE DEF left, parent
<1>10. node' = e
  <2>1. recordsFit(left) /\ recordsFit(parent)
    BY <1>8 DEF InShape
  <2>2. node[r].FLink # 0 => /\ node[r].FLink \in NodeNums /\ node[r].FLink # p
                             /\ node[r].FLink # l /\ node[r].FLink # r
                             /\ recordsFit([node[node[r].FLink] EXCEPT !.BLink = l])
    BY <1>6, <1>7, <1>9
  <2>4. Stored([Stored(node, MergeWrites(l, r, left)) EXCEPT ![r] = Erased], <<<<p, parent>>>>)
          = MergedNodes(p, l, r, left, parent)
    BY <2>1, <2>2, <1>6, <1>7, MergeStores
  <2>3. node' = MergedNodes(p, l, r, left, parent)
    BY <2>4, <1>4
  <2> QED
    BY <2>3 DEF MergeResult, left, parent
<1> HIDE DEF e
<1>11. Good(Tree', root', {}, {}) /\ Holds(Tree', contents')
  BY <1>4, <1>5, <1>10 DEF Tree
<1> HIDE DEF f
<1>12. Stocked'
  <2> DEFINE C == {p, l, r, f} \cap NodeNums
  <2>1. ASSUME NEW m \in NodeNums \ C
        PROVE  node'[m] = node[m] /\ (m \in used' <=> m \in used)
    BY <1>4, <1>9, <1>10
  <2>2. ASSUME NEW m \in C
        PROVE  IF m \in used' THEN InShape(node'[m]) ELSE node'[m] = Erased
    <3>1. m = r => m \notin used' /\ node'[m] = Erased
      BY <1>4, <1>9, <1>10
    <3>2. m # r => m \in used' /\ InShape(node'[m])
      <4>1. m # r => m \in used'
        BY <1>2, <1>4, <1>6, <1>7
      <4>2. m # r => InShape(node'[m])
        BY <1>6, <1>7, <1>8, <1>9, <1>10
      <4> QED
        BY <4>1, <4>2
    <3> QED
      BY <3>1, <3>2
  <2>3. used' \in SUBSET NodeNums
    BY <1>4, <1>7
  <2> HIDE DEF C
  <2> QED
    BY <2>1, <2>2, <2>3, <1>1, Restocks
<1>13. /\ node'[p].height = node[p].height
       /\ node'[l].height = node[l].height /\ node'[l].BLink = node[l].BLink /\ node'[l].FLink = f
       /\ Len(node'[l].recs) > 1
  BY <1>5, <1>9, <1>10 DEF IsMergedLeft, IsMergedParent, left, parent, f
<1>14. Ends'
  <2>1. /\ firstLeaf \in used /\ node[firstLeaf].height = 1 /\ node[firstLeaf].BLink = 0
        /\ lastLeaf \in used /\ node[lastLeaf].height = 1 /\ node[lastLeaf].FLink = 0
    BY <1>1 DEF Grown, Ends
  <2>2. p # firstLeaf /\ p # lastLeaf
    BY <2>1, <1>3
  <2>3. firstLeaf' \in used' /\ node'[firstLeaf'].height = 1 /\ node'[firstLeaf'].BLink = 0
    <3>1. firstLeaf # r /\ firstLeaf # f
      BY <2>1, <1>6, <1>7
    <3>2. CASE firstLeaf = l
      BY <3>2, <2>1, <1>4, <1>6, <1>13
    <3>3. CASE firstLeaf # l
      <4>1. node'[firstLeaf] = node[firstLeaf]
        BY <3>1, <3>3, <2>1, <2>2, <1>7, <1>9, <1>10
      <4> QED
        BY <4>1, <3>1, <2>1, <1>4
    <3> QED
      BY <3>2, <3>3
  <2>4. lastLeaf # l
    BY <2>1, <1>6, <1>7
  <2>5. lastLeaf' \in used' /\ node'[lastLeaf'].height = 1 /\ node'[lastLeaf'].FLink = 0
    <3>1. left.kind = "leaf" <=> node[l].height = 1
      <4>1. left.kind = node[l].kind
        BY <1>5 DEF IsMergedLeft, left
      <4>2. node[l].kind = IF node[l].height = 1 THEN "leaf" ELSE "index"
        BY <1>1, <1>6, NodeFacts
      <4> QED
        BY <4>1, <4>2
    <3>2. CASE f = 0 /\ left.kind = "leaf"
      <4>1. lastLeaf' = l
        BY <3>2, <1>4 DEF f
      <4> QED
        BY <4>1, <3>1, <3>2, <1>4, <1>6, <1>13
    <3>3. CASE ~(f = 0 /\ left.kind = "leaf")
      <4>1. lastLeaf' = lastLeaf
        BY <3>3, <1>4 DEF f
      <4>2. lastLeaf # r
        BY <3>1, <3>3, <2>1, <1>6 DEF f
      <4>3. node'[lastLeaf].height = 1 /\ node'[lastLeaf].FLink = 0
        BY <4>2, <2>1, <2>2, <2>4, <1>7, <1>9, <1>10
      <4> QED
        BY <4>1, <4>2, <4>3, <2>1, <1>4
    <3> QED
      BY <3>2, <3>3
  <2> QED
    BY <2>3, <2>5 DEF Ends
<1>15. root' \in used' /\ treeDepth' = node'[root'].height
  <2>1. root \in used /\ treeDepth = node[root].height
    BY <1>1 DEF Grown
  <2>2. node'[root].height = node[root].height
    <3>1. CASE root = p
      BY <3>1, <1>13
    <3>2. CASE root # p
      BY <3>2, <2>1, <1>6, <1>7, <1>9, <1>10
    <3> QED
      BY <3>1, <3>2
  <2> QED
    BY <2>1, <2>2, <1>4, <1>6
<1>16. ASSUME NEW m \in used', m # p
       PROVE  Len(node'[m].recs) > 1
  <2>1. CASE m = l
    BY <2>1, <1>13
  <2>2. CASE m # l
    <3>1. m \in used /\ m # r /\ m # c
      BY <2>2, <1>4 DEF c
    <3>2. Len(node[m].recs) > 1
      BY <3>1, <1>1, <1>3 DEF Grown, Wide
    <3>3. node'[m].recs = node[m].recs
      BY <3>1, <2>2, <1>7, <1>9, <1>10, <1>16
    <3> QED
      BY <3>2, <3>3
  <2> QED
    BY <2>1, <2>2
<1>17. lastLeaf' \in 0 .. MaxNode
  <2>1. lastLeaf' \in used'
    BY <1>14 DEF Ends
  <2>2. lastLeaf' \in NodeNums
    BY <2>1, <1>4, <1>7
  <2> QED
    BY <2>2, MaxNodeAssumption DEF NodeNums
<1>18. Sized(node'[p])
  BY <1>8, <1>9, <1>10
<1> QED
  BY <1>4, <1>9, <1>10, <1>11, <1>12, <1>14, <1>15, <1>16, <1>17, <1>18 DEF MergeLeaves, p

\* Every merge keeps the invariant.
LEMMA MergeStepKeeps ==
    ASSUME Kept, pc = "rebalance", pool' = pool, ~failed', NEW l, NEW r, NEW j, path[level] \in {l, r},
           Beside(path[level - 1], l, r, j), combinedFits(node[l], node[r]), merge(l, r, j)
    PROVE  Kept'
<1> DEFINE p == path[level - 1]
           parent == MergedParent(p, l, r, j)
<1>1. MergeLeaves(p, l, r)
  BY MergeLeavesIs
<1>2. Types /\ Stocked /\ Grown /\ RebalanceReady /\ Remembers(level - 1)
  BY RebalancePlace DEF Kept, Bare, Grown, Placed
<1>3. /\ level \in Nat /\ level > 1 /\ treeDepth \in Nat /\ level <= treeDepth /\ Len(path) = treeDepth
      /\ p \in used /\ node[p].height = treeDepth + 2 - level
      /\ Good(Tree, root, {}, {}) /\ Holds(Tree, contents)
  BY <1>2 DEF RebalanceReady
<1>4. /\ node' \in [NodeNums -> Nodes] /\ used' = used \ {r} /\ Stocked'
      /\ root' = root /\ treeDepth' = treeDepth /\ firstLeaf' = firstLeaf /\ leafRecords' = leafRecords
      /\ contents' = contents /\ lastLeaf' \in 0 .. MaxNode
      /\ Good(Tree', root', {}, {}) /\ Holds(Tree', contents')
      /\ Ends'
      /\ root' \in used' /\ treeDepth' = node'[root'].height
      /\ \A m \in used' \ {p} : Len(node'[m].recs) > 1
      /\ \A x \in NodeNums \ {p, l, r} : node'[x].recs = node[x].recs /\ node'[x].height = node[x].height
      /\ Sized(node'[p])
  BY <1>1 DEF MergeLeaves
<1>5. IsBeside(p, l, r, j) /\ node'[p] = parent /\ recordsFit(parent)
  <2>1. node[p].height > 1
    BY <1>3
  <2>2. IsBeside(p, l, r, j)
    BY <2>1, <1>2, <1>3, BesideFacts
  <2>3. IsMergedParent(p, l, r, j)
    BY <2>1, <2>2, <1>2, <1>3, MergePlace
  <2>4. recordsFit(parent)
    BY <2>3 DEF IsMergedParent, InShape
  <2>5. /\ node' = Stored([Stored(node, MergeWrites(l, r, MergedLeft(l, r))) EXCEPT ![r] = Erased], <<<<p, parent>>>>)
    BY DEF merge, MergeWrites, MergedLeft, MergedParent, Parent
  <2>6. p \in NodeNums
    BY <1>2, <1>3, NodeFacts
  <2> HIDE DEF parent, p
  <2>7. PICK nd : node' = Stored(nd, <<<<p, parent>>>>)
    BY <2>5
  <2>8. Stored(nd, <<<<p, parent>>>>) = [x \in NodeNums |-> IF x = p THEN parent ELSE nd[x]]
    BY <2>4, <2>6, StoredOne
  <2>9. node'[p] = parent
    BY <2>6, <2>7, <2>8
  <2> QED
    BY <2>2, <2>4, <2>9
<1>6. IF level = 2 \/ underflows(parent)
      THEN /\ pc' = (IF level = 2 THEN "shrink" ELSE "rebalance")
           /\ level' = level - 1
           /\ path' = path /\ childIdx' = childIdx
      ELSE Return(TRUE)
  BY <1>5 DEF merge, MergedLeft, MergedParent, Parent
<1>7. /\ l \in used /\ r \in used /\ l # r /\ p # l /\ p # r
      /\ node[p].height = node[l].height + 1 /\ node[r].height = node[l].height /\ node[l].height \in Nat
  BY <1>5 DEF IsBeside
<1>8. /\ used' \in SUBSET (1 .. pool) /\ used \subseteq NodeNums
      /\ root' \in 0 .. MaxNode /\ firstLeaf' \in 0 .. MaxNode /\ treeDepth' \in Nat
      /\ contents' \in SUBSET Keys /\ IsFiniteSet(contents') /\ leafRecords' = Cardinality(contents')
      /\ path \in Seq(NodeNums) /\ childIdx \in Seq(Nat)
  <2>1. \A x \in used : x \in NodeNums
    BY <1>2, NodeFacts
  <2> QED
    BY <2>1, <1>2, <1>4 DEF Types
<1> HIDE DEF p, parent
<1>9. CASE ~(level = 2 \/ underflows(parent))
  <2>1. Returns0
    BY <1>6, <1>9, ReturnIs
  <2>2. Len(node'[p].recs) > 1
    <3>1. Sized(parent)
      BY <1>4, <1>5
    <3> QED
      BY <3>1, <1>5, <1>9, FullEnough
  <2>3. \A m \in used' : Len(node'[m].recs) > 1 \/ (m = root' /\ treeDepth' = 1)
    BY <2>2, <1>4
  <2> QED
    BY <2>1, <2>3, <1>2, <1>4, <1>8, ReturnKeeps
<1>10. CASE level = 2 \/ underflows(parent)
  <2>1. /\ pc' = (IF level = 2 THEN "shrink" ELSE "rebalance")
        /\ level' = level - 1
        /\ path' = path /\ childIdx' = childIdx
    BY <1>6, <1>10
  <2>2. Types'
    <3>1. level' \in Nat /\ pc' \in {"shrink", "rebalance"}
      BY <2>1, <1>3
    <3> QED
      BY <3>1, <2>1, <1>2, <1>4, <1>8 DEF Types
  <2>3. Orphans' = {} /\ Stale' = {}
    BY <2>1 DEF Orphans, Stale, Splitting
  <2>4. Thin' = {p}
    <3>1. CASE level = 2
      <4>1. p = root
        <5>1. path[1] = root
          BY <1>2 DEF Remembers
        <5> QED
          BY <5>1, <3>1 DEF p
      <4>2. pc' = "shrink"
        BY <3>1, <2>1
      <4> QED
        BY <4>1, <4>2, <1>4 DEF Thin
    <3>2. CASE level # 2
      <4>1. pc' = "rebalance"
        BY <3>2, <2>1
      <4> QED
        BY <4>1, <2>1 DEF Thin, p
    <3> QED
      BY <3>1, <3>2
  <2>5. Wide'
    BY <2>4, <1>4 DEF Wide
  <2>6. Placed'
    <3>1. CASE level = 2
      <4>1. pc' = "shrink"
        BY <3>1, <2>1
      <4> QED
        BY <4>1 DEF Placed, Splitting
    <3>2. CASE level # 2
      <4>1. pc' = "rebalance"
        BY <3>2, <2>1
      <4>2. /\ Len(childIdx) = Len(path) - 1 /\ path[1] = root
            /\ \A i \in 1 .. level - 1 :
                  /\ path[i] \in used /\ path[i + 1] \in used
                  /\ node[path[i]].height = treeDepth + 1 - i
                  /\ childIdx[i] \in DOMAIN node[path[i]].recs
                  /\ node[path[i]].recs[childIdx[i]].child = path[i + 1]
        BY <1>2 DEF Remembers
      <4>3. level - 2 > 0 /\ level - 2 < Len(path) /\ level' - 1 = level - 2 /\ level - 1 \in Nat
        BY <3>2, <2>1, <1>3
      <4>4. ASSUME NEW i \in 1 .. level - 2
            PROVE  /\ path[i] \in used' /\ path[i + 1] \in used'
                   /\ node'[path[i]].height = treeDepth + 1 - i
                   /\ childIdx[i] \in DOMAIN node'[path[i]].recs
                   /\ node'[path[i]].recs[childIdx[i]].child = path[i + 1]
        <5>1. i \in 1 .. level - 1 /\ i + 1 \in 1 .. level - 1
          BY <1>3
        <5>2. /\ path[i] \in used /\ path[i + 1] \in used
              /\ node[path[i]].height = treeDepth + 1 - i
              /\ node[path[i + 1]].height = treeDepth + 1 - (i + 1)
              /\ childIdx[i] \in DOMAIN node[path[i]].recs
              /\ node[path[i]].recs[childIdx[i]].child = path[i + 1]
          BY <5>1, <4>2
        <5>3. /\ node[path[i]].height > treeDepth + 2 - level
              /\ node[path[i + 1]].height > treeDepth + 1 - level
          BY <5>2, <1>3
        <5>4. node[r].height = treeDepth + 1 - level /\ node[l].height = treeDepth + 1 - level
              /\ node[p].height = treeDepth + 2 - level
          BY <1>3, <1>7
        <5>5. path[i] # p /\ path[i] # l /\ path[i] # r /\ path[i + 1] # r
          BY <5>2, <5>3, <5>4, <1>3
        <5>6. path[i] \in NodeNums \ {p, l, r}
          BY <5>2, <5>5, <1>8
        <5>7. node'[path[i]].recs = node[path[i]].recs /\ node'[path[i]].height = node[path[i]].height
          BY <5>6, <1>4
        <5> QED
          BY <5>2, <5>5, <5>7, <1>4
      <4>5. Remembers(level - 1)'
        BY <4>2, <4>3, <4>4, <2>1, <1>3, <1>4 DEF Remembers
      <4> QED
        BY <4>1, <4>5 DEF Placed, Splitting
    <3> QED
      BY <3>1, <3>2
  <2>7. Grown'
    BY <2>3, <2>5, <2>6, <1>4 DEF Grown
  <2> QED
    BY <2>2, <2>7, <1>4 DEF Kept
<1> QED
  BY <1>9, <1>10

\* Merging with the left neighbour keeps the invariant.
LEMMA MergeLeftKeeps ==
    ASSUME Kept, MergeLeft, pool' = pool, ~failed'
    PROVE  Kept'
<1> DEFINE p == path[level - 1]
           j == MyIdx - 1
<1>1. pc = "rebalance" /\ MergesLeft /\ merge(LeftNum, path[level], j)
  BY DEF MergeLeft, Rebalancing
<1>2. Types /\ Stocked /\ RebalanceReady
  BY <1>1, RebalancePlace DEF Kept
<1>3. p \in used /\ MyIdx \in 1 .. Len(node[p].recs) /\ node[p].recs[MyIdx].child = path[level]
  BY <1>2 DEF RebalanceReady
<1>4. MyIdx > 1 /\ combinedFits(node[LeftNum], node[path[level]])
  BY <1>1 DEF MergesLeft, HasLeft, En
<1>5. Len(node[p].recs) \in Nat
  BY <1>2, <1>3, NodeFacts
<1>6. j \in 1 .. Len(node[p].recs) - 1 /\ j + 1 = MyIdx
  BY <1>3, <1>4, <1>5
<1>7. Beside(p, LeftNum, path[level], j)
  BY <1>3, <1>6 DEF Beside, LeftNum, Parent
<1> HIDE DEF j
<1> QED
  BY <1>1, <1>4, <1>7, MergeStepKeeps

\* Merging with the right neighbour keeps the invariant.
LEMMA MergeRightKeeps ==
    ASSUME Kept, MergeRight, pool' = pool, ~failed'
    PROVE  Kept'
<1> DEFINE p == path[level - 1]
           j == MyIdx
<1>1. pc = "rebalance" /\ MergesRight /\ merge(path[level], RightNum, j)
  BY DEF MergeRight, Rebalancing
<1>2. Types /\ Stocked /\ RebalanceReady
  BY <1>1, RebalancePlace DEF Kept
<1>3. p \in used /\ MyIdx \in 1 .. Len(node[p].recs) /\ node[p].recs[MyIdx].child = path[level]
  BY <1>2 DEF RebalanceReady
<1>4. MyIdx < Len(node[p].recs) /\ combinedFits(node[path[level]], node[RightNum])
  BY <1>1 DEF MergesRight, HasRight, En, Parent
<1>5. Len(node[p].recs) \in Nat
  BY <1>2, <1>3, NodeFacts
<1>6. j \in 1 .. Len(node[p].recs) - 1
  BY <1>3, <1>4, <1>5
<1>7. Beside(p, path[level], RightNum, j)
  BY <1>3, <1>6 DEF Beside, RightNum, Parent
<1> HIDE DEF j
<1> QED
  BY <1>1, <1>4, <1>7, MergeStepKeeps

\* The new contents of two neighbours when the border moves to k.
Moved(l, r, a, b, k) ==
    /\ a \in Nodes /\ b \in Nodes
    /\ a.kind = node[l].kind /\ a.height = node[l].height
    /\ a.FLink = node[l].FLink /\ a.BLink = node[l].BLink
    /\ b.kind = node[r].kind /\ b.height = node[r].height
    /\ b.FLink = node[r].FLink /\ b.BLink = node[r].BLink
    /\ Ascending(a.recs) /\ ToSet(a.recs) = Before(Tree.rs[l] \cup Tree.rs[r], k)
    /\ Ascending(b.recs) /\ ToSet(b.recs) = After(Tree.rs[l] \cup Tree.rs[r], k)
    /\ a.recs # <<>> /\ a.recs[1] = node[l].recs[1] /\ Len(a.recs) > 1
    /\ b.recs # <<>> /\ b.recs[1].key = k /\ Len(b.recs) > 1
    /\ Tree.lo[l] < k
    /\ \E x \in Tree.rs[l] \cup Tree.rs[r] : x.key = k

MovedParent(p, j, k, r) == [node[p] EXCEPT !.recs = [@ EXCEPT ![j + 1] = indexRecord(k, r)]]

IsMovedParent(p, j, k, r) ==
    LET parent == MovedParent(p, j, k, r)
    IN  /\ parent \in Nodes
        /\ parent.kind = node[p].kind /\ parent.height = node[p].height
        /\ parent.BLink = node[p].BLink /\ parent.FLink = node[p].FLink
        /\ Ascending(parent.recs) /\ parent.recs # <<>>
        /\ ToSet(parent.recs) = (Tree.rs[p] \ {node[p].recs[j + 1]}) \cup {indexRecord(k, r)}
        /\ parent.recs[1] = node[p].recs[1]
        /\ Len(parent.recs) = Len(node[p].recs)

\* The parent after a rotation: the new first key fits in its place.
LEMMA MovedParentIs ==
    ASSUME Types, Stocked, Good(Tree, root, {}, {}), NEW p \in used, node[p].height > 1, NEW l, NEW r, NEW j,
           Beside(p, l, r, j), NEW a, NEW b, NEW k, Moved(l, r, a, b, k)
    PROVE  IsMovedParent(p, j, k, r)
<1> DEFINE s == node[p].recs
           n == Len(s)
           i == j + 1
           rec == indexRecord(k, r)
           rm == s[j + 1]
           t == Tree
           parent == MovedParent(p, j, k, r)
<1>1. IsBeside(p, l, r, j) /\ Adjoin(t, p, l, r, rm)
  BY BesideFacts
<1>2. j \in 1 .. n - 1
  BY DEF Beside
<1>3. /\ s[j] = indexRecord(t.lo[l], l) /\ s[j + 1] = indexRecord(t.lo[r], r)
      /\ l \in used /\ r \in used /\ l # r
      /\ node[p].height = node[l].height + 1 /\ node[r].height = node[l].height /\ node[l].height \in Nat
  BY <1>1 DEF IsBeside
<1>4. /\ node[p] \in Nodes /\ s \in Seq(Recs) /\ n \in Nat \ {0} /\ Ascending(s)
      /\ Lists(s, t.rs[p], n) /\ t.us = used /\ t.rs[p] = ToSet(s) /\ t.ht[p] = node[p].height
  BY NodeFacts, NodeLists
<1>5. PICK z : z = n
  OBVIOUS
<1>6. z \in Nat \ {0} /\ j \in 1 .. z - 1
  BY <1>2, <1>4, <1>5
<1>7. j \in Nat /\ j \in 1 .. z /\ i \in 1 .. z /\ i > 1 /\ j < i
  BY <1>6
<1>8. t.lo[l] < k /\ (\E x \in t.rs[l] \cup t.rs[r] : x.key = k)
  BY DEF Moved
<1>9. /\ \A x \in t.us : t.lo[x] \in Nat
      /\ \A x \in t.us : \A y \in t.rs[x] : y.key \in Nat /\ y.key \in Keys
  BY TreeNumbers DEF Good
<1>10. k \in Nat /\ k \in Keys
  BY <1>3, <1>4, <1>8, <1>9
<1>11. rec \in Recs /\ rec.key = k
  <2>1. r \in NodeNums
    BY <1>3, NodeFacts
  <2>2. r \in 0 .. MaxNode
    BY <2>1, MaxNodeAssumption DEF NodeNums
  <2> QED
    BY <2>2, <1>10 DEF Recs, indexRecord
<1>12. \A x \in 1 .. z : s[x] \in t.rs[p] /\ s[x].key \in Nat
  BY <1>4, <1>5, KeyNumbers
<1>13. \A x, y \in 1 .. z : (x < y <=> s[x].key < s[y].key)
  BY <1>4, <1>5, InKeyOrder
<1>14. s[j].key = t.lo[l] /\ s[i].key = t.lo[r]
  BY <1>3 DEF indexRecord
<1>15. t.lo[l] < t.lo[r]
  BY <1>1 DEF IsBeside
<1> HIDE DEF i, rec, t
<1>16. ASSUME NEW x \in 1 .. z
       PROVE  (x < i => s[x].key < k) /\ (i < x => k < s[x].key)
  <2>1. CASE x < i
    <3>1. x = j \/ x < j
      BY <2>1, <1>6 DEF i
    <3>2. s[x].key <= s[j].key
      BY <3>1, <1>7, <1>12, <1>13
    <3>3. s[x].key < k
      BY <3>2, <1>3, <1>4, <1>8, <1>9, <1>10, <1>12, <1>14
    <3> QED
      BY <3>3, <2>1, <1>7
  <2>2. CASE i < x
    <3> DEFINE y == s[x].child
    <3>1. s[i].key < s[x].key
      BY <2>2, <1>7, <1>13
    <3>2. y \in t.us /\ t.ht[p] = t.ht[y] + 1 /\ s[x].key = t.lo[y]
      BY <1>4, <1>12 DEF Good, Indexed, t
    <3>3. t.ht[y] = t.ht[l]
      <4>1. t.ht[l] = node[l].height
        BY <1>3, NodeFacts DEF t
      <4>2. t.ht[y] \in Nat
        BY <3>2, TreeNumbers DEF Good, t
      <4> QED
        BY <4>1, <4>2, <3>2, <1>3, <1>4, SMTT(20)
    <3> HIDE DEF y
    <3>4. t.lo[r] < t.lo[y] /\ t.lo[l] < t.lo[y] /\ ~(t.lo[y] < t.lo[l])
      BY <3>1, <3>2, <1>3, <1>4, <1>9, <1>14, <1>15
    <3>5. y # l /\ y # r
      BY <3>4, <1>3, <1>4, <1>9
    <3>6. Good(t, root, {}, {})
      BY DEF t
    <3>7. \/ /\ t.lo[y] < t.lo[l]
             /\ \A q \in t.rs[y] : q.key < t.lo[l]
          \/ \A q \in t.rs[l] \cup t.rs[r] : q.key < t.lo[y]
      BY <3>2, <3>3, <3>5, <3>6, <1>1, Adjoining
    <3>8. k < t.lo[y]
      BY <3>4, <3>7, <1>8
    <3> QED
      BY <3>2, <3>8, <2>2, <1>7
  <2>3. CASE x = i
    BY <2>3, <1>7
  <2> QED
    BY <2>1, <2>2, <2>3, <1>7
<1>17. IsReplaced([s EXCEPT ![i] = rec], s, t.rs[p], z, i, rec)
  <2> DEFINE S == t.rs[p]
  <2>1. Lists(s, S, z) /\ z \in Nat
    BY <1>4, <1>5, <1>6
  <2>2. \A x \in 1 .. z : (x < i => s[x].key < rec.key) /\ (i < x => rec.key < s[x].key)
    BY <1>11, <1>16
  <2> HIDE DEF S, s
  <2> QED
    BY <2>1, <2>2, <1>7, <1>11, ReplaceLists DEF S
<1>18. PICK q : q = [s EXCEPT ![i] = rec]
  OBVIOUS
<1>19. /\ q \in Seq(Recs) /\ Ascending(q) /\ ToSet(q) = (t.rs[p] \ {s[i]}) \cup {rec} /\ Len(q) = z
       /\ q[1] = s[1]
  BY <1>7, <1>17, <1>18 DEF IsReplaced, Lists
<1>20. parent = [node[p] EXCEPT !.recs = q]
  BY <1>18 DEF MovedParent, i, rec
<1> HIDE DEF parent
<1>21. /\ parent \in Nodes /\ parent.recs = q /\ parent.kind = node[p].kind /\ parent.height = node[p].height
       /\ parent.BLink = node[p].BLink /\ parent.FLink = node[p].FLink
  BY <1>4, <1>19, <1>20 DEF Nodes
<1>22. q # <<>>
  BY <1>6, <1>19
<1> QED
  BY <1>5, <1>19, <1>21, <1>22 DEF IsMovedParent, parent, i, rec, t

RotatedNodes(p, l, r, a, b, parent) ==
    [x \in NodeNums |-> IF x = l THEN a ELSE IF x = r THEN b ELSE IF x = p THEN parent ELSE node[x]]

\* Every rotation that is stored keeps the invariant.
LEMMA RotateKeeps ==
    ASSUME Kept, pc = "rebalance", pool' = pool, ~failed', NEW l, NEW r, NEW j, path[level] \in {l, r},
           Beside(path[level - 1], l, r, j), NEW a, NEW b, NEW k, Moved(l, r, a, b, k),
           Rotate(<<l, a>>, <<r, b>>, j + 1)
    PROVE  Kept'
<1> DEFINE p == path[level - 1]
           parent == MovedParent(p, j, k, r)
           e == RotatedNodes(p, l, r, a, b, parent)
           u == View(e, used)
           rm == node[p].recs[j + 1]
           t == Tree
<1>1. Types /\ Stocked /\ Grown /\ Thin = {path[level]} /\ RebalanceReady
  BY RebalancePlace DEF Kept, Bare, Thin
<1>2. /\ level \in Nat /\ level > 1 /\ treeDepth \in Nat /\ level <= treeDepth
      /\ p \in used /\ node[p].height = treeDepth + 2 - level
      /\ Good(t, root, {}, {}) /\ Holds(t, contents)
  BY <1>1 DEF RebalanceReady
<1>3. node[p].height > 1 /\ treeDepth # 1
  BY <1>2
<1> HIDE DEF p
<1>4. Beside(p, l, r, j)
  BY DEF p
<1>5. IsBeside(p, l, r, j) /\ Adjoin(t, p, l, r, rm)
  BY <1>1, <1>2, <1>3, <1>4, BesideFacts
<1>6. IsMovedParent(p, j, k, r)
  BY <1>1, <1>2, <1>3, <1>4, MovedParentIs
<1>7. /\ l \in used /\ r \in used /\ l # r /\ p # l /\ p # r
  BY <1>5 DEF IsBeside
<1>8. /\ p \in NodeNums /\ l \in NodeNums /\ r \in NodeNums /\ used \subseteq NodeNums
      /\ node \in [NodeNums -> Nodes] /\ 0 \notin NodeNums /\ used \in SUBSET NodeNums
  <2>1. \A x \in used : x \in NodeNums
    BY <1>1, NodeFacts
  <2> QED
    BY <2>1, <1>1, <1>2, <1>7 DEF Types, NodeNums
<1>9. b.recs[1].key = k
  BY DEF Moved
<1>10. LET w == <<<<l, a>>, <<r, b>>, <<p, parent>>>>
       IN  node' = Stored(node, w) /\ Return(AllFit(w)) /\ UNCHANGED <<used, header, contents>>
  <2>1. parent = [Parent EXCEPT !.recs[j + 1] = indexRecord(FirstKey(<<r, b>>[2]), <<r, b>>[1])]
    BY <1>9 DEF MovedParent, FirstKey, Parent, p
  <2> QED
    BY <2>1 DEF Rotate, p
<1> HIDE DEF parent
<1>11. /\ node' = Stored(node, <<<<l, a>>, <<r, b>>, <<p, parent>>>>)
       /\ Return(AllFit(<<<<l, a>>, <<r, b>>, <<p, parent>>>>))
       /\ used' = used /\ contents' = contents
       /\ root' = root /\ firstLeaf' = firstLeaf /\ lastLeaf' = lastLeaf /\ treeDepth' = treeDepth
       /\ leafRecords' = leafRecords
  BY <1>10 DEF header
<1>12. Returns0 /\ AllFit(<<<<l, a>>, <<r, b>>, <<p, parent>>>>)
  BY <1>11, ReturnIs
<1>13. recordsFit(a) /\ recordsFit(b) /\ recordsFit(parent)
  <2> DEFINE w == <<<<l, a>>, <<r, b>>, <<p, parent>>>>
  <2>1. DOMAIN w = 1 .. 3 /\ w[1][2] = a /\ w[2][2] = b /\ w[3][2] = parent
    OBVIOUS
  <2> HIDE DEF w
  <2>2. \A i \in 1 .. 3 : recordsFit(w[i][2])
    BY <2>1, <1>12 DEF AllFit, w
  <2> QED
    BY <2>1, <2>2
<1>14. node' = e
  <2>1. Stored(node, <<<<l, a>>, <<r, b>>, <<p, parent>>>>)
          = [m \in NodeNums |-> IF m = l THEN a ELSE IF m = r THEN b ELSE IF m = p THEN parent ELSE node[m]]
    <3>1. IsThree(Stored(node, <<<<l, a>>, <<r, b>>, <<p, parent>>>>), node, l, r, p, a, b, parent)
      BY <1>7, <1>8, <1>13, StoredThree
    <3> QED
      BY <3>1 DEF IsThree
  <2> QED
    BY <2>1, <1>11 DEF RotatedNodes
<1>15. /\ parent \in Nodes
       /\ parent.kind = node[p].kind /\ parent.height = node[p].height
       /\ parent.BLink = node[p].BLink /\ parent.FLink = node[p].FLink
       /\ Ascending(parent.recs) /\ parent.recs # <<>>
       /\ ToSet(parent.recs) = (t.rs[p] \ {rm}) \cup {indexRecord(k, r)}
       /\ parent.recs[1] = node[p].recs[1]
       /\ Len(parent.recs) = Len(node[p].recs)
  BY <1>6 DEF IsMovedParent, parent
<1>16. /\ a \in Nodes /\ b \in Nodes
       /\ a.kind = node[l].kind /\ a.height = node[l].height
       /\ a.FLink = node[l].FLink /\ a.BLink = node[l].BLink
       /\ b.kind = node[r].kind /\ b.height = node[r].height
       /\ b.FLink = node[r].FLink /\ b.BLink = node[r].BLink
       /\ Ascending(a.recs) /\ ToSet(a.recs) = Before(t.rs[l] \cup t.rs[r], k)
       /\ Ascending(b.recs) /\ ToSet(b.recs) = After(t.rs[l] \cup t.rs[r], k)
       /\ a.recs # <<>> /\ a.recs[1] = node[l].recs[1] /\ Len(a.recs) > 1
       /\ b.recs # <<>> /\ b.recs[1].key = k /\ Len(b.recs) > 1
       /\ t.lo[l] < k
       /\ \E x \in t.rs[l] \cup t.rs[r] : x.key = k
  BY DEF Moved
<1>17. /\ e \in [NodeNums -> Nodes] /\ e[l] = a /\ e[r] = b /\ e[p] = parent
       /\ \A x \in NodeNums \ {l, r, p} : e[x] = node[x]
  BY <1>7, <1>8, <1>15, <1>16 DEF RotatedNodes
<1> HIDE DEF e
<1>18. \A x \in NodeNums : /\ e[x].height = node[x].height /\ e[x].kind = node[x].kind
                           /\ e[x].FLink = node[x].FLink /\ e[x].BLink = node[x].BLink
  BY <1>8, <1>15, <1>16, <1>17
<1>19. OnlyRecords(t, u, node, e)
  BY <1>8, <1>17, <1>18, RecordsView DEF Tree
<1> HIDE DEF u
<1>20. /\ TreeType(u) /\ u.us = t.us /\ u.ht = t.ht /\ u.fl = t.fl /\ u.bl = t.bl
       /\ \A x \in NodeNums :
            /\ u.rs[x] = ToSet(e[x].recs)
            /\ e[x].recs # <<>> => u.lo[x] = e[x].recs[1].key
            /\ e[x].recs = node[x].recs => u.rs[x] = t.rs[x] /\ u.lo[x] = t.lo[x]
  BY <1>19 DEF OnlyRecords
<1>21. /\ t.us = used
       /\ \A x \in used : t.lo[x] = node[x].recs[1].key
  BY <1>1, <1>7, NodeFacts
<1> HIDE DEF t, rm
<1>22. Shifts(t, u, p, l, r, rm, k)
  <2>1. u.lo[r] = k /\ \A x \in t.us \ {r} : u.lo[x] = t.lo[x]
    <3>1. u.lo[r] = k /\ u.lo[l] = t.lo[l] /\ u.lo[p] = t.lo[p]
      BY <1>2, <1>7, <1>8, <1>15, <1>16, <1>17, <1>20, <1>21
    <3>2. \A x \in t.us \ {l, r, p} : u.lo[x] = t.lo[x]
      BY <1>8, <1>17, <1>20, <1>21
    <3> QED
      BY <3>1, <3>2
  <2>2. \A x \in t.us \ {l, r, p} : u.rs[x] = t.rs[x]
    BY <1>8, <1>17, <1>20, <1>21
  <2>3. u.rs[l] = Before(t.rs[l] \cup t.rs[r], k) /\ u.rs[r] = After(t.rs[l] \cup t.rs[r], k)
    BY <1>8, <1>16, <1>17, <1>20
  <2>4. u.rs[p] = (t.rs[p] \ {rm}) \cup {indexRecord(k, r)}
    BY <1>8, <1>15, <1>17, <1>20
  <2>5. /\ u.rs[l] = {x \in t.rs[l] \cup t.rs[r] : x.key < k}
        /\ u.rs[r] = {x \in t.rs[l] \cup t.rs[r] : k <= x.key}
    BY <2>3 DEF Before, After
  <2> QED
    BY <2>1, <2>2, <2>4, <2>5, <1>5, <1>16, <1>20, Zenon DEF Shifts
<1>23. Good(u, root, {}, {}) /\ Holds(u, contents)
  <2>1. Good(u, root, {}, {})
    BY <1>2, <1>22, ShiftKeeps
  <2>2. Holds(u, contents)
    BY <1>2, <1>22, ShiftHolds
  <2> QED
    BY <2>1, <2>2
<1>24. Good(Tree', root', {}, {}) /\ Holds(Tree', contents')
  BY <1>11, <1>14, <1>23 DEF Tree, u
<1>25. Stocked'
  <2> DEFINE C == {p, l, r}
  <2>1. ASSUME NEW m \in NodeNums \ C
        PROVE  node'[m] = node[m] /\ (m \in used' <=> m \in used)
    BY <1>11, <1>14, <1>17
  <2>2. InShape(a) /\ InShape(b) /\ InShape(parent)
    <3>1. \A x \in used : node[x].kind = IF node[x].height = 1 THEN "leaf" ELSE "index"
      BY <1>1, NodeFacts
    <3>2. InShape(a)
      BY <3>1, <1>7, <1>13, <1>16 DEF InShape
    <3>3. InShape(b)
      BY <3>1, <1>7, <1>13, <1>16 DEF InShape
    <3>4. InShape(parent)
      BY <3>1, <1>2, <1>13, <1>15 DEF InShape
    <3> QED
      BY <3>2, <3>3, <3>4
  <2>3. ASSUME NEW m \in C
        PROVE  IF m \in used' THEN InShape(node'[m]) ELSE node'[m] = Erased
    BY <2>2, <1>2, <1>7, <1>11, <1>14, <1>17
  <2>4. used' \in SUBSET NodeNums
    BY <1>8, <1>11
  <2> HIDE DEF C
  <2> QED
    BY <2>1, <2>3, <2>4, <1>1, Restocks
<1>26. Ends' /\ root' \in used' /\ treeDepth' = node'[root'].height
  <2>1. /\ firstLeaf \in used /\ node[firstLeaf].height = 1 /\ node[firstLeaf].BLink = 0
        /\ lastLeaf \in used /\ node[lastLeaf].height = 1 /\ node[lastLeaf].FLink = 0
        /\ root \in used /\ treeDepth = node[root].height
    BY <1>1 DEF Grown, Ends
  <2>2. Ends'
    BY <2>1, <1>8, <1>11, <1>14, <1>18 DEF Ends
  <2> QED
    BY <2>1, <2>2, <1>8, <1>11, <1>14, <1>18
<1>27. \A m \in used' : Len(node'[m].recs) > 1 \/ (m = root' /\ treeDepth' = 1)
  <2> SUFFICES ASSUME NEW m \in used PROVE Len(e[m].recs) > 1
    BY <1>11, <1>14
  <2>1. CASE m = l \/ m = r
    BY <2>1, <1>16, <1>17
  <2>2. CASE m # l /\ m # r
    <3>1. Len(node[m].recs) > 1
      BY <2>2, <1>1, <1>3 DEF Grown, Wide
    <3>2. Len(e[m].recs) = Len(node[m].recs)
      BY <2>2, <1>8, <1>15, <1>17
    <3> QED
      BY <3>1, <3>2
  <2> QED
    BY <2>1, <2>2
<1>28. /\ node' \in [NodeNums -> Nodes] /\ used' \in SUBSET (1 .. pool)
       /\ root' \in 0 .. MaxNode /\ firstLeaf' \in 0 .. MaxNode /\ lastLeaf' \in 0 .. MaxNode /\ treeDepth' \in Nat
       /\ contents' \in SUBSET Keys /\ IsFiniteSet(contents') /\ leafRecords' = Cardinality(contents')
  BY <1>1, <1>11, <1>14, <1>17 DEF Types
<1> QED
  BY <1>1, <1>12, <1>24, <1>25, <1>26, <1>27, <1>28, ReturnKeeps

\* Front and Tail are removals.
LEMMA FrontTail ==
    ASSUME NEW T, NEW s \in Seq(T), Len(s) > 0
    PROVE  /\ Front(s) = RemoveAt(s, Len(s)) /\ Tail(s) = RemoveAt(s, 1)
           /\ Last(s) = s[Len(s)] /\ Head(s) = s[1]
<1> DEFINE n == Len(s)
           q == RemoveAt(s, n)
           v == RemoveAt(s, 1)
<1>1. n \in Nat /\ n \in 1 .. n /\ 1 \in 1 .. n
  OBVIOUS
<1>2. q \in Seq(T) /\ Len(q) = n - 1 /\ \A j \in 1 .. n - 1 : q[j] = s[j]
  BY <1>1, RemoveKeeps
<1>3. v \in Seq(T) /\ Len(v) = n - 1 /\ \A j \in 1 .. n - 1 : v[j] = s[j + 1]
  BY <1>1, RemoveKeeps
<1> HIDE DEF q, v
<1>4. PICK f : f = Front(s)
  OBVIOUS
<1>5. f = SubSeq(s, 1, n - 1)
  BY <1>4 DEF Front
<1>6. f \in Seq(T) /\ Len(f) = n - 1 /\ \A j \in 1 .. n - 1 : f[j] = s[j]
  <2>1. ASSUME NEW a \in 1 .. Len(s) + 1
        PROVE  /\ SubSeq(s, 1, a - 1) \in Seq(T) /\ Len(SubSeq(s, 1, a - 1)) = a - 1
               /\ \A j \in 1 .. a - 1 : SubSeq(s, 1, a - 1)[j] = s[j]
    BY <1>1, SubSeqProperties
  <2>2. n \in 1 .. Len(s) + 1
    BY <1>1
  <2> QED
    BY <2>1, <2>2, <1>5
<1>7. f = q
  BY <1>2, <1>6, SeqEqual
<1>8. PICK g : g = Tail(s)
  OBVIOUS
<1>9. g \in Seq(T) /\ Len(g) = n - 1 /\ \A j \in 1 .. n - 1 : g[j] = s[j + 1]
  BY <1>1, <1>8
<1>10. g = v
  BY <1>3, <1>9, SeqEqual
<1> QED
  BY <1>4, <1>7, <1>8, <1>10 DEF q, v, Last

\* One key is the border.
LEMMA PartedLow ==
    ASSUME NEW S \in SUBSET Recs, NEW T \in SUBSET Recs, NEW x \in S,
           \A y \in S : y # x => y.key < x.key, \A y \in T : x.key < y.key
    PROVE  Before(S \cup T, x.key) = S \ {x} /\ After(S \cup T, x.key) = {x} \cup T
<1>1. \A y \in S \cup T : y.key \in Nat
  BY KeysAssumption DEF Recs
<1> QED
  BY <1>1 DEF Before, After

IsParted(S, k, A, B) == Before(S, k) = A /\ After(S, k) = B

\* The least key of the right set moved to the left set.
LEMMA PartedHigh ==
    ASSUME NEW S \in SUBSET Recs, NEW T \in SUBSET Recs, NEW h \in T, NEW x \in T,
           h.key < x.key, \A y \in T : y # h => x.key <= y.key, \A y \in S : y.key < h.key
    PROVE  IsParted(S \cup T, x.key, S \cup {h}, T \ {h})
<1>1. \A y \in S \cup T : y.key \in Nat
  BY KeysAssumption DEF Recs
<1>2. \A y \in S : y.key < x.key
  BY <1>1
<1>3. \A y \in T : y # h => ~(y.key < x.key)
  BY <1>1
<1>4. ~(x.key <= h.key)
  BY <1>1
<1>5. \A y \in S : ~(x.key <= y.key)
  BY <1>1, <1>2
<1>6. Before(S \cup T, x.key) = S \cup {h}
  BY <1>2, <1>3 DEF Before
<1>7. After(S \cup T, x.key) = T \ {h}
  BY <1>4, <1>5 DEF After
<1> QED
  BY <1>6, <1>7 DEF IsParted

\* A node too full to be merged with one that underflows has three records.
LEMMA DonorHas ==
    ASSUME NEW d, NEW e, Sized(d), Sized(e), underflows(e), usedBytes(d) + usedBytes(e) > NodeSize
    PROVE  Len(d.recs) > 2 /\ Len(d.recs) \in Nat
<1>1. /\ usedBytes(d) \in Nat /\ usedBytes(e) \in Nat /\ NodeSize \in Nat /\ MinFill \in Nat
      /\ Len(d.recs) \in Nat /\ (Len(d.recs) <= 2 => usedBytes(d) + MinFill <= NodeSize + 1)
  BY FewRecords
<1>2. usedBytes(e) < MinFill
  BY DEF underflows
<1>3. PICK z : z = Len(d.recs)
  OBVIOUS
<1>4. z > 2
  BY <1>1, <1>2, <1>3
<1> QED
  BY <1>1, <1>3, <1>4

\* What a rotation from the left moves.
LEMMA MovedFromLeft ==
    ASSUME Types, Stocked, NEW p, NEW l, NEW r, NEW j, IsBeside(p, l, r, j), Len(node[l].recs) > 2
    PROVE  Moved(l, r, [node[l] EXCEPT !.recs = Front(@)],
                 [node[r] EXCEPT !.recs = <<Last(node[l].recs)>> \o @], Last(node[l].recs).key)
<1> DEFINE s == node[l].recs
           v == node[r].recs
           n == Len(s)
           m == Len(v)
           S == Tree.rs[l]
           T == Tree.rs[r]
           x == s[n]
           q == RemoveAt(s, n)
           o == <<x>>
<1>1. /\ l \in used /\ r \in used /\ \A a \in S, b \in T : a.key < b.key
  BY DEF IsBeside
<1>2. /\ node[l] \in Nodes /\ s \in Seq(Recs) /\ n \in Nat \ {0} /\ Ascending(s)
      /\ Tree.lo[l] = s[1].key /\ Lists(s, S, n)
  BY <1>1, NodeFacts, NodeLists
<1>3. /\ node[r] \in Nodes /\ v \in Seq(Recs) /\ m \in Nat \ {0} /\ Lists(v, T, m)
  BY <1>1, NodeFacts, NodeLists
<1>4. n > 2 /\ n \in 1 .. n /\ 1 \in 1 .. n /\ n > 1
  BY <1>2
<1>5. Front(s) = q /\ Last(s) = x
  BY <1>2, <1>4, FrontTail
<1>6. Lists(q, S \ {x}, n - 1) /\ q[1] = s[1]
  BY <1>2, <1>4, RemoveLists
<1>7. x \in Recs /\ x \in S /\ S \in SUBSET Recs /\ x.key \in Nat
  BY <1>2, <1>4, KeyNumbers DEF Lists
<1>8. T \in SUBSET Recs
  BY <1>3, KeyNumbers DEF Lists
<1>9. ASSUME NEW y \in S, y # x PROVE y.key < x.key
  <2>1. PICK i \in 1 .. n : s[i] = y
    BY <1>2, KeyNumbers DEF Lists
  <2>2. i < n
    BY <2>1, <1>2, <1>9
  <2>3. i < n <=> s[i].key < s[n].key
    BY <1>2, <1>4, InKeyOrder
  <2> QED
    BY <2>1, <2>2, <2>3
<1>10. \A y \in T : x.key < y.key
  BY <1>1, <1>7
<1>11. Before(S \cup T, x.key) = S \ {x} /\ After(S \cup T, x.key) = {x} \cup T
  BY <1>7, <1>8, <1>9, <1>10, PartedLow
<1>12. Lists(o, {x}, 1) /\ o[1] = x
  BY <1>7, OneLists
<1>13. IsJoined(o \o v, o, {x} \cup T, 1 + m)
  <2> DEFINE X == {x}
  <2>1. \A a \in X, b \in T : a.key < b.key
    BY <1>10
  <2>2. Lists(o, X, 1) /\ Lists(v, T, m) /\ 1 \in Nat \ {0} /\ m \in Nat
    BY <1>3, <1>12
  <2> HIDE DEF X, T, m, v, o
  <2>3. IsJoined(o \o v, o, X \cup T, 1 + m)
    BY <2>1, <2>2, JoinLists
  <2> QED
    BY <2>3 DEF X
<1>14. PICK qa, qb : qa = q /\ qb = o \o v
  OBVIOUS
<1>15. /\ qa \in Seq(Recs) /\ Ascending(qa) /\ ToSet(qa) = S \ {x} /\ Len(qa) = n - 1 /\ qa[1] = s[1]
  BY <1>6, <1>14 DEF Lists
<1>16. /\ qb \in Seq(Recs) /\ Ascending(qb) /\ ToSet(qb) = {x} \cup T /\ Len(qb) = 1 + m /\ qb[1] = x
  BY <1>12, <1>13, <1>14 DEF Lists, IsJoined
<1>17. Len(qa) > 1 /\ Len(qb) > 1
  <2>1. PICK n0, m0 : n0 = n /\ m0 = m
    OBVIOUS
  <2>2. n0 > 2 /\ n0 \in Nat /\ m0 \in Nat \ {0}
    BY <2>1, <1>2, <1>3, <1>4
  <2>3. n0 - 1 > 1 /\ 1 + m0 > 1
    BY <2>2
  <2> QED
    BY <2>1, <2>3, <1>15, <1>16
<1>18. qa # <<>> /\ qb # <<>>
  BY <1>17
<1>19. Tree.lo[l] < x.key
  <2>1. 1 < n <=> s[1].key < s[n].key
    BY <1>2, <1>4, InKeyOrder
  <2> QED
    BY <2>1, <1>2, <1>4
<1> DEFINE a == [node[l] EXCEPT !.recs = Front(@)]
           b == [node[r] EXCEPT !.recs = <<Last(node[l].recs)>> \o @]
<1>20. a = [node[l] EXCEPT !.recs = qa] /\ b = [node[r] EXCEPT !.recs = qb]
  BY <1>5, <1>14
<1> HIDE DEF a, b
<1>21. /\ a \in Nodes /\ a.recs = qa
       /\ a.kind = node[l].kind /\ a.height = node[l].height
       /\ a.FLink = node[l].FLink /\ a.BLink = node[l].BLink
  BY <1>2, <1>15, <1>20 DEF Nodes
<1>22. /\ b \in Nodes /\ b.recs = qb
       /\ b.kind = node[r].kind /\ b.height = node[r].height
       /\ b.FLink = node[r].FLink /\ b.BLink = node[r].BLink
  BY <1>3, <1>16, <1>20 DEF Nodes
<1>23. \E y \in S \cup T : y.key = x.key
  BY <1>7
<1>24. Moved(l, r, a, b, x.key)
  BY <1>11, <1>15, <1>16, <1>17, <1>18, <1>19, <1>21, <1>22, <1>23, Zenon DEF Moved
<1> QED
  BY <1>5, <1>24 DEF a, b

\* What a rotation from the right moves.
LEMMA MovedFromRight ==
    ASSUME Types, Stocked, NEW p, NEW l, NEW r, NEW j, IsBeside(p, l, r, j), Len(node[r].recs) > 2
    PROVE  Moved(l, r, [node[l] EXCEPT !.recs = Append(@, Head(node[r].recs))],
                 [node[r] EXCEPT !.recs = Tail(@)], node[r].recs[2].key)
<1> DEFINE s == node[l].recs
           v == node[r].recs
           n == Len(s)
           m == Len(v)
           S == Tree.rs[l]
           T == Tree.rs[r]
           h == v[1]
           x == v[2]
           q == RemoveAt(v, 1)
           o == <<h>>
<1>1. /\ l \in used /\ r \in used /\ \A a \in S, b \in T : a.key < b.key
  BY DEF IsBeside
<1>2. /\ node[l] \in Nodes /\ s \in Seq(Recs) /\ n \in Nat \ {0}
      /\ Tree.lo[l] = s[1].key /\ Lists(s, S, n) /\ s[1] \in S
  BY <1>1, NodeFacts, NodeLists
<1>3. /\ node[r] \in Nodes /\ v \in Seq(Recs) /\ m \in Nat \ {0} /\ Lists(v, T, m) /\ Ascending(v)
  BY <1>1, NodeFacts, NodeLists
<1>4. m > 2 /\ 2 \in 1 .. m /\ 1 \in 1 .. m /\ m > 0
  BY <1>3
<1>5. Tail(v) = q /\ Head(v) = h
  BY <1>3, <1>4, FrontTail
<1>6. Lists(q, T \ {h}, m - 1)
  BY <1>3, <1>4, RemoveLists
<1>7. q[1] = x
  <2>1. \A i \in 1 .. m - 1 : q[i] = v[i + 1]
    BY <1>3, <1>4, RemoveKeeps
  <2>2. 1 \in 1 .. m - 1 /\ 1 + 1 = 2
    BY <1>3, <1>4
  <2> QED
    BY <2>1, <2>2
<1>8. h \in Recs /\ h \in T /\ x \in T /\ T \in SUBSET Recs /\ x.key \in Nat /\ h.key \in Nat
  BY <1>3, <1>4, KeyNumbers DEF Lists
<1>9. S \in SUBSET Recs
  BY <1>2, KeyNumbers DEF Lists
<1>10. h.key < x.key
  <2>1. 1 < 2 <=> v[1].key < v[2].key
    BY <1>3, <1>4, InKeyOrder
  <2> QED
    BY <2>1
<1>11. ASSUME NEW y \in T, y # h PROVE x.key <= y.key
  <2>1. PICK i \in 1 .. m : v[i] = y
    BY <1>3, KeyNumbers DEF Lists
  <2>2. i = 2 \/ 2 < i
    BY <2>1, <1>3, <1>11
  <2>3. 2 < i <=> v[2].key < v[i].key
    BY <1>3, <1>4, InKeyOrder
  <2>4. v[i].key \in Nat
    BY <1>3, KeyNumbers
  <2> QED
    BY <2>1, <2>2, <2>3, <2>4, <1>8
<1>12. \A y \in S : y.key < h.key
  BY <1>1, <1>8
<1>13. Before(S \cup T, x.key) = S \cup {h} /\ After(S \cup T, x.key) = T \ {h}
  <2>1. \A y \in T : y # h => x.key <= y.key
    BY <1>11
  <2> HIDE DEF S, T, h, x
  <2>2. IsParted(S \cup T, x.key, S \cup {h}, T \ {h})
    BY <2>1, <1>8, <1>9, <1>10, <1>12, PartedHigh, Zenon
  <2> QED
    BY <2>2 DEF IsParted
<1>14. Lists(o, {h}, 1)
  BY <1>8, OneLists
<1>15. IsJoined(s \o o, s, S \cup {h}, n + 1)
  <2> DEFINE X == {h}
  <2>1. \A a \in S, b \in X : a.key < b.key
    BY <1>12
  <2>2. Lists(o, X, 1) /\ Lists(s, S, n) /\ 1 \in Nat /\ n \in Nat \ {0}
    BY <1>2, <1>14
  <2> HIDE DEF X, S, n, s, o
  <2>3. IsJoined(s \o o, s, S \cup X, n + 1)
    BY <2>1, <2>2, JoinLists
  <2> QED
    BY <2>3 DEF X
<1>16. PICK qa, qb : qa = s \o o /\ qb = q
  OBVIOUS
<1>17. /\ qa \in Seq(Recs) /\ Ascending(qa) /\ ToSet(qa) = S \cup {h} /\ Len(qa) = n + 1 /\ qa[1] = s[1]
  BY <1>15, <1>16 DEF Lists, IsJoined
<1>18. /\ qb \in Seq(Recs) /\ Ascending(qb) /\ ToSet(qb) = T \ {h} /\ Len(qb) = m - 1 /\ qb[1] = x
  BY <1>6, <1>7, <1>16 DEF Lists
<1>19. Len(qa) > 1 /\ Len(qb) > 1
  <2>1. PICK n0, m0 : n0 = n /\ m0 = m
    OBVIOUS
  <2>2. m0 > 2 /\ m0 \in Nat /\ n0 \in Nat \ {0}
    BY <2>1, <1>2, <1>3, <1>4
  <2>3. m0 - 1 > 1 /\ n0 + 1 > 1
    BY <2>2
  <2> QED
    BY <2>1, <2>3, <1>17, <1>18
<1>20. qa # <<>> /\ qb # <<>>
  BY <1>19
<1>21. Tree.lo[l] < x.key
  <2>1. s[1].key < h.key
    BY <1>2, <1>12
  <2>2. s[1].key \in Nat
    BY <1>2, <1>9, KeysAssumption DEF Recs
  <2> QED
    BY <2>1, <2>2, <1>2, <1>8, <1>10
<1> DEFINE a == [node[l] EXCEPT !.recs = Append(@, Head(node[r].recs))]
           b == [node[r] EXCEPT !.recs = Tail(@)]
<1>22. a = [node[l] EXCEPT !.recs = qa] /\ b = [node[r] EXCEPT !.recs = qb]
  <2>1. Append(s, h) = s \o o
    BY <1>2, <1>8, AppendIsConcat
  <2> QED
    BY <2>1, <1>5, <1>16
<1> HIDE DEF a, b
<1>23. /\ a \in Nodes /\ a.recs = qa
       /\ a.kind = node[l].kind /\ a.height = node[l].height
       /\ a.FLink = node[l].FLink /\ a.BLink = node[l].BLink
  BY <1>2, <1>17, <1>22 DEF Nodes
<1>24. /\ b \in Nodes /\ b.recs = qb
       /\ b.kind = node[r].kind /\ b.height = node[r].height
       /\ b.FLink = node[r].FLink /\ b.BLink = node[r].BLink
  BY <1>3, <1>18, <1>22 DEF Nodes
<1>25. \E y \in S \cup T : y.key = x.key
  BY <1>8
<1>26. qb[1].key = x.key
  BY <1>18
<1>27. Moved(l, r, a, b, x.key)
  BY <1>13, <1>17, <1>18, <1>19, <1>20, <1>21, <1>23, <1>24, <1>25, <1>26, Zenon DEF Moved
<1> QED
  BY <1>27 DEF a, b

\* rotateFromLeft keeps the invariant.
LEMMA RotateFromLeftKeeps ==
    ASSUME Kept, rotateFromLeft, pool' = pool, ~failed'
    PROVE  Kept'
<1> DEFINE p == path[level - 1]
           l == LeftNum
           r == path[level]
           j == MyIdx - 1
           a == [node[l] EXCEPT !.recs = Front(@)]
           b == [node[r] EXCEPT !.recs = <<Last(node[l].recs)>> \o @]
           k == Last(node[l].recs).key
<1>1. /\ pc = "rebalance" /\ underflows(node[r]) /\ SparesLeft /\ ~MergesLeft
      /\ Rotate(<<l, a>>, <<r, b>>, MyIdx)
  BY DEF rotateFromLeft, Rebalancing, En
<1>2. Types /\ Stocked /\ RebalanceReady
  BY <1>1, RebalancePlace DEF Kept
<1>3. /\ p \in used /\ MyIdx \in 1 .. Len(node[p].recs) /\ node[p].recs[MyIdx].child = r
      /\ Good(Tree, root, {}, {}) /\ r \in used
      /\ level \in Nat /\ level > 1 /\ treeDepth \in Nat /\ level <= treeDepth
      /\ node[p].height = treeDepth + 2 - level
  BY <1>2 DEF RebalanceReady
<1>4. MyIdx > 1 /\ ~combinedFits(node[l], node[r])
  BY <1>1 DEF MergesLeft, SparesLeft, HasLeft, En
<1>5. Len(node[p].recs) \in Nat /\ node[p].height > 1
  BY <1>2, <1>3, NodeFacts
<1>6. j \in 1 .. Len(node[p].recs) - 1 /\ j + 1 = MyIdx
  BY <1>3, <1>4, <1>5
<1>7. Beside(p, l, r, j)
  BY <1>3, <1>6 DEF Beside, LeftNum, Parent
<1> HIDE DEF l, p, r, j
<1>8. IsBeside(p, l, r, j)
  BY <1>2, <1>3, <1>5, <1>7, BesideFacts
<1>9. Len(node[l].recs) > 2
  <2>1. l \in used
    BY <1>8 DEF IsBeside
  <2>2. Sized(node[l]) /\ Sized(node[r])
    BY <2>1, <1>2, <1>3, NodeFacts
  <2>3. usedBytes(node[l]) \in Nat /\ usedBytes(node[r]) \in Nat /\ NodeSize \in Nat
    BY <2>2, FewRecords
  <2>4. usedBytes(node[l]) + usedBytes(node[r]) > NodeSize
    BY <2>3, <1>4 DEF combinedFits
  <2> QED
    BY <2>2, <2>4, <1>1, DonorHas
<1>10. Moved(l, r, a, b, k)
  BY <1>2, <1>8, <1>9, MovedFromLeft
<1> HIDE DEF a, b, k
<1>11. path[level] \in {l, r} /\ Beside(path[level - 1], l, r, j) /\ Rotate(<<l, a>>, <<r, b>>, j + 1)
  BY <1>1, <1>6, <1>7 DEF r, p
<1> QED
  BY <1>1, <1>10, <1>11, RotateKeeps

\* rotateFromRight keeps the invariant.
LEMMA RotateFromRightKeeps ==
    ASSUME Kept, rotateFromRight, pool' = pool, ~failed'
    PROVE  Kept'
<1> DEFINE p == path[level - 1]
           l == path[level]
           r == RightNum
           j == MyIdx
           a == [node[l] EXCEPT !.recs = Append(@, Head(node[r].recs))]
           b == [node[r] EXCEPT !.recs = Tail(@)]
           k == node[r].recs[2].key
<1>1. /\ pc = "rebalance" /\ underflows(node[l]) /\ SparesRight /\ ~MergesRight
      /\ Rotate(<<l, a>>, <<r, b>>, MyIdx + 1)
  BY DEF rotateFromRight, Rebalancing, En
<1>2. Types /\ Stocked /\ RebalanceReady
  BY <1>1, RebalancePlace DEF Kept
<1>3. /\ p \in used /\ MyIdx \in 1 .. Len(node[p].recs) /\ node[p].recs[MyIdx].child = l
      /\ Good(Tree, root, {}, {}) /\ l \in used
      /\ level \in Nat /\ level > 1 /\ treeDepth \in Nat /\ level <= treeDepth
      /\ node[p].height = treeDepth + 2 - level
  BY <1>2 DEF RebalanceReady
<1>4. MyIdx < Len(node[p].recs) /\ ~combinedFits(node[l], node[r])
  BY <1>1 DEF MergesRight, SparesRight, HasRight, En, Parent
<1>5. Len(node[p].recs) \in Nat /\ node[p].height > 1
  BY <1>2, <1>3, NodeFacts
<1>6. j \in 1 .. Len(node[p].recs) - 1
  BY <1>3, <1>4, <1>5
<1>7. Beside(p, l, r, j)
  BY <1>3, <1>6 DEF Beside, RightNum, Parent
<1> HIDE DEF l, p, r, j
<1>8. IsBeside(p, l, r, j)
  BY <1>2, <1>3, <1>5, <1>7, BesideFacts
<1>9. Len(node[r].recs) > 2
  <2>1. r \in used
    BY <1>8 DEF IsBeside
  <2>2. Sized(node[l]) /\ Sized(node[r])
    BY <2>1, <1>2, <1>3, NodeFacts
  <2>3. usedBytes(node[l]) \in Nat /\ usedBytes(node[r]) \in Nat /\ NodeSize \in Nat
    BY <2>2, FewRecords
  <2>4. usedBytes(node[r]) + usedBytes(node[l]) > NodeSize
    BY <2>3, <1>4 DEF combinedFits
  <2> QED
    BY <2>2, <2>4, <1>1, DonorHas
<1>10. Moved(l, r, a, b, k)
  BY <1>2, <1>8, <1>9, MovedFromRight
<1> HIDE DEF a, b, k
<1>11. path[level] \in {l, r} /\ Beside(path[level - 1], l, r, j) /\ Rotate(<<l, a>>, <<r, b>>, j + 1)
  BY <1>1, <1>7 DEF l, p, j
<1> QED
  BY <1>1, <1>10, <1>11, RotateKeeps

\* maybeShrinkRoot keeps the invariant.
LEMMA ShrinkRootKeeps ==
    ASSUME Kept, ShrinkRoot, pool' = pool
    PROVE  Kept'
<1> DEFINE drops == node[root].kind = "index" /\ Len(node[root].recs) = 1
           c == node[root].recs[1].child
<1>1. Types /\ Stocked /\ Grown /\ pc = "shrink" /\ Orphans = {} /\ Stale = {} /\ Thin = {root}
  BY DEF Kept, Bare, ShrinkRoot, Orphans, Stale, Splitting, Thin
<1>2. /\ root \in used /\ treeDepth = node[root].height /\ Good(Tree, root, {}, {}) /\ Holds(Tree, contents)
      /\ Wide /\ Ends
  BY <1>1 DEF Grown
<1>3. /\ firstLeaf' = firstLeaf /\ lastLeaf' = lastLeaf /\ leafRecords' = leafRecords /\ contents' = contents
  BY DEF ShrinkRoot
<1>4. /\ root \in NodeNums /\ node[root].recs \in Seq(Recs) /\ Len(node[root].recs) \in Nat \ {0}
      /\ node[root].kind = IF node[root].height = 1 THEN "leaf" ELSE "index"
      /\ Tree.us = used /\ Tree.ht[root] = node[root].height /\ Tree.rs[root] = ToSet(node[root].recs)
      /\ node[root].recs[1] \in Tree.rs[root] /\ node[root].height \in Nat
      /\ node[root] \in Nodes
  <2>1. node[root] \in Nodes
    BY <1>1, <1>2, NodeFacts
  <2>2. node[root].height \in Nat
    BY <2>1 DEF Nodes
  <2> QED
    BY <2>1, <2>2, <1>1, <1>2, NodeFacts
<1>5. /\ node \in [NodeNums -> Nodes] /\ used \in SUBSET (1 .. pool) /\ used \in SUBSET NodeNums /\ treeDepth \in Nat
      /\ contents \in SUBSET Keys /\ IsFiniteSet(contents) /\ leafRecords = Cardinality(contents)
      /\ {root, firstLeaf, lastLeaf} \subseteq 0 .. MaxNode
  <2>1. \A x \in used : x \in NodeNums
    BY <1>1, NodeFacts
  <2> QED
    BY <2>1, <1>1 DEF Types
<1>6. CASE ~drops
  <2>1. Return(TRUE) /\ root' = root /\ treeDepth' = treeDepth /\ node' = node /\ used' = used
    BY <1>6 DEF ShrinkRoot
  <2>2. Returns0
    BY <2>1, ReturnIs
  <2>3. Stocked'
    <3> DEFINE C == {}
    <3>1. /\ \A m \in NodeNums \ C : node'[m] = node[m] /\ (m \in used' <=> m \in used)
          /\ \A m \in C : IF m \in used' THEN InShape(node'[m]) ELSE node'[m] = Erased
          /\ used' \in SUBSET NodeNums
      BY <2>1, <1>5
    <3> HIDE DEF C
    <3> QED
      BY <3>1, <1>1, Restocks
  <2>4. Len(node[root].recs) > 1 \/ treeDepth = 1
    <3>1. PICK z : z = Len(node[root].recs)
      OBVIOUS
    <3>2. z \in Nat \ {0}
      BY <3>1, <1>4
    <3>3. z = 1 \/ z > 1
      BY <3>2
    <3> QED
      BY <3>1, <3>3, <1>2, <1>4, <1>6
  <2>5. \A m \in used' : Len(node'[m].recs) > 1 \/ (m = root' /\ treeDepth' = 1)
    BY <2>1, <2>4, <1>1, <1>2 DEF Wide
  <2>6. Ends' /\ root' \in used' /\ treeDepth' = node'[root'].height
    BY <2>1, <1>2, <1>3 DEF Ends
  <2>7. Good(Tree', root', {}, {}) /\ Holds(Tree', contents')
    BY <2>1, <1>2, <1>3 DEF Tree
  <2>8. /\ node' \in [NodeNums -> Nodes] /\ used' \in SUBSET (1 .. pool)
        /\ root' \in 0 .. MaxNode /\ firstLeaf' \in 0 .. MaxNode /\ lastLeaf' \in 0 .. MaxNode /\ treeDepth' \in Nat
        /\ contents' \in SUBSET Keys /\ IsFiniteSet(contents') /\ leafRecords' = Cardinality(contents')
    BY <2>1, <1>3, <1>5
  <2> QED
    BY <2>2, <2>3, <2>5, <2>6, <2>7, <2>8, <1>1, ReturnKeeps
<1>7. CASE drops
  <2> DEFINE e == [node EXCEPT ![root] = Erased]
             us == used \ {root}
             u == View(e, us)
             h == node[root].recs[1]
  <2>1. /\ root' = c /\ treeDepth' = treeDepth - 1 /\ node' = e /\ used' = us
        /\ pc' = pc /\ path' = path /\ childIdx' = childIdx /\ level' = level
    BY <1>7 DEF ShrinkRoot, locals
  <2>2. Tree.rs[root] = {h}
    <3>1. ASSUME NEW x \in ToSet(node[root].recs) PROVE x = h
      <4>1. PICK i \in 1 .. Len(node[root].recs) : node[root].recs[i] = x
        BY <1>4, KeyNumbers
      <4> QED
        BY <4>1, <1>7
    <3> QED
      BY <3>1, <1>4
  <2>3. Tree.ht[root] > 1
    BY <1>2, <1>4, <1>7 DEF Good, Filled
  <2>4. c \in used /\ Tree.ht[root] = Tree.ht[c] + 1
    BY <2>3, <1>2, <1>4 DEF Good, Indexed
  <2>5. Tree.ht[c] \in Nat /\ Tree.ht[c] = node[c].height /\ c \in NodeNums
    BY <2>4, <1>1, NodeFacts DEF Nodes
  <2>6. c # root
    BY <2>4, <2>5
  <2> HIDE DEF c, h
  <2>7. Erased \in Nodes
    BY MaxNodeAssumption DEF Erased, Nodes
  <2>8. e \in [NodeNums -> Nodes] /\ e[root] = Erased /\ \A x \in NodeNums \ {root} : e[x] = node[x]
    BY <2>7, <1>4, <1>5
  <2>9. us \in SUBSET NodeNums /\ us \in SUBSET (1 .. pool)
    BY <1>5
  <2> HIDE DEF e, us
  <2>10. /\ TreeType(u) /\ u.us = us
         /\ \A n \in NodeNums :
              /\ u.ht[n] = e[n].height
              /\ u.rs[n] = ToSet(e[n].recs)
              /\ u.lo[n] = IF e[n].recs = <<>> THEN 0 ELSE e[n].recs[1].key
              /\ u.fl[n] = e[n].FLink
              /\ u.bl[n] = e[n].BLink
    BY <2>8, <2>9, ViewFacts
  <2> HIDE DEF u
  <2>11. \A x \in used : /\ Tree.ht[x] = node[x].height /\ Tree.rs[x] = ToSet(node[x].recs)
                         /\ Tree.lo[x] = node[x].recs[1].key
                         /\ Tree.fl[x] = node[x].FLink /\ Tree.bl[x] = node[x].BLink
                         /\ node[x].recs # <<>>
    BY <1>1, NodeFacts
  <2>12. \A x \in us : /\ u.ht[x] = Tree.ht[x] /\ u.rs[x] = Tree.rs[x] /\ u.lo[x] = Tree.lo[x]
                       /\ u.fl[x] = Tree.fl[x] /\ u.bl[x] = Tree.bl[x]
    <3> SUFFICES ASSUME NEW x \in us
                 PROVE  /\ u.ht[x] = Tree.ht[x] /\ u.rs[x] = Tree.rs[x] /\ u.lo[x] = Tree.lo[x]
                        /\ u.fl[x] = Tree.fl[x] /\ u.bl[x] = Tree.bl[x]
      OBVIOUS
    <3>1. x \in used /\ x \in NodeNums \ {root} /\ x \in NodeNums
      BY <2>9 DEF us
    <3>2. e[x] = node[x]
      BY <3>1, <2>8
    <3> QED
      BY <3>1, <3>2, <2>10, <2>11
  <2>13. h.child = c
    BY DEF h, c
  <2>14. Drops(Tree, u, root, c)
    BY <2>2, <2>3, <2>10, <2>12, <2>13, <1>2, <1>4 DEF Drops, us
  <2>15. Good(u, c, {}, {}) /\ Holds(u, contents)
    <3>1. Good(u, c, {}, {})
      BY <2>14, <1>2, DropKeeps
    <3>2. Holds(u, contents)
      BY <2>14, <1>2, DropHolds
    <3> QED
      BY <3>1, <3>2
  <2>16. Good(Tree', root', {}, {}) /\ Holds(Tree', contents')
    BY <2>1, <2>15, <1>3 DEF Tree, u
  <2>17. Orphans' = {} /\ Stale' = {} /\ Thin' = {root'} /\ Placed'
    BY <2>1, <1>1 DEF Orphans, Stale, Splitting, Thin, Placed
  <2>18. root' \in used' /\ treeDepth' = node'[root'].height
    <3>1. c \in us /\ e[c] = node[c]
      BY <2>4, <2>5, <2>6, <2>8 DEF us
    <3>2. treeDepth - 1 = node[c].height
      BY <2>4, <2>5, <1>2, <1>4
    <3> QED
      BY <3>1, <3>2, <2>1
  <2>19. Stocked'
    <3> DEFINE C == {root}
    <3>1. ASSUME NEW m \in NodeNums \ C
          PROVE  node'[m] = node[m] /\ (m \in used' <=> m \in used)
      BY <2>1, <2>8 DEF us
    <3>2. ASSUME NEW m \in C
          PROVE  IF m \in used' THEN InShape(node'[m]) ELSE node'[m] = Erased
      BY <2>1, <2>8 DEF us
    <3>3. used' \in SUBSET NodeNums
      BY <2>1, <2>9
    <3> HIDE DEF C
    <3> QED
      BY <3>1, <3>2, <3>3, <1>1, Restocks
  <2>20. Ends'
    <3>1. /\ firstLeaf \in used /\ node[firstLeaf].height = 1 /\ node[firstLeaf].BLink = 0
          /\ lastLeaf \in used /\ node[lastLeaf].height = 1 /\ node[lastLeaf].FLink = 0
      BY <1>2 DEF Ends
    <3>2. firstLeaf # root /\ lastLeaf # root
      BY <3>1, <2>3, <1>4
    <3>3. node'[firstLeaf] = node[firstLeaf] /\ node'[lastLeaf] = node[lastLeaf]
      BY <3>1, <3>2, <2>1, <2>8, <1>5
    <3> QED
      BY <3>1, <3>2, <3>3, <2>1, <1>3 DEF Ends, us
  <2>21. Wide'
    <3>1. treeDepth # 1
      BY <2>3, <1>2, <1>4
    <3>2. ASSUME NEW m \in us PROVE Len(e[m].recs) > 1
      <4>1. m \in used /\ m # root /\ m \in NodeNums
        BY <2>9 DEF us
      <4>2. Len(node[m].recs) > 1
        BY <4>1, <3>1, <1>1, <1>2 DEF Wide
      <4> QED
        BY <4>1, <4>2, <2>8
    <3> QED
      BY <3>2, <2>1 DEF Wide
  <2>22. Types'
    <3>1. root' \in 0 .. MaxNode
      BY <2>1, <2>5, MaxNodeAssumption DEF NodeNums
    <3>2. treeDepth' \in Nat
      BY <2>1, <2>4, <2>5, <1>2, <1>4
    <3>3. path \in Seq(NodeNums) /\ childIdx \in Seq(Nat) /\ level \in Nat /\ pool \in Pools
      BY <1>1 DEF Types
    <3> QED
      BY <3>1, <3>2, <3>3, <2>1, <2>8, <2>9, <1>1, <1>3, <1>5 DEF Types
  <2>23. Grown'
    BY <2>16, <2>17, <2>18, <2>20, <2>21 DEF Grown
  <2> QED
    BY <2>19, <2>22, <2>23 DEF Kept
<1> QED
  BY <1>6, <1>7

-----------------------------------------------------------------------------
(* The invariant holds.                                                    *)

\* A failure is never forgotten.
LEMMA FailedStays ==
    ASSUME Next, failed
    PROVE  failed'
<1>1. \A ok : Return(ok) => failed'
  BY DEF Return
<1>2. ASSUME NEW k \in Keys, Insert(k) PROVE FALSE
  BY <1>2 DEF Insert, InsertEmpty, InsertFits, InsertSplits, Begin
<1>3. ASSUME NEW k \in Keys, Delete(k) PROVE failed'
  <2>1. CASE DeleteMissed(k)
    BY <2>1 DEF DeleteMissed
  <2>2. CASE DeleteInRoot(k)
    BY <2>2, <1>1 DEF DeleteInRoot
  <2>3. CASE DeleteInLeaf(k)
    BY <2>3 DEF DeleteInLeaf
  <2> QED
    BY <2>1, <2>2, <2>3, <1>3 DEF Delete
<1>4. ASSUME Continue PROVE failed'
  <2>1. CASE PropagateFits \/ GrowRoot \/ SplitNoSpace \/ RebalanceNone
    BY <2>1, <1>1 DEF PropagateFits, GrowRoot, SplitNoSpace, RebalanceNone
  <2>2. CASE PropagateSplits
    BY <2>2, <1>1 DEF PropagateSplits
  <2>3. CASE UpdateParentKey
    BY <2>3, <1>1 DEF UpdateParentKey
  <2>4. ASSUME NEW l, NEW r, NEW j, merge(l, r, j) PROVE failed'
    BY <2>4, <1>1 DEF merge
  <2>5. CASE MergeLeft \/ MergeRight
    BY <2>4, <2>5 DEF MergeLeft, MergeRight
  <2>6. ASSUME NEW a, NEW b, NEW j, Rotate(a, b, j) PROVE failed'
    BY <2>6, <1>1 DEF Rotate
  <2>7. CASE rotateFromLeft \/ rotateFromRight
    BY <2>6, <2>7 DEF rotateFromLeft, rotateFromRight
  <2>8. CASE ShrinkRoot
    BY <2>8, <1>1 DEF ShrinkRoot, locals
  <2> QED
    BY <2>1, <2>2, <2>3, <2>5, <2>7, <2>8, <1>4 DEF Continue
<1> QED
  BY <1>2, <1>3, <1>4 DEF Next

\* Every step that does not fail keeps the invariant.
LEMMA NextKeeps ==
    ASSUME ~FromBelow, Kept, ~failed, ~failed', Next
    PROVE  Kept'
<1>1. ASSUME NEW k \in Keys, Insert(k) PROVE Kept'
  <2>1. pool' = pool
    BY <1>1 DEF Insert
  <2>2. CASE InsertEmpty(k)
    BY <2>1, <2>2, InsertEmptyKeeps
  <2>3. CASE InsertFits(k)
    BY <2>1, <2>3, InsertFitsKeeps
  <2>4. CASE InsertSplits(k)
    BY <2>1, <2>4, InsertSplitsKeeps
  <2> QED
    BY <2>2, <2>3, <2>4, <1>1 DEF Insert
<1>2. ASSUME NEW k \in Keys, Delete(k) PROVE Kept'
  <2>1. pool' = pool
    BY <1>2 DEF Delete
  <2>2. CASE DeleteMissed(k)
    BY <2>1, <2>2, DeleteMissedKeeps
  <2>3. CASE DeleteInRoot(k)
    BY <2>1, <2>3, DeleteInRootKeeps
  <2>4. CASE DeleteInLeaf(k)
    BY <2>1, <2>4, DeleteInLeafKeeps
  <2> QED
    BY <2>2, <2>3, <2>4, <1>2 DEF Delete
<1>3. ASSUME Continue PROVE Kept'
  <2>1. pool' = pool
    BY <1>3 DEF Continue
  <2>2. CASE PropagateFits
    BY <2>1, <2>2, PropagateFitsKeeps
  <2>3. CASE PropagateSplits
    BY <2>1, <2>3, PropagateSplitsKeeps
  <2>4. CASE GrowRoot
    BY <2>1, <2>4, GrowRootKeeps
  <2>5. CASE SplitNoSpace
    BY <2>5 DEF SplitNoSpace, Return
  <2>6. CASE UpdateParentKey
    BY <2>1, <2>6, UpdateParentKeyKeeps
  <2>7. CASE RebalanceNone
    BY <2>1, <2>7, RebalanceNoneKeeps
  <2>8. CASE MergeLeft
    BY <2>1, <2>8, MergeLeftKeeps
  <2>9. CASE MergeRight
    BY <2>1, <2>9, MergeRightKeeps
  <2>10. CASE rotateFromLeft
    BY <2>1, <2>10, RotateFromLeftKeeps
  <2>11. CASE rotateFromRight
    BY <2>1, <2>11, RotateFromRightKeeps
  <2>12. CASE ShrinkRoot
    BY <2>1, <2>12, ShrinkRootKeeps
  <2> QED
    BY <2>2, <2>3, <2>4, <2>5, <2>6, <2>7, <2>8, <2>9, <2>10, <2>11, <2>12, <1>3 DEF Continue
<1> QED
  BY <1>1, <1>2, <1>3 DEF Next

\* So does a stuttering step.
LEMMA KeptStays ==
    ASSUME Kept, UNCHANGED vars
    PROVE  Kept'
<1>1. /\ pool' = pool /\ node' = node /\ used' = used /\ pc' = pc /\ contents' = contents
      /\ root' = root /\ firstLeaf' = firstLeaf /\ lastLeaf' = lastLeaf /\ treeDepth' = treeDepth
      /\ leafRecords' = leafRecords
      /\ path' = path /\ childIdx' = childIdx /\ level' = level
      /\ splitKey' = splitKey /\ splitChild' = splitChild
  BY DEF vars, header, locals
<1>2. Types' /\ (Stocked <=> Stocked')
  <2>1. Types'
    BY <1>1 DEF Kept, Types
  <2>2. Stocked <=> Stocked'
    BY <1>1 DEF Stocked
  <2> QED
    BY <2>1, <2>2
<1>3. Bare <=> Bare'
  BY <1>1 DEF Bare
<1>4. Tree' = Tree /\ Orphans' = Orphans /\ Stale' = Stale /\ Thin' = Thin
  BY <1>1 DEF Tree, Orphans, Stale, Thin, Splitting
<1>5. Wide = Wide' /\ Ends = Ends'
  BY <1>1, <1>4 DEF Wide, Ends
<1>6. Placed = Placed'
  <2>1. (Splitting = Splitting') /\ Climbs(level) = Climbs(level)'
    BY <1>1 DEF Splitting, Climbs
  <2>2. Remembers(level - 1) = Remembers(level - 1)' /\ Remembers(Len(path) - 1) = Remembers(Len(path) - 1)'
    BY <1>1 DEF Remembers
  <2> QED
    BY <2>1, <2>2, <1>1 DEF Placed
<1>7. Grown => Grown'
  BY <1>1, <1>4, <1>5, <1>6 DEF Grown
<1> QED
  BY <1>2, <1>3, <1>7 DEF Kept

\* As long as no operation fails, the engine keeps a search tree whose leaves
\* hold what clients put into it and did not take out: at every step of every
\* insertion and deletion, with the one index record missing or out of date
\* that the operation is on its way to.
THEOREM TreeKept == ~FromBelow => (Spec => []IInv)
<1> SUFFICES ASSUME ~FromBelow PROVE Spec => []IInv
  OBVIOUS
<1>1. Init => IInv
  BY InitKept DEF IInv
<1>2. IInv /\ [Next]_vars => IInv'
  <2> SUFFICES ASSUME IInv, [Next]_vars, ~failed' PROVE Kept'
    BY DEF IInv
  <2>1. CASE Next
    <3>1. ~failed
      BY <2>1, FailedStays
    <3>2. Kept
      BY <3>1 DEF IInv
    <3> QED
      BY <3>1, <3>2, <2>1, NextKeeps
  <2>2. CASE UNCHANGED vars
    <3>1. Kept
      BY <2>2 DEF IInv, vars
    <3> QED
      BY <3>1, <2>2, KeptStays
  <2> QED
    BY <2>1, <2>2
<1> QED
  BY <1>1, <1>2, PTL DEF Spec

-----------------------------------------------------------------------------
(* What the invariant says of the tree as its users see it.                *)

\* A neighbour that cannot be merged with can spare a record: the two
\* together overfill a node, and no record takes up the difference.
LEMMA CanSpareOne ==
    ASSUME NEW d, NEW e, Sized(d), Sized(e), underflows(e), ~combinedFits(d, e)
    PROVE  canSpare(d, e)
<1>1. usedBytes(d) \in Nat /\ usedBytes(e) \in Nat /\ NodeSize \in Nat
  BY FewRecords
<1>2. Len(d.recs) > 2 /\ Len(d.recs) \in Nat
  <2>1. usedBytes(d) + usedBytes(e) > NodeSize
    BY <1>1 DEF combinedFits
  <2> QED
    BY <2>1, DonorHas
<1>3. Last(d.recs) \in Recs /\ d.kind \in {"leaf", "index"}
  <2>1. d.recs \in Seq(Recs) /\ Len(d.recs) \in 1 .. Len(d.recs)
    BY <1>2 DEF Sized
  <2> QED
    BY <2>1, KeyNumbers DEF Last, Sized
<1>4. PICK s : s = RecSize(d.kind, Last(d.recs))
  OBVIOUS
<1>5. s \in Nat /\ s < MinFill /\ MinFill \in Nat /\ 2 * MinFill <= NodeSize
  BY <1>3, <1>4, RecSizes
<1>6. usedBytes(e) < MinFill
  BY DEF underflows
<1>7. usedBytes(e) + s <= NodeSize
  BY <1>1, <1>5, <1>6
<1>8. Len(d.recs) > 1
  BY <1>2
<1> QED
  BY <1>4, <1>7, <1>8 DEF canSpare

\* rebalance always finds a sibling that merges or spares a record.
LEMMA HelpAtHand ==
    ASSUME Kept, Rebalancing
    PROVE  MergesLeft \/ MergesRight \/ SparesLeft \/ SparesRight
<1> DEFINE p == path[level - 1]
           c == path[level]
           n == Len(node[p].recs)
<1>1. Types /\ Stocked /\ RebalanceReady /\ underflows(node[c])
  BY RebalancePlace DEF Kept, Rebalancing, En
<1>2. /\ p \in used /\ c \in used /\ MyIdx \in 1 .. n /\ n > 1 /\ node[p].recs[MyIdx].child = c
      /\ Good(Tree, root, {}, {})
      /\ level \in Nat /\ level > 1 /\ treeDepth \in Nat /\ level <= treeDepth
      /\ node[p].height = treeDepth + 2 - level
  BY <1>1 DEF RebalanceReady
<1>3. n \in Nat /\ node[p].height > 1 /\ Sized(node[c])
  BY <1>1, <1>2, NodeFacts
<1>4. CASE HasLeft
  <2> DEFINE j == MyIdx - 1
  <2>1. j \in 1 .. n - 1 /\ j + 1 = MyIdx
    BY <1>2, <1>3, <1>4 DEF HasLeft
  <2>2. Beside(p, LeftNum, c, j)
    BY <2>1, <1>2 DEF Beside, LeftNum, Parent
  <2> HIDE DEF j
  <2>3. IsBeside(p, LeftNum, c, j)
    BY <2>2, <1>1, <1>2, <1>3, BesideFacts
  <2>4. Sized(node[LeftNum])
    BY <2>3, <1>1, NodeFacts DEF IsBeside
  <2>5. combinedFits(node[LeftNum], node[c]) \/ canSpare(node[LeftNum], node[c])
    BY <2>4, <1>1, <1>3, CanSpareOne
  <2> QED
    BY <2>5, <1>4 DEF MergesLeft, SparesLeft, En
<1>5. CASE ~HasLeft
  <2> DEFINE j == MyIdx
  <2>1. j \in 1 .. n - 1 /\ HasRight
    BY <1>2, <1>3, <1>5 DEF HasLeft, HasRight, Parent
  <2>2. Beside(p, c, RightNum, j)
    BY <2>1, <1>2 DEF Beside, RightNum, Parent
  <2> HIDE DEF j
  <2>3. IsBeside(p, c, RightNum, j)
    BY <2>2, <1>1, <1>2, <1>3, BesideFacts
  <2>4. Sized(node[RightNum])
    BY <2>3, <1>1, NodeFacts DEF IsBeside
  <2>5. combinedFits(node[c], node[RightNum]) \/ canSpare(node[RightNum], node[c])
    <3>1. usedBytes(node[c]) \in Nat /\ usedBytes(node[RightNum]) \in Nat
      BY <2>4, <1>3, FewRecords
    <3>2. combinedFits(node[RightNum], node[c]) => combinedFits(node[c], node[RightNum])
      BY <3>1 DEF combinedFits
    <3> QED
      BY <3>2, <2>4, <1>1, <1>3, CanSpareOne
  <2> QED
    BY <2>1, <2>5 DEF MergesRight, SparesRight, En
<1> QED
  BY <1>4, <1>5

\* The last branch of rebalance is dead code, whatever the sizes of records.
THEOREM HelpAlwaysAtHand == ~FromBelow => (Spec => []SiblingHelps)
<1>1. IInv => SiblingHelps
  BY HelpAtHand DEF IInv, SiblingHelps
<1> QED
  BY <1>1, TreeKept, PTL
=============================================================================
