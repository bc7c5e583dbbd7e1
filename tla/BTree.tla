-------------------------------- MODULE BTree --------------------------------
(***************************************************************************)
(* The B-tree engine shared by the catalog and the extents-overflow tree   *)
(* (btops.go, btdelete.go, the header and node accessors of btwrite.go),   *)
(* and the readers that search the tree (catalog_search.go).               *)
(*                                                                         *)
(* insert and deleteByKey are sequences of actions, one per node or level  *)
(* the code visits, so that an error half-way leaves the tree as the code  *)
(* leaves it.  Node allocation is abstracted to a pool of nodes of a fixed *)
(* size: NodeMap models how the pool is kept and grows.                    *)
(*                                                                         *)
(* A key is a number; the order of the numbers is the key order.  Records  *)
(* have sizes, as names do, and a node holds NodeSize units of records.    *)
(***************************************************************************)
EXTENDS Integers, FiniteSets, Sequences, SequencesExt

CONSTANTS
    Keys,        \* record keys, naturals in key order
    Starts,      \* the sets of keys mkfs may leave in the tree
    ParentOf,    \* the parent CNID a catalog key carries, by key
    LeafSize,    \* size of the leaf record of a key
    IndexSize,   \* size of an index record with this key
    NodeSize,    \* room for records in a node
    MinFill,     \* a node with less in it underflows
    MaxNode,     \* bound: the last node number
    Pools,       \* the numbers of nodes a file may hold
    FromBelow,   \* do clients insert a key below all present ones?
    AfterFailure \* do they go on deleting after an error?

\* mkfs writes at most two records, the root folder's.
ASSUME KeysAssumption ==
    /\ Keys \subseteq Nat \ {0}
    /\ Starts \subseteq SUBSET Keys
    /\ \A S \in Starts : IsFiniteSet(S) /\ Cardinality(S) <= 2
\* Three records fit a node and one underflows.  A node that is too full to be
\* merged with one that underflows keeps two records when it gives one away.
\* (The longest record takes 768 bytes; nodes have 4096 or more.)
Roomy(size) ==
    /\ size \in [Keys -> Nat \ {0}]
    /\ \A k \in Keys : 3 * size[k] <= NodeSize /\ size[k] < MinFill
    /\ \A j, k \in Keys : size[j] + size[k] + MinFill <= NodeSize + 1
ASSUME SizesAssumption ==
    /\ NodeSize \in Nat
    /\ MinFill \in 1 .. (NodeSize \div 2)
    /\ Roomy(LeafSize) /\ Roomy(IndexSize)
ASSUME ParentOfAssumption ==
    /\ ParentOf \in [Keys -> Nat]
    /\ \A j, k \in Keys : j < k => ParentOf[j] <= ParentOf[k]
ASSUME MaxNodeAssumption == MaxNode \in Nat \ {0} /\ Pools \subseteq 1 .. MaxNode
ASSUME ClientsAssumption == {FromBelow, AfterFailure} \subseteq BOOLEAN

VARIABLES
    pool,          \* the nodes it may use, besides the header node
    node,          \* the nodes of the file
    used,          \* the node bitmap
    root, firstLeaf, lastLeaf, treeDepth, leafRecords,   \* BTHeaderRec
    pc,            \* where the operation in progress is
    path,          \* its path from the root to a leaf, node numbers
    childIdx,      \* index in path[i] of the record that leads to path[i+1]
    level,         \* the position in path it works at
    splitKey, splitChild,   \* the index record a split hands upward
    failed,        \* some operation returned an error
    contents       \* the keys clients inserted and did not delete

header == <<root, firstLeaf, lastLeaf, treeDepth, leafRecords>>
locals == <<path, childIdx, level, splitKey, splitChild>>
vars == <<pool, node, used, header, pc, locals, failed, contents>>

NodeNums == 1 .. MaxNode

\* All bytes zero: the kind byte of an index node is 0.
Erased == [kind |-> "index", height |-> 0, recs |-> <<>>, FLink |-> 0, BLink |-> 0]

LeafRec(k) == [key |-> k, child |-> 0]
indexRecord(k, n) == [key |-> k, child |-> n]
FirstKey(en) == en.recs[1].key

Leaf(recs, f, b) ==
    [kind |-> "leaf", height |-> 1, recs |-> recs, FLink |-> f, BLink |-> b]

-----------------------------------------------------------------------------
(* Node sizes and storing.                                                 *)

RecSize(kind, r) == IF kind = "leaf" THEN LeafSize[r.key] ELSE IndexSize[r.key]

\* The bytes of the first records, by their number.
BytesUpTo(en) ==
    LET sum[i \in 0 .. Len(en.recs)] ==
            IF i = 0 THEN 0 ELSE sum[i - 1] + RecSize(en.kind, en.recs[i])
    IN  sum

usedBytes(en) == BytesUpTo(en)[Len(en.recs)]

recordsFit(en) == usedBytes(en) <= NodeSize

underflows(en) == usedBytes(en) < MinFill

combinedFits(a, b) == usedBytes(a) + usedBytes(b) <= NodeSize

\* Defect: all of the donor is counted, not the one record that moves.
BugCanSpareAll(donor, recv) ==
    /\ Len(donor.recs) > 1
    /\ usedBytes(recv) + usedBytes(donor) <= NodeSize

\* The boundary record whose size is checked is the donor's last one, on
\* whichever side the donor is.
canSpare(donor, recv) ==
    /\ Len(donor.recs) > 1
    /\ usedBytes(recv) + RecSize(donor.kind, Last(donor.recs)) <= NodeSize

\* Writes is a sequence of <<node number, content>>.  storeNode zeroes a node
\* before it fills it, writes the descriptor last and fails when the records do
\* not fit, so the first content that overflows leaves a node with a zero
\* descriptor and ends the sequence.
AllFit(writes) == \A i \in DOMAIN writes : recordsFit(writes[i][2])

Stored(nd, writes) ==
    LET bad == {i \in DOMAIN writes : ~recordsFit(writes[i][2])}
        done == {i \in DOMAIN writes : \A j \in bad : i <= j}
    IN  [m \in NodeNums |->
            IF \E i \in done : writes[i][1] = m
            THEN LET i == CHOOSE i \in done : writes[i][1] = m
                 IN  IF i \in bad THEN Erased ELSE writes[i][2]
            ELSE nd[m]]

FreeNums == (1 .. pool) \ used
NextNode == Min(FreeNums)

-----------------------------------------------------------------------------
(* Searching.                                                              *)

\* The record descend and findLeaf choose in an index node: the last one of
\* the leading records whose key is <= k, or the first record.
ChosenIdx(en, k) ==
    LET leading == {i \in DOMAIN en.recs : \A j \in 1 .. i : en.recs[j].key <= k}
    IN  IF leading = {} THEN 1 ELSE Max(leading)

\* descend: the nodes from the root to the leaf; the last one is -1 if the
\* walk reaches an index node without records.
descend(k) ==
    LET at[i \in 1 .. (MaxNode + 1)] ==
            IF i = 1 THEN <<root>>
            ELSE LET walked == at[i - 1]
                     en == node[Last(walked)]
                 IN  CASE Last(walked) <= 0 \/ en.kind = "leaf" -> walked
                       [] en.recs = <<>> -> Append(walked, -1)
                       [] OTHER -> Append(walked, en.recs[ChosenIdx(en, k)].child)
    IN  at[MaxNode + 1]

\* descend returns no error.
Descends(k) == -1 \notin ToSet(descend(k)) /\ Len(descend(k)) <= MaxNode

ChildIdxOf(p, k) == [i \in 1 .. (Len(p) - 1) |-> ChosenIdx(node[p[i]], k)]

\* The chain of nodes from n along FLink, at most MaxNode of them (leafStep).
ChainFrom(n) ==
    LET at[i \in 1 .. MaxNode] ==
            IF i = 1 THEN <<n>>
            ELSE LET walked == at[i - 1]
                     next == node[Last(walked)].FLink
                 IN  IF next = 0 THEN walked ELSE Append(walked, next)
    IN  IF n = 0 THEN <<>> ELSE at[MaxNode]

KeysAlong(chain) ==
    FlattenSeq([i \in DOMAIN chain |->
        [j \in DOMAIN node[chain[i]].recs |-> node[chain[i]].recs[j].key]])

\* The keys a reader sees from the leaf it descends to for k, up to the first
\* record of a later parent.
ScanFrom(k) ==
    LET ks == IF root = 0 THEN <<>> ELSE KeysAlong(ChainFrom(Last(descend(k))))
        beyond == {i \in DOMAIN ks : ParentOf[ks[i]] > ParentOf[k]}
    IN  IF beyond = {} THEN ks ELSE SubSeq(ks, 1, Min(beyond) - 1)

lookup(k) == k \in ToSet(ScanFrom(k))

\* The elements of ks that are in S, in the order of ks.
Only(ks, S) ==
    LET at == {i \in DOMAIN ks : ks[i] \in S}
    IN  [n \in 1 .. Cardinality(at) |->
            ks[CHOOSE i \in at : Cardinality({j \in at : j <= i}) = n]]

Siblings(k) == {j \in Keys : ParentOf[j] = ParentOf[k]}

\* Defect: the thread record is listed as a child.
BugListsThread(thread) == Only(ScanFrom(thread), Siblings(thread))

\* listChildren seeks the thread key of the directory (its smallest key) and
\* skips the thread record itself.
listChildren(thread) == Only(ScanFrom(thread), Siblings(thread) \ {thread})

-----------------------------------------------------------------------------
(* insert                                                                  *)

Ascending(recs) == \A i, j \in DOMAIN recs : i < j => recs[i].key < recs[j].key

\* The tree mkfs leaves: a few records in one leaf, or no leaf.
Init ==
    /\ pool \in Pools
    /\ contents \in Starts
    /\ leafRecords = Cardinality(contents)
    /\ LET n == IF contents = {} THEN 0 ELSE 1
           recs == CHOOSE s \in [1 .. Cardinality(contents) -> {LeafRec(k) : k \in contents}] :
                       Ascending(s)
       IN  /\ root = n /\ firstLeaf = n /\ lastLeaf = n /\ treeDepth = n
           /\ used = 1 .. n
           /\ node = [m \in NodeNums |-> IF m <= n THEN Leaf(recs, 0, 0) ELSE Erased]
    /\ pc = "idle"
    /\ failed = FALSE
    /\ path = <<>> /\ childIdx = <<>> /\ level = 0
    /\ splitKey = 0 /\ splitChild = 0

NoLocals ==
    /\ path' = <<>> /\ childIdx' = <<>> /\ level' = 0
    /\ splitKey' = 0 /\ splitChild' = 0

\* The operation returns, with or without an error.
Return(ok) ==
    /\ pc' = "idle"
    /\ failed' = (failed \/ ~ok)
    /\ NoLocals

insertSorted(recs, r) ==
    LET before == {i \in DOMAIN recs : recs[i].key < r.key}
    IN  InsertAt(recs, Cardinality(before) + 1, r)

\* Defect: the node after the new one keeps its back link.
BugSplitKeepsBackLink(num, en, right) ==
    LET mid == Len(en.recs) \div 2
    IN  << <<num, [en EXCEPT !.recs = SubSeq(@, 1, mid), !.FLink = right]>>,
           <<right, [en EXCEPT !.recs = SubSeq(@, mid + 1, Len(@)), !.BLink = num]>> >>

\* Defect: the new node is not linked into its level.
BugSplitUnlinked(num, en, right) ==
    LET mid == Len(en.recs) \div 2
    IN  << <<num, [en EXCEPT !.recs = SubSeq(@, 1, mid)]>>,
           <<right, [en EXCEPT !.recs = SubSeq(@, mid + 1, Len(@)), !.BLink = num]>> >>

\* What splitLeaf and splitIndex write: the follower's back link, the left
\* half, and the right half in the new node "right".
SplitWrites(num, en, right) ==
    LET mid == Len(en.recs) \div 2
        follower == IF en.FLink = 0 THEN <<>>
                    ELSE <<<<en.FLink, [node[en.FLink] EXCEPT !.BLink = right]>>>>
    IN  follower \o
        << <<num, [en EXCEPT !.recs = SubSeq(@, 1, mid), !.FLink = right]>>,
           <<right, [en EXCEPT !.recs = SubSeq(@, mid + 1, Len(@)), !.BLink = num]>> >>

\* Defect: the last key of the left half.
BugSplitKeyOfLeft(en) == en.recs[Len(en.recs) \div 2].key

SplitKeyOf(en) == en.recs[(Len(en.recs) \div 2) + 1].key

\* The caller guarantees that the key is absent.  Insertions after an error
\* are not explored.
Begin(k) ==
    /\ pc = "idle" /\ ~failed
    /\ k \notin contents
    /\ FromBelow \/ contents = {} \/ \E j \in contents : j < k

Added(k) == contents' = contents \cup {k}

\* insert into an empty tree.
InsertEmpty(k) ==
    /\ Begin(k)
    /\ Added(k)
    /\ root = 0
    /\ FreeNums # {}
    /\ node' = [node EXCEPT ![NextNode] = Leaf(<<LeafRec(k)>>, 0, 0)]
    /\ used' = used \cup {NextNode}
    /\ root' = NextNode /\ firstLeaf' = NextNode /\ lastLeaf' = NextNode
    /\ treeDepth' = 1
    /\ leafRecords' = 1
    /\ Return(TRUE)

\* insertIntoLeaf when the record fits.
InsertFits(k) ==
    /\ Begin(k)
    /\ Added(k)
    /\ root # 0 /\ Descends(k)
    /\ LET n == Last(descend(k))
           en == [node[n] EXCEPT !.recs = insertSorted(@, LeafRec(k))]
       IN  /\ recordsFit(en)
           /\ node' = [node EXCEPT ![n] = en]
    /\ leafRecords' = leafRecords + 1
    /\ Return(TRUE)
    /\ UNCHANGED <<used, root, firstLeaf, lastLeaf, treeDepth>>

\* insertIntoLeaf when it does not: splitLeaf.  The new node is allocated
\* first; without a free node insert returns having changed nothing.
InsertSplits(k) ==
    /\ Begin(k)
    /\ root # 0 /\ Descends(k)
    /\ FreeNums # {}
    /\ LET p == descend(k)
           n == Last(p)
           en == [node[n] EXCEPT !.recs = insertSorted(@, LeafRec(k))]
           writes == SplitWrites(n, en, NextNode)
       IN  /\ ~recordsFit(en)
           /\ node' = Stored(node, writes)
           /\ used' = used \cup {NextNode}
           /\ lastLeaf' = IF en.FLink = 0 THEN NextNode ELSE lastLeaf
           /\ IF AllFit(writes)
              THEN /\ Added(k)
                   /\ leafRecords' = leafRecords + 1
                   /\ splitKey' = SplitKeyOf(en) /\ splitChild' = NextNode
                   /\ path' = p /\ childIdx' = <<>> /\ level' = Len(p) - 1
                   /\ pc' = IF Len(p) = 1 THEN "growRoot" ELSE "propagate"
                   /\ UNCHANGED failed
              ELSE UNCHANGED <<leafRecords, contents>> /\ Return(FALSE)
    /\ UNCHANGED <<root, firstLeaf, treeDepth>>

\* propagateSplit, one level: the parent with the index record of the split.
WithSplit == [node[path[level]] EXCEPT !.recs = insertSorted(@, indexRecord(splitKey, splitChild))]

PropagateFits ==
    /\ pc = "propagate"
    /\ recordsFit(WithSplit)
    /\ node' = [node EXCEPT ![path[level]] = WithSplit]
    /\ Return(TRUE)
    /\ UNCHANGED <<used, header, contents>>

\* splitIndex.
PropagateSplits ==
    /\ pc = "propagate"
    /\ ~recordsFit(WithSplit)
    /\ FreeNums # {}
    /\ LET writes == SplitWrites(path[level], WithSplit, NextNode)
       IN  /\ node' = Stored(node, writes)
           /\ used' = used \cup {NextNode}
           /\ IF AllFit(writes)
              THEN /\ splitKey' = SplitKeyOf(WithSplit) /\ splitChild' = NextNode
                   /\ level' = level - 1
                   /\ pc' = IF level = 1 THEN "growRoot" ELSE "propagate"
                   /\ UNCHANGED <<path, childIdx, failed>>
              ELSE Return(FALSE)
    /\ UNCHANGED <<header, contents>>

\* Defect: the leftmost index record is given no key.
BugGrowRootNoKey ==
    /\ pc = "growRoot"
    /\ FreeNums # {}
    /\ node' = [node EXCEPT ![NextNode] =
           [Erased EXCEPT !.height = treeDepth + 1,
                          !.recs = <<indexRecord(0, path[1]),
                                     indexRecord(splitKey, splitChild)>>]]
    /\ used' = used \cup {NextNode}
    /\ root' = NextNode
    /\ treeDepth' = treeDepth + 1
    /\ Return(TRUE)
    /\ UNCHANGED <<firstLeaf, lastLeaf, leafRecords, contents>>

\* growRoot.
GrowRoot ==
    /\ pc = "growRoot"
    /\ FreeNums # {}
    /\ node' = [node EXCEPT ![NextNode] =
           [Erased EXCEPT !.height = treeDepth + 1,
                          !.recs = <<indexRecord(FirstKey(node[path[1]]), path[1]),
                                     indexRecord(splitKey, splitChild)>>]]
    /\ used' = used \cup {NextNode}
    /\ root' = NextNode
    /\ treeDepth' = treeDepth + 1
    /\ Return(TRUE)
    /\ UNCHANGED <<firstLeaf, lastLeaf, leafRecords, contents>>

\* allocNode fails after the level below has been split and stored.
SplitNoSpace ==
    /\ FreeNums = {}
    /\ \/ pc = "propagate" /\ ~recordsFit(WithSplit)
       \/ pc = "growRoot"
    /\ Return(FALSE)
    /\ UNCHANGED <<node, used, header, contents>>

-----------------------------------------------------------------------------
(* deleteByKey                                                             *)

\* Position of key k in a leaf, 0 if it is not there.
IdxOf(en, k) == SelectInSeq(en.recs, LAMBDA r : r.key = k)

\* The key may be absent (insertOrReplace deletes before it inserts).
BeginDelete(k) ==
    /\ pc = "idle"
    /\ failed => AfterFailure
    /\ contents' = contents \ {k}

\* The record is not in the leaf the descent reaches: nothing happens.
DeleteMissed(k) ==
    /\ BeginDelete(k)
    /\ root # 0 => Descends(k) /\ IdxOf(node[Last(descend(k))], k) = 0
    /\ UNCHANGED <<node, used, header, pc, locals, failed>>

\* The leaf is the root.
DeleteInRoot(k) ==
    /\ BeginDelete(k)
    /\ root # 0 /\ node[root].kind = "leaf"
    /\ LET en == node[root]
           i == IdxOf(en, k)
       IN  /\ i > 0
           /\ leafRecords' = leafRecords - 1
           /\ IF Len(en.recs) = 1
              THEN /\ node' = [node EXCEPT ![root] = Erased]
                   /\ used' = used \ {root}
                   /\ root' = 0 /\ firstLeaf' = 0 /\ lastLeaf' = 0 /\ treeDepth' = 0
              ELSE /\ node' = [node EXCEPT ![root].recs = RemoveAt(@, i)]
                   /\ UNCHANGED <<used, root, firstLeaf, lastLeaf, treeDepth>>
    /\ Return(TRUE)

\* Defect: the parent's key is not refreshed.
BugDeleteKeepsKey(k) ==
    /\ BeginDelete(k)
    /\ root # 0 /\ node[root].kind = "index" /\ Descends(k)
    /\ LET p == descend(k)
           n == Last(p)
           i == IdxOf(node[n], k)
       IN  /\ i > 0
           /\ node' = [node EXCEPT ![n].recs = RemoveAt(@, i)]
           /\ path' = p
           /\ childIdx' = ChildIdxOf(p, k)
           /\ level' = Len(p)
           /\ pc' = "rebalance"
    /\ leafRecords' = leafRecords - 1
    /\ UNCHANGED <<used, root, firstLeaf, lastLeaf, treeDepth, splitKey, splitChild, failed>>

\* The leaf has a parent: the record is removed, and the parent's key is
\* refreshed if the record was the first and is not the only one.
DeleteInLeaf(k) ==
    /\ BeginDelete(k)
    /\ root # 0 /\ node[root].kind = "index" /\ Descends(k)
    /\ LET p == descend(k)
           n == Last(p)
           i == IdxOf(node[n], k)
       IN  /\ i > 0
           /\ node' = [node EXCEPT ![n].recs = RemoveAt(@, i)]
           /\ path' = p
           /\ childIdx' = ChildIdxOf(p, k)
           /\ level' = Len(p)
           /\ pc' = IF i = 1 /\ Len(node[n].recs) > 1 THEN "updateKey" ELSE "rebalance"
    /\ leafRecords' = leafRecords - 1
    /\ UNCHANGED <<used, root, firstLeaf, lastLeaf, treeDepth, splitKey, splitChild, failed>>

\* updateParentKey, one level; then deleteByKey goes on to rebalance the leaf.
UpdateParentKey ==
    /\ pc = "updateKey"
    /\ LET i == childIdx[level - 1]
           child == path[level]
           parent == [node[path[level - 1]] EXCEPT
                        !.recs[i] = indexRecord(FirstKey(node[child]), child)]
           up == i = 1 /\ level > 2
       IN  /\ node' = Stored(node, <<<<path[level - 1], parent>>>>)
           /\ IF recordsFit(parent)
              THEN /\ pc' = IF up THEN "updateKey" ELSE "rebalance"
                   /\ level' = IF up THEN level - 1 ELSE Len(path)
                   /\ UNCHANGED <<path, childIdx, splitKey, splitChild, failed>>
              ELSE Return(FALSE)
    /\ UNCHANGED <<used, header, contents>>

-----------------------------------------------------------------------------
(* rebalance of path[level], where level > 1                               *)

En == node[path[level]]
Parent == node[path[level - 1]]
MyIdx == childIdx[level - 1]
LeftNum == Parent.recs[MyIdx - 1].child
RightNum == Parent.recs[MyIdx + 1].child
HasLeft == MyIdx > 1
HasRight == MyIdx < Len(Parent.recs)
MergesLeft == HasLeft /\ combinedFits(node[LeftNum], En)
MergesRight == HasRight /\ combinedFits(En, node[RightNum])
SparesLeft == HasLeft /\ canSpare(node[LeftNum], En)
SparesRight == HasRight /\ canSpare(node[RightNum], En)

Rebalancing == pc = "rebalance" /\ underflows(En)

RebalanceNone ==
    /\ pc = "rebalance"
    /\ ~underflows(En)
    /\ Return(TRUE)
    /\ UNCHANGED <<node, used, header, contents>>

\* merge of nodes l and r, children sep and sep + 1 of the parent.
merge(l, r, sep) ==
    LET left == [node[l] EXCEPT !.recs = @ \o node[r].recs, !.FLink = node[r].FLink]
        follower == IF node[r].FLink = 0 THEN <<>>
                    ELSE <<<<node[r].FLink, [node[node[r].FLink] EXCEPT !.BLink = l]>>>>
        parent == [Parent EXCEPT !.recs =
                     [RemoveAt(@, sep + 1) EXCEPT ![sep] = indexRecord(FirstKey(left), l)]]
        freed == [Stored(node, follower \o <<<<l, left>>>>) EXCEPT ![r] = Erased]
    IN  /\ node' = Stored(freed, <<<<path[level - 1], parent>>>>)
        /\ used' = used \ {r}
        /\ lastLeaf' = IF node[r].FLink = 0 /\ left.kind = "leaf" THEN l ELSE lastLeaf
        /\ IF ~recordsFit(parent) THEN Return(FALSE)
           ELSE IF level = 2 \/ underflows(parent)
           THEN /\ pc' = IF level = 2 THEN "shrink" ELSE "rebalance"
                /\ level' = level - 1
                /\ UNCHANGED <<path, childIdx, splitKey, splitChild, failed>>
           ELSE Return(TRUE)
        /\ UNCHANGED <<root, firstLeaf, treeDepth, leafRecords, contents>>

MergeLeft ==
    /\ Rebalancing
    /\ MergesLeft
    /\ merge(LeftNum, path[level], MyIdx - 1)

MergeRight ==
    /\ Rebalancing
    /\ ~MergesLeft /\ MergesRight
    /\ merge(path[level], RightNum, MyIdx)

\* rotateFromLeft and rotateFromRight: the left one of the donor and the
\* receiver is stored first, then the right one, then the parent with the
\* right one's new first key at position sep.
Rotate(first, second, sep) ==
    LET parent == [Parent EXCEPT !.recs[sep] = indexRecord(FirstKey(second[2]), second[1])]
        writes == <<first, second, <<path[level - 1], parent>>>>
    IN  /\ node' = Stored(node, writes)
        /\ Return(AllFit(writes))
        /\ UNCHANGED <<used, header, contents>>

rotateFromLeft ==
    /\ Rebalancing
    /\ ~MergesLeft /\ ~MergesRight /\ SparesLeft
    /\ LET donor == node[LeftNum]
       IN  Rotate(<<LeftNum, [donor EXCEPT !.recs = Front(@)]>>,
                  <<path[level], [En EXCEPT !.recs = <<Last(donor.recs)>> \o @]>>,
                  MyIdx)

rotateFromRight ==
    /\ Rebalancing
    /\ ~MergesLeft /\ ~MergesRight /\ ~SparesLeft /\ SparesRight
    /\ LET donor == node[RightNum]
       IN  Rotate(<<path[level], [En EXCEPT !.recs = Append(@, Head(donor.recs))]>>,
                  <<RightNum, [donor EXCEPT !.recs = Tail(@)]>>,
                  MyIdx + 1)

\* (When no sibling can help, rebalance goes straight to maybeShrinkRoot.
\* SiblingHelps below shows that this does not happen: records take at most a
\* third of a node, so a sibling too full to merge has one to spare that fits.)

\* Defect: the root never shrinks.
BugNoShrink ==
    /\ pc = "shrink"
    /\ Return(TRUE)
    /\ UNCHANGED <<node, used, header, contents>>

\* Defect: the old root is not freed.
BugShrinkLeaks ==
    /\ pc = "shrink"
    /\ IF node[root].kind = "index" /\ Len(node[root].recs) = 1
       THEN /\ root' = node[root].recs[1].child
            /\ treeDepth' = treeDepth - 1
            /\ UNCHANGED <<pc, locals, failed>>
       ELSE Return(TRUE) /\ UNCHANGED <<root, treeDepth>>
    /\ UNCHANGED <<node, used, firstLeaf, lastLeaf, leafRecords, contents>>

\* Defect: the loop does not step to the child.
BugShrinkStuck ==
    /\ pc = "shrink"
    /\ IF node[root].kind = "index" /\ Len(node[root].recs) = 1
       THEN UNCHANGED <<pc, locals, failed>>
       ELSE Return(TRUE)
    /\ UNCHANGED <<node, used, header, contents>>

\* maybeShrinkRoot, one turn of its loop.
ShrinkRoot ==
    /\ pc = "shrink"
    /\ IF node[root].kind = "index" /\ Len(node[root].recs) = 1
       THEN /\ root' = node[root].recs[1].child
            /\ treeDepth' = treeDepth - 1
            /\ node' = [node EXCEPT ![root] = Erased]
            /\ used' = used \ {root}
            /\ UNCHANGED <<pc, locals, failed>>
       ELSE Return(TRUE) /\ UNCHANGED <<root, treeDepth, node, used>>
    /\ UNCHANGED <<firstLeaf, lastLeaf, leafRecords, contents>>

-----------------------------------------------------------------------------
Insert(k) ==
    /\ InsertEmpty(k) \/ InsertFits(k) \/ InsertSplits(k)
    /\ UNCHANGED pool

Delete(k) ==
    /\ DeleteMissed(k) \/ DeleteInRoot(k) \/ DeleteInLeaf(k)
    /\ UNCHANGED pool

Continue ==
    /\ \/ PropagateFits \/ PropagateSplits \/ GrowRoot \/ SplitNoSpace
       \/ UpdateParentKey
       \/ RebalanceNone \/ MergeLeft \/ MergeRight
       \/ rotateFromLeft \/ rotateFromRight
       \/ ShrinkRoot
    /\ UNCHANGED pool

Next ==
    \/ \E k \in Keys : Insert(k) \/ Delete(k)
    \/ Continue

\* An operation that has begun runs to its return: the caller's goroutine is
\* the only actor.
Spec == Init /\ [][Next]_vars /\ WF_vars(Continue)

-----------------------------------------------------------------------------
\* The nodes of each level in key order, as the index records give them.
Levels ==
    LET lv[i \in 1 .. treeDepth] ==
            IF i = 1 THEN <<root>>
            ELSE FlattenSeq([j \in DOMAIN lv[i - 1] |->
                    LET recs == node[lv[i - 1][j]].recs
                    IN  [m \in DOMAIN recs |-> recs[m].child]])
    IN  [i \in 1 .. treeDepth |-> lv[i]]

\* The sequence ks lists the set S once, in ascending order.
InOrder(ks, S) ==
    ToSet(ks) = S /\ \A i \in 1 .. (Len(ks) - 1) : ks[i] < ks[i + 1]

Reachable == UNION {ToSet(Levels[i]) : i \in 1 .. treeDepth}

\* Type invariant.
TypeOK ==
    /\ pool \in Pools
    /\ DOMAIN node = NodeNums
    /\ \A n \in NodeNums :
          /\ node[n].kind \in {"leaf", "index"}
          /\ node[n].height \in 0 .. MaxNode
          /\ \A i \in DOMAIN node[n].recs :
                /\ node[n].recs[i].key \in Keys
                /\ node[n].recs[i].child \in 0 .. MaxNode
          /\ node[n].FLink \in 0 .. MaxNode /\ node[n].BLink \in 0 .. MaxNode
    /\ used \in SUBSET NodeNums
    /\ {root, firstLeaf, lastLeaf, treeDepth} \subseteq 0 .. MaxNode
    /\ leafRecords \in Nat
    /\ pc \in {"idle", "propagate", "growRoot", "updateKey", "rebalance", "shrink"}
    /\ failed \in BOOLEAN
    /\ ToSet(path) \subseteq NodeNums
    /\ contents \in SUBSET Keys

\* Between operations, on a tree no operation has failed on.
Sound == pc = "idle" /\ ~failed

\* Between operations, both searches find exactly the records that were
\* inserted and not deleted: the reader's lookup for every key, and the
\* writer's descent (which looks in one leaf only) for every key present.
SearchExact ==
    Sound =>
        /\ \A k \in Keys : root # 0 => (lookup(k) <=> k \in contents)
        /\ \A k \in contents :
              root # 0 /\ Descends(k) /\ IdxOf(node[Last(descend(k))], k) > 0

\* Between operations, listChildren returns every child of a directory once,
\* in key order.
ListingExact ==
    Sound /\ root # 0 =>
        \A t \in Keys :
            (\A k \in Keys : ParentOf[k] = ParentOf[t] => t <= k) =>
                InOrder(listChildren(t),
                        {k \in contents : ParentOf[k] = ParentOf[t] /\ k # t})

\* btdelete.go: "Index keys are kept consistent at every level": every index
\* record carries the first key of the child it points to.
IndexKeysExact ==
    Sound =>
        \A n \in Reachable : node[n].kind = "index" =>
            \A i \in DOMAIN node[n].recs :
                LET r == node[n].recs[i]
                IN  node[r.child].recs # <<>> /\ r.key = FirstKey(node[r.child])

\* What fsck_hfs validates at every level: all leaves at height 1 and depth
\* treeDepth, heights falling by one, and the sibling links of a level being
\* its nodes in key order, both ways, with firstLeaf and lastLeaf its ends.
LevelsLinked ==
    Sound =>
        /\ \A d \in 1 .. treeDepth :
              LET lv == Levels[d]
              IN  \A i \in DOMAIN lv :
                    /\ node[lv[i]].height = treeDepth - d + 1
                    /\ node[lv[i]].kind = IF d = treeDepth THEN "leaf" ELSE "index"
                    /\ node[lv[i]].FLink = IF i = Len(lv) THEN 0 ELSE lv[i + 1]
                    /\ node[lv[i]].BLink = IF i = 1 THEN 0 ELSE lv[i - 1]
        /\ treeDepth > 0 => firstLeaf = Head(Levels[treeDepth]) /\ lastLeaf = Last(Levels[treeDepth])
        /\ treeDepth = 0 => root = 0 /\ firstLeaf = 0 /\ lastLeaf = 0

\* Between operations, the leaves hold the contents in order and leafRecords
\* counts them; a node's bit is set exactly when the tree reaches the node,
\* and every other node is erased.
AccountingExact ==
    Sound =>
        /\ leafRecords = Cardinality(contents)
        /\ InOrder(KeysAlong(ChainFrom(firstLeaf)), contents)
        /\ used = Reachable
        /\ \A n \in NodeNums \ used : node[n] = Erased

\* btdelete.go: "storage-tight": a node other than the root is never left
\* empty, and the root is never left with a single child.
Compact ==
    Sound =>
        /\ \A n \in Reachable : node[n].recs # <<>>
        /\ treeDepth > 1 => Len(node[root].recs) > 1

\* The last branch of rebalance ("No sibling can help (parent has a single
\* child)") is never taken: an underflowing node has a sibling that merges
\* with it or spares a record.
SiblingHelps ==
    Rebalancing /\ ~failed => MergesLeft \/ MergesRight \/ SparesLeft \/ SparesRight

ChainKeys == ToSet(KeysAlong(ChainFrom(firstLeaf)))

\* btops.go: "Insertion splits overflowing leaves", btdelete.go: "Merge is
\* always safe when the combined records fit a node": no operation takes
\* another record out of the leaf chain that the readers walk, not even an
\* insertion that fails between the split of a level and the update of the
\* one above.
NoRecordLost == pc = "idle" => contents \subseteq ChainKeys

\* Every operation returns.
Returns == pc # "idle" ~> pc = "idle"
=============================================================================
