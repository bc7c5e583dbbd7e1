------------------------------- MODULE MCBTree -------------------------------
EXTENDS BTree

CONSTANT K          \* the number of keys
MCKeys == 1 .. K
\* The root folder's record and its thread, which mkfs puts in the catalog.
Root == {1, 2}
\* mkfs leaves the extents tree empty.
BothTrees == {{}, Root}
Catalog == {Root}
\* Key 1 is the record of the root folder; then every folder has three keys,
\* its thread record and two children.
Directories == [k \in MCKeys |-> (k + 1) \div 3]
\* Three records of size 2 fit a node of size 7, and one underflows.
Uniform == [k \in MCKeys |-> 2]
\* Threads of short names, then threads of long names.
ShortThenLong == [k \in MCKeys |-> IF k <= K \div 2 THEN 1 ELSE 5]

\* The catalog client with SetLabel, which deletes the root folder's record
\* and thread and inserts them again, in this order and with nothing in
\* between; other operations leave them alone.
RelabelNext ==
    \/ pc # "idle" /\ Continue
    \/ Root \subseteq contents /\ \E k \in Keys \ Root : Insert(k) \/ Delete(k)
    \/ Root \subseteq contents /\ Delete(1)
    \/ 1 \notin contents /\ 2 \in contents /\ Delete(2)
    \/ Root \cap contents = {} /\ Insert(1)
    \/ 1 \in contents /\ 2 \notin contents /\ Insert(2)
=============================================================================
