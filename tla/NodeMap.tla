------------------------------- MODULE NodeMap -------------------------------
(***************************************************************************)
(* The node bitmap of a B-tree file and the growth of the file             *)
(* (btmap.go, and allocNode, freeNode and growFork of btgrow.go).          *)
(*                                                                         *)
(* Node 0 is the header node; its map record addresses HeaderMapBits       *)
(* nodes.  A chain of map nodes, linked from the header node, continues    *)
(* the bitmap: each addresses MapNodeBits further nodes.  When every node  *)
(* below totalNodes is used, allocNode grows the fork by a clump that adds *)
(* GrowNodes nodes and, if the bitmap is then too short, places map nodes  *)
(* at the lowest clear bits of the bitmap that exists so far.              *)
(***************************************************************************)
EXTENDS Integers, FiniteSets, FiniteSetsExt, Sequences

CONSTANTS
    InitNodes,       \* totalNodes of the tree as mkfs lays it out
    FirstNodes,      \* nodes mkfs gives it: {1} for the catalog, none for the extents
    GrowNodes,       \* nodes a clump adds (8, or more with large blocks)
    HeaderMapBits,   \* bits of the header node's map record
    MapNodeBits,     \* bits of a map node's record
    MaxClumps,       \* bound: clumps the free space of the volume may hold
    RecycledBlocks   \* may a clump reuse blocks that held file data?

ASSUME InitNodesAssumption == InitNodes \in Nat \ {0}
ASSUME FirstNodesAssumption == FirstNodes \subseteq 1 .. (InitNodes - 1)
ASSUME GrowNodesAssumption == GrowNodes \in Nat \ {0, 1}
ASSUME HeaderMapBitsAssumption ==
    HeaderMapBits \in Nat /\ InitNodes <= HeaderMapBits
\* 32,624 bits and 8 nodes at the node size mkfs uses, 4096.
ASSUME MapNodeBitsAssumption == MapNodeBits \in Nat /\ GrowNodes <= MapNodeBits
ASSUME MaxClumpsAssumption == MaxClumps \in Nat
ASSUME RecycledBlocksAssumption == RecycledBlocks \in BOOLEAN

VARIABLES
    totalNodes,   \* BTHeaderRec.totalNodes
    freeNodes,    \* BTHeaderRec.freeNodes
    used,         \* the nodes whose bit is set
    mapNodes,     \* the map-node chain, in FLink order from the header node
    forkNodes,    \* nodes the fork's extents cover (forkBlocks * bs / nodeSize)
    clumps,       \* clumps the allocation bitmap can still provide
    written,      \* nodes of the fork that are not all zero
    held,         \* nodes handed to the tree by allocNode and not freed
    err           \* the error of the last allocNode, "none" when it succeeded

vars == <<totalNodes, freeNodes, used, mapNodes, forkNodes, clumps, written,
          held, err>>

MaxForkNodes == InitNodes + MaxClumps * GrowNodes

Nodes == 0 .. (MaxForkNodes - 1)

Init ==
    /\ totalNodes = InitNodes
    /\ freeNodes = InitNodes - (Cardinality(FirstNodes) + 1)
    /\ used = FirstNodes \cup {0}
    /\ mapNodes = <<>>
    /\ forkNodes = InitNodes
    /\ clumps \in 0 .. MaxClumps
    /\ written = FirstNodes \cup {0}
    /\ held = FirstNodes
    /\ err = "none"

-----------------------------------------------------------------------------
\* Bits the header record and a chain of c map nodes address.
mapCapacityBits(c) == HeaderMapBits + c * MapNodeBits

\* Nodes below "limit" whose bit exists and is clear, with a chain of c map
\* nodes and the bits of u set.
ClearBits(limit, c, u) ==
    {m \in 0 .. (limit - 1) : m < mapCapacityBits(c) /\ m \notin u}

\* firstFreeNode finds no node.
MapFull == ClearBits(totalNodes, Len(mapNodes), used) = {}

\* growFork appends a clump of blocks to the fork before anything else.
NewTotal == forkNodes + GrowNodes

\* Defect: the capacity is compared with the old total.
BugNeedsMapNodeLate == mapCapacityBits(Len(mapNodes)) < totalNodes

\* ensureMapCapacity adds a map node (one is enough: GrowNodes <= MapNodeBits).
NeedsMapNode == mapCapacityBits(Len(mapNodes)) < NewTotal

\* Where addMapNode may put it: the bitmap as it is before the node is added,
\* up to the capacity of the fork.  It takes the lowest.
MapSlots == ClearBits(NewTotal, Len(mapNodes), used)

\* What the nodes of a fresh clump hold: zeroes, or the data of the files the
\* blocks belonged to (neither removeFile nor growFork erases them).
ClumpContents == IF RecycledBlocks THEN SUBSET (forkNodes .. (NewTotal - 1)) ELSE {{}}

-----------------------------------------------------------------------------
\* allocNode hands out node m, given the bits of u are set.
Take(m, u, w) ==
    /\ used' = u \cup {m}
    /\ held' = held \cup {m}
    /\ written' = w \cup {m}
    /\ err' = "none"

\* allocNode, a free node below totalNodes.
allocNode ==
    /\ ~MapFull
    /\ Take(Min(ClearBits(totalNodes, Len(mapNodes), used)), used, written)
    /\ freeNodes' = freeNodes - 1
    /\ UNCHANGED <<totalNodes, mapNodes, forkNodes, clumps>>

\* Defect: the allocator's answer is not looked at.
BugGrowForkUnchecked(maps, added) ==
    /\ clumps' = clumps - 1
    /\ forkNodes' = NewTotal
    /\ totalNodes' = NewTotal
    /\ mapNodes' = mapNodes \o maps
    /\ freeNodes' = freeNodes + (NewTotal - totalNodes) - Len(maps) - 1
    /\ Take(Min(ClearBits(NewTotal, Len(mapNodes) + Len(maps), used \cup added)),
            used \cup added, written \cup added)

\* Defect: the bit of the new map node is not set.
BugGrowForkMapUnmarked(maps, added) ==
    /\ clumps > 0
    /\ clumps' = clumps - 1
    /\ forkNodes' = NewTotal
    /\ totalNodes' = NewTotal
    /\ mapNodes' = mapNodes \o maps
    /\ freeNodes' = freeNodes + (NewTotal - totalNodes) - 1
    /\ Take(Min(ClearBits(NewTotal, Len(mapNodes) + Len(maps), used)),
            used, written \cup added)

\* growFork with maps, a sequence of at most one map node, appended to the
\* chain; then the search again.
growFork(maps, added) ==
    /\ clumps > 0
    /\ clumps' = clumps - 1
    /\ forkNodes' = NewTotal
    /\ totalNodes' = NewTotal
    /\ mapNodes' = mapNodes \o maps
    /\ freeNodes' = freeNodes + (NewTotal - totalNodes) - Len(maps) - 1
    /\ LET clear == ClearBits(NewTotal, Len(mapNodes) + Len(maps), used \cup added)
       IN  \E old \in ClumpContents :
               Take(Min(clear), used \cup added, written \cup old \cup added)

allocNodeGrow ==
    /\ MapFull
    /\ ~NeedsMapNode
    /\ growFork(<<>>, {})

allocNodeGrowMap ==
    /\ MapFull
    /\ NeedsMapNode
    /\ MapSlots # {}
    /\ growFork(<<Min(MapSlots)>>, {Min(MapSlots)})

\* allocNode when the volume has no blocks left for a clump.
allocNodeNoSpace ==
    /\ MapFull
    /\ clumps = 0
    /\ err' = "no blocks"
    /\ UNCHANGED <<totalNodes, freeNodes, used, mapNodes, forkNodes, clumps,
                   written, held>>

\* Defect: the clump's nodes are counted before the map node is found.
BugNoSlotCounts ==
    /\ MapFull
    /\ clumps > 0
    /\ NeedsMapNode
    /\ MapSlots = {}
    /\ NewTotal <= MaxForkNodes
    /\ forkNodes' = NewTotal
    /\ freeNodes' = freeNodes + GrowNodes
    /\ err' = "no slot for map node"
    /\ UNCHANGED <<totalNodes, used, mapNodes, clumps, written, held>>

\* allocNode when growFork extended the fork but addMapNode found no clear
\* bit: the extents stay appended, totalNodes and freeNodes are not updated,
\* and the allocator that gave the blocks is dropped with the transaction, so
\* the free space is as before.  MaxForkNodes bounds the repetitions.
allocNodeNoSlot ==
    /\ MapFull
    /\ clumps > 0
    /\ NeedsMapNode
    /\ MapSlots = {}
    /\ NewTotal <= MaxForkNodes
    /\ forkNodes' = NewTotal
    /\ err' = "no slot for map node"
    /\ UNCHANGED <<totalNodes, freeNodes, used, mapNodes, clumps, written, held>>

\* Defect: the node is not erased.
BugFreeNodeUnerased(m) ==
    /\ used' = used \ {m}
    /\ held' = held \ {m}
    /\ freeNodes' = freeNodes + 1
    /\ err' = "none"
    /\ UNCHANGED <<totalNodes, mapNodes, forkNodes, clumps, written>>

freeNode(m) ==
    /\ used' = used \ {m}
    /\ held' = held \ {m}
    /\ written' = written \ {m}
    /\ freeNodes' = freeNodes + 1
    /\ err' = "none"
    /\ UNCHANGED <<totalNodes, mapNodes, forkNodes, clumps>>

Next ==
    \/ allocNode
    \/ allocNodeGrow
    \/ allocNodeGrowMap
    \/ allocNodeNoSpace
    \/ allocNodeNoSlot
    \/ \E m \in held : freeNode(m)

Spec == Init /\ [][Next]_vars

-----------------------------------------------------------------------------
MapChain == {mapNodes[i] : i \in 1 .. Len(mapNodes)}

\* Type invariant.
TypeOK ==
    /\ totalNodes \in 1 .. MaxForkNodes
    /\ freeNodes \in 0 .. MaxForkNodes
    /\ used \in SUBSET Nodes
    /\ mapNodes \in Seq(Nodes)
    /\ forkNodes \in totalNodes .. MaxForkNodes
    /\ clumps \in 0 .. MaxClumps
    /\ written \in SUBSET Nodes
    /\ held \in SUBSET Nodes
    /\ err \in {"none", "no blocks", "no slot for map node"}

\* A set bit is a live node: the header node, a node of the map chain or a
\* node the tree holds, each counted once, and all below totalNodes.  So a
\* node given to the tree never carries part of the bitmap, and none leaks.
BitsExact ==
    /\ used = {0} \cup MapChain \cup held
    /\ 0 \notin MapChain \cup held
    /\ MapChain \cap held = {}
    /\ \A i, j \in 1 .. Len(mapNodes) : i # j => mapNodes[i] # mapNodes[j]
    /\ \A m \in used : m < totalNodes

\* freeNodes counts the clear bits below totalNodes, through growth and the
\* map nodes that growth consumes.
FreeNodesExact == freeNodes = totalNodes - Cardinality(used)

\* Every node of the tree has a bit: setNodeBit never fails with "beyond
\* bitmap".
MapCovers == totalNodes <= mapCapacityBits(Len(mapNodes))

\* mkfs.go on the catalog fork: growing it means "allocating more blocks ...
\* enlarging the node bitmap", "so there is no hard cap": with blocks left,
\* growth does not fail.
NoHardCap == err # "no slot for map node"

\* btgrow.go, freeNode: fsck_hfs reports a "node marked free in the bitmap"
\* that "still carries a non-zero node descriptor": free nodes are erased.
UnusedErased == \A m \in 0 .. (totalNodes - 1) : m \in written => m \in used
=============================================================================
