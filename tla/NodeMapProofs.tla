--------------------------- MODULE NodeMapProofs ---------------------------
(***************************************************************************)
(* The node bitmap of a B-tree file, for every reservation, clump size and *)
(* map-node size: bits, counts and capacity stay in step through growth.   *)
(* The induction needs two facts that no run property states: a bound on   *)
(* the nodes the clumps taken so far add, and that the fork is longer      *)
(* than the tree only once the bitmap has no bit left for a map node, a    *)
(* state the tree never gets out of.                                       *)
(***************************************************************************)
EXTENDS NodeMap, FiniteSetTheorems, SequenceTheorems, WellFoundedInduction,
        TLAPS

Capacity == mapCapacityBits(Len(mapNodes))

Clumped == totalNodes <= InitNodes + (MaxClumps - clumps) * GrowNodes

AtTheCap == forkNodes = totalNodes \/ Capacity = totalNodes

IInv ==
    /\ TypeOK
    /\ BitsExact
    /\ FreeNodesExact
    /\ MapCovers
    /\ Clumped
    /\ AtTheCap

\* A non-empty set of naturals has a least element, which Min chooses.
LEMMA MinIsMember ==
    ASSUME NEW S \in SUBSET Nat, S # {}
    PROVE  Min(S) \in S
<1> DEFINE R == OpToRel(<, Nat)
<1>1. IsWellFoundedOn(R, Nat)
  BY NatLessThanWellFounded
<1>2. ASSUME NEW x \in Nat, NEW y \in Nat, x < y
      PROVE  <<x, y>> \in R
  BY <1>2 DEF OpToRel
<1> HIDE DEF R
<1>3. PICK m \in S : \A x \in S : ~(<<x, m>> \in R)
  BY <1>1, WFMin
<1>4. ASSUME NEW x \in S
      PROVE  m <= x
  <2>1. x \in Nat /\ m \in Nat
    OBVIOUS
  <2>2. ~(x < m)
    BY <1>2, <1>3, <2>1, Zenon
  <2> QED
    BY <2>1, <2>2
<1>5. \E m1 \in S : \A x \in S : m1 <= x
  BY <1>3, <1>4
<1> QED
  BY <1>5 DEF Min

\* The constants are numbers, and so are the bounds made from them.
LEMMA Numbers ==
    /\ InitNodes \in Nat /\ InitNodes >= 1
    /\ GrowNodes \in Nat /\ GrowNodes >= 2
    /\ HeaderMapBits \in Nat /\ InitNodes <= HeaderMapBits
    /\ MapNodeBits \in Nat /\ GrowNodes <= MapNodeBits
    /\ MaxClumps \in Nat
    /\ MaxForkNodes \in Nat
<1>1. InitNodes \in Nat /\ GrowNodes \in Nat /\ MaxClumps \in Nat
  BY InitNodesAssumption, GrowNodesAssumption, MaxClumpsAssumption
<1>2. MaxClumps * GrowNodes \in Nat
  BY <1>1
<1>3. MaxForkNodes \in Nat
  BY <1>1, <1>2 DEF MaxForkNodes
<1> QED
  BY <1>3, InitNodesAssumption, GrowNodesAssumption, HeaderMapBitsAssumption,
     MapNodeBitsAssumption, MaxClumpsAssumption

\* Each map node of the chain adds its bits to the capacity.
LEMMA CapacityGrows ==
    ASSUME NEW k \in Nat
    PROVE  /\ mapCapacityBits(k) \in Nat
           /\ mapCapacityBits(k + 1) = mapCapacityBits(k) + MapNodeBits
<1>1. MapNodeBits \in Nat /\ HeaderMapBits \in Nat
  BY Numbers
<1>2. k * MapNodeBits \in Nat
  BY <1>1
<1>3. (k + 1) * MapNodeBits = k * MapNodeBits + MapNodeBits
  BY <1>1
<1> QED
  BY <1>1, <1>2, <1>3 DEF mapCapacityBits

\* A set of node numbers below a limit has at most limit members.
LEMMA UsedBound ==
    ASSUME NEW t \in Nat, NEW U, \A m \in U : m \in 0 .. (t - 1)
    PROVE  /\ IsFiniteSet(U)
           /\ Cardinality(U) \in Nat
           /\ t - Cardinality(U) \in 0 .. t
<1>1. IsFiniteSet(0 .. (t - 1)) /\ Cardinality(0 .. (t - 1)) = t
  BY FS_Interval
<1>2. U \in SUBSET (0 .. (t - 1))
  OBVIOUS
<1>3. IsFiniteSet(U) /\ Cardinality(U) <= t /\ Cardinality(U) \in Nat
  BY <1>1, <1>2, FS_Subset, FS_CardinalityType
<1> QED
  BY <1>3

\* ClearBits is a set of nodes below the limit that have a clear bit.
LEMMA ClearIsFree ==
    ASSUME NEW limit \in Nat, NEW c \in Nat, NEW u,
           ClearBits(limit, c, u) # {}
    PROVE  /\ Min(ClearBits(limit, c, u)) \in 0 .. (limit - 1)
           /\ Min(ClearBits(limit, c, u)) < mapCapacityBits(c)
           /\ Min(ClearBits(limit, c, u)) \notin u
<1>1. ClearBits(limit, c, u) \in SUBSET Nat
  BY DEF ClearBits
<1>2. Min(ClearBits(limit, c, u)) \in ClearBits(limit, c, u)
  BY <1>1, MinIsMember
<1> QED
  BY <1>2 DEF ClearBits

\* Setting the bit of one more node counts it.
LEMMA OneMore ==
    ASSUME NEW t \in Nat, NEW U, \A m \in U : m \in 0 .. (t - 1),
           NEW x \in 0 .. (t - 1), x \notin U
    PROVE  /\ Cardinality(U \cup {x}) = Cardinality(U) + 1
           /\ \A m \in U \cup {x} : m \in 0 .. (t - 1)
<1>1. IsFiniteSet(U)
  BY UsedBound
<1> QED
  BY <1>1, FS_AddElement

-----------------------------------------------------------------------------
\* What the inductive invariant says in one place.
LEMMA Facts ==
    ASSUME IInv
    PROVE  /\ totalNodes \in Nat /\ totalNodes >= 1
           /\ freeNodes \in Nat
           /\ clumps \in 0 .. MaxClumps
           /\ forkNodes \in Nat /\ totalNodes <= forkNodes
           /\ forkNodes <= MaxForkNodes
           /\ Len(mapNodes) \in Nat
           /\ mapNodes \in Seq(Nodes)
           /\ Capacity \in Nat /\ totalNodes <= Capacity
           /\ \A m \in used : m \in 0 .. (totalNodes - 1)
           /\ used \subseteq Nodes
<1>1. TypeOK
  BY DEF IInv
<1>2. mapNodes \in Seq(Nodes) /\ used \subseteq Nodes
  BY <1>1 DEF TypeOK
<1>3. Len(mapNodes) \in Nat
  BY <1>2, LenProperties
<1>4. Capacity \in Nat /\ totalNodes <= Capacity
  BY <1>3, CapacityGrows DEF Capacity, IInv, MapCovers
<1>5. Nodes \subseteq Nat
  BY Numbers DEF Nodes
<1>6. \A m \in used : m < totalNodes
  BY DEF IInv, BitsExact
<1>7. /\ totalNodes \in 1 .. MaxForkNodes
      /\ freeNodes \in 0 .. MaxForkNodes
      /\ forkNodes \in totalNodes .. MaxForkNodes
      /\ clumps \in 0 .. MaxClumps
  BY <1>1 DEF TypeOK
<1>8. /\ totalNodes \in Nat /\ totalNodes >= 1
      /\ freeNodes \in Nat
      /\ forkNodes \in Nat /\ totalNodes <= forkNodes
      /\ forkNodes <= MaxForkNodes
  BY <1>7, Numbers
<1>9. \A m \in used : m \in 0 .. (totalNodes - 1)
  BY <1>2, <1>5, <1>6, <1>8
<1> QED
  BY <1>2, <1>3, <1>4, <1>7, <1>8, <1>9

\* allocNode from a bit that is clear.
LEMMA AllocKeeps ==
    ASSUME IInv, allocNode
    PROVE  IInv'
<1> DEFINE m == Min(ClearBits(totalNodes, Len(mapNodes), used))
<1>1. /\ used' = used \cup {m} /\ held' = held \cup {m}
      /\ written' = written \cup {m} /\ err' = "none"
      /\ freeNodes' = freeNodes - 1
      /\ UNCHANGED <<totalNodes, mapNodes, forkNodes, clumps>>
  BY DEF allocNode, Take
<1>2. m \in 0 .. (totalNodes - 1) /\ m \notin used
  BY Facts, ClearIsFree DEF allocNode, MapFull
<1> HIDE DEF m
<1>3. /\ Cardinality(used') = Cardinality(used) + 1
      /\ \A x \in used' : x \in 0 .. (totalNodes - 1)
  BY <1>1, <1>2, Facts, OneMore
<1>4. Cardinality(used) \in Nat /\ totalNodes - Cardinality(used') \in 0 .. totalNodes
  BY <1>3, Facts, UsedBound
<1>5. FreeNodesExact'
  BY <1>1, <1>3, <1>4, Facts DEF IInv, FreeNodesExact
<1>6. TypeOK'
  <2>1. m \in Nodes
    BY <1>2, Facts, Numbers DEF Nodes
  <2>2. freeNodes' \in 0 .. MaxForkNodes
    BY <1>1, <1>4, <1>5, Facts, Numbers DEF FreeNodesExact
  <2> QED
    BY <1>1, <2>1, <2>2 DEF IInv, TypeOK
<1>7. BitsExact'
  <2>1. MapChain' = MapChain
    BY <1>1 DEF MapChain
  <2>2. m \notin MapChain /\ m # 0 /\ m < totalNodes
    BY <1>2, Facts DEF IInv, BitsExact
  <2> QED
    BY <1>1, <2>1, <2>2 DEF IInv, BitsExact
<1>8. MapCovers' /\ Clumped' /\ AtTheCap'
  BY <1>1 DEF IInv, MapCovers, Clumped, AtTheCap, Capacity
<1> QED
  BY <1>5, <1>6, <1>7, <1>8 DEF IInv

\* freeNode of a node that the tree holds.
LEMMA FreeKeeps ==
    ASSUME IInv, NEW m \in held, freeNode(m)
    PROVE  IInv'
<1>1. /\ used' = used \ {m} /\ held' = held \ {m}
      /\ written' = written \ {m} /\ err' = "none"
      /\ freeNodes' = freeNodes + 1
      /\ UNCHANGED <<totalNodes, mapNodes, forkNodes, clumps>>
  BY DEF freeNode
<1>2. m \in used /\ m \notin MapChain /\ m # 0
  BY DEF IInv, BitsExact
<1>3. IsFiniteSet(used) /\ Cardinality(used) \in Nat
  BY Facts, UsedBound
<1>4. Cardinality(used') = Cardinality(used) - 1
  BY <1>1, <1>2, <1>3, FS_RemoveElement
<1>5. \A x \in used' : x \in 0 .. (totalNodes - 1)
  BY <1>1, Facts
<1>6. totalNodes - Cardinality(used') \in 0 .. totalNodes
  BY <1>5, Facts, UsedBound
<1>7. FreeNodesExact'
  BY <1>1, <1>3, <1>4, Facts DEF IInv, FreeNodesExact
<1>8. TypeOK'
  <2>1. freeNodes' \in 0 .. MaxForkNodes
    BY <1>1, <1>6, <1>7, Facts, Numbers DEF FreeNodesExact
  <2> QED
    BY <1>1, <2>1 DEF IInv, TypeOK
<1>9. BitsExact'
  <2>1. MapChain' = MapChain
    BY <1>1 DEF MapChain
  <2> QED
    BY <1>1, <1>2, <2>1 DEF IInv, BitsExact
<1>10. MapCovers' /\ Clumped' /\ AtTheCap'
  BY <1>1 DEF IInv, MapCovers, Clumped, AtTheCap, Capacity
<1> QED
  BY <1>7, <1>8, <1>9, <1>10 DEF IInv

\* While a clump can be had and the bitmap has a bit for the next map node,
\* the fork holds exactly the nodes of the tree, and a clump fits the bound.
LEMMA RoomToGrow ==
    ASSUME IInv, clumps > 0, forkNodes = totalNodes
    PROVE  /\ NewTotal = totalNodes + GrowNodes
           /\ NewTotal \in Nat
           /\ NewTotal <= MaxForkNodes
           /\ NewTotal <= InitNodes + (MaxClumps - (clumps - 1)) * GrowNodes
<1>1. clumps - 1 \in Nat /\ clumps \in Nat /\ totalNodes \in Nat
  BY Facts, Numbers
<1>2. GrowNodes \in Nat /\ MaxClumps \in Nat /\ InitNodes \in Nat
  BY Numbers
<1>3. (clumps - 1) * GrowNodes \in Nat
  BY <1>1, <1>2
<1>4. (MaxClumps - (clumps - 1)) * GrowNodes
        = (MaxClumps - clumps) * GrowNodes + GrowNodes
  BY <1>1, <1>2
<1>5. (MaxClumps - (clumps - 1)) * GrowNodes
        = MaxClumps * GrowNodes - (clumps - 1) * GrowNodes
  BY <1>1, <1>2
<1>6. totalNodes <= InitNodes + (MaxClumps - clumps) * GrowNodes
  BY DEF IInv, Clumped
<1>7. /\ (MaxClumps - clumps) * GrowNodes \in Int
      /\ MaxClumps * GrowNodes \in Int
  BY <1>1, <1>2
<1>8. NewTotal = totalNodes + GrowNodes /\ NewTotal \in Nat
  BY <1>1, <1>2 DEF NewTotal
<1>9. NewTotal <= InitNodes + (MaxClumps - (clumps - 1)) * GrowNodes
  BY <1>1, <1>2, <1>4, <1>6, <1>7, <1>8
<1>10. NewTotal <= InitNodes + MaxClumps * GrowNodes
  BY <1>2, <1>3, <1>5, <1>7, <1>8, <1>9
<1> QED
  BY <1>8, <1>9, <1>10 DEF MaxForkNodes

\* Growth that needs no map node: the first new node is handed out.
LEMMA GrowKeeps ==
    ASSUME IInv, allocNodeGrow
    PROVE  IInv'
<1> DEFINE clear == ClearBits(NewTotal, Len(mapNodes), used)
           m == Min(clear)
<1>1. /\ MapFull /\ ~(Capacity < NewTotal) /\ clumps > 0
      /\ clumps' = clumps - 1
      /\ forkNodes' = NewTotal /\ totalNodes' = NewTotal
      /\ mapNodes' = mapNodes \o <<>>
      /\ freeNodes' = freeNodes + (NewTotal - totalNodes) - Len(<<>>) - 1
      /\ \E old \in ClumpContents :
            Take(Min(ClearBits(NewTotal, Len(mapNodes) + Len(<<>>), used \cup {})),
                 used \cup {}, written \cup old \cup {})
  BY DEF allocNodeGrow, growFork, NeedsMapNode, Capacity
<1>2. /\ Len(<<>>) = 0 /\ Len(mapNodes) + Len(<<>>) = Len(mapNodes)
      /\ mapNodes \o <<>> = mapNodes
  BY Facts, ConcatEmptySeq, LenProperties
<1>3. PICK old \in ClumpContents : Take(m, used, written \cup old)
  BY <1>1, <1>2
<1>4. forkNodes = totalNodes
  BY <1>1, Facts, Numbers DEF IInv, AtTheCap, NewTotal
<1>5. /\ NewTotal = totalNodes + GrowNodes /\ NewTotal \in Nat
      /\ NewTotal <= MaxForkNodes
  BY <1>1, <1>4, RoomToGrow
<1>6. totalNodes \in clear
  <2>1. totalNodes \in 0 .. (NewTotal - 1) /\ totalNodes < Capacity
    <3>1. totalNodes \in Nat /\ Capacity \in Nat
      BY Facts
    <3>2. GrowNodes \in Nat /\ GrowNodes >= 2
      BY Numbers
    <3>3. ~(Capacity < NewTotal)
      BY <1>1
    <3> QED
      BY <1>5, <3>1, <3>2, <3>3
  <2>2. totalNodes \notin used
    BY Facts
  <2> QED
    BY <2>1, <2>2 DEF ClearBits, Capacity
<1>7. m \in 0 .. (NewTotal - 1) /\ m \notin used
  BY <1>5, <1>6, Facts, ClearIsFree
<1> HIDE DEF m, clear
<1>8. /\ used' = used \cup {m} /\ held' = held \cup {m}
      /\ written' = written \cup old \cup {m} /\ err' = "none"
  BY <1>3 DEF Take
<1>9. \A x \in used : x \in 0 .. (NewTotal - 1)
  BY <1>5, Facts, Numbers
<1>10. /\ Cardinality(used') = Cardinality(used) + 1
       /\ \A x \in used' : x \in 0 .. (NewTotal - 1)
  BY <1>5, <1>7, <1>8, <1>9, OneMore
<1>11. Cardinality(used) \in Nat /\ NewTotal - Cardinality(used') \in 0 .. NewTotal
  BY <1>5, <1>9, <1>10, UsedBound
<1>12. freeNodes' = NewTotal - Cardinality(used')
  <2>1. freeNodes = totalNodes - Cardinality(used)
    BY DEF IInv, FreeNodesExact
  <2>2. freeNodes' = freeNodes + (NewTotal - totalNodes) - 0 - 1
    BY <1>1, <1>2
  <2>3. totalNodes \in Nat
    BY Facts
  <2> QED
    BY <1>5, <1>10, <1>11, <2>1, <2>2, <2>3
<1>13. TypeOK'
  <2>1. m \in Nodes
    BY <1>5, <1>7, Numbers DEF Nodes
  <2>2. old \in SUBSET Nodes
    BY <1>3, <1>5, Facts, Numbers DEF ClumpContents, Nodes
  <2>3. /\ freeNodes' \in 0 .. MaxForkNodes
        /\ totalNodes' \in 1 .. MaxForkNodes
        /\ forkNodes' \in totalNodes' .. MaxForkNodes
        /\ clumps' \in 0 .. MaxClumps
    <3>1. /\ totalNodes \in Nat /\ totalNodes >= 1
          /\ clumps \in 0 .. MaxClumps
      BY Facts
    <3>2. GrowNodes \in Nat /\ MaxForkNodes \in Nat /\ MaxClumps \in Nat
      BY Numbers
    <3>3. /\ clumps > 0 /\ clumps' = clumps - 1
          /\ forkNodes' = NewTotal /\ totalNodes' = NewTotal
      BY <1>1
    <3> QED
      BY <1>5, <1>11, <1>12, <3>1, <3>2, <3>3
  <2> QED
    BY <1>1, <1>2, <1>8, <2>1, <2>2, <2>3 DEF IInv, TypeOK
<1>14. BitsExact'
  <2>1. MapChain' = MapChain /\ mapNodes' = mapNodes
    BY <1>1, <1>2 DEF MapChain
  <2>2. m \notin MapChain /\ m # 0
    BY <1>7 DEF IInv, BitsExact
  <2>3. \A x \in used' : x < totalNodes'
    BY <1>1, <1>5, <1>10
  <2> QED
    BY <1>8, <2>1, <2>2, <2>3 DEF IInv, BitsExact
<1>15. Clumped'
  BY <1>1, <1>4, RoomToGrow DEF Clumped
<1>16. MapCovers' /\ AtTheCap' /\ FreeNodesExact'
  BY <1>1, <1>2, <1>5, <1>12, Facts
     DEF MapCovers, AtTheCap, Capacity, FreeNodesExact
<1> QED
  BY <1>13, <1>14, <1>15, <1>16 DEF IInv

\* Growth with a map node: the bitmap has one more chunk, and of the two or
\* more new nodes one that is not the map node is handed out.
LEMMA GrowMapKeeps ==
    ASSUME IInv, allocNodeGrowMap
    PROVE  IInv'
<1> DEFINE slot  == Min(MapSlots)
           U     == used \cup {slot}
           maps  == <<slot>>
           clear == ClearBits(NewTotal, Len(mapNodes) + 1, U)
           m     == Min(clear)
<1>1. /\ MapFull /\ Capacity < NewTotal /\ MapSlots # {} /\ clumps > 0
      /\ clumps' = clumps - 1
      /\ forkNodes' = NewTotal /\ totalNodes' = NewTotal
      /\ mapNodes' = mapNodes \o maps
      /\ freeNodes' = freeNodes + (NewTotal - totalNodes) - Len(maps) - 1
      /\ \E old \in ClumpContents :
            Take(Min(ClearBits(NewTotal, Len(mapNodes) + Len(maps), U)),
                 U, written \cup old \cup {slot})
  BY DEF allocNodeGrowMap, growFork, NeedsMapNode, Capacity
<1>2. Len(maps) = 1
  OBVIOUS
<1>3. PICK old \in ClumpContents : Take(m, U, written \cup old \cup {slot})
  BY <1>1, <1>2
<1>4. forkNodes = totalNodes
  <2>1. NewTotal \in Nat
    BY Facts, Numbers DEF NewTotal
  <2>2. /\ slot \in 0 .. (NewTotal - 1) /\ slot < Capacity /\ slot \notin used
    BY <1>1, <2>1, Facts, ClearIsFree DEF MapSlots, Capacity
  <2>3. ~(slot \in 0 .. (totalNodes - 1))
    BY <1>1, <2>2 DEF MapFull, ClearBits, Capacity
  <2> HIDE DEF slot
  <2>4. Capacity # totalNodes
    BY <2>1, <2>2, <2>3, Facts
  <2> QED
    BY <2>4 DEF IInv, AtTheCap
<1>5. /\ NewTotal = totalNodes + GrowNodes /\ NewTotal \in Nat
      /\ NewTotal <= MaxForkNodes
  BY <1>1, <1>4, RoomToGrow
<1>6. slot \in 0 .. (NewTotal - 1) /\ slot \notin used
  BY <1>1, <1>5, Facts, ClearIsFree DEF MapSlots
<1>7. NewTotal <= mapCapacityBits(Len(mapNodes) + 1)
  <2>1. mapCapacityBits(Len(mapNodes) + 1) = Capacity + MapNodeBits
    BY Facts, CapacityGrows DEF Capacity
  <2>2. totalNodes \in Nat /\ Capacity \in Nat /\ totalNodes <= Capacity
    BY Facts
  <2>3. GrowNodes \in Nat /\ MapNodeBits \in Nat /\ GrowNodes <= MapNodeBits
    BY Numbers
  <2> QED
    BY <1>5, <2>1, <2>2, <2>3
<1> HIDE DEF slot
<1>8. \E x \in clear : TRUE
  <2>1. /\ totalNodes \in Nat /\ GrowNodes \in Nat /\ GrowNodes >= 2
        /\ mapCapacityBits(Len(mapNodes) + 1) \in Nat
    BY Facts, Numbers, CapacityGrows
  <2>2. /\ totalNodes \in 0 .. (NewTotal - 1)
        /\ totalNodes + 1 \in 0 .. (NewTotal - 1)
        /\ totalNodes < mapCapacityBits(Len(mapNodes) + 1)
        /\ totalNodes + 1 < mapCapacityBits(Len(mapNodes) + 1)
    BY <1>5, <1>7, <2>1
  <2>3. totalNodes \notin used /\ totalNodes + 1 \notin used
    BY <2>1, Facts
  <2>4. totalNodes \notin U \/ totalNodes + 1 \notin U
    BY <2>1, <2>3
  <2> HIDE DEF U
  <2> QED
    BY <2>2, <2>4 DEF ClearBits
<1>9. m \in 0 .. (NewTotal - 1) /\ m \notin U
  <2>1. Len(mapNodes) + 1 \in Nat
    BY Facts
  <2>2. clear # {}
    BY <1>8
  <2> QED
    BY <1>5, <2>1, <2>2, ClearIsFree
<1> HIDE DEF m, clear
<1>10. /\ used' = U \cup {m} /\ held' = held \cup {m}
       /\ written' = written \cup old \cup {slot} \cup {m} /\ err' = "none"
  BY <1>3 DEF Take
<1>11. \A x \in used : x \in 0 .. (NewTotal - 1)
  BY <1>5, Facts, Numbers
<1>12. /\ Cardinality(U) = Cardinality(used) + 1
       /\ \A x \in U : x \in 0 .. (NewTotal - 1)
  BY <1>5, <1>6, <1>11, OneMore
<1>13. /\ Cardinality(used') = Cardinality(U) + 1
       /\ \A x \in used' : x \in 0 .. (NewTotal - 1)
  <2> HIDE DEF U
  <2> QED
    BY <1>5, <1>9, <1>10, <1>12, OneMore
<1>14. Cardinality(used) \in Nat /\ NewTotal - Cardinality(used') \in 0 .. NewTotal
  BY <1>5, <1>11, <1>13, UsedBound
<1>15. freeNodes' = NewTotal - Cardinality(used')
  <2>1. freeNodes = totalNodes - Cardinality(used)
    BY DEF IInv, FreeNodesExact
  <2>2. freeNodes' = freeNodes + (NewTotal - totalNodes) - 1 - 1
    BY <1>1, <1>2
  <2>3. totalNodes \in Nat
    BY Facts
  <2> QED
    BY <1>5, <1>12, <1>13, <1>14, <2>1, <2>2, <2>3
<1>16. slot \in Nodes /\ m \in Nodes
  BY <1>5, <1>6, <1>9, Numbers DEF Nodes
<1>17. /\ mapNodes' \in Seq(Nodes)
       /\ Len(mapNodes') = Len(mapNodes) + 1
       /\ \A i \in 1 .. (Len(mapNodes) + 1) :
             mapNodes'[i] = IF i <= Len(mapNodes) THEN mapNodes[i] ELSE slot
  <2>1. maps \in Seq(Nodes) /\ maps[1] = slot
    BY <1>16
  <2>2. mapNodes \in Seq(Nodes) /\ Len(mapNodes) \in Nat
    BY Facts
  <2>3. /\ mapNodes \o maps \in Seq(Nodes)
        /\ Len(mapNodes \o maps) = Len(mapNodes) + Len(maps)
        /\ \A i \in 1 .. Len(mapNodes) + Len(maps) : (mapNodes \o maps)[i] =
              IF i <= Len(mapNodes) THEN mapNodes[i] ELSE maps[i - Len(mapNodes)]
    BY <2>1, <2>2, ConcatProperties
  <2> HIDE DEF maps
  <2> QED
    BY <1>1, <1>2, <2>1, <2>2, <2>3
<1>18. TypeOK'
  <2>1. old \in SUBSET Nodes
    BY <1>3, <1>5, Facts, Numbers DEF ClumpContents, Nodes
  <2>2. /\ freeNodes' \in 0 .. MaxForkNodes
        /\ totalNodes' \in 1 .. MaxForkNodes
        /\ forkNodes' \in totalNodes' .. MaxForkNodes
        /\ clumps' \in 0 .. MaxClumps
    <3>1. /\ totalNodes \in Nat /\ totalNodes >= 1
          /\ clumps \in 0 .. MaxClumps
      BY Facts
    <3>2. GrowNodes \in Nat /\ MaxForkNodes \in Nat /\ MaxClumps \in Nat
      BY Numbers
    <3>3. /\ clumps > 0 /\ clumps' = clumps - 1
          /\ forkNodes' = NewTotal /\ totalNodes' = NewTotal
      BY <1>1
    <3> QED
      BY <1>5, <1>14, <1>15, <3>1, <3>2, <3>3
  <2> QED
    BY <1>10, <1>16, <1>17, <2>1, <2>2 DEF IInv, TypeOK
<1>19. BitsExact'
  <2>1. MapChain' = MapChain \cup {slot}
    <3>1. Len(mapNodes) \in Nat
      BY Facts
    <3> QED
      BY <1>17, <3>1 DEF MapChain
  <2>2. /\ m \notin MapChain \cup {slot} /\ m # 0 /\ m \notin held
        /\ slot \notin MapChain /\ slot # 0 /\ slot \notin held
    BY <1>6, <1>9 DEF IInv, BitsExact
  <2>3. \A i \in 1 .. Len(mapNodes) : mapNodes[i] # slot
    BY <2>2 DEF MapChain
  <2>4. \A i, j \in 1 .. Len(mapNodes') : i # j => mapNodes'[i] # mapNodes'[j]
    <3>1. \A i, j \in 1 .. Len(mapNodes) : i # j => mapNodes[i] # mapNodes[j]
      BY DEF IInv, BitsExact
    <3>2. Len(mapNodes) \in Nat
      BY Facts
    <3> QED
      BY <1>17, <2>3, <3>1, <3>2
  <2>5. \A x \in used' : x < totalNodes'
    BY <1>1, <1>5, <1>13
  <2>6. /\ used = {0} \cup MapChain \cup held
        /\ 0 \notin MapChain \cup held
        /\ MapChain \cap held = {}
    BY DEF IInv, BitsExact
  <2>7. /\ used' = {0} \cup MapChain' \cup held'
        /\ 0 \notin MapChain' \cup held'
        /\ MapChain' \cap held' = {}
    BY <1>10, <2>1, <2>2, <2>6
  <2> QED
    BY <2>4, <2>5, <2>7 DEF BitsExact
<1>20. Clumped'
  BY <1>1, <1>4, RoomToGrow DEF Clumped
<1>21. MapCovers' /\ AtTheCap' /\ FreeNodesExact'
  BY <1>1, <1>7, <1>15, <1>17 DEF MapCovers, AtTheCap, FreeNodesExact
<1> QED
  BY <1>18, <1>19, <1>20, <1>21 DEF IInv

\* Growth that fails for want of a bit leaves a fork longer than the tree, and
\* does so only when the bitmap ends where the tree does.
LEMMA NoSlotKeeps ==
    ASSUME IInv, allocNodeNoSlot
    PROVE  IInv'
<1>1. /\ MapFull /\ Capacity < NewTotal /\ MapSlots = {}
      /\ NewTotal <= MaxForkNodes
      /\ forkNodes' = NewTotal /\ err' = "no slot for map node"
      /\ UNCHANGED <<totalNodes, freeNodes, used, mapNodes, clumps, written, held>>
  BY DEF allocNodeNoSlot, NeedsMapNode, Capacity
<1>2. Capacity = totalNodes
  <2>1. /\ totalNodes \in Nat /\ Capacity \in Nat /\ totalNodes <= Capacity
        /\ totalNodes \notin used /\ forkNodes \in Nat
    BY Facts
  <2>2. totalNodes <= forkNodes
    BY Facts
  <2>3. GrowNodes \in Nat /\ GrowNodes >= 2
    BY Numbers
  <2>4. NewTotal \in Nat /\ totalNodes < NewTotal
    BY <2>1, <2>2, <2>3 DEF NewTotal
  <2>5. totalNodes \in 0 .. (NewTotal - 1)
    BY <2>1, <2>4
  <2>6. ~(totalNodes < Capacity)
    BY <1>1, <2>1, <2>5 DEF MapSlots, ClearBits, Capacity
  <2> QED
    BY <2>1, <2>6
<1>3. TypeOK'
  <2>1. NewTotal \in totalNodes .. MaxForkNodes
    <3>1. totalNodes \in Nat /\ forkNodes \in Nat /\ totalNodes <= forkNodes
      BY Facts
    <3>2. GrowNodes \in Nat /\ MaxForkNodes \in Nat
      BY Numbers
    <3>3. NewTotal \in Nat /\ totalNodes <= NewTotal
      BY <3>1, <3>2 DEF NewTotal
    <3>4. NewTotal <= MaxForkNodes
      BY <1>1
    <3> QED
      BY <3>1, <3>2, <3>3, <3>4
  <2> QED
    BY <1>1, <2>1 DEF IInv, TypeOK
<1>4. BitsExact' /\ FreeNodesExact' /\ MapCovers' /\ Clumped' /\ AtTheCap'
  BY <1>1, <1>2 DEF IInv, BitsExact, MapChain, FreeNodesExact, MapCovers,
                    Clumped, AtTheCap, Capacity
<1> QED
  BY <1>3, <1>4 DEF IInv

-----------------------------------------------------------------------------
\* Every step of allocNode and freeNode keeps the inductive invariant.
LEMMA NextKeeps == IInv /\ [Next]_vars => IInv'
<1> SUFFICES ASSUME IInv, [Next]_vars
             PROVE  IInv'
  OBVIOUS
<1>1. CASE allocNode
  BY <1>1, AllocKeeps
<1>2. CASE allocNodeGrow
  BY <1>2, GrowKeeps
<1>3. CASE allocNodeGrowMap
  BY <1>3, GrowMapKeeps
<1>4. CASE allocNodeNoSpace
  BY <1>4 DEF allocNodeNoSpace, IInv, TypeOK, BitsExact, MapChain,
              FreeNodesExact, MapCovers, Clumped, AtTheCap, Capacity
<1>5. CASE allocNodeNoSlot
  BY <1>5, NoSlotKeeps
<1>6. ASSUME NEW m \in held, freeNode(m)
      PROVE  IInv'
  BY <1>6, FreeKeeps
<1>7. CASE UNCHANGED vars
  BY <1>7 DEF vars, IInv, TypeOK, BitsExact, MapChain,
              FreeNodesExact, MapCovers, Clumped, AtTheCap, Capacity
<1> QED
  BY <1>1, <1>2, <1>3, <1>4, <1>5, <1>6, <1>7 DEF Next

\* mkfs lays out a header node and no map node.
LEMMA InitHolds == Init => IInv
<1> SUFFICES ASSUME Init
             PROVE  IInv
  OBVIOUS
<1>1. Len(<<>>) = 0 /\ mapNodes = <<>>
  BY DEF Init
<1>2. /\ Cardinality(FirstNodes) \in 0 .. (InitNodes - 1)
      /\ Cardinality(FirstNodes \cup {0}) = Cardinality(FirstNodes) + 1
  <2>1. InitNodes \in Nat /\ InitNodes >= 1
    BY Numbers
  <2>2. /\ IsFiniteSet(1 .. (InitNodes - 1))
        /\ Cardinality(1 .. (InitNodes - 1)) = InitNodes - 1
    BY <2>1, FS_Interval
  <2>3. /\ IsFiniteSet(FirstNodes)
        /\ Cardinality(FirstNodes) <= InitNodes - 1
    BY <2>2, FirstNodesAssumption, FS_Subset
  <2>4. Cardinality(FirstNodes) \in Nat
    BY <2>3, FS_CardinalityType
  <2>5. 0 \notin FirstNodes
    BY <2>1, FirstNodesAssumption
  <2>6. Cardinality(FirstNodes \cup {0}) = Cardinality(FirstNodes) + 1
    BY <2>3, <2>5, FS_AddElement
  <2> QED
    BY <2>1, <2>3, <2>4, <2>6
<1>3. MaxForkNodes >= InitNodes
  <2>1. MaxClumps * GrowNodes \in Nat /\ InitNodes \in Nat
    BY Numbers
  <2> QED
    BY <2>1 DEF MaxForkNodes
<1>4. TypeOK
  <2>1. /\ InitNodes \in Nat /\ InitNodes >= 1
        /\ MaxForkNodes \in Nat /\ MaxClumps \in Nat
    BY Numbers
  <2>2. FirstNodes \cup {0} \in SUBSET Nodes /\ FirstNodes \in SUBSET Nodes
    BY <1>3, <2>1, FirstNodesAssumption DEF Nodes
  <2>3. InitNodes - (Cardinality(FirstNodes) + 1) \in 0 .. MaxForkNodes
    BY <1>2, <1>3, <2>1
  <2>4. <<>> \in Seq(Nodes)
    OBVIOUS
  <2> QED
    BY <1>3, <2>1, <2>2, <2>3, <2>4 DEF Init, TypeOK
<1>5. BitsExact
  <2>1. \A m \in FirstNodes \cup {0} : m < InitNodes
    BY FirstNodesAssumption, Numbers
  <2>2. 0 \notin FirstNodes
    BY FirstNodesAssumption, Numbers
  <2>3. MapChain = {}
    BY <1>1 DEF MapChain
  <2> QED
    BY <1>1, <2>1, <2>2, <2>3 DEF Init, BitsExact
<1>6. FreeNodesExact
  BY <1>2, Numbers DEF Init, FreeNodesExact
<1>7. MapCovers /\ AtTheCap
  BY <1>1, Numbers DEF Init, MapCovers, AtTheCap, mapCapacityBits
<1>8. Clumped
  <2>1. MaxClumps - clumps \in Nat /\ GrowNodes \in Nat /\ InitNodes \in Nat
    BY Numbers DEF Init
  <2>2. (MaxClumps - clumps) * GrowNodes \in Nat
    BY <2>1
  <2>3. totalNodes = InitNodes
    BY DEF Init
  <2> QED
    BY <2>1, <2>2, <2>3 DEF Clumped
<1> QED
  BY <1>4, <1>5, <1>6, <1>7, <1>8 DEF IInv

\* The inductive invariant of the node bitmap.
THEOREM Invariance == Spec => []IInv
BY InitHolds, NextKeeps, PTL DEF Spec

\* The type invariant.
THEOREM TypeCorrect == Spec => []TypeOK
<1>1. IInv => TypeOK
  BY DEF IInv
<1> QED
  BY <1>1, Invariance, PTL

\* The tree, the map chain and the header never share a node, and no set bit
\* is without an owner, whatever the sizes of clumps and map records.
THEOREM BitsAlwaysExact == Spec => []BitsExact
<1>1. IInv => BitsExact
  BY DEF IInv
<1> QED
  BY <1>1, Invariance, PTL

\* BTHeaderRec.freeNodes is the number of clear bits, map nodes that growth
\* consumes included.
THEOREM FreeNodesAlwaysExact == Spec => []FreeNodesExact
<1>1. IInv => FreeNodesExact
  BY DEF IInv
<1> QED
  BY <1>1, Invariance, PTL

\* The bitmap always reaches the last node of the tree.
THEOREM MapAlwaysCovers == Spec => []MapCovers
<1>1. IInv => MapCovers
  BY DEF IInv
<1> QED
  BY <1>1, Invariance, PTL

-----------------------------------------------------------------------------
\* Only live nodes are not all zero.
Erased == written \subseteq used

\* When clumps are blank, what is written is what is used: allocNode and
\* addMapNode set the bit of the node they write, freeNode erases the node
\* whose bit it clears.
LEMMA ErasedKept ==
    ASSUME ~RecycledBlocks, IInv, Erased, [Next]_vars
    PROVE  Erased'
<1> USE DEF Erased
<1>1. ClumpContents = {{}}
  BY DEF ClumpContents
<1>2. ASSUME NEW maps, NEW added, growFork(maps, added)
      PROVE  Erased'
  <2> DEFINE m == Min(ClearBits(NewTotal, Len(mapNodes) + Len(maps), used \cup added))
  <2>1. PICK old \in ClumpContents :
           Take(m, used \cup added, written \cup old \cup added)
    BY <1>2 DEF growFork
  <2> HIDE DEF m
  <2>2. /\ used' = (used \cup added) \cup {m}
        /\ written' = (written \cup old \cup added) \cup {m}
        /\ old = {}
    BY <1>1, <2>1 DEF Take
  <2> QED
    BY <2>2
<1>3. CASE allocNode
  BY <1>3 DEF allocNode, Take
<1>4. CASE allocNodeGrow
  BY <1>2, <1>4 DEF allocNodeGrow
<1>5. CASE allocNodeGrowMap
  BY <1>2, <1>5 DEF allocNodeGrowMap
<1>6. CASE allocNodeNoSpace \/ allocNodeNoSlot
  <2>1. used' = used /\ written' = written
    BY <1>6, Zenon DEF allocNodeNoSpace, allocNodeNoSlot
  <2> QED
    BY <2>1
<1>7. ASSUME NEW m \in held, freeNode(m)
      PROVE  Erased'
  BY <1>7 DEF freeNode
<1>8. CASE UNCHANGED vars
  BY <1>8 DEF vars
<1> QED
  BY <1>3, <1>4, <1>5, <1>6, <1>7, <1>8 DEF Next

\* Unless a clump reuses blocks that held file data, a node marked free in the
\* bitmap is all zero, for every size of clump and map record.
THEOREM ErasedOnBlankBlocks ==
    ASSUME ~RecycledBlocks
    PROVE  Spec => []UnusedErased
<1>1. Init => Erased
  BY DEF Init, Erased
<1>2. IInv /\ Erased /\ [Next]_vars => Erased'
  BY ErasedKept
<1>3. Erased => UnusedErased
  BY DEF Erased, UnusedErased
<1> QED
  BY <1>1, <1>2, <1>3, Invariance, PTL DEF Spec
=============================================================================
