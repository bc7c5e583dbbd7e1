------------------------------ MODULE MCNodeMap ------------------------------
(* Scaled-down B-tree files.  What matters is how the growth steps meet the *)
(* end of the bitmap: the extents tree starts with 2 nodes and grows by 8,  *)
(* so it never fills its 30,720 bits exactly; the catalog starts with 256   *)
(* and does.  In MCNodeMap.cfg the first clump steps over the end of the    *)
(* header's bits and the second ends where those of the map node end.       *)
EXTENDS NodeMap
=============================================================================
