-------------------------------- MODULE Mkfs --------------------------------
(***************************************************************************)
(* Where the formatter puts the special files (mkfs.go).  Block 0 holds    *)
(* the volume header; the allocation bitmap, the extents tree and the      *)
(* catalog follow one another; the last block holds the alternate header.  *)
(* The catalog's share is a wish that gives way on a small volume.         *)
(***************************************************************************)
EXTENDS Integers

CONSTANTS
    BlockSize,      \* mkfsBlockSize
    NodeSize,       \* mkfsNodeSize
    ReserveNodes    \* catalogReserveNodes

minCatalogNodes == 2

ASSUME MkfsAssumption ==
    /\ BlockSize \in Nat \ {0}
    /\ NodeSize \in Nat \ {0}
    /\ ReserveNodes \in Nat
    /\ ReserveNodes >= minCatalogNodes

CeilDiv(a, b) == (a + b - 1) \div b

AtLeastOne(n) == IF n = 0 THEN 1 ELSE n

allocBlocks(total) == AtLeastOne(CeilDiv(CeilDiv(total, 8), BlockSize))

\* A header node and a leaf.
extBlocks == AtLeastOne((NodeSize * 2) \div BlockSize)

wantedCatBlocks == AtLeastOne(CeilDiv(NodeSize * ReserveNodes, BlockSize))

minCat == CeilDiv(NodeSize * minCatalogNodes, BlockSize)

\* The blocks of everything but the catalog.
fixed(total) == 1 + allocBlocks(total) + extBlocks + 1

TooSmall(total) ==
    /\ fixed(total) + wantedCatBlocks > total
    /\ fixed(total) + minCat > total

\* The sizes that Mkfs formats.
MinBlocks == 8

Accepts(total) == total >= MinBlocks /\ ~TooSmall(total)

catBlocks(total) ==
    IF fixed(total) + wantedCatBlocks > total
    THEN total - fixed(total)
    ELSE wantedCatBlocks

allocStart      == 1
extStart(total) == allocStart + allocBlocks(total)
catStart(total) == extStart(total) + extBlocks

\* markUsed: the blocks of a run of the bitmap.
markUsed(start, count) == start .. (start + count - 1)

Regions(total) ==
    [header    |-> markUsed(0, 1),
     bitmap    |-> markUsed(allocStart, allocBlocks(total)),
     extents   |-> markUsed(extStart(total), extBlocks),
     catalog   |-> markUsed(catStart(total), catBlocks(total)),
     alternate |-> markUsed(total - 1, 1)]

\* The bits writeAllocationBitmap sets.
UsedBlocks(total) == UNION {Regions(total)[r] : r \in DOMAIN Regions(total)}

\* The counter that markUsed advances, and that freeBlocks is computed from.
usedBlocks(total) ==
    1 + allocBlocks(total) + extBlocks + catBlocks(total) + 1

\* The header's freeBlocks.
headerFree(total) ==
    IF total > usedBlocks(total) THEN total - usedBlocks(total) ELSE 0
=============================================================================
