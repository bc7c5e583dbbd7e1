------------------------------- MODULE Bitmap -------------------------------
(***************************************************************************)
(* What the search loops of alloc.go compute, as functions of a bitmap.    *)
(* A bitmap is the set of the blocks whose bit is set; an extent is a run  *)
(* of blocks.  allocFragments returns its runs in ascending block order,   *)
(* so a set of extents determines the list.                                *)
(***************************************************************************)
EXTENDS Integers, FiniteSets, FiniteSetsExt

CONSTANT TotalBlocks    \* allocation blocks of the volume (vh.TotalBlocks)

ASSUME TotalBlocksAssumption == TotalBlocks \in Nat \ {0}

Blocks == 0 .. (TotalBlocks - 1)

Extent(s, c) == [start |-> s, count |-> c]

Extents == [start : Blocks, count : 1 .. TotalBlocks]

ExtentBlocks(e) == e.start .. (e.start + e.count - 1)

AllBlocks(E) == UNION {ExtentBlocks(e) : e \in E}

Disjoint(E) ==
    \A e, f \in E : e # f => ExtentBlocks(e) \cap ExtentBlocks(f) = {}

Free(bm) == Blocks \ bm

\* Defect: the last block of the run is not tested.
BugFitsAtLastUntested(bm, c) ==
    {s \in Blocks : s + c <= TotalBlocks /\ (s .. (s + c - 2)) \cap bm = {}}

\* Defect: a run may end one block past the volume.
BugFitsAtPastEnd(bm, c) ==
    {s \in Blocks : s + c <= TotalBlocks + 1 /\ (s .. (s + c - 1)) \cap bm = {}}

\* Where allocContiguous may place a run of c blocks; it takes the lowest.
FitsAt(bm, c) ==
    {s \in Blocks : s + c <= TotalBlocks /\ (s .. (s + c - 1)) \cap bm = {}}

\* The c lowest free blocks, which the fragment walk takes.
FirstFree(bm, c) ==
    {b \in Free(bm) : Cardinality({a \in Free(bm) : a < b}) < c}

\* The maximal runs of a set of blocks.
RunsOf(T) ==
    {Extent(p[1], p[2] - p[1] + 1) : p \in
        {q \in T \X T : /\ q[1] <= q[2]
                        /\ (q[1] .. q[2]) \subseteq T
                        /\ q[1] - 1 \notin T
                        /\ q[2] + 1 \notin T}}

CanAlloc(bm, c) == c <= Cardinality(Free(bm))

\* Defect: the run is cut one block short.
BugAllocContiguousShort(bm, c) == {Extent(Min(FitsAt(bm, c)), c - 1)}

allocContiguous(bm, c) == {Extent(Min(FitsAt(bm, c)), c)}

\* The extents allocFragments returns when the volume has c free blocks: one
\* run when some run is long enough, else the lowest free blocks as fragments.
allocFragments(bm, c) ==
    IF c = 0 THEN {}
    ELSE IF FitsAt(bm, c) # {} THEN allocContiguous(bm, c)
    ELSE RunsOf(FirstFree(bm, c))

\* Defect: the bit after the run is cleared too.
BugFreeRunTooFar(bm, e) == bm \ (e.start .. (e.start + e.count))

freeRun(bm, e) == bm \ ExtentBlocks(e)

freeCount(bm) == Cardinality(Free(bm))
=============================================================================
