----------------------------- MODULE BlockAlloc -----------------------------
(***************************************************************************)
(* The allocation bitmap of an HFS+ volume (alloc.go).                     *)
(*                                                                         *)
(* The image holds the bitmap and the volume header's freeBlocks field.    *)
(* A transaction loads a private copy of the bitmap (newAllocator), takes  *)
(* and returns runs of blocks in that copy, and either writes it back with *)
(* the recomputed free count (flush) or returns an error, in which case    *)
(* the copy is dropped.  A bitmap is modelled as the set of the blocks     *)
(* whose bit is set.                                                       *)
(*                                                                         *)
(* "owned" and "saved" are not state of the allocator: they are the        *)
(* extents its callers hold, in the open transaction and in the image.     *)
(***************************************************************************)
EXTENDS Bitmap

CONSTANT Reserved   \* blocks mkfs marks used for good (headers, special files)

ASSUME ReservedAssumption == Reserved \subseteq Blocks

-----------------------------------------------------------------------------
VARIABLES
    image,        \* the bitmap in the image
    freeBlocks,   \* the header's freeBlocks field (both headers)
    open,         \* a transaction holds an allocator
    bitmap,       \* the allocator's copy
    owned,        \* extents held by forks, as the open transaction sees them
    saved         \* extents held by forks in the image

vars == <<image, freeBlocks, open, bitmap, owned, saved>>

Init ==
    /\ image = Reserved
    /\ freeBlocks = freeCount(Reserved)
    /\ open = FALSE
    /\ bitmap = {}
    /\ owned = {}
    /\ saved = {}

newAllocator ==
    /\ ~open
    /\ open' = TRUE
    /\ bitmap' = image
    /\ UNCHANGED <<image, freeBlocks, owned, saved>>

Allocate(c) ==
    /\ open
    /\ CanAlloc(bitmap, c)
    /\ LET runs == allocFragments(bitmap, c)
       IN  /\ bitmap' = bitmap \cup AllBlocks(runs)
           /\ owned' = owned \cup runs
    /\ UNCHANGED <<image, freeBlocks, open, saved>>

Release(e) ==
    /\ open
    /\ bitmap' = freeRun(bitmap, e)
    /\ owned' = owned \ {e}
    /\ UNCHANGED <<image, freeBlocks, open, saved>>

\* Defect: the header keeps its old freeBlocks.
BugFlushKeepsCount ==
    /\ open
    /\ image' = bitmap
    /\ saved' = owned
    /\ open' = FALSE
    /\ bitmap' = {}
    /\ UNCHANGED <<owned, freeBlocks>>

flush ==
    /\ open
    /\ image' = bitmap
    /\ freeBlocks' = freeCount(bitmap)
    /\ saved' = owned
    /\ open' = FALSE
    /\ bitmap' = {}
    /\ UNCHANGED owned

\* The operation returns an error before its records reach the catalog
\* (ErrNoSpace from allocFragments is one such error): the copy is dropped.
Abandon ==
    /\ open
    /\ open' = FALSE
    /\ bitmap' = {}
    /\ owned' = saved
    /\ UNCHANGED <<image, freeBlocks, saved>>

Next ==
    \/ newAllocator
    \/ \E c \in 1 .. TotalBlocks : Allocate(c)
    \/ \E e \in owned : Release(e)
    \/ flush
    \/ Abandon

Spec == Init /\ [][Next]_vars

-----------------------------------------------------------------------------
\* Type invariant: bitmaps are sets of blocks of the volume, and the extents
\* callers hold lie in the volume and are not empty.
TypeOK ==
    /\ image \in SUBSET Blocks
    /\ freeBlocks \in 0 .. TotalBlocks
    /\ open \in BOOLEAN
    /\ bitmap \in SUBSET Blocks
    /\ owned \in SUBSET Extents
    /\ saved \in SUBSET Extents

\* No cross-links: two extents handed out by allocFragments never share a
\* block, and no extent covers a block mkfs reserved.
NoCrossLink ==
    \A E \in {owned, saved} : Disjoint(E) /\ AllBlocks(E) \cap Reserved = {}

\* No leaks and no dangling blocks: a bit is set exactly for the reserved
\* blocks and the blocks of the extents held, in the allocator's copy while a
\* transaction is open and in the image that flush wrote.
BitmapExact ==
    /\ image = Reserved \cup AllBlocks(saved)
    /\ open => bitmap = Reserved \cup AllBlocks(owned)

\* alloc.go: "keep the volume header's freeBlocks count in sync": the header
\* field is the number of clear bits of the bitmap in the image.
FreeBlocksExact == freeBlocks = freeCount(image)

\* Abandoning a transaction and opening another one loses nothing: the new
\* copy is the bitmap of the extents that are in the image.
ClosedMeansSaved == ~open => owned = saved
=============================================================================
