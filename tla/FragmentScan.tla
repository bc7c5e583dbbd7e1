---------------------------- MODULE FragmentScan ----------------------------
(***************************************************************************)
(* The loops of allocContiguous and allocFragments (alloc.go), one action  *)
(* per iteration, started on any bitmap and any count.  Bitmap states what *)
(* the loops are meant to compute; this module shows that they do.         *)
(***************************************************************************)
EXTENDS Bitmap

VARIABLES
    given,       \* the bitmap at the call
    count,       \* the blocks asked for
    bitmap,      \* the allocator's bitmap
    pc,          \* the loop being run, or how the call ended
    n,           \* the block under the loop
    runStart,    \* first block of the run being measured
    runLen,      \* its length so far
    remaining,   \* blocks the fragment walk still needs
    runs         \* the extents appended so far

vars == <<given, count, bitmap, pc, n, runStart, runLen, remaining, runs>>

Init ==
    /\ given \in SUBSET Blocks
    /\ count \in 0 .. (TotalBlocks + 1)
    /\ bitmap = given
    /\ pc = IF count = 0 THEN "done" ELSE "contiguous"
    /\ n = 0
    /\ runStart = 0
    /\ runLen = 0
    /\ remaining = count
    /\ runs = {}

test(b) == b \in bitmap

\* The run is extended by block n; its first block is n when it was empty.
Extended == IF runLen = 0 THEN n ELSE runStart

\* Defect: a used block does not end the run.
BugContiguousUsedKeepsRun ==
    /\ pc = "contiguous" /\ n < TotalBlocks /\ test(n)
    /\ n' = n + 1
    /\ UNCHANGED <<given, count, bitmap, pc, runStart, runLen, remaining, runs>>

\* Defect: the loop does not step over a used block.
BugContiguousUsedStuck ==
    /\ pc = "contiguous" /\ n < TotalBlocks /\ test(n)
    /\ runLen' = 0
    /\ UNCHANGED <<given, count, bitmap, pc, n, runStart, remaining, runs>>

\* allocContiguous: a used block ends the run.
ContiguousUsed ==
    /\ pc = "contiguous" /\ n < TotalBlocks /\ test(n)
    /\ runLen' = 0
    /\ n' = n + 1
    /\ UNCHANGED <<given, count, bitmap, pc, runStart, remaining, runs>>

\* allocContiguous: a free block extends the run; the call ends when the run
\* is long enough.
ContiguousFree ==
    /\ pc = "contiguous" /\ n < TotalBlocks /\ ~test(n)
    /\ runStart' = Extended
    /\ runLen' = runLen + 1
    /\ \/ /\ runLen + 1 = count
          /\ bitmap' = bitmap \cup (runStart' .. (runStart' + count - 1))
          /\ runs' = {Extent(runStart', count)}
          /\ remaining' = 0
          /\ pc' = "done"
          /\ UNCHANGED n
       \/ /\ runLen + 1 # count
          /\ n' = n + 1
          /\ UNCHANGED <<bitmap, pc, remaining, runs>>
    /\ UNCHANGED <<given, count>>

\* No run fits: fall back to fragments, from block 0.
ContiguousEnd ==
    /\ pc = "contiguous" /\ n = TotalBlocks
    /\ pc' = "fragments"
    /\ n' = 0
    /\ runStart' = 0
    /\ runLen' = 0
    /\ UNCHANGED <<given, count, bitmap, remaining, runs>>

\* Defect: an empty run is appended as well.
BugFlushEmptyRun(s, len) ==
    /\ runs' = runs \cup {Extent(s, len)}
    /\ bitmap' = bitmap \cup (s .. (s + len - 1))
    /\ remaining' = remaining - len
    /\ runLen' = 0

\* The closure "flush" of allocFragments on a run of length len at s.
FlushRun(s, len) ==
    /\ runs' = IF len > 0 THEN runs \cup {Extent(s, len)} ELSE runs
    /\ bitmap' = bitmap \cup (s .. (s + len - 1))
    /\ remaining' = remaining - len
    /\ runLen' = 0

FragmentUsed ==
    /\ pc = "fragments" /\ n < TotalBlocks /\ remaining > 0 /\ test(n)
    /\ FlushRun(runStart, runLen)
    /\ n' = n + 1
    /\ UNCHANGED <<given, count, pc, runStart>>

\* Defect: every free block becomes a run of its own.
BugFragmentFreeBlockwise ==
    /\ pc = "fragments" /\ n < TotalBlocks /\ remaining > 0 /\ ~test(n)
    /\ FlushRun(n, 1)
    /\ n' = n + 1
    /\ UNCHANGED <<given, count, pc, runStart>>

FragmentFree ==
    /\ pc = "fragments" /\ n < TotalBlocks /\ remaining > 0 /\ ~test(n)
    /\ runStart' = Extended
    /\ \/ /\ runLen + 1 = remaining
          /\ FlushRun(runStart', runLen + 1)
          /\ pc' = "check"
          /\ UNCHANGED n
       \/ /\ runLen + 1 # remaining
          /\ runLen' = runLen + 1
          /\ n' = n + 1
          /\ UNCHANGED <<bitmap, pc, remaining, runs>>
    /\ UNCHANGED <<given, count>>

\* The loop ran off the end of the volume: the last run is flushed.
FragmentEnd ==
    /\ pc = "fragments" /\ ~(n < TotalBlocks /\ remaining > 0)
    /\ FlushRun(runStart, runLen)
    /\ pc' = "check"
    /\ UNCHANGED <<given, count, n, runStart>>

Enough ==
    /\ pc = "check" /\ remaining = 0
    /\ pc' = "done"
    /\ UNCHANGED <<given, count, bitmap, n, runStart, runLen, remaining, runs>>

\* Defect: the partial allocation is not undone.
BugNoRollBack ==
    /\ pc = "check" /\ remaining > 0
    /\ pc' = "failed"
    /\ UNCHANGED <<given, count, bitmap, n, runStart, runLen, remaining, runs>>

\* Short of blocks: what was taken is freed and ErrNoSpace is returned.
RollBack ==
    /\ pc = "check" /\ remaining > 0
    /\ bitmap' = bitmap \ AllBlocks(runs)
    /\ runs' = {}
    /\ pc' = "failed"
    /\ UNCHANGED <<given, count, n, runStart, runLen, remaining>>

Next ==
    \/ ContiguousUsed \/ ContiguousFree \/ ContiguousEnd
    \/ FragmentUsed \/ FragmentFree \/ FragmentEnd
    \/ Enough \/ RollBack

Spec == Init /\ [][Next]_vars /\ WF_vars(Next)

-----------------------------------------------------------------------------
\* Type invariant.
TypeOK ==
    /\ given \in SUBSET Blocks
    /\ count \in 0 .. (TotalBlocks + 1)
    /\ bitmap \in SUBSET Blocks
    /\ pc \in {"contiguous", "fragments", "check", "done", "failed"}
    /\ n \in 0 .. TotalBlocks
    /\ runStart \in Blocks
    /\ runLen \in 0 .. TotalBlocks
    /\ remaining \in 0 .. (TotalBlocks + 1)
    /\ runs \in SUBSET Extents

\* A call that succeeds returns what Bitmap says allocFragments returns: the
\* lowest run that fits, else the lowest free blocks as maximal runs.
ReturnsFirstFit == pc = "done" => runs = allocFragments(given, count)

\* A call that succeeds marks exactly the blocks it returns, all of them free
\* before the call, and as many as were asked for.
MarksWhatItReturns ==
    pc = "done" =>
        /\ bitmap = given \cup AllBlocks(runs)
        /\ given \cap AllBlocks(runs) = {}
        /\ Cardinality(AllBlocks(runs)) = count

\* A call that succeeds does what the modules that use Bitmap take for granted:
\* it returns the extents of allocFragments and marks their blocks, no others.
SucceedsExactly == ReturnsFirstFit /\ MarksWhatItReturns

\* A call that fails changes nothing, and fails only when the volume has too
\* few free blocks in total ("Returns ErrNoSpace if the volume lacks count
\* free blocks in total", alloc.go).
FailsOnlyWhenFull ==
    pc = "failed" => bitmap = given /\ ~CanAlloc(given, count)

\* The fragment walk appends runs in ascending block order, each separated
\* from the ones before it by a used block.
Ascending ==
    [][\A e \in runs' \ runs : \A f \in runs : f.start + f.count < e.start]_vars

\* The loops end.
Terminates == <>(pc \in {"done", "failed"})
=============================================================================
