------------------------- MODULE FragmentScanProofs -------------------------
(***************************************************************************)
(* The loops of allocContiguous and allocFragments for a bitmap of any     *)
(* size: a call that succeeds marks exactly what it returns, and a call    *)
(* that fails has looked at every block and puts back what it took.        *)
(***************************************************************************)
EXTENDS FragmentScan, BitmapProofs

\* The blocks of the run the walk is extending.
Run == runStart .. (runStart + runLen - 1)

RunFree ==
    /\ Run \cap bitmap = {}
    /\ runLen > 0 => runStart + runLen = n
    /\ runLen < remaining

\* What has been taken so far: marked, free before, and counted.
Taken ==
    /\ bitmap = given \cup AllBlocks(runs)
    /\ given \cap AllBlocks(runs) = {}
    /\ Cardinality(AllBlocks(runs)) = count - remaining

Searching ==
    pc = "contiguous" => bitmap = given /\ runs = {} /\ remaining = count /\ RunFree

\* Behind the walk every block is marked or in the run being extended.
Walking ==
    pc = "fragments" =>
        /\ Taken
        /\ RunFree
        /\ \A b \in Blocks : b < n => b \in bitmap \cup Run

Checking ==
    pc = "check" =>
        /\ Taken
        /\ remaining > 0 => Blocks \subseteq bitmap

Finished == pc = "done" => Taken /\ remaining = 0

IInv ==
    /\ TypeOK
    /\ Searching
    /\ Walking
    /\ Checking
    /\ Finished
    /\ FailsOnlyWhenFull

-----------------------------------------------------------------------------
\* Before anything is taken there is nothing to count.
LEMMA NoExtents == AllBlocks({}) = {} /\ Cardinality(AllBlocks({})) = 0
BY FS_EmptySet DEF AllBlocks

\* The closure flush: a run of len free blocks at s is marked and counted.
LEMMA FlushTakes ==
    ASSUME TypeOK, Taken,
           NEW s \in Blocks, NEW len \in 0 .. TotalBlocks,
           len > 0 => s + len <= TotalBlocks,
           len <= remaining,
           (s .. (s + len - 1)) \cap bitmap = {},
           FlushRun(s, len), UNCHANGED <<given, count>>
    PROVE  /\ Taken'
           /\ bitmap' \in SUBSET Blocks
           /\ runs' \in SUBSET Extents
           /\ remaining' \in 0 .. (TotalBlocks + 1)
           /\ runLen' \in 0 .. TotalBlocks
<1> DEFINE new == s .. (s + len - 1)
<1>1. /\ given \in SUBSET Blocks /\ bitmap \in SUBSET Blocks
      /\ runs \in SUBSET Extents /\ remaining \in 0 .. (TotalBlocks + 1)
      /\ count \in 0 .. (TotalBlocks + 1)
  BY DEF TypeOK
<1>2. /\ bitmap' = bitmap \cup new
      /\ remaining' = remaining - len
      /\ runLen' = 0
      /\ given' = given /\ count' = count
  BY DEF FlushRun
<1>3. new \in SUBSET Blocks
  BY TotalBlocksAssumption DEF Blocks
<1>4. /\ runs' \in SUBSET Extents
      /\ AllBlocks(runs') = AllBlocks(runs) \cup new
  <2>1. CASE len = 0
    <3>1. runs' = runs /\ new = {}
      BY <2>1, TotalBlocksAssumption DEF FlushRun, Blocks
    <3> QED
      BY <1>1, <3>1
  <2>2. CASE len > 0
    <3>1. runs' = runs \cup {Extent(s, len)}
      BY <2>2 DEF FlushRun
    <3>2. Extent(s, len) \in Extents /\ ExtentBlocks(Extent(s, len)) = new
      BY <2>2 DEF Extent, Extents, ExtentBlocks
    <3> HIDE DEF new
    <3> QED
      BY <1>1, <3>1, <3>2 DEF AllBlocks
  <2> QED
    BY <2>1, <2>2, TotalBlocksAssumption
<1>5. Cardinality(new) = len
  BY FS_Interval, TotalBlocksAssumption DEF Blocks
<1> HIDE DEF new
<1>6. /\ AllBlocks(runs) \in SUBSET Blocks
      /\ AllBlocks(runs) \cap new = {}
      /\ given \cap new = {}
  BY <1>1 DEF Taken, new
<1>7. Cardinality(AllBlocks(runs) \cup new) = Cardinality(AllBlocks(runs)) + len
  <2>1. /\ IsFiniteSet(AllBlocks(runs)) /\ IsFiniteSet(new)
        /\ Cardinality(AllBlocks(runs)) \in Nat
    BY <1>3, <1>6, BlocksFinite
  <2>2. Cardinality(AllBlocks(runs) \cap new) = 0
    BY <1>6, FS_EmptySet
  <2>3. Cardinality(AllBlocks(runs) \cup new)
          = Cardinality(AllBlocks(runs)) + Cardinality(new)
              - Cardinality(AllBlocks(runs) \cap new)
    BY <2>1, FS_Union
  <2> QED
    BY <1>5, <2>1, <2>2, <2>3, TotalBlocksAssumption
<1>8. Taken'
  <2>1. bitmap' = given' \cup AllBlocks(runs')
    BY <1>2, <1>4 DEF Taken
  <2>2. given' \cap AllBlocks(runs') = {}
    BY <1>2, <1>4, <1>6 DEF Taken
  <2>3. Cardinality(AllBlocks(runs')) = count' - remaining'
    BY <1>1, <1>2, <1>4, <1>7, TotalBlocksAssumption DEF Taken
  <2> QED
    BY <2>1, <2>2, <2>3 DEF Taken
<1> QED
  BY <1>1, <1>2, <1>3, <1>4, <1>8, TotalBlocksAssumption

-----------------------------------------------------------------------------
\* The contiguous search never changes the bitmap until it has a run of count
\* blocks, all free.
LEMMA ContiguousFreeKeeps ==
    ASSUME IInv, ContiguousFree
    PROVE  IInv'
<1>1. /\ pc = "contiguous" /\ n < TotalBlocks /\ n \notin bitmap
      /\ runStart' = Extended
      /\ runLen' = runLen + 1
      /\ given' = given /\ count' = count
  BY DEF ContiguousFree, test
<1>2. /\ given \in SUBSET Blocks /\ count \in 0 .. (TotalBlocks + 1)
      /\ n \in 0 .. TotalBlocks /\ runStart \in Blocks
      /\ runLen \in 0 .. TotalBlocks /\ bitmap \in SUBSET Blocks
  BY DEF IInv, TypeOK
<1>3. /\ bitmap = given /\ runs = {} /\ remaining = count
      /\ runLen < count
      /\ Run \cap bitmap = {}
      /\ runLen > 0 => runStart + runLen = n
  BY <1>1 DEF IInv, Searching, RunFree
<1>4. /\ runStart' \in Blocks
      /\ runStart' + runLen' = n + 1
      /\ (runStart' .. (runStart' + runLen' - 1)) \cap bitmap = {}
  BY <1>1, <1>2, <1>3, TotalBlocksAssumption DEF Extended, Blocks, Run
<1>5. CASE runLen + 1 = count
  <2> DEFINE new == runStart' .. (runStart' + count - 1)
  <2>1. /\ bitmap' = bitmap \cup new
        /\ runs' = {Extent(runStart', count)}
        /\ remaining' = 0
        /\ pc' = "done"
        /\ n' = n
    BY <1>1, <1>2, <1>5 DEF ContiguousFree
  <2>2. new \in SUBSET Blocks /\ new \cap given = {}
    BY <1>1, <1>2, <1>3, <1>4, <1>5, TotalBlocksAssumption DEF Blocks
  <2>3. Extent(runStart', count) \in Extents /\ AllBlocks(runs') = new
    <3>1. count \in 1 .. TotalBlocks
      BY <1>1, <1>2, <1>4, <1>5, TotalBlocksAssumption DEF Blocks
    <3>2. Extent(runStart', count) \in Extents
      BY <1>4, <3>1 DEF Extent, Extents
    <3>3. ExtentBlocks(Extent(runStart', count)) = new
      BY DEF Extent, ExtentBlocks
    <3> HIDE DEF new
    <3> QED
      BY <2>1, <3>2, <3>3 DEF AllBlocks
  <2>4. Cardinality(new) = count
    BY <1>2, <1>4, <1>5, FS_Interval, TotalBlocksAssumption DEF Blocks
  <2> HIDE DEF new
  <2>5. Taken'
    BY <1>1, <1>2, <1>3, <2>1, <2>2, <2>3, <2>4 DEF Taken
  <2>6. TypeOK'
    BY <1>1, <1>2, <1>4, <1>5, <2>1, <2>2, <2>3, TotalBlocksAssumption
       DEF TypeOK, Blocks
  <2> QED
    BY <2>1, <2>5, <2>6
       DEF IInv, Searching, Walking, Checking, Finished, FailsOnlyWhenFull
<1>6. CASE runLen + 1 # count
  <2>1. n' = n + 1 /\ UNCHANGED <<bitmap, pc, remaining, runs>>
    BY <1>1, <1>2, <1>6 DEF ContiguousFree
  <2>2. RunFree'
    BY <1>1, <1>2, <1>3, <1>4, <1>6, <2>1, TotalBlocksAssumption
       DEF RunFree, Run, Blocks
  <2>3. TypeOK'
    BY <1>1, <1>2, <1>4, <2>1, TotalBlocksAssumption DEF IInv, TypeOK, Blocks
  <2> QED
    BY <1>1, <1>3, <2>1, <2>2, <2>3
       DEF IInv, Searching, Walking, Checking, Finished, FailsOnlyWhenFull
<1> QED
  BY <1>5, <1>6

\* A used block ends the run of the fragment walk, which flush takes.
LEMMA FragmentUsedKeeps ==
    ASSUME IInv, FragmentUsed
    PROVE  IInv'
<1>1. /\ pc = "fragments" /\ n < TotalBlocks /\ n \in bitmap
      /\ FlushRun(runStart, runLen)
      /\ n' = n + 1
      /\ UNCHANGED <<given, count, pc, runStart>>
  BY DEF FragmentUsed, test
<1>2. /\ TypeOK /\ Taken /\ RunFree
      /\ \A b \in Blocks : b < n => b \in bitmap \cup Run
  BY <1>1 DEF IInv, Walking
<1>3. /\ n \in 0 .. TotalBlocks /\ runStart \in Blocks
      /\ runLen \in 0 .. TotalBlocks /\ remaining \in 0 .. (TotalBlocks + 1)
      /\ bitmap \in SUBSET Blocks
  BY <1>2 DEF TypeOK
<1>4. /\ Taken'
      /\ bitmap' \in SUBSET Blocks
      /\ runs' \in SUBSET Extents
      /\ remaining' \in 0 .. (TotalBlocks + 1)
      /\ runLen' \in 0 .. TotalBlocks
  <2>1. /\ runLen > 0 => runStart + runLen <= TotalBlocks
        /\ runLen <= remaining
        /\ (runStart .. (runStart + runLen - 1)) \cap bitmap = {}
    BY <1>1, <1>2, <1>3, TotalBlocksAssumption DEF RunFree, Run, Blocks
  <2> QED
    BY <1>1, <1>2, <1>3, <2>1, FlushTakes
<1>5. /\ bitmap' = bitmap \cup Run
      /\ remaining' = remaining - runLen
      /\ runLen' = 0
  BY <1>1 DEF FlushRun, Run
<1>6. RunFree'
  <2>1. runLen < remaining
    BY <1>2 DEF RunFree
  <2>2. Run' = {}
    BY <1>1, <1>3, <1>5, TotalBlocksAssumption DEF Run, Blocks
  <2> QED
    BY <1>3, <1>5, <2>1, <2>2, TotalBlocksAssumption DEF RunFree
<1>7. \A b \in Blocks : b < n' => b \in bitmap' \cup Run'
  BY <1>1, <1>2, <1>3, <1>5, TotalBlocksAssumption DEF Blocks
<1>8. TypeOK'
  BY <1>1, <1>3, <1>4, TotalBlocksAssumption DEF IInv, TypeOK
<1> QED
  BY <1>1, <1>4, <1>6, <1>7, <1>8
     DEF IInv, Searching, Walking, Checking, Finished, FailsOnlyWhenFull

\* A free block extends the run of the fragment walk, or completes the count.
LEMMA FragmentFreeKeeps ==
    ASSUME IInv, FragmentFree
    PROVE  IInv'
<1>1. /\ pc = "fragments" /\ n < TotalBlocks /\ n \notin bitmap
      /\ runStart' = Extended
      /\ given' = given /\ count' = count
  BY DEF FragmentFree, test
<1>2. /\ TypeOK /\ Taken /\ RunFree
      /\ \A b \in Blocks : b < n => b \in bitmap \cup Run
  BY <1>1 DEF IInv, Walking
<1>3. /\ n \in 0 .. TotalBlocks /\ runStart \in Blocks
      /\ runLen \in 0 .. TotalBlocks /\ remaining \in 0 .. (TotalBlocks + 1)
      /\ bitmap \in SUBSET Blocks
  BY <1>2 DEF TypeOK
<1>4. /\ runStart' \in Blocks
      /\ runStart' = n - runLen
      /\ (runStart' .. n) \cap bitmap = {}
      /\ Run \subseteq runStart' .. n
      /\ runLen < remaining
  BY <1>1, <1>2, <1>3, TotalBlocksAssumption DEF Extended, Blocks, Run, RunFree
<1>5. /\ runStart' \in Nat /\ runLen \in Nat /\ n \in Nat
      /\ runStart' = n - runLen
      /\ runStart' <= n
  <2>1. Blocks \subseteq Nat
    BY TotalBlocksAssumption DEF Blocks
  <2>2. runLen \in Nat /\ n \in Nat
    BY <1>3, TotalBlocksAssumption
  <2> QED
    BY <1>4, <2>1, <2>2
<1>6. CASE runLen + 1 = remaining
  <2>1. FlushRun(runStart', runLen + 1) /\ pc' = "check" /\ n' = n
    BY <1>1, <1>3, <1>6 DEF FragmentFree
  <2>2. /\ Taken'
        /\ bitmap' \in SUBSET Blocks
        /\ runs' \in SUBSET Extents
        /\ remaining' \in 0 .. (TotalBlocks + 1)
        /\ runLen' \in 0 .. TotalBlocks
    <3>1. /\ runLen + 1 \in 0 .. TotalBlocks
          /\ runLen + 1 > 0 => runStart' + (runLen + 1) <= TotalBlocks
          /\ runLen + 1 <= remaining
          /\ (runStart' .. (runStart' + (runLen + 1) - 1)) \cap bitmap = {}
      BY <1>1, <1>3, <1>4, TotalBlocksAssumption DEF Blocks
    <3> QED
      BY <1>1, <1>2, <1>4, <2>1, <3>1, FlushTakes
  <2>3. remaining' = 0
    BY <1>3, <1>6, <2>1 DEF FlushRun
  <2>4. TypeOK'
    BY <1>1, <1>3, <1>4, <2>1, <2>2 DEF IInv, TypeOK
  <2> QED
    BY <2>1, <2>2, <2>3, <2>4
       DEF IInv, Searching, Walking, Checking, Finished, FailsOnlyWhenFull
<1>7. CASE runLen + 1 # remaining
  <2>1. /\ runLen' = runLen + 1
        /\ n' = n + 1
        /\ UNCHANGED <<bitmap, pc, remaining, runs>>
    BY <1>1, <1>3, <1>7 DEF FragmentFree, FlushRun
  <2>2. Run' = runStart' .. n
    <3>1. runStart' + runLen' - 1 = n
      BY <1>5, <2>1
    <3> QED
      BY <3>1 DEF Run
  <2>3. RunFree'
    BY <1>1, <1>3, <1>4, <1>7, <2>1, <2>2, TotalBlocksAssumption DEF RunFree, Blocks
  <2>4. \A b \in Blocks : b < n' => b \in bitmap' \cup Run'
    <3> SUFFICES ASSUME NEW b \in Blocks, b < n'
                 PROVE  b \in bitmap' \cup Run'
      OBVIOUS
    <3>1. CASE b < n
      BY <1>2, <1>4, <2>1, <2>2, <3>1
    <3>2. CASE b = n
      <4>1. n \in runStart' .. n
        BY <1>5
      <4> QED
        BY <2>2, <3>2, <4>1
    <3> QED
      BY <1>3, <2>1, <3>1, <3>2, TotalBlocksAssumption DEF Blocks
  <2>5. Taken'
    BY <1>1, <1>2, <2>1 DEF Taken
  <2>6. TypeOK'
    BY <1>1, <1>2, <1>3, <1>4, <2>1, TotalBlocksAssumption DEF TypeOK, Blocks
  <2> QED
    BY <1>1, <2>1, <2>3, <2>4, <2>5, <2>6
       DEF IInv, Searching, Walking, Checking, Finished, FailsOnlyWhenFull
<1> QED
  BY <1>6, <1>7

\* At the end of the volume the last run is flushed and every block is marked.
LEMMA FragmentEndKeeps ==
    ASSUME IInv, FragmentEnd
    PROVE  IInv'
<1>1. /\ pc = "fragments" /\ ~(n < TotalBlocks /\ remaining > 0)
      /\ FlushRun(runStart, runLen)
      /\ pc' = "check"
      /\ UNCHANGED <<given, count, n, runStart>>
  BY DEF FragmentEnd
<1>2. /\ TypeOK /\ Taken /\ RunFree
      /\ \A b \in Blocks : b < n => b \in bitmap \cup Run
  BY <1>1 DEF IInv, Walking
<1>3. /\ n \in 0 .. TotalBlocks /\ runStart \in Blocks
      /\ runLen \in 0 .. TotalBlocks /\ remaining \in 0 .. (TotalBlocks + 1)
      /\ bitmap \in SUBSET Blocks
  BY <1>2 DEF TypeOK
<1>4. n = TotalBlocks
  BY <1>1, <1>2, <1>3, TotalBlocksAssumption DEF RunFree
<1>5. /\ Taken'
      /\ bitmap' \in SUBSET Blocks
      /\ runs' \in SUBSET Extents
      /\ remaining' \in 0 .. (TotalBlocks + 1)
      /\ runLen' \in 0 .. TotalBlocks
  <2>1. /\ runLen > 0 => runStart + runLen <= TotalBlocks
        /\ runLen <= remaining
        /\ (runStart .. (runStart + runLen - 1)) \cap bitmap = {}
    BY <1>2, <1>3, <1>4, TotalBlocksAssumption DEF RunFree, Run, Blocks
  <2> QED
    BY <1>1, <1>2, <1>3, <2>1, FlushTakes
<1>6. bitmap' = bitmap \cup Run
  BY <1>1 DEF FlushRun, Run
<1>7. Blocks \subseteq bitmap'
  BY <1>2, <1>4, <1>6, TotalBlocksAssumption DEF Blocks
<1>8. TypeOK'
  BY <1>1, <1>5 DEF IInv, TypeOK
<1> QED
  BY <1>1, <1>5, <1>7, <1>8
     DEF IInv, Searching, Walking, Checking, Finished, FailsOnlyWhenFull

\* A call that gives up has marked every block of the volume, so the free ones
\* were exactly those it took, fewer than it was asked for.
LEMMA RollBackKeeps ==
    ASSUME IInv, RollBack
    PROVE  IInv'
<1>1. /\ pc = "check" /\ remaining > 0
      /\ bitmap' = bitmap \ AllBlocks(runs)
      /\ runs' = {}
      /\ pc' = "failed"
      /\ UNCHANGED <<given, count, n, runStart, runLen, remaining>>
  BY DEF RollBack
<1>2. Taken /\ Blocks \subseteq bitmap
  BY <1>1 DEF IInv, Checking
<1>3. /\ given \in SUBSET Blocks /\ bitmap \in SUBSET Blocks
      /\ remaining \in 0 .. (TotalBlocks + 1)
      /\ count \in 0 .. (TotalBlocks + 1)
  BY DEF IInv, TypeOK
<1>4. bitmap' = given
  BY <1>1, <1>2 DEF Taken
<1>5. Free(given) = AllBlocks(runs)
  BY <1>2, <1>3 DEF Taken, Free
<1>6. ~CanAlloc(given, count)
  BY <1>1, <1>2, <1>3, <1>5, TotalBlocksAssumption DEF Taken, CanAlloc
<1>7. FailsOnlyWhenFull'
  BY <1>1, <1>4, <1>6 DEF FailsOnlyWhenFull
<1>8. TypeOK'
  BY <1>1, <1>3, <1>4 DEF IInv, TypeOK
<1> QED
  BY <1>1, <1>7, <1>8 DEF IInv, Searching, Walking, Checking, Finished

\* Every step of the two loops keeps the inductive invariant.
LEMMA NextKeeps == IInv /\ [Next]_vars => IInv'
<1> SUFFICES ASSUME IInv, [Next]_vars
             PROVE  IInv'
  OBVIOUS
<1>1. CASE ContiguousUsed
  <2>1. /\ pc = "contiguous" /\ n < TotalBlocks
        /\ runLen' = 0
        /\ n' = n + 1
        /\ UNCHANGED <<given, count, bitmap, pc, runStart, remaining, runs>>
    BY <1>1 DEF ContiguousUsed
  <2>2. TypeOK'
    BY <2>1, TotalBlocksAssumption DEF IInv, TypeOK
  <2>3. /\ runLen < remaining
        /\ runLen \in 0 .. TotalBlocks /\ remaining \in 0 .. (TotalBlocks + 1)
        /\ runStart \in Blocks
    BY <2>1 DEF IInv, Searching, RunFree, TypeOK
  <2>4. RunFree'
    BY <2>1, <2>3, TotalBlocksAssumption DEF RunFree, Run, Blocks
  <2> QED
    BY <2>1, <2>2, <2>4
       DEF IInv, Searching, Walking, Checking, Finished, FailsOnlyWhenFull
<1>2. CASE ContiguousFree
  BY <1>2, ContiguousFreeKeeps
<1>3. CASE ContiguousEnd
  <2>1. /\ pc = "contiguous" /\ pc' = "fragments"
        /\ n' = 0 /\ runStart' = 0 /\ runLen' = 0
        /\ UNCHANGED <<given, count, bitmap, remaining, runs>>
    BY <1>3 DEF ContiguousEnd
  <2>2. TypeOK'
    BY <2>1, TotalBlocksAssumption DEF IInv, TypeOK, Blocks
  <2>3. /\ bitmap = given /\ runs = {} /\ remaining = count
        /\ runLen < remaining
        /\ runLen \in 0 .. TotalBlocks /\ remaining \in 0 .. (TotalBlocks + 1)
    BY <2>1 DEF IInv, Searching, RunFree, TypeOK
  <2>4. Taken'
    BY <2>1, <2>3, NoExtents DEF Taken
  <2>5. RunFree'
    BY <2>1, <2>3, TotalBlocksAssumption DEF RunFree, Run
  <2>6. \A b \in Blocks : ~(b < n')
    BY <2>1, TotalBlocksAssumption DEF Blocks
  <2> QED
    BY <2>1, <2>2, <2>4, <2>5, <2>6
       DEF IInv, Searching, Walking, Checking, Finished, FailsOnlyWhenFull
<1>4. CASE FragmentUsed
  BY <1>4, FragmentUsedKeeps
<1>5. CASE FragmentFree
  BY <1>5, FragmentFreeKeeps
<1>6. CASE FragmentEnd
  BY <1>6, FragmentEndKeeps
<1>7. CASE Enough
  BY <1>7 DEF Enough, IInv, TypeOK, Taken, Searching, Walking, Checking,
              Finished, FailsOnlyWhenFull
<1>8. CASE RollBack
  BY <1>8, RollBackKeeps
<1>9. CASE UNCHANGED vars
  BY <1>9 DEF vars, IInv, TypeOK, Run, RunFree, Taken, Searching, Walking,
              Checking, Finished, FailsOnlyWhenFull
<1> QED
  BY <1>1, <1>2, <1>3, <1>4, <1>5, <1>6, <1>7, <1>8, <1>9 DEF Next

\* A call for no blocks is done at once; any other starts to search.
LEMMA InitHolds == Init => IInv
<1> SUFFICES ASSUME Init
             PROVE  IInv
  OBVIOUS
<1>1. TypeOK
  BY TotalBlocksAssumption DEF Init, TypeOK, Blocks
<1>2. CASE count = 0
  <2>1. pc = "done" /\ Taken /\ remaining = 0
    BY <1>2, NoExtents DEF Init, Taken
  <2> QED
    BY <1>1, <2>1 DEF IInv, Searching, Walking, Checking, Finished,
                      FailsOnlyWhenFull
<1>3. CASE count # 0
  <2>1. pc = "contiguous" /\ bitmap = given /\ runs = {} /\ remaining = count
    BY <1>3 DEF Init
  <2>2. RunFree
    BY <1>3, <2>1, TotalBlocksAssumption DEF Init, RunFree, Run
  <2> QED
    BY <1>1, <2>1, <2>2 DEF IInv, Searching, Walking, Checking, Finished,
                            FailsOnlyWhenFull
<1> QED
  BY <1>2, <1>3

\* The inductive invariant of the two loops.
THEOREM Invariance == Spec => []IInv
BY InitHolds, NextKeeps, PTL DEF Spec

\* The loops stay inside the bitmap, and count and blocks inside their ranges.
THEOREM TypeCorrect == Spec => []TypeOK
<1>1. IInv => TypeOK
  BY DEF IInv
<1> QED
  BY <1>1, Invariance, PTL

\* A successful call marks exactly the blocks it returns, all free before, and
\* as many as were asked for, for every bitmap and every count.
THEOREM AlwaysMarksWhatItReturns == Spec => []MarksWhatItReturns
<1>1. IInv => MarksWhatItReturns
  BY TotalBlocksAssumption
     DEF IInv, TypeOK, Finished, Taken, MarksWhatItReturns
<1> QED
  BY <1>1, Invariance, PTL

\* ErrNoSpace means that the whole volume has too few free blocks, and leaves
\* the bitmap as it was.
THEOREM AlwaysFailsOnlyWhenFull == Spec => []FailsOnlyWhenFull
<1>1. IInv => FailsOnlyWhenFull
  BY DEF IInv
<1> QED
  BY <1>1, Invariance, PTL

-----------------------------------------------------------------------------
(* Where the runs lie: what the searches return, and in which order.       *)

EndOf(e) == e.start + e.count

\* Extents with at least one block between any two of them.
Apart(E) ==
    \A e, f \in E : e # f => EndOf(e) < f.start \/ EndOf(f) < e.start

\* The first loop has passed only starts where the request does not fit.
NoFitPassed ==
    pc = "contiguous" =>
        \A s \in Blocks : s < n - runLen => s \notin FitsAt(given, count)

\* The second loop runs only when the request fits nowhere.
NoFitAtAll ==
    pc \in {"fragments", "check"} => FitsAt(given, count) = {}

\* The runs end before the block under the walk, and before the open run.
Behind ==
    pc = "fragments" =>
        \A f \in runs : EndOf(f) < n /\ (runLen > 0 => EndOf(f) < runStart)

\* No free block was passed over.
Lowest ==
    pc = "check" =>
        \A b \in Free(given), t \in AllBlocks(runs) :
            b < t => b \in AllBlocks(runs)

Asked == pc \in {"contiguous", "fragments", "check"} => count > 0

Placed ==
    /\ Asked
    /\ NoFitPassed
    /\ NoFitAtAll
    /\ Apart(runs)
    /\ Behind
    /\ Lowest
    /\ ReturnsFirstFit

\* Extents that lie apart are the maximal runs of their blocks.
LEMMA ApartAreRuns ==
    ASSUME NEW E \in SUBSET Extents, Apart(E)
    PROVE  RunsOf(AllBlocks(E)) = E
<1> DEFINE T == AllBlocks(E)
<1>1. \A e \in E : /\ e.start \in Nat /\ e.count \in Nat /\ e.count >= 1
                   /\ e = Extent(e.start, e.count)
  BY TotalBlocksAssumption DEF Extents, Blocks, Extent
<1>2. \A x : x \in T <=>
         \E e \in E : x \in Int /\ e.start <= x /\ x < e.start + e.count
  BY <1>1 DEF AllBlocks, ExtentBlocks
<1> HIDE DEF T
<1>3. ASSUME NEW e \in E
      PROVE  e.start - 1 \notin T /\ e.start + e.count \notin T
  <2>1. \A f \in E : ~(f.start <= e.start - 1 /\ e.start - 1 < f.start + f.count)
    BY <1>1 DEF Apart, EndOf
  <2>2. \A f \in E : ~(/\ f.start <= e.start + e.count
                       /\ e.start + e.count < f.start + f.count)
    BY <1>1 DEF Apart, EndOf
  <2> QED
    BY <1>2, <2>1, <2>2
<1>4. ASSUME NEW e \in E
      PROVE  e \in RunsOf(T)
  <2> DEFINE a == e.start
             b == e.start + e.count - 1
  <2>1. /\ a \in Int /\ b \in Int /\ a <= b
        /\ e = Extent(a, b - a + 1)
        /\ a - 1 \notin T /\ b + 1 \notin T
    BY <1>1, <1>3
  <2>2. a \in T /\ b \in T /\ (a .. b) \subseteq T
    BY <1>1, <1>2
  <2> HIDE DEF a, b
  <2>3. <<a, b>> \in T \X T /\ <<a, b>>[1] = a /\ <<a, b>>[2] = b
    BY <2>2
  <2> QED
    BY <2>1, <2>2, <2>3 DEF RunsOf
<1>5. ASSUME NEW r \in RunsOf(T)
      PROVE  r \in E
  <2>1. T \in SUBSET Int
    BY <1>2
  <2>2. PICK p \in T \X T : /\ p[1] <= p[2]
                            /\ (p[1] .. p[2]) \subseteq T
                            /\ p[1] - 1 \notin T
                            /\ p[2] + 1 \notin T
                            /\ r = Extent(p[1], p[2] - p[1] + 1)
    BY DEF RunsOf
  <2> DEFINE a == p[1]
             b == p[2]
  <2>3. /\ a \in T /\ b \in T /\ a \in Int /\ b \in Int /\ a <= b
        /\ (a .. b) \subseteq T /\ a - 1 \notin T /\ b + 1 \notin T
        /\ r = Extent(a, b - a + 1)
    BY <2>1, <2>2
  <2> HIDE DEF a, b
  <2>4. PICK e \in E : e.start <= a /\ a < e.start + e.count
    BY <1>2, <2>3
  <2>5. e.start \in Int /\ e.count \in Int /\ e = Extent(e.start, e.count)
    BY <1>1
  <2>6. a = e.start
    <3>1. SUFFICES ASSUME e.start < a
                   PROVE  FALSE
      BY <2>3, <2>4, <2>5
    <3>2. a - 1 \in Int /\ e.start <= a - 1 /\ a - 1 < e.start + e.count
      BY <2>3, <2>4, <2>5, <3>1
    <3> QED
      BY <1>2, <2>3, <3>2
  <2>7. ~(b >= e.start + e.count)
    <3>1. SUFFICES ASSUME b >= e.start + e.count
                   PROVE  FALSE
      OBVIOUS
    <3>2. e.start + e.count \in a .. b
      BY <2>3, <2>4, <2>5, <3>1
    <3> QED
      BY <1>3, <2>3, <3>2
  <2>8. ~(b + 1 < e.start + e.count)
    <3>1. SUFFICES ASSUME b + 1 < e.start + e.count
                   PROVE  FALSE
      OBVIOUS
    <3>2. b + 1 \in Int /\ e.start <= b + 1
      BY <2>3, <2>5, <2>6
    <3> QED
      BY <1>2, <2>3, <3>1, <3>2
  <2>9. b - a + 1 = e.count
    BY <2>3, <2>5, <2>6, <2>7, <2>8
  <2> QED
    BY <2>3, <2>5, <2>6, <2>9
<1> QED
  BY <1>4, <1>5 DEF T

\* As many free blocks as were asked for, with no free block below one of them
\* left out, are the lowest free blocks.
LEMMA LowestAreFirst ==
    ASSUME NEW bm \in SUBSET Blocks, NEW T \in SUBSET Free(bm),
           \A b \in Free(bm), t \in T : b < t => b \in T
    PROVE  T = FirstFree(bm, Cardinality(T))
<1> DEFINE F == Free(bm)
           c == Cardinality(T)
           Below(b) == {a \in F : a < b}
<1>1. F \in SUBSET Blocks /\ T \in SUBSET Blocks
  BY DEF Free
<1>2. \A b \in F : b \in Int
  BY <1>1, TotalBlocksAssumption DEF Blocks
<1>3. IsFiniteSet(T) /\ c \in Nat
  BY <1>1, BlocksFinite
<1>4. ASSUME NEW t \in T
      PROVE  Cardinality(Below(t)) < c
  <2>1. /\ IsFiniteSet(T \ {t}) /\ Cardinality(T \ {t}) = c - 1
    BY <1>3, FS_RemoveElement
  <2>2. Below(t) \in SUBSET (T \ {t})
    BY <1>2
  <2>3. /\ Cardinality(Below(t)) <= Cardinality(T \ {t})
        /\ IsFiniteSet(Below(t))
    BY <2>1, <2>2, FS_Subset
  <2>4. Cardinality(Below(t)) \in Nat
    BY <2>3, FS_CardinalityType
  <2> QED
    BY <1>3, <2>1, <2>3, <2>4
<1>5. ASSUME NEW b \in F, b \notin T
      PROVE  ~(Cardinality(Below(b)) < c)
  <2>1. T \in SUBSET Below(b)
    <3>1. ASSUME NEW t \in T
          PROVE  t < b
      <4>1. t \in Int /\ b \in Int /\ t # b /\ ~(b < t)
        BY <1>2, <1>5
      <4> QED
        BY <4>1
    <3> QED
      BY <3>1
  <2>2. Below(b) \in SUBSET Blocks
    BY <1>1
  <2>3. IsFiniteSet(Below(b)) /\ Cardinality(Below(b)) \in Nat
    BY <2>2, BlocksFinite
  <2>4. c <= Cardinality(Below(b))
    BY <2>1, <2>3, FS_Subset
  <2> QED
    BY <1>3, <2>3, <2>4
<1>6. FirstFree(bm, c) = {b \in F : Cardinality(Below(b)) < c}
  BY DEF FirstFree
<1> HIDE DEF Below, c, F
<1>7. T \in SUBSET F
  BY DEF F
<1>8. T = FirstFree(bm, c)
  BY <1>4, <1>5, <1>6, <1>7
<1> QED
  BY <1>8 DEF c

\* A used block ends every run that would have covered it, so no start up to
\* and including that block fits.
LEMMA UsedPasses ==
    ASSUME IInv, Placed, ContiguousUsed
    PROVE  NoFitPassed'
<1>1. /\ pc = "contiguous" /\ n < TotalBlocks /\ n \in bitmap
      /\ runLen' = 0 /\ n' = n + 1
      /\ given' = given /\ count' = count
  BY DEF ContiguousUsed, test
<1>2. /\ n \in Nat /\ runLen \in Nat /\ count \in Nat
      /\ bitmap = given /\ runLen < count
  BY <1>1, TotalBlocksAssumption DEF IInv, TypeOK, Searching, RunFree
<1>3. ASSUME NEW s \in Blocks, s < n + 1
      PROVE  s \notin FitsAt(given, count)
  <2>1. s \in Nat
    BY TotalBlocksAssumption DEF Blocks
  <2>2. CASE s < n - runLen
    BY <1>1, <2>2 DEF Placed, NoFitPassed
  <2>3. CASE ~(s < n - runLen)
    <3>1. n \in s .. (s + count - 1)
      BY <1>2, <1>3, <2>1, <2>3
    <3> QED
      BY <1>1, <1>2, <3>1 DEF FitsAt
  <2> QED
    BY <2>2, <2>3
<1> QED
  BY <1>1, <1>2, <1>3 DEF NoFitPassed

\* The run that is long enough starts where the request first fits.
LEMMA FreePlaces ==
    ASSUME IInv, Placed, ContiguousFree
    PROVE  Placed'
<1>1. /\ pc = "contiguous" /\ n < TotalBlocks /\ n \notin bitmap
      /\ runStart' = Extended
      /\ runLen' = runLen + 1
      /\ given' = given /\ count' = count
  BY DEF ContiguousFree, test
<1>2. /\ n \in Nat /\ runLen \in Nat /\ count \in Nat /\ runStart \in Nat
      /\ bitmap = given /\ runs = {} /\ runLen < count
      /\ Run \cap bitmap = {}
      /\ runLen > 0 => runStart + runLen = n
      /\ given \in SUBSET Blocks
  BY <1>1, TotalBlocksAssumption DEF IInv, TypeOK, Searching, RunFree, Blocks
<1>3. \A s \in Blocks : s < n - runLen => s \notin FitsAt(given, count)
  BY <1>1 DEF Placed, NoFitPassed
<1>4. CASE runLen + 1 = count
  <2>1. runs' = {Extent(runStart', count)} /\ pc' = "done"
    BY <1>1, <1>2, <1>4 DEF ContiguousFree
  <2>2. runStart' = n - runLen /\ runStart' \in Nat
    BY <1>1, <1>2 DEF Extended
  <2>3. runStart' \in FitsAt(given, count)
    <3>1. runStart' \in Blocks /\ runStart' + count <= TotalBlocks
      BY <1>1, <1>2, <1>4, <2>2, TotalBlocksAssumption DEF Blocks
    <3>2. ASSUME NEW x \in runStart' .. (runStart' + count - 1)
          PROVE  x \notin given
      <4>1. x = n \/ (runLen > 0 /\ x \in runStart .. (runStart + runLen - 1))
        BY <1>1, <1>2, <1>4, <2>2 DEF Extended
      <4> QED
        BY <1>1, <1>2, <4>1 DEF Run
    <3> QED
      BY <3>1, <3>2 DEF FitsAt
  <2>4. FitsAt(given, count) \in SUBSET Nat
    BY TotalBlocksAssumption DEF FitsAt, Blocks
  <2>5. Min(FitsAt(given, count)) = runStart'
    <3> DEFINE m == Min(FitsAt(given, count))
    <3>1. m \in FitsAt(given, count) /\ m <= runStart'
      BY <2>3, <2>4, MinIsLeast
    <3> HIDE DEF m
    <3>2. m \in Nat /\ m \in Blocks
      BY <2>4, <3>1 DEF FitsAt
    <3>3. ~(m < n - runLen)
      BY <1>3, <3>1, <3>2
    <3>4. m = runStart'
      BY <1>2, <2>2, <3>1, <3>2, <3>3
    <3> QED
      BY <3>4 DEF m
  <2>6. runs' = allocFragments(given, count)
    BY <1>2, <2>1, <2>3, <2>5 DEF allocFragments, allocContiguous
  <2>7. Apart(runs')
    BY <2>1 DEF Apart
  <2> QED
    BY <1>1, <2>1, <2>6, <2>7
       DEF Placed, Asked, NoFitPassed, NoFitAtAll, Behind, Lowest, ReturnsFirstFit
<1>5. CASE runLen + 1 # count
  <2>1. n' = n + 1 /\ UNCHANGED <<bitmap, pc, remaining, runs>>
    BY <1>1, <1>2, <1>5 DEF ContiguousFree
  <2>2. n' - runLen' = n - runLen
    BY <1>1, <1>2, <2>1
  <2>3. NoFitPassed'
    BY <1>1, <1>3, <2>1, <2>2 DEF NoFitPassed
  <2> QED
    BY <1>1, <2>1, <2>3
       DEF Placed, Asked, NoFitAtAll, Behind, Lowest, ReturnsFirstFit
<1> QED
  BY <1>4, <1>5

\* At the end of the volume every start has been passed, or lies in a last run
\* that is too short.
LEMMA EndPlaces ==
    ASSUME IInv, Placed, ContiguousEnd
    PROVE  Placed'
<1>1. /\ pc = "contiguous" /\ n = TotalBlocks /\ pc' = "fragments"
      /\ n' = 0 /\ runLen' = 0
      /\ given' = given /\ count' = count /\ runs' = runs
  BY DEF ContiguousEnd
<1>2. /\ n \in Nat /\ runLen \in Nat /\ count \in Nat /\ runLen < count
      /\ runs = {}
  BY <1>1, TotalBlocksAssumption DEF IInv, TypeOK, Searching, RunFree
<1>3. ASSUME NEW s \in FitsAt(given, count)
      PROVE  FALSE
  <2>1. s \in Blocks /\ s \in Nat /\ s + count <= TotalBlocks
    BY TotalBlocksAssumption DEF FitsAt, Blocks
  <2>2. s < n - runLen
    BY <1>1, <1>2, <2>1
  <2> QED
    BY <1>1, <2>1, <2>2 DEF Placed, NoFitPassed
<1>4. FitsAt(given, count) = {}
  BY <1>3
<1> QED
  BY <1>1, <1>2, <1>4
     DEF Placed, Asked, NoFitPassed, NoFitAtAll, Apart, Behind, Lowest,
         ReturnsFirstFit

\* Flushing a run that starts after the others keeps the runs apart.
LEMMA FlushApart ==
    ASSUME NEW E \in SUBSET Extents, Apart(E),
           NEW s \in Blocks, NEW len \in 1 .. TotalBlocks,
           \A f \in E : EndOf(f) < s
    PROVE  Apart(E \cup {Extent(s, len)})
BY DEF Apart, Extent

\* The used block that ends a run separates it from the next.
LEMMA UsedSeparates ==
    ASSUME IInv, Placed, FragmentUsed
    PROVE  /\ Apart(runs') /\ Behind'
           /\ \A e \in runs' \ runs : \A f \in runs : EndOf(f) < e.start
<1>1. /\ pc = "fragments" /\ n' = n + 1 /\ runLen' = 0
      /\ runs' = IF runLen > 0 THEN runs \cup {Extent(runStart, runLen)} ELSE runs
  BY DEF FragmentUsed, FlushRun
<1>2. /\ n \in Nat /\ runLen \in Nat /\ runStart \in Nat
      /\ runLen > 0 => runStart + runLen = n
      /\ runStart \in Blocks /\ runLen \in 0 .. TotalBlocks
      /\ runs \in SUBSET Extents
  BY <1>1, TotalBlocksAssumption DEF IInv, TypeOK, Walking, RunFree, Blocks
<1>3. /\ Apart(runs)
      /\ \A f \in runs : EndOf(f) < n /\ (runLen > 0 => EndOf(f) < runStart)
  BY <1>1 DEF Placed, Behind
<1>4. \A f \in runs : EndOf(f) \in Int
  BY <1>2, TotalBlocksAssumption DEF Extents, Blocks, EndOf
<1>5. CASE runLen > 0
  <2> DEFINE e == Extent(runStart, runLen)
  <2>1. runs' = runs \cup {e}
    BY <1>1, <1>5
  <2>2. EndOf(e) = n /\ e.start = runStart
    BY <1>2, <1>5 DEF EndOf, Extent
  <2>3. Apart(runs')
    BY <1>2, <1>3, <1>5, <2>1, FlushApart
  <2> HIDE DEF e
  <2>4. \A f \in runs' : EndOf(f) < n + 1
    BY <1>2, <1>3, <1>4, <2>1, <2>2
  <2> QED
    BY <1>1, <1>3, <1>5, <2>1, <2>2, <2>3, <2>4 DEF Behind
<1>6. CASE ~(runLen > 0)
  <2>1. runs' = runs
    BY <1>1, <1>6
  <2>2. \A f \in runs' : EndOf(f) < n + 1
    BY <1>2, <1>3, <1>4, <2>1
  <2> QED
    BY <1>1, <1>3, <2>1, <2>2 DEF Behind
<1> QED
  BY <1>5, <1>6

\* A free block joins the open run, which starts after the runs flushed so
\* far, or completes the count: then no free block below was passed over.
LEMMA FreeJoins ==
    ASSUME IInv, Placed, FragmentFree
    PROVE  /\ Apart(runs') /\ Behind' /\ Lowest'
           /\ \A e \in runs' \ runs : \A f \in runs : EndOf(f) < e.start
<1>1. /\ pc = "fragments" /\ n < TotalBlocks /\ n \notin bitmap
      /\ runStart' = Extended
      /\ given' = given
  BY DEF FragmentFree, test
<1>2. /\ n \in Nat /\ runLen \in Nat /\ runStart \in Nat /\ remaining \in Nat
      /\ runLen > 0 => runStart + runLen = n
      /\ runLen < remaining
      /\ runs \in SUBSET Extents
      /\ given \in SUBSET Blocks
  BY <1>1, TotalBlocksAssumption DEF IInv, TypeOK, Walking, RunFree, Blocks
<1>3. /\ Apart(runs)
      /\ \A f \in runs : EndOf(f) < n /\ (runLen > 0 => EndOf(f) < runStart)
  BY <1>1 DEF Placed, Behind
<1>4. /\ runStart' = n - runLen /\ runStart' \in Nat
      /\ \A f \in runs : EndOf(f) < runStart'
      /\ Run \subseteq runStart' .. n
  BY <1>1, <1>2, <1>3 DEF Extended, Run
<1>5. \A f \in runs : EndOf(f) \in Int
  BY <1>2, TotalBlocksAssumption DEF Extents, Blocks, EndOf
<1>6. CASE runLen + 1 = remaining
  <2> DEFINE e == Extent(runStart', runLen + 1)
  <2>1. runs' = runs \cup {e} /\ pc' = "check"
    BY <1>1, <1>2, <1>6 DEF FragmentFree, FlushRun
  <2>2. /\ e.start = runStart' /\ ExtentBlocks(e) = runStart' .. n
    BY <1>2, <1>4 DEF Extent, ExtentBlocks
  <2>3. Apart(runs')
    <3>1. runStart' \in Blocks /\ runLen + 1 \in 1 .. TotalBlocks
      BY <1>1, <1>2, <1>4, TotalBlocksAssumption DEF Blocks
    <3> QED
      BY <1>2, <1>3, <1>4, <2>1, <3>1, FlushApart
  <2> HIDE DEF e
  <2>4. AllBlocks(runs') = AllBlocks(runs) \cup (runStart' .. n)
    BY <2>1, <2>2 DEF AllBlocks
  <2>5. \A t \in AllBlocks(runs') : t \in Int /\ t <= n
    <3>1. \A f \in runs : \A t \in ExtentBlocks(f) : t \in Int /\ t < EndOf(f)
      BY <1>2, TotalBlocksAssumption DEF Extents, Blocks, EndOf, ExtentBlocks
    <3>2. \A t \in AllBlocks(runs) : t \in Int /\ t <= n
      BY <1>2, <1>3, <1>5, <3>1 DEF AllBlocks
    <3> QED
      BY <1>2, <1>4, <2>4, <3>2
  <2>6. \A b \in Free(given) : b < n => b \in AllBlocks(runs) \cup Run
    <3>1. \A b \in Blocks : b < n => b \in bitmap \cup Run
      BY <1>1 DEF IInv, Walking
    <3>2. bitmap = given \cup AllBlocks(runs)
      BY <1>1 DEF IInv, Walking, Taken
    <3> QED
      BY <3>1, <3>2 DEF Free
  <2>7. Lowest'
    <3> SUFFICES ASSUME NEW b \in Free(given), NEW t \in AllBlocks(runs'), b < t
                 PROVE  b \in AllBlocks(runs')
      BY <1>1 DEF Lowest
    <3>1. b \in Int
      BY TotalBlocksAssumption DEF Free, Blocks
    <3>2. b < n
      BY <1>2, <2>5, <3>1
    <3> QED
      BY <1>4, <2>4, <2>6, <3>2
  <2> QED
    BY <1>4, <2>1, <2>2, <2>3, <2>7 DEF Behind
<1>7. CASE runLen + 1 # remaining
  <2>1. /\ n' = n + 1 /\ runs' = runs /\ pc' = pc
    BY <1>1, <1>2, <1>7 DEF FragmentFree, FlushRun
  <2>2. \A f \in runs' : EndOf(f) < n + 1
    BY <1>2, <1>3, <1>5, <2>1
  <2> QED
    BY <1>1, <1>3, <1>4, <2>1, <2>2 DEF Behind, Lowest
<1> QED
  BY <1>6, <1>7

\* The last run is flushed like any other, and every free block is taken.
LEMMA EndFlushes ==
    ASSUME IInv, Placed, FragmentEnd
    PROVE  /\ Apart(runs') /\ Behind' /\ Lowest'
           /\ \A e \in runs' \ runs : \A f \in runs : EndOf(f) < e.start
<1>1. /\ pc = "fragments" /\ ~(n < TotalBlocks /\ remaining > 0)
      /\ pc' = "check" /\ given' = given
      /\ runs' = IF runLen > 0 THEN runs \cup {Extent(runStart, runLen)} ELSE runs
  BY DEF FragmentEnd, FlushRun
<1>2. /\ runLen \in Nat /\ runStart \in Blocks /\ runLen \in 0 .. TotalBlocks
      /\ runs \in SUBSET Extents /\ remaining \in Nat /\ runLen < remaining
  BY <1>1, TotalBlocksAssumption DEF IInv, TypeOK, Walking, RunFree
<1>3. /\ Apart(runs)
      /\ \A f \in runs : runLen > 0 => EndOf(f) < runStart
  BY <1>1 DEF Placed, Behind
<1>4. /\ Apart(runs')
      /\ \A e \in runs' \ runs : \A f \in runs : EndOf(f) < e.start
  <2>1. CASE runLen > 0
    <3>1. runs' = runs \cup {Extent(runStart, runLen)} /\ runLen \in 1 .. TotalBlocks
      BY <1>1, <1>2, <2>1
    <3>2. Extent(runStart, runLen).start = runStart
      BY DEF Extent
    <3>3. Apart(runs')
      BY <1>2, <1>3, <2>1, <3>1, FlushApart
    <3> QED
      BY <1>3, <2>1, <3>1, <3>2, <3>3
  <2>2. CASE ~(runLen > 0)
    BY <1>1, <1>3, <2>2
  <2> QED
    BY <2>1, <2>2
<1>5. Lowest'
  <2>1. IInv'
    BY FragmentEndKeeps
  <2>2. remaining' > 0
    BY <1>2 DEF FragmentEnd, FlushRun
  <2>3. Blocks \subseteq bitmap' /\ bitmap' = given' \cup AllBlocks(runs')
    BY <1>1, <2>1, <2>2 DEF IInv, Checking, Taken
  <2> QED
    BY <2>3 DEF Lowest, Free
<1> QED
  BY <1>1, <1>4, <1>5 DEF Behind

\* Enough blocks: they are the lowest free ones, and the runs are maximal.
LEMMA EnoughPlaces ==
    ASSUME IInv, Placed, Enough
    PROVE  Placed'
<1>1. /\ pc = "check" /\ remaining = 0 /\ pc' = "done"
      /\ given' = given /\ count' = count /\ runs' = runs
  BY DEF Enough
<1>2. /\ given \cap AllBlocks(runs) = {}
      /\ bitmap = given \cup AllBlocks(runs)
      /\ Cardinality(AllBlocks(runs)) = count - remaining
      /\ count \in Nat /\ count > 0
      /\ given \in SUBSET Blocks /\ bitmap \in SUBSET Blocks
      /\ runs \in SUBSET Extents
  BY <1>1, TotalBlocksAssumption DEF IInv, Checking, Taken, TypeOK, Placed, Asked
<1>3. Cardinality(AllBlocks(runs)) = count
  BY <1>1, <1>2
<1>4. AllBlocks(runs) \in SUBSET Free(given)
  BY <1>2 DEF Free
<1>5. AllBlocks(runs) = FirstFree(given, count)
  <2> DEFINE T == AllBlocks(runs)
  <2>1. \A b \in Free(given), t \in T : b < t => b \in T
    BY <1>1 DEF Placed, Lowest
  <2> HIDE DEF T
  <2>2. T \in SUBSET Free(given) /\ Cardinality(T) = count
    BY <1>3, <1>4 DEF T
  <2>3. T = FirstFree(given, count)
    BY <1>2, <2>1, <2>2, LowestAreFirst
  <2> QED
    BY <2>3 DEF T
<1>6. runs = RunsOf(FirstFree(given, count))
  BY <1>2, <1>5, ApartAreRuns DEF Placed
<1>7. runs = allocFragments(given, count)
  BY <1>1, <1>2, <1>6 DEF Placed, NoFitAtAll, allocFragments
<1> QED
  BY <1>1, <1>7
     DEF Placed, Asked, NoFitPassed, NoFitAtAll, Behind, Lowest, ReturnsFirstFit

\* Every step keeps the runs in their places and appends in ascending order.
LEMMA StepPlaces ==
    ASSUME IInv, Placed, [Next]_vars
    PROVE  /\ Placed'
           /\ \A e \in runs' \ runs : \A f \in runs : EndOf(f) < e.start
<1> USE DEF Placed
<1>1. CASE ContiguousUsed
  <2>1. UNCHANGED <<given, count, pc, runs>> /\ pc = "contiguous"
    BY <1>1 DEF ContiguousUsed
  <2> QED
    BY <1>1, <2>1, UsedPasses
       DEF Asked, NoFitAtAll, Behind, Lowest, ReturnsFirstFit
<1>2. CASE ContiguousFree
  <2>1. runs = {}
    BY <1>2 DEF ContiguousFree, IInv, Searching
  <2> QED
    BY <1>2, <2>1, FreePlaces
<1>3. CASE ContiguousEnd
  <2>1. runs' = runs
    BY <1>3 DEF ContiguousEnd
  <2> QED
    BY <1>3, <2>1, EndPlaces
<1>4. CASE FragmentUsed
  <2>1. UNCHANGED <<given, count, pc>> /\ pc = "fragments"
    BY <1>4 DEF FragmentUsed
  <2> QED
    BY <1>4, <2>1, UsedSeparates
       DEF Asked, NoFitPassed, NoFitAtAll, Lowest, ReturnsFirstFit
<1>5. CASE FragmentFree
  <2>1. UNCHANGED <<given, count>> /\ pc = "fragments" /\ pc' \in {"fragments", "check"}
    BY <1>5 DEF FragmentFree
  <2> QED
    BY <1>5, <2>1, FreeJoins
       DEF Asked, NoFitPassed, NoFitAtAll, ReturnsFirstFit
<1>6. CASE FragmentEnd
  <2>1. UNCHANGED <<given, count>> /\ pc = "fragments" /\ pc' = "check"
    BY <1>6 DEF FragmentEnd
  <2> QED
    BY <1>6, <2>1, EndFlushes
       DEF Asked, NoFitPassed, NoFitAtAll, ReturnsFirstFit
<1>7. CASE Enough
  <2>1. runs' = runs
    BY <1>7 DEF Enough
  <2> QED
    BY <1>7, <2>1, EnoughPlaces
<1>8. CASE RollBack
  <2>1. pc' = "failed" /\ runs' = {}
    BY <1>8 DEF RollBack
  <2> QED
    BY <2>1 DEF Asked, NoFitPassed, NoFitAtAll, Apart, Behind, Lowest,
                ReturnsFirstFit
<1>9. CASE UNCHANGED vars
  BY <1>9 DEF vars, Asked, NoFitPassed, NoFitAtAll, Behind, Lowest,
              ReturnsFirstFit
<1> QED
  BY <1>1, <1>2, <1>3, <1>4, <1>5, <1>6, <1>7, <1>8, <1>9 DEF Next

\* The search has passed nothing yet; a call for no blocks returns no extents.
LEMMA InitPlaces == Init => Placed
<1> SUFFICES ASSUME Init
             PROVE  Placed
  OBVIOUS
<1>1. /\ n = 0 /\ runLen = 0 /\ runs = {} /\ count \in Nat
      /\ pc = IF count = 0 THEN "done" ELSE "contiguous"
  BY TotalBlocksAssumption DEF Init
<1>2. \A s \in Blocks : ~(s < n - runLen)
  BY <1>1, TotalBlocksAssumption DEF Blocks
<1> QED
  BY <1>1, <1>2 DEF Placed, Asked, NoFitPassed, NoFitAtAll, Apart, Behind,
                    Lowest, ReturnsFirstFit, allocFragments

\* Where the runs lie, at every step of the two loops.
THEOREM AlwaysPlaced == Spec => []Placed
<1>1. IInv /\ Placed /\ [Next]_vars => Placed'
  BY StepPlaces
<1> QED
  BY <1>1, InitPlaces, Invariance, PTL DEF Spec

\* A call that succeeds returns the lowest run that fits, and if none does the
\* lowest free blocks as maximal runs, for every bitmap and every count.
THEOREM AlwaysFirstFit == Spec => []ReturnsFirstFit
<1>1. Placed => ReturnsFirstFit
  BY DEF Placed
<1> QED
  BY <1>1, AlwaysPlaced, PTL

\* Both together: the loops do what allocFragments of Bitmap says.
THEOREM AlwaysSucceedsExactly == Spec => []SucceedsExactly
BY AlwaysFirstFit, AlwaysMarksWhatItReturns, PTL DEF SucceedsExactly

\* The walk appends its runs in ascending order, never two that touch.
THEOREM AlwaysAscending == Spec => Ascending
<1>1. IInv /\ Placed /\ [Next]_vars
        => [\A e \in runs' \ runs : \A f \in runs : f.start + f.count < e.start]_vars
  BY StepPlaces DEF EndOf
<1> QED
  BY <1>1, AlwaysPlaced, Invariance, PTL DEF Spec, Ascending
=============================================================================
