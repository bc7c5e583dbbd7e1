------------------------------- MODULE Forks --------------------------------
(***************************************************************************)
(* Forks and their extents.  A fork's descriptor (in the catalog record of *)
(* a file, in the volume header for the two B-tree files) has room for a   *)
(* few extents; the rest are records of the extents-overflow tree, grouped *)
(* and keyed by the fork-relative block at which each group begins         *)
(* (extwrite.go).  Readers assemble the list again (extents.go) and map    *)
(* byte windows to it (fork.go, openfile.go).                              *)
(*                                                                         *)
(* The overflow tree is itself a fork that grows: createFile inserts into  *)
(* both trees, either insertion may grow its tree's fork (btgrow.go), the  *)
(* new extents of that fork may overflow, and then they are inserted into  *)
(* the extents tree while the first insertion waits.  The waiting calls    *)
(* are a stack of frames, each the list of the steps it still has to take. *)
(* The blocks come from module BlockAlloc, whose actions every step that   *)
(* allocates or frees conjoins; the trees are maps here (BTree models how  *)
(* they are kept), and what they write to their blocks is left out.        *)
(***************************************************************************)
EXTENDS BlockAlloc, Mkfs, Sequences, SequencesExt

CONSTANTS
    InlineExtents,  \* numInlineExtents
    GrowBlocks,     \* the clump growFork adds, in blocks
    FileSizes,      \* sizes of the files written, in bytes
    LastFile,       \* bound: the last catalog id handed out
    SelfSpill       \* whether the extents file itself may overflow

ASSUME ForksAssumption ==
    /\ InlineExtents \in Nat \ {0}
    /\ GrowBlocks \in Nat \ {0}
    /\ FileSizes \subseteq Nat
    /\ SelfSpill \in BOOLEAN
    /\ Accepts(TotalBlocks)
    /\ Reserved = UsedBlocks(TotalBlocks)

ExtentsFile == 3    \* kHFSExtentsFileID
CatalogFile == 4    \* kHFSCatalogFileID
FirstFile   == 16   \* firstUserCatalogID

\* No id is handed out before the first one.
ASSUME LastFileAssumption == LastFile \in Nat /\ LastFile + 1 >= FirstFile

Trees == {ExtentsFile, CatalogFile}
Files == FirstFile .. LastFile
Forks == Trees \cup Files

Bytes == 0 .. (TotalBlocks * BlockSize - 1)

\* A fork descriptor (forkData).
Fork(size, total, ext) == [size |-> size, total |-> total, ext |-> ext]

NoFork == Fork(0, 0, <<>>)

NoHandle == [id |-> 0, size |-> 0, ext |-> <<>>]

\* A step still to take.  "put" has the key and the extents of a record, "free"
\* an extent, "record" the extents of the new file.
Do(do)            == [do |-> do, key |-> <<>>, ext |-> <<>>]
Put(key, ext)     == [do |-> "put", key |-> key, ext |-> ext]
FreeExtent(e)     == [do |-> "free", key |-> <<>>, ext |-> <<e>>]
InsertRecord(ext) == [do |-> "record", key |-> <<>>, ext |-> ext]

\* A call that has not returned.  "grown" says that its insertion has made the
\* tree grow and may go on; "leaf" holds the records of the leaf it had loaded
\* before, when that is the leftmost one ("low").
Frame(id, size, todo) ==
    [id |-> id, size |-> size, todo |-> todo,
     grown |-> FALSE, low |-> FALSE, leaf |-> <<>>]

\* A function with another entry, which replaces the one it may have.
With(f, k, v) == [x \in DOMAIN f \cup {k} |-> IF x = k THEN v ELSE f[x]]

\* The entries of two functions, those of the first before the second's.
Over(f, g) ==
    [x \in DOMAIN f \cup DOMAIN g |-> IF x \in DOMAIN f THEN f[x] ELSE g[x]]

-----------------------------------------------------------------------------
(* Extent lists. *)

\* The members of S by ascending key.
Sorted(S, key) ==
    [i \in 1 .. Cardinality(S) |->
        CHOOSE x \in S : Cardinality({y \in S : key[y] < key[x]}) = i - 1]

\* allocFragments returns its runs in ascending order.
InOrder(runs) == Sorted(runs, [e \in runs |-> e.start])

\* How many blocks the first extents have.
BlocksUpTo(ext) ==
    LET sum[i \in 0 .. Len(ext)] ==
            IF i = 0 THEN 0 ELSE sum[i - 1] + ext[i].count
    IN  sum

Counted(ext) == BlocksUpTo(ext)[Len(ext)]

\* Defect: the descriptor gets one extent more than it has room for.
BugInlinePartOneMore(ext) == SubSeq(ext, 1, Min({InlineExtents + 1, Len(ext)}))

InlinePart(ext) == SubSeq(ext, 1, Min({InlineExtents, Len(ext)}))

OverflowPart(ext) == SubSeq(ext, InlineExtents + 1, Len(ext))

\* The overflow records a list of extents takes, and the extents of each.
Groups(ext) == CeilDiv(Len(OverflowPart(ext)), InlineExtents)

Group(ext, i) ==
    SubSeq(ext, i * InlineExtents + 1, Min({(i + 1) * InlineExtents, Len(ext)}))

\* Defect: every group is keyed by the block at which the first one begins.
BugInsertExtentRecordsOneKey(id, ext) ==
    [i \in 1 .. Groups(ext) |->
        Put(<<id, BlocksUpTo(ext)[InlineExtents]>>, Group(ext, i))]

\* The records for the extents that do not fit in the descriptor: groups, each
\* keyed by the block of the fork at which it begins.
insertExtentRecords(id, ext) ==
    [i \in 1 .. Groups(ext) |->
        Put(<<id, BlocksUpTo(ext)[i * InlineExtents]>>, Group(ext, i))]

\* The records of a fork that begin at a block or after it, in key order.
KeysFrom(rs, id, start) ==
    LET keys == {k \in DOMAIN rs : k[1] = id /\ k[2] >= start}
    IN  Sorted(keys, [k \in keys |-> k[2]])

overflowExtents(rs, id, start) ==
    LET keys == KeysFrom(rs, id, start)
    IN  FlattenSeq([i \in DOMAIN keys |-> rs[keys[i]]])

\* The descriptor's extents, and as many of the tree's as the fork still needs.
resolveForkExtents(d, rs, id) ==
    LET covered == Counted(d.ext)
        more    == overflowExtents(rs, id, covered)
        enough  == {n \in DOMAIN more :
                      covered + BlocksUpTo(more)[n] >= d.total}
    IN  IF covered >= d.total THEN d.ext
        ELSE d.ext \o SubSeq(more, 1, Min(enough \cup {Len(more)}))

-----------------------------------------------------------------------------
VARIABLES
    desc,     \* the descriptors of the forks there are
    recs,     \* the records of the extents tree
    store,    \* what each byte of the volume holds
    extents,  \* the extent lists of the two tree writers
    stack,    \* the calls in progress, the innermost first
    next,     \* nextCatalogID
    handle,   \* a file that is open for positional reads
    edited,   \* the open transaction has edited descriptors or records
    torn,     \* an operation failed after such edits
    given     \* not in the code: the runs each fork was given, in order

forkVars == <<desc, recs, store, extents, stack, next, handle, edited, torn,
              given>>

allVars == <<vars, forkVars>>

\* The k-th byte of file id, as it was written.
Byte(id, k) == <<id, k>>
Zero        == <<0, 0>>

NoWriters == [t \in Trees |-> <<>>]

\* The image mkfs leaves.
ForksInit ==
    LET first == [t \in Trees |-> <<IF t = ExtentsFile
                    THEN Extent(extStart(TotalBlocks), extBlocks)
                    ELSE Extent(catStart(TotalBlocks), catBlocks(TotalBlocks))>>]
    IN  /\ Init
        /\ desc = [t \in Trees |-> Fork(Counted(first[t]) * BlockSize,
                                        Counted(first[t]), first[t])]
        /\ recs = <<>>
        /\ store = [b \in Bytes |-> Zero]
        /\ extents = NoWriters
        /\ stack = <<>>
        /\ next = FirstFile
        /\ handle = NoHandle
        /\ edited = FALSE
        /\ torn = FALSE
        /\ given = first

Idle == stack = <<>> /\ ~torn

Live == DOMAIN desc \ Trees

Resolved(f) == resolveForkExtents(desc[f], recs, f)

-----------------------------------------------------------------------------
(* Reading. *)

\* Up to n bytes from an offset, piece by piece from the extents that hold them.
Pieces(f, off, want) ==
    LET Piece(acc, e) ==
            LET span   == e.count * BlockSize
                within == acc.off - acc.base
                n      == Min({span - within, want - Len(acc.buf)})
                from   == e.start * BlockSize + within
            IN  IF acc.off < acc.base + span /\ Len(acc.buf) < want
                THEN [base |-> acc.base + span, off |-> acc.off + n,
                      buf |-> acc.buf \o [i \in 1 .. n |-> store[from + i - 1]]]
                ELSE [acc EXCEPT !.base = @ + span]
        read[i \in 0 .. Len(f.ext)] ==
            IF i = 0 THEN [base |-> 0, off |-> off, buf |-> <<>>]
            ELSE Piece(read[i - 1], f.ext[i])
    IN  read[Len(f.ext)].buf

\* Defect: the window is not cut to the size of the fork.
BugReadAtUncut(f, off, len) ==
    IF off >= f.size THEN <<>> ELSE Pieces(f, off, len)

readAt(f, off, len) ==
    IF off >= f.size THEN <<>> ELSE Pieces(f, off, Min({len, f.size - off}))

extentBytes(f) == Counted(f.ext) * BlockSize

dataForkFor(f) == [id |-> f, size |-> desc[f].size, ext |-> Resolved(f)]

\* The checks of readAll before it makes its buffer: the extents cover the
\* size, the last byte can be read, and they lie inside the image.
Readable(f) ==
    \/ f.size = 0
    \/ /\ f.size <= extentBytes(f)
       /\ Len(readAt(f, f.size - 1, 1)) = 1
       /\ \A i \in DOMAIN f.ext : f.ext[i].start + f.ext[i].count <= TotalBlocks

-----------------------------------------------------------------------------
(* The steps of the calls in progress. *)

Top  == Head(stack)
Step == Head(Top.todo)

At(do) == stack # <<>> /\ Top.todo # <<>> /\ Step.do = do

\* The innermost call goes on with other steps, its insertion being over.
Continue(todo) ==
    stack' = <<[Top EXCEPT !.todo = todo, !.grown = FALSE, !.low = FALSE,
                           !.leaf = <<>>]>> \o Tail(stack)

\* begin: load the bitmap and bind the writers to the trees as they are now.
begin(frame) ==
    /\ Idle
    /\ newAllocator
    /\ extents' = [t \in Trees |-> Resolved(t)]
    /\ stack' = <<frame>>
    /\ UNCHANGED <<desc, recs, store, handle, edited, torn, given>>

createFile(size) ==
    /\ next <= LastFile
    /\ begin(Frame(next, size, <<Do("alloc")>>))
    /\ next' = next + 1

\* The steps that free a list of extents.
Frees(ext) == [i \in DOMAIN ext |-> FreeExtent(ext[i])]

\* Defect: of each run in the descriptor only the first block is freed.
BugRemoveFileFirstBlocks(f) ==
    /\ begin(Frame(f, 0, [i \in DOMAIN desc[f].ext |->
                            FreeExtent(Extent(desc[f].ext[i].start, 1))]
                         \o <<Do("drop"), Do("unlink"), Do("commit")>>))
    /\ UNCHANGED next

removeFile(f) ==
    /\ begin(Frame(f, 0, Frees(desc[f].ext) \o <<Do("drop"), Do("unlink"), Do("commit")>>))
    /\ UNCHANGED next

\* The data goes to the runs in order; the rest of the last block is zeroed.
writeForkData(runs, id, size) ==
    LET before(i) == BlocksUpTo(runs)[i - 1] * BlockSize
        at(i)     == runs[i].start * BlockSize
    IN  [b \in Bytes |->
            IF \E i \in DOMAIN runs : b \div BlockSize \in ExtentBlocks(runs[i])
            THEN LET i == CHOOSE i \in DOMAIN runs :
                             b \div BlockSize \in ExtentBlocks(runs[i])
                     k == before(i) + b - at(i)
                 IN  IF k < size THEN Byte(id, k) ELSE Zero
            ELSE store[b]]

Rest(runs) == <<InsertRecord(runs), Do("thread"), Do("commit")>>

DataBlocks == CeilDiv(Top.size, BlockSize)

AllocData ==
    /\ At("alloc")
    /\ DataBlocks > 0
    /\ Allocate(DataBlocks)
    /\ LET runs == InOrder(allocFragments(bitmap, DataBlocks))
       IN  /\ store' = writeForkData(runs, Top.id, Top.size)
           /\ given' = With(given, Top.id, runs)
           /\ Continue(insertExtentRecords(Top.id, runs) \o Rest(runs))
    /\ UNCHANGED <<desc, recs, extents, next, handle, edited, torn>>

AllocNothing ==
    /\ At("alloc")
    /\ DataBlocks = 0
    /\ given' = With(given, Top.id, <<>>)
    /\ Continue(Rest(<<>>))
    /\ UNCHANGED <<vars, desc, recs, store, extents, next, handle, edited, torn>>

\* The operation returns an error.  Its allocator is dropped; what it edited
\* stays, and the model ends there.
Fail ==
    /\ stack' = <<>>
    /\ extents' = NoWriters
    /\ edited' = FALSE
    /\ torn' = edited
    /\ given' = [f \in DOMAIN desc |-> given[f]]
    /\ IF edited THEN UNCHANGED vars ELSE Abandon
    /\ UNCHANGED <<desc, recs, store, next, handle>>

AllocNoSpace ==
    /\ At("alloc")
    /\ ~CanAlloc(bitmap, DataBlocks)
    /\ Fail

-----------------------------------------------------------------------------
(* Insertions, and the growth of a tree's fork. *)

\* The tree that the next step inserts into.
Inserting(t) ==
    IF t = ExtentsFile THEN At("put") ELSE At("record") \/ At("thread")

\* A key that is in the tree already: its record is deleted first.
Replacing == At("put") /\ Step.key \in DOMAIN recs

\* The leaf for the key is full: a waiting insertion is about to split it.
LeafFull == ~Replacing /\ \E i \in 2 .. Len(stack) : stack[i].low

\* insertOrReplace.  An insertion that waited for its tree to grow stores the
\* leaf as it had loaded it before.
InsertExtents ==
    /\ At("put")
    /\ Top.grown \/ ~LeafFull
    /\ recs' = With(Over(Top.leaf, recs), Step.key, Step.ext)
    /\ edited' = TRUE
    /\ Continue(Tail(Top.todo))
    /\ UNCHANGED <<vars, desc, store, extents, next, handle, torn, given>>

InsertCatalog ==
    /\ At("record")
    /\ desc' = With(desc, Top.id,
                    Fork(Top.size, Counted(Step.ext), InlinePart(Step.ext)))
    /\ edited' = TRUE
    /\ Continue(Tail(Top.todo))
    /\ UNCHANGED <<vars, recs, store, extents, next, handle, torn, given>>

InsertThread ==
    /\ At("thread")
    /\ edited' = TRUE
    /\ Continue(Tail(Top.todo))
    /\ UNCHANGED <<vars, desc, recs, store, extents, next, handle, torn, given>>

\* The insertion needs a node and the tree has none.  The first record of the
\* extents tree goes to the leaf that mkfs reserved.
NeedsNode(t) ==
    /\ Inserting(t)
    /\ ~Top.grown
    /\ t = ExtentsFile => ~Replacing /\ recs # <<>>

\* Is the leaf that the insertion has loaded the leftmost one?  It is for a
\* record of the extents file, whose keys are the smallest.
Leftmost ==
    IF ~SelfSpill \/ ~At("put") THEN {FALSE}
    ELSE IF Step.key[1] = ExtentsFile THEN {TRUE}
    ELSE BOOLEAN

\* growFork up to the overflow records, which are the new call's steps:
\* appendForkExtents writes the descriptor first.
growFork(t, low) ==
    /\ NeedsNode(t)
    /\ Allocate(GrowBlocks)
    /\ LET runs  == InOrder(allocFragments(bitmap, GrowBlocks))
           all   == extents[t] \o runs
           total == desc[t].total + GrowBlocks
           mine  == {k \in DOMAIN recs : k[1] = ExtentsFile}
       IN  /\ SelfSpill \/ t = CatalogFile \/ Len(all) <= InlineExtents
           /\ extents' = [extents EXCEPT ![t] = all]
           /\ desc' = [desc EXCEPT ![t] =
                          Fork(total * BlockSize, total, InlinePart(all))]
           /\ given' = [given EXCEPT ![t] = @ \o runs]
           /\ stack' = <<Frame(t, 0, insertExtentRecords(t, all)),
                         [Top EXCEPT !.grown = TRUE, !.low = low,
                              !.leaf = IF low THEN [k \in mine |-> recs[k]]
                                              ELSE <<>>]>> \o Tail(stack)
    /\ edited' = TRUE
    /\ UNCHANGED <<recs, store, next, handle, torn>>

\* Defect: a tree that has grown records its extents once more.
BugGrownRecordsAgain ==
    /\ stack # <<>>
    /\ Top.todo = <<>>
    /\ Continue(insertExtentRecords(Top.id, extents[Top.id]))
    /\ UNCHANGED <<vars, desc, recs, store, extents, next, handle, edited, torn,
                   given>>

\* The new nodes are counted, and the waiting insertion goes on.
Grown ==
    /\ stack # <<>>
    /\ Top.todo = <<>>
    /\ stack' = Tail(stack)
    /\ UNCHANGED <<vars, desc, recs, store, extents, next, handle, edited, torn,
                   given>>

GrowNoSpace(t) ==
    /\ NeedsNode(t)
    /\ ~CanAlloc(bitmap, GrowBlocks)
    /\ Fail

-----------------------------------------------------------------------------
(* Removal, commit, handles. *)

FreeRun ==
    /\ At("free")
    /\ Release(Head(Step.ext))
    /\ Continue(Tail(Top.todo))
    /\ UNCHANGED <<desc, recs, store, extents, next, handle, edited, torn, given>>

\* Defect: the blocks are freed, the records stay.
BugDeleteAllKeepsRecords ==
    /\ At("drop")
    /\ edited' = TRUE
    /\ Continue(Frees(overflowExtents(recs, Top.id, 0)) \o Tail(Top.todo))
    /\ UNCHANGED <<vars, desc, recs, store, extents, next, handle, torn, given>>

\* Defect: the records go, their blocks stay.
BugDeleteAllLeaks ==
    /\ At("drop")
    /\ recs' = [k \in {l \in DOMAIN recs : l[1] # Top.id} |-> recs[k]]
    /\ edited' = TRUE
    /\ Continue(Tail(Top.todo))
    /\ UNCHANGED <<vars, desc, store, extents, next, handle, torn, given>>

\* The records go first, then their blocks.
deleteAllForFork ==
    /\ At("drop")
    /\ recs' = [k \in {l \in DOMAIN recs : l[1] # Top.id} |-> recs[k]]
    /\ edited' = TRUE
    /\ Continue(Frees(overflowExtents(recs, Top.id, 0)) \o Tail(Top.todo))
    /\ UNCHANGED <<vars, desc, store, extents, next, handle, torn, given>>

Unlink ==
    /\ At("unlink")
    /\ desc' = [f \in DOMAIN desc \ {Top.id} |-> desc[f]]
    /\ given' = [f \in DOMAIN given \ {Top.id} |-> given[f]]
    /\ edited' = TRUE
    /\ Continue(Tail(Top.todo))
    /\ UNCHANGED <<vars, recs, store, extents, next, handle, torn>>

commit ==
    /\ At("commit")
    /\ flush
    /\ stack' = <<>>
    /\ extents' = NoWriters
    /\ edited' = FALSE
    /\ UNCHANGED <<desc, recs, store, next, handle, torn, given>>

OpenFile(f) ==
    /\ Idle
    /\ handle' = dataForkFor(f)
    /\ UNCHANGED <<vars, desc, recs, store, extents, stack, next, edited, torn,
                   given>>

Calls ==
    \/ AllocData \/ AllocNothing \/ AllocNoSpace
    \/ InsertExtents \/ InsertCatalog \/ InsertThread
    \/ \E t \in Trees : GrowNoSpace(t) \/ \E low \in Leftmost : growFork(t, low)
    \/ Grown
    \/ FreeRun \/ deleteAllForFork \/ Unlink \/ commit

ForksNext ==
    \/ \E size \in FileSizes : createFile(size)
    \/ \E f \in Live : removeFile(f) \/ OpenFile(f)
    \/ Calls

ForksSpec == ForksInit /\ [][ForksNext]_allVars /\ WF_allVars(Calls)

-----------------------------------------------------------------------------
\* Type invariant: descriptors, records and writers hold extents of the volume,
\* every record belongs to a fork that had an id, and calls nest.
ForksTypeOK ==
    /\ TypeOK
    /\ Trees \subseteq DOMAIN desc /\ DOMAIN desc \subseteq Forks
    /\ DOMAIN desc \subseteq DOMAIN given /\ DOMAIN given \subseteq Forks
    /\ \A f \in DOMAIN desc : /\ desc[f].ext \in Seq(Extents)
                              /\ Len(desc[f].ext) <= InlineExtents
                              /\ desc[f].total \in 0 .. TotalBlocks
    /\ \A k \in DOMAIN recs : /\ k \in Forks \X (1 .. TotalBlocks)
                              /\ recs[k] \in Seq(Extents)
                              /\ Len(recs[k]) \in 1 .. InlineExtents
    /\ extents \in [Trees -> Seq(Extents)]
    /\ next \in FirstFile .. (LastFile + 1)
    /\ edited \in BOOLEAN /\ torn \in BOOLEAN
    /\ open <=> stack # <<>> \/ torn

\* Every step takes and returns blocks as module BlockAlloc allows: what
\* removeFile frees, from the descriptor and from the records, is an extent
\* that was handed out, whole, and is still held.
UsesAllocator == Spec

\* Between operations the extents that a reader assembles for a fork, a file's
\* or a tree's, are the runs it was given, in the order it was given them,
\* however often the trees grew while they were being recorded.
Resolves ==
    Idle => \A f \in DOMAIN desc : Resolved(f) = given[f]

\* Between operations the extents tree holds the overflow records of the forks
\* there are and no others: none is left of a deleted file, or of an earlier,
\* shorter extent list of a tree.
NoStrays ==
    Idle => LET all == UNION {ToSet(insertExtentRecords(f, given[f])) :
                                 f \in DOMAIN desc}
            IN  {Put(k, recs[k]) : k \in DOMAIN recs} = all

\* What the formatter marks and no fork holds: the headers and the bitmap.
Fixed ==
    LET r == Regions(TotalBlocks)
    IN  r.header \cup r.bitmap \cup r.alternate

BlocksOf(f) == AllBlocks(ToSet(Resolved(f)))

\* What fsck_hfs compares: between operations the bitmap in the image marks the
\* headers, itself and the blocks a reader finds in some fork, and no others;
\* and no two forks share one.  So a file that is removed gives back all of
\* its blocks, those in overflow records as well.
BlocksAccounted ==
    Idle => /\ image = Fixed \cup UNION {BlocksOf(f) : f \in DOMAIN desc}
            /\ \A f, g \in DOMAIN desc : f # g => BlocksOf(f) \cap BlocksOf(g) = {}

Window(id, size, off, len) ==
    [i \in 1 .. Min({len, size - off}) |-> Byte(id, off + i - 1)]

\* openfile.go: "each ReadAt reads only the extents of its own window": every
\* window of a file that still exists, through a handle opened just now or
\* before other files came and went, gives the file's own bytes, and all that
\* there are of them; and readAll accepts the fork.
WindowsExact ==
    Idle =>
        \A f \in {dataForkFor(g) : g \in Live}
                 \cup {h \in {handle} : h.id \in Live} :
            /\ Readable(f)
            /\ \A off \in 0 .. f.size - 1, len \in 1 .. f.size :
                  readAt(f, off, len) = Window(f.id, f.size, off, len)

\* Growth inside growth ends: every call returns, or fails for want of blocks.
CallsReturn == stack # <<>> ~> stack = <<>>
=============================================================================
