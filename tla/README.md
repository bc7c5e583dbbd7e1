# A TLA+ development of the HFS+ driver

This directory holds a formal model of the read/write HFS+ driver in `src/`:
TLA+ modules translated from the Go source, TLC configurations that check them
on small instances, and TLAPS proofs of the invariants that the rest of the
driver leans on. `PROJECT.json` lists the runs, the mutants that show each
property can fail, the source lines behind every definition, the hazards and
the findings.

Check a module with TLC:  `tlc -config MCVolume.cfg MCVolume`.
Check a proof:            `tlapm NodeMapProofs.tla`.

## 1. Inventory

The driver is a library called from one goroutine at a time: it takes no lock
and starts no goroutine. What makes it hard is therefore not concurrency but
the many structures that each operation edits one after the other, in a
whole-volume image in memory, with no undo, and with two B-trees that grow
inside the same transaction.

| Component | State | Operations | Correct when |
|---|---|---|---|
| Allocation bitmap (`alloc.go`) | bitmap in the image, a private copy per transaction, `freeBlocks` | `newAllocator`, `allocContiguous`, `allocFragments`, `freeRun`, `flush` | a bit is set exactly for blocks in use; no block has two owners; a failed search changes nothing |
| Node map and growth (`btmap.go`, `btgrow.go`) | node bitmap in the header node and a chain of map nodes, `totalNodes`, `freeNodes`, the fork's extents | `allocNode`, `freeNode`, `growFork`, `ensureMapCapacity`, `addMapNode` | bits, counts, chain and fork length agree; growth works while blocks remain; free nodes are erased |
| B-tree engine (`btops.go`, `btdelete.go`, `btwrite.go`) | nodes, header record | `insert`, `deleteByKey`, `storeNode` | every record is found by descent; levels are linked both ways; separators are exact; nodes are neither lost nor leaked |
| Catalog search (`catalog_search.go`, `btree.go`) | none | `findLeaf`, `lookup`, `listChildren`; `foldU16`, `fastUnicodeCompare`, `nameEqual` | the reader finds what the writer wrote; the order of names and their equality agree |
| Record writers (`catwrite.go`, `extwrite.go`) | none | `insertRecord`, `deleteRecord`, `patchFolderRecord`, `insertExtentRecords`, `deleteAllForFork` | the overflow records are those of the forks there are, and give their runs back in order |
| Write operations (`write.go`, `finderinfo.go`) | transaction: allocator and tree writers; header counters | `WriteFile`, `Symlink`, `Truncate`, `MkDir`, `DeleteFile`, `DeleteDir`, `Rename`, `SetLabel`, `SetFinderInfo`, `begin`, `commit` | threads, valences, counters, blocks and contents agree whenever the image can be looked at |
| Volume (`hfsplus.go`) | image, backing store, open readers | `Sync`, `reopen`, `OpenFileWritable`, path lookup | the store holds a committed image |
| Fork reading (`fork.go`, `extents.go`) | extents of a fork | `readAt`, `readAll`, `resolveForkExtents` | a file reads back as written |
| Formatter (`mkfs.go`, `format.go`) | none | `Mkfs`, `Format` | the image satisfies all of the above |
| Open handles (`openfile.go`) | extents at the time of opening | `ReadAt` | reads the file that was opened |

How they interact: a mutator calls `begin`, which binds two `btreeWriter`s (the
catalog's and the extents tree's) and one allocator; both trees and the file's
data draw blocks from that allocator. Growing either tree may insert into the
extents tree, in the middle of an insertion into either. Tree edits reach the image at once, the
bitmap only at `commit`, which then reopens the readers and calls `Sync`. The
mutators themselves read the catalog through the *reader* of the volume, whose
fork was fixed when it was opened.

Hard behaviours: an error between two edits (nothing is undone); growth in the
middle of an operation; a crash between commits; operations that continue after
an error; structures at their exact limit (bitmap full, node full, eight
extents). They are listed one by one under `hazards` in `PROJECT.json`.

## 2. Modules

| Module | Models | Notes |
|---|---|---|
| `Bitmap` | what the searches of `alloc.go` return, as functions of a bitmap | a bitmap is the set of set bits; shared by `BlockAlloc`, `FragmentScan`, `Volume` |
| `BlockAlloc` | the bitmap across transactions | `owned`/`saved` are history: the extents callers hold |
| `FragmentScan` | the loops of `allocContiguous` and `allocFragments`, one action per iteration | starts on any bitmap and any count |
| `NodeMap` | node allocation and file growth of one B-tree file | capacities are constants, so both trees are instances |
| `BTree` | the engine and the readers | one action per node or level; record sizes are constants per key |
| `CatalogKeys` | how names are folded, ordered and matched, and the searches that use both | the names of one folder, under every division into leaves |
| `Mkfs` | the layout arithmetic of the formatter | operators only |
| `Forks` | extent lists: writing, overflow records, growth of the trees' forks, reading and open handles | composes `BlockAlloc` and `Mkfs`: each step that takes or frees blocks conjoins the allocator's action |
| `Volume` | the mutators, transactions, `Sync`, failures and restarts | an operation is a list of steps; a step ends where the code can return an error |
| `FileSystem` | what a volume promises its callers | `Volume` implements it (property `Implements`) |
| `BitmapProofs`, `ForksProofs`, `FragmentScanProofs`, `NodeMapProofs`, `CatalogKeysProofs`, `BTreeProofs`, `BTreeSearchProofs`, `VolumeProofs` | theorems | section 5 |
| `MC*` | constants for TLC | |

**BlockAlloc.** `newAllocator`, `Allocate` (`allocFragments`), `Release`
(`freeRun`), `flush`, and `Abandon`, which is an operation returning an error
before any record has been written. `Allocate` is atomic because the allocator
is private to the transaction; `FragmentScan` justifies using `allocFragments`
of `Bitmap` for what the loops do.

**NodeMap.** Variables are the header fields, the set of set bits, the map-node
chain and the number of nodes the fork covers. `allocNode` of the code is five
actions, one per outcome. `growFork` is atomic except that its two failures
differ: without blocks nothing changed, without a slot for the map node the
fork is longer and the header is not. That one map node is enough is the
assumption `GrowNodes <= MapNodeBits` (8 against 32,624 at the node size mkfs uses).
The volume may start with any number of free clumps up to `MaxClumps`, none
included. `RecycledBlocks` says whether clumps may hold data of deleted files.

**BTree.** Keys are numbers in key order, `ParentOf` their parent ids. Every
step that stores several nodes does so through `Stored`, which reproduces
`storeNode`: the node is zeroed first, and the first content that does not fit
ends the sequence with an erased node. How many nodes a
file may hold is chosen from `Pools` at the start (`pool`); how the pool is
kept and grows is `NodeMap`'s business. `Starts` is what mkfs leaves in the
tree: nothing for the extents tree, the root folder's record and thread for the
catalog. Two constants describe the clients. `FromBelow`: whether a key smaller
than all others is inserted into a tree that is not empty. In the catalog only
SetLabel does that, since the root folder's two records are its smallest keys; in
the extents tree the overflow records of the trees themselves (ids 3 and 4) lie
below those of every file.
`AfterFailure`: whether deletions go on after an operation has
returned an error. Sizes count what a record adds to a node, its slot in the offset
table included, and `NodeSize` and `MinFill` leave out what an empty node occupies.
`Roomy` says how long records are at most: three fit a node, one alone underflows, and a
node too full to be merged with one that underflows has two records left when it gives one
away. Catalog records take at most 768 bytes; nodes have 4096 (`mkfs.go:44`) or more.

**Forks.** A call in progress is a frame with the steps it still has to take;
`stack` holds the frames, innermost first. `createFile` allocates and writes the
data, inserts the overflow records, the catalog record and the thread;
`removeFile` frees the inline runs, drops the overflow records, frees their runs
and unlinks. An insertion may find its tree without a free node (when, is
`NodeMap`'s and `BTree`'s business, so it is a choice here): `growFork` takes a clump, writes
the descriptor and pushes a frame with the overflow records of the whole list,
each of which is again an insertion into the extents tree. One growth per
insertion is allowed: the code's clump is 8 nodes, and an insertion splits at
most one node per level. The trees are maps from keys to extents; `begin` binds the
writers to the lists that `openTrees` assembles. Bytes are pairs of a file and
a position, so that a window shows whose bytes it holds. `given` is history.
`SelfSpill` says whether the extents file itself may need more extents than its
descriptor holds; then `low` and `leaf` of a frame are the leftmost leaf as
the waiting insertion had loaded it. An operation that fails after it has edited
anything ends the behaviour (`torn`): what such an image is worth is `Volume`'s question.

**CatalogKeys.** A name is a sequence of code units; `Folded` is the sequence of
units that the calls of `nextFolded` return, NULs left out. `dir` is the sequence of a folder's names in leaf order, `binary`
the tree's key comparison. `findLeaf` gives every leaf that a descent may end in,
as the range of the folder's records it holds: where leaves begin depends on the
lengths of all the records around them, so any division consistent with the
descent can occur. `lookup` scans from there to the end of the folder, as the
reader does, `deleteByKey` the one leaf only, as the writer does. `SameLetter`
is `strings.EqualFold` on the letters of the instance.

**Mkfs.** One operator per quantity that `layout` computes, the regions
`markUsed` marks, the counter it advances and the header's `freeBlocks`.

**Volume.** `img` and `disk` are whole images: catalog, threads, overflow
extents, blocks of the trees' forks, bitmap, counters and data blocks. `op.todo`
is the rest of the operation. Insertions may succeed, make the tree grow
(`InsertGrows`) or fail (`InsertNoSpace`); valence updates may fail after growth
because `threadKeyOf` searches through the outdated reader (`stale`). `Sync`
is atomic; it may be refused. `Restart` may happen at any step. `shown`, `torn`
and the field `holds` of a record are history variables. Sizes are whole
blocks; modes, dates, `writeCount` and Finder bytes are left out.

**FileSystem.** A tree of entries with `Create`, `Remove` and `Move`, one
entry at a time, and a stable copy. `WriteFile` over a file and `Truncate` are a
`Remove` followed by a `Create`, because that is what the code commits: callers
must be prepared to find neither the old nor the new file after a crash or an
`ErrNoSpace`.

## 3. Runs

Passing runs:

| Run | Instance | Shows |
|---|---|---|
| `fragment_scan` | all 128 bitmaps of 7 blocks, requests 0 to 8 | the loops compute what `Bitmap` says, mark what they return, undo what they cannot complete, append in ascending order, and end |
| `node_map` | 2 nodes, clumps of 3, 4 header bits, 4 bits per map node, 0 to 4 clumps | bits, counts and capacity stay exact across growth, several map nodes and both failures of growth; free nodes are erased, on blocks that were never used |
| `btree` | 9 keys, nodes of three records, a pool of 5 or 9 nodes, catalog and extents tree, fair | three levels, all splits, merges, rotations and root changes, and insertions that fail between two levels: search, listing, separators, links, accounting, compactness, a sibling that can always help, no record lost; every operation returns |
| `forks` | 12 blocks of two bytes, descriptors of 2 extents, clumps of 1 block, files of 0, 1 and 5 bytes, 3 ids, fair | `NoCrossLink`, `BitmapExact` and `FreeBlocksExact` of the allocator under the driver's own calls, and that they use it as `BlockAlloc` allows (`UsesAllocator`); extent lists, overflow records and byte windows are exact; the bitmap marks the blocks readers find in the forks and no others (`BlocksAccounted`); growth inside growth ends |
| `catalog_keys` | 17 names with the letters at the edges of the fold table, folders of 3, both key comparisons | `FoundAgain` |
| `volume` | 2 names, 6 blocks (2 reserved), files up to 3 blocks, one inline extent, 2 ids, trees grow by two blocks | threads, counts, blocks, ids, contents and reachability agree whenever the image is visible; nothing is half done; refinement of `FileSystem` |

`CHECK_DEADLOCK FALSE` is set where a model really stops: a finished scan, a
tree whose operation failed (`AfterFailure` is false in `btree`), and a volume
whose ids are used up or that a failed operation left half edited (`forks`).

Why the bounds are enough. A node of three records underflows with one and
overflows with four, so eight keys give trees of three levels, and a ninth makes
every branch of the rebalancing reachable. A pool of 5 nodes is exhausted
between the split of a leaf and the insertion of its index record, a pool of 9
is ample. One inline extent instead of eight, and four free blocks in two runs, make
both fragmentation and overflow records happen with files of three blocks. Two
ids allow a folder with a child, two files, and an overwritten file. In `forks` a file
of three blocks in three runs overflows a descriptor of two extents, and with
clumps of one block each tree overflows after two growths: a fork with two groups
of records, records of a file and of the catalog together, three nested calls and
an open handle whose file is gone all occur. Blocks of two bytes let windows begin
and end inside a block. Three names are enough for a leaf with a neighbour on
each side. In
`NodeMap` only the way growth steps meet the end of the bitmap matters. In
`node_map` the first clump steps over the end of the header's bits and the
second ends exactly where the map node's end, so that the third finds no slot.

Fairness. `FragmentScan` has weak fairness of its loops and `BTree` weak
fairness of `Continue`, the steps after an operation has begun: both run on the
caller's goroutine, which does nothing else until they return. `Forks` has weak
fairness of `Calls`, the steps of the calls in progress, for the same reason.
Nothing is assumed about whether clients call.

Runs that expect a violation, each with a finding in `PROJECT.json`:

| Run | Property | What the code does |
|---|---|---|
| `node_map_cap` | `NoHardCap` | a fork that ends where the header bitmap ends cannot grow |
| `btree_relabel` | `SearchExact` | inserting below a leaf's first key leaves the separator stale; SetLabel does that, and a later split misplaces an index record |
| `btree_split` | `NoRecordLost` | a split by count leaves a half that does not fit, and loses it |
| `volume_grow` | `FailureKeepsBooks` | the valence update after growth reads the old fork and fails; the entry is not counted and the tree's blocks stay marked free |
| `forks_self` | `Resolves` | an insertion that waited for the extents file to grow stores the leaf it had loaded before over the record written meanwhile |
| `keys_latin` | `FoundAgain` | the even/odd rule of the fold table is wrong where Latin Extended-A has its capitals on odd numbers |

The passing runs exclude these causes by constants that say so (`FromBelow`,
record sizes, `SelfSpill`, the alphabet), and `NoHardCap` is not a property of
`node_map`. `volume` stops at an image that a failed operation left half edited
(constraint `Untorn`), which `volume_grow` examines.

Other departures show when a constant of a passing configuration is changed;
they have no run of their own:

* `RecycledBlocks = TRUE` breaks `UnusedErased`: `growFork` (`btgrow.go:84`)
  counts the nodes of a clump as free without erasing them, and the blocks of
  deleted files keep their data. `btgrow.go:55` names what fsck reports then.
* `AfterFailure = TRUE` with a pool of 5 breaks `NoRecordLost`: the failed
  insertion leaves a leaf that no index record points to, and a merge of its
  neighbours (`btdelete.go:242`) takes it out of the chain.
* Index records of different lengths let `updateParentKey` (`btdelete.go:300`)
  overflow an index node: the deletion fails and the node is left zeroed.
* `RenameIntoSelf = TRUE` breaks `Reachable`: `Rename` (`write.go:484`) accepts a new
  path below the old one.
* `Fold <- Folded` breaks `ThreadsAgree`: `SetFinderInfo` (`finderinfo.go:102`)
  puts the record back under the caller's spelling, and leaves the thread alone.

* In `CatalogKeys` the two notions of equality also part on NUL, which the order
  skips and `nameEqual` does not; on U+0130/U+0131, an even/odd pair of different
  letters; on the pairs that `strings.EqualFold` joins and `foldU16` leaves alone
  (Greek, Cyrillic; "k" with the Kelvin sign). The README declares the fold table a
  subset. The comment on `compareCatalogKey` (`catalog_search.go:15`) describes an older
  order, by `strings.ToLower`.
* With `SelfSpill = TRUE` and a leftmost leaf that is full, recording a new group of
  the extents file needs a node of that same file: each growth asks for another one,
  until `ErrNoSpace`. `btgrow.go:192` expects the recursion to end "once a contiguous
  run is found", but runs are never merged.

## 4. Mutants

Operators named `Bug...` in the component modules are mutated forms of the
definition that follows them: a dropped guard, a missing reset, an update of
the wrong field. No specification uses them; each shows that a property would
notice the defect.

## 5. Proofs

All theorems hold for every value of the constants that the named assumptions
admit, which are those of the code: a volume of at least one block; reserved
blocks inside it; a header bitmap that covers the initial nodes; a map node that
covers a clump; records no longer than `Roomy` says; a volume that `layout` accepts, for
`Forks`. Twenty-one theorems (twelve about the B-tree and five about the forks, where it is the
same one each time, and two of the former have two more) have a hypothesis besides; each is named
below, with what the code does where it fails.

**The allocator.**

* `BitmapProofs`: what the searches of `Bitmap` return, for the modules that
  use them. The runs are inside the bitmap, disjoint and free before the call
  (`ContiguousSound`, `FragmentsSound`), they have as many blocks as were asked for
  (`FragmentsExact`), the maximal runs cover the free blocks (`RunsCover`), and
  the blocks of a fork can be counted off one by one (`Ranks`).
* `ForksProofs`, first part: `TypeOK`, `NoCrossLink`, `BitmapExact` and
  `FreeBlocksExact` are invariants. `NoCrossLink` alone is not inductive: that
  the next extent avoids the old ones follows from `BitmapExact`, and that an
  abandoned transaction can be followed by another one from `ClosedMeansSaved`.
* `FragmentScanProofs`: `TypeOK`, `MarksWhatItReturns` and `FailsOnlyWhenFull`
  are invariants of the loops, for every bitmap and request. The inductive
  invariant has one part per loop: the run measured so far is free (`Searching`,
  `Walking`), what was appended accounts for the difference between the bitmap
  and the given one and for `count - remaining` blocks (`Taken`), and when the
  walk ends with blocks missing every free block has been taken (`Checking`).
  On top of it a second one, `Placed`, gives `ReturnsFirstFit` (so `SucceedsExactly`,
  which the run checks, is both) and `Ascending`:
  no run that the first loop has passed is long enough (`NoFitPassed`), the runs
  taken lie apart from each other (`Apart`) and behind the walk (`Behind`), and no
  free block before the last one taken was passed over (`Lowest`). Free extents that
  lie apart and have no free neighbour are the maximal runs, and a set of free
  blocks with none below left out is `FirstFree`: so the loops return exactly what
  `allocFragments` of `Bitmap` says, which `BlockAlloc`, `Forks` and `Volume` use.

**The node map.**

* `NodeMapProofs`: `TypeOK`, `BitsExact`, `FreeNodesExact` and `MapCovers` are
  invariants. Two facts are added for the induction: `Clumped` (the total is no
  more than the clumps taken allow), which bounds growth, and `AtTheCap` (the fork is
  longer than the tree only when the bitmap is exactly full), without which the
  node count after a failed growth could not be excluded from drifting.
  `UnusedErased` holds as long as `growFork` takes blocks that were never
  written (`ErasedOnBlankBlocks`, hypothesis `~RecycledBlocks`); with recycled blocks
  it fails, see section 3.

**The catalog's order of names.**

* `CatalogKeysProofs`: `FoundAgain`, for every set of names and every size of
  folder. The inductive invariant is that the records of the folder are strictly
  ascending. It rests on `compareU16` being a total order of the folded names, and on
  the fact that in an ascending folder whichever leaf a descent ends in either holds
  the record or ends before it. The hypothesis is that the keys are
  compared as they are (HFSX), or that `foldU16` and `strings.EqualFold` agree on
  the names of the volume (`FoldingsAgree`). The names of `catalog_keys` satisfy it;
  `keys_latin` shows what happens to names that do not.

**The B-tree engine.**

* `BTreeProofs`: the engine keeps a search tree (`TreeKept`), for every set of keys, every
  size of records that `Roomy` admits, every node size and pool. `IInv` is inductive. It
  speaks of every step of every insertion and deletion, as long as no operation has
  failed (after a failure the code leaves nodes as they are, see section 3), and
  provided that no key is inserted below all others (`~FromBelow`; `btree_relabel` shows what
  happens otherwise).
  A tree is not taken apart by recursion from the root, which would need induction over
  data, but seen level by level (`View`): of each node in use its height, its set of
  records, its first key and its links. `Good(t, top, orphans, stale)` says that every node
  has records, one per key (`Filled`); that the nodes of a level divide the keys among
  them (`Apart`); that the links are the neighbours in key order (`Linked`); that each
  index record points to a node one level below whose first key it bears (`Indexed`);
  that each node but the root has its record (`Owned`); and that the root is alone on
  top (`Topped`). The two sets are what an
  operation in progress still owes: the node a split made whose parent does not
  know it yet, and the node whose first key has changed. `Holds` relates the leaves to the
  history variable `contents`; `Wide` says that nodes have two records, all but
  a root that is a leaf and the one that is about to be rebalanced; `Ends` that the header's
  `firstLeaf` and `lastLeaf` are the ends of the chain;
  `Placed` what `path`, `childIdx` and `level` have to do with the tree.
  Each structural edit is one lemma about views: a node split in two, a record inserted, removed or
  relabelled, two nodes merged, a record moved, a root put on top or taken away.
  The descent is the one place where induction is needed, over the height, as a set of
  naturals without a least element (`Inducts`).
* `HelpAlwaysAtHand`: `SiblingHelps` is a consequence. A node that underflows has a sibling,
  since its parent has two records, and by the sizes one that cannot be merged can spare one. So the
  comment at the last branch of `rebalance` is right, for records of any lengths.
* `BTreeSearchProofs`: what clients see between two calls follows too, for every tree
  no operation has failed on:
  `IndexKeysAlwaysExact`, `LevelsAlwaysLinked`, `AlwaysCompact`, `AccountingAlwaysExact`,
  `SearchAlwaysExact` and `ListingAlwaysExact` state `IndexKeysExact`, `LevelsLinked`, `Compact`,
  `AccountingExact`, `SearchExact` and `ListingExact` of `BTree`. `IInv` describes a level as
  a set of nodes; those properties read it as the code does, as a sequence, from
  the root down (`Levels`) or along the links (`ChainFrom`). `Ranked(s, T, f, S)` says that
  the sequence `s` lists the set `S` once, by ascending `f`. Concatenating ranked
  sequences of ascending sets gives a ranked one (`Flattened`), so `Levels` ranks
  the nodes of each level by their first keys (`LevelsRanked`), the chain from a
  leaf is the rest of the lowest level (`ChainIs`), its records rank their keys
  (`ChainRanked`), and what a scan passes over and what a listing selects are ranked again
  (`ScanRanked`, `OnlyRanked`). Nodes at two places in a row of a level are
  neighbours in `Linked` (`NextInLevel`), hence the links.
* `TypeCorrect` there: the fields of header and nodes stay in range at every step, as long as no
  operation fails. The height of the tree is bounded by the number of nodes, since every
  level has one (`HeightBound`).
* What a failure leaves behind, there too. `ChainAlwaysWhole`: the chain of leaves holds every
  key at every step, whatever the sizes, since a split links its new node before the level
  above knows it. `NoRecordEverLost` and `AlwaysTypeCorrect` state
  `NoRecordLost` and `TypeOK` of every state, after an error too, with two hypotheses more: records of one
  size (`SameSizes`), as those of the extents tree, and clients that stop at the
  first error (`~AfterFailure`). The run `btree` satisfies both. With records of one size
  each half of a split, each merged node and each parent with a corrected key
  has no more records than a node that did fit (`FewerFit`), so that every store succeeds and
  the one error left is a split that finds no node for the level above (`FailsForSpace`), which
  writes nothing more. `Halted` says of the tree after it what the theorems need. Neither hypothesis can be dropped:
  `btree_split` loses records of different sizes, and section 3 says what deletions after a
  failure do.

**The formatter.**

* `ForksProofs`, second part: for every volume that `layout` accepts, and every block size, node
  size and reservation of at least the two nodes a catalog needs: the regions are disjoint and inside the image
  (`RegionsFit`), the bitmap has a bit for every block (`BitmapHoldsVolume`), the
  catalog holds its two nodes even when clamped (`CatalogHoldsTree`), and the count
  of used blocks is the number of bits set, so the header's `freeBlocks` cannot
  wrap (`UsedBlocksExact`). The argument needs no induction: rounding up holds what
  was divided (`CeilDivHolds`), the sizes are positive (`Sizes`), and each region
  begins where the one before it ends (`Ordered`). So the allocator can start from
  the image that `Mkfs` leaves: its blocks are blocks of the volume, and its free count is
  the one `flush` would write (`FormattedCountsAgree`).

**Forks and extents** (`ForksProofs`, third part). For every layout, every number of
extents in a descriptor, every clump and every set of file sizes:

* What lists are made of. `Sorted` ranks a set by its keys (`Ranked`); running
  counts (`BlocksUpTo`) are summed by a function on `0 .. Len`, and facts about
  all its values come from sets of naturals without a least element; the groups
  of a list are its overflow part cut in pieces, keyed by strictly ascending counts.
  So a reader that finds the records of a list joins exactly its overflow part (`Assembled`),
  and a read of a window passes extent by extent over bytes that are the file's
  (`PiecesExact`).
* `ForksOrderly`: `FInv` is inductive, with or without `SelfSpill`. `given` is the list of runs each
  fork was given. `FInv` says that lists share no block (`GoodLists`), that descriptors and the bytes in
  the store are those of the lists (`Described`), that an open handle has the list
  of its file as long as the file exists (`Handled`), that all calls but the outermost
  put records of a tree's own extents (`Serves`), and, per phase of the outermost
  one, how far it has got: `Starting`, `Filing(j)` (j overflow records are in the tree), `Closing`,
  `Freeing(j)` and `Emptying(j)` (j runs have been freed, before and after the records were
  dropped). The extents held are those of the lists but for the runs already freed (`HeldBy`).
  Growth happens inside any of the inserting phases and leaves all of this as it is, since it adds a
  run that nobody holds and puts only records of trees. An
  operation that failed half way (`torn`) ends the model, as in the run.
* Three consequences without a hypothesis. `ForksUseAllocator`: a step of `Forks` is a step
  of `BlockAlloc` (the refinement mapping is the identity), so what `removeFile` frees
  was handed out and is still held; hence `ForksNeverCrossLinked`, `ForksKeepBitmap` and
  `ForksKeepCount`, which are the theorems about `BlockAlloc` carried over.
  `WindowsAlwaysExact`: `WindowsExact`, of new handles and old ones.
* `TreesOrderly` adds the trees themselves, with the hypothesis `~SelfSpill` (the extents file
  never needs more extents than fit in the header; `forks_self` shows what happens
  otherwise). Then calls nest at most three deep: the operation, a growth of the
  catalog, a growth of the extents file inside that one. `TInv` says that the trees' descriptors
  and the writers' lists are the lists given (`Drawn`), and that the catalog's records are complete when no
  tree is growing (`Shallow`), or up to the j-th with none beyond the list while the growth
  puts them again (`Deep`, `GrowingCatalog`): the earlier, shorter list had a prefix of the same keys, so each is
  replaced and none is left over.
  `AlwaysResolves`, `NeverStrays` and `BlocksAlwaysAccounted` (`Resolves`, `NoStrays`,
  `BlocksAccounted`) follow between operations. `ForksTypeCorrect` needs one more
  invariant, `SInv`: records have between one extent and as many as fit.

**The volume** (`VolumeProofs`). All of the volume's invariants, and its refinement of
`FileSystem`, are proved, for every set of names, number of blocks, size of inline
extent lists and number of ids, with growth, failures and restarts at any step. None of the
properties is inductive: each speaks of images that someone can look at, and the
operations pass through images of which it is false. The inductive invariants say,
for each list of steps an operation may still have to take (`Todos`), what the
operation has done so far. They build on each other:

* The tree of entries. `Typed` gives the types; it knows the lists, and that an
  operation that will hand out an id has checked that one is left. (`TypeOK`
  itself says that no counter goes below zero, which needs `Counts`.) `Ids`
  adds that the ids in an image and in a record held out of the catalog are
  distinct and below the next one, on the store as well as in memory; `IdsFresh`
  follows. `Tree` relates the image to the tree of the last commit: `Progress`
  gives, per list, the edits already made, and what the operation has checked about the
  names it uses still holds. `NothingHalfDone` follows, since an idle
  volume has made all of its edits or none; and the refinement `Implements`, where a step is an
  abstract operation exactly when it commits. `VolumeImplements` has the hypothesis
  `[]Whole`: no operation has failed half way. The code has no undo, so what a
  torn image shows is not one of the trees of `FileSystem`; `volume_grow` examines it.
* The books kept beside the tree. `Reach` (every folder can be reached from the root, and an
  operation that moves a folder moves it to one reached without it) gives
  `Reachable`, provided that callers do not move a folder below itself
  (`~RenameIntoSelf`; `Rename` does not check). `Threads` (a thread leads to its
  record or to another spelling of its name, but for the record between the two
  edits of an operation) holds for any comparison of names, and gives
  `ThreadsAgree` where different names are different keys, as on HFSX;
  elsewhere `SetFinderInfo` leaves a thread with the old spelling. `Store` follows
  the blocks: those of the catalog's records, of the record held out of the catalog
  and of the trees are disjoint, the bitmap in the allocator's memory marks
  them, and each fork holds the data that was written. It gives `BlocksAgree` and
  `RoundTrips`. `Counts` says by how much each valence and counter is ahead or
  behind during each list, and gives `CountsAgree` and `TypeOK`. `TypeCorrect` is
  about images that are not torn: an entry that a failed operation left uncounted
  can still be deleted, which takes the file count below zero. The run stops at a
  torn image as well.

**Only model-checked.**

* Liveness (`Terminates`, `Returns`, `CallsReturn`): fairness is out of the prover's reach.
* `TypeOK` of `BTree` after a failed operation when records differ in size or deletions go on.
  (`NoRecordLost` is false then, see section 3.)
* `Forks` when the extents file spills into its own tree: `Resolves` is false then (`forks_self`),
  and the theorems under `~SelfSpill` say nothing about it.

## 6. Not modelled

* Byte layouts: parsing and encoding of headers, records and nodes (`catalog.go`,
  `volume.go`, most of `mkfs.go`), and the defences against hostile images in `fork.go`.
* Where the nodes of a tree lie in its fork while the fork grows (`Forks` checks the
  lists, `NodeMap` the counts), and so the opening of an extents tree that has spilled
  through the part of its fork that fits in the header (`hfsplus.go:101`).
* Torn whole-image writes in `Sync`: the code has no defence against them.
* The wrap of `nextCatalogID` after 2^32 ids.
* Listing, `Stat` and path lookup of the read-only side beyond what the writers use.
* Resource forks, which the driver does not handle.
* `format_darwin.go` and `format_other.go`, which run `hdiutil`.

## 7. Plan

Done, in this order: `Bitmap`, `BlockAlloc`, `FragmentScan`, `NodeMap`, `BTree`,
`FileSystem`, `Volume`; then `Mkfs`, `Forks`, `CatalogKeys`; the theorems of section 5,
those about `Volume`, `CatalogKeys`, the placement of fragments, `BTree` and `Forks` last.

Next: which records a tree keeps when a split by count loses a half (`btree_split`), and how a
split by bytes would have to choose the middle for `NoRecordEverLost` to hold without
`SameSizes`.
