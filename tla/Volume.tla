------------------------------- MODULE Volume -------------------------------
(***************************************************************************)
(* The write operations of a volume (write.go, finderinfo.go) and their    *)
(* transaction: begin loads the allocation bitmap, the steps edit the      *)
(* in-memory image in place, commit writes the bitmap back and reopens the *)
(* trees, and Sync copies the image to the backing store.  Nothing undoes  *)
(* the edits of an operation that returns an error part of the way.        *)
(*                                                                         *)
(* An operation is the list of the steps it still has to take; a step ends *)
(* where the code can return an error.  The catalog and the extents tree   *)
(* are maps here (module BTree models how they are kept), their forks a    *)
(* set of blocks.  File contents are counted in whole blocks, and the      *)
(* folder counts are those of an HFSX volume.                              *)
(***************************************************************************)
EXTENDS Bitmap, Sequences

CONSTANTS
    Names,            \* file names, which are also the volume labels
    Fold,             \* the name that nameEqual compares a name as
    Values,           \* what a block of data may hold
    Zero,             \* a block of zeros
    MaxSize,          \* bound: blocks of the largest file written
    LastCNID,         \* bound: the last catalog id handed out
    Reserved,         \* blocks mkfs gives to the headers and special files
    InlineExtents,    \* extent descriptors in a catalog record (eight)
    GrowBlocks,       \* blocks growFork adds to a tree's fork
    RenameIntoSelf    \* whether callers move a folder below itself

RootParent == 1       \* cnidRootParent
Root       == 2       \* cnidRootFolder
FirstUser  == 16      \* firstUserCatalogID

ASSUME VolumeAssumption ==
    /\ Names # {}
    /\ Reserved \subseteq Blocks
    /\ Fold \in [Names -> Names]
    /\ MaxSize \in Nat
    /\ InlineExtents \in Nat \ {0}
    /\ GrowBlocks \in Nat \ {0}
    /\ LastCNID \in Nat /\ LastCNID >= FirstUser
    /\ RenameIntoSelf \in BOOLEAN

UserIds == FirstUser .. LastCNID
Dirs    == {RootParent, Root} \cup UserIds
Keys    == Dirs \X Names
NoKey   == <<0, 0>>

NoRec == [kind |-> "none", id |-> 0, val |-> 0, sub |-> 0,
          ext |-> {}, size |-> 0, holds |-> <<>>]

FolderRec(id) == [kind |-> "folder", id |-> id, val |-> 0, sub |-> 0,
                  ext |-> {}, size |-> 0, holds |-> <<>>]

\* "holds" is not in the record: it remembers what the caller wrote.
FileRec(id, ext, data) ==
    [kind |-> "file", id |-> id, val |-> 0, sub |-> 0,
     ext |-> ext, size |-> Len(data), holds |-> data]

Data == UNION {[1 .. n -> {v}] : n \in 0 .. MaxSize, v \in Values}

-----------------------------------------------------------------------------
VARIABLES
    img,      \* the in-memory image
    disk,     \* the backing store
    op,       \* the operation in progress, NoOp when there is none
    alc,      \* its allocator's bitmap
    stale,    \* the catalog reader's fork is shorter than the catalog
    shown     \* the entries of the catalog as the last commit left them

vars == <<img, disk, op, alc, stale, shown>>

NoOp == [todo |-> <<>>, key |-> NoKey, old |-> NoKey, rec |-> NoRec,
         spill |-> {}, data |-> <<>>]

Idle == op = NoOp

Named(cat) == {k \in Keys : cat[k].kind # "none"}

Children(cat, id) == {k \in Named(cat) : k[1] = id}

\* S holds the root and, with a folder, every folder in it.
Closed(cat, S) ==
    /\ Root \in S
    /\ \A k \in Named(cat) :
          k[1] \in S /\ cat[k].kind = "folder" => cat[k].id \in S

\* The folders resolveParent can reach from the root: the least closed set.
Folders(cat) == {d \in Dirs : \A S \in SUBSET Dirs : Closed(cat, S) => d \in S}

\* lookupChild: the record that a key finds, in the spelling it has there.
lookupChild(cat, k) ==
    {l \in Named(cat) : l[1] = k[1] /\ Fold[l[2]] = Fold[k[2]]}

\* The keys an absolute path can name.
Paths == {k \in Keys : k[1] \in Folders(img.cat)}

Extents_(i, k) == i.cat[k].ext \cup i.ovf[i.cat[k].id]

\* The block that holds the n-th block of a fork: the runs ascend.
NthBlock(E, n) ==
    CHOOSE b \in AllBlocks(E) : Cardinality({a \in AllBlocks(E) : a < b}) = n - 1

\* dataForkFor and readAll: the fork's blocks in order, cut to its size, which
\* its extents must cover.
Covered(i, k) == i.cat[k].size <= Cardinality(AllBlocks(Extents_(i, k)))

readAll(i, k) ==
    LET E == Extents_(i, k)
    IN  [n \in 1 .. i.cat[k].size |-> i.blk[NthBlock(E, n)]]

\* Defect: every run starts from the first block of the data.
BugWriteRestarts(blk, runs, data) ==
    [b \in Blocks |->
        IF b \in AllBlocks(runs)
        THEN LET r == CHOOSE r \in runs : b \in ExtentBlocks(r)
             IN  data[b - r.start + 1]
        ELSE blk[b]]

\* writeForkData: the n-th block of the data to the n-th block of the runs.
writeForkData(blk, runs, data) ==
    [b \in Blocks |->
        IF b \in AllBlocks(runs)
        THEN data[Cardinality({a \in AllBlocks(runs) : a <= b})]
        ELSE blk[b]]

Resize(c, n) == [i \in 1 .. n |-> IF i <= Len(c) THEN c[i] ELSE Zero]

Inline(runs) ==
    {e \in runs :
        Cardinality({f \in runs : f.start < e.start}) < InlineExtents}

adjustParentValence(cat, thr, parent, d, fd) ==
    [cat EXCEPT ![thr[parent]].val = @ + d, ![thr[parent]].sub = @ + fd]

FolderDelta(rec) == IF rec.kind = "folder" THEN 1 ELSE 0

\* An entry as callers see it: valence, counts and extents are left out.
Entry(r) == [kind |-> r.kind, id |-> r.id, holds |-> r.holds]

View(cat) == [k \in Keys |-> Entry(cat[k])]

MkfsImage(label) ==
    [cat     |-> [k \in Keys |-> IF k = <<RootParent, label>>
                                 THEN FolderRec(Root) ELSE NoRec],
     thr     |-> [d \in Dirs |->
                     IF d = Root THEN <<RootParent, label>> ELSE NoKey],
     ovf     |-> [d \in Dirs |-> {}],
     fork    |-> Reserved,
     bitmap  |-> Reserved,
     free    |-> freeCount(Reserved),
     files   |-> 0,
     folders |-> 0,
     next    |-> FirstUser,
     blk     |-> [b \in Blocks |-> Zero],
     torn    |-> FALSE]   \* not in the image: some operation failed half way

Init ==
    /\ img = MkfsImage(CHOOSE n \in Names : TRUE)
    /\ disk = img
    /\ op = NoOp
    /\ alc = {}
    /\ stale = FALSE
    /\ shown = View(img.cat)

-----------------------------------------------------------------------------
(* The operations: checks, then the steps they will take. *)

DeleteSteps == <<"remove", "leave", "commit", "sync">>
CreateSteps == <<"alloc", "overflow", "record", "thread", "count", "enter",
                 "commit", "sync">>
\* Defect: MkDir returns without a commit.
BugMkDirUncommitted == <<"record", "thread", "count", "enter">>

MkDirSteps  == <<"record", "thread", "count", "enter", "commit", "sync">>
\* The old file is deleted and committed before the new one is begun.
OverwriteSteps ==
    <<"remove", "leave", "commit", "sync", "begin",
      "alloc", "overflow", "record", "thread", "count", "enter", "commit",
      "sync">>
RenameSteps == <<"unlink", "record", "thread", "commit", "sync">>
MoveSteps   == <<"unlink", "record", "thread", "leave", "enter", "commit",
                 "sync">>
FinderSteps == <<"rekey", "record", "commit", "sync">>

\* begin: bind the writers and load the bitmap, then take the steps.
Start(todo, key, old, rec, data) ==
    /\ op' = [todo |-> todo, key |-> key, old |-> old, rec |-> rec,
              spill |-> {}, data |-> data]
    /\ alc' = img.bitmap
    /\ UNCHANGED <<disk, stale, shown>>

\* Defect: the old file is removed and the new one made in one transaction.
BugOverwriteAtOnce(k, l, data) ==
    /\ img.cat[l].kind = "file"
    /\ img.next <= LastCNID
    /\ Start(<<"remove", "leave">> \o CreateSteps, k, l, img.cat[l], data)
    /\ UNCHANGED img

Overwrite(k, l, data) ==
    /\ img.cat[l].kind = "file"
    /\ img.next <= LastCNID
    /\ Start(OverwriteSteps, k, l, img.cat[l], data)
    /\ UNCHANGED img

NewFile(k, data) ==
    /\ lookupChild(img.cat, k) = {}
    /\ img.next <= LastCNID
    /\ Start(CreateSteps, k, NoKey, NoRec, data)
    /\ UNCHANGED img

WriteFile(k, data) ==
    NewFile(k, data) \/ \E l \in lookupChild(img.cat, k) : Overwrite(k, l, data)

\* The target is the data of a link, whose name must be new.
Symlink(k, data) == NewFile(k, data)

Truncate(k, n) ==
    \E l \in lookupChild(img.cat, k) :
        Covered(img, l) /\ Overwrite(k, l, Resize(readAll(img, l), n))

MkDir(k) ==
    /\ lookupChild(img.cat, k) = {}
    /\ img.next <= LastCNID
    /\ img' = [img EXCEPT !.next = @ + 1]
    /\ Start(MkDirSteps, k, NoKey, FolderRec(img.next), <<>>)

DeleteFile(k) ==
    /\ \E l \in lookupChild(img.cat, k) :
          /\ img.cat[l].kind = "file"
          /\ Start(DeleteSteps, l, l, img.cat[l], <<>>)
    /\ UNCHANGED img

\* Defect: a folder with children is deleted.
BugDeleteDirFull(k) ==
    /\ \E l \in lookupChild(img.cat, k) :
          /\ img.cat[l].kind = "folder"
          /\ Start(DeleteSteps, l, l, img.cat[l], <<>>)
    /\ UNCHANGED img

DeleteDir(k) ==
    /\ \E l \in lookupChild(img.cat, k) :
          /\ img.cat[l].kind = "folder"
          /\ Children(img.cat, img.cat[l].id) = {}
          /\ Start(DeleteSteps, l, l, img.cat[l], <<>>)
    /\ UNCHANGED img

\* The folders at or below k.
Below(k) ==
    IF img.cat[k].kind # "folder" THEN {}
    ELSE Folders(img.cat) \ Folders([img.cat EXCEPT ![k] = NoRec])

Rename(k, new) ==
    /\ lookupChild(img.cat, new) = {}
    /\ \E l \in lookupChild(img.cat, k) :
          /\ RenameIntoSelf \/ new[1] \notin Below(l)
          /\ Start(IF l[1] # new[1] THEN MoveSteps ELSE RenameSteps,
                   new, l, img.cat[l], <<>>)
    /\ UNCHANGED img

\* The key of the root folder's record, whose name is the label.
Label == Children(img.cat, RootParent)

SetLabel(n) ==
    /\ \E k \in Label :
          /\ n # k[2]
          /\ Start(RenameSteps, <<RootParent, n>>, k, img.cat[k], <<>>)
    /\ UNCHANGED img

\* The Finder bytes are no part of the model: what is left is that the record
\* is deleted and inserted again, in the caller's spelling, its thread staying.
SetFinderInfo(k) ==
    /\ \E l \in lookupChild(img.cat, k) :
          Start(FinderSteps, k, l, img.cat[l], <<>>)
    /\ UNCHANGED img

-----------------------------------------------------------------------------
(* The steps. *)

At(step) == ~Idle /\ Head(op.todo) = step

Advanced(o) ==
    IF Len(o.todo) = 1 THEN NoOp ELSE [o EXCEPT !.todo = Tail(@)]

\* The operation returns an error; what it edited stays in the image.
Fail ==
    /\ op' = NoOp
    /\ alc' = {}

\* WriteFile and Truncate begin again once the old file is gone.
Rebegin ==
    /\ At("begin")
    /\ alc' = img.bitmap
    /\ op' = [Advanced(op) EXCEPT !.old = NoKey]
    /\ UNCHANGED <<img, disk, stale, shown>>

\* Defect: the id is used and not advanced.
BugAllocKeepsId ==
    /\ At("alloc")
    /\ CanAlloc(alc, Len(op.data))
    /\ LET runs  == allocFragments(alc, Len(op.data))
           spill == runs \ Inline(runs)
           rec   == FileRec(img.next, Inline(runs), op.data)
       IN  /\ alc' = alc \cup AllBlocks(runs)
           /\ img' = [img EXCEPT !.blk = writeForkData(@, runs, op.data)]
           /\ op' = [op EXCEPT !.rec = rec, !.spill = spill,
                         !.todo = IF spill = {} THEN Tail(Tail(@)) ELSE Tail(@)]
    /\ UNCHANGED <<disk, stale, shown>>

\* createFile up to the overflow records: the id, the blocks, the data.
Alloc ==
    /\ At("alloc")
    /\ CanAlloc(alc, Len(op.data))
    /\ LET runs  == allocFragments(alc, Len(op.data))
           spill == runs \ Inline(runs)
           rec   == FileRec(img.next, Inline(runs), op.data)
       IN  /\ alc' = alc \cup AllBlocks(runs)
           /\ img' = [img EXCEPT !.next = @ + 1,
                          !.blk = writeForkData(@, runs, op.data)]
           /\ op' = [op EXCEPT !.rec = rec, !.spill = spill,
                         !.todo = IF spill = {} THEN Tail(Tail(@)) ELSE Tail(@)]
    /\ UNCHANGED <<disk, stale, shown>>

AllocNoSpace ==
    /\ At("alloc")
    /\ ~CanAlloc(alc, Len(op.data))
    /\ img' = [img EXCEPT !.next = @ + 1]
    /\ Fail
    /\ UNCHANGED <<disk, stale, shown>>

\* Defect: a rename inserts the old thread again.
BugInsertedOldThread ==
    CASE At("overflow") -> [img EXCEPT !.ovf[op.rec.id] = op.spill]
      [] At("record")   -> [img EXCEPT !.cat[op.key] = op.rec]
      [] At("thread")   -> [img EXCEPT !.thr[op.rec.id] =
                               IF op.old = NoKey THEN op.key ELSE op.old]

\* The image with the record that this step inserts.
Inserted ==
    CASE At("overflow") -> [img EXCEPT !.ovf[op.rec.id] = op.spill]
      [] At("record")   -> [img EXCEPT !.cat[op.key] = op.rec]
      [] At("thread")   -> [img EXCEPT !.thr[op.rec.id] = op.key]

Inserts == At("overflow") \/ At("record") \/ At("thread")

\* The tree has room, or free nodes to split into.
Insert ==
    /\ Inserts
    /\ img' = Inserted
    /\ op' = Advanced(op)
    /\ UNCHANGED <<disk, alc, stale, shown>>

\* The tree runs out of nodes and growFork extends its fork; the catalog's
\* reader keeps the fork it was opened with.
InsertGrows ==
    /\ Inserts
    /\ CanAlloc(alc, GrowBlocks)
    /\ LET new == AllBlocks(allocFragments(alc, GrowBlocks))
       IN  /\ alc' = alc \cup new
           /\ img' = [Inserted EXCEPT !.fork = @ \cup new]
    /\ op' = Advanced(op)
    /\ stale' = (stale \/ ~At("overflow"))
    /\ UNCHANGED <<disk, shown>>

InsertNoSpace ==
    /\ Inserts
    /\ ~CanAlloc(alc, GrowBlocks)
    /\ Fail
    /\ img' = [img EXCEPT !.torn = TRUE]
    /\ UNCHANGED <<disk, stale, shown>>

\* incFileCount and incFolderCount of the entry just made.
Count ==
    /\ At("count")
    /\ img' = [img EXCEPT !.files = @ + 1 - FolderDelta(op.rec),
                          !.folders = @ + FolderDelta(op.rec)]
    /\ op' = Advanced(op)
    /\ UNCHANGED <<disk, alc, stale, shown>>

\* Defect: a move takes the entry from its new parent's valence.
BugAdjustingNew == op.key[1]

\* The folder whose valence this step adjusts.
Adjusting == IF At("enter") THEN op.key[1] ELSE op.old[1]

\* threadKeyOf and patchFolderRecord find the thread and the folder record.
Found(parent) ==
    LET k == img.thr[parent]
    IN  k # NoKey /\ img.cat[k].kind = "folder"

Valence ==
    LET d == IF At("enter") THEN 1 ELSE -1
    IN  /\ At("enter") \/ At("leave")
        /\ Found(Adjusting)
        /\ img' = [img EXCEPT !.cat = adjustParentValence(@, img.thr,
                       Adjusting, d, d * FolderDelta(op.rec))]
        /\ op' = Advanced(op)
        /\ UNCHANGED <<disk, alc, stale, shown>>

\* threadKeyOf reads through the stale fork and gets EOF, or finds no thread.
ValenceFails ==
    /\ At("enter") \/ At("leave")
    /\ stale \/ ~Found(Adjusting)
    /\ Fail
    /\ img' = [img EXCEPT !.torn = TRUE]
    /\ UNCHANGED <<disk, stale, shown>>

\* Defect: the blocks of the overflow extents are not freed.
BugRemoveInlineOnly ==
    LET id == op.rec.id
    IN  /\ At("remove")
        /\ alc' = alc \ AllBlocks(img.cat[op.old].ext)
        /\ img' = [img EXCEPT !.ovf[id] = {}, !.cat[op.old] = NoRec,
                              !.thr[id] = NoKey,
                              !.files = @ - 1 + FolderDelta(op.rec),
                              !.folders = @ - FolderDelta(op.rec)]
        /\ op' = Advanced(op)
        /\ UNCHANGED <<disk, stale, shown>>

\* removeFile, or the deletes of DeleteDir, but for the valence.
Remove ==
    LET id == op.rec.id
    IN  /\ At("remove")
        /\ alc' = alc \ AllBlocks(Extents_(img, op.old))
        /\ img' = [img EXCEPT !.ovf[id] = {}, !.cat[op.old] = NoRec,
                              !.thr[id] = NoKey,
                              !.files = @ - 1 + FolderDelta(op.rec),
                              !.folders = @ - FolderDelta(op.rec)]
        /\ op' = Advanced(op)
        /\ UNCHANGED <<disk, stale, shown>>

\* The deletes of Rename and SetLabel, and of SetFinderInfo.
Unlink ==
    /\ At("unlink") \/ At("rekey")
    /\ img' = [img EXCEPT !.cat[op.old] = NoRec,
                   !.thr[op.rec.id] = IF At("unlink") THEN NoKey ELSE @]
    /\ op' = Advanced(op)
    /\ UNCHANGED <<disk, alc, stale, shown>>

\* Defect: the allocator's bitmap is not written back.
BugCommitNoFlush ==
    /\ At("commit")
    /\ op' = Advanced(op)
    /\ alc' = {}
    /\ stale' = FALSE
    /\ shown' = View(img.cat)
    /\ UNCHANGED <<img, disk>>

\* flush and reopen.
commit ==
    /\ At("commit")
    /\ img' = [img EXCEPT !.bitmap = alc, !.free = freeCount(alc)]
    /\ op' = Advanced(op)
    /\ alc' = {}
    /\ stale' = FALSE
    /\ shown' = View(img.cat)
    /\ UNCHANGED disk

\* The last step of commit, or a call by the user.
Sync ==
    /\ Idle \/ At("sync")
    /\ disk' = img
    /\ op' = IF Idle THEN op ELSE Advanced(op)
    /\ UNCHANGED <<img, alc, stale, shown>>

\* The backing store refuses the write.
SyncFails ==
    /\ At("sync")
    /\ Fail
    /\ UNCHANGED <<img, disk, stale, shown>>

\* The process dies, or Close drops the image, and OpenFileWritable reads the
\* backing store again.
Restart ==
    /\ img' = disk
    /\ Fail
    /\ stale' = FALSE
    /\ shown' = View(disk.cat)
    /\ UNCHANGED disk

Step ==
    \/ Rebegin \/ Alloc \/ AllocNoSpace
    \/ Insert \/ InsertGrows \/ InsertNoSpace
    \/ Count \/ Valence \/ ValenceFails
    \/ Remove \/ Unlink \/ commit

\* resolveParent has found the parent of a path that an operation names.
Call ==
    LET P == Paths
    IN  \/ \E k \in P :
              \/ \E data \in Data : WriteFile(k, data) \/ Symlink(k, data)
              \/ \E n \in 0 .. MaxSize : Truncate(k, n)
              \/ MkDir(k)
              \/ DeleteFile(k)
              \/ DeleteDir(k)
              \/ \E new \in P : Rename(k, new)
        \/ \E k \in P \cup Label : SetFinderInfo(k)
        \/ \E n \in Names : SetLabel(n)

Next ==
    \/ Idle /\ Call
    \/ Step
    \/ Sync \/ SyncFails \/ Restart

Spec == Init /\ [][Next]_vars

-----------------------------------------------------------------------------
Contents == UNION {[1 .. n -> Values \cup {Zero}] : n \in 0 .. MaxSize}

\* Type invariant: the fields of an image range over the catalog keys, the
\* catalog ids and the blocks of the volume.
TypeOK ==
    /\ LET i == img IN
          /\ DOMAIN i.cat = Keys
          /\ \A k \in Keys : /\ i.cat[k].ext \subseteq Extents
                             /\ i.cat[k].holds \in Contents
          /\ i.thr \in [Dirs -> Keys \cup {NoKey}]
          /\ i.ovf \in [Dirs -> SUBSET Extents]
          /\ i.fork \in SUBSET Blocks
          /\ i.bitmap \in SUBSET Blocks
          /\ i.free \in 0 .. TotalBlocks
          /\ {i.files, i.folders} \subseteq Nat
          /\ i.next \in FirstUser .. (LastCNID + 1)
          /\ i.torn \in BOOLEAN
          /\ i.blk \in [Blocks -> Values \cup {Zero}]
    /\ op.key \in Keys \cup {NoKey}
    /\ op.old \in Keys \cup {NoKey}
    /\ op.spill \in SUBSET Extents
    /\ alc \in SUBSET Blocks
    /\ stale \in BOOLEAN

\* What must hold of an image whenever someone can look at it: of the image in
\* memory between operations, and of the image that Sync has copied to the
\* backing store, since the process may die at any step.  Operations refused
\* by their checks, for want of data blocks or by the backing store count; an
\* image that an operation left half edited (torn) is FailureKeepsBooks's.
Visible(P(_)) == (Idle \/ disk = img) /\ ~img.torn => P(img)

ThreadsMatch(i) ==
    /\ \A k \in Named(i.cat) : i.thr[i.cat[k].id] = k
    /\ \A d \in Dirs : i.thr[d] # NoKey => i.cat[i.thr[d]].id = d

\* Every file and folder record has the thread that leads back to it, and
\* every thread its record (createFile, removeFile, MkDir, DeleteDir, Rename,
\* SetLabel and SetFinderInfo edit the two one after the other).
ThreadsAgree == Visible(ThreadsMatch)

CountsMatch(i) ==
    LET kinds(K, kind) == {k \in K : i.cat[k].kind = kind}
    IN  /\ i.files = Cardinality(kinds(Named(i.cat), "file"))
        /\ i.folders + 1 = Cardinality(kinds(Named(i.cat), "folder"))
        /\ \A k \in kinds(Named(i.cat), "folder") :
              LET C == Children(i.cat, i.cat[k].id)
              IN  /\ i.cat[k].val = Cardinality(C)
                  /\ i.cat[k].sub = Cardinality(kinds(C, "folder"))

\* write.go: "fsck_hfs's 'Invalid directory item count' check requires the
\* folder record's valence to equal its number of children"; the same for the
\* folder counts, and for the header's fileCount and folderCount.
CountsAgree == Visible(CountsMatch)

Held(i, k) == AllBlocks(Extents_(i, k))

BlocksMatch(i) ==
    /\ \A k \in Named(i.cat) :
          /\ Held(i, k) \cap i.fork = {}
          /\ Cardinality(Held(i, k)) = i.cat[k].size
          /\ \A l \in Named(i.cat) \ {k} : Held(i, k) \cap Held(i, l) = {}
    /\ i.bitmap = i.fork \cup UNION {Held(i, k) : k \in Named(i.cat)}
    /\ i.free = freeCount(i.bitmap)
    /\ \A d \in Dirs : i.ovf[d] # {} => i.thr[d] # NoKey

\* No block belongs to two forks, a bit of the allocation bitmap is set exactly
\* for the blocks that forks hold, freeBlocks counts the others, and no
\* overflow record outlives its file.
BlocksAgree == Visible(BlocksMatch)

IdsMatch(i) ==
    \A k \in Named(i.cat) :
        /\ i.cat[k].id < i.next
        /\ \A l \in Named(i.cat) \ {k} : i.cat[l].id # i.cat[k].id

\* nextCNID never hands out an id that an entry has, whatever operations
\* failed and however often the volume was restarted from the backing store.
IdsFresh == Visible(IdsMatch)

ContentsMatch(i) ==
    \A k \in Named(i.cat) :
        i.cat[k].kind = "file" => readAll(i, k) = i.cat[k].holds

\* README: a fragmented fork "fills the inline descriptors and inserts the
\* remainder into the extents-overflow B-tree, round-tripping exactly": reading
\* a file gives what its last WriteFile, Symlink or Truncate gave it.
RoundTrips == Visible(ContentsMatch)

PathsMatch(i) ==
    \A k \in Named(i.cat) : k[1] = RootParent \/ k[1] \in Folders(i.cat)

\* Every entry can be reached by a path from the root: no operation cuts off
\* a part of the tree, Rename least of all.
Reachable == Visible(PathsMatch)

\* README: "valence/freeBlocks kept in sync": an operation that returns an
\* error in the middle of its edits leaves counts and blocks in agreement.
FailureKeepsBooks == Idle => CountsMatch(img) /\ BlocksMatch(img)

\* An operation that returns, with an error or without, leaves the catalog as
\* its last commit left it, unless an insertion or a valence update failed:
\* what it did not commit it did not do.
NothingHalfDone == Idle /\ ~img.torn => View(img.cat) = shown

FS == INSTANCE FileSystem WITH
          Keys     <- Keys,
          Ids      <- UserIds,
          Contents <- Contents,
          NoEntry  <- Entry(NoRec),
          First    <- View(MkfsImage(CHOOSE n \in Names : TRUE).cat),
          tree     <- shown,
          stable   <- View(disk.cat)

\* The operations implement the file system of module FileSystem: each commit
\* changes one entry, Sync makes stable exactly what was committed, and a
\* restart at any step finds the last stable tree.
Implements == FS!Spec
=============================================================================
