---------------------------- MODULE VolumeProofs ----------------------------
(***************************************************************************)
(* The write operations for every volume: any names, any number of blocks  *)
(* and ids, any folding of names.                                          *)
(***************************************************************************)
EXTENDS Volume, BitmapProofs, SequenceTheorems

-----------------------------------------------------------------------------
(* The types of images and operations. *)

Stored == Values \cup {Zero}

FileRecs ==
    [kind : {"file"}, id : UserIds, val : {0}, sub : {0},
     ext : SUBSET Inside, size : Nat, holds : Contents]

FolderRecs ==
    [kind : {"folder"}, id : {Root} \cup UserIds, val : Int, sub : Int,
     ext : {{}}, size : {0}, holds : {<<>>}]

Recs == {NoRec} \cup FileRecs \cup FolderRecs

Images ==
    [cat : [Keys -> Recs], thr : [Dirs -> Keys \cup {NoKey}],
     ovf : [Dirs -> SUBSET Inside], fork : SUBSET Blocks,
     bitmap : SUBSET Blocks, free : 0 .. TotalBlocks,
     files : Int, folders : Int, next : FirstUser .. (LastCNID + 1),
     blk : [Blocks -> Stored], torn : BOOLEAN]

-----------------------------------------------------------------------------
(* The lists of steps an operation may still have to take, by how far its  *)
(* edits of the catalog have got.                                          *)

S1 == <<"sync">>
S2 == <<"commit", "sync">>

\* The old record is there, then gone; the second pair makes a file afterwards.
D4  == <<"remove", "leave", "commit", "sync">>
D3  == <<"leave", "commit", "sync">>
O13 == <<"remove", "leave", "commit", "sync", "begin", "alloc", "overflow",
         "record", "thread", "count", "enter", "commit", "sync">>
O12 == <<"leave", "commit", "sync", "begin", "alloc", "overflow",
         "record", "thread", "count", "enter", "commit", "sync">>
O11 == <<"commit", "sync", "begin", "alloc", "overflow",
         "record", "thread", "count", "enter", "commit", "sync">>

\* Between the two transactions of an overwrite.
O10 == <<"sync", "begin", "alloc", "overflow",
         "record", "thread", "count", "enter", "commit", "sync">>
O9  == <<"begin", "alloc", "overflow",
         "record", "thread", "count", "enter", "commit", "sync">>

\* A new entry: without an id, before its record is inserted, after that.
C8 == <<"alloc", "overflow", "record", "thread", "count", "enter", "commit",
        "sync">>
C7 == <<"overflow", "record", "thread", "count", "enter", "commit", "sync">>
C6 == <<"record", "thread", "count", "enter", "commit", "sync">>
C5 == <<"thread", "count", "enter", "commit", "sync">>
C4 == <<"count", "enter", "commit", "sync">>
C3 == <<"enter", "commit", "sync">>

\* A move to another folder, inside a folder, and of the Finder bytes.
M7 == <<"unlink", "record", "thread", "leave", "enter", "commit", "sync">>
M6 == <<"record", "thread", "leave", "enter", "commit", "sync">>
M5 == <<"thread", "leave", "enter", "commit", "sync">>
M4 == <<"leave", "enter", "commit", "sync">>
R5 == <<"unlink", "record", "thread", "commit", "sync">>
R4 == <<"record", "thread", "commit", "sync">>
R3 == <<"thread", "commit", "sync">>
F4 == <<"rekey", "record", "commit", "sync">>
F3 == <<"record", "commit", "sync">>

Deleting  == {D4}
Deleted   == {D3, S2}
Clearing  == {O13}
Cleared   == {O12, O11}
Between   == {O10, O9}
Making    == {C8}
Inserting == {C7, C6}
Made      == {C5, C4, C3, S2}
Unlinking == {M7, R5, F4}
Relinking == {M6, R4, F3}
Moved     == {M5, M4, C3, R3, S2}
Syncing   == {S1}

Todos ==
    UNION {Deleting, Deleted, Clearing, Cleared, Between, Making, Inserting,
           Made, Unlinking, Relinking, Moved, Syncing}

\* The lists that operations start with are among them.
LEMMA Begins ==
    /\ DeleteSteps = D4 /\ OverwriteSteps = O13
    /\ CreateSteps = C8 /\ MkDirSteps = C6
    /\ MoveSteps = M7 /\ RenameSteps = R5 /\ FinderSteps = F4
BY DEF DeleteSteps, OverwriteSteps, CreateSteps, MkDirSteps, MoveSteps,
       RenameSteps, FinderSteps, D4, O13, C8, C6, M7, R5, F4

\* The step a list asks for, what it leaves, and whether that is nothing.
Now(t)  == Head(t)
Rest(t) == Tail(t)
Last(t) == Len(t) = 1

\* What a step leaves to be done: its list loses its head.
LEMMA Course ==
    /\ Now(S1) = "sync"   /\ Last(S1)
    /\ Now(S2) = "commit" /\ ~Last(S2) /\ Rest(S2) = S1
    /\ Now(D4) = "remove" /\ ~Last(D4) /\ Rest(D4) = D3
    /\ Now(D3) = "leave"  /\ ~Last(D3) /\ Rest(D3) = S2
    /\ Now(O13) = "remove" /\ ~Last(O13) /\ Rest(O13) = O12
    /\ Now(O12) = "leave"  /\ ~Last(O12) /\ Rest(O12) = O11
    /\ Now(O11) = "commit" /\ ~Last(O11) /\ Rest(O11) = O10
    /\ Now(O10) = "sync"   /\ ~Last(O10) /\ Rest(O10) = O9
    /\ Now(O9) = "begin"   /\ ~Last(O9) /\ Rest(O9) = C8
    /\ Now(C8) = "alloc"    /\ ~Last(C8) /\ Rest(C8) = C7
    /\ Now(C7) = "overflow" /\ ~Last(C7) /\ Rest(C7) = C6
    /\ Now(C6) = "record" /\ ~Last(C6) /\ Rest(C6) = C5
    /\ Now(C5) = "thread" /\ ~Last(C5) /\ Rest(C5) = C4
    /\ Now(C4) = "count"  /\ ~Last(C4) /\ Rest(C4) = C3
    /\ Now(C3) = "enter"  /\ ~Last(C3) /\ Rest(C3) = S2
    /\ Now(M7) = "unlink" /\ ~Last(M7) /\ Rest(M7) = M6
    /\ Now(M6) = "record" /\ ~Last(M6) /\ Rest(M6) = M5
    /\ Now(M5) = "thread" /\ ~Last(M5) /\ Rest(M5) = M4
    /\ Now(M4) = "leave"  /\ ~Last(M4) /\ Rest(M4) = C3
    /\ Now(R5) = "unlink" /\ ~Last(R5) /\ Rest(R5) = R4
    /\ Now(R4) = "record" /\ ~Last(R4) /\ Rest(R4) = R3
    /\ Now(R3) = "thread" /\ ~Last(R3) /\ Rest(R3) = S2
    /\ Now(F4) = "rekey"  /\ ~Last(F4) /\ Rest(F4) = F3
    /\ Now(F3) = "record" /\ ~Last(F3) /\ Rest(F3) = S2
BY DEF Now, Rest, Last, S1, S2, D4, D3, O13, O12, O11, O10, O9, C8, C7, C6, C5, C4, C3,
       M7, M6, M5, M4, R5, R4, R3, F4, F3

\* Every list ends with the last step or goes on with a list of the table.
LEMMA Continues ==
    \A t \in Todos : \/ t = S1 /\ Last(t)
                     \/ t # S1 /\ ~Last(t) /\ Rest(t) \in Todos
BY Course DEF Todos, Deleting, Deleted, Clearing, Cleared, Between, Making,
   Inserting, Made, Unlinking, Relinking, Moved, Syncing

Ops ==
    [todo : Todos, key : Keys, old : Keys \cup {NoKey}, rec : Recs,
     spill : SUBSET Inside, data : Contents]

\* Lists with an id still to be handed out.
Promised == UNION {Clearing, Cleared, Between, Making}

\* An operation that will hand out an id has checked that one is left.
IdLeft == op.todo \in Promised => img.next <= LastCNID

\* The types, in all states, with what Alloc needs to keep them.
Typed ==
    /\ img \in Images
    /\ disk \in Images
    /\ op \in Ops \cup {NoOp}
    /\ alc \in SUBSET Blocks
    /\ stale \in BOOLEAN
    /\ IdLeft

-----------------------------------------------------------------------------
(* What the helpers of the operations return. *)

\* Contents are sequences of blocks.
LEMMA ContentsLen ==
    ASSUME NEW c \in Contents
    PROVE  /\ Len(c) \in 0 .. MaxSize
           /\ c \in Seq(Stored)
           /\ c \in [1 .. Len(c) -> Stored]
<1>1. PICK n \in 0 .. MaxSize : c \in [1 .. n -> Stored]
  BY DEF Contents, Stored
<1>2. n \in Nat
  BY VolumeAssumption
<1>3. c \in Seq(Stored)
  BY <1>1, <1>2, SeqDef
<1>4. Len(c) \in Nat /\ c \in [1 .. Len(c) -> Stored] /\ DOMAIN c = 1 .. Len(c)
  BY <1>3, LenProperties
<1>5. 1 .. n = 1 .. Len(c)
  BY <1>1, <1>4
<1>6. n = Len(c)
  <2> DEFINE m == Len(c)
  <2>1. ~(n < Len(c))
    <3>1. n < Len(c) => Len(c) \in 1 .. Len(c) /\ Len(c) \notin 1 .. n
      BY <1>2, <1>4
    <3> QED
      BY <1>5, <3>1
  <2>2. ~(Len(c) < n)
    <3>1. Len(c) < n => n \in 1 .. n /\ n \notin 1 .. Len(c)
      BY <1>2, <1>4
    <3> QED
      BY <1>5, <3>1
  <2>3. n \in Int /\ m \in Int /\ ~(n < m) /\ ~(m < n)
    BY <1>2, <1>4, <2>1, <2>2
  <2> HIDE DEF m
  <2>4. n = m
    BY <2>3
  <2> QED
    BY <2>4 DEF m
<1> QED
  BY <1>3, <1>4, <1>6

\* What WriteFile and Symlink are given are contents, and so is nothing.
LEMMA DataAreContents == Data \subseteq Contents /\ <<>> \in Contents
<1>1. ASSUME NEW d \in Data
      PROVE  d \in Contents
  <2>1. PICK n \in 0 .. MaxSize, v \in Values : d \in [1 .. n -> {v}]
    BY DEF Data
  <2>2. d \in [1 .. n -> Stored]
    BY <2>1 DEF Stored
  <2> QED
    BY <2>2 DEF Contents, Stored
<1>2. <<>> \in [1 .. 0 -> Stored]
  OBVIOUS
<1>3. 0 \in 0 .. MaxSize
  BY VolumeAssumption
<1> QED
  BY <1>1, <1>2, <1>3 DEF Contents, Stored

\* A set of extents of the volume covers blocks of the volume.
LEMMA InsideBlocks ==
    ASSUME NEW E \in SUBSET Inside
    PROVE  AllBlocks(E) \in SUBSET Blocks
BY DEF AllBlocks, Inside

\* readAll finds a block for every position up to the size.
LEMMA NthBlockFound ==
    ASSUME NEW E \in SUBSET Inside, NEW n \in 1 .. Cardinality(AllBlocks(E))
    PROVE  /\ NthBlock(E, n) \in AllBlocks(E)
           /\ Cardinality({a \in AllBlocks(E) : a < NthBlock(E, n)}) = n - 1
<1>1. AllBlocks(E) \in SUBSET Blocks
  BY InsideBlocks
<1>2. \E b \in AllBlocks(E) : Cardinality({a \in AllBlocks(E) : a < b}) = n - 1
  BY <1>1, Ranks
<1> QED
  BY <1>2 DEF NthBlock

LEMMA IdsAreDirs ==
    ASSUME NEW r \in Recs, r.kind # "none"
    PROVE  r.id \in Dirs /\ r.id \in {Root} \cup UserIds
BY DEF Recs, FileRecs, FolderRecs, NoRec, Dirs

\* Reading gives blocks that the image stores.
LEMMA ReadAllType ==
    ASSUME NEW i \in Images, NEW k \in Named(i.cat), Covered(i, k)
    PROVE  readAll(i, k) \in Seq(Stored)
<1> DEFINE E == Extents_(i, k)
           z == i.cat[k].size
<1>1. k \in Keys /\ i.cat[k] \in Recs /\ i.cat[k].kind # "none"
  BY DEF Named, Images
<1>2. i.cat[k].id \in Dirs
  BY <1>1, IdsAreDirs
<1>3. E \in SUBSET Inside
  <2>1. i.cat[k].ext \in SUBSET Inside
    BY <1>1 DEF Recs, FileRecs, FolderRecs, NoRec
  <2>2. i.ovf[i.cat[k].id] \in SUBSET Inside
    BY <1>2 DEF Images
  <2> QED
    BY <2>1, <2>2 DEF Extents_
<1>4. z \in Nat
  BY <1>1 DEF Recs, FileRecs, FolderRecs, NoRec
<1>5. AllBlocks(E) \in SUBSET Blocks /\ Cardinality(AllBlocks(E)) \in Nat
  BY <1>3, InsideBlocks, BlocksFinite
<1>6. z <= Cardinality(AllBlocks(E))
  BY DEF Covered
<1>7. readAll(i, k) = [n \in 1 .. z |-> i.blk[NthBlock(E, n)]]
  BY DEF readAll
<1> HIDE DEF E, z
<1>8. ASSUME NEW n \in 1 .. z
      PROVE  i.blk[NthBlock(E, n)] \in Stored
  <2>1. n \in 1 .. Cardinality(AllBlocks(E))
    BY <1>4, <1>5, <1>6
  <2>2. NthBlock(E, n) \in Blocks
    BY <1>3, <1>5, <2>1, NthBlockFound
  <2> QED
    BY <2>2 DEF Images
<1>9. readAll(i, k) \in [1 .. z -> Stored]
  BY <1>7, <1>8
<1> QED
  BY <1>4, <1>9, SeqDef

\* Truncate writes contents.
LEMMA ResizeType ==
    ASSUME NEW c \in Seq(Stored), NEW n \in 0 .. MaxSize
    PROVE  Resize(c, n) \in Contents
<1>1. ASSUME NEW j \in 1 .. n, j <= Len(c)
      PROVE  c[j] \in Stored
  <2>1. Len(c) \in Nat /\ n \in Nat
    BY LenProperties, VolumeAssumption
  <2>2. j \in 1 .. Len(c)
    BY <1>1, <2>1
  <2> QED
    BY <2>2, ElementOfSeq
<1>2. Resize(c, n) \in [1 .. n -> Stored]
  BY <1>1 DEF Resize, Stored
<1> QED
  BY <1>2 DEF Contents, Stored

\* writeForkData has a block of the data for every block of the runs.
LEMMA WriteType ==
    ASSUME NEW blk \in [Blocks -> Stored], NEW runs \in SUBSET Inside,
           NEW data \in Contents,
           Cardinality(AllBlocks(runs)) = Len(data)
    PROVE  writeForkData(blk, runs, data) \in [Blocks -> Stored]
<1>1. ASSUME NEW b \in AllBlocks(runs)
      PROVE  data[Cardinality({a \in AllBlocks(runs) : a <= b})] \in Stored
  <2> DEFINE A == AllBlocks(runs)
             L == {a \in A : a <= b}
  <2>1. A \in SUBSET Blocks /\ L \in SUBSET A /\ b \in L
    BY InsideBlocks, TotalBlocksAssumption DEF Blocks
  <2>2. IsFiniteSet(A) /\ IsFiniteSet(L) /\ Cardinality(L) \in Nat
    BY <2>1, BlocksFinite
  <2>3. Cardinality(L) <= Cardinality(A)
    BY <2>1, <2>2, FS_Subset
  <2>4. Cardinality(L) # 0
    BY <2>1, <2>2, FS_EmptySet
  <2>5. data \in [1 .. Len(data) -> Stored] /\ Len(data) \in Nat
    BY ContentsLen
  <2> HIDE DEF L
  <2>6. Cardinality(L) \in 1 .. Len(data)
    BY <2>2, <2>3, <2>4, <2>5
  <2> QED
    BY <2>5, <2>6 DEF L
<1> QED
  BY <1>1 DEF writeForkData

\* adjustParentValence changes counts of a folder record and nothing else.
LEMMA Adjusts ==
    ASSUME NEW cat \in [Keys -> Recs], NEW thr, NEW p,
           NEW d \in Int, NEW fd \in Int, cat[thr[p]].kind = "folder"
    PROVE  LET new == adjustParentValence(cat, thr, p, d, fd)
           IN  /\ new \in [Keys -> Recs]
               /\ \A k \in Keys :
                     /\ new[k].kind = cat[k].kind
                     /\ new[k].id = cat[k].id
                     /\ new[k].ext = cat[k].ext
                     /\ new[k].size = cat[k].size
                     /\ new[k].holds = cat[k].holds
                     /\ k # thr[p] => new[k] = cat[k]
                     /\ k = thr[p] => /\ new[k].val = cat[k].val + d
                                      /\ new[k].sub = cat[k].sub + fd
<1> DEFINE q == thr[p]
           new == adjustParentValence(cat, thr, p, d, fd)
<1>1. new = [cat EXCEPT ![q].val = @ + d, ![q].sub = @ + fd]
  BY DEF adjustParentValence
<1>2. CASE q \in Keys
  <2>1. cat[q] \in FolderRecs
    BY <1>2 DEF Recs, FileRecs, FolderRecs, NoRec
  <2> DEFINE r == cat[q]
  <2>2. new[q] = [[r EXCEPT !.val = r.val + d] EXCEPT !.sub = r.sub + fd]
    BY <1>1, <1>2, <2>1 DEF FolderRecs
  <2>3. \A k \in Keys \ {q} : new[k] = cat[k]
    BY <1>1
  <2>4. DOMAIN new = Keys /\ new = [k \in Keys |-> new[k]]
    BY <1>1
  <2> HIDE DEF q, new, r
  <2>5. new[q] \in FolderRecs
    <3>1. r \in FolderRecs
      BY <2>1 DEF r
    <3> DEFINE w == [r EXCEPT !.val = r.val + d]
    <3>2. w \in FolderRecs /\ new[q] = [w EXCEPT !.sub = r.sub + fd]
      BY <2>2, <3>1 DEF FolderRecs
    <3>3. r.sub + fd \in Int
      BY <3>1 DEF FolderRecs
    <3> HIDE DEF w
    <3> QED
      BY <3>2, <3>3 DEF FolderRecs
  <2>6. new \in [Keys -> Recs]
    BY <2>3, <2>4, <2>5 DEF Recs
  <2>7. /\ new[q].kind = cat[q].kind /\ new[q].id = cat[q].id
        /\ new[q].ext = cat[q].ext /\ new[q].size = cat[q].size
        /\ new[q].holds = cat[q].holds
        /\ new[q].val = cat[q].val + d /\ new[q].sub = cat[q].sub + fd
    BY <2>1, <2>2 DEF FolderRecs, r
  <2> QED
    BY <2>3, <2>6, <2>7 DEF new, q
<1>3. CASE q \notin Keys
  <2>1. new = cat
    BY <1>1, <1>3
  <2> QED
    BY <1>3, <2>1
<1> QED
  BY <1>2, <1>3

-----------------------------------------------------------------------------
(* The type invariant. *)

\* Between operations no id is promised.
LEMMA NothingPromised == <<>> \notin Promised /\ <<>> \notin Todos
<1>1. \A t \in Todos : t # <<>>
  BY DEF Todos, Deleting, Deleted, Clearing, Cleared, Between, Making,
    Inserting, Made, Unlinking, Relinking, Moved, Syncing,
    S1, S2, D4, D3, O13, O12, O11, O10, O9, C8, C7, C6, C5, C4, C3,
    M7, M6, M5, M4, R5, R4, R3, F4, F3
<1>2. Promised \subseteq Todos
  BY DEF Promised, Todos
<1> QED
  BY <1>1, <1>2

\* What a step of an operation does to the list of its steps.
LEMMA Advances ==
    ASSUME op \in Ops
    PROVE  /\ Last(op.todo) => Advanced(op) = NoOp
           /\ ~Last(op.todo) => Advanced(op) = [op EXCEPT !.todo = Rest(op.todo)]
           /\ Advanced(op) \in Ops \cup {NoOp}
           /\ Advanced(op).todo \in Promised => op.todo \in Promised
<1>1. op.todo \in Todos
  BY DEF Ops
<1>2. Last(op.todo) => Advanced(op) = NoOp
  BY DEF Advanced, Last
<1>3. ~Last(op.todo) => Advanced(op) = [op EXCEPT !.todo = Rest(op.todo)]
  BY DEF Advanced, Last, Rest
<1>4. Advanced(op) \in Ops \cup {NoOp}
  BY <1>1, <1>2, <1>3, Continues DEF Ops
<1>5. ASSUME ~Last(op.todo), Rest(op.todo) \in Promised
      PROVE  op.todo \in Promised
  BY <1>1, <1>5, Course DEF Todos, Deleting, Deleted, Clearing, Cleared, Between, Making,
   Inserting, Made, Unlinking, Relinking, Moved, Syncing, Promised
<1>6. ASSUME ~Last(op.todo)
      PROVE  Advanced(op).todo = Rest(op.todo)
  BY <1>3, <1>6 DEF Ops
<1>7. ASSUME Last(op.todo)
      PROVE  Advanced(op).todo = <<>>
  BY <1>2, <1>7 DEF NoOp
<1> QED
  BY <1>2, <1>3, <1>4, <1>5, <1>6, <1>7, NothingPromised

\* The record MkDir makes.
LEMMA NewFolder ==
    ASSUME NEW id \in {Root} \cup UserIds
    PROVE  /\ FolderRec(id) \in FolderRecs
           /\ FolderRec(id).id = id /\ FolderRec(id).val = 0 /\ FolderRec(id).sub = 0
BY DEF FolderRec, FolderRecs

\* The record createFile makes.
LEMMA NewFileRec ==
    ASSUME NEW id \in UserIds, NEW ext \in SUBSET Inside, NEW data \in Contents
    PROVE  FileRec(id, ext, data) \in FileRecs
<1>1. Len(data) \in Nat
  BY ContentsLen, VolumeAssumption
<1> QED
  BY <1>1 DEF FileRecs, FileRec

\* An operation starts from typed arguments.
LEMMA StartTyped ==
    ASSUME Typed, Idle, NEW todo \in Todos, NEW key \in Keys,
           NEW old \in Keys \cup {NoKey}, NEW rec \in Recs, NEW data \in Contents,
           Start(todo, key, old, rec, data),
           img' \in Images, todo \in Promised => img'.next <= LastCNID
    PROVE  Typed'
<1>1. op' = [todo |-> todo, key |-> key, old |-> old, rec |-> rec,
             spill |-> {}, data |-> data]
  BY DEF Start
<1>2. op' \in Ops /\ op'.todo = todo
  BY <1>1 DEF Ops
<1>3. alc' = img.bitmap /\ disk' = disk /\ stale' = stale
  BY DEF Start
<1>4. alc' \in SUBSET Blocks
  BY <1>3 DEF Typed, Images
<1> QED
  BY <1>2, <1>3, <1>4 DEF Typed, IdLeft

\* What the checks of the operations find in the catalog.
LEMMA FoundTyped ==
    ASSUME NEW i \in Images, NEW k \in Keys, NEW l \in lookupChild(i.cat, k)
    PROVE  /\ l \in Named(i.cat) /\ l \in Keys /\ i.cat[l] \in Recs
           /\ i.cat[l].kind # "none"
           /\ l[1] = k[1] /\ Fold[l[2]] = Fold[k[2]]
BY DEF lookupChild, Named, Images

\* The calls keep the types.
LEMMA CallTyped ==
    ASSUME Typed, Idle, Call
    PROVE  Typed'
<1> USE DEF Paths
<1>1. img \in Images
  BY DEF Typed
<1>2. /\ {D4, O13, C8, C6, M7, R5, F4} \subseteq Todos
      /\ D4 \notin Promised /\ C6 \notin Promised /\ M7 \notin Promised
      /\ R5 \notin Promised /\ F4 \notin Promised
  <2>1. {D4, O13, C8, C6, M7, R5, F4} \subseteq Todos
    BY DEF Todos, Deleting, Clearing, Making, Inserting, Unlinking
  <2>2. \A t \in Promised : Now(t) \in {"remove", "leave", "commit", "sync", "begin", "alloc"}
    BY Course DEF Promised, Clearing, Cleared, Between, Making
  <2>3. D4 \notin Promised
    BY DEF Promised, Clearing, Cleared, Between, Making, D4, O13, O12, O11, O10, O9, C8
  <2> QED
    BY <2>1, <2>2, <2>3, Course
<1>3. <<>> \in Contents /\ Data \subseteq Contents /\ NoRec \in Recs
  BY DataAreContents DEF Recs
<1>4. ASSUME NEW k \in Keys, NEW l \in lookupChild(img.cat, k), NEW data \in Contents,
             Overwrite(k, l, data)
      PROVE  Typed'
  BY <1>1, <1>2, <1>4, FoundTyped, StartTyped, Begins DEF Overwrite
<1>5. ASSUME NEW k \in Keys, NEW data \in Data, NewFile(k, data)
      PROVE  Typed'
  BY <1>1, <1>2, <1>3, <1>5, StartTyped, Begins DEF NewFile
<1>6. ASSUME NEW k \in Keys, NEW n \in 0 .. MaxSize, Truncate(k, n)
      PROVE  Typed'
  <2>1. PICK l \in lookupChild(img.cat, k) :
           Covered(img, l) /\ Overwrite(k, l, Resize(readAll(img, l), n))
    BY <1>6 DEF Truncate
  <2>2. Resize(readAll(img, l), n) \in Contents
    BY <1>1, <2>1, FoundTyped, ReadAllType, ResizeType
  <2> QED
    BY <1>4, <2>1, <2>2
<1>7. ASSUME NEW k \in Keys, MkDir(k)
      PROVE  Typed'
  <2>1. img.next <= LastCNID /\ img' = [img EXCEPT !.next = img.next + 1]
    BY <1>7 DEF MkDir
  <2>2. img.next \in UserIds /\ img.next + 1 \in FirstUser .. (LastCNID + 1)
    BY <1>1, <2>1, VolumeAssumption DEF Images, UserIds, FirstUser
  <2>3. img' \in Images
    BY <1>1, <2>1, <2>2 DEF Images
  <2>4. FolderRec(img.next) \in Recs
    BY <2>2, NewFolder DEF Recs
  <2>5. Start(C6, k, NoKey, FolderRec(img.next), <<>>)
    BY <1>7, Begins DEF MkDir
  <2>6. C6 \in Todos /\ C6 \notin Promised
    BY <1>2
  <2> QED
    BY <1>3, <2>3, <2>4, <2>5, <2>6, StartTyped
<1>8. ASSUME NEW k \in Keys, DeleteFile(k) \/ DeleteDir(k)
      PROVE  Typed'
  BY <1>1, <1>2, <1>3, <1>8, FoundTyped, StartTyped, Begins DEF DeleteFile, DeleteDir
<1>9. ASSUME NEW k \in Keys, NEW new \in Keys, Rename(k, new)
      PROVE  Typed'
  <2>1. PICK l \in lookupChild(img.cat, k) :
           Start(IF l[1] # new[1] THEN MoveSteps ELSE RenameSteps,
                 new, l, img.cat[l], <<>>)
    BY <1>9 DEF Rename
  <2>2. (IF l[1] # new[1] THEN MoveSteps ELSE RenameSteps) \in {M7, R5}
    BY Begins
  <2>3. img' = img
    BY <1>9 DEF Rename
  <2> QED
    BY <1>1, <1>2, <1>3, <2>1, <2>2, <2>3, FoundTyped, StartTyped
<1>10. ASSUME NEW k \in Keys, SetFinderInfo(k)
       PROVE  Typed'
  BY <1>1, <1>2, <1>3, <1>10, FoundTyped, StartTyped, Begins DEF SetFinderInfo
<1>11. ASSUME NEW n \in Names, SetLabel(n)
       PROVE  Typed'
  <2>1. PICK k \in Label : Start(RenameSteps, <<RootParent, n>>, k, img.cat[k], <<>>)
    BY <1>11 DEF SetLabel
  <2>2. img' = img /\ k \in Keys /\ img.cat[k] \in Recs /\ <<RootParent, n>> \in Keys
    BY <1>1, <1>11 DEF SetLabel, Label, Children, Named, Images, Keys, Dirs
  <2> QED
    BY <1>1, <1>2, <1>3, <2>1, <2>2, StartTyped, Begins
<1>12. Label \subseteq Keys
  BY DEF Label, Children, Named
<1>13. ASSUME NEW k \in Keys, NEW data \in Data, WriteFile(k, data) \/ Symlink(k, data)
       PROVE  Typed'
  BY <1>3, <1>4, <1>5, <1>13 DEF WriteFile, Symlink
<1> QED
  BY <1>6, <1>7, <1>8, <1>9, <1>10, <1>11, <1>12, <1>13 DEF Call

\* Which list a step finds.
LEMMA AtList ==
    ASSUME op \in Ops \cup {NoOp}, ~Idle
    PROVE  op \in Ops /\ op.todo \in Todos
BY DEF Idle, Ops

\* A step that leaves the image typed and the ids alone.
LEMMA AdvanceTyped ==
    ASSUME Typed, ~Idle, op' = Advanced(op), img' \in Images,
           disk' = disk, alc' \in SUBSET Blocks, stale' \in BOOLEAN,
           img'.next = img.next
    PROVE  Typed'
<1>1. op \in Ops
  BY AtList DEF Typed
<1>2. op' \in Ops \cup {NoOp} /\ (op'.todo \in Promised => op.todo \in Promised)
  BY <1>1, Advances
<1>3. IdLeft'
  BY <1>2 DEF Typed, IdLeft
<1> QED
  BY <1>2, <1>3 DEF Typed

\* A step after which the operation is over.
LEMMA EndTyped ==
    ASSUME Typed, op' = NoOp, img' \in Images, disk' \in Images,
           alc' \in SUBSET Blocks, stale' \in BOOLEAN
    PROVE  Typed'
<1>1. op'.todo \notin Promised
  BY NothingPromised DEF NoOp
<1> QED
  BY <1>1 DEF Typed, IdLeft

\* What a step inserts, field by field.
LEMMA InsertedTyped ==
    ASSUME Typed, ~Idle, Inserts
    PROVE  /\ Inserted \in Images
           /\ Inserted.next = img.next /\ Inserted.torn = img.torn
           /\ Inserted.fork = img.fork /\ Inserted.bitmap = img.bitmap
           /\ Inserted.free = img.free /\ Inserted.blk = img.blk
           /\ Inserted.files = img.files /\ Inserted.folders = img.folders
           /\ Inserted.cat = IF At("record") THEN [img.cat EXCEPT ![op.key] = op.rec]
                             ELSE img.cat
           /\ Inserted.thr = IF At("thread") THEN [img.thr EXCEPT ![op.rec.id] = op.key]
                             ELSE img.thr
           /\ Inserted.ovf = IF At("overflow") THEN [img.ovf EXCEPT ![op.rec.id] = op.spill]
                             ELSE img.ovf
<1>1. op \in Ops /\ img \in Images
  BY AtList DEF Typed
<1>2. CASE At("overflow")
  <2>1. ~At("record") /\ ~At("thread")
    BY <1>2 DEF At
  <2>2. Inserted = [img EXCEPT !.ovf = [img.ovf EXCEPT ![op.rec.id] = op.spill]]
    BY <1>1, <1>2, <2>1 DEF Inserted, Images
  <2>3. [img.ovf EXCEPT ![op.rec.id] = op.spill] \in [Dirs -> SUBSET Inside]
    BY <1>1 DEF Ops, Images
  <2> QED
    BY <1>1, <1>2, <2>1, <2>2, <2>3 DEF Images
<1>3. CASE At("record")
  <2>1. ~At("overflow") /\ ~At("thread")
    BY <1>3 DEF At
  <2>2. Inserted = [img EXCEPT !.cat = [img.cat EXCEPT ![op.key] = op.rec]]
    BY <1>1, <1>3, <2>1 DEF Inserted, Images
  <2>3. [img.cat EXCEPT ![op.key] = op.rec] \in [Keys -> Recs]
    BY <1>1 DEF Ops, Images
  <2> QED
    BY <1>1, <1>3, <2>1, <2>2, <2>3 DEF Images
<1>4. CASE At("thread")
  <2>1. ~At("overflow") /\ ~At("record")
    BY <1>4 DEF At
  <2>2. Inserted = [img EXCEPT !.thr = [img.thr EXCEPT ![op.rec.id] = op.key]]
    BY <1>1, <1>4, <2>1 DEF Inserted, Images
  <2>3. [img.thr EXCEPT ![op.rec.id] = op.key] \in [Dirs -> Keys \cup {NoKey}]
    BY <1>1 DEF Ops, Images
  <2> QED
    BY <1>1, <1>4, <2>1, <2>2, <2>3 DEF Images
<1> QED
  BY <1>2, <1>3, <1>4 DEF Inserts

-----------------------------------------------------------------------------
(* What each step does, field by field. *)

\* The lists that ask for a step.
LEMMA Places ==
    \A t \in Todos :
        /\ Now(t) = "remove"   => t \in {D4, O13}
        /\ Now(t) = "leave"    => t \in {D3, O12, M4}
        /\ Now(t) = "commit"   => t \in {S2, O11}
        /\ Now(t) = "sync"     => t \in {S1, O10}
        /\ Now(t) = "begin"    => t = O9
        /\ Now(t) = "alloc"    => t = C8
        /\ Now(t) = "overflow" => t = C7
        /\ Now(t) = "record"   => t \in {C6, M6, R4, F3}
        /\ Now(t) = "thread"   => t \in {C5, M5, R3}
        /\ Now(t) = "count"    => t = C4
        /\ Now(t) = "enter"    => t = C3
        /\ Now(t) = "unlink"   => t \in {M7, R5}
        /\ Now(t) = "rekey"    => t = F4
BY Course DEF Todos, Deleting, Deleted, Clearing, Cleared, Between, Making,
   Inserting, Made, Unlinking, Relinking, Moved, Syncing

\* A step of an operation finds its name at the head of the list.
LEMMA AtStep ==
    ASSUME Typed, NEW s, At(s)
    PROVE  /\ ~Idle /\ op \in Ops /\ op.todo \in Todos /\ Now(op.todo) = s
           /\ img \in Images /\ disk \in Images /\ op.rec \in Recs /\ op.key \in Keys
BY AtList DEF At, Now, Typed, Ops

\* The next list, the rest of the operation staying as it is.
LEMMA AdvanceEffect ==
    ASSUME op \in Ops, ~Last(op.todo), op' = Advanced(op)
    PROVE  /\ op' = [op EXCEPT !.todo = Rest(op.todo)]
           /\ op' \in Ops /\ op'.todo = Rest(op.todo)
           /\ op'.key = op.key /\ op'.old = op.old /\ op'.rec = op.rec
           /\ op'.spill = op.spill /\ op'.data = op.data
<1>1. op' = [op EXCEPT !.todo = Rest(op.todo)]
  BY Advances
<1>2. Rest(op.todo) \in Todos
  BY Continues DEF Ops
<1> QED
  BY <1>1, <1>2 DEF Ops

LEMMA RebeginEffect ==
    ASSUME Typed, Rebegin
    PROVE  /\ op \in Ops /\ op.todo = O9
           /\ op' \in Ops /\ op'.todo = C8 /\ op'.old = NoKey
           /\ op'.key = op.key /\ op'.rec = op.rec /\ op'.spill = op.spill
           /\ op'.data = op.data
           /\ alc' = img.bitmap
           /\ UNCHANGED <<img, disk, stale, shown>>
           /\ Typed'
<1>1. op \in Ops /\ op.todo = O9 /\ img \in Images
  BY AtStep, Places DEF Rebegin
<1>2. Advanced(op) = [op EXCEPT !.todo = C8]
  BY <1>1, Advances, Course
<1>3. C8 \in Todos
  BY DEF Todos, Making
<1>4. Advanced(op) \in Ops
  BY <1>1, <1>2, <1>3 DEF Ops
<1>5. /\ Advanced(op).key = op.key /\ Advanced(op).rec = op.rec
      /\ Advanced(op).spill = op.spill /\ Advanced(op).data = op.data
      /\ Advanced(op).todo = C8
  BY <1>1, <1>2 DEF Ops
<1> DEFINE o == Advanced(op)
<1>6. op' = [o EXCEPT !.old = NoKey]
  BY DEF Rebegin
<1> HIDE DEF o
<1>7. /\ op' \in Ops /\ op'.old = NoKey /\ op'.todo = o.todo /\ op'.key = o.key
      /\ op'.rec = o.rec /\ op'.spill = o.spill /\ op'.data = o.data
  BY <1>4, <1>6 DEF Ops, o
<1>8. alc' = img.bitmap /\ UNCHANGED <<img, disk, stale, shown>>
  BY DEF Rebegin
<1>9. Typed'
  <2>1. op.todo \in Promised
    BY <1>1 DEF Promised, Between
  <2>2. img.bitmap \in SUBSET Blocks
    BY <1>1 DEF Images
  <2> QED
    BY <1>7, <1>8, <2>1, <2>2 DEF Typed, IdLeft
<1> QED
  BY <1>1, <1>5, <1>7, <1>8, <1>9 DEF o

LEMMA AllocEffect ==
    ASSUME Typed, Alloc
    PROVE  LET runs == allocFragments(alc, Len(op.data)) IN
           /\ op \in Ops /\ op.todo = C8 /\ CanAlloc(alc, Len(op.data))
           /\ img.next \in UserIds
           /\ op' \in Ops /\ op'.key = op.key /\ op'.old = op.old
           /\ op'.rec = FileRec(img.next, Inline(runs), op.data)
           /\ op'.rec \in FileRecs
           /\ op'.spill = runs \ Inline(runs) /\ op'.data = op.data
           /\ op'.todo = IF op'.spill = {} THEN C6 ELSE C7
           /\ alc' = alc \cup AllBlocks(runs)
           /\ img'.next = img.next + 1
           /\ img'.blk = writeForkData(img.blk, runs, op.data)
           /\ img'.cat = img.cat /\ img'.thr = img.thr /\ img'.ovf = img.ovf
           /\ img'.fork = img.fork /\ img'.bitmap = img.bitmap
           /\ img'.free = img.free /\ img'.files = img.files
           /\ img'.folders = img.folders /\ img'.torn = img.torn
           /\ UNCHANGED <<disk, stale, shown>>
           /\ Typed'
<1> DEFINE runs  == allocFragments(alc, Len(op.data))
           spill == runs \ Inline(runs)
           rec   == FileRec(img.next, Inline(runs), op.data)
           blk   == writeForkData(img.blk, runs, op.data)
<1>1. op \in Ops /\ op.todo = C8 /\ img \in Images
  BY AtStep, Places DEF Alloc
<1>2. CanAlloc(alc, Len(op.data))
  BY DEF Alloc
<1>3. img.next \in UserIds /\ img.next + 1 \in FirstUser .. (LastCNID + 1)
  <2>1. img.next <= LastCNID
    BY <1>1 DEF Typed, IdLeft, Promised, Making
  <2> QED
    BY <1>1, <2>1, VolumeAssumption DEF Images, UserIds, FirstUser
<1>4. op.data \in Contents /\ Len(op.data) \in Nat /\ alc \in SUBSET Blocks
  <2>1. op.data \in Contents
    BY <1>1 DEF Ops
  <2> QED
    BY <2>1, ContentsLen, VolumeAssumption DEF Typed
<1>5. /\ runs \in SUBSET Inside
      /\ AllBlocks(runs) \in SUBSET Free(alc)
      /\ Cardinality(AllBlocks(runs)) = Len(op.data)
  BY <1>2, <1>4, FragmentsExact
<1>6. /\ alc' = alc \cup AllBlocks(runs)
      /\ img' = [img EXCEPT !.next = img.next + 1, !.blk = blk]
      /\ op' = [op EXCEPT !.rec = rec, !.spill = spill,
                    !.todo = IF spill = {} THEN Rest(Rest(op.todo)) ELSE Rest(op.todo)]
      /\ UNCHANGED <<disk, stale, shown>>
  BY DEF Alloc, Rest
<1>7. blk \in [Blocks -> Stored]
  <2>1. img.blk \in [Blocks -> Stored]
    BY <1>1 DEF Images
  <2> QED
    BY <1>4, <1>5, <2>1, WriteType
<1>8. Inline(runs) \in SUBSET Inside /\ spill \in SUBSET Inside
  BY <1>5 DEF Inline
<1>9. rec \in FileRecs
  BY <1>3, <1>4, <1>8, NewFileRec
<1> DEFINE todo == IF spill = {} THEN C6 ELSE C7
<1>10. op' = [op EXCEPT !.rec = rec, !.spill = spill, !.todo = todo]
  BY <1>1, <1>6, Course
<1>11. todo \in Todos /\ todo \notin Promised
  <2>1. C6 \in Todos /\ C7 \in Todos
    BY DEF Todos, Inserting
  <2>2. C6 \notin Promised /\ C7 \notin Promised
    BY Course DEF Promised, Clearing, Cleared, Between, Making
  <2> QED
    BY <2>1, <2>2
<1> HIDE DEF runs, spill, rec, blk, todo
<1>12. /\ op' \in Ops /\ op'.rec = rec /\ op'.spill = spill /\ op'.todo = todo
       /\ op'.key = op.key /\ op'.old = op.old /\ op'.data = op.data
  BY <1>1, <1>8, <1>9, <1>10, <1>11 DEF Ops, Recs
<1>13. /\ img' \in Images /\ img'.next = img.next + 1 /\ img'.blk = blk
       /\ img'.cat = img.cat /\ img'.thr = img.thr /\ img'.ovf = img.ovf
       /\ img'.fork = img.fork /\ img'.bitmap = img.bitmap
       /\ img'.free = img.free /\ img'.files = img.files
       /\ img'.folders = img.folders /\ img'.torn = img.torn
  BY <1>1, <1>3, <1>6, <1>7 DEF Images
<1>14. alc' \in SUBSET Blocks
  BY <1>4, <1>5, <1>6 DEF Free
<1>15. Typed'
  BY <1>6, <1>11, <1>12, <1>13, <1>14 DEF Typed, IdLeft
<1> QED
  BY <1>1, <1>2, <1>3, <1>6, <1>9, <1>12, <1>13, <1>15
     DEF runs, spill, rec, blk, todo

LEMMA AllocNoSpaceEffect ==
    ASSUME Typed, AllocNoSpace
    PROVE  /\ op.todo = C8 /\ op' = NoOp /\ alc' = {}
           /\ img'.next = img.next + 1 /\ img'.blk = img.blk
           /\ img'.cat = img.cat /\ img'.thr = img.thr /\ img'.ovf = img.ovf
           /\ img'.fork = img.fork /\ img'.bitmap = img.bitmap
           /\ img'.free = img.free /\ img'.files = img.files
           /\ img'.folders = img.folders /\ img'.torn = img.torn
           /\ UNCHANGED <<disk, stale, shown>>
           /\ Typed'
<1>1. op \in Ops /\ op.todo = C8 /\ img \in Images
  BY AtStep, Places DEF AllocNoSpace
<1>2. img.next + 1 \in FirstUser .. (LastCNID + 1)
  <2>1. img.next <= LastCNID
    BY <1>1 DEF Typed, IdLeft, Promised, Making
  <2> QED
    BY <1>1, <2>1, VolumeAssumption DEF Images, FirstUser
<1>3. /\ img' = [img EXCEPT !.next = img.next + 1]
      /\ op' = NoOp /\ alc' = {} /\ UNCHANGED <<disk, stale, shown>>
  BY DEF AllocNoSpace, Fail
<1>4. /\ img' \in Images /\ img'.next = img.next + 1 /\ img'.blk = img.blk
      /\ img'.cat = img.cat /\ img'.thr = img.thr /\ img'.ovf = img.ovf
      /\ img'.fork = img.fork /\ img'.bitmap = img.bitmap
      /\ img'.free = img.free /\ img'.files = img.files
      /\ img'.folders = img.folders /\ img'.torn = img.torn
  BY <1>1, <1>2, <1>3 DEF Images
<1>5. Typed'
  BY <1>3, <1>4, EndTyped DEF Typed
<1> QED
  BY <1>1, <1>3, <1>4, <1>5

\* Insert and InsertGrows: they differ in the blocks the tree takes.
LEMMA InsertEffect ==
    ASSUME Typed, Insert \/ InsertGrows
    PROVE  /\ op \in Ops /\ op.todo \in {C7, C6, M6, R4, F3, C5, M5, R3}
           /\ op' \in Ops /\ op'.todo = Rest(op.todo)
           /\ op'.key = op.key /\ op'.old = op.old /\ op'.rec = op.rec
           /\ op'.spill = op.spill /\ op'.data = op.data
           /\ img'.cat = IF Now(op.todo) = "record"
                         THEN [img.cat EXCEPT ![op.key] = op.rec] ELSE img.cat
           /\ img'.thr = IF Now(op.todo) = "thread"
                         THEN [img.thr EXCEPT ![op.rec.id] = op.key] ELSE img.thr
           /\ img'.ovf = IF Now(op.todo) = "overflow"
                         THEN [img.ovf EXCEPT ![op.rec.id] = op.spill] ELSE img.ovf
           /\ img'.next = img.next /\ img'.torn = img.torn
           /\ img'.bitmap = img.bitmap /\ img'.free = img.free
           /\ img'.blk = img.blk /\ img'.files = img.files
           /\ img'.folders = img.folders
           /\ UNCHANGED <<disk, shown>>
           /\ \E new \in SUBSET Free(alc) :
                 img'.fork = img.fork \cup new /\ alc' = alc \cup new
           /\ Typed'
<1>1. Inserts /\ ~Idle /\ op \in Ops /\ op.todo \in Todos /\ img \in Images
  BY AtList DEF Insert, InsertGrows, Inserts, At, Typed
<1>2. \A s : At(s) <=> Now(op.todo) = s
  BY <1>1 DEF At, Now
<1>3. op.todo \in {C7, C6, M6, R4, F3, C5, M5, R3}
  BY <1>1, <1>2, Places DEF Inserts
<1>4. ~Last(op.todo)
  BY <1>3, Course
<1>5. op' = Advanced(op) /\ UNCHANGED <<disk, shown>>
  BY DEF Insert, InsertGrows
<1>6. /\ op' \in Ops /\ op'.todo = Rest(op.todo)
      /\ op'.key = op.key /\ op'.old = op.old /\ op'.rec = op.rec
      /\ op'.spill = op.spill /\ op'.data = op.data
  BY <1>1, <1>4, <1>5, AdvanceEffect
<1>7. \E new \in SUBSET Free(alc) :
         /\ img' = [Inserted EXCEPT !.fork = Inserted.fork \cup new]
         /\ alc' = alc \cup new
         /\ stale' \in BOOLEAN
  <2>1. CASE Insert
    <3>1. img' = [Inserted EXCEPT !.fork = Inserted.fork \cup {}]
      BY <1>1, <2>1, InsertedTyped DEF Insert, Images
    <3> QED
      BY <2>1, <3>1 DEF Insert, Typed
  <2>2. CASE InsertGrows
    <3> DEFINE new == AllBlocks(allocFragments(alc, GrowBlocks))
    <3>1. new \in SUBSET Free(alc)
      BY <2>2, VolumeAssumption, FragmentsExact DEF InsertGrows, Typed
    <3>2. /\ img' = [Inserted EXCEPT !.fork = Inserted.fork \cup new]
          /\ alc' = alc \cup new
          /\ stale' = (stale \/ ~At("overflow"))
      BY <2>2 DEF InsertGrows
    <3>3. stale' \in BOOLEAN
      BY <3>2
    <3> QED
      BY <3>1, <3>2, <3>3
  <2> QED
    BY <2>1, <2>2
<1>8. PICK new \in SUBSET Free(alc) :
         /\ img' = [Inserted EXCEPT !.fork = Inserted.fork \cup new]
         /\ alc' = alc \cup new
         /\ stale' \in BOOLEAN
  BY <1>7
<1> DEFINE I == Inserted
<1>9. I \in Images /\ img' = [I EXCEPT !.fork = I.fork \cup new]
  BY <1>1, <1>8, InsertedTyped
<1>10. new \in SUBSET Blocks /\ alc' \in SUBSET Blocks
  BY <1>8 DEF Free, Typed
<1> HIDE DEF I
<1>11. /\ img' \in Images /\ img'.fork = I.fork \cup new
       /\ img'.next = I.next /\ img'.torn = I.torn
       /\ img'.bitmap = I.bitmap /\ img'.free = I.free
       /\ img'.blk = I.blk /\ img'.files = I.files
       /\ img'.folders = I.folders /\ img'.cat = I.cat
       /\ img'.thr = I.thr /\ img'.ovf = I.ovf
  BY <1>9, <1>10 DEF Images
<1>12. /\ I.next = img.next /\ I.torn = img.torn
       /\ I.fork = img.fork /\ I.bitmap = img.bitmap
       /\ I.free = img.free /\ I.blk = img.blk
       /\ I.files = img.files /\ I.folders = img.folders
       /\ I.cat = IF At("record") THEN [img.cat EXCEPT ![op.key] = op.rec]
                             ELSE img.cat
       /\ I.thr = IF At("thread") THEN [img.thr EXCEPT ![op.rec.id] = op.key]
                             ELSE img.thr
       /\ I.ovf = IF At("overflow") THEN [img.ovf EXCEPT ![op.rec.id] = op.spill]
                             ELSE img.ovf
  BY <1>1, InsertedTyped DEF I
<1>13. Typed'
  BY <1>1, <1>5, <1>8, <1>10, <1>11, <1>12, AdvanceTyped
<1> QED
  BY <1>1, <1>2, <1>3, <1>5, <1>6, <1>8, <1>11, <1>12, <1>13

\* An operation that returns an error in the middle of its edits.
LEMMA FailEffect ==
    ASSUME Typed, InsertNoSpace \/ ValenceFails
    PROVE  /\ op' = NoOp /\ alc' = {} /\ img'.torn = TRUE
           /\ img'.next = img.next /\ img'.blk = img.blk
           /\ img'.cat = img.cat /\ img'.thr = img.thr /\ img'.ovf = img.ovf
           /\ img'.fork = img.fork /\ img'.bitmap = img.bitmap
           /\ img'.free = img.free /\ img'.files = img.files
           /\ img'.folders = img.folders
           /\ UNCHANGED <<disk, stale, shown>>
           /\ Typed'
<1>1. img \in Images
  BY DEF Typed
<1>2. /\ img' = [img EXCEPT !.torn = TRUE] /\ op' = NoOp /\ alc' = {}
      /\ UNCHANGED <<disk, stale, shown>>
  BY DEF InsertNoSpace, ValenceFails, Fail
<1>3. /\ img' \in Images /\ img'.torn = TRUE
      /\ img'.next = img.next /\ img'.blk = img.blk
      /\ img'.cat = img.cat /\ img'.thr = img.thr /\ img'.ovf = img.ovf
      /\ img'.fork = img.fork /\ img'.bitmap = img.bitmap
      /\ img'.free = img.free /\ img'.files = img.files
      /\ img'.folders = img.folders
  BY <1>1, <1>2 DEF Images
<1>4. Typed'
  BY <1>2, <1>3, EndTyped DEF Typed
<1> QED
  BY <1>2, <1>3, <1>4

LEMMA CountEffect ==
    ASSUME Typed, Count
    PROVE  /\ op \in Ops /\ op.todo = C4
           /\ op' \in Ops /\ op'.todo = C3
           /\ op'.key = op.key /\ op'.old = op.old /\ op'.rec = op.rec
           /\ op'.spill = op.spill /\ op'.data = op.data
           /\ img'.files = img.files + 1 - FolderDelta(op.rec)
           /\ img'.folders = img.folders + FolderDelta(op.rec)
           /\ img'.next = img.next /\ img'.blk = img.blk /\ img'.torn = img.torn
           /\ img'.cat = img.cat /\ img'.thr = img.thr /\ img'.ovf = img.ovf
           /\ img'.fork = img.fork /\ img'.bitmap = img.bitmap
           /\ img'.free = img.free
           /\ UNCHANGED <<disk, alc, stale, shown>>
           /\ Typed'
<1>1. op \in Ops /\ op.todo = C4 /\ img \in Images /\ ~Idle
  BY AtStep, Places DEF Count
<1>2. op' = Advanced(op) /\ UNCHANGED <<disk, alc, stale, shown>>
  BY DEF Count
<1>3. ~Last(op.todo) /\ Rest(op.todo) = C3
  BY <1>1, Course
<1>4. /\ op' \in Ops /\ op'.todo = C3
      /\ op'.key = op.key /\ op'.old = op.old /\ op'.rec = op.rec
      /\ op'.spill = op.spill /\ op'.data = op.data
  BY <1>1, <1>2, <1>3, AdvanceEffect
<1> DEFINE f == img.files + 1 - FolderDelta(op.rec)
           g == img.folders + FolderDelta(op.rec)
<1>5. f \in Int /\ g \in Int
  BY <1>1 DEF Images, FolderDelta
<1>6. img' = [img EXCEPT !.files = f, !.folders = g]
  BY DEF Count
<1> HIDE DEF f, g
<1>7. /\ img' \in Images /\ img'.files = f /\ img'.folders = g
      /\ img'.next = img.next /\ img'.blk = img.blk /\ img'.torn = img.torn
      /\ img'.cat = img.cat /\ img'.thr = img.thr /\ img'.ovf = img.ovf
      /\ img'.fork = img.fork /\ img'.bitmap = img.bitmap
      /\ img'.free = img.free
  BY <1>1, <1>5, <1>6 DEF Images
<1>8. Typed'
  BY <1>1, <1>2, <1>7, AdvanceTyped DEF Typed
<1> QED
  BY <1>1, <1>2, <1>4, <1>7, <1>8 DEF f, g

LEMMA ValenceEffect ==
    ASSUME Typed, Valence
    PROVE  LET p == img.thr[Adjusting]
               d == IF Now(op.todo) = "enter" THEN 1 ELSE -1
           IN
           /\ op \in Ops /\ op.todo \in {C3, D3, O12, M4}
           /\ op' \in Ops /\ op'.todo = Rest(op.todo)
           /\ op'.key = op.key /\ op'.old = op.old /\ op'.rec = op.rec
           /\ op'.spill = op.spill /\ op'.data = op.data
           /\ Adjusting = IF Now(op.todo) = "enter" THEN op.key[1] ELSE op.old[1]
           /\ Found(Adjusting)
           /\ img'.cat \in [Keys -> Recs]
           /\ \A k \in Keys :
                 /\ img'.cat[k].kind = img.cat[k].kind
                 /\ img'.cat[k].id = img.cat[k].id
                 /\ img'.cat[k].ext = img.cat[k].ext
                 /\ img'.cat[k].size = img.cat[k].size
                 /\ img'.cat[k].holds = img.cat[k].holds
                 /\ k # p => img'.cat[k] = img.cat[k]
                 /\ k = p =>
                       /\ img'.cat[k].val = img.cat[k].val + d
                       /\ img'.cat[k].sub = img.cat[k].sub + d * FolderDelta(op.rec)
           /\ img'.next = img.next /\ img'.blk = img.blk /\ img'.torn = img.torn
           /\ img'.files = img.files /\ img'.folders = img.folders
           /\ img'.thr = img.thr /\ img'.ovf = img.ovf
           /\ img'.fork = img.fork /\ img'.bitmap = img.bitmap
           /\ img'.free = img.free
           /\ UNCHANGED <<disk, alc, stale, shown>>
           /\ Typed'
<1> DEFINE p == img.thr[Adjusting]
           d == IF Now(op.todo) = "enter" THEN 1 ELSE -1
           cat == adjustParentValence(img.cat, img.thr, Adjusting, d,
                                      d * FolderDelta(op.rec))
<1>1. (At("enter") \/ At("leave")) /\ op \in Ops /\ op.todo \in Todos /\ img \in Images /\ ~Idle
  BY AtStep DEF Valence
<1>2. \A s : At(s) <=> Now(op.todo) = s
  BY <1>1 DEF At, Now
<1>3. op.todo \in {C3, D3, O12, M4}
  BY <1>1, <1>2, Places
<1>4. op' = Advanced(op) /\ UNCHANGED <<disk, alc, stale, shown>> /\ Found(Adjusting)
  BY DEF Valence
<1>5. ~Last(op.todo)
  BY <1>3, Course
<1>6. /\ op' \in Ops /\ op'.todo = Rest(op.todo)
      /\ op'.key = op.key /\ op'.old = op.old /\ op'.rec = op.rec
      /\ op'.spill = op.spill /\ op'.data = op.data
  BY <1>1, <1>4, <1>5, AdvanceEffect
<1>7. Adjusting = IF Now(op.todo) = "enter" THEN op.key[1] ELSE op.old[1]
  BY <1>2 DEF Adjusting
<1>8. img' = [img EXCEPT !.cat = cat]
  BY <1>2 DEF Valence
<1>9. img.cat \in [Keys -> Recs] /\ img.cat[p].kind = "folder"
  BY <1>1, <1>4 DEF Images, Found
<1>10. d \in Int /\ d * FolderDelta(op.rec) \in Int
  BY DEF FolderDelta
<1>11. /\ cat \in [Keys -> Recs]
       /\ \A k \in Keys :
             /\ cat[k].kind = img.cat[k].kind
             /\ cat[k].id = img.cat[k].id
             /\ cat[k].ext = img.cat[k].ext
             /\ cat[k].size = img.cat[k].size
             /\ cat[k].holds = img.cat[k].holds
             /\ k # p => cat[k] = img.cat[k]
             /\ k = p => /\ cat[k].val = img.cat[k].val + d
                         /\ cat[k].sub = img.cat[k].sub + d * FolderDelta(op.rec)
  <2> HIDE DEF d
  <2> QED
    BY <1>9, <1>10, Adjusts
<1> HIDE DEF cat, d, p
<1>12. /\ img' \in Images /\ img'.cat = cat
       /\ img'.next = img.next /\ img'.blk = img.blk /\ img'.torn = img.torn
       /\ img'.files = img.files /\ img'.folders = img.folders
       /\ img'.thr = img.thr /\ img'.ovf = img.ovf
       /\ img'.fork = img.fork /\ img'.bitmap = img.bitmap
       /\ img'.free = img.free
  BY <1>1, <1>8, <1>11 DEF Images
<1>13. Typed'
  BY <1>1, <1>4, <1>12, AdvanceTyped DEF Typed
<1> QED
  BY <1>1, <1>3, <1>4, <1>6, <1>7, <1>11, <1>12, <1>13 DEF p, d

LEMMA RemoveEffect ==
    ASSUME Typed, Remove
    PROVE  /\ op \in Ops /\ op.todo \in {D4, O13}
           /\ op' \in Ops /\ op'.todo = Rest(op.todo)
           /\ op'.key = op.key /\ op'.old = op.old /\ op'.rec = op.rec
           /\ op'.spill = op.spill /\ op'.data = op.data
           /\ alc' = alc \ AllBlocks(Extents_(img, op.old))
           /\ img'.cat = [img.cat EXCEPT ![op.old] = NoRec]
           /\ img'.thr = [img.thr EXCEPT ![op.rec.id] = NoKey]
           /\ img'.ovf = [img.ovf EXCEPT ![op.rec.id] = {}]
           /\ img'.files = img.files - 1 + FolderDelta(op.rec)
           /\ img'.folders = img.folders - FolderDelta(op.rec)
           /\ img'.next = img.next /\ img'.blk = img.blk /\ img'.torn = img.torn
           /\ img'.fork = img.fork /\ img'.bitmap = img.bitmap
           /\ img'.free = img.free
           /\ UNCHANGED <<disk, stale, shown>>
           /\ Typed'
<1> DEFINE cat == [img.cat EXCEPT ![op.old] = NoRec]
           thr == [img.thr EXCEPT ![op.rec.id] = NoKey]
           ovf == [img.ovf EXCEPT ![op.rec.id] = {}]
           f == img.files - 1 + FolderDelta(op.rec)
           g == img.folders - FolderDelta(op.rec)
<1>1. op \in Ops /\ op.todo \in {D4, O13} /\ img \in Images /\ ~Idle
  BY AtStep, Places DEF Remove
<1>2. /\ op' = Advanced(op) /\ UNCHANGED <<disk, stale, shown>>
      /\ alc' = alc \ AllBlocks(Extents_(img, op.old))
  BY DEF Remove
<1>3. ~Last(op.todo)
  BY <1>1, Course
<1>4. /\ op' \in Ops /\ op'.todo = Rest(op.todo)
      /\ op'.key = op.key /\ op'.old = op.old /\ op'.rec = op.rec
      /\ op'.spill = op.spill /\ op'.data = op.data
  BY <1>1, <1>2, <1>3, AdvanceEffect
<1>5. /\ cat \in [Keys -> Recs]
      /\ thr \in [Dirs -> Keys \cup {NoKey}]
      /\ ovf \in [Dirs -> SUBSET Inside]
      /\ f \in Int /\ g \in Int
  <2>1. f \in Int /\ g \in Int
    BY <1>1 DEF Images, FolderDelta
  <2>2. cat \in [Keys -> Recs] /\ thr \in [Dirs -> Keys \cup {NoKey}]
    BY <1>1 DEF Images, Recs
  <2>3. ovf \in [Dirs -> SUBSET Inside]
    BY <1>1 DEF Images
  <2> QED
    BY <2>1, <2>2, <2>3
<1>6. img' = [img EXCEPT !.ovf = ovf, !.cat = cat, !.thr = thr,
                         !.files = f, !.folders = g]
  BY <1>1 DEF Remove, Images
<1> HIDE DEF cat, thr, ovf, f, g
<1>7. /\ img' \in Images /\ img'.cat = cat /\ img'.thr = thr /\ img'.ovf = ovf
      /\ img'.files = f /\ img'.folders = g
      /\ img'.next = img.next /\ img'.blk = img.blk /\ img'.torn = img.torn
      /\ img'.fork = img.fork /\ img'.bitmap = img.bitmap
      /\ img'.free = img.free
  BY <1>1, <1>5, <1>6 DEF Images
<1>8. Typed'
  BY <1>1, <1>2, <1>7, AdvanceTyped DEF Typed
<1> QED
  BY <1>1, <1>2, <1>4, <1>7, <1>8 DEF cat, thr, ovf, f, g

LEMMA UnlinkEffect ==
    ASSUME Typed, Unlink
    PROVE  /\ op \in Ops /\ op.todo \in {M7, R5, F4}
           /\ op' \in Ops /\ op'.todo = Rest(op.todo)
           /\ op'.key = op.key /\ op'.old = op.old /\ op'.rec = op.rec
           /\ op'.spill = op.spill /\ op'.data = op.data
           /\ img'.cat = [img.cat EXCEPT ![op.old] = NoRec]
           /\ img'.thr = IF op.todo = F4 THEN img.thr
                         ELSE [img.thr EXCEPT ![op.rec.id] = NoKey]
           /\ img'.next = img.next /\ img'.blk = img.blk /\ img'.torn = img.torn
           /\ img'.files = img.files /\ img'.folders = img.folders
           /\ img'.ovf = img.ovf /\ img'.fork = img.fork
           /\ img'.bitmap = img.bitmap /\ img'.free = img.free
           /\ UNCHANGED <<disk, alc, stale, shown>>
           /\ Typed'
<1> DEFINE cat == [img.cat EXCEPT ![op.old] = NoRec]
           thr == IF op.todo = F4 THEN img.thr
                  ELSE [img.thr EXCEPT ![op.rec.id] = NoKey]
<1>1. /\ At("unlink") \/ At("rekey")
      /\ op \in Ops /\ op.todo \in Todos /\ img \in Images /\ ~Idle
  BY AtStep DEF Unlink
<1>2. \A s : At(s) <=> Now(op.todo) = s
  BY <1>1 DEF At, Now
<1>3. op.todo \in {M7, R5, F4} /\ (At("unlink") <=> op.todo # F4)
  BY <1>1, <1>2, Places, Course
<1>4. op' = Advanced(op) /\ UNCHANGED <<disk, alc, stale, shown>>
  BY DEF Unlink
<1>5. ~Last(op.todo)
  BY <1>3, Course
<1>6. /\ op' \in Ops /\ op'.todo = Rest(op.todo)
      /\ op'.key = op.key /\ op'.old = op.old /\ op'.rec = op.rec
      /\ op'.spill = op.spill /\ op'.data = op.data
  BY <1>1, <1>4, <1>5, AdvanceEffect
<1>7. /\ cat \in [Keys -> Recs]
      /\ thr \in [Dirs -> Keys \cup {NoKey}]
  BY <1>1 DEF Images, Recs
<1>8. img' = [img EXCEPT !.cat = cat, !.thr = thr]
  <2>1. CASE op.todo = F4
    <3>1. ~At("unlink")
      BY <1>3, <2>1
    <3>2. [img.thr EXCEPT ![op.rec.id] = img.thr[op.rec.id]] = img.thr
      BY <1>1 DEF Images
    <3>3. img' = [img EXCEPT !.cat = cat,
                  !.thr = [img.thr EXCEPT ![op.rec.id] = img.thr[op.rec.id]]]
      BY <1>1, <3>1 DEF Unlink, Images
    <3> QED
      BY <2>1, <3>2, <3>3
  <2>2. CASE op.todo # F4
    <3>1. At("unlink")
      BY <1>3, <2>2
    <3> QED
      BY <1>1, <2>2, <3>1 DEF Unlink, Images
  <2> QED
    BY <2>1, <2>2
<1> HIDE DEF cat, thr
<1>9. /\ img' \in Images /\ img'.cat = cat /\ img'.thr = thr
      /\ img'.next = img.next /\ img'.blk = img.blk /\ img'.torn = img.torn
      /\ img'.files = img.files /\ img'.folders = img.folders
      /\ img'.ovf = img.ovf /\ img'.fork = img.fork
      /\ img'.bitmap = img.bitmap /\ img'.free = img.free
  BY <1>1, <1>7, <1>8 DEF Images
<1>10. Typed'
  BY <1>1, <1>4, <1>9, AdvanceTyped DEF Typed
<1> QED
  BY <1>1, <1>3, <1>4, <1>6, <1>9, <1>10 DEF cat, thr

LEMMA commitEffect ==
    ASSUME Typed, commit
    PROVE  /\ op \in Ops /\ op.todo \in {S2, O11}
           /\ op' \in Ops /\ op'.todo = Rest(op.todo)
           /\ op'.key = op.key /\ op'.old = op.old /\ op'.rec = op.rec
           /\ op'.spill = op.spill /\ op'.data = op.data
           /\ img'.bitmap = alc /\ img'.free = freeCount(alc)
           /\ img'.cat = img.cat /\ img'.thr = img.thr /\ img'.ovf = img.ovf
           /\ img'.next = img.next /\ img'.blk = img.blk /\ img'.torn = img.torn
           /\ img'.files = img.files /\ img'.folders = img.folders
           /\ img'.fork = img.fork
           /\ shown' = View(img.cat)
           /\ UNCHANGED disk
           /\ Typed'
<1>1. op \in Ops /\ op.todo \in {S2, O11} /\ img \in Images /\ ~Idle
  BY AtStep, Places DEF commit
<1>2. /\ op' = Advanced(op) /\ UNCHANGED disk /\ shown' = View(img.cat)
      /\ alc' = {} /\ stale' = FALSE
      /\ img' = [img EXCEPT !.bitmap = alc, !.free = freeCount(alc)]
  BY DEF commit
<1>3. ~Last(op.todo)
  BY <1>1, Course
<1>4. /\ op' \in Ops /\ op'.todo = Rest(op.todo)
      /\ op'.key = op.key /\ op'.old = op.old /\ op'.rec = op.rec
      /\ op'.spill = op.spill /\ op'.data = op.data
  BY <1>1, <1>2, <1>3, AdvanceEffect
<1>5. alc \in SUBSET Blocks /\ freeCount(alc) \in 0 .. TotalBlocks
  BY FreeCountBound DEF Typed
<1>6. /\ img' \in Images /\ img'.bitmap = alc /\ img'.free = freeCount(alc)
      /\ img'.cat = img.cat /\ img'.thr = img.thr /\ img'.ovf = img.ovf
      /\ img'.next = img.next /\ img'.blk = img.blk /\ img'.torn = img.torn
      /\ img'.files = img.files /\ img'.folders = img.folders
      /\ img'.fork = img.fork
  BY <1>1, <1>2, <1>5 DEF Images
<1>7. Typed'
  BY <1>1, <1>2, <1>6, AdvanceTyped DEF Typed
<1> QED
  BY <1>1, <1>2, <1>4, <1>6, <1>7

LEMMA SyncEffect ==
    ASSUME Typed, Sync
    PROVE  /\ disk' = img /\ UNCHANGED <<img, alc, stale, shown>>
           /\ \/ Idle /\ op' = op
              \/ op.todo = S1 /\ op' = NoOp
              \/ /\ op \in Ops /\ op.todo = O10 /\ op' \in Ops /\ op'.todo = O9
                 /\ op'.key = op.key /\ op'.old = op.old /\ op'.rec = op.rec
                 /\ op'.spill = op.spill /\ op'.data = op.data
           /\ Typed'
<1>1. disk' = img /\ UNCHANGED <<img, alc, stale, shown>>
  BY DEF Sync
<1>2. CASE Idle
  <2>1. op' = op
    BY <1>2 DEF Sync
  <2>2. Typed'
    BY <1>1, <2>1 DEF Typed, IdLeft
  <2> QED
    BY <1>1, <1>2, <2>1, <2>2
<1>3. CASE ~Idle
  <2>1. op \in Ops /\ op.todo \in {S1, O10} /\ op' = Advanced(op)
    BY <1>3, AtStep, Places DEF Sync
  <2>2. op' \in Ops \cup {NoOp} /\ (op'.todo \in Promised => op.todo \in Promised)
    BY <2>1, Advances
  <2>3. Typed'
    BY <1>1, <2>2 DEF Typed, IdLeft
  <2>4. CASE op.todo = S1
    BY <1>1, <2>1, <2>3, <2>4, Course, Advances
  <2>5. CASE op.todo = O10
    BY <1>1, <2>1, <2>3, <2>5, Course, AdvanceEffect
  <2> QED
    BY <2>1, <2>4, <2>5
<1> QED
  BY <1>2, <1>3

LEMMA SyncFailsEffect ==
    ASSUME Typed, SyncFails
    PROVE  /\ op \in Ops /\ op.todo \in {S1, O10} /\ op' = NoOp /\ alc' = {}
           /\ UNCHANGED <<img, disk, stale, shown>>
           /\ Typed'
<1>1. op \in Ops /\ op.todo \in {S1, O10}
  BY AtStep, Places DEF SyncFails
<1>2. op' = NoOp /\ alc' = {} /\ UNCHANGED <<img, disk, stale, shown>>
  BY DEF SyncFails, Fail
<1> QED
  BY <1>1, <1>2, EndTyped DEF Typed

LEMMA RestartEffect ==
    ASSUME Typed, Restart
    PROVE  /\ op' = NoOp /\ alc' = {} /\ img' = disk /\ disk' = disk
           /\ shown' = View(disk.cat)
           /\ Typed'
<1>1. /\ op' = NoOp /\ alc' = {} /\ img' = disk /\ disk' = disk
      /\ stale' = FALSE /\ shown' = View(disk.cat)
  BY DEF Restart, Fail
<1> QED
  BY <1>1, EndTyped DEF Typed

\* Every step keeps the types.
LEMMA NextTyped == Typed /\ [Next]_vars => Typed'
<1> SUFFICES ASSUME Typed, [Next]_vars
             PROVE  Typed'
  OBVIOUS
<1>1. CASE Idle /\ Call
  BY <1>1, CallTyped
<1>2. CASE Step
  BY <1>2, RebeginEffect, AllocEffect, AllocNoSpaceEffect, InsertEffect,
     FailEffect, CountEffect, ValenceEffect, RemoveEffect, UnlinkEffect,
     commitEffect DEF Step
<1>3. CASE Sync \/ SyncFails \/ Restart
  BY <1>3, SyncEffect, SyncFailsEffect, RestartEffect
<1>4. CASE UNCHANGED vars
  BY <1>4 DEF vars, Typed, IdLeft
<1> QED
  BY <1>1, <1>2, <1>3, <1>4 DEF Next

\* The image mkfs makes: a label, the root folder and its thread.
LEMMA FreshTyped ==
    ASSUME NEW n \in Names
    PROVE  /\ MkfsImage(n) \in Images
           /\ MkfsImage(n).cat = [k \in Keys |-> IF k = <<RootParent, n>>
                                                THEN FolderRec(Root) ELSE NoRec]
           /\ ~MkfsImage(n).torn
<1>1. FolderRec(Root) \in Recs /\ NoRec \in Recs
  BY NewFolder DEF Recs
<1>2. freeCount(Reserved) \in 0 .. TotalBlocks
  BY FreeCountBound, VolumeAssumption
<1>3. <<RootParent, n>> \in Keys
  BY DEF Keys, Dirs
<1>4. FirstUser \in FirstUser .. (LastCNID + 1)
  BY VolumeAssumption DEF FirstUser
<1> QED
  BY <1>1, <1>2, <1>3, <1>4, VolumeAssumption DEF MkfsImage, Images, Stored

\* A fresh volume is typed.
LEMMA InitTyped == Init => Typed
<1> SUFFICES ASSUME Init
             PROVE  Typed
  OBVIOUS
<1> DEFINE n == CHOOSE m \in Names : TRUE
<1>1. n \in Names
  BY VolumeAssumption
<1> HIDE DEF n
<1>2. /\ img = MkfsImage(n) /\ disk = img /\ op = NoOp /\ alc = {}
      /\ stale = FALSE
  BY DEF Init, n
<1>3. op.todo \notin Promised
  BY <1>2, NothingPromised DEF NoOp
<1> QED
  BY <1>1, <1>2, <1>3, FreshTyped DEF Typed, IdLeft

\* In every state of the volume images, operations and bitmaps have their
\* types, also after operations that failed half way.
THEOREM AlwaysTyped == Spec => []Typed
BY InitTyped, NextTyped, PTL DEF Spec

-----------------------------------------------------------------------------
(* Catalog ids. *)

\* Lists of an operation that has not yet deleted the record it found.
Finding == UNION {Deleting, Clearing, Unlinking}

\* Lists of an operation that holds a record which is not in the catalog.
Holding == UNION {Inserting, Relinking}

\* In every state the ids of an image are different and below its next one;
\* so is the id of a record that is about to be inserted.
Ids ==
    /\ IdsMatch(img)
    /\ IdsMatch(disk)
    /\ op.todo \in Finding =>
          op.old \in Named(img.cat) /\ img.cat[op.old] = op.rec
    /\ op.todo \in Holding =>
          /\ op.rec.kind # "none"
          /\ op.rec.id < img.next
          /\ \A k \in Named(img.cat) : img.cat[k].id # op.rec.id

\* Which lists find a record in the catalog and which hold one back.
LEMMA IdLists ==
    /\ Finding = {D4, O13, M7, R5, F4}
    /\ Holding = {C7, C6, M6, R4, F3}
    /\ \A t \in Todos : Now(t) \in {"sync", "commit", "leave", "begin", "alloc",
                                    "thread", "count", "enter"}
                           => t \notin Finding /\ t \notin Holding
    /\ <<>> \notin Finding /\ <<>> \notin Holding
<1>1. /\ Finding = {D4, O13, M7, R5, F4}
      /\ Holding = {C7, C6, M6, R4, F3}
  BY DEF Finding, Holding, Deleting, Clearing, Unlinking, Inserting, Relinking
<1>2. Finding \subseteq Todos /\ Holding \subseteq Todos
  BY DEF Finding, Holding, Todos
<1>3. \A t \in Finding \cup Holding : Now(t) \in {"remove", "unlink", "rekey", "overflow", "record"}
  BY <1>1, Course
<1> QED
  BY <1>1, <1>2, <1>3, NothingPromised

\* Ids depend on kinds and ids only.
LEMMA SameIds ==
    ASSUME NEW i, NEW j, IdsMatch(i), j.next = i.next,
           \A k \in Keys : /\ j.cat[k].kind = i.cat[k].kind
                           /\ j.cat[k].id = i.cat[k].id
    PROVE  IdsMatch(j) /\ Named(j.cat) = Named(i.cat)
BY DEF IdsMatch, Named

\* A step that changes no record's id and ends or continues past the records.
LEMMA QuietIds ==
    ASSUME Typed, Ids, IdsMatch(img'), disk' = disk,
           op'.todo \notin Finding, op'.todo \notin Holding
    PROVE  Ids'
BY DEF Ids

\* The calls: what is found is in the catalog, and a new folder has the id
\* that was next.
LEMMA CallIds ==
    ASSUME Typed, Ids, Idle, Call
    PROVE  Ids'
<1> USE DEF Paths
<1>1. img \in Images
  BY DEF Typed
<1>2. IdsMatch(img) /\ IdsMatch(disk)
  BY DEF Ids
<1>3. ASSUME NEW todo, NEW key, NEW old, NEW rec, NEW data,
             Start(todo, key, old, rec, data), img' = img,
             todo \in Finding => old \in Named(img.cat) /\ img.cat[old] = rec,
             todo \notin Holding
      PROVE  Ids'
  <2>1. op'.todo = todo /\ op'.old = old /\ op'.rec = rec /\ disk' = disk
    BY <1>3 DEF Start
  <2> QED
    BY <1>2, <1>3, <2>1 DEF Ids
<1>4. /\ {D4, O13, C8, M7, R5, F4} \cap Holding = {}
      /\ C8 \notin Finding
      /\ C6 \notin Finding /\ C6 \in Holding
  BY IdLists, Course
<1>5. ASSUME NEW k \in Keys, NEW l \in lookupChild(img.cat, k), NEW data,
             Overwrite(k, l, data)
      PROVE  Ids'
  BY <1>1, <1>3, <1>4, <1>5, FoundTyped, Begins DEF Overwrite
<1>6. ASSUME NEW k \in Keys, NEW data, NewFile(k, data)
      PROVE  Ids'
  BY <1>3, <1>4, <1>6, Begins DEF NewFile
<1>7. ASSUME NEW k \in Keys, MkDir(k)
      PROVE  Ids'
  <2>1. /\ img' = [img EXCEPT !.next = img.next + 1] /\ disk' = disk
        /\ img.next <= LastCNID
        /\ op'.todo = C6 /\ op'.rec = FolderRec(img.next)
    BY <1>7, Begins DEF MkDir, Start
  <2>2. img'.cat = img.cat /\ img'.next = img.next + 1 /\ img.next \in Nat
    BY <1>1, <2>1, VolumeAssumption DEF Images, FirstUser
  <2>3. img.next \in UserIds
    BY <1>1, <2>1, VolumeAssumption DEF Images, UserIds, FirstUser
  <2>4. op'.rec.kind = "folder" /\ op'.rec.id = img.next
    BY <2>1, <2>3, NewFolder DEF FolderRecs
  <2>5. \A k1 \in Named(img.cat) : img.cat[k1].id \in Nat
    BY <1>1, IdsAreDirs DEF Named, Images, Dirs, UserIds, FirstUser, Root, RootParent
  <2> QED
    BY <1>2, <1>4, <2>1, <2>2, <2>4, <2>5 DEF Ids, IdsMatch
<1>8. ASSUME NEW k \in Keys, DeleteFile(k) \/ DeleteDir(k)
      PROVE  Ids'
  BY <1>1, <1>3, <1>4, <1>8, FoundTyped, Begins DEF DeleteFile, DeleteDir
<1>9. ASSUME NEW k \in Keys, NEW new \in Keys, Rename(k, new)
      PROVE  Ids'
  <2>1. PICK l \in lookupChild(img.cat, k) :
           Start(IF l[1] # new[1] THEN MoveSteps ELSE RenameSteps,
                 new, l, img.cat[l], <<>>)
    BY <1>9 DEF Rename
  <2>2. (IF l[1] # new[1] THEN MoveSteps ELSE RenameSteps) \in {M7, R5}
    BY Begins
  <2>3. img' = img
    BY <1>9 DEF Rename
  <2> QED
    BY <1>1, <1>3, <1>4, <2>1, <2>2, <2>3, FoundTyped
<1>10. ASSUME NEW k \in Keys, SetFinderInfo(k)
       PROVE  Ids'
  BY <1>1, <1>3, <1>4, <1>10, FoundTyped, Begins DEF SetFinderInfo
<1>11. ASSUME NEW n \in Names, SetLabel(n)
       PROVE  Ids'
  <2>1. PICK k \in Label : Start(RenameSteps, <<RootParent, n>>, k, img.cat[k], <<>>)
    BY <1>11 DEF SetLabel
  <2>2. img' = img /\ k \in Named(img.cat)
    BY <1>11 DEF SetLabel, Label, Children
  <2> QED
    BY <1>3, <1>4, <2>1, <2>2, Begins
<1>12. Label \subseteq Keys
  BY DEF Label, Children, Named
<1> QED
  BY <1>5, <1>6, <1>7, <1>8, <1>9, <1>10, <1>11, <1>12
     DEF Call, WriteFile, Symlink, Truncate

\* Deleting a record: the others keep their ids.
LEMMA DropIds ==
    ASSUME Typed, Ids, op \in Ops, op.todo \in Finding,
           img'.cat = [img.cat EXCEPT ![op.old] = NoRec],
           img'.next = img.next, disk' = disk, op'.rec = op.rec,
           op'.todo \notin Finding
    PROVE  Ids'
<1>1. op.old \in Named(img.cat) /\ img.cat[op.old] = op.rec
  BY DEF Ids
<1>2. img.cat \in [Keys -> Recs] /\ op.old \in Keys
  BY <1>1 DEF Typed, Images, Named
<1>3. \A k \in Keys : img'.cat[k] = IF k = op.old THEN NoRec ELSE img.cat[k]
  BY <1>2
<1>4. Named(img'.cat) = Named(img.cat) \ {op.old}
  BY <1>3 DEF Named, NoRec
<1>5. \A k \in Named(img'.cat) : img'.cat[k] = img.cat[k]
  BY <1>2, <1>3, <1>4 DEF Named
<1>6. IdsMatch(img')
  BY <1>4, <1>5 DEF Ids, IdsMatch
<1>7. op'.rec.kind # "none" /\ op'.rec.id < img'.next
  BY <1>1 DEF Ids, IdsMatch, Named
<1>8. \A k \in Named(img'.cat) : img'.cat[k].id # op'.rec.id
  BY <1>1, <1>4, <1>5 DEF Ids, IdsMatch
<1> QED
  BY <1>6, <1>7, <1>8 DEF Ids

\* Inserting the record held back.
LEMMA PutIds ==
    ASSUME Typed, Ids, op \in Ops, op.todo \in Holding,
           img'.cat = [img.cat EXCEPT ![op.key] = op.rec],
           img'.next = img.next, disk' = disk,
           op'.todo \notin Finding, op'.todo \notin Holding
    PROVE  Ids'
<1>1. img.cat \in [Keys -> Recs] /\ op.key \in Keys
  BY DEF Typed, Images, Ops
<1>2. \A k \in Keys : img'.cat[k] = IF k = op.key THEN op.rec ELSE img.cat[k]
  BY <1>1
<1>3. /\ op.rec.kind # "none" /\ op.rec.id < img.next
      /\ \A k \in Named(img.cat) : img.cat[k].id # op.rec.id
  BY DEF Ids
<1>4. ASSUME NEW k \in Named(img'.cat), k # op.key
      PROVE  k \in Named(img.cat) /\ img'.cat[k] = img.cat[k]
  BY <1>2, <1>4 DEF Named
<1>5. img'.cat[op.key] = op.rec
  BY <1>1
<1>6. IdsMatch(img')
  BY <1>3, <1>4, <1>5 DEF Ids, IdsMatch
<1> QED
  BY <1>6, QuietIds

\* Every step keeps the ids different.
LEMMA NextIds == Typed /\ Ids /\ [Next]_vars => Ids'
<1> SUFFICES ASSUME Typed, Ids, [Next]_vars
             PROVE  Ids'
  OBVIOUS
<1> DEFINE quiet == {S1, S2, D3, O12, O11, O10, O9, C8, C5, C4, C3, M5, M4, R3}
<1>1. /\ \A t \in quiet : t \notin Finding /\ t \notin Holding
      /\ NoOp.todo \notin Finding /\ NoOp.todo \notin Holding
  <2>1. quiet \subseteq Todos
    BY DEF Todos, Deleting, Deleted, Clearing, Cleared, Between, Making,
       Inserting, Made, Unlinking, Relinking, Moved, Syncing
  <2>2. \A t \in quiet : Now(t) \in {"sync", "commit", "leave", "begin", "alloc",
                                     "thread", "count", "enter"}
    BY Course
  <2> QED
    BY <2>1, <2>2, IdLists DEF NoOp
<1>2. IdsMatch(img) /\ IdsMatch(disk) /\ img \in Images
  BY DEF Ids, Typed
<1>3. CASE Idle /\ Call
  BY <1>3, CallIds
<1>4. CASE Rebegin
  BY <1>1, <1>2, <1>4, RebeginEffect, QuietIds
<1>5. CASE Alloc
  <2> DEFINE runs == allocFragments(alc, Len(op.data))
  <2>1. /\ img.next \in UserIds /\ img'.next = img.next + 1 /\ img'.cat = img.cat
        /\ op'.rec = FileRec(img.next, Inline(runs), op.data)
        /\ op'.todo \in {C6, C7} /\ disk' = disk
    BY <1>5, AllocEffect
  <2>2. op'.rec.kind = "file" /\ op'.rec.id = img.next
    BY <2>1 DEF FileRec
  <2>3. \A k \in Named(img.cat) : img.cat[k].id \in Nat
    BY <1>2, IdsAreDirs DEF Named, Images, Dirs, UserIds, FirstUser, Root, RootParent
  <2>4. img.next \in Nat
    BY <2>1, VolumeAssumption DEF UserIds, FirstUser
  <2>5. op'.todo \notin Finding
    BY <2>1, IdLists, Course
  <2>6. \A k \in Named(img.cat) : img.cat[k].id < img.next
    BY <1>2 DEF IdsMatch
  <2>7. IdsMatch(img')
    BY <1>2, <2>1, <2>3, <2>4, <2>6 DEF IdsMatch
  <2> QED
    BY <1>2, <2>1, <2>2, <2>3, <2>4, <2>5, <2>6, <2>7 DEF Ids
<1>6. CASE AllocNoSpace
  <2>1. /\ img'.next = img.next + 1 /\ img'.cat = img.cat /\ op' = NoOp
        /\ disk' = disk
    BY <1>6, AllocNoSpaceEffect
  <2>2. \A k \in Named(img.cat) : img.cat[k].id \in Nat
    BY <1>2, IdsAreDirs DEF Named, Images, Dirs, UserIds, FirstUser, Root, RootParent
  <2>3. img.next \in Nat
    BY <1>2, VolumeAssumption DEF Images, FirstUser
  <2>4. IdsMatch(img')
    BY <1>2, <2>1, <2>2, <2>3 DEF IdsMatch
  <2> QED
    BY <1>1, <2>1, <2>4, QuietIds
<1>7. CASE Insert \/ InsertGrows
  <2>1. /\ op \in Ops /\ op.todo \in {C7, C6, M6, R4, F3, C5, M5, R3}
        /\ op'.todo = Rest(op.todo) /\ op'.rec = op.rec
        /\ img'.cat = IF Now(op.todo) = "record"
                      THEN [img.cat EXCEPT ![op.key] = op.rec] ELSE img.cat
        /\ img'.next = img.next /\ disk' = disk
    BY <1>7, InsertEffect
  <2>2. CASE op.todo = C7
    <3>1. img'.cat = img.cat /\ op'.todo = C6 /\ op'.todo \notin Finding /\ op.todo \in Holding
      BY <2>1, <2>2, Course, IdLists
    <3> QED
      BY <1>2, <2>1, <3>1 DEF Ids, IdsMatch
  <2>3. CASE op.todo \in {C6, M6, R4, F3}
    <3>1. /\ img'.cat = [img.cat EXCEPT ![op.key] = op.rec]
          /\ op.todo \in Holding /\ op'.todo \in quiet
      BY <2>1, <2>3, Course, IdLists
    <3> QED
      BY <1>1, <2>1, <3>1, PutIds
  <2>4. CASE op.todo \in {C5, M5, R3}
    <3>1. img'.cat = img.cat /\ op'.todo \in quiet
      BY <2>1, <2>4, Course
    <3>2. IdsMatch(img')
      BY <1>2, <2>1, <3>1 DEF IdsMatch
    <3> QED
      BY <1>1, <2>1, <3>1, <3>2, QuietIds
  <2> QED
    BY <2>1, <2>2, <2>3, <2>4
<1>8. CASE InsertNoSpace \/ ValenceFails
  <2>1. op' = NoOp /\ img'.cat = img.cat /\ img'.next = img.next /\ disk' = disk
    BY <1>8, FailEffect
  <2>2. IdsMatch(img')
    BY <1>2, <2>1 DEF IdsMatch
  <2> QED
    BY <1>1, <2>1, <2>2, QuietIds
<1>9. CASE Count
  <2>1. op'.todo = C3 /\ img'.cat = img.cat /\ img'.next = img.next /\ disk' = disk
    BY <1>9, CountEffect
  <2>2. IdsMatch(img')
    BY <1>2, <2>1 DEF IdsMatch
  <2> QED
    BY <1>1, <2>1, <2>2, QuietIds
<1>10. CASE Valence
  <2>1. /\ op.todo \in {C3, D3, O12, M4} /\ op'.todo = Rest(op.todo)
        /\ img'.next = img.next /\ disk' = disk
        /\ \A k \in Keys : /\ img'.cat[k].kind = img.cat[k].kind
                           /\ img'.cat[k].id = img.cat[k].id
    BY <1>10, ValenceEffect
  <2>2. op'.todo \in quiet
    BY <2>1, Course
  <2>3. IdsMatch(img')
    BY <1>2, <2>1, SameIds
  <2> QED
    BY <1>1, <2>1, <2>2, <2>3, QuietIds
<1>11. CASE Remove
  <2>1. /\ op \in Ops /\ op.todo \in {D4, O13} /\ op'.todo = Rest(op.todo)
        /\ img'.cat = [img.cat EXCEPT ![op.old] = NoRec]
        /\ img'.next = img.next /\ disk' = disk /\ op'.rec = op.rec
    BY <1>11, RemoveEffect
  <2>2. op.todo \in Finding /\ op'.todo \in quiet
    BY <2>1, Course, IdLists
  <2> QED
    BY <1>1, <2>1, <2>2, DropIds
<1>12. CASE Unlink
  <2>1. /\ op \in Ops /\ op.todo \in {M7, R5, F4} /\ op'.todo = Rest(op.todo)
        /\ img'.cat = [img.cat EXCEPT ![op.old] = NoRec]
        /\ img'.next = img.next /\ disk' = disk /\ op'.rec = op.rec
    BY <1>12, UnlinkEffect
  <2>2. op.todo \in Finding /\ op'.todo \in {M6, R4, F3}
    BY <2>1, Course, IdLists
  <2>3. op'.todo \notin Finding
    BY <2>2, Course, IdLists
  <2> QED
    BY <2>1, <2>2, <2>3, DropIds
<1>13. CASE commit
  <2>1. /\ op.todo \in {S2, O11} /\ op'.todo = Rest(op.todo)
        /\ img'.cat = img.cat /\ img'.next = img.next /\ disk' = disk
    BY <1>13, commitEffect
  <2>2. op'.todo \in quiet
    BY <2>1, Course
  <2>3. IdsMatch(img')
    BY <1>2, <2>1 DEF IdsMatch
  <2> QED
    BY <1>1, <2>1, <2>2, <2>3, QuietIds
<1>14. CASE Sync
  <2>1. /\ disk' = img /\ img' = img
        /\ (Idle /\ op' = op) \/ op' = NoOp \/ op'.todo = O9
    BY <1>14, SyncEffect
  <2>2. op'.todo \notin Finding /\ op'.todo \notin Holding
    BY <1>1, <2>1 DEF Idle
  <2> QED
    BY <1>2, <2>1, <2>2 DEF Ids
<1>15. CASE SyncFails
  BY <1>1, <1>2, <1>15, SyncFailsEffect, QuietIds
<1>16. CASE Restart
  BY <1>1, <1>2, <1>16, RestartEffect DEF Ids
<1>17. CASE UNCHANGED vars
  BY <1>17 DEF vars, Ids
<1> QED
  BY <1>3, <1>4, <1>5, <1>6, <1>7, <1>8, <1>9, <1>10, <1>11, <1>12, <1>13,
     <1>14, <1>15, <1>16, <1>17 DEF Next, Step

\* A fresh volume has one id.
LEMMA InitIds == Init => Ids
<1> SUFFICES ASSUME Init
             PROVE  Ids
  OBVIOUS
<1> DEFINE n == CHOOSE m \in Names : TRUE
<1>1. n \in Names
  BY VolumeAssumption
<1> HIDE DEF n
<1>2. img = MkfsImage(n) /\ disk = img /\ op = NoOp
  BY DEF Init, n
<1>3. \A k \in Named(img.cat) : k = <<RootParent, n>> /\ img.cat[k].id = Root
  <2>1. FolderRec(Root).id = Root /\ NoRec.kind = "none"
    BY DEF FolderRec, NoRec
  <2>2. \A k \in Keys : img.cat[k] = IF k = <<RootParent, n>>
                                     THEN FolderRec(Root) ELSE NoRec
    BY <1>1, <1>2, FreshTyped
  <2> QED
    BY <2>1, <2>2 DEF Named
<1>4. img.next = FirstUser
  BY <1>2 DEF MkfsImage
<1>5. IdsMatch(img)
  BY <1>3, <1>4 DEF IdsMatch, Root, FirstUser
<1>6. op.todo \notin Finding /\ op.todo \notin Holding
  BY <1>2, IdLists DEF NoOp
<1> QED
  BY <1>2, <1>5, <1>6 DEF Ids

\* In every state the ids of the records are different and below the next one.
THEOREM AlwaysIds == Spec => []Ids
BY InitTyped, NextTyped, InitIds, NextIds, PTL DEF Spec

\* nextCNID never hands out an id that an entry has: not on a volume whose
\* operations failed half way either, nor after any number of restarts.
THEOREM IdsAlwaysFresh == Spec => []IdsFresh
<1>1. Ids => IdsFresh
  BY DEF Ids, IdsFresh, Visible
<1> QED
  BY <1>1, AlwaysIds, PTL

-----------------------------------------------------------------------------
(* The tree of entries, and how far an operation has got with it. *)

Entries == {Entry(NoRec)}
             \cup [kind : {"file"}, id : UserIds, holds : Contents]
             \cup [kind : {"folder"}, id : {Root} \cup UserIds, holds : {<<>>}]

HasFolder(t, d) == \E k \in Named(t) : t[k].kind = "folder" /\ t[k].id = d

\* A tree: one entry per name and per id, a root whose name is the label, and
\* every other entry in a folder.
WellFormed(t) ==
    /\ \A k, l \in Named(t) : k[1] = l[1] /\ Fold[k[2]] = Fold[l[2]] => k = l
    /\ \A k, l \in Named(t) : t[k].id = t[l].id => k = l
    /\ \A k \in Named(t) : k[1] = RootParent <=> t[k].id = Root
    /\ \A k \in Named(t) : k[1] = RootParent \/ HasFolder(t, k[1])
    /\ HasFolder(t, Root)

\* No entry but the one at old has the name of key.
NameFree(t, old, key) ==
    \A k \in Named(t) \ {old} : k[1] = key[1] => Fold[k[2]] # Fold[key[2]]

Removable(t, o) ==
    /\ o.old \in Named(t) /\ t[o.old] = Entry(o.rec)
    /\ o.old[1] # RootParent
    /\ \A k \in Named(t) : k[1] # o.rec.id

Replaceable(t, o) ==
    /\ Removable(t, o) /\ o.rec.kind = "file"
    /\ NameFree(t, o.old, o.key) /\ HasFolder(t, o.key[1])

Creatable(t, o) == NameFree(t, NoKey, o.key) /\ HasFolder(t, o.key[1])

Insertable(t, o) ==
    /\ Creatable(t, o)
    /\ o.rec.kind # "none" /\ o.rec.id # Root
    /\ \A k \in Named(t) : t[k].id # o.rec.id

Movable(t, o) ==
    /\ o.old \in Named(t) /\ t[o.old] = Entry(o.rec)
    /\ NameFree(t, o.old, o.key)
    /\ o.old[1] = RootParent <=> o.key[1] = RootParent
    /\ o.key[1] = RootParent \/ HasFolder(t, o.key[1])

Without(t, o) == [t EXCEPT ![o.old] = Entry(NoRec)]
With(t, o)    == [t EXCEPT ![o.key] = Entry(o.rec)]

\* How the entries in the image v differ from those of the last commit t.
Progress(v, t, o) ==
    \/ o = NoOp              /\ v = t
    \/ o.todo \in Syncing    /\ v = t
    \/ o.todo \in Deleting   /\ v = t             /\ Removable(t, o)
    \/ o.todo \in Deleted    /\ v = Without(t, o) /\ Removable(t, o)
    \/ o.todo \in Clearing   /\ v = t             /\ Replaceable(t, o)
    \/ o.todo \in Cleared    /\ v = Without(t, o) /\ Replaceable(t, o)
    \/ o.todo \in Between    /\ v = t             /\ Creatable(t, o)
    \/ o.todo \in Making     /\ v = t             /\ Creatable(t, o)
    \/ o.todo \in Inserting  /\ v = t             /\ Insertable(t, o)
    \/ o.todo \in Made       /\ v = With(t, o)    /\ Insertable(t, o)
    \/ o.todo \in Unlinking  /\ v = t             /\ Movable(t, o)
    \/ o.todo \in Relinking  /\ v = Without(t, o) /\ Movable(t, o)
    \/ o.todo \in Moved      /\ v = With(Without(t, o), o) /\ Movable(t, o)

\* Until an operation has failed half way.
Tree ==
    /\ shown \in [Keys -> Entries]
    /\ ~disk.torn => WellFormed(View(disk.cat))
    /\ ~img.torn => WellFormed(shown) /\ Progress(View(img.cat), shown, op)

-----------------------------------------------------------------------------
(* The tree's operators. *)

\* Two lists that ask for the same step differ in what they leave.
LEMMA Distinct ==
    /\ D4 # O13 /\ D3 # O12 /\ D3 # M4 /\ O12 # M4 /\ S2 # O11 /\ S1 # O10
    /\ C6 # M6 /\ C6 # R4 /\ C6 # F3 /\ M6 # R4 /\ M6 # F3 /\ R4 # F3
    /\ C5 # M5 /\ C5 # R3 /\ M5 # R3 /\ M7 # R5
<1>1. S2 # O11 /\ S1 # O10
  BY Course
<1>2. D3 # O12 /\ D3 # M4 /\ O12 # M4 /\ C5 # M5 /\ C5 # R3 /\ M5 # R3
  BY <1>1, Course
<1> QED
  BY <1>1, <1>2, Course

\* What Progress says of each list.
LEMMA Stages ==
    ASSUME NEW v, NEW t, NEW o, Progress(v, t, o)
    PROVE  /\ o.todo \in {<<>>, S1} => v = t
           /\ o.todo = D4 => v = t /\ Removable(t, o)
           /\ o.todo = D3 => v = Without(t, o) /\ Removable(t, o)
           /\ o.todo = O13 => v = t /\ Replaceable(t, o)
           /\ o.todo \in {O12, O11} => v = Without(t, o) /\ Replaceable(t, o)
           /\ o.todo \in {O10, O9, C8} => v = t /\ Creatable(t, o)
           /\ o.todo \in {C7, C6} => v = t /\ Insertable(t, o)
           /\ o.todo \in {C5, C4} => v = With(t, o) /\ Insertable(t, o)
           /\ o.todo \in {M7, R5, F4} => v = t /\ Movable(t, o)
           /\ o.todo \in {M6, R4, F3} => v = Without(t, o) /\ Movable(t, o)
           /\ o.todo \in {M5, M4, R3} =>
                 v = With(Without(t, o), o) /\ Movable(t, o)
           /\ o.todo = C3 => \/ v = With(t, o) /\ Insertable(t, o)
                             \/ v = With(Without(t, o), o) /\ Movable(t, o)
           /\ o.todo = S2 => \/ v = Without(t, o) /\ Removable(t, o)
                             \/ v = With(t, o) /\ Insertable(t, o)
                             \/ v = With(Without(t, o), o) /\ Movable(t, o)
<1>1. NoOp.todo = <<>>
  BY DEF NoOp
<1>2. \A x \in Todos : x # <<>>
  BY NothingPromised
<1>3. UNION {Deleting, Deleted, Clearing, Cleared, Between, Making, Inserting,
             Made, Unlinking, Relinking, Moved, Syncing} \subseteq Todos
  BY DEF Todos
<1>4. /\ \A x : x \in Syncing <=> x = S1
      /\ \A x : x \in Deleting <=> x = D4
      /\ \A x : x \in Deleted <=> x \in {D3, S2}
      /\ \A x : x \in Clearing <=> x = O13
      /\ \A x : x \in Cleared <=> x \in {O12, O11}
      /\ \A x : x \in Between <=> x \in {O10, O9}
      /\ \A x : x \in Making <=> x = C8
      /\ \A x : x \in Inserting <=> x \in {C7, C6}
      /\ \A x : x \in Made <=> x \in {C5, C4, C3, S2}
      /\ \A x : x \in Unlinking <=> x \in {M7, R5, F4}
      /\ \A x : x \in Relinking <=> x \in {M6, R4, F3}
      /\ \A x : x \in Moved <=> x \in {M5, M4, C3, R3, S2}
  BY DEF Deleting, Deleted, Clearing, Cleared, Between, Making, Inserting,
         Made, Unlinking, Relinking, Moved, Syncing
<1>5. CASE o.todo = <<>>
  <2>1. o.todo \notin Todos
    BY <1>2, <1>5
  <2>2. v = t
    BY <1>3, <2>1 DEF Progress
  <2>3. o.todo \notin {S1, D4, D3, O13, O12, O11, O10, O9, C8, C7, C6, C5, C4,
                      C3, M7, R5, F4, M6, R4, F3, M5, M4, R3, S2}
    BY <1>3, <1>4, <2>1
  <2> QED
    BY <2>2, <2>3
<1>6. CASE o.todo # <<>>
  BY <1>1, <1>4, <1>6, Course, Distinct DEF Progress
<1> QED
  BY <1>5, <1>6

Trees == [Keys -> Entries]
None  == Entry(NoRec)

\* An entry has the kind, the id and the contents of its record.
LEMMA EntryFields ==
    /\ \A r \in Recs : /\ Entry(r).kind = r.kind /\ Entry(r).id = r.id
                       /\ Entry(r).holds = r.holds /\ Entry(r) \in Entries
    /\ None \in Entries /\ None.kind = "none"
    /\ \A e \in Entries : e.kind = "none" <=> e = None
<1>1. \A r : Entry(r).kind = r.kind /\ Entry(r).id = r.id /\ Entry(r).holds = r.holds
  BY DEF Entry
<1>2. None \in Entries
  BY DEF None, Entries
<1>3. None.kind = "none"
  BY <1>1 DEF None, NoRec
<1>4. \A e \in Entries : e.kind = "none" => e = None
  BY DEF Entries, None
<1>5. ASSUME NEW r \in Recs
      PROVE  Entry(r) \in Entries
  <2>1. CASE r = NoRec
    BY <1>2, <2>1 DEF None
  <2>2. CASE r \in FileRecs
    BY <2>2 DEF FileRecs, Entry, Entries
  <2>3. CASE r \in FolderRecs
    BY <2>3 DEF FolderRecs, Entry, Entries
  <2> QED
    BY <2>1, <2>2, <2>3 DEF Recs
<1> QED
  BY <1>1, <1>2, <1>3, <1>4, <1>5

\* The view of a catalog.
LEMMA ViewIsTree ==
    ASSUME NEW cat \in [Keys -> Recs]
    PROVE  /\ View(cat) \in Trees
           /\ Named(View(cat)) = Named(cat)
           /\ \A k \in Keys : View(cat)[k] = Entry(cat[k])
           /\ \A k \in Keys : /\ View(cat)[k].kind = cat[k].kind
                              /\ View(cat)[k].id = cat[k].id
BY EntryFields DEF View, Trees, Named

\* Editing a record edits its entry.
LEMMA ViewEdited ==
    ASSUME NEW cat \in [Keys -> Recs], NEW k \in Keys, NEW r \in Recs
    PROVE  View([cat EXCEPT ![k] = r]) = [View(cat) EXCEPT ![k] = Entry(r)]
BY DEF View

\* Two catalogs with the same kinds, ids and contents look alike.
LEMMA SameView ==
    ASSUME NEW c, NEW d,
           \A k \in Keys : /\ c[k].kind = d[k].kind /\ c[k].id = d[k].id
                           /\ c[k].holds = d[k].holds
    PROVE  View(c) = View(d)
BY DEF View, Entry

\* What an edit of one entry leaves.
LEMMA Edited ==
    ASSUME NEW t \in Trees, NEW k \in Keys, NEW e \in Entries
    PROVE  LET u == [t EXCEPT ![k] = e]
           IN  /\ u \in Trees /\ u[k] = e
               /\ \A l \in Keys \ {k} : u[l] = t[l]
               /\ Named(u) = IF e = None THEN Named(t) \ {k} ELSE Named(t) \cup {k}
<1> DEFINE u == [t EXCEPT ![k] = e]
<1>1. u \in Trees /\ u[k] = e /\ \A l \in Keys \ {k} : u[l] = t[l]
  BY DEF Trees
<1>2. e.kind = "none" <=> e = None
  BY EntryFields
<1> HIDE DEF u
<1>3. Named(u) = IF e = None THEN Named(t) \ {k} ELSE Named(t) \cup {k}
  BY <1>1, <1>2 DEF Named
<1> QED
  BY <1>1, <1>3 DEF u

\* NoKey is no key.
LEMMA NoKeyOutside == NoKey \notin Keys
<1>1. NoKey[1] = 0 /\ 0 \notin Dirs
  BY VolumeAssumption DEF NoKey, Dirs, UserIds, FirstUser, Root, RootParent
<1> QED
  BY <1>1 DEF Keys

\* Ids of entries.
LEMMA EntryIds ==
    ASSUME NEW t \in Trees, NEW k \in Named(t)
    PROVE  /\ k \in Keys /\ t[k] \in Entries /\ t[k] # None
           /\ t[k].id \in {Root} \cup UserIds /\ t[k].id # RootParent
           /\ t[k].kind \in {"file", "folder"}
           /\ t[k].kind = "file" => t[k].id \in UserIds
<1>1. k \in Keys /\ t[k] \in Entries /\ t[k].kind # "none"
  BY DEF Trees, Named
<1>2. t[k] # None
  BY <1>1, EntryFields
<1>3. /\ t[k].id \in {Root} \cup UserIds /\ t[k].kind \in {"file", "folder"}
      /\ t[k].kind = "file" => t[k].id \in UserIds
  BY <1>1, <1>2 DEF Entries, None
<1> QED
  BY <1>1, <1>2, <1>3, VolumeAssumption DEF UserIds, FirstUser, Root, RootParent

\* resolveParent finds folders that have a record, and never the root's parent.
LEMMA FoldersFound ==
    ASSUME NEW cat \in [Keys -> Recs], WellFormed(View(cat)), NEW d \in Folders(cat)
    PROVE  HasFolder(View(cat), d) /\ d # RootParent
<1> DEFINE t == View(cat)
           S == {x \in Dirs : HasFolder(t, x)}
<1>1. /\ t \in Trees /\ Named(t) = Named(cat)
      /\ \A k \in Keys : t[k].kind = cat[k].kind /\ t[k].id = cat[k].id
  BY ViewIsTree
<1> HIDE DEF t
<1>2. Root \in S
  BY DEF WellFormed, Dirs, t
<1>3. ASSUME NEW k \in Named(cat), cat[k].kind = "folder"
      PROVE  cat[k].id \in S
  <2>1. k \in Keys /\ k \in Named(t) /\ t[k].kind = "folder" /\ t[k].id = cat[k].id
    BY <1>1, <1>3 DEF Named
  <2>2. t[k].id \in Dirs
    BY <1>1, <2>1, EntryIds DEF Dirs
  <2> QED
    BY <2>1, <2>2 DEF HasFolder
<1>4. Closed(cat, S)
  BY <1>2, <1>3 DEF Closed
<1>5. d \in S
  BY <1>4 DEF Folders
<1>6. PICK k \in Named(t) : t[k].kind = "folder" /\ t[k].id = d
  BY <1>5 DEF HasFolder
<1> QED
  BY <1>1, <1>5, <1>6, EntryIds DEF t

-----------------------------------------------------------------------------
(* What one commit does to a tree. *)

\* The others stay as they are.
LEMMA Dropped ==
    ASSUME NEW t \in Trees, NEW o, o.old \in Keys
    PROVE  /\ Without(t, o) \in Trees
           /\ Named(Without(t, o)) = Named(t) \ {o.old}
           /\ \A k \in Named(Without(t, o)) : Without(t, o)[k] = t[k]
<1> DEFINE k == o.old
           u == [t EXCEPT ![k] = None]
<1>1. None \in Entries /\ Without(t, o) = u
  BY EntryFields DEF Without, None
<1>2. /\ u \in Trees
      /\ \A l \in Keys \ {k} : u[l] = t[l]
      /\ Named(u) = Named(t) \ {k}
  <2>1. k \in Keys
    OBVIOUS
  <2> HIDE DEF k
  <2>2. /\ u \in Trees
        /\ \A l \in Keys \ {k} : u[l] = t[l]
        /\ Named(u) = IF None = None THEN Named(t) \ {k} ELSE Named(t) \cup {k}
    BY <1>1, <2>1, Edited
  <2> QED
    BY <2>2
<1>3. Named(t) \subseteq Keys
  BY DEF Named
<1> HIDE DEF u
<1> QED
  BY <1>1, <1>2, <1>3

LEMMA Added ==
    ASSUME NEW t \in Trees, NEW o, o.key \in Keys, o.rec \in Recs, o.rec.kind # "none",
           o.key \notin Named(t)
    PROVE  /\ With(t, o) \in Trees
           /\ Named(With(t, o)) = Named(t) \cup {o.key}
           /\ With(t, o)[o.key] = Entry(o.rec)
           /\ \A k \in Named(t) : With(t, o)[k] = t[k]
<1> DEFINE k == o.key
           e == Entry(o.rec)
           u == [t EXCEPT ![k] = e]
<1>1. e \in Entries /\ e.kind # "none" /\ k \in Keys
  BY EntryFields
<1>2. With(t, o) = u
  BY DEF With
<1> HIDE DEF k, e
<1>3. u \in Trees /\ u[k] = e /\ \A l \in Keys \ {k} : u[l] = t[l]
  BY <1>1 DEF Trees
<1> HIDE DEF u
<1>4. Named(u) = Named(t) \cup {k}
  BY <1>1, <1>3 DEF Named
<1>5. \A l \in Named(t) : u[l] = t[l]
  BY <1>3 DEF Named, k
<1> QED
  BY <1>2, <1>3, <1>4, <1>5 DEF k, e

\* A removed entry leaves a tree.
LEMMA RemovedWell ==
    ASSUME NEW t \in Trees, WellFormed(t), NEW o, Removable(t, o)
    PROVE  /\ Without(t, o) \in Trees
           /\ WellFormed(Without(t, o))
<1> DEFINE u == Without(t, o)
<1>1. o.old \in Keys /\ o.old \in Named(t)
  BY DEF Removable, Named
<1>2. /\ u \in Trees /\ Named(u) = Named(t) \ {o.old}
      /\ \A k \in Named(u) : u[k] = t[k]
  BY <1>1, Dropped
<1> HIDE DEF u
<1>3. /\ t[o.old].id = o.rec.id /\ o.old[1] # RootParent
      /\ \A k \in Named(t) : k[1] # o.rec.id
  BY DEF Removable, Entry
<1>4. t[o.old].id # Root
  BY <1>1, <1>3 DEF WellFormed
<1>5. ASSUME NEW d, HasFolder(t, d), d # o.rec.id
      PROVE  HasFolder(u, d)
  BY <1>2, <1>3, <1>5 DEF HasFolder
<1>6. HasFolder(u, Root)
  BY <1>3, <1>4, <1>5 DEF WellFormed
<1>7. \A k \in Named(u) : k[1] = RootParent \/ HasFolder(u, k[1])
  BY <1>2, <1>3, <1>5 DEF WellFormed
<1> QED
  BY <1>2, <1>6, <1>7 DEF WellFormed, u

\* So does a new entry in a folder.
LEMMA CreatedWell ==
    ASSUME NEW t \in Trees, WellFormed(t), NEW o, o.key \in Keys, o.rec \in Recs,
           Insertable(t, o)
    PROVE  /\ With(t, o) \in Trees
           /\ WellFormed(With(t, o))
           /\ o.key \notin Named(t)
<1> DEFINE u == With(t, o)
           e == Entry(o.rec)
<1>1. e \in Entries /\ e.id = o.rec.id /\ e # None /\ e.kind # "none"
  BY EntryFields DEF Insertable
<1>2. o.key \notin Named(t)
  BY NoKeyOutside DEF Insertable, Creatable, NameFree
<1>3. /\ u \in Trees /\ Named(u) = Named(t) \cup {o.key} /\ u[o.key] = e
      /\ \A k \in Named(t) : u[k] = t[k]
  BY <1>1, <1>2, Edited DEF With, Named
<1> HIDE DEF u, e
<1>4. /\ HasFolder(t, o.key[1]) /\ o.rec.id # Root
      /\ \A k \in Named(t) : t[k].id # o.rec.id
      /\ \A k \in Named(t) : k[1] = o.key[1] => Fold[k[2]] # Fold[o.key[2]]
  <2>1. NoKey \notin Named(t)
    BY NoKeyOutside DEF Named
  <2> QED
    BY <2>1 DEF Insertable, Creatable, NameFree
<1>5. o.key[1] # RootParent
  BY <1>4, EntryIds DEF HasFolder
<1>6. \A d : HasFolder(t, d) => HasFolder(u, d)
  BY <1>3 DEF HasFolder
<1>7. \A k, l \in Named(u) : k[1] = l[1] /\ Fold[k[2]] = Fold[l[2]] => k = l
  BY <1>3, <1>4 DEF WellFormed
<1>8. \A k, l \in Named(u) : u[k].id = u[l].id => k = l
  BY <1>1, <1>3, <1>4 DEF WellFormed
<1>9. \A k \in Named(u) : k[1] = RootParent <=> u[k].id = Root
  BY <1>1, <1>3, <1>4, <1>5 DEF WellFormed
<1>10. \A k \in Named(u) : k[1] = RootParent \/ HasFolder(u, k[1])
  BY <1>3, <1>4, <1>6 DEF WellFormed
<1>11. HasFolder(u, Root)
  BY <1>6 DEF WellFormed
<1> QED
  BY <1>2, <1>3, <1>7, <1>8, <1>9, <1>10, <1>11 DEF WellFormed, u

\* And an entry under a new name.
LEMMA MovedWell ==
    ASSUME NEW t \in Trees, WellFormed(t), NEW o, o.key \in Keys, o.rec \in Recs,
           Movable(t, o)
    PROVE  /\ With(Without(t, o), o) \in Trees
           /\ WellFormed(With(Without(t, o), o))
           /\ o.key # o.old => o.key \notin Named(t)
<1> DEFINE w == Without(t, o)
           u == With(w, o)
           e == Entry(o.rec)
<1>1. /\ o.old \in Named(t) /\ o.old \in Keys /\ t[o.old] = e
      /\ o.old[1] = RootParent <=> o.key[1] = RootParent
      /\ o.key[1] = RootParent \/ HasFolder(t, o.key[1])
      /\ \A k \in Named(t) \ {o.old} : k[1] = o.key[1] => Fold[k[2]] # Fold[o.key[2]]
  BY DEF Movable, Named, NameFree
<1>2. e \in Entries /\ e # None
  BY <1>1, EntryIds, EntryFields
<1>3. w \in Trees /\ Named(w) = Named(t) \ {o.old} /\ \A k \in Named(w) : w[k] = t[k]
  BY <1>1, Dropped
<1>4. o.key # o.old => o.key \notin Named(t)
  BY <1>1
<1> HIDE DEF w
<1>5. /\ u \in Trees /\ Named(u) = Named(w) \cup {o.key} /\ u[o.key] = e
      /\ \A k \in Named(w) \ {o.key} : u[k] = w[k]
  BY <1>2, <1>3, Edited DEF With, Named
<1> HIDE DEF u, e
<1>6. /\ Named(u) = (Named(t) \ {o.old}) \cup {o.key}
      /\ \A k \in Named(t) \ {o.old} : k # o.key /\ u[k] = t[k]
  BY <1>3, <1>4, <1>5
<1>7. \A d : HasFolder(t, d) => HasFolder(u, d)
  BY <1>1, <1>5, <1>6 DEF HasFolder
<1>8. \A k, l \in Named(u) : k[1] = l[1] /\ Fold[k[2]] = Fold[l[2]] => k = l
  BY <1>1, <1>6 DEF WellFormed
<1>9. \A k, l \in Named(u) : u[k].id = u[l].id => k = l
  BY <1>1, <1>5, <1>6 DEF WellFormed
<1>10. \A k \in Named(u) : k[1] = RootParent <=> u[k].id = Root
  BY <1>1, <1>5, <1>6 DEF WellFormed
<1>11. \A k \in Named(u) : k[1] = RootParent \/ HasFolder(u, k[1])
  BY <1>1, <1>6, <1>7 DEF WellFormed
<1>12. HasFolder(u, Root)
  BY <1>7 DEF WellFormed
<1> QED
  BY <1>4, <1>5, <1>8, <1>9, <1>10, <1>11, <1>12 DEF WellFormed, u, w

-----------------------------------------------------------------------------
(* The calls and the steps keep the tree. *)

\* Between operations the caller sees what the catalog holds.
LEMMA IdleTree ==
    ASSUME Typed, Tree, Idle, ~img.torn
    PROVE  shown = View(img.cat) /\ WellFormed(shown)
<1>1. op.todo = <<>>
  BY DEF Idle, NoOp
<1>2. Progress(View(img.cat), shown, op) /\ WellFormed(shown)
  BY DEF Tree
<1> QED
  BY <1>1, <1>2, Stages

\* What the checks of an operation ensure of the tree.
LEMMA FoundTree ==
    ASSUME img \in Images, WellFormed(View(img.cat)),
           NEW k \in Keys, NEW l \in lookupChild(img.cat, k)
    PROVE  LET t == View(img.cat)
           IN  /\ l \in Named(t) /\ t[l] = Entry(img.cat[l]) /\ l[1] = k[1]
               /\ NameFree(t, l, k)
               /\ img.cat[l].kind = "file" => \A m \in Named(t) : m[1] # img.cat[l].id
<1> DEFINE t == View(img.cat)
           r == img.cat[l]
<1>1. img.cat \in [Keys -> Recs]
  BY DEF Images
<1>2. l \in Named(img.cat) /\ l \in Keys /\ r \in Recs /\ l[1] = k[1] /\ Fold[l[2]] = Fold[k[2]]
  BY FoundTyped
<1>3. t \in Trees /\ l \in Named(t) /\ t[l] = Entry(r) /\ t[l].kind = r.kind /\ t[l].id = r.id
  BY <1>1, <1>2, ViewIsTree
<1>4. NameFree(t, l, k)
  <2> HIDE DEF t
  <2>1. WellFormed(t)
    BY DEF t
  <2>2. ASSUME NEW m \in Named(t) \ {l}, m[1] = k[1], Fold[m[2]] = Fold[k[2]]
        PROVE  FALSE
    BY <1>2, <1>3, <2>1, <2>2 DEF WellFormed
  <2> QED
    BY <2>2 DEF NameFree
<1> HIDE DEF t, r
<1>5. ASSUME r.kind = "file", NEW m \in Named(t), m[1] = r.id
      PROVE  FALSE
  <2>1. r.id \in UserIds /\ r.id # RootParent
    BY <1>3, <1>5, EntryIds
  <2>2. HasFolder(t, r.id)
    BY <1>5, <2>1 DEF WellFormed, t
  <2>3. PICK f \in Named(t) : t[f].kind = "folder" /\ t[f].id = r.id
    BY <2>2 DEF HasFolder
  <2>4. f = l
    BY <1>3, <2>3 DEF WellFormed, t
  <2> QED
    BY <1>3, <1>5, <2>3, <2>4
<1> QED
  BY <1>2, <1>3, <1>4, <1>5 DEF t, r

\* The calls change no entry; their checks hold of the tree.
LEMMA CallTree ==
    ASSUME Typed, Ids, Tree, Idle, Call
    PROVE  Tree'
<1> DEFINE t == View(img.cat)
<1>1. img \in Images /\ img.cat \in [Keys -> Recs]
  BY DEF Typed, Images
<1>2. ~img.torn => shown = t /\ WellFormed(t)
  BY IdleTree
<1>3. t \in Trees /\ Named(t) = Named(img.cat)
  BY <1>1, ViewIsTree
<1>4. ASSUME NEW k \in Paths, ~img.torn
      PROVE  k \in Keys /\ HasFolder(t, k[1]) /\ k[1] # RootParent
  BY <1>1, <1>2, <1>4, FoldersFound DEF Paths
<1>5. ASSUME NEW todo, NEW key, NEW old, NEW rec, NEW data,
             Start(todo, key, old, rec, data), img'.cat = img.cat,
             img'.torn = img.torn,
             ~img.torn => Progress(t, t, op')
      PROVE  Tree'
  <2>1. disk' = disk /\ shown' = shown
    BY <1>5 DEF Start
  <2> QED
    BY <1>2, <1>5, <2>1 DEF Tree
<1>6. ASSUME NEW todo, NEW key, NEW old, NEW rec, NEW data,
             Start(todo, key, old, rec, data)
      PROVE  op'.todo = todo /\ op'.key = key /\ op'.old = old /\ op'.rec = rec
  BY <1>6 DEF Start
<1>7. /\ D4 \in Deleting /\ O13 \in Clearing /\ C8 \in Making
      /\ C6 \in Inserting /\ {M7, R5, F4} = Unlinking
  BY DEF Deleting, Clearing, Making, Inserting, Unlinking
<1>8. ASSUME NEW k \in Paths, lookupChild(img.cat, k) = {}
      PROVE  NameFree(t, NoKey, k)
  BY <1>3, <1>8 DEF NameFree, lookupChild
<1> HIDE DEF t
<1>9. ASSUME NEW k \in Paths, NEW l \in lookupChild(img.cat, k), NEW data,
             Overwrite(k, l, data)
      PROVE  Tree'
  <2>1. Start(O13, k, l, img.cat[l], data) /\ img' = img /\ img.cat[l].kind = "file"
    BY <1>9, Begins DEF Overwrite
  <2>2. ASSUME ~img.torn
        PROVE  Replaceable(t, op')
    <3>1. HasFolder(t, k[1]) /\ k[1] # RootParent /\ k \in Keys
      BY <1>4, <2>2
    <3>2. /\ l \in Named(t) /\ t[l] = Entry(img.cat[l]) /\ l[1] = k[1]
          /\ NameFree(t, l, k)
          /\ \A m \in Named(t) : m[1] # img.cat[l].id
      BY <1>1, <1>2, <2>1, <2>2, <3>1, FoundTree DEF t
    <3>3. op'.key = k /\ op'.old = l /\ op'.rec = img.cat[l]
      BY <1>6, <2>1
    <3> QED
      BY <2>1, <3>1, <3>2, <3>3 DEF Replaceable, Removable
  <2>3. ~img.torn => Progress(t, t, op')
    BY <1>6, <1>7, <2>1, <2>2 DEF Progress
  <2> QED
    BY <1>5, <2>1, <2>3
<1>10. ASSUME NEW k \in Paths, NEW data, NewFile(k, data)
       PROVE  Tree'
  <2>1. Start(C8, k, NoKey, NoRec, data) /\ img' = img
    BY <1>10, Begins DEF NewFile
  <2>2. ~img.torn => Creatable(t, op')
    BY <1>4, <1>6, <1>8, <1>10, <2>1 DEF Creatable, NewFile
  <2>3. ~img.torn => Progress(t, t, op')
    BY <1>6, <1>7, <2>1, <2>2 DEF Progress
  <2> QED
    BY <1>5, <2>1, <2>3
<1>11. ASSUME NEW k \in Paths, MkDir(k)
       PROVE  Tree'
  <2>1. /\ Start(C6, k, NoKey, FolderRec(img.next), <<>>)
        /\ img' = [img EXCEPT !.next = img.next + 1] /\ img.next <= LastCNID
    BY <1>11, Begins DEF MkDir
  <2>2. img'.cat = img.cat /\ img'.torn = img.torn
    BY <1>1, <2>1 DEF Images
  <2>3. img.next \in UserIds
    BY <1>1, <2>1, VolumeAssumption DEF Images, UserIds, FirstUser
  <2>4. /\ op'.key = k /\ op'.rec.kind # "none" /\ op'.rec.id # Root
        /\ op'.todo = C6
    <3>1. op'.rec = FolderRec(img.next) /\ op'.key = k /\ op'.todo = C6
      BY <1>6, <2>1
    <3>2. FolderRec(img.next).kind = "folder" /\ FolderRec(img.next).id = img.next
      BY DEF FolderRec
    <3>3. img.next # Root
      BY <2>3, VolumeAssumption DEF UserIds, FirstUser, Root
    <3> QED
      BY <3>1, <3>2, <3>3
  <2>5. \A m \in Named(t) : t[m].id # op'.rec.id
    <3>1. Ids'
      BY CallIds
    <3>2. C6 \in Holding
      BY IdLists
    <3>3. \A m \in Named(img.cat) : img.cat[m].id # op'.rec.id
      BY <2>2, <2>4, <3>1, <3>2 DEF Ids
    <3>4. \A m \in Named(t) : m \in Named(img.cat) /\ t[m].id = img.cat[m].id
      BY <1>1, ViewIsTree DEF Named, t
    <3> QED
      BY <3>3, <3>4
  <2>6. ~img.torn => Insertable(t, op')
    BY <1>4, <1>8, <1>11, <2>4, <2>5 DEF Insertable, Creatable, MkDir
  <2>7. ~img.torn => Progress(t, t, op')
    BY <1>7, <2>4, <2>6 DEF Progress
  <2> QED
    BY <1>5, <2>1, <2>2, <2>7
<1>12. ASSUME NEW k \in Paths, DeleteFile(k) \/ DeleteDir(k)
       PROVE  Tree'
  <2>1. PICK l \in lookupChild(img.cat, k) :
           /\ Start(D4, l, l, img.cat[l], <<>>)
           /\ \/ img.cat[l].kind = "file"
              \/ Children(img.cat, img.cat[l].id) = {}
    BY <1>12, Begins DEF DeleteFile, DeleteDir
  <2>2. img' = img
    BY <1>12 DEF DeleteFile, DeleteDir
  <2>3. ASSUME ~img.torn
        PROVE  Removable(t, op')
    <3>1. k[1] # RootParent /\ k \in Keys
      BY <1>4, <2>3
    <3>2. /\ l \in Named(t) /\ t[l] = Entry(img.cat[l]) /\ l[1] = k[1]
          /\ img.cat[l].kind = "file" => \A m \in Named(t) : m[1] # img.cat[l].id
      BY <1>1, <1>2, <2>3, <3>1, FoundTree DEF t
    <3>3. \A m \in Named(t) : m[1] # img.cat[l].id
      BY <1>3, <2>1, <3>2 DEF Children
    <3>4. op'.old = l /\ op'.rec = img.cat[l]
      BY <1>6, <2>1
    <3> QED
      BY <3>1, <3>2, <3>3, <3>4 DEF Removable
  <2>4. ~img.torn => Progress(t, t, op')
    BY <1>6, <1>7, <2>1, <2>3 DEF Progress
  <2> QED
    BY <1>5, <2>1, <2>2, <2>4
<1>13. ASSUME NEW todo \in Unlinking, NEW key \in Keys, NEW l \in Named(t),
              Start(todo, key, l, img.cat[l], <<>>), img' = img,
              ~img.torn => /\ NameFree(t, l, key)
                           /\ l[1] = RootParent <=> key[1] = RootParent
                           /\ key[1] = RootParent \/ HasFolder(t, key[1])
       PROVE  Tree'
  <2>1. t[l] = Entry(img.cat[l])
    BY <1>1, ViewIsTree DEF Named, t
  <2>2. /\ op'.key = key /\ op'.old = l /\ op'.rec = img.cat[l]
        /\ op'.todo = todo
    BY <1>6, <1>13
  <2>3. ~img.torn => Movable(t, op')
    BY <1>13, <2>1, <2>2 DEF Movable
  <2>4. ~img.torn => Progress(t, t, op')
    BY <1>13, <2>2, <2>3 DEF Progress
  <2> QED
    BY <1>5, <1>13, <2>4
<1>14. ASSUME NEW k \in Paths, NEW new \in Paths, Rename(k, new)
       PROVE  Tree'
  <2>1. PICK l \in lookupChild(img.cat, k) :
           Start(IF l[1] # new[1] THEN MoveSteps ELSE RenameSteps,
                 new, l, img.cat[l], <<>>)
    BY <1>14 DEF Rename
  <2>2. (IF l[1] # new[1] THEN MoveSteps ELSE RenameSteps) \in Unlinking
    BY <1>7, Begins
  <2>3. img' = img /\ lookupChild(img.cat, new) = {}
    BY <1>14 DEF Rename
  <2>4. l \in Named(t) /\ k \in Keys /\ new \in Keys
    BY <1>3 DEF lookupChild, Paths
  <2>5. l[1] = k[1]
    BY DEF lookupChild
  <2>6. NameFree(t, l, new)
    <3>1. NameFree(t, NoKey, new)
      BY <1>8, <2>3
    <3>2. NoKey \notin Named(t)
      BY NoKeyOutside DEF Named
    <3> QED
      BY <3>1, <3>2 DEF NameFree
  <2> QED
    BY <1>4, <1>13, <2>1, <2>2, <2>3, <2>4, <2>5, <2>6
<1>15. ASSUME NEW k \in Paths \cup Label, SetFinderInfo(k)
       PROVE  Tree'
  <2>1. PICK l \in lookupChild(img.cat, k) : Start(F4, k, l, img.cat[l], <<>>)
    BY <1>15, Begins DEF SetFinderInfo
  <2>2. img' = img
    BY <1>15 DEF SetFinderInfo
  <2>3. k \in Keys /\ l \in Named(t) /\ l[1] = k[1]
    BY <1>3 DEF Paths, Label, Children, Named, lookupChild
  <2>4. ~img.torn => NameFree(t, l, k)
    BY <1>1, <1>2, <2>3, FoundTree DEF t
  <2>5. ~img.torn => k[1] = RootParent \/ HasFolder(t, k[1])
    BY <1>4 DEF Label, Children
  <2> QED
    BY <1>7, <1>13, <2>1, <2>2, <2>3, <2>4, <2>5
<1>16. ASSUME NEW n \in Names, SetLabel(n)
       PROVE  Tree'
  <2>1. PICK l \in Label : Start(R5, <<RootParent, n>>, l, img.cat[l], <<>>)
    BY <1>16, Begins DEF SetLabel
  <2>2. img' = img
    BY <1>16 DEF SetLabel
  <2> DEFINE key == <<RootParent, n>>
  <2>3. key \in Keys /\ key[1] = RootParent /\ l \in Named(t) /\ l[1] = RootParent
    BY <1>3 DEF Keys, Dirs, Label, Children
  <2> HIDE DEF key
  <2>4. ~img.torn => NameFree(t, l, key)
    <3>1. ASSUME ~img.torn, NEW m \in Named(t), m[1] = RootParent
          PROVE  m = l
      BY <1>2, <2>3, <3>1 DEF WellFormed
    <3> QED
      BY <2>3, <3>1 DEF NameFree
  <2> QED
    BY <1>7, <1>13, <2>1, <2>2, <2>3, <2>4 DEF key
<1>17. ASSUME NEW k \in Paths, NEW n \in 0 .. MaxSize, Truncate(k, n)
       PROVE  Tree'
  BY <1>9, <1>17 DEF Truncate
<1>18. ASSUME NEW k \in Paths, NEW data \in Data, WriteFile(k, data) \/ Symlink(k, data)
       PROVE  Tree'
  BY <1>9, <1>10, <1>18 DEF WriteFile, Symlink
<1> QED
  BY <1>11, <1>12, <1>14, <1>15, <1>16, <1>17, <1>18 DEF Call

\* What the stages say depends on the key, the old key and the record only.
LEMMA SameMarks ==
    ASSUME NEW o, NEW p, p.key = o.key, p.old = o.old, p.rec = o.rec, NEW t
    PROVE  /\ Without(t, p) = Without(t, o) /\ With(t, p) = With(t, o)
           /\ With(Without(t, p), p) = With(Without(t, o), o)
           /\ Removable(t, p) <=> Removable(t, o)
           /\ Replaceable(t, p) <=> Replaceable(t, o)
           /\ Creatable(t, p) <=> Creatable(t, o)
           /\ Insertable(t, p) <=> Insertable(t, o)
           /\ Movable(t, p) <=> Movable(t, o)
<1>1. Removable(t, p) <=> Removable(t, o)
  BY DEF Removable
<1>2. Creatable(t, p) <=> Creatable(t, o)
  BY DEF Creatable
<1> QED
  BY <1>1, <1>2 DEF Without, With, Replaceable, Insertable, Movable

\* The lists that belong to one stage, or to several.
LEMMA StageOf ==
    /\ S1 \in Syncing /\ D3 \in Deleted /\ S2 \in Deleted
    /\ O12 \in Cleared /\ O11 \in Cleared /\ O10 \in Between /\ O9 \in Between
    /\ C8 \in Making /\ C7 \in Inserting /\ C6 \in Inserting
    /\ C5 \in Made /\ C4 \in Made /\ C3 \in Made /\ S2 \in Made
    /\ M6 \in Relinking /\ R4 \in Relinking /\ F3 \in Relinking
    /\ M5 \in Moved /\ M4 \in Moved /\ C3 \in Moved /\ R3 \in Moved /\ S2 \in Moved
BY DEF Deleted, Cleared, Between, Making, Inserting, Made, Relinking, Moved, Syncing

\* A step of an operation on an image that is not torn.
LEMMA StepTree ==
    ASSUME Typed, Tree, disk' = disk, shown' = shown, img'.torn = img.torn,
           ~img.torn => Progress(View(img'.cat), shown, op')
    PROVE  Tree'
BY DEF Tree

\* A step that changes no entry, and its list within a stage.
LEMMA QuietTree ==
    ASSUME Typed, Tree, disk' = disk, shown' = shown, img'.torn = img.torn,
           View(img'.cat) = View(img.cat),
           op'.key = op.key, op'.old = op.old, op'.rec = op.rec,
           \/ op.todo = C7 /\ op'.todo = C6
           \/ op.todo = C5 /\ op'.todo = C4
           \/ op.todo = C4 /\ op'.todo = C3
           \/ op.todo = C3 /\ op'.todo = S2
           \/ op.todo = D3 /\ op'.todo = S2
           \/ op.todo = O12 /\ op'.todo = O11
           \/ op.todo = M5 /\ op'.todo = M4
           \/ op.todo = M4 /\ op'.todo = C3
           \/ op.todo = R3 /\ op'.todo = S2
           \/ op.todo = O10 /\ op'.todo = O9
    PROVE  Tree'
<1> DEFINE v == View(img.cat)
           t == shown
<1>1. SUFFICES ASSUME ~img.torn
               PROVE  Progress(v, t, op')
  BY StepTree
<1>2. Progress(v, t, op)
  BY <1>1 DEF Tree
<1> HIDE DEF v, t
<1>3. /\ Without(t, op') = Without(t, op) /\ With(t, op') = With(t, op)
      /\ With(Without(t, op'), op') = With(Without(t, op), op)
      /\ Removable(t, op') <=> Removable(t, op)
      /\ Replaceable(t, op') <=> Replaceable(t, op)
      /\ Creatable(t, op') <=> Creatable(t, op)
      /\ Insertable(t, op') <=> Insertable(t, op)
      /\ Movable(t, op') <=> Movable(t, op)
  BY SameMarks
<1>4. CASE op.todo = C7 /\ op'.todo = C6
  <2>1. v = t /\ Insertable(t, op)
    BY <1>2, <1>3, <1>4, Stages
  <2> QED
    BY <1>3, <1>4, <2>1, StageOf DEF Progress
<1>5. CASE \/ op.todo = C5 /\ op'.todo = C4
           \/ op.todo = C4 /\ op'.todo = C3
  <2>1. v = With(t, op) /\ Insertable(t, op)
    BY <1>2, <1>3, <1>5, Stages
  <2> QED
    BY <1>3, <1>5, <2>1, StageOf DEF Progress
<1>6. CASE op.todo = C3 /\ op'.todo = S2
  <2>1. \/ v = With(t, op) /\ Insertable(t, op)
        \/ v = With(Without(t, op), op) /\ Movable(t, op)
    BY <1>2, <1>3, <1>6, Stages
  <2> QED
    BY <1>3, <1>6, <2>1, StageOf DEF Progress
<1>7. CASE op.todo = D3 /\ op'.todo = S2
  <2>1. v = Without(t, op) /\ Removable(t, op)
    BY <1>2, <1>3, <1>7, Stages
  <2> QED
    BY <1>3, <1>7, <2>1, StageOf DEF Progress
<1>8. CASE op.todo = O12 /\ op'.todo = O11
  <2>1. v = Without(t, op) /\ Replaceable(t, op)
    BY <1>2, <1>3, <1>8, Stages
  <2> QED
    BY <1>3, <1>8, <2>1, StageOf DEF Progress
<1>9. CASE \/ op.todo = M5 /\ op'.todo = M4
           \/ op.todo = M4 /\ op'.todo = C3
           \/ op.todo = R3 /\ op'.todo = S2
  <2>1. v = With(Without(t, op), op) /\ Movable(t, op)
    BY <1>2, <1>3, <1>9, Stages
  <2> QED
    BY <1>3, <1>9, <2>1, StageOf DEF Progress
<1>10. CASE op.todo = O10 /\ op'.todo = O9
  <2>1. v = t /\ Creatable(t, op)
    BY <1>2, <1>3, <1>10, Stages
  <2> QED
    BY <1>3, <1>10, <2>1, StageOf DEF Progress
<1> QED
  BY <1>4, <1>5, <1>6, <1>7, <1>8, <1>9, <1>10

\* A step that deletes the old entry.
LEMMA DropTree ==
    ASSUME Typed, Tree, op \in Ops, disk' = disk, shown' = shown, img'.torn = img.torn,
           img'.cat = [img.cat EXCEPT ![op.old] = NoRec],
           op'.key = op.key, op'.old = op.old, op'.rec = op.rec,
           \/ op.todo = D4 /\ op'.todo = D3
           \/ op.todo = O13 /\ op'.todo = O12
           \/ op.todo \in {M7, R5, F4} /\ op'.todo \in {M6, R4, F3}
    PROVE  Tree'
<1> DEFINE v == View(img.cat)
           t == shown
           u == View(img'.cat)
<1>1. SUFFICES ASSUME ~img.torn
               PROVE  Progress(u, t, op')
  BY StepTree
<1>2. Progress(v, t, op)
  BY <1>1 DEF Tree
<1>3. v = t => u = Without(t, op)
  <2>1. SUFFICES ASSUME v = t, op.old \in Keys
                 PROVE  u = Without(t, op)
    <3>1. v = t => op.old \in Keys
      <4>1. op.old \in Named(t)
        BY <1>2, Stages DEF Removable, Replaceable, Movable
      <4> QED
        BY <4>1 DEF Named
    <3> QED
      BY <3>1
  <2>2. img.cat \in [Keys -> Recs] /\ NoRec \in Recs
    BY DEF Typed, Images, Recs
  <2> QED
    BY <2>1, <2>2, ViewEdited DEF Without
<1> HIDE DEF v, t, u
<1>4. /\ Without(t, op') = Without(t, op)
      /\ Removable(t, op') <=> Removable(t, op)
      /\ Replaceable(t, op') <=> Replaceable(t, op)
      /\ Movable(t, op') <=> Movable(t, op)
  BY SameMarks
<1>5. CASE op.todo = D4 /\ op'.todo = D3
  <2>1. v = t /\ Removable(t, op)
    BY <1>2, <1>4, <1>5, Stages
  <2> QED
    BY <1>3, <1>4, <1>5, <2>1, StageOf DEF Progress
<1>6. CASE op.todo = O13 /\ op'.todo = O12
  <2>1. v = t /\ Replaceable(t, op)
    BY <1>2, <1>4, <1>6, Stages
  <2> QED
    BY <1>3, <1>4, <1>6, <2>1, StageOf DEF Progress
<1>7. CASE op.todo \in {M7, R5, F4} /\ op'.todo \in {M6, R4, F3}
  <2>1. v = t /\ Movable(t, op)
    BY <1>2, <1>4, <1>7, Stages
  <2> QED
    BY <1>3, <1>4, <1>7, <2>1, StageOf DEF Progress
<1> QED
  BY <1>5, <1>6, <1>7

\* A step that inserts the record.
LEMMA PutTree ==
    ASSUME Typed, Tree, op \in Ops, disk' = disk, shown' = shown, img'.torn = img.torn,
           img'.cat = [img.cat EXCEPT ![op.key] = op.rec],
           op'.key = op.key, op'.old = op.old, op'.rec = op.rec,
           \/ op.todo = C6 /\ op'.todo = C5
           \/ op.todo \in {M6, R4, F3} /\ op'.todo \in {M5, R3, S2}
    PROVE  Tree'
<1> DEFINE v == View(img.cat)
           t == shown
           u == View(img'.cat)
<1>1. SUFFICES ASSUME ~img.torn
               PROVE  Progress(u, t, op')
  BY StepTree
<1>2. Progress(v, t, op)
  BY <1>1 DEF Tree
<1>3. u = With(v, op)
  <2>1. img.cat \in [Keys -> Recs] /\ op.key \in Keys /\ op.rec \in Recs
    BY DEF Typed, Images, Ops
  <2> QED
    BY <2>1, ViewEdited DEF With
<1> HIDE DEF v, t, u
<1>4. /\ With(t, op') = With(t, op)
      /\ With(Without(t, op'), op') = With(Without(t, op), op)
      /\ Insertable(t, op') <=> Insertable(t, op)
      /\ Movable(t, op') <=> Movable(t, op)
  BY SameMarks
<1>5. CASE op.todo = C6 /\ op'.todo = C5
  <2>1. v = t /\ Insertable(t, op)
    BY <1>2, <1>4, <1>5, Stages
  <2> QED
    BY <1>3, <1>4, <1>5, <2>1, StageOf DEF Progress
<1>6. CASE op.todo \in {M6, R4, F3} /\ op'.todo \in {M5, R3, S2}
  <2>1. v = Without(t, op) /\ Movable(t, op)
    BY <1>2, <1>4, <1>6, Stages
  <2> QED
    BY <1>3, <1>4, <1>6, <2>1, StageOf DEF Progress
<1> QED
  BY <1>5, <1>6

\* The operation ends with the entries of its last commit.
LEMMA EndTree ==
    ASSUME Typed, Tree, shown' = shown, op' = NoOp,
           img'.torn = img.torn, img'.cat = img.cat,
           op.todo \in {S1, O10, C8},
           disk' = disk \/ disk' = img
    PROVE  Tree'
<1>1. ~img.torn => View(img.cat) = shown /\ WellFormed(shown)
  BY Stages DEF Tree
<1> QED
  BY <1>1 DEF Tree, Progress

\* Each commit leaves a tree.
LEMMA commitTree ==
    ASSUME Typed, Tree, commit
    PROVE  Tree'
<1> DEFINE v == View(img.cat)
           t == shown
<1>1. /\ op \in Ops /\ op.todo \in {S2, O11} /\ op'.todo = Rest(op.todo)
      /\ op'.key = op.key /\ op'.old = op.old /\ op'.rec = op.rec
      /\ img'.cat = img.cat /\ img'.torn = img.torn /\ shown' = v /\ disk' = disk
  BY commitEffect
<1>2. v \in Trees /\ t \in Trees /\ op.key \in Keys /\ op.rec \in Recs
  BY <1>1, ViewIsTree DEF Typed, Images, Tree, Trees, Ops
<1>3. SUFFICES ASSUME ~img.torn
               PROVE  WellFormed(v) /\ Progress(v, v, op')
  BY <1>1, <1>2 DEF Tree, Trees
<1>4. Progress(v, t, op) /\ WellFormed(t)
  BY <1>3 DEF Tree
<1> HIDE DEF v, t
<1>5. CASE op.todo = S2
  <2>1. op'.todo = S1
    BY <1>1, <1>5, Course
  <2>2. \/ v = Without(t, op) /\ Removable(t, op)
        \/ v = With(t, op) /\ Insertable(t, op)
        \/ v = With(Without(t, op), op) /\ Movable(t, op)
    BY <1>4, <1>5, Stages
  <2>3. WellFormed(v)
    BY <1>2, <1>4, <2>2, RemovedWell, CreatedWell, MovedWell
  <2> QED
    BY <2>1, <2>3, StageOf DEF Progress
<1>6. CASE op.todo = O11
  <2>1. op'.todo = O10
    BY <1>1, <1>6, Course
  <2>2. v = Without(t, op) /\ Replaceable(t, op)
    BY <1>4, <1>6, Stages
  <2>3. WellFormed(v)
    BY <1>2, <1>4, <2>2, RemovedWell DEF Replaceable
  <2>4. /\ op.old \in Named(t) /\ t[op.old].kind = "file"
        /\ NameFree(t, op.old, op.key) /\ HasFolder(t, op.key[1])
    BY <1>2, <2>2, EntryFields DEF Replaceable, Removable
  <2>5. Named(v) = Named(t) \ {op.old} /\ \A k \in Named(v) : v[k] = t[k]
    BY <1>2, <2>2, <2>4, Dropped DEF Named
  <2>6. NameFree(v, NoKey, op.key)
    BY <2>4, <2>5 DEF NameFree
  <2>7. HasFolder(v, op.key[1])
    BY <2>4, <2>5 DEF HasFolder
  <2> QED
    BY <1>1, <2>1, <2>3, <2>6, <2>7, StageOf DEF Progress, Creatable
<1> QED
  BY <1>1, <1>5, <1>6

\* Every step keeps the tree.
LEMMA NextTree == Typed /\ Ids /\ Tree /\ [Next]_vars => Tree'
<1> SUFFICES ASSUME Typed, Ids, Tree, [Next]_vars
             PROVE  Tree'
  OBVIOUS
<1>1. CASE Idle /\ Call
  BY <1>1, CallTree
<1>2. CASE Rebegin
  <2>1. /\ op.todo = O9 /\ op'.todo = C8 /\ op'.key = op.key
        /\ UNCHANGED <<img, disk, stale, shown>>
    BY <1>2, RebeginEffect
  <2>2. ~img.torn => Progress(View(img.cat), shown, op)
    BY DEF Tree
  <2>3. ~img.torn => View(img.cat) = shown /\ Creatable(shown, op)
    BY <2>1, <2>2, Stages
  <2>4. ~img.torn => Creatable(shown, op')
    BY <2>1, <2>3 DEF Creatable
  <2>5. ~img.torn => Progress(View(img'.cat), shown, op')
    BY <2>1, <2>3, <2>4, StageOf DEF Progress
  <2> QED
    BY <2>1, <2>5, StepTree
<1>3. CASE Alloc
  <2>1. /\ op.todo = C8 /\ op'.todo \in {C6, C7} /\ op'.key = op.key
        /\ op'.rec \in FileRecs /\ img'.cat = img.cat /\ img'.torn = img.torn
        /\ UNCHANGED <<disk, shown>>
    BY <1>3, AllocEffect
  <2>2. ~img.torn => Progress(View(img.cat), shown, op)
    BY DEF Tree
  <2>3. ~img.torn => View(img.cat) = shown /\ Creatable(shown, op)
    BY <2>1, <2>2, Stages
  <2>4. op'.rec.kind # "none" /\ op'.rec.id # Root
    BY <2>1, VolumeAssumption DEF FileRecs, UserIds, FirstUser, Root
  <2>5. \A k \in Named(img.cat) : img.cat[k].id # op'.rec.id
    <3>1. Ids' /\ op'.todo \in Holding
      BY <2>1, NextIds, IdLists
    <3> QED
      BY <2>1, <3>1 DEF Ids
  <2>6. ~img.torn => \A k \in Named(shown) : shown[k].id # op'.rec.id
    <3>1. img.cat \in [Keys -> Recs]
      BY DEF Typed, Images
    <3> QED
      BY <2>3, <2>5, <3>1, ViewIsTree DEF Named
  <2>7. ~img.torn => Insertable(shown, op')
    BY <2>1, <2>3, <2>4, <2>6 DEF Creatable, Insertable
  <2>8. ~img.torn => Progress(View(img'.cat), shown, op')
    BY <2>1, <2>3, <2>7, StageOf DEF Progress
  <2> QED
    BY <2>1, <2>8, StepTree
<1>4. CASE AllocNoSpace
  BY <1>4, AllocNoSpaceEffect, EndTree
<1>5. CASE Insert \/ InsertGrows
  <2>1. /\ op \in Ops /\ op.todo \in {C7, C6, M6, R4, F3, C5, M5, R3}
        /\ op'.todo = Rest(op.todo)
        /\ op'.key = op.key /\ op'.old = op.old /\ op'.rec = op.rec
        /\ img'.cat = IF Now(op.todo) = "record"
                      THEN [img.cat EXCEPT ![op.key] = op.rec] ELSE img.cat
        /\ img'.torn = img.torn /\ UNCHANGED <<disk, shown>>
    BY <1>5, InsertEffect
  <2>2. CASE op.todo \in {C7, C5, M5, R3}
    <3>1. /\ img'.cat = img.cat
          /\ \/ op.todo = C7 /\ op'.todo = C6
             \/ op.todo = C5 /\ op'.todo = C4
             \/ op.todo = M5 /\ op'.todo = M4
             \/ op.todo = R3 /\ op'.todo = S2
      BY <2>1, <2>2, Course
    <3> QED
      BY <2>1, <3>1, QuietTree
  <2>3. CASE op.todo \in {C6, M6, R4, F3}
    <3>1. /\ img'.cat = [img.cat EXCEPT ![op.key] = op.rec]
          /\ \/ op.todo = C6 /\ op'.todo = C5
             \/ op.todo \in {M6, R4, F3} /\ op'.todo \in {M5, R3, S2}
      BY <2>1, <2>3, Course
    <3> QED
      BY <2>1, <3>1, PutTree
  <2> QED
    BY <2>1, <2>2, <2>3
<1>6. CASE InsertNoSpace \/ ValenceFails
  BY <1>6, FailEffect DEF Tree
<1>7. CASE Count
  BY <1>7, CountEffect, QuietTree
<1>8. CASE Valence
  <2>1. /\ op.todo \in {C3, D3, O12, M4} /\ op'.todo = Rest(op.todo)
        /\ op'.key = op.key /\ op'.old = op.old /\ op'.rec = op.rec
        /\ \A k \in Keys : /\ img'.cat[k].kind = img.cat[k].kind
                           /\ img'.cat[k].id = img.cat[k].id
                           /\ img'.cat[k].holds = img.cat[k].holds
        /\ img'.torn = img.torn /\ UNCHANGED <<disk, shown>>
    BY <1>8, ValenceEffect
  <2>2. View(img'.cat) = View(img.cat)
    BY <2>1, SameView
  <2>3. \/ op.todo = C3 /\ op'.todo = S2
        \/ op.todo = D3 /\ op'.todo = S2
        \/ op.todo = O12 /\ op'.todo = O11
        \/ op.todo = M4 /\ op'.todo = C3
    BY <2>1, Course
  <2> QED
    BY <2>1, <2>2, <2>3, QuietTree
<1>9. CASE Remove
  <2>1. /\ op \in Ops /\ op.todo \in {D4, O13} /\ op'.todo = Rest(op.todo)
        /\ op'.key = op.key /\ op'.old = op.old /\ op'.rec = op.rec
        /\ img'.cat = [img.cat EXCEPT ![op.old] = NoRec]
        /\ img'.torn = img.torn /\ UNCHANGED <<disk, shown>>
    BY <1>9, RemoveEffect
  <2>2. \/ op.todo = D4 /\ op'.todo = D3
        \/ op.todo = O13 /\ op'.todo = O12
    BY <2>1, Course
  <2> QED
    BY <2>1, <2>2, DropTree
<1>10. CASE Unlink
  <2>1. /\ op \in Ops /\ op.todo \in {M7, R5, F4} /\ op'.todo = Rest(op.todo)
        /\ op'.key = op.key /\ op'.old = op.old /\ op'.rec = op.rec
        /\ img'.cat = [img.cat EXCEPT ![op.old] = NoRec]
        /\ img'.torn = img.torn /\ UNCHANGED <<disk, shown>>
    BY <1>10, UnlinkEffect
  <2>2. op'.todo \in {M6, R4, F3}
    BY <2>1, Course
  <2> QED
    BY <2>1, <2>2, DropTree
<1>11. CASE commit
  BY <1>11, commitTree
<1>12. CASE Sync
  <2>1. disk' = img /\ UNCHANGED <<img, shown>>
    BY <1>12, SyncEffect
  <2>2. CASE Idle /\ op' = op
    BY <2>1, <2>2, IdleTree DEF Tree
  <2>3. CASE op.todo = S1 /\ op' = NoOp
    BY <2>1, <2>3, EndTree
  <2>4. CASE /\ op.todo = O10 /\ op'.todo = O9
             /\ op'.key = op.key /\ op'.old = op.old /\ op'.rec = op.rec
    <3>1. ~img.torn => WellFormed(View(img.cat))
      BY <2>4, Stages DEF Tree
    <3>2. ~img.torn => View(img.cat) = shown /\ Creatable(shown, op')
      BY <2>4, Stages, SameMarks DEF Tree
    <3>3. ~img.torn => Progress(View(img.cat), shown, op')
      BY <2>4, <3>2, StageOf DEF Progress
    <3> QED
      BY <2>1, <3>1, <3>3 DEF Tree
  <2> QED
    BY <1>12, <2>2, <2>3, <2>4, SyncEffect
<1>13. CASE SyncFails
  BY <1>13, SyncFailsEffect, EndTree
<1>14. CASE Restart
  <2>1. op' = NoOp /\ img' = disk /\ disk' = disk /\ shown' = View(disk.cat)
    BY <1>14, RestartEffect
  <2>2. View(disk.cat) \in [Keys -> Entries]
    BY ViewIsTree DEF Typed, Images, Trees
  <2> QED
    BY <2>1, <2>2 DEF Tree, Progress
<1>15. CASE UNCHANGED vars
  BY <1>15 DEF vars, Tree
<1> QED
  BY <1>1, <1>2, <1>3, <1>4, <1>5, <1>6, <1>7, <1>8, <1>9, <1>10, <1>11,
     <1>12, <1>13, <1>14, <1>15 DEF Next, Step

\* A fresh volume has the root folder.
LEMMA InitTree == Init => Tree
<1> SUFFICES ASSUME Init
             PROVE  Tree
  OBVIOUS
<1> DEFINE n == CHOOSE m \in Names : TRUE
           r == <<RootParent, n>>
           t == View(img.cat)
<1>1. n \in Names
  BY VolumeAssumption
<1> HIDE DEF n
<1>2. img = MkfsImage(n) /\ disk = img /\ op = NoOp /\ shown = t
  BY DEF Init, n
<1>3. img.cat \in [Keys -> Recs]
  BY <1>1, <1>2, FreshTyped DEF Images
<1>4. r \in Keys /\ r[1] = RootParent
  BY <1>1 DEF Keys, Dirs
<1>5. \A k \in Keys : img.cat[k] = IF k = r THEN FolderRec(Root) ELSE NoRec
  BY <1>1, <1>2, FreshTyped
<1>6. FolderRec(Root).kind = "folder" /\ FolderRec(Root).id = Root /\ NoRec.kind = "none"
  BY DEF FolderRec, NoRec
<1>7. Named(img.cat) = {r}
  BY <1>4, <1>5, <1>6 DEF Named
<1>8. t \in Trees /\ Named(t) = {r} /\ t[r].kind = "folder" /\ t[r].id = Root
  BY <1>3, <1>4, <1>5, <1>6, <1>7, ViewIsTree
<1> HIDE DEF r, t
<1>9. WellFormed(t)
  BY <1>4, <1>8 DEF WellFormed, HasFolder
<1> QED
  BY <1>2, <1>8, <1>9 DEF Tree, Trees, Progress, t

\* Until an operation fails half way the catalog is a tree, between operations,
\* at every commit and on the backing store.
THEOREM AlwaysTree == Spec => []Tree
BY InitTyped, NextTyped, InitIds, NextIds, InitTree, NextTree, PTL DEF Spec

\* An operation that returned has done what it committed and nothing else.
THEOREM NeverHalfDone == Spec => []NothingHalfDone
<1>1. Typed /\ Tree => NothingHalfDone
  BY IdleTree DEF NothingHalfDone
<1> QED
  BY <1>1, AlwaysTyped, AlwaysTree, PTL

-----------------------------------------------------------------------------
(* The file system that the operations implement. *)

\* No operation has failed half way.
Whole == ~img.torn

\* The entries of a tree, as FileSystem counts them.
LEMMA FSNamed ==
    ASSUME NEW t \in Trees
    PROVE  FS!Named(t) = Named(t)
BY EntryFields DEF FS!Named, Named, Trees, None

\* A commit is one change of the tree, or none when SetFinderInfo spelled the
\* name as the catalog does.
LEMMA commitImplements ==
    ASSUME Typed, Tree, Whole, commit
    PROVE  FS!Next \/ UNCHANGED FS!fsvars
<1> DEFINE v == View(img.cat)
           t == shown
<1>1. /\ op \in Ops /\ op.todo \in {S2, O11} /\ disk' = disk /\ shown' = v
  BY commitEffect
<1>2. v \in Trees /\ t \in Trees /\ op.key \in Keys /\ op.rec \in Recs
  BY <1>1, ViewIsTree DEF Typed, Images, Tree, Trees, Ops
<1>3. Progress(v, t, op) /\ WellFormed(t)
  BY DEF Tree, Whole
<1>4. FS!Named(t) = Named(t)
  BY <1>2, FSNamed
<1>5. \A k \in Keys : t[k] = Entry(NoRec) <=> k \notin Named(t)
  BY <1>2, EntryFields DEF Trees, Named, None
<1>6. \/ v = Without(t, op) /\ Removable(t, op)
      \/ v = With(t, op) /\ Insertable(t, op)
      \/ v = With(Without(t, op), op) /\ Movable(t, op)
  <2> HIDE DEF v, t
  <2> QED
    BY <1>1, <1>3, Stages DEF Replaceable
<1>7. shown = t /\ shown' = v /\ View(disk.cat)' = View(disk.cat)
  BY <1>1
<1> HIDE DEF v, t
<1>8. CASE v = Without(t, op) /\ Removable(t, op)
  <2>1. op.old \in Keys /\ op.old \in Named(t) /\ t[op.old].id = op.rec.id
    BY <1>2, <1>8, EntryFields DEF Removable, Named
  <2>2. t[op.old] # Entry(NoRec)
    BY <1>5, <2>1
  <2>3. ~FS!HasChildren(t, t[op.old].id)
    BY <1>4, <1>8, <2>1 DEF FS!HasChildren, Removable
  <2>4. FS!Remove(op.old)
    BY <1>7, <1>8, <2>2, <2>3 DEF FS!Remove, Without
  <2> QED
    BY <2>1, <2>4 DEF FS!Next
<1>9. CASE v = With(t, op) /\ Insertable(t, op)
  <2>1. /\ op.key \notin Named(t) /\ HasFolder(t, op.key[1])
        /\ op.rec.kind # "none" /\ op.rec.id # Root
        /\ \A k \in Named(t) : t[k].id # op.rec.id
    BY <1>2, <1>3, <1>9, CreatedWell DEF Insertable, Creatable
  <2> DEFINE e == Entry(op.rec)
  <2>2. e.kind # "none" /\ e.id # Root /\ e.id = op.rec.id /\ e \in Entries
    BY <1>2, <2>1, EntryFields
  <2>3. e \in FS!Entries
    <3>1. e # Entry(NoRec)
      BY <2>2, EntryFields DEF None
    <3> HIDE DEF e
    <3> QED
      BY <2>2, <3>1 DEF Entries, FS!Entries
  <2>4. v[op.key] = e /\ v = [t EXCEPT ![op.key] = e]
    BY <1>2, <1>9 DEF With, Trees
  <2>5. FS!IsFolder(t, op.key[1])
    BY <1>4, <2>1 DEF FS!IsFolder, HasFolder
  <2>6. t[op.key] = Entry(NoRec)
    BY <1>2, <1>5, <2>1
  <2> HIDE DEF e
  <2>7. FS!Create(op.key)
    BY <1>4, <1>7, <2>1, <2>2, <2>3, <2>4, <2>5, <2>6 DEF FS!Create
  <2> QED
    BY <1>2, <2>7 DEF FS!Next
<1>10. CASE v = With(Without(t, op), op) /\ Movable(t, op)
  <2> DEFINE e == Entry(op.rec)
  <2>1. op.old \in Keys /\ op.old \in Named(t) /\ t[op.old] = e
    BY <1>10 DEF Movable, Named
  <2>2. v = [[t EXCEPT ![op.old] = Entry(NoRec)] EXCEPT ![op.key] = e]
    BY <1>10 DEF With, Without
  <2> HIDE DEF e
  <2>3. CASE op.key = op.old
    <3>1. v = t
      BY <1>2, <2>1, <2>2, <2>3 DEF Trees
    <3> QED
      BY <1>7, <3>1 DEF FS!fsvars
  <2>4. CASE op.key # op.old
    <3>1. op.key \notin Named(t)
      BY <1>2, <1>3, <1>10, <2>4, MovedWell
    <3>2. t[op.key] = Entry(NoRec) /\ t[op.old] # Entry(NoRec)
      BY <1>2, <1>5, <2>1, <3>1
    <3>3. FS!Move(op.old, op.key)
      BY <1>7, <2>1, <2>2, <3>2 DEF FS!Move
    <3> QED
      BY <1>2, <2>1, <3>3 DEF FS!Next
  <2> QED
    BY <2>3, <2>4
<1> QED
  BY <1>6, <1>8, <1>9, <1>10

\* Every step is a step of the file system, or one it does not see.
LEMMA NextImplements ==
    Typed /\ Tree /\ Whole /\ [Next]_vars => [FS!Next]_FS!fsvars
<1> SUFFICES ASSUME Typed, Tree, Whole, [Next]_vars
             PROVE  FS!Next \/ UNCHANGED FS!fsvars
  OBVIOUS
<1>1. ASSUME disk' = disk, shown' = shown
      PROVE  UNCHANGED FS!fsvars
  BY <1>1 DEF FS!fsvars
<1>2. CASE Idle /\ Call
  BY <1>1, <1>2 DEF Call, WriteFile, Symlink, Truncate, Overwrite, NewFile,
     MkDir, DeleteFile, DeleteDir, Rename, SetFinderInfo, SetLabel, Start
<1>3. CASE Rebegin \/ Alloc \/ AllocNoSpace
  BY <1>1, <1>3, RebeginEffect, AllocEffect, AllocNoSpaceEffect
<1>4. CASE Insert \/ InsertGrows \/ InsertNoSpace \/ ValenceFails
  BY <1>1, <1>4, InsertEffect, FailEffect
<1>5. CASE Count \/ Valence \/ Remove \/ Unlink
  BY <1>1, <1>5, CountEffect, ValenceEffect, RemoveEffect, UnlinkEffect
<1>6. CASE commit
  BY <1>6, commitImplements
<1>7. CASE Sync
  <2>1. disk' = img /\ shown' = shown
    BY <1>7, SyncEffect
  <2>2. View(img.cat) = shown
    <3>1. Idle \/ op.todo \in {S1, O10}
      BY <1>7, SyncEffect
    <3>2. CASE Idle
      BY <3>2, IdleTree DEF Whole
    <3>3. CASE op.todo \in {S1, O10}
      BY <3>3, Stages DEF Tree, Whole
    <3> QED
      BY <3>1, <3>2, <3>3
  <2>3. View(disk.cat)' = shown
    BY <2>1, <2>2
  <2>4. FS!Sync
    BY <2>1, <2>3 DEF FS!Sync
  <2> QED
    BY <2>4 DEF FS!Next
<1>8. CASE SyncFails
  BY <1>1, <1>8, SyncFailsEffect
<1>9. CASE Restart
  <2>1. shown' = View(disk.cat) /\ disk' = disk
    BY <1>9, RestartEffect
  <2>2. FS!Restart
    BY <2>1 DEF FS!Restart
  <2> QED
    BY <2>2 DEF FS!Next
<1>10. CASE UNCHANGED vars
  BY <1>1, <1>10 DEF vars
<1> QED
  BY <1>2, <1>3, <1>4, <1>5, <1>6, <1>7, <1>8, <1>9, <1>10 DEF Next, Step

\* Init is the file system's.
LEMMA InitImplements == Init => FS!Init
<1> SUFFICES ASSUME Init
             PROVE  FS!Init
  OBVIOUS
<1>1. /\ shown = View(MkfsImage(CHOOSE n \in Names : TRUE).cat)
      /\ View(disk.cat) = View(MkfsImage(CHOOSE n \in Names : TRUE).cat)
  BY DEF Init
<1> QED
  BY <1>1 DEF FS!Init

\* As long as no operation fails half way, the write operations implement the
\* file system of module FileSystem: each commit changes one entry, Sync makes
\* stable what was committed, a restart at any step finds the last stable tree.
THEOREM VolumeImplements == Spec /\ []Whole => Implements
BY AlwaysTyped, AlwaysTree, InitImplements, NextImplements, PTL
   DEF Spec, Implements, FS!Spec

-----------------------------------------------------------------------------
(* Paths from the root. *)

Rooted(t) == \A k \in Named(t) : k[1] = RootParent \/ k[1] \in Folders(t)

\* An entry stays in its folder, is a file, or goes to a folder that can be
\* reached without it.
MoveOk(t, o) ==
    \/ o.key[1] = o.old[1]
    \/ o.rec.kind # "folder"
    \/ o.key[1] \in Folders(Without(t, o))

\* The lists of a move, two of which end other operations too.
Moves == {M7, R5, F4, M6, R4, F3, M5, M4, R3, C3, S2}

Reach ==
    /\ ~disk.torn => Rooted(View(disk.cat))
    /\ ~img.torn => Rooted(shown)
    /\ op.todo \in {D4, D3} => op.key = op.old
    /\ ~img.torn /\ op.todo \in Moves /\ Movable(shown, op) => MoveOk(shown, op)

\* The folders of a catalog are those of its entries.
LEMMA SameFolders ==
    ASSUME NEW cat \in [Keys -> Recs]
    PROVE  Folders(View(cat)) = Folders(cat)
<1> DEFINE t == View(cat)
<1>1. /\ Named(t) = Named(cat)
      /\ \A k \in Keys : t[k].kind = cat[k].kind /\ t[k].id = cat[k].id
  BY ViewIsTree
<1> HIDE DEF t
<1>2. \A S : Closed(t, S) <=> Closed(cat, S)
  BY <1>1 DEF Closed, Named
<1> QED
  BY <1>2 DEF Folders, t

\* Where every entry can be reached, every folder can.
LEMMA FolderReached ==
    ASSUME NEW t \in Trees, WellFormed(t), Rooted(t), NEW d, HasFolder(t, d)
    PROVE  d \in Folders(t)
<1>1. PICK k \in Named(t) : t[k].kind = "folder" /\ t[k].id = d
  BY DEF HasFolder
<1>2. d \in Dirs
  BY <1>1, EntryIds DEF Dirs
<1>3. ASSUME NEW S \in SUBSET Dirs, Closed(t, S)
      PROVE  d \in S
  <2>1. CASE k[1] = RootParent
    BY <1>1, <1>3, <2>1 DEF WellFormed, Closed
  <2>2. CASE k[1] # RootParent
    <3>1. k[1] \in S
      BY <1>3, <2>2 DEF Rooted, Folders
    <3> QED
      BY <1>1, <1>3, <3>1 DEF Closed
  <2> QED
    BY <2>1, <2>2
<1> QED
  BY <1>2, <1>3 DEF Folders

\* A removed entry was on no path to another.
LEMMA RemovedRooted ==
    ASSUME NEW t \in Trees, WellFormed(t), Rooted(t), NEW o, Removable(t, o)
    PROVE  Rooted(Without(t, o))
<1> DEFINE u == Without(t, o)
<1>1. o.old \in Keys /\ o.old \in Named(t)
  BY DEF Removable, Named
<1>2. /\ Named(u) = Named(t) \ {o.old} /\ \A k \in Named(u) : u[k] = t[k]
  BY <1>1, Dropped
<1> HIDE DEF u
<1>3. t[o.old].id = o.rec.id /\ \A k \in Named(t) : k[1] # o.rec.id
  BY DEF Removable, Entry
<1>4. o.rec.id \in Dirs
  BY <1>1, <1>3, EntryIds DEF Dirs
<1>5. ASSUME NEW S \in SUBSET Dirs, Closed(u, S)
      PROVE  Closed(t, S \cup {o.rec.id})
  BY <1>2, <1>3, <1>5 DEF Closed
<1>6. ASSUME NEW d \in Folders(t), d # o.rec.id
      PROVE  d \in Folders(u)
  <2>1. ASSUME NEW S \in SUBSET Dirs, Closed(u, S)
        PROVE  d \in S
    <3>1. S \cup {o.rec.id} \in SUBSET Dirs
      BY <1>4
    <3>2. d \in S \cup {o.rec.id}
      BY <1>5, <2>1, <3>1 DEF Folders
    <3> QED
      BY <1>6, <3>2
  <2> QED
    BY <2>1 DEF Folders
<1> QED
  BY <1>2, <1>3, <1>6 DEF Rooted, u

\* A new entry is in a folder that was there.
LEMMA CreatedRooted ==
    ASSUME NEW t \in Trees, WellFormed(t), Rooted(t), NEW o, o.key \in Keys,
           o.rec \in Recs, Insertable(t, o)
    PROVE  Rooted(With(t, o))
<1> DEFINE u == With(t, o)
<1>2. o.key \notin Named(t)
  BY CreatedWell
<1>3. /\ Named(u) = Named(t) \cup {o.key}
      /\ \A k \in Named(t) : u[k] = t[k]
  BY <1>2, Added DEF Insertable
<1> HIDE DEF u
<1>4. \A S : Closed(u, S) => Closed(t, S)
  BY <1>3 DEF Closed
<1>5. Folders(t) \subseteq Folders(u)
  BY <1>4 DEF Folders
<1>6. o.key[1] \in Folders(t)
  BY FolderReached DEF Insertable, Creatable
<1> QED
  BY <1>3, <1>5, <1>6 DEF Rooted, u

\* A moved entry is in a folder that can be reached without it, so whatever was
\* reached through it still is.
LEMMA MovedRooted ==
    ASSUME NEW t \in Trees, WellFormed(t), Rooted(t), NEW o, o.key \in Keys,
           o.rec \in Recs, Movable(t, o), MoveOk(t, o)
    PROVE  Rooted(With(Without(t, o), o))
<1> DEFINE w == Without(t, o)
           u == With(w, o)
           e == Entry(o.rec)
<1>1. /\ o.old \in Named(t) /\ o.old \in Keys /\ t[o.old] = e
      /\ o.key[1] = RootParent \/ HasFolder(t, o.key[1])
  BY DEF Movable, Named
<1>2. e \in Entries /\ e # None /\ e.kind = o.rec.kind
  BY <1>1, EntryIds, EntryFields
<1>3. w \in Trees /\ Named(w) = Named(t) \ {o.old} /\ \A k \in Named(w) : w[k] = t[k]
  BY <1>1, Dropped
<1>4. o.key # o.old => o.key \notin Named(t)
  BY MovedWell
<1> HIDE DEF w
<1>5. /\ u \in Trees /\ Named(u) = Named(w) \cup {o.key} /\ u[o.key] = e
      /\ \A k \in Named(w) \ {o.key} : u[k] = w[k]
  BY <1>2, <1>3, Edited DEF With, Named
<1> HIDE DEF u, e
<1>6. /\ Named(u) = (Named(t) \ {o.old}) \cup {o.key}
      /\ \A k \in Named(t) \ {o.old} : k # o.key /\ u[k] = t[k]
  BY <1>3, <1>4, <1>5
<1>7. ASSUME NEW S \in SUBSET Dirs, Closed(u, S)
      PROVE  Closed(t, S)
  <2>1. Root \in S /\ \A k \in Named(t) \ {o.old} :
           k[1] \in S /\ t[k].kind = "folder" => t[k].id \in S
    BY <1>6, <1>7 DEF Closed
  <2>2. o.key[1] \in S /\ e.kind = "folder" => e.id \in S
    BY <1>5, <1>6, <1>7 DEF Closed
  <2>3. o.old[1] \in S /\ e.kind = "folder" => e.id \in S
    <3>1. CASE o.key[1] = o.old[1]
      BY <2>2, <3>1
    <3>2. CASE o.rec.kind # "folder"
      BY <1>2, <3>2
    <3>3. CASE o.key[1] \in Folders(w)
      <4>1. Closed(w, S)
        BY <1>3, <2>1 DEF Closed
      <4>2. o.key[1] \in S
        BY <3>3, <4>1 DEF Folders
      <4> QED
        BY <2>2, <4>2
    <3> QED
      BY <3>1, <3>2, <3>3 DEF MoveOk, w
  <2> QED
    BY <1>1, <2>1, <2>3 DEF Closed
<1>8. Folders(t) \subseteq Folders(u)
  BY <1>7 DEF Folders
<1>9. o.key[1] = RootParent \/ o.key[1] \in Folders(t)
  BY <1>1, FolderReached
<1> QED
  BY <1>6, <1>8, <1>9 DEF Rooted, u, w

\* An operation that is none of those Reach speaks of.
LEMMA OtherReach ==
    ASSUME Reach, disk' = disk, shown' = shown, img'.torn = img.torn,
           op'.todo \notin {D4, D3}, op'.todo \notin Moves
    PROVE  Reach'
BY DEF Reach

\* A step within an operation.
LEMMA QuietReach ==
    ASSUME Tree, Reach, disk' = disk, shown' = shown, img'.torn = img.torn,
           op'.key = op.key, op'.old = op.old, op'.rec = op.rec,
           \/ op.todo \in {C4, D3} \cup Moves
           \/ op.todo = D4 /\ op'.todo = D3
           \/ op'.todo \notin {D4, D3} \cup Moves,
           op'.todo \in {D4, D3} => op.todo = D4
    PROVE  Reach'
<1>1. op'.todo \in {D4, D3} => op'.key = op'.old
  BY DEF Reach
<1>2. ASSUME ~img.torn, op'.todo \in Moves, Movable(shown, op')
      PROVE  MoveOk(shown, op')
  <2>1. Movable(shown, op)
    BY <1>2, SameMarks
  <2>2. MoveOk(shown, op) => MoveOk(shown, op')
    BY SameMarks DEF MoveOk
  <2>3. CASE op.todo \in Moves
    BY <1>2, <2>1, <2>2, <2>3 DEF Reach
  <2>4. CASE op.todo = C4
    <3>1. Insertable(shown, op)
      BY <1>2, <2>4, Stages DEF Tree
    <3>2. op.old \in Named(shown) /\ shown[op.old].id = op.rec.id
      BY <2>1 DEF Movable, Entry
    <3> QED
      BY <3>1, <3>2 DEF Insertable
  <2>5. CASE op.todo \in {D3, D4}
    BY <2>5 DEF Reach, MoveOk
  <2> QED
    BY <1>2, <2>3, <2>4, <2>5
<1> QED
  BY <1>1, <1>2 DEF Reach

\* The lists that Reach says nothing of.
LEMMA Elsewhere ==
    /\ \A x \in {<<>>, S1, O13, O12, O11, O10, O9, C8, C7, C6, C5, C4} :
          x \notin {D4, D3} /\ x \notin Moves
    /\ D4 \notin Moves /\ D3 \notin Moves
    /\ \A x \in Moves : x # D4 /\ x # D3
<1>1. {D4, D3} \cup Moves \subseteq Todos
  BY DEF Todos, Deleting, Deleted, Moves, Unlinking, Relinking, Moved
<1>2. <<>> \notin {D4, D3} \cup Moves
  BY <1>1, NothingPromised
<1>3. \A x \in {S1, O13, O12, O11, O10, O9, C8, C7, C6, C5, C4} :
         x \notin {D4, D3} /\ x \notin Moves
  BY Course, Distinct DEF Moves
<1> QED
  BY <1>2, <1>3, Course, Distinct DEF Moves

\* The calls move no folder below itself.
LEMMA CallReach ==
    ASSUME ~RenameIntoSelf, Typed, Tree, Reach, Idle, Call
    PROVE  Reach'
<1> DEFINE t == View(img.cat)
<1>1. img \in Images /\ img.cat \in [Keys -> Recs]
  BY DEF Typed, Images
<1>2. ~img.torn => shown = t
  BY IdleTree
<1>3. ASSUME NEW todo, NEW key, NEW old, NEW rec, NEW data,
             Start(todo, key, old, rec, data)
      PROVE  /\ op'.todo = todo /\ op'.key = key /\ op'.old = old /\ op'.rec = rec
             /\ disk' = disk /\ shown' = shown
  BY <1>3 DEF Start
<1>4. ASSUME NEW todo \in {O13, C8, C6}, NEW key, NEW old, NEW rec, NEW data,
             Start(todo, key, old, rec, data), img'.torn = img.torn
      PROVE  Reach'
  BY <1>3, <1>4, Elsewhere, OtherReach
<1>5. ASSUME NEW todo \in {M7, R5, F4}, NEW key, NEW l, NEW rec, NEW data,
             Start(todo, key, l, rec, data), img' = img,
             ~img.torn => MoveOk(shown, op')
      PROVE  Reach'
  <2>1. todo \in Moves
    BY DEF Moves
  <2> QED
    BY <1>3, <1>5, <2>1, Elsewhere DEF Reach
<1> HIDE DEF t
<1>6. ASSUME NEW k, NEW l, NEW data, Overwrite(k, l, data)
      PROVE  Reach'
  BY <1>4, <1>6, Begins DEF Overwrite
<1>7. ASSUME NEW k, NEW data, NewFile(k, data)
      PROVE  Reach'
  BY <1>4, <1>7, Begins DEF NewFile
<1>8. ASSUME NEW k, MkDir(k)
      PROVE  Reach'
  <2>1. Start(C6, k, NoKey, FolderRec(img.next), <<>>)
    BY <1>8, Begins DEF MkDir
  <2>2. img' = [img EXCEPT !.next = img.next + 1]
    BY <1>8 DEF MkDir
  <2>3. img'.torn = img.torn
    BY <1>1, <2>2 DEF Images
  <2> QED
    BY <1>4, <2>1, <2>3
<1>9. ASSUME NEW k, DeleteFile(k) \/ DeleteDir(k)
      PROVE  Reach'
  <2>1. PICK l : Start(D4, l, l, img.cat[l], <<>>)
    BY <1>9, Begins DEF DeleteFile, DeleteDir
  <2>2. img' = img
    BY <1>9 DEF DeleteFile, DeleteDir
  <2> QED
    BY <1>3, <2>1, <2>2, Elsewhere DEF Reach
<1>10. ASSUME NEW k \in Paths, NEW new \in Paths, Rename(k, new)
       PROVE  Reach'
  <2>1. PICK l \in lookupChild(img.cat, k) :
           /\ new[1] \notin Below(l)
           /\ Start(IF l[1] # new[1] THEN MoveSteps ELSE RenameSteps,
                    new, l, img.cat[l], <<>>)
    BY <1>10 DEF Rename
  <2>2. (IF l[1] # new[1] THEN MoveSteps ELSE RenameSteps) \in {M7, R5, F4}
    BY Begins
  <2>3. img' = img /\ l \in Keys
    BY <1>10 DEF Rename, lookupChild, Named
  <2>4. op'.key = new /\ op'.old = l /\ op'.rec = img.cat[l]
    BY <1>3, <2>1
  <2>5. ASSUME ~img.torn, img.cat[l].kind = "folder"
        PROVE  new[1] \in Folders(Without(shown, op'))
    <3> DEFINE cut == [img.cat EXCEPT ![l] = NoRec]
    <3>1. new[1] \in Folders(cut)
      BY <2>1, <2>5 DEF Below, Paths
    <3>2. cut \in [Keys -> Recs] /\ View(cut) = [t EXCEPT ![l] = Entry(NoRec)]
      <4>1. NoRec \in Recs
        BY DEF Recs
      <4> QED
        BY <1>1, <2>3, <4>1, ViewEdited DEF t
    <3>3. Without(shown, op') = View(cut)
      BY <1>2, <2>4, <2>5, <3>2 DEF Without
    <3> HIDE DEF cut
    <3> QED
      BY <3>1, <3>2, <3>3, SameFolders
  <2>6. ~img.torn => MoveOk(shown, op')
    BY <2>4, <2>5 DEF MoveOk
  <2> QED
    BY <1>5, <2>1, <2>2, <2>3, <2>6
<1>11. ASSUME NEW k, SetFinderInfo(k)
       PROVE  Reach'
  <2>1. PICK l \in lookupChild(img.cat, k) : Start(F4, k, l, img.cat[l], <<>>)
    BY <1>11, Begins DEF SetFinderInfo
  <2>2. img' = img /\ l[1] = k[1]
    BY <1>11 DEF SetFinderInfo, lookupChild
  <2>3. MoveOk(shown, op')
    BY <1>3, <2>1, <2>2 DEF MoveOk
  <2> QED
    BY <1>5, <2>1, <2>2, <2>3
<1>12. ASSUME NEW n \in Names, SetLabel(n)
       PROVE  Reach'
  <2>1. PICK l \in Label : Start(R5, <<RootParent, n>>, l, img.cat[l], <<>>)
    BY <1>12, Begins DEF SetLabel
  <2>2. img' = img /\ l[1] = RootParent
    BY <1>12 DEF SetLabel, Label, Children
  <2>3. MoveOk(shown, op')
    BY <1>3, <2>1, <2>2 DEF MoveOk
  <2> QED
    BY <1>5, <2>1, <2>2, <2>3
<1> QED
  BY <1>6, <1>7, <1>8, <1>9, <1>10, <1>11, <1>12
     DEF Call, WriteFile, Symlink, Truncate

\* Every step keeps every entry in reach.
LEMMA NextReach ==
    ASSUME ~RenameIntoSelf
    PROVE  Typed /\ Tree /\ Reach /\ [Next]_vars => Reach'
<1> SUFFICES ASSUME Typed, Tree, Reach, [Next]_vars
             PROVE  Reach'
  OBVIOUS
<1>1. CASE Idle /\ Call
  BY <1>1, CallReach
<1>2. CASE Rebegin
  BY <1>2, RebeginEffect, Elsewhere, OtherReach
<1>3. CASE Alloc
  BY <1>3, AllocEffect, Elsewhere, OtherReach
<1>4. CASE AllocNoSpace
  BY <1>4, AllocNoSpaceEffect, Elsewhere, OtherReach DEF NoOp
<1>5. CASE Insert \/ InsertGrows
  <2>1. /\ op.todo \in {C7, C6, M6, R4, F3, C5, M5, R3} /\ op'.todo = Rest(op.todo)
        /\ op'.key = op.key /\ op'.old = op.old /\ op'.rec = op.rec
        /\ img'.torn = img.torn /\ UNCHANGED <<disk, shown>>
    BY <1>5, InsertEffect
  <2>2. \/ op.todo \in Moves /\ op'.todo \in Moves
        \/ op'.todo \in {C6, C5, C4}
    BY <2>1, Course DEF Moves
  <2> QED
    BY <2>1, <2>2, Elsewhere, QuietReach
<1>6. CASE InsertNoSpace \/ ValenceFails
  <2>1. op' = NoOp /\ img'.torn = TRUE /\ disk' = disk /\ shown' = shown
    BY <1>6, FailEffect
  <2>2. op'.todo = <<>>
    BY <2>1 DEF NoOp
  <2> QED
    BY <2>1, <2>2, Elsewhere DEF Reach
<1>7. CASE Count
  <2>1. C3 \in Moves
    BY DEF Moves
  <2> QED
    BY <1>7, <2>1, CountEffect, Elsewhere, QuietReach
<1>8. CASE Valence
  <2>1. /\ op.todo \in {C3, D3, O12, M4} /\ op'.todo = Rest(op.todo)
        /\ op'.key = op.key /\ op'.old = op.old /\ op'.rec = op.rec
        /\ img'.torn = img.torn /\ UNCHANGED <<disk, shown>>
    BY <1>8, ValenceEffect
  <2>2. \/ op.todo \in {D3} \cup Moves /\ op'.todo \in Moves
        \/ op'.todo = O11
    BY <2>1, Course DEF Moves
  <2> QED
    BY <2>1, <2>2, Elsewhere, QuietReach
<1>9. CASE Remove
  <2>1. /\ op.todo \in {D4, O13} /\ op'.todo = Rest(op.todo)
        /\ op'.key = op.key /\ op'.old = op.old /\ op'.rec = op.rec
        /\ img'.torn = img.torn /\ UNCHANGED <<disk, shown>>
    BY <1>9, RemoveEffect
  <2>2. \/ op.todo = D4 /\ op'.todo = D3
        \/ op'.todo = O12
    BY <2>1, Course
  <2> QED
    BY <2>1, <2>2, Elsewhere, QuietReach
<1>10. CASE Unlink
  <2>1. /\ op.todo \in {M7, R5, F4} /\ op'.todo = Rest(op.todo)
        /\ op'.key = op.key /\ op'.old = op.old /\ op'.rec = op.rec
        /\ img'.torn = img.torn /\ UNCHANGED <<disk, shown>>
    BY <1>10, UnlinkEffect
  <2>2. op.todo \in Moves /\ op'.todo \in Moves
    BY <2>1, Course DEF Moves
  <2> QED
    BY <2>1, <2>2, Elsewhere, QuietReach
<1>11. CASE commit
  <2> DEFINE v == View(img.cat)
             t == shown
  <2>1. /\ op \in Ops /\ op.todo \in {S2, O11} /\ op'.todo = Rest(op.todo)
        /\ img'.torn = img.torn /\ shown' = v /\ disk' = disk
    BY <1>11, commitEffect
  <2>2. op'.todo \in {S1, O10}
    BY <2>1, Course
  <2>3. ASSUME ~img.torn
        PROVE  Rooted(v)
    <3>1. t \in Trees /\ op.key \in Keys /\ op.rec \in Recs
      BY <2>1 DEF Tree, Trees, Ops
    <3>2. Progress(v, t, op) /\ WellFormed(t) /\ Rooted(t)
      BY <2>3 DEF Tree, Reach
    <3>3. op.todo = S2 /\ Movable(t, op) => MoveOk(t, op)
      BY <2>3 DEF Reach, Moves
    <3> HIDE DEF v, t
    <3>4. \/ v = Without(t, op) /\ Removable(t, op)
          \/ v = With(t, op) /\ Insertable(t, op)
          \/ v = With(Without(t, op), op) /\ Movable(t, op) /\ MoveOk(t, op)
      BY <2>1, <3>2, <3>3, Stages DEF Replaceable
    <3> QED
      BY <3>1, <3>2, <3>4, RemovedRooted, CreatedRooted, MovedRooted
  <2> QED
    BY <2>1, <2>2, <2>3, Elsewhere DEF Reach
<1>12. CASE Sync
  <2>1. /\ disk' = img /\ img' = img /\ shown' = shown
        /\ (Idle /\ op' = op) \/ op' = NoOp \/ op'.todo = O9
    BY <1>12, SyncEffect
  <2>2. op'.todo \in {<<>>, O9}
    BY <2>1 DEF Idle, NoOp
  <2>3. ~img.torn => View(img.cat) = shown
    <3>1. CASE Idle
      BY <3>1, IdleTree
    <3>2. CASE op.todo \in {S1, O10}
      BY <3>2, Stages DEF Tree
    <3> QED
      BY <1>12, <3>1, <3>2, SyncEffect
  <2> QED
    BY <2>1, <2>2, <2>3, Elsewhere DEF Reach
<1>13. CASE SyncFails
  BY <1>13, SyncFailsEffect, Elsewhere, OtherReach DEF NoOp
<1>14. CASE Restart
  BY <1>14, RestartEffect, Elsewhere DEF NoOp, Reach
<1>15. CASE UNCHANGED vars
  BY <1>15 DEF vars, Reach
<1> QED
  BY <1>1, <1>2, <1>3, <1>4, <1>5, <1>6, <1>7, <1>8, <1>9, <1>10, <1>11,
     <1>12, <1>13, <1>14, <1>15 DEF Next, Step

\* The root of a fresh volume is its only entry.
LEMMA InitReach == Init => Reach
<1> SUFFICES ASSUME Init
             PROVE  Reach
  OBVIOUS
<1> DEFINE n == CHOOSE m \in Names : TRUE
           t == View(img.cat)
<1>1. n \in Names
  BY VolumeAssumption
<1> HIDE DEF n
<1>2. img = MkfsImage(n) /\ disk = img /\ op = NoOp /\ shown = t
  BY DEF Init, n
<1>3. img.cat \in [Keys -> Recs]
  BY <1>1, <1>2, FreshTyped DEF Images
<1>4. \A k \in Keys : k # <<RootParent, n>> => img.cat[k] = NoRec
  BY <1>1, <1>2, FreshTyped
<1>5. \A k \in Named(t) : k[1] = RootParent
  BY <1>3, <1>4, ViewIsTree DEF Named, NoRec
<1>6. Rooted(t)
  BY <1>5 DEF Rooted
<1> QED
  BY <1>2, <1>6, Elsewhere DEF Reach, NoOp

\* No operation cuts off a part of the tree: as long as callers move no folder
\* below itself, a path leads from the root to every entry.
THEOREM AlwaysReachable ==
    ASSUME ~RenameIntoSelf
    PROVE  Spec => []Reachable
<1>1. Typed /\ Tree /\ Reach => Reachable
  <2> SUFFICES ASSUME Typed, Tree, Reach, Idle \/ disk = img, ~img.torn
               PROVE  PathsMatch(img)
    BY DEF Reachable, Visible
  <2>1. img.cat \in [Keys -> Recs]
    BY DEF Typed, Images
  <2>2. Rooted(View(img.cat))
    BY IdleTree DEF Reach
  <2> QED
    BY <2>1, <2>2, ViewIsTree, SameFolders DEF Rooted, PathsMatch
<1>2. Init => Reach
  BY InitReach
<1>3. Typed /\ Tree /\ Reach /\ [Next]_vars => Reach'
  BY NextReach
<1> QED
  BY <1>1, <1>2, <1>3, AlwaysTyped, AlwaysTree, PTL DEF Spec

-----------------------------------------------------------------------------
(* Threads. *)

\* The record is inserted where there is none.
LEMMA FreeKey ==
    ASSUME Typed, Tree, ~img.torn, op \in Ops, op.todo \in {C6, M6, R4, F3}
    PROVE  op.key \notin Named(img.cat)
<1> DEFINE v == View(img.cat)
           t == shown
<1>1. t \in Trees /\ op.key \in Keys /\ op.rec \in Recs
  BY DEF Tree, Trees, Ops
<1>2. Progress(v, t, op) /\ WellFormed(t)
  BY DEF Tree
<1>3. Named(v) = Named(img.cat)
  BY ViewIsTree DEF Typed, Images
<1> HIDE DEF v, t
<1>4. CASE op.todo = C6
  BY <1>1, <1>2, <1>3, <1>4, Stages, CreatedWell
<1>5. CASE op.todo \in {M6, R4, F3}
  <2>1. v = Without(t, op) /\ Movable(t, op)
    BY <1>2, <1>5, Stages
  <2>2. op.key # op.old => op.key \notin Named(t)
    BY <1>1, <1>2, <2>1, MovedWell
  <2>3. op.old \in Keys
    BY <2>1 DEF Movable, Named
  <2>4. Named(v) = Named(t) \ {op.old}
    BY <1>1, <2>1, <2>3, Dropped
  <2> QED
    BY <1>3, <2>2, <2>4
<1> QED
  BY <1>4, <1>5

\* The record that is inserted has its entry's kind and id.
LEMMA PutKey ==
    ASSUME Typed, Tree, ~img.torn, op \in Ops, op.todo \in {C5, C4, M5, M4, R3, C3}
    PROVE  /\ op.key \in Named(img.cat) /\ img.cat[op.key].id = op.rec.id
           /\ img.cat[op.key].kind = op.rec.kind /\ op.rec.kind # "none"
<1> DEFINE v == View(img.cat)
           t == shown
<1>1. t \in Trees /\ op.key \in Keys /\ op.rec \in Recs
  BY DEF Tree, Trees, Ops
<1>2. Progress(v, t, op)
  BY DEF Tree
<1>3. /\ Named(v) = Named(img.cat)
      /\ v[op.key].kind = img.cat[op.key].kind /\ v[op.key].id = img.cat[op.key].id
  BY <1>1, ViewIsTree DEF Typed, Images
<1> HIDE DEF v, t
<1>4. \/ v = With(t, op) /\ Insertable(t, op)
      \/ v = With(Without(t, op), op) /\ Movable(t, op)
  BY <1>2, Stages
<1>5. op.rec.kind # "none"
  <2>1. CASE Insertable(t, op)
    BY <2>1 DEF Insertable
  <2>2. CASE Movable(t, op)
    <3>1. op.old \in Named(t) /\ t[op.old] = Entry(op.rec)
      BY <2>2 DEF Movable
    <3> QED
      BY <1>1, <3>1, EntryFields DEF Named
  <2> QED
    BY <1>4, <2>1, <2>2
<1>6. v[op.key] = Entry(op.rec)
  <2>1. CASE v = With(t, op)
    BY <1>1, <2>1 DEF With, Trees
  <2>2. CASE v = With(Without(t, op), op)
    <3>1. Without(t, op) \in [Keys -> Entries]
      BY <1>1, EntryFields DEF Without, Trees, None
    <3> DEFINE w == Without(t, op)
    <3> HIDE DEF w
    <3>2. w \in [Keys -> Entries] /\ v = With(w, op)
      BY <2>2, <3>1 DEF w
    <3> QED
      BY <1>1, <3>2 DEF With
  <2> QED
    BY <1>4, <2>1, <2>2
<1> QED
  BY <1>1, <1>3, <1>5, <1>6, EntryFields DEF Named

\* Two keys that lookupChild takes for the same name.
Same(l, k) == l[1] = k[1] /\ Fold[l[2]] = Fold[k[2]]

\* The threads lead back to the records, but for the id d.
ThreadsNear(i, d) ==
    /\ \A k \in Named(i.cat) :
          i.cat[k].id # d => LET l == i.thr[i.cat[k].id] IN l \in Keys /\ Same(l, k)
    /\ \A x \in Dirs \ {d} :
          i.thr[x] # NoKey => \E k \in Named(i.cat) : i.cat[k].id = x

\* Lists between the edits of a record and of its thread.
Loose == {C5, M5, R3, F3}

\* The threads, up to the spelling that SetFinderInfo left in them.
Threads ==
    /\ ~disk.torn => ThreadsNear(disk, 0)
    /\ ~img.torn => ThreadsNear(img, IF op.todo \in Loose THEN op.rec.id ELSE 0)
    /\ op.todo \in {F4, F3} => Same(op.old, op.key)
    /\ ~img.torn /\ op.todo = F3 =>
          img.thr[op.rec.id] \in Keys /\ Same(img.thr[op.rec.id], op.key)

\* The lists at which threads and records agree.
LEMMA Tight ==
    /\ \A x \in {<<>>, S1, S2, D4, D3, O13, O12, O11, O10, O9, C8, C7, C6, C4, C3,
                 M7, M6, M4, R5, R4} : x \notin Loose /\ x \notin {F4, F3}
    /\ F4 \notin Loose /\ F4 # F3
    /\ C5 \in Loose /\ M5 \in Loose /\ R3 \in Loose /\ F3 \in Loose
    /\ C5 \notin {F4, F3} /\ M5 \notin {F4, F3} /\ R3 \notin {F4, F3}
<1>1. Loose \cup {F4, F3} \subseteq Todos
  BY DEF Todos, Made, Moved, Unlinking, Relinking, Loose
<1>2. <<>> \notin Loose \cup {F4, F3}
  BY <1>1, NothingPromised
<1>3. \A x \in {S1, S2, D4, D3, O13, O12, O11, O10, O9, C8, C7, C6, C4, C3,
                M7, M6, M4, R5, R4} : x \notin Loose /\ x \notin {F4, F3}
  BY Course, Distinct DEF Loose
<1> QED
  BY <1>2, <1>3, Course, Distinct DEF Loose

\* Threads depend on kinds and ids.
LEMMA SameThreads ==
    ASSUME NEW i, NEW j, NEW d, ThreadsNear(i, d), j.thr = i.thr,
           \A k \in Keys : /\ j.cat[k].kind = i.cat[k].kind
                           /\ j.cat[k].id = i.cat[k].id
    PROVE  ThreadsNear(j, d)
<1>1. Named(j.cat) = Named(i.cat) /\ \A k \in Named(i.cat) : j.cat[k].id = i.cat[k].id
  BY DEF Named
<1> QED
  BY <1>1 DEF ThreadsNear

\* A step that edits neither.
LEMMA QuietThreads ==
    ASSUME Typed, Threads, disk' = disk, img'.torn = img.torn, img'.thr = img.thr,
           \A k \in Keys : /\ img'.cat[k].kind = img.cat[k].kind
                           /\ img'.cat[k].id = img.cat[k].id,
           op.todo \notin Loose, op'.todo \notin Loose, op'.todo \notin {F4, F3}
    PROVE  Threads'
<1>1. ~img.torn => ThreadsNear(img', 0)
  <2>1. ~img.torn => ThreadsNear(img, 0)
    BY DEF Threads
  <2> QED
    BY <2>1, SameThreads
<1> QED
  BY <1>1 DEF Threads

\* Deleting a record, with its thread or without.
LEMMA DropThreads ==
    ASSUME Typed, Ids, Threads, op \in Ops, disk' = disk, img'.torn = img.torn,
           op.todo \in {D4, O13, M7, R5, F4},
           img'.cat = [img.cat EXCEPT ![op.old] = NoRec],
           img'.thr = IF op.todo = F4 THEN img.thr
                      ELSE [img.thr EXCEPT ![op.rec.id] = NoKey],
           op'.rec = op.rec, op'.old = op.old, op'.key = op.key,
           IF op.todo = F4 THEN op'.todo = F3
           ELSE op'.todo \in {D3, O12, M6, R4}
    PROVE  Threads'
<1>1. img.cat \in [Keys -> Recs] /\ img.thr \in [Dirs -> Keys \cup {NoKey}]
  BY DEF Typed, Images
<1>2. op.todo \in Finding
  BY IdLists
<1>3. op.old \in Named(img.cat) /\ img.cat[op.old] = op.rec /\ op.old \in Keys
  BY <1>2 DEF Ids, Named
<1>4. \A k \in Keys : img'.cat[k] = IF k = op.old THEN NoRec ELSE img.cat[k]
  BY <1>1
<1>5. Named(img'.cat) = Named(img.cat) \ {op.old}
  BY <1>4 DEF Named, NoRec
<1>6. \A k \in Named(img'.cat) : img'.cat[k] = img.cat[k] /\ k # op.old
  BY <1>4, <1>5 DEF Named
<1>7. \A k \in Named(img'.cat) : img'.cat[k].id # op.rec.id
  BY <1>3, <1>5, <1>6 DEF Ids, IdsMatch
<1>8. \A k \in Named(img.cat) : img.cat[k].id \in Dirs
  BY <1>1, IdsAreDirs DEF Named
<1>9. op.rec.id \in Dirs
  BY <1>3, <1>8
<1>10. ~img.torn => ThreadsNear(img, 0)
  BY Tight DEF Threads
<1>11. \A x \in Dirs \ {op.rec.id} : img'.thr[x] = img.thr[x]
  BY <1>1
<1>12. ASSUME ~img.torn
       PROVE  ThreadsNear(img', op.rec.id)
  <2>1. \A k \in Named(img'.cat) :
           LET l == img'.thr[img'.cat[k].id] IN l \in Keys /\ Same(l, k)
    <3>1. \A k \in Named(img'.cat) :
             /\ img'.thr[img'.cat[k].id] = img.thr[img.cat[k].id]
             /\ k \in Named(img.cat)
      BY <1>5, <1>6, <1>7, <1>8, <1>11
    <3>2. \A k \in Named(img.cat) :
             LET l == img.thr[img.cat[k].id] IN l \in Keys /\ Same(l, k)
      <4>1. 0 \notin Dirs
        BY VolumeAssumption DEF Dirs, UserIds, FirstUser, Root, RootParent
      <4> QED
        BY <1>8, <1>10, <1>12, <4>1 DEF ThreadsNear
    <3> QED
      BY <3>1, <3>2
  <2>2. ASSUME NEW x \in Dirs \ {op.rec.id}, img'.thr[x] # NoKey
        PROVE  \E k \in Named(img'.cat) : img'.cat[k].id = x
    <3>1. x # 0
      BY VolumeAssumption DEF Dirs, UserIds, FirstUser, Root, RootParent
    <3>2. PICK k \in Named(img.cat) : img.cat[k].id = x
      BY <1>10, <1>11, <1>12, <2>2, <3>1 DEF ThreadsNear
    <3> QED
      BY <1>3, <1>5, <1>6, <3>2
  <2> QED
    BY <2>1, <2>2 DEF ThreadsNear
<1>13. CASE op.todo = F4
  <2>1. op'.todo = F3 /\ img'.thr = img.thr /\ op'.todo \in Loose
    BY <1>13, Tight
  <2>2. Same(op'.old, op'.key)
    BY <1>13 DEF Threads
  <2>3. ASSUME ~img.torn
        PROVE  img.thr[op.rec.id] \in Keys /\ Same(img.thr[op.rec.id], op.key)
    <3>1. op.rec.id # 0
      BY <1>9, VolumeAssumption DEF Dirs, UserIds, FirstUser, Root, RootParent
    <3>2. img.thr[op.rec.id] \in Keys /\ Same(img.thr[op.rec.id], op.old)
      BY <1>3, <1>10, <2>3, <3>1 DEF ThreadsNear
    <3> QED
      BY <2>2, <3>2 DEF Same
  <2> QED
    BY <1>12, <2>1, <2>2, <2>3 DEF Threads
<1>14. CASE op.todo # F4
  <2>1. img'.thr[op.rec.id] = NoKey
    BY <1>1, <1>9, <1>14
  <2>2. ~img.torn => ThreadsNear(img', 0)
    BY <1>7, <1>12, <2>1 DEF ThreadsNear
  <2>3. op'.todo \notin Loose /\ op'.todo \notin {F4, F3}
    BY <1>14, Tight
  <2> QED
    BY <2>2, <2>3 DEF Threads
<1> QED
  BY <1>13, <1>14

\* Inserting the record.
LEMMA PutThreads ==
    ASSUME Typed, Ids, Tree, Threads, op \in Ops, disk' = disk, img'.torn = img.torn,
           op.todo \in {C6, M6, R4, F3},
           img'.cat = [img.cat EXCEPT ![op.key] = op.rec], img'.thr = img.thr,
           op'.rec = op.rec,
           IF op.todo = F3 THEN op'.todo = S2 ELSE op'.todo \in {C5, M5, R3}
    PROVE  Threads'
<1>1. img.cat \in [Keys -> Recs] /\ img.thr \in [Dirs -> Keys \cup {NoKey}]
      /\ op.key \in Keys /\ op.rec \in Recs
  BY DEF Typed, Images, Ops
<1>2. op.todo \in Holding
  BY IdLists
<1>3. op.rec.kind # "none" /\ \A k \in Named(img.cat) : img.cat[k].id # op.rec.id
  BY <1>2 DEF Ids
<1>4. \A k \in Keys : img'.cat[k] = IF k = op.key THEN op.rec ELSE img.cat[k]
  BY <1>1
<1>5. Named(img'.cat) = Named(img.cat) \cup {op.key}
  BY <1>1, <1>3, <1>4 DEF Named
<1>6. ASSUME ~img.torn
      PROVE  \A k \in Named(img.cat) : img'.cat[k] = img.cat[k] /\ k # op.key
  <2>1. op.key \notin Named(img.cat)
    BY <1>6, FreeKey
  <2> QED
    BY <1>4, <2>1 DEF Named
<1>7. img'.cat[op.key] = op.rec
  BY <1>1, <1>4
<1>8. ASSUME ~img.torn
      PROVE  ThreadsNear(img', op.rec.id)
  <2>1. ThreadsNear(img, 0) \/ ThreadsNear(img, op.rec.id)
    BY <1>8 DEF Threads
  <2>2. 0 \notin Dirs /\ \A k \in Named(img.cat) : img.cat[k].id \in Dirs
    <3>1. 0 \notin Dirs
      BY VolumeAssumption DEF Dirs, UserIds, FirstUser, Root, RootParent
    <3> QED
      BY <1>1, <3>1, IdsAreDirs DEF Named
  <2>3. /\ \A k \in Named(img.cat) :
              LET l == img.thr[img.cat[k].id] IN l \in Keys /\ Same(l, k)
        /\ \A x \in Dirs \ {op.rec.id} :
              img.thr[x] # NoKey => \E k \in Named(img.cat) : img.cat[k].id = x
    BY <1>3, <2>1, <2>2 DEF ThreadsNear
  <2>4. \A k \in Named(img.cat) : img'.cat[k] = img.cat[k]
    BY <1>6, <1>8
  <2>5. \A k \in Named(img'.cat) : img'.cat[k].id # op.rec.id =>
           LET l == img'.thr[img'.cat[k].id] IN l \in Keys /\ Same(l, k)
    BY <1>5, <1>7, <2>3, <2>4
  <2>6. \A x \in Dirs \ {op.rec.id} :
           img'.thr[x] # NoKey => \E k \in Named(img'.cat) : img'.cat[k].id = x
    BY <1>5, <2>3, <2>4
  <2> QED
    BY <2>5, <2>6 DEF ThreadsNear
<1>9. CASE op.todo = F3
  <2>1. op'.todo \notin Loose /\ op'.todo \notin {F4, F3}
    BY <1>9, Tight
  <2>2. ASSUME ~img.torn
        PROVE  ThreadsNear(img', 0)
    <3>1. img.thr[op.rec.id] \in Keys /\ Same(img.thr[op.rec.id], op.key)
      BY <1>9, <2>2 DEF Threads
    <3>2. \A k \in Named(img.cat) : img'.cat[k].id # op.rec.id
      BY <1>3, <1>6, <2>2
    <3>3. \A k \in Named(img'.cat) :
             LET l == img'.thr[img'.cat[k].id] IN l \in Keys /\ Same(l, k)
      <4>1. \A k \in Named(img.cat) :
             LET l == img'.thr[img'.cat[k].id] IN l \in Keys /\ Same(l, k)
        BY <1>5, <1>8, <2>2, <3>2 DEF ThreadsNear
      <4>2. LET l == img'.thr[img'.cat[op.key].id] IN l \in Keys /\ Same(l, op.key)
        BY <1>7, <3>1
      <4> QED
        BY <1>5, <4>1, <4>2
    <3>4. \A x \in Dirs :
             img'.thr[x] # NoKey => \E k \in Named(img'.cat) : img'.cat[k].id = x
      BY <1>5, <1>7, <1>8, <2>2 DEF ThreadsNear
    <3> QED
      BY <3>3, <3>4 DEF ThreadsNear
  <2> QED
    BY <2>1, <2>2 DEF Threads
<1>10. CASE op.todo # F3
  <2>1. op'.todo \in Loose /\ op'.todo \notin {F4, F3}
    BY <1>10, Tight
  <2> QED
    BY <1>8, <2>1 DEF Threads
<1> QED
  BY <1>9, <1>10

\* Inserting the thread.
LEMMA LinkThreads ==
    ASSUME Typed, Ids, Tree, Threads, op \in Ops, disk' = disk, img'.torn = img.torn,
           op.todo \in {C5, M5, R3}, img'.cat = img.cat,
           img'.thr = [img.thr EXCEPT ![op.rec.id] = op.key],
           op'.todo \in {C4, M4, S2}
    PROVE  Threads'
<1>1. /\ img.cat \in [Keys -> Recs] /\ img.thr \in [Dirs -> Keys \cup {NoKey}]
      /\ op.key \in Keys /\ op.rec \in Recs
  BY DEF Typed, Images, Ops
<1>2. ASSUME ~img.torn
      PROVE  ThreadsNear(img', 0)
  <2>1. op.key \in Named(img.cat) /\ img.cat[op.key].id = op.rec.id
    BY <1>2, PutKey
  <2>2. \A k \in Named(img.cat) : img.cat[k].id \in Dirs
    BY <1>1, IdsAreDirs DEF Named
  <2>3. \A k \in Named(img.cat) : img.cat[k].id = op.rec.id => k = op.key
    BY <2>1 DEF Ids, IdsMatch
  <2>4. ThreadsNear(img, op.rec.id)
    BY <1>2, Tight DEF Threads
  <2>5. \A x \in Dirs : img'.thr[x] = IF x = op.rec.id THEN op.key ELSE img.thr[x]
    BY <1>1
  <2>6. ASSUME NEW k \in Named(img.cat)
        PROVE  LET l == img'.thr[img.cat[k].id] IN l \in Keys /\ Same(l, k)
    <3>1. CASE k = op.key
      BY <1>1, <2>1, <2>2, <2>5, <3>1 DEF Same
    <3>2. CASE k # op.key
      BY <2>2, <2>3, <2>4, <2>5, <3>2 DEF ThreadsNear
    <3> QED
      BY <3>1, <3>2
  <2>7. \A x \in Dirs : img'.thr[x] # NoKey => \E k \in Named(img.cat) : img.cat[k].id = x
    BY <2>1, <2>4, <2>5 DEF ThreadsNear
  <2> QED
    BY <2>6, <2>7 DEF ThreadsNear
<1>3. op'.todo \notin Loose /\ op'.todo \notin {F4, F3}
  BY Tight
<1> QED
  BY <1>2, <1>3 DEF Threads

\* The calls edit nothing; SetFinderInfo finds the record of its key.
LEMMA CallThreads ==
    ASSUME Typed, Threads, Idle, Call
    PROVE  Threads'
<1>1. img \in Images /\ op.todo \notin Loose
  BY Tight DEF Typed, Idle, NoOp
<1>2. ASSUME NEW todo, NEW key, NEW old, NEW rec, NEW data,
             Start(todo, key, old, rec, data)
      PROVE  op'.todo = todo /\ op'.key = key /\ op'.old = old /\ disk' = disk
  BY <1>2 DEF Start
<1>3. ASSUME NEW todo \in {D4, O13, C8, C6, M7, R5}, NEW key, NEW old, NEW rec,
             NEW data, Start(todo, key, old, rec, data),
             img'.cat = img.cat, img'.thr = img.thr, img'.torn = img.torn
      PROVE  Threads'
  BY <1>1, <1>2, <1>3, Tight, QuietThreads
<1>4. ASSUME NEW k, NEW l, NEW data, Overwrite(k, l, data)
      PROVE  Threads'
  BY <1>3, <1>4, Begins DEF Overwrite
<1>5. ASSUME NEW k, NEW data, NewFile(k, data)
      PROVE  Threads'
  BY <1>3, <1>5, Begins DEF NewFile
<1>6. ASSUME NEW k, MkDir(k)
      PROVE  Threads'
  <2>1. /\ Start(C6, k, NoKey, FolderRec(img.next), <<>>)
        /\ img' = [img EXCEPT !.next = img.next + 1]
    BY <1>6, Begins DEF MkDir
  <2>2. img'.cat = img.cat /\ img'.thr = img.thr /\ img'.torn = img.torn
    BY <1>1, <2>1 DEF Images
  <2> QED
    BY <1>3, <2>1, <2>2
<1>7. ASSUME NEW k, DeleteFile(k) \/ DeleteDir(k)
      PROVE  Threads'
  BY <1>3, <1>7, Begins DEF DeleteFile, DeleteDir
<1>8. ASSUME NEW k, NEW new, Rename(k, new)
      PROVE  Threads'
  <2>1. PICK l : Start(IF l[1] # new[1] THEN MoveSteps ELSE RenameSteps,
                       new, l, img.cat[l], <<>>)
    BY <1>8 DEF Rename
  <2>2. (IF l[1] # new[1] THEN MoveSteps ELSE RenameSteps) \in {M7, R5} /\ img' = img
    BY <1>8, Begins DEF Rename
  <2> QED
    BY <1>3, <2>1, <2>2
<1>9. ASSUME NEW k, SetFinderInfo(k)
      PROVE  Threads'
  <2>1. PICK l \in lookupChild(img.cat, k) : Start(F4, k, l, img.cat[l], <<>>)
    BY <1>9, Begins DEF SetFinderInfo
  <2>2. img' = img /\ Same(l, k)
    BY <1>9 DEF SetFinderInfo, lookupChild, Same
  <2>3. op'.todo = F4 /\ op'.key = k /\ op'.old = l /\ disk' = disk
    BY <1>2, <2>1
  <2> QED
    BY <1>1, <2>2, <2>3, Tight DEF Threads
<1>10. ASSUME NEW n, SetLabel(n)
       PROVE  Threads'
  BY <1>3, <1>10, Begins DEF SetLabel
<1> QED
  BY <1>4, <1>5, <1>6, <1>7, <1>8, <1>9, <1>10
     DEF Call, WriteFile, Symlink, Truncate

\* Every step keeps the threads.
LEMMA NextThreads ==
    Typed /\ Ids /\ Tree /\ Threads /\ [Next]_vars => Threads'
<1> SUFFICES ASSUME Typed, Ids, Tree, Threads, [Next]_vars
             PROVE  Threads'
  OBVIOUS
<1>1. CASE Idle /\ Call
  BY <1>1, CallThreads
<1>2. CASE Rebegin
  BY <1>2, RebeginEffect, Tight, QuietThreads
<1>3. CASE Alloc
  BY <1>3, AllocEffect, Tight, QuietThreads
<1>4. CASE AllocNoSpace
  BY <1>4, AllocNoSpaceEffect, Tight, QuietThreads DEF NoOp
<1>5. CASE Insert \/ InsertGrows
  <2>1. /\ op \in Ops /\ op.todo \in {C7, C6, M6, R4, F3, C5, M5, R3}
        /\ op'.todo = Rest(op.todo)
        /\ op'.key = op.key /\ op'.old = op.old /\ op'.rec = op.rec
        /\ img'.cat = IF Now(op.todo) = "record"
                      THEN [img.cat EXCEPT ![op.key] = op.rec] ELSE img.cat
        /\ img'.thr = IF Now(op.todo) = "thread"
                      THEN [img.thr EXCEPT ![op.rec.id] = op.key] ELSE img.thr
        /\ img'.torn = img.torn /\ disk' = disk
    BY <1>5, InsertEffect
  <2>2. CASE op.todo = C7
    <3>1. img'.cat = img.cat /\ img'.thr = img.thr /\ op'.todo = C6
      BY <2>1, <2>2, Course
    <3> QED
      BY <2>1, <2>2, <3>1, Tight, QuietThreads
  <2>3. CASE op.todo \in {C6, M6, R4, F3}
    <3>1. /\ img'.cat = [img.cat EXCEPT ![op.key] = op.rec] /\ img'.thr = img.thr
          /\ IF op.todo = F3 THEN op'.todo = S2 ELSE op'.todo \in {C5, M5, R3}
      BY <2>1, <2>3, Course
    <3> QED
      BY <2>1, <2>3, <3>1, PutThreads
  <2>4. CASE op.todo \in {C5, M5, R3}
    <3>1. /\ img'.cat = img.cat /\ op'.todo \in {C4, M4, S2}
          /\ img'.thr = [img.thr EXCEPT ![op.rec.id] = op.key]
      BY <2>1, <2>4, Course
    <3> QED
      BY <2>1, <2>4, <3>1, LinkThreads
  <2> QED
    BY <2>1, <2>2, <2>3, <2>4
<1>6. CASE InsertNoSpace \/ ValenceFails
  <2>1. op' = NoOp /\ img'.torn = TRUE /\ disk' = disk
    BY <1>6, FailEffect
  <2>2. op'.todo = <<>>
    BY <2>1 DEF NoOp
  <2> QED
    BY <2>1, <2>2, Tight DEF Threads
<1>7. CASE Count
  BY <1>7, CountEffect, Tight, QuietThreads
<1>8. CASE Valence
  <2>1. /\ op.todo \in {C3, D3, O12, M4} /\ op'.todo = Rest(op.todo)
        /\ \A k \in Keys : /\ img'.cat[k].kind = img.cat[k].kind
                           /\ img'.cat[k].id = img.cat[k].id
        /\ img'.thr = img.thr /\ img'.torn = img.torn /\ disk' = disk
    BY <1>8, ValenceEffect
  <2>2. op'.todo \in {S2, O11, C3}
    BY <2>1, Course
  <2> QED
    BY <2>1, <2>2, Tight, QuietThreads
<1>9. CASE Remove
  <2>1. /\ op \in Ops /\ op.todo \in {D4, O13} /\ op'.todo = Rest(op.todo)
        /\ op'.key = op.key /\ op'.old = op.old /\ op'.rec = op.rec
        /\ img'.cat = [img.cat EXCEPT ![op.old] = NoRec]
        /\ img'.thr = [img.thr EXCEPT ![op.rec.id] = NoKey]
        /\ img'.torn = img.torn /\ disk' = disk
    BY <1>9, RemoveEffect
  <2>2. op'.todo \in {D3, O12} /\ op.todo # F4
    BY <2>1, Course
  <2> QED
    BY <2>1, <2>2, DropThreads
<1>10. CASE Unlink
  <2>1. /\ op \in Ops /\ op.todo \in {M7, R5, F4} /\ op'.todo = Rest(op.todo)
        /\ op'.key = op.key /\ op'.old = op.old /\ op'.rec = op.rec
        /\ img'.cat = [img.cat EXCEPT ![op.old] = NoRec]
        /\ img'.thr = IF op.todo = F4 THEN img.thr
                      ELSE [img.thr EXCEPT ![op.rec.id] = NoKey]
        /\ img'.torn = img.torn /\ disk' = disk
    BY <1>10, UnlinkEffect
  <2>2. IF op.todo = F4 THEN op'.todo = F3 ELSE op'.todo \in {M6, R4}
    BY <2>1, Course
  <2> QED
    BY <2>1, <2>2, DropThreads
<1>11. CASE commit
  <2>1. /\ op.todo \in {S2, O11} /\ op'.todo = Rest(op.todo)
        /\ img'.cat = img.cat /\ img'.thr = img.thr /\ img'.torn = img.torn
        /\ disk' = disk
    BY <1>11, commitEffect
  <2>2. op'.todo \in {S1, O10}
    BY <2>1, Course
  <2> QED
    BY <2>1, <2>2, Tight, QuietThreads
<1>12. CASE Sync
  <2>1. disk' = img /\ img' = img
    BY <1>12, SyncEffect
  <2>2. op.todo \in {<<>>, S1, O10} /\ op'.todo \in {<<>>, O9}
    BY <1>12, SyncEffect DEF Idle, NoOp
  <2> QED
    BY <2>1, <2>2, Tight DEF Threads
<1>13. CASE SyncFails
  BY <1>13, SyncFailsEffect, Tight, QuietThreads DEF NoOp
<1>14. CASE Restart
  BY <1>14, RestartEffect, Tight DEF NoOp, Threads
<1>15. CASE UNCHANGED vars
  BY <1>15 DEF vars, Threads
<1> QED
  BY <1>1, <1>2, <1>3, <1>4, <1>5, <1>6, <1>7, <1>8, <1>9, <1>10, <1>11,
     <1>12, <1>13, <1>14, <1>15 DEF Next, Step

\* A fresh volume has the root's thread.
LEMMA InitThreads == Init => Threads
<1> SUFFICES ASSUME Init
             PROVE  Threads
  OBVIOUS
<1> DEFINE n == CHOOSE m \in Names : TRUE
           r == <<RootParent, n>>
<1>1. n \in Names
  BY VolumeAssumption
<1> HIDE DEF n
<1>2. img = MkfsImage(n) /\ disk = img /\ op = NoOp
  BY DEF Init, n
<1>3. \A k \in Keys : img.cat[k] = IF k = r THEN FolderRec(Root) ELSE NoRec
  BY <1>1, <1>2, FreshTyped
<1>4. \A d \in Dirs : img.thr[d] = IF d = Root THEN r ELSE NoKey
  BY <1>2 DEF MkfsImage
<1>5. r \in Keys /\ FolderRec(Root).id = Root /\ FolderRec(Root).kind = "folder"
  BY <1>1 DEF FolderRec, Keys, Dirs
<1>6. NoRec.kind = "none" /\ Root \in Dirs
  BY DEF NoRec, Dirs
<1> HIDE DEF r
<1>7. Named(img.cat) = {r} /\ img.cat[r].id = Root
  BY <1>3, <1>5, <1>6 DEF Named
<1>8. ThreadsNear(img, 0)
  BY <1>4, <1>5, <1>6, <1>7 DEF ThreadsNear, Same
<1> QED
  BY <1>2, <1>8, Tight DEF Threads, NoOp

\* Every record has a thread that leads to its name, in some spelling, and
\* every thread a record with its id.
THEOREM AlwaysThreads == Spec => []Threads
BY InitTyped, NextTyped, InitIds, NextIds, InitTree, NextTree,
   InitThreads, NextThreads, PTL DEF Spec

\* On a volume that compares names as they are (HFSX) records and threads are
\* inverse to each other whenever someone can look.
THEOREM ThreadsAlwaysAgree ==
    ASSUME \A m, n \in Names : Fold[m] = Fold[n] => m = n
    PROVE  Spec => []ThreadsAgree
<1>1. ASSUME NEW k \in Keys, NEW l \in Keys, Same(l, k)
      PROVE  l = k
  BY <1>1 DEF Same, Keys
<1>2. ASSUME NEW i \in Images, ThreadsNear(i, 0), IdsMatch(i)
      PROVE  ThreadsMatch(i)
  <2>1. 0 \notin Dirs
    BY VolumeAssumption DEF Dirs, UserIds, FirstUser, Root, RootParent
  <2>2. ASSUME NEW k \in Named(i.cat)
        PROVE  i.thr[i.cat[k].id] = k
    <3>1. k \in Keys /\ i.cat[k].id \in Dirs
      BY IdsAreDirs DEF Named, Images
    <3>2. i.thr[i.cat[k].id] \in Keys /\ Same(i.thr[i.cat[k].id], k)
      BY <1>2, <2>1, <3>1 DEF ThreadsNear
    <3> QED
      BY <1>1, <3>1, <3>2
  <2>3. ASSUME NEW d \in Dirs, i.thr[d] # NoKey
        PROVE  i.cat[i.thr[d]].id = d
    <3>1. PICK k \in Named(i.cat) : i.cat[k].id = d
      BY <1>2, <2>1, <2>3 DEF ThreadsNear
    <3> QED
      BY <2>2, <3>1
  <2> QED
    BY <2>2, <2>3 DEF ThreadsMatch
<1>3. Typed /\ Ids /\ Threads => ThreadsAgree
  <2> SUFFICES ASSUME Typed, Ids, Threads, Idle \/ disk = img, ~img.torn
               PROVE  ThreadsMatch(img)
    BY DEF ThreadsAgree, Visible
  <2>1. ThreadsNear(img, 0)
    <3>1. CASE Idle
      BY <3>1, Tight DEF Threads, Idle, NoOp
    <3>2. CASE disk = img
      BY <3>2 DEF Threads
    <3> QED
      BY <3>1, <3>2
  <2> QED
    BY <1>2, <2>1 DEF Typed, Ids
<1> QED
  BY <1>3, AlwaysTyped, AlwaysIds, AlwaysThreads, PTL

-----------------------------------------------------------------------------
(* Blocks and contents. *)

RecExtents(i, r) == r.ext \cup i.ovf[r.id]

\* The first n blocks of a fork with extents E.
Fetched(blk, E, n) == [m \in 1 .. n |-> blk[NthBlock(E, m)]]

\* The extents E hold the data of record r: as many blocks as it has, none of
\* a special file, and for a file what was written to it.
Good(i, r, E) ==
    /\ Cardinality(AllBlocks(E)) = r.size
    /\ AllBlocks(E) \cap i.fork = {}
    /\ r.kind = "file" => Fetched(i.blk, E, r.size) = r.holds

Kept(i) ==
    /\ \A k \in Named(i.cat) : Good(i, i.cat[k], Extents_(i, k))
    /\ \A k, l \in Named(i.cat) : k # l => Held(i, k) \cap Held(i, l) = {}

InUse(i) == i.fork \cup UNION {Held(i, k) : k \in Named(i.cat)}

\* Overflow records belong to ids with a thread, but for the id d.
Overflows(i, d) ==
    \A x \in Dirs \ {d} : i.ovf[x] # {} => i.thr[x] # NoKey

\* An image whose bitmap is up to date.
Stocked(i) ==
    /\ Kept(i)
    /\ i.bitmap = InUse(i)
    /\ i.free = freeCount(i.bitmap)
    /\ Overflows(i, 0)

\* The extents of a record that is not in the catalog.
OutExtents(i, o) == IF o.todo = C7 THEN o.rec.ext \cup o.spill
                    ELSE RecExtents(i, o.rec)

OutBlocks(i, o) ==
    IF o.todo \in Holding THEN AllBlocks(OutExtents(i, o)) ELSE {}

\* Lists with no edit since the bitmap was written, and those without a
\* bitmap in memory.
Written  == {<<>>, S1, O10, O9, C8}
Unloaded == {<<>>, S1, O10, O9}

\* Lists whose record may have overflow extents and no thread.
Threadless == {C6, C5, M6, M5, R4, R3}

\* The blocks in the middle of operation o, whose allocator has bitmap a.
Stocking(i, o, a) ==
    /\ Kept(i)
    /\ o.todo \in Holding =>
          /\ Good(i, o.rec, OutExtents(i, o))
          /\ \A k \in Named(i.cat) : OutBlocks(i, o) \cap Held(i, k) = {}
    /\ o.todo \notin Unloaded => a = InUse(i) \cup OutBlocks(i, o)
    /\ o.todo \in Written => i.bitmap = InUse(i) /\ i.free = freeCount(i.bitmap)
    /\ Overflows(i, IF o.todo \in Threadless THEN o.rec.id ELSE 0)

Store ==
    /\ ~disk.torn => Stocked(disk)
    /\ ~img.torn => Stocking(img, op, alc)

\* Where each list stands in these tables.
LEMMA StoreLists ==
    /\ \A x \in {<<>>, S1, O10, O9} :
          /\ x \in Unloaded /\ x \in Written /\ x \notin Holding /\ x \notin Threadless
    /\ C8 \in Written
    /\ \A x \in {S2, D4, D3, O13, O12, O11, C8, C4, C3, M7, M4, R5, F4} :
          x \notin Unloaded /\ x \notin Holding /\ x \notin Threadless
    /\ \A x \in {C5, M5, R3} : x \notin Unloaded /\ x \notin Holding /\ x \in Threadless
    /\ \A x \in {C6, M6, R4} : x \notin Unloaded /\ x \in Holding /\ x \in Threadless
    /\ \A x \in {C7, F3} : x \notin Unloaded /\ x \in Holding /\ x \notin Threadless
    /\ \A x \in {S2, D4, D3, O13, O12, O11, C7, C6, C5, C4, C3, M7, M6, M5, M4, R5, R4, R3, F4, F3} :
          x \notin Written
    /\ \A x \in {C6, M6, R4, F3} : x # C7
<1>1. {S2, D4, D3, O13, O12, O11, C8, C4, C3, M7, M4, R5, F4, C5, M5, R3, C6, M6, R4,
       C7, F3} \subseteq Todos
  BY DEF Todos, Deleting, Deleted, Clearing, Cleared, Between, Making, Inserting, Made,
     Unlinking, Relinking, Moved, Syncing
<1>2. Threadless \subseteq Todos /\ Holding \subseteq Todos
  BY <1>1, IdLists DEF Threadless
<1>3. <<>> \notin Todos
  BY NothingPromised
<1>4. Holding = {C7, C6, M6, R4, F3}
  BY IdLists
<1>5. \A x \in {S2, D4, D3, O13, O12, O11, C8, C4, C3, M7, M4, R5, F4, C5, M5, R3, C6, M6, R4,
       C7, F3} : x \notin {S1, O10, O9} /\ (x # C8 => x \notin Written)
  BY <1>1, <1>3, Course, Distinct DEF Written
<1>6. \A x \in {S1, O10, O9, S2, D4, D3, O13, O12, O11, C8, C4, C3, M7, M4, R5, F4} :
         x \notin Holding /\ x \notin Threadless
  BY <1>4, Course, Distinct DEF Threadless
<1>7. \A x \in {C5, M5, R3} : x \notin Holding
  BY <1>4, Course, Distinct
<1>8. \A x \in {C6, M6, R4, F3} : x # C7
  BY Course, Distinct
<1>9. \A x \in {C7, F3} : x \notin Threadless
  BY Course, Distinct DEF Threadless
<1>10. \A x \in {S2, D4, D3, O13, O12, O11, C7, C6, C5, C4, C3, M7, M6, M5, M4, R5, R4, R3, F4, F3} :
          x # C8
  BY Course, Distinct
<1> QED
  BY <1>1, <1>2, <1>3, <1>4, <1>5, <1>6, <1>7, <1>8, <1>9, <1>10
     DEF Unloaded, Written, Threadless

\* The extents of a record lie in the volume.
LEMMA RecExtentsInside ==
    ASSUME NEW i \in Images, NEW r \in Recs, r.kind # "none"
    PROVE  /\ RecExtents(i, r) \in SUBSET Inside
           /\ r.size \in Nat
           /\ r.ext \in SUBSET Inside
<1>1. r.ext \in SUBSET Inside /\ r.size \in Nat
  BY DEF Recs, FileRecs, FolderRecs, NoRec
<1>2. i.ovf[r.id] \in SUBSET Inside
  BY IdsAreDirs DEF Images
<1> QED
  BY <1>1, <1>2 DEF RecExtents

LEMMA HeldInside ==
    ASSUME NEW i \in Images, NEW k \in Named(i.cat)
    PROVE  /\ Extents_(i, k) = RecExtents(i, i.cat[k])
           /\ Extents_(i, k) \in SUBSET Inside
           /\ i.cat[k].size \in Nat /\ i.cat[k] \in Recs /\ i.cat[k].kind # "none"
<1>1. i.cat[k] \in Recs /\ i.cat[k].kind # "none"
  BY DEF Named, Images
<1>2. Extents_(i, k) = RecExtents(i, i.cat[k])
  BY DEF Extents_, RecExtents
<1> QED
  BY <1>1, <1>2, RecExtentsInside

\* A record's data stay where its blocks do.
LEMMA SameGood ==
    ASSUME NEW i, NEW j, NEW r, NEW q, NEW E \in SUBSET Inside, Good(i, r, E),
           q.kind = r.kind, q.size = r.size, q.holds = r.holds, r.size \in Nat,
           AllBlocks(E) \cap j.fork = {},
           \A b \in AllBlocks(E) : j.blk[b] = i.blk[b]
    PROVE  Good(j, q, E)
<1>1. \A n \in 1 .. r.size : NthBlock(E, n) \in AllBlocks(E)
  BY NthBlockFound DEF Good
<1>2. Fetched(j.blk, E, r.size) = Fetched(i.blk, E, r.size)
  BY <1>1 DEF Fetched
<1> QED
  BY <1>2 DEF Good

\* From i to j no record changed but for its counts, no block in use changed,
\* and unused blocks went to the trees.
Undisturbed(i, j, new) ==
    /\ \A k \in Keys : /\ j.cat[k].kind = i.cat[k].kind
                       /\ j.cat[k].id = i.cat[k].id
                       /\ j.cat[k].ext = i.cat[k].ext
                       /\ j.cat[k].size = i.cat[k].size
                       /\ j.cat[k].holds = i.cat[k].holds
    /\ \A k \in Named(i.cat) : j.ovf[i.cat[k].id] = i.ovf[i.cat[k].id]
    /\ \A b \in InUse(i) : j.blk[b] = i.blk[b]
    /\ j.fork = i.fork \cup new
    /\ new \cap InUse(i) = {}

LEMMA KeptStays ==
    ASSUME NEW i \in Images, NEW j \in Images, NEW new, Kept(i),
           Undisturbed(i, j, new)
    PROVE  /\ Kept(j) /\ InUse(j) = InUse(i) \cup new
           /\ Named(j.cat) = Named(i.cat)
           /\ \A k \in Named(i.cat) : Held(j, k) = Held(i, k)
<1> USE DEF Undisturbed
<1>1. Named(j.cat) = Named(i.cat)
  BY DEF Named
<1>2. ASSUME NEW k \in Named(i.cat)
      PROVE  Extents_(j, k) = Extents_(i, k) /\ Held(j, k) = Held(i, k)
  BY DEF Extents_, Held, Named
<1>3. ASSUME NEW k \in Named(i.cat)
      PROVE  Good(j, j.cat[k], Extents_(j, k))
  <2> DEFINE E == Extents_(i, k)
  <2>1. E \in SUBSET Inside /\ i.cat[k].size \in Nat /\ k \in Keys
    BY HeldInside DEF Named
  <2>2. Good(i, i.cat[k], E)
    BY DEF Kept
  <2>3. AllBlocks(E) \subseteq InUse(i)
    BY DEF InUse, Held
  <2>4. AllBlocks(E) \cap j.fork = {}
    BY <2>2, <2>3 DEF Good
  <2> HIDE DEF E
  <2>5. Good(j, j.cat[k], E)
    BY <2>1, <2>2, <2>3, <2>4, SameGood
  <2> QED
    BY <1>2, <2>5 DEF E
<1>4. Kept(j)
  BY <1>1, <1>2, <1>3 DEF Kept
<1>5. {Held(j, k) : k \in Named(j.cat)} = {Held(i, k) : k \in Named(i.cat)}
  BY <1>1, <1>2
<1>6. InUse(j) = InUse(i) \cup new
  BY <1>5 DEF InUse
<1> QED
  BY <1>1, <1>2, <1>4, <1>6

\* A record leaves with its blocks.
Drops(i, j, old) ==
    /\ j.cat = [i.cat EXCEPT ![old] = NoRec]
    /\ \A x \in Dirs \ {i.cat[old].id} : j.ovf[x] = i.ovf[x]
    /\ j.blk = i.blk
    /\ j.fork = i.fork

LEMMA KeptDrops ==
    ASSUME NEW i \in Images, NEW j \in Images, NEW old \in Named(i.cat), Kept(i),
           IdsMatch(i), Drops(i, j, old)
    PROVE  /\ Kept(j)
           /\ InUse(j) \cap Held(i, old) = {}
           /\ InUse(i) = InUse(j) \cup Held(i, old)
           /\ \A k \in Named(j.cat) : Held(j, k) \cap Held(i, old) = {}
<1> USE DEF Drops
<1>1. i.cat \in [Keys -> Recs] /\ old \in Keys
  BY DEF Images, Named
<1>2. \A k \in Keys : j.cat[k] = IF k = old THEN NoRec ELSE i.cat[k]
  BY <1>1
<1>3. Named(j.cat) = Named(i.cat) \ {old}
  BY <1>2 DEF Named, NoRec
<1>4. \A k \in Named(j.cat) :
         j.cat[k] = i.cat[k] /\ i.cat[k].id \in Dirs \ {i.cat[old].id}
  BY <1>1, <1>2, <1>3, IdsAreDirs DEF IdsMatch, Named
<1>5. ASSUME NEW k \in Named(j.cat)
      PROVE  Extents_(j, k) = Extents_(i, k) /\ Held(j, k) = Held(i, k)
  BY <1>4 DEF Extents_, Held
<1>6. ASSUME NEW k \in Named(j.cat)
      PROVE  Good(j, j.cat[k], Extents_(j, k))
  <2>1. Good(i, i.cat[k], Extents_(i, k))
    BY <1>3 DEF Kept
  <2> QED
    BY <1>4, <1>5, <2>1 DEF Good
<1>7. Kept(j)
  BY <1>3, <1>5, <1>6 DEF Kept
<1>8. \A k \in Named(j.cat) : Held(j, k) \cap Held(i, old) = {}
  BY <1>3, <1>5 DEF Kept
<1>9. Held(i, old) \cap i.fork = {}
  BY DEF Kept, Good, Held
<1>10. InUse(j) \cap Held(i, old) = {}
  BY <1>8, <1>9 DEF InUse
<1>11. InUse(i) = InUse(j) \cup Held(i, old)
  <2>1. ASSUME NEW b \in InUse(i)
        PROVE  b \in InUse(j) \cup Held(i, old)
    BY <1>3, <1>5 DEF InUse
  <2>2. ASSUME NEW b \in InUse(j)
        PROVE  b \in InUse(i)
    BY <1>3, <1>5 DEF InUse
  <2>3. Held(i, old) \subseteq InUse(i)
    BY DEF InUse
  <2> QED
    BY <2>1, <2>2, <2>3
<1> QED
  BY <1>7, <1>8, <1>10, <1>11

\* A record comes with blocks that nobody holds.
Adds(i, j, key, r, new) ==
    /\ key \notin Named(i.cat)
    /\ Good(i, r, RecExtents(i, r))
    /\ \A k \in Named(i.cat) : AllBlocks(RecExtents(i, r)) \cap Held(i, k) = {}
    /\ j.cat = [i.cat EXCEPT ![key] = r]
    /\ j.ovf = i.ovf
    /\ j.blk = i.blk
    /\ j.fork = i.fork \cup new
    /\ new \cap (InUse(i) \cup AllBlocks(RecExtents(i, r))) = {}

LEMMA KeptAdds ==
    ASSUME NEW i \in Images, NEW j \in Images, NEW new, Kept(i),
           NEW key \in Keys, NEW r \in Recs, r.kind # "none", Adds(i, j, key, r, new)
    PROVE  /\ Kept(j)
           /\ InUse(j) = InUse(i) \cup AllBlocks(RecExtents(i, r)) \cup new
<1> DEFINE E == RecExtents(i, r)
<1> USE DEF Adds
<1>1. i.cat \in [Keys -> Recs]
  BY DEF Images
<1>2. \A k \in Keys : j.cat[k] = IF k = key THEN r ELSE i.cat[k]
  BY <1>1
<1>3. Named(j.cat) = Named(i.cat) \cup {key}
  BY <1>2 DEF Named
<1>4. \A k \in Named(i.cat) : j.cat[k] = i.cat[k] /\ k # key
  BY <1>2 DEF Named
<1>5. ASSUME NEW k \in Named(i.cat)
      PROVE  Extents_(j, k) = Extents_(i, k) /\ Held(j, k) = Held(i, k)
  BY <1>4 DEF Extents_, Held
<1>6. Extents_(j, key) = E /\ Held(j, key) = AllBlocks(E) /\ j.cat[key] = r
  BY <1>2 DEF Extents_, Held, RecExtents
<1>7. ASSUME NEW k \in Named(i.cat)
      PROVE  Good(j, j.cat[k], Extents_(j, k))
  <2> DEFINE F == Extents_(i, k)
  <2>1. F \in SUBSET Inside /\ i.cat[k].size \in Nat
    BY HeldInside
  <2>2. Good(i, i.cat[k], F)
    BY DEF Kept
  <2>3. AllBlocks(F) \cap j.fork = {}
    BY <2>2 DEF Good, InUse, Held
  <2> HIDE DEF F
  <2>4. Good(j, i.cat[k], F)
    BY <2>1, <2>2, <2>3, SameGood
  <2> QED
    BY <1>4, <1>5, <2>4 DEF F
<1>8. Good(j, r, E)
  <2>1. E \in SUBSET Inside /\ r.size \in Nat
    BY RecExtentsInside
  <2>2. AllBlocks(E) \cap j.fork = {}
    BY DEF Good
  <2> QED
    BY <2>1, <2>2, SameGood
<1> HIDE DEF E
<1>9. \A k \in Named(i.cat) : AllBlocks(E) \cap Held(i, k) = {}
  BY DEF E
<1>10. ASSUME NEW k \in Named(j.cat), NEW l \in Named(j.cat), k # l
       PROVE  Held(j, k) \cap Held(j, l) = {}
  <2>1. CASE k \in Named(i.cat) /\ l \in Named(i.cat)
    BY <1>5, <1>10, <2>1 DEF Kept
  <2>2. CASE k = key
    BY <1>3, <1>5, <1>6, <1>9, <1>10, <2>2
  <2>3. CASE l = key
    BY <1>3, <1>5, <1>6, <1>9, <1>10, <2>3
  <2> QED
    BY <1>3, <2>1, <2>2, <2>3
<1>11. \A k \in Named(j.cat) : Good(j, j.cat[k], Extents_(j, k))
  BY <1>3, <1>6, <1>7, <1>8
<1>12. Kept(j)
  BY <1>10, <1>11 DEF Kept
<1>13. InUse(j) = InUse(i) \cup AllBlocks(E) \cup new
  <2>1. ASSUME NEW b \in InUse(j)
        PROVE  b \in InUse(i) \cup AllBlocks(E) \cup new
    BY <1>3, <1>5, <1>6 DEF InUse
  <2>2. ASSUME NEW b \in InUse(i)
        PROVE  b \in InUse(j)
    BY <1>3, <1>5 DEF InUse
  <2>3. AllBlocks(E) \subseteq InUse(j) /\ new \subseteq InUse(j)
    BY <1>3, <1>6 DEF InUse
  <2> QED
    BY <2>1, <2>2, <2>3
<1> QED
  BY <1>12, <1>13 DEF E

\* What writeForkData writes to the blocks is read from them in order.
LEMMA ReadsBack ==
    ASSUME NEW blk, NEW runs \in SUBSET Inside, NEW data \in Contents,
           Cardinality(AllBlocks(runs)) = Len(data)
    PROVE  Fetched(writeForkData(blk, runs, data), runs, Len(data)) = data
<1> DEFINE A == AllBlocks(runs)
           w == writeForkData(blk, runs, data)
<1>1. A \in SUBSET Blocks
  BY InsideBlocks
<1>2. ASSUME NEW n \in 1 .. Len(data)
      PROVE  w[NthBlock(runs, n)] = data[n]
  <2> DEFINE b == NthBlock(runs, n)
             L == {a \in A : a < b}
             M == {a \in A : a <= b}
  <2>1. b \in A /\ Cardinality(L) = n - 1
    BY NthBlockFound
  <2> HIDE DEF b
  <2>2. A \subseteq Int
    BY <1>1, TotalBlocksAssumption DEF Blocks
  <2>3. M = L \cup {b} /\ b \notin L
    BY <2>1, <2>2
  <2>4. L \in SUBSET Blocks
    BY <1>1
  <2>5. IsFiniteSet(L)
    BY <2>4, BlocksFinite
  <2>6. Cardinality(M) = n
    <3>1. Cardinality(L \cup {b}) = Cardinality(L) + 1
      BY <2>3, <2>5, FS_AddElement
    <3>2. n \in Int
      BY ContentsLen
    <3> HIDE DEF L, M
    <3> QED
      BY <2>1, <2>3, <3>1, <3>2
  <2>7. w[b] = data[Cardinality(M)]
    BY <1>1, <2>1 DEF writeForkData
  <2> QED
    BY <2>6, <2>7 DEF b
<1>3. data \in [1 .. Len(data) -> Stored]
  BY ContentsLen
<1> HIDE DEF w
<1>4. [n \in 1 .. Len(data) |-> w[NthBlock(runs, n)]] = data
  BY <1>2, <1>3
<1> QED
  BY <1>4 DEF w, Fetched

\* No overflow extents wait for the id that comes next.
LEMMA NextUnused ==
    ASSUME Typed, Ids, img.next \in UserIds, ThreadsNear(img, 0), Overflows(img, 0)
    PROVE  img.ovf[img.next] = {}
<1>1. img.next \in Dirs \ {0}
  BY VolumeAssumption DEF Dirs, UserIds, FirstUser
<1>2. ASSUME img.thr[img.next] # NoKey
      PROVE  FALSE
  <2>1. PICK k \in Named(img.cat) : img.cat[k].id = img.next
    BY <1>1, <1>2 DEF ThreadsNear
  <2>2. img.next < img.next
    BY <2>1 DEF Ids, IdsMatch
  <2> QED
    BY <2>2 DEF UserIds, FirstUser
<1> QED
  BY <1>1, <1>2 DEF Overflows

\* No extents, no blocks.
LEMMA Empty ==
    ASSUME NEW i, NEW r, r.ext = {}, r.size = 0, r.kind = "folder", i.ovf[r.id] = {}
    PROVE  AllBlocks(RecExtents(i, r)) = {} /\ Good(i, r, RecExtents(i, r))
<1>1. RecExtents(i, r) = {}
  BY DEF RecExtents
<1>2. AllBlocks({}) = {}
  BY DEF AllBlocks
<1> QED
  BY <1>1, <1>2, FS_EmptySet DEF Good

\* Between operations the bitmap is up to date.
LEMMA IdleStore ==
    ASSUME Store, op.todo \in {<<>>, S1, O10, O9, C8}, ~img.torn
    PROVE  Stocked(img)
BY StoreLists DEF Store, Stocking, Stocked

\* A bitmap that is up to date starts an operation.
LEMMA Stocks ==
    ASSUME NEW i, NEW o, NEW a, Stocked(i),
           \/ o.todo \in Unloaded
           \/ o.todo \in {D4, O13, C8, M7, R5, F4} /\ a = i.bitmap
    PROVE  Stocking(i, o, a)
<1>1. o.todo \notin Holding /\ o.todo \notin Threadless
  BY StoreLists DEF Unloaded
<1>2. OutBlocks(i, o) = {}
  BY <1>1 DEF OutBlocks
<1> QED
  BY <1>1, <1>2 DEF Stocking, Stocked

\* What it takes to look the same.
LEMMA SameStock ==
    ASSUME NEW i \in Images, NEW j \in Images, Stocked(i),
           j.cat = i.cat, j.thr = i.thr, j.ovf = i.ovf, j.fork = i.fork,
           j.bitmap = i.bitmap, j.free = i.free, j.blk = i.blk
    PROVE  Stocked(j)
<1>1. Kept(j) /\ InUse(j) = InUse(i)
  <2>1. Kept(i) /\ Undisturbed(i, j, {})
    BY DEF Stocked, Undisturbed
  <2>2. Kept(j) /\ InUse(j) = InUse(i) \cup {}
    BY <2>1, KeptStays
  <2> QED
    BY <2>2
<1> QED
  BY <1>1 DEF Stocked, Overflows

LEMMA CallStore ==
    ASSUME Typed, Ids, Tree, Threads, Store, Idle, Call
    PROVE  Store'
<1> SUFFICES ASSUME ~img.torn
             PROVE  Store'
  <2>1. ASSUME img.torn
        PROVE  disk' = disk /\ img'.torn = img.torn
    <3>1. ASSUME NEW k, MkDir(k)
          PROVE  disk' = disk /\ img'.torn = img.torn
      BY <3>1 DEF MkDir, Start, Typed, Images
    <3> QED
      BY <3>1 DEF Call, WriteFile, Symlink, Truncate, Overwrite, NewFile, DeleteFile, DeleteDir,
         Rename, SetFinderInfo, SetLabel, Start
  <2> QED
    BY <2>1 DEF Store
<1>1. img \in Images /\ op.todo = <<>>
  BY DEF Typed, Idle, NoOp
<1>2. Stocked(img) /\ (~disk.torn => Stocked(disk))
  BY <1>1, IdleStore DEF Store
<1>3. ASSUME NEW todo \in {D4, O13, C8, M7, R5, F4}, NEW key, NEW old, NEW rec,
             NEW data, Start(todo, key, old, rec, data), img' = img
      PROVE  Store'
  <2>1. op'.todo = todo /\ disk' = disk /\ alc' = img.bitmap
    BY <1>3 DEF Start
  <2>2. Stocking(img, op', alc')
    BY <1>2, <1>3, <2>1, Stocks
  <2> QED
    BY <1>2, <1>3, <2>1, <2>2 DEF Store
<1>4. ASSUME NEW k, NEW l, NEW data, Overwrite(k, l, data)
      PROVE  Store'
  BY <1>3, <1>4, Begins DEF Overwrite
<1>5. ASSUME NEW k, NEW data, NewFile(k, data)
      PROVE  Store'
  BY <1>3, <1>5, Begins DEF NewFile
<1>6. ASSUME NEW k, MkDir(k)
      PROVE  Store'
  <2> DEFINE r == FolderRec(img.next)
  <2>1. /\ Start(C6, k, NoKey, r, <<>>) /\ img.next <= LastCNID
        /\ img' = [img EXCEPT !.next = img.next + 1]
    BY <1>6, Begins DEF MkDir
  <2>2. /\ img'.cat = img.cat /\ img'.thr = img.thr /\ img'.torn = img.torn
        /\ img'.ovf = img.ovf /\ img'.fork = img.fork /\ img'.blk = img.blk
        /\ img'.bitmap = img.bitmap /\ img'.free = img.free
    BY <1>1, <2>1 DEF Images
  <2>3. op'.todo = C6 /\ op'.rec = r /\ alc' = img.bitmap /\ disk' = disk
    BY <2>1 DEF Start
  <2>4. img.next \in UserIds
    BY <1>1, <2>1, VolumeAssumption DEF Images, UserIds, FirstUser
  <2>5. img.ovf[img.next] = {}
    BY <1>1, <1>2, <2>4, Tight, NextUnused DEF Threads, Stocked
  <2>6. r.ext = {} /\ r.size = 0 /\ r.kind = "folder" /\ r.id = img.next
    BY DEF FolderRec
  <2> HIDE DEF r
  <2>7. AllBlocks(RecExtents(img', r)) = {} /\ Good(img', r, RecExtents(img', r))
    BY <2>2, <2>5, <2>6, Empty
  <2>8. img' \in Images
    BY CallTyped DEF Typed
  <2>9. Stocked(img')
    BY <1>1, <1>2, <2>2, <2>8, SameStock
  <2>10. C6 # C7 /\ C6 \in Holding /\ C6 \notin Written /\ C6 \in Threadless
    BY StoreLists
  <2>11. OutExtents(img', op') = RecExtents(img', r) /\ OutBlocks(img', op') = {}
    BY <2>3, <2>7, <2>10 DEF OutExtents, OutBlocks
  <2>12. alc' = InUse(img') \cup OutBlocks(img', op')
    BY <2>2, <2>3, <2>9, <2>11 DEF Stocked
  <2>13. Overflows(img', op'.rec.id)
    BY <2>9, VolumeAssumption DEF Stocked, Overflows, Dirs, UserIds, FirstUser, Root, RootParent
  <2>14. Good(img', op'.rec, OutExtents(img', op'))
    BY <2>3, <2>7, <2>11
  <2>15. Stocking(img', op', alc')
    BY <2>3, <2>9, <2>10, <2>11, <2>12, <2>13, <2>14 DEF Stocking, Stocked
  <2> QED
    BY <1>2, <2>3, <2>15 DEF Store
<1>7. ASSUME NEW k, DeleteFile(k) \/ DeleteDir(k)
      PROVE  Store'
  BY <1>3, <1>7, Begins DEF DeleteFile, DeleteDir
<1>8. ASSUME NEW k, NEW new, Rename(k, new)
      PROVE  Store'
  <2>1. PICK l : Start(IF l[1] # new[1] THEN MoveSteps ELSE RenameSteps,
                       new, l, img.cat[l], <<>>)
    BY <1>8 DEF Rename
  <2>2. (IF l[1] # new[1] THEN MoveSteps ELSE RenameSteps) \in {M7, R5} /\ img' = img
    BY <1>8, Begins DEF Rename
  <2> QED
    BY <1>3, <2>1, <2>2
<1>9. ASSUME NEW k, SetFinderInfo(k)
      PROVE  Store'
  BY <1>3, <1>9, Begins DEF SetFinderInfo
<1>10. ASSUME NEW n, SetLabel(n)
       PROVE  Store'
  BY <1>3, <1>10, Begins DEF SetLabel
<1> QED
  BY <1>4, <1>5, <1>6, <1>7, <1>8, <1>9, <1>10
     DEF Call, WriteFile, Symlink, Truncate

\* A step that touches no record, no overflow extents and no block in use.
LEMMA QuietStore ==
    ASSUME Typed, Typed', Store, ~img.torn, NEW new,
           \A k \in Keys : /\ img'.cat[k].kind = img.cat[k].kind
                           /\ img'.cat[k].id = img.cat[k].id
                           /\ img'.cat[k].ext = img.cat[k].ext
                           /\ img'.cat[k].size = img.cat[k].size
                           /\ img'.cat[k].holds = img.cat[k].holds,
           img'.ovf = img.ovf, img'.blk = img.blk, img'.fork = img.fork \cup new,
           new \cap alc = {}, alc' = alc \cup new,
           op.todo \notin Unloaded, op.todo \notin Holding, op'.todo \notin Holding,
           op'.todo \notin Written,
           Overflows(img', IF op'.todo \in Threadless THEN op'.rec.id ELSE 0)
    PROVE  Stocking(img', op', alc')
<1>1. Kept(img) /\ alc = InUse(img)
  BY DEF Store, Stocking, OutBlocks
<1>2. img \in Images /\ img' \in Images
  BY DEF Typed
<1>3. Undisturbed(img, img', new)
  BY <1>1 DEF Undisturbed
<1>4. Kept(img') /\ InUse(img') = InUse(img) \cup new
  BY <1>1, <1>2, <1>3, KeptStays
<1>5. OutBlocks(img', op') = {}
  BY DEF OutBlocks
<1> QED
  BY <1>1, <1>4, <1>5 DEF Stocking

\* createFile has its blocks and has written them.
LEMMA AllocStore ==
    ASSUME Typed, Ids, Threads, Store, Alloc, ~img.torn
    PROVE  Stocking(img', op', alc')
<1> DEFINE runs == allocFragments(alc, Len(op.data))
           c == Len(op.data)
           A == AllBlocks(runs)
           r == op'.rec
           E == OutExtents(img', op')
<1>1. /\ op \in Ops /\ op.todo = C8 /\ CanAlloc(alc, c) /\ img.next \in UserIds
      /\ op'.rec = FileRec(img.next, Inline(runs), op.data)
      /\ op'.spill = runs \ Inline(runs)
      /\ op'.todo = IF op'.spill = {} THEN C6 ELSE C7
      /\ alc' = alc \cup A
      /\ img'.blk = writeForkData(img.blk, runs, op.data)
      /\ img'.cat = img.cat /\ img'.thr = img.thr /\ img'.ovf = img.ovf
      /\ img'.fork = img.fork
      /\ Typed'
  BY AllocEffect
<1>2. op.data \in Contents /\ c \in Nat /\ alc \in SUBSET Blocks
      /\ img \in Images /\ img' \in Images
  BY <1>1, ContentsLen DEF Typed, Ops
<1>3. runs \in SUBSET Inside /\ A \in SUBSET Free(alc) /\ Cardinality(A) = c
  BY <1>1, <1>2, FragmentsExact
<1>4. Stocked(img) /\ alc = InUse(img)
  BY <1>1, IdleStore, StoreLists DEF Store, Stocking, OutBlocks
<1>5. img.ovf[img.next] = {}
  BY <1>1, <1>4, Tight, NextUnused DEF Threads, Stocked
<1>6. r.ext = Inline(runs) /\ r.id = img.next /\ r.kind = "file" /\ r.size = c
      /\ r.holds = op.data
  BY <1>1 DEF FileRec
<1>7. Inline(runs) \subseteq runs
  BY DEF Inline
<1> HIDE DEF runs
<1>8. E = runs
  <2>1. CASE op'.spill = {}
    <3>1. op'.todo # C7
      BY <1>1, <2>1, StoreLists
    <3>2. E = Inline(runs) \cup {}
      BY <1>1, <1>5, <1>6, <3>1 DEF OutExtents, RecExtents
    <3> QED
      BY <1>1, <1>7, <2>1, <3>2
  <2>2. CASE op'.spill # {}
    <3>1. op'.todo = C7
      BY <1>1, <2>2
    <3> QED
      BY <1>1, <1>6, <1>7, <3>1 DEF OutExtents
  <2> QED
    BY <2>1, <2>2
<1>9. op'.todo \in Holding /\ op'.todo \notin Written /\ op'.todo \notin Unloaded
  BY <1>1, StoreLists
<1>10. OutBlocks(img', op') = A
  BY <1>8, <1>9 DEF OutBlocks
<1>11. A \cap InUse(img) = {}
  BY <1>3, <1>4 DEF Free
<1>12. \A b \in InUse(img) : img'.blk[b] = img.blk[b]
  BY <1>1, <1>2, <1>4, <1>11 DEF writeForkData
<1>13. /\ Kept(img') /\ InUse(img') = InUse(img) \cup {}
       /\ Named(img'.cat) = Named(img.cat)
       /\ \A k \in Named(img.cat) : Held(img', k) = Held(img, k)
  <2>1. Undisturbed(img, img', {})
    BY <1>1, <1>12 DEF Undisturbed
  <2> QED
    BY <1>2, <1>4, <2>1, KeptStays DEF Stocked
<1>14. Good(img', r, E)
  <2>1. A \cap img'.fork = {}
    BY <1>1, <1>11 DEF InUse
  <2>2. Fetched(img'.blk, runs, c) = op.data
    BY <1>1, <1>2, <1>3, ReadsBack
  <2> QED
    BY <1>3, <1>6, <1>8, <2>1, <2>2 DEF Good
<1>15. \A k \in Named(img'.cat) : OutBlocks(img', op') \cap Held(img', k) = {}
  BY <1>10, <1>11, <1>13 DEF InUse
<1>16. alc' = InUse(img') \cup OutBlocks(img', op')
  BY <1>1, <1>4, <1>10, <1>13
<1>17. Overflows(img', IF op'.todo \in Threadless THEN op'.rec.id ELSE 0)
  BY <1>1, <1>4, VolumeAssumption
     DEF Stocked, Overflows, Dirs, UserIds, FirstUser, Root, RootParent
<1> QED
  BY <1>9, <1>13, <1>14, <1>15, <1>16, <1>17 DEF Stocking

\* The overflow records of the file.
LEMMA SpillStore ==
    ASSUME Typed, Typed', Ids, Store, ~img.torn, op \in Ops, op.todo = C7, op'.todo = C6,
           op'.rec = op.rec, img'.cat = img.cat, img'.thr = img.thr, img'.blk = img.blk,
           img'.ovf = [img.ovf EXCEPT ![op.rec.id] = op.spill],
           NEW new \in SUBSET Free(alc),
           img'.fork = img.fork \cup new, alc' = alc \cup new
    PROVE  Stocking(img', op', alc')
<1> DEFINE d == op.rec.id
           E == op.rec.ext \cup op.spill
<1>1. img \in Images /\ img' \in Images /\ op.rec \in Recs /\ op.spill \in SUBSET Inside
  BY DEF Typed, Ops
<1>2. /\ C7 \in Holding /\ C7 \notin Unloaded /\ C6 \in Holding /\ C6 \notin Unloaded
      /\ C6 \notin Written /\ C6 \in Threadless /\ C6 # C7 /\ C7 \notin Threadless
  BY StoreLists
<1>3. op.rec.kind # "none" /\ \A k \in Named(img.cat) : img.cat[k].id # d
  BY <1>2 DEF Ids
<1>4. d \in Dirs
  BY <1>1, <1>3, IdsAreDirs
<1>5. \A x \in Dirs : img'.ovf[x] = IF x = d THEN op.spill ELSE img.ovf[x]
  BY <1>1 DEF Images
<1>6. OutExtents(img, op) = E /\ OutBlocks(img, op) = AllBlocks(E)
  BY <1>2 DEF OutExtents, OutBlocks
<1>7. OutExtents(img', op') = E /\ OutBlocks(img', op') = AllBlocks(E)
  BY <1>2, <1>4, <1>5 DEF OutExtents, OutBlocks, RecExtents
<1> HIDE DEF E
<1>8. /\ Kept(img) /\ Good(img, op.rec, E)
      /\ \A k \in Named(img.cat) : AllBlocks(E) \cap Held(img, k) = {}
      /\ alc = InUse(img) \cup AllBlocks(E)
      /\ Overflows(img, 0)
  BY <1>2, <1>6 DEF Store, Stocking
<1>9. new \cap InUse(img) = {} /\ new \cap AllBlocks(E) = {}
  BY <1>8 DEF Free
<1>10. \A k \in Named(img.cat) : img'.ovf[img.cat[k].id] = img.ovf[img.cat[k].id]
  BY <1>1, <1>3, <1>5, HeldInside, IdsAreDirs
<1>11. /\ Kept(img') /\ InUse(img') = InUse(img) \cup new
       /\ Named(img'.cat) = Named(img.cat)
       /\ \A k \in Named(img.cat) : Held(img', k) = Held(img, k)
  <2>1. Undisturbed(img, img', new)
    BY <1>9, <1>10 DEF Undisturbed
  <2> QED
    BY <1>1, <1>8, <2>1, KeptStays
<1>12. Good(img', op.rec, E)
  <2>1. E \in SUBSET Inside /\ op.rec.size \in Nat
    BY <1>1, <1>3, RecExtentsInside DEF E
  <2>2. AllBlocks(E) \cap img'.fork = {}
    BY <1>8, <1>9 DEF Good
  <2> QED
    BY <1>8, <2>1, <2>2, SameGood
<1>13. Overflows(img', d)
  BY <1>5, <1>8, VolumeAssumption
     DEF Overflows, Dirs, UserIds, FirstUser, Root, RootParent
<1> QED
  BY <1>2, <1>7, <1>8, <1>11, <1>12, <1>13 DEF Stocking

\* The record of an entry.
LEMMA PutStore ==
    ASSUME Typed, Typed', Ids, Tree, Store, ~img.torn, op \in Ops,
           op.todo \in {C6, M6, R4, F3},
           IF op.todo = F3 THEN op'.todo = S2 ELSE op'.todo \in {C5, M5, R3},
           op'.rec = op.rec, img'.cat = [img.cat EXCEPT ![op.key] = op.rec],
           img'.thr = img.thr, img'.ovf = img.ovf, img'.blk = img.blk,
           NEW new \in SUBSET Free(alc),
           img'.fork = img.fork \cup new, alc' = alc \cup new
    PROVE  Stocking(img', op', alc')
<1> DEFINE E == RecExtents(img, op.rec)
<1>1. img \in Images /\ img' \in Images /\ op.rec \in Recs /\ op.key \in Keys
  BY DEF Typed, Ops
<1>2. op.todo \in Holding /\ op.todo \notin Unloaded /\ op.todo # C7
  BY StoreLists
<1>3. op.rec.kind # "none"
  BY <1>2 DEF Ids
<1>4. op.key \notin Named(img.cat)
  BY FreeKey
<1>5. OutExtents(img, op) = E /\ OutBlocks(img, op) = AllBlocks(E)
  BY <1>2 DEF OutExtents, OutBlocks
<1>6. /\ Kept(img) /\ Good(img, op.rec, RecExtents(img, op.rec))
      /\ \A k \in Named(img.cat) : AllBlocks(RecExtents(img, op.rec)) \cap Held(img, k) = {}
      /\ alc = InUse(img) \cup AllBlocks(E)
  BY <1>2, <1>5 DEF Store, Stocking
<1>7. new \cap (InUse(img) \cup AllBlocks(RecExtents(img, op.rec))) = {}
  BY <1>6 DEF Free
<1>8. Kept(img') /\ InUse(img') = InUse(img) \cup AllBlocks(E) \cup new
  <2> DEFINE r == op.rec
             key == op.key
  <2>1. Adds(img, img', key, r, new)
    BY <1>4, <1>6, <1>7 DEF Adds
  <2>2. r \in Recs /\ r.kind # "none" /\ key \in Keys
    BY <1>1, <1>3
  <2> HIDE DEF r, key
  <2>3. Kept(img') /\ InUse(img') = InUse(img) \cup AllBlocks(RecExtents(img, r)) \cup new
    BY <1>1, <1>6, <2>1, <2>2, KeptAdds
  <2> QED
    BY <2>3 DEF r
<1> HIDE DEF E
<1>9. op'.todo \notin Holding /\ op'.todo \notin Written
  BY StoreLists
<1>10. OutBlocks(img', op') = {}
  BY <1>9 DEF OutBlocks
<1>11. op.todo \in Threadless <=> op'.todo \in Threadless
  BY StoreLists
<1>12. Overflows(img', IF op'.todo \in Threadless THEN op'.rec.id ELSE 0)
  BY <1>11 DEF Store, Stocking, Overflows
<1> QED
  BY <1>6, <1>8, <1>9, <1>10, <1>12 DEF Stocking

\* The removal of a file or folder, which frees its blocks.
LEMMA RemoveStore ==
    ASSUME Typed, Ids, Store, Remove, ~img.torn
    PROVE  Stocking(img', op', alc')
<1> DEFINE H == Held(img, op.old)
<1>1. /\ op \in Ops /\ op.todo \in {D4, O13} /\ op'.todo = Rest(op.todo)
      /\ alc' = alc \ H
      /\ img'.cat = [img.cat EXCEPT ![op.old] = NoRec]
      /\ img'.thr = [img.thr EXCEPT ![op.rec.id] = NoKey]
      /\ img'.ovf = [img.ovf EXCEPT ![op.rec.id] = {}]
      /\ img'.blk = img.blk /\ img'.fork = img.fork
      /\ Typed'
  BY RemoveEffect DEF Held
<1>2. img \in Images /\ img' \in Images
  BY <1>1 DEF Typed
<1>3. op'.todo \in {D3, O12}
  BY <1>1, Course
<1>4. op.todo \in Finding
  BY <1>1, IdLists
<1>5. op.old \in Named(img.cat) /\ img.cat[op.old] = op.rec /\ IdsMatch(img)
  BY <1>4 DEF Ids
<1>6. /\ op.todo \notin Holding /\ op.todo \notin Unloaded /\ op.todo \notin Threadless
      /\ op'.todo \notin Holding /\ op'.todo \notin Threadless /\ op'.todo \notin Written
  BY <1>1, <1>3, StoreLists
<1>7. Kept(img) /\ alc = InUse(img) /\ Overflows(img, 0)
  BY <1>6 DEF Store, Stocking, OutBlocks
<1>8. op.rec.id \in Dirs
  BY <1>2, <1>5, HeldInside, IdsAreDirs
<1>9. /\ \A x \in Dirs \ {op.rec.id} : img'.ovf[x] = img.ovf[x] /\ img'.thr[x] = img.thr[x]
      /\ img'.ovf[op.rec.id] = {}
  BY <1>1, <1>2, <1>8 DEF Images
<1>10. Kept(img') /\ InUse(img') \cap H = {} /\ InUse(img) = InUse(img') \cup H
  <2>1. Drops(img, img', op.old)
    BY <1>1, <1>5, <1>9 DEF Drops
  <2> QED
    BY <1>2, <1>5, <1>7, <2>1, KeptDrops
<1>11. alc' = InUse(img')
  BY <1>1, <1>7, <1>10
<1>12. Overflows(img', 0)
  BY <1>7, <1>9 DEF Overflows
<1>13. OutBlocks(img', op') = {}
  BY <1>6 DEF OutBlocks
<1> QED
  BY <1>6, <1>10, <1>11, <1>12, <1>13 DEF Stocking

\* The record that Rename and SetFinderInfo take out keeps its blocks.
LEMMA UnlinkStore ==
    ASSUME Typed, Ids, Store, Unlink, ~img.torn
    PROVE  Stocking(img', op', alc')
<1> DEFINE H == Held(img, op.old)
           E == Extents_(img, op.old)
<1>1. /\ op \in Ops /\ op.todo \in {M7, R5, F4} /\ op'.todo = Rest(op.todo)
      /\ op'.rec = op.rec /\ alc' = alc
      /\ img'.cat = [img.cat EXCEPT ![op.old] = NoRec]
      /\ img'.thr = IF op.todo = F4 THEN img.thr
                    ELSE [img.thr EXCEPT ![op.rec.id] = NoKey]
      /\ img'.ovf = img.ovf /\ img'.blk = img.blk /\ img'.fork = img.fork
      /\ Typed'
  BY UnlinkEffect
<1>2. img \in Images /\ img' \in Images
  BY <1>1 DEF Typed
<1>3. IF op.todo = F4 THEN op'.todo = F3 ELSE op'.todo \in {M6, R4}
  BY <1>1, Course
<1>4. op.todo \in Finding
  BY <1>1, IdLists
<1>5. op.old \in Named(img.cat) /\ img.cat[op.old] = op.rec /\ IdsMatch(img)
  BY <1>4 DEF Ids
<1>6. /\ op.todo \notin Holding /\ op.todo \notin Unloaded /\ op.todo \notin Threadless
      /\ op'.todo \in Holding /\ op'.todo \notin Written /\ op'.todo # C7
      /\ op'.todo \in Threadless <=> op.todo # F4
  BY <1>1, <1>3, StoreLists
<1>7. Kept(img) /\ alc = InUse(img) /\ Overflows(img, 0)
  BY <1>6 DEF Store, Stocking, OutBlocks
<1>8. op.rec.id \in Dirs
  BY <1>2, <1>5, HeldInside, IdsAreDirs
<1>9. \A x \in Dirs \ {img.cat[op.old].id} : img'.ovf[x] = img.ovf[x]
  BY <1>1
<1>10. /\ Kept(img') /\ InUse(img) = InUse(img') \cup H
       /\ \A k \in Named(img'.cat) : Held(img', k) \cap H = {}
  <2>1. Drops(img, img', op.old)
    BY <1>1, <1>9 DEF Drops
  <2> QED
    BY <1>2, <1>5, <1>7, <2>1, KeptDrops
<1>11. OutExtents(img', op') = E /\ OutBlocks(img', op') = H
  BY <1>1, <1>5, <1>6 DEF OutExtents, OutBlocks, RecExtents, Extents_, Held
<1>12. Good(img', op'.rec, E)
  <2>1. Good(img, op.rec, E)
    BY <1>5, <1>7 DEF Kept
  <2> QED
    BY <1>1, <2>1 DEF Good
<1>13. \A x \in Dirs \ {op.rec.id} : img'.thr[x] = img.thr[x]
  BY <1>1, <1>2 DEF Images
<1>14. Overflows(img', IF op'.todo \in Threadless THEN op'.rec.id ELSE 0)
  <2>1. CASE op.todo = F4
    BY <1>1, <1>6, <1>7, <2>1 DEF Overflows
  <2>2. CASE op.todo # F4
    <3>1. \A x \in Dirs : x # 0
      BY VolumeAssumption DEF Dirs, UserIds, FirstUser, Root, RootParent
    <3> QED
      BY <1>1, <1>6, <1>7, <1>13, <2>2, <3>1 DEF Overflows
  <2> QED
    BY <2>1, <2>2
<1> HIDE DEF E, H
<1> QED
  BY <1>1, <1>6, <1>7, <1>10, <1>11, <1>12, <1>14 DEF Stocking

\* Insertions, with or without growth of the tree.
LEMMA InsertStore ==
    ASSUME Typed, Ids, Tree, Store, Insert \/ InsertGrows, ~img.torn
    PROVE  Stocking(img', op', alc')
<1>1. /\ op \in Ops /\ op.todo \in {C7, C6, M6, R4, F3, C5, M5, R3}
      /\ op'.todo = Rest(op.todo) /\ op'.rec = op.rec
      /\ img'.cat = IF Now(op.todo) = "record"
                    THEN [img.cat EXCEPT ![op.key] = op.rec] ELSE img.cat
      /\ img'.thr = IF Now(op.todo) = "thread"
                    THEN [img.thr EXCEPT ![op.rec.id] = op.key] ELSE img.thr
      /\ img'.ovf = IF Now(op.todo) = "overflow"
                    THEN [img.ovf EXCEPT ![op.rec.id] = op.spill] ELSE img.ovf
      /\ img'.blk = img.blk
      /\ Typed'
  BY InsertEffect
<1>2. PICK new \in SUBSET Free(alc) : img'.fork = img.fork \cup new /\ alc' = alc \cup new
  BY InsertEffect
<1>3. CASE op.todo = C7
  <2>1. /\ img'.cat = img.cat /\ img'.thr = img.thr /\ op'.todo = C6
        /\ img'.ovf = [img.ovf EXCEPT ![op.rec.id] = op.spill]
    BY <1>1, <1>3, Course
  <2> QED
    BY <1>1, <1>2, <1>3, <2>1, SpillStore
<1>4. CASE op.todo \in {C6, M6, R4, F3}
  <2>1. /\ img'.cat = [img.cat EXCEPT ![op.key] = op.rec]
        /\ img'.thr = img.thr /\ img'.ovf = img.ovf
        /\ IF op.todo = F3 THEN op'.todo = S2 ELSE op'.todo \in {C5, M5, R3}
    BY <1>1, <1>4, Course
  <2> QED
    BY <1>1, <1>2, <1>4, <2>1, PutStore
<1>5. CASE op.todo \in {C5, M5, R3}
  <2>1. /\ img'.cat = img.cat /\ op'.todo \in {C4, M4, S2} /\ img'.ovf = img.ovf
        /\ img'.thr = [img.thr EXCEPT ![op.rec.id] = op.key]
    BY <1>1, <1>5, Course
  <2>2. /\ op.todo \notin Unloaded /\ op.todo \notin Holding /\ op.todo \in Threadless
        /\ op'.todo \notin Holding /\ op'.todo \notin Written /\ op'.todo \notin Threadless
    BY <1>5, <2>1, StoreLists
  <2>3. new \cap alc = {}
    BY DEF Free
  <2>4. Overflows(img', 0)
    <3>1. Overflows(img, op.rec.id)
      BY <2>2 DEF Store, Stocking
    <3>2. \A x \in Dirs : img'.thr[x] = IF x = op.rec.id THEN op.key ELSE img.thr[x]
      BY <2>1 DEF Typed, Images
    <3>3. op.key # NoKey
      BY <1>1, NoKeyOutside DEF Ops
    <3> QED
      BY <2>1, <3>1, <3>2, <3>3 DEF Overflows
  <2> QED
    BY <1>1, <1>2, <2>1, <2>2, <2>3, <2>4, QuietStore
<1> QED
  BY <1>1, <1>3, <1>4, <1>5

\* Every step keeps blocks and contents.
LEMMA NextStore ==
    Typed /\ Ids /\ Tree /\ Threads /\ Store /\ [Next]_vars => Store'
<1> SUFFICES ASSUME Typed, Ids, Tree, Threads, Store, [Next]_vars
             PROVE  Store'
  OBVIOUS
<1>1. CASE Idle /\ Call
  BY <1>1, CallStore
<1>2. CASE Rebegin
  <2>1. op.todo = O9 /\ op'.todo = C8 /\ alc' = img.bitmap /\ img' = img /\ disk' = disk
    BY <1>2, RebeginEffect
  <2>2. ~img.torn => Stocked(img)
    BY <2>1, IdleStore
  <2>3. ~img.torn => Stocking(img, op', alc')
    BY <2>1, <2>2, Stocks
  <2> QED
    BY <2>1, <2>3 DEF Store
<1>3. CASE Alloc
  <2>1. disk' = disk /\ img'.torn = img.torn
    BY <1>3, AllocEffect
  <2> QED
    BY <1>3, <2>1, AllocStore DEF Store
<1>4. CASE AllocNoSpace
  <2>1. /\ op.todo = C8 /\ op' = NoOp /\ disk' = disk /\ img'.torn = img.torn
        /\ img'.cat = img.cat /\ img'.thr = img.thr /\ img'.ovf = img.ovf
        /\ img'.fork = img.fork /\ img'.bitmap = img.bitmap
        /\ img'.free = img.free /\ img'.blk = img.blk
        /\ img \in Images /\ img' \in Images
    BY <1>4, AllocNoSpaceEffect DEF Typed
  <2>2. op'.todo \in Unloaded
    BY <2>1, StoreLists DEF NoOp
  <2>3. ASSUME ~img.torn
        PROVE  Stocking(img', op', alc')
    <3>1. Stocked(img)
      BY <2>1, <2>3, IdleStore
    <3>2. Stocked(img')
      BY <2>1, <3>1, SameStock
    <3> QED
      BY <2>2, <3>2, Stocks
  <2> QED
    BY <2>1, <2>3 DEF Store
<1>5. CASE Insert \/ InsertGrows
  <2>1. disk' = disk /\ img'.torn = img.torn
    BY <1>5, InsertEffect
  <2> QED
    BY <1>5, <2>1, InsertStore DEF Store
<1>6. CASE InsertNoSpace \/ ValenceFails
  BY <1>6, FailEffect DEF Store
<1>7. CASE Count
  <2>1. /\ op.todo = C4 /\ op'.todo = C3 /\ disk' = disk /\ img'.torn = img.torn
        /\ img'.cat = img.cat /\ img'.thr = img.thr /\ img'.ovf = img.ovf
        /\ img'.fork = img.fork /\ img'.blk = img.blk /\ alc' = alc /\ Typed'
    BY <1>7, CountEffect
  <2>2. img'.fork = img.fork \cup {} /\ alc' = alc \cup {} /\ {} \cap alc = {}
    BY <2>1
  <2>3. /\ op.todo \notin Unloaded /\ op.todo \notin Holding /\ op.todo \notin Threadless
        /\ op'.todo \notin Holding /\ op'.todo \notin Written /\ op'.todo \notin Threadless
    BY <2>1, StoreLists
  <2>4. ~img.torn => Overflows(img', 0)
    BY <2>1, <2>3 DEF Store, Stocking, Overflows
  <2>5. ~img.torn => Stocking(img', op', alc')
    BY <2>1, <2>2, <2>3, <2>4, QuietStore
  <2> QED
    BY <2>1, <2>5 DEF Store
<1>8. CASE Valence
  <2>1. /\ op.todo \in {C3, D3, O12, M4} /\ op'.todo = Rest(op.todo) /\ disk' = disk
        /\ \A k \in Keys :
              /\ img'.cat[k].kind = img.cat[k].kind
              /\ img'.cat[k].id = img.cat[k].id
              /\ img'.cat[k].ext = img.cat[k].ext
              /\ img'.cat[k].size = img.cat[k].size
              /\ img'.cat[k].holds = img.cat[k].holds
        /\ img'.thr = img.thr /\ img'.ovf = img.ovf /\ img'.torn = img.torn
        /\ img'.fork = img.fork /\ img'.blk = img.blk /\ alc' = alc /\ Typed'
    BY <1>8, ValenceEffect
  <2>2. img'.fork = img.fork \cup {} /\ alc' = alc \cup {} /\ {} \cap alc = {}
    BY <2>1
  <2>3. op'.todo \in {S2, O11, C3}
    BY <2>1, Course
  <2>4. /\ op.todo \notin Unloaded /\ op.todo \notin Holding /\ op.todo \notin Threadless
        /\ op'.todo \notin Holding /\ op'.todo \notin Written /\ op'.todo \notin Threadless
    BY <2>1, <2>3, StoreLists
  <2>5. ~img.torn => Overflows(img', 0)
    BY <2>1, <2>4 DEF Store, Stocking, Overflows
  <2>6. ~img.torn => Stocking(img', op', alc')
    BY <2>1, <2>2, <2>4, <2>5, QuietStore
  <2> QED
    BY <2>1, <2>6 DEF Store
<1>9. CASE Remove
  <2>1. disk' = disk /\ img'.torn = img.torn
    BY <1>9, RemoveEffect
  <2> QED
    BY <1>9, <2>1, RemoveStore DEF Store
<1>10. CASE Unlink
  <2>1. disk' = disk /\ img'.torn = img.torn
    BY <1>10, UnlinkEffect
  <2> QED
    BY <1>10, <2>1, UnlinkStore DEF Store
<1>11. CASE commit
  <2>1. /\ op.todo \in {S2, O11} /\ op'.todo = Rest(op.todo)
        /\ img'.cat = img.cat /\ img'.thr = img.thr /\ img'.ovf = img.ovf
        /\ img'.fork = img.fork /\ img'.blk = img.blk /\ img'.torn = img.torn
        /\ img'.bitmap = alc /\ img'.free = freeCount(alc)
        /\ disk' = disk /\ img \in Images /\ img' \in Images
    BY <1>11, commitEffect DEF Typed
  <2>2. op'.todo \in {S1, O10}
    BY <2>1, Course
  <2>3. /\ op.todo \notin Unloaded /\ op.todo \notin Holding /\ op.todo \notin Threadless
        /\ op'.todo \in Unloaded
    BY <2>1, <2>2, StoreLists
  <2>4. ASSUME ~img.torn
        PROVE  Stocked(img')
    <3>1. Kept(img) /\ alc = InUse(img) /\ Overflows(img, 0)
      BY <2>3, <2>4 DEF Store, Stocking, OutBlocks
    <3>2. Undisturbed(img, img', {})
      BY <2>1 DEF Undisturbed
    <3>3. Kept(img') /\ InUse(img') = InUse(img) \cup {}
      BY <2>1, <3>1, <3>2, KeptStays
    <3> QED
      BY <2>1, <3>1, <3>3 DEF Stocked, Overflows
  <2>5. ~img.torn => Stocking(img', op', alc')
    BY <2>3, <2>4, Stocks
  <2> QED
    BY <2>1, <2>5 DEF Store
<1>12. CASE Sync
  <2>1. disk' = img /\ img' = img
    BY <1>12, SyncEffect
  <2>2. op.todo \in {<<>>, S1, O10} /\ op'.todo \in {<<>>, O9}
    BY <1>12, SyncEffect DEF Idle, NoOp
  <2>3. ~img.torn => Stocked(img)
    BY <2>2, IdleStore
  <2>4. op'.todo \in Unloaded
    BY <2>2, StoreLists
  <2>5. ~img.torn => Stocking(img, op', alc')
    BY <2>3, <2>4, Stocks
  <2> QED
    BY <2>1, <2>3, <2>5 DEF Store
<1>13. CASE SyncFails
  <2>1. op.todo \in {S1, O10} /\ op' = NoOp /\ img' = img /\ disk' = disk
    BY <1>13, SyncFailsEffect
  <2>2. op'.todo \in Unloaded
    BY <2>1, StoreLists DEF NoOp
  <2>3. ~img.torn => Stocked(img)
    BY <2>1, IdleStore
  <2>4. ~img.torn => Stocking(img, op', alc')
    BY <2>2, <2>3, Stocks
  <2> QED
    BY <2>1, <2>4 DEF Store
<1>14. CASE Restart
  <2>1. op' = NoOp /\ img' = disk /\ disk' = disk
    BY <1>14, RestartEffect
  <2>2. op'.todo \in Unloaded
    BY <2>1, StoreLists DEF NoOp
  <2>3. ~disk.torn => Stocking(disk, op', alc')
    BY <2>2, Stocks DEF Store
  <2> QED
    BY <2>1, <2>3 DEF Store
<1>15. CASE UNCHANGED vars
  BY <1>15 DEF vars, Store
<1> QED
  BY <1>1, <1>2, <1>3, <1>4, <1>5, <1>6, <1>7, <1>8, <1>9, <1>10, <1>11,
     <1>12, <1>13, <1>14, <1>15 DEF Next, Step

\* A fresh volume: the reserved blocks are in use.
LEMMA InitStore == Init => Store
<1> SUFFICES ASSUME Init
             PROVE  Store
  OBVIOUS
<1> DEFINE n == CHOOSE m \in Names : TRUE
           r == <<RootParent, n>>
<1>1. n \in Names
  BY VolumeAssumption
<1> HIDE DEF n
<1>2. img = MkfsImage(n) /\ disk = img /\ op = NoOp
  BY DEF Init, n
<1>3. \A k \in Keys : img.cat[k] = IF k = r THEN FolderRec(Root) ELSE NoRec
  BY <1>1, <1>2, FreshTyped
<1>4. /\ \A d \in Dirs : img.ovf[d] = {}
      /\ img.fork = Reserved /\ img.bitmap = Reserved /\ img.free = freeCount(Reserved)
  BY <1>2 DEF MkfsImage
<1>5. r \in Keys
  BY <1>1 DEF Keys, Dirs
<1>6. NoRec.kind = "none" /\ Root \in Dirs
  BY DEF NoRec, Dirs
<1> HIDE DEF r
<1> DEFINE q == img.cat[r]
<1>7. q.id = Root /\ q.kind = "folder" /\ q.ext = {} /\ q.size = 0
  BY <1>3, <1>5 DEF FolderRec
<1>8. Named(img.cat) = {r}
  BY <1>3, <1>5, <1>6, <1>7 DEF Named
<1>9. AllBlocks(RecExtents(img, q)) = {} /\ Good(img, q, RecExtents(img, q))
  BY <1>4, <1>6, <1>7, Empty
<1>10. Extents_(img, r) = RecExtents(img, q)
  BY DEF Extents_, RecExtents
<1> HIDE DEF q
<1>11. Held(img, r) = {} /\ Good(img, img.cat[r], Extents_(img, r))
  BY <1>9, <1>10 DEF Held, q
<1>12. Kept(img)
  BY <1>8, <1>11 DEF Kept
<1>13. InUse(img) = Reserved
  BY <1>4, <1>8, <1>11 DEF InUse
<1>14. Stocked(img)
  BY <1>4, <1>12, <1>13 DEF Stocked, Overflows
<1>15. op.todo \in Unloaded
  BY <1>2, StoreLists DEF NoOp
<1>16. Stocking(img, op, alc)
  BY <1>14, <1>15, Stocks
<1> QED
  BY <1>2, <1>14, <1>16 DEF Store

\* At every step each file's blocks hold what was written to it, and the
\* bitmap in memory has the bits of the blocks in use and of those the
\* operation has allocated.
THEOREM AlwaysStore == Spec => []Store
BY InitTyped, NextTyped, InitIds, NextIds, InitTree, NextTree,
   InitThreads, NextThreads, InitStore, NextStore, PTL DEF Spec

\* Whenever someone can look at an image it is up to date.
LEMMA VisibleStore ==
    ASSUME Store, Idle \/ disk = img, ~img.torn
    PROVE  Stocked(img)
<1>1. CASE Idle
  BY <1>1, IdleStore DEF Idle, NoOp
<1>2. CASE disk = img
  BY <1>2 DEF Store
<1> QED
  BY <1>1, <1>2

\* No block belongs to two forks, the bitmap and freeBlocks are exact and no
\* overflow record outlives its file, for every volume, file size and number
\* of inline extents, through growth of the trees, failures and restarts.
THEOREM BlocksAlwaysAgree == Spec => []BlocksAgree
<1>1. Store => BlocksAgree
  <2> SUFFICES ASSUME Store, Idle \/ disk = img, ~img.torn
               PROVE  BlocksMatch(img)
    BY DEF BlocksAgree, Visible
  <2>1. Stocked(img)
    BY VisibleStore
  <2>2. ASSUME NEW k \in Named(img.cat)
        PROVE  /\ Held(img, k) \cap img.fork = {}
               /\ Cardinality(Held(img, k)) = img.cat[k].size
               /\ \A l \in Named(img.cat) \ {k} : Held(img, k) \cap Held(img, l) = {}
    BY <2>1 DEF Stocked, Kept, Good, Held
  <2>3. \A x \in Dirs : x # 0
    BY VolumeAssumption DEF Dirs, UserIds, FirstUser, Root, RootParent
  <2> QED
    BY <2>1, <2>2, <2>3 DEF BlocksMatch, Stocked, InUse, Overflows
<1> QED
  BY <1>1, AlwaysStore, PTL

\* Reading a file gives what was last written to it, however fragmented its
\* fork is.
THEOREM AlwaysRoundTrips == Spec => []RoundTrips
<1>1. Store => RoundTrips
  <2> SUFFICES ASSUME Store, Idle \/ disk = img, ~img.torn
               PROVE  ContentsMatch(img)
    BY DEF RoundTrips, Visible
  <2>1. Stocked(img)
    BY VisibleStore
  <2>2. ASSUME NEW k \in Named(img.cat), img.cat[k].kind = "file"
        PROVE  readAll(img, k) = img.cat[k].holds
    <3>1. Fetched(img.blk, Extents_(img, k), img.cat[k].size) = img.cat[k].holds
      BY <2>1, <2>2 DEF Stocked, Kept, Good
    <3>2. readAll(img, k) = Fetched(img.blk, Extents_(img, k), img.cat[k].size)
      BY DEF readAll, Fetched
    <3> QED
      BY <3>1, <3>2
  <2> QED
    BY <2>2 DEF ContentsMatch
<1> QED
  BY <1>1, AlwaysStore, PTL

-----------------------------------------------------------------------------
(* Counts. *)

Of(cat, kind) == {k \in Named(cat) : cat[k].kind = kind}

Subfolders(cat, d) == {k \in Children(cat, d) : cat[k].kind = "folder"}

\* Lists with a record that is not counted yet, and with a counted one that
\* is not in the catalog.
Uncounted   == {C5, C4}
Overcounted == {M6, R4, F3}

\* Lists with an entry that its folder has lost and still counts, and with one
\* that its folder has and does not count.
Leaving  == {D3, O12, M6, M5, M4, R4, F3}
Entering == {C5, C4, C3, M5, M4}

\* Lists of an operation that leaves its entry in its folder.
InPlace == {R5, R4, F4, F3}

One(b) == IF b THEN 1 ELSE 0

\* What the valence of folder d is ahead of its children, and its folder count
\* of the folders among them.
Lag(o, d) == One(o.todo \in Leaving /\ d = o.old[1])
                - One(o.todo \in Entering /\ d = o.key[1])
SubLag(o, d) == IF o.rec.kind = "folder" THEN Lag(o, d) ELSE 0

\* What the header's counter of a kind is ahead of the records.
Ahead(o, kind) ==
    IF o.rec.kind = kind
    THEN One(o.todo \in Overcounted) - One(o.todo \in Uncounted) ELSE 0

CountsRight(cat, o, r) ==
    /\ r.val = Cardinality(Children(cat, r.id)) + Lag(o, r.id)
    /\ r.sub = Cardinality(Subfolders(cat, r.id)) + SubLag(o, r.id)

\* The counts in the middle of operation o.
Counting(i, o) ==
    /\ i.files = Cardinality(Of(i.cat, "file")) + Ahead(o, "file")
    /\ i.folders + 1 = Cardinality(Of(i.cat, "folder")) + Ahead(o, "folder")
    /\ \A k \in Of(i.cat, "folder") : CountsRight(i.cat, o, i.cat[k])
    /\ o.todo \in Holding /\ o.rec.kind = "folder" => CountsRight(i.cat, o, o.rec)

Counts ==
    /\ ~disk.torn => Counting(disk, NoOp)
    /\ op.todo \in InPlace => op.key[1] = op.old[1]
    /\ ~img.torn => Counting(img, op)

Settled == {<<>>, S1, S2, D4, O13, O11, O10, O9, C8, C7, C6, M7, R5, R3, F4}

\* Where each list stands in these tables.
LEMMA CountLists ==
    /\ \A x \in Settled :
          x \notin Leaving /\ x \notin Entering /\ x \notin Overcounted /\ x \notin Uncounted
    /\ \A x \in {D3, O12} :
          x \in Leaving /\ x \notin Entering /\ x \notin Overcounted /\ x \notin Uncounted
    /\ \A x \in {M6, R4, F3} :
          x \in Leaving /\ x \notin Entering /\ x \in Overcounted /\ x \notin Uncounted
    /\ \A x \in {C5, C4} :
          x \notin Leaving /\ x \in Entering /\ x \notin Overcounted /\ x \in Uncounted
    /\ C3 \notin Leaving /\ C3 \in Entering /\ C3 \notin Overcounted /\ C3 \notin Uncounted
    /\ \A x \in {M5, M4} :
          x \in Leaving /\ x \in Entering /\ x \notin Overcounted /\ x \notin Uncounted
<1>1. Leaving \cup Entering \cup Overcounted \cup Uncounted \subseteq Todos
  BY DEF Todos, Deleting, Deleted, Clearing, Cleared, Between, Making, Inserting, Made,
     Unlinking, Relinking, Moved, Syncing, Leaving, Entering, Overcounted, Uncounted
<1>2. <<>> \notin Todos
  BY NothingPromised
<1>3. \A x \in Settled \ {<<>>} :
          x \notin Leaving /\ x \notin Entering /\ x \notin Overcounted /\ x \notin Uncounted
  BY Course, Distinct DEF Settled, Leaving, Entering, Overcounted, Uncounted
<1>4. \A x \in {D3, O12, M6, R4, F3} : x \notin Entering /\ x \notin Uncounted
  BY Course, Distinct DEF Entering, Uncounted
<1>5. \A x \in {C5, C4, C3} : x \notin Leaving /\ x \notin Overcounted
  BY Course, Distinct DEF Leaving, Overcounted
<1>6. \A x \in {D3, O12, M5, M4} : x \notin Overcounted /\ x \notin Uncounted
  BY Course, Distinct DEF Overcounted, Uncounted
<1>7. C3 \notin Uncounted
  BY Course DEF Uncounted
<1> QED
  BY <1>1, <1>2, <1>3, <1>4, <1>5, <1>6, <1>7
     DEF Leaving, Entering, Overcounted, Uncounted

\* The differences, list by list.
LEMMA Lags ==
    ASSUME NEW o, NEW d
    PROVE  /\ o.todo \in Settled => Lag(o, d) = 0
           /\ o.todo \in {D3, O12, M6, R4, F3} => Lag(o, d) = One(d = o.old[1])
           /\ o.todo \in {C5, C4, C3} => Lag(o, d) = 0 - One(d = o.key[1])
           /\ o.todo \in {M5, M4} =>
                 Lag(o, d) = One(d = o.old[1]) - One(d = o.key[1])
           /\ o.todo \in Settled \cup {D3, O12, C3, M5, M4} => \A kind : Ahead(o, kind) = 0
           /\ o.todo \in {M6, R4, F3} => \A kind : Ahead(o, kind) = One(o.rec.kind = kind)
           /\ o.todo \in {C5, C4} => \A kind : Ahead(o, kind) = 0 - One(o.rec.kind = kind)
<1>1. o.todo \in Settled => Lag(o, d) = 0
  BY CountLists DEF Lag, One
<1>2. o.todo \in {D3, O12, M6, R4, F3} => Lag(o, d) = One(d = o.old[1])
  BY CountLists DEF Lag, One
<1>3. o.todo \in {C5, C4, C3} => Lag(o, d) = 0 - One(d = o.key[1])
  BY CountLists DEF Lag, One
<1>4. o.todo \in {M5, M4} => Lag(o, d) = One(d = o.old[1]) - One(d = o.key[1])
  BY CountLists DEF Lag, One
<1>5. o.todo \in Settled \cup {D3, O12, C3, M5, M4} => \A kind : Ahead(o, kind) = 0
  BY CountLists DEF Ahead, One
<1>6. o.todo \in {M6, R4, F3} => \A kind : Ahead(o, kind) = One(o.rec.kind = kind)
  BY CountLists DEF Ahead, One
<1>7. o.todo \in {C5, C4} => \A kind : Ahead(o, kind) = 0 - One(o.rec.kind = kind)
  BY CountLists DEF Ahead, One
<1> QED
  BY <1>1, <1>2, <1>3, <1>4, <1>5, <1>6, <1>7

\* There are no more records than ids.
LEMMA NamedFinite ==
    ASSUME NEW i \in Images, IdsMatch(i)
    PROVE  IsFiniteSet(Named(i.cat))
<1> DEFINE f == [k \in Named(i.cat) |-> i.cat[k].id]
<1>1. f \in [Named(i.cat) -> Dirs]
  BY HeldInside, IdsAreDirs
<1>2. IsInjective(f)
  BY DEF IsInjective, IdsMatch
<1>3. f \in Injection(Named(i.cat), Dirs)
  BY <1>1, <1>2 DEF Injection
<1>4. IsFiniteSet(UserIds)
  BY VolumeAssumption, FS_Interval DEF UserIds, FirstUser
<1>5. IsFiniteSet({RootParent, Root})
  <2>1. IsFiniteSet({RootParent} \cup {Root})
    BY FS_Singleton, FS_AddElement
  <2>2. {RootParent, Root} = {RootParent} \cup {Root}
    OBVIOUS
  <2> QED
    BY <2>1, <2>2
<1>6. IsFiniteSet(Dirs)
  BY <1>4, <1>5, FS_Union DEF Dirs
<1> QED
  BY <1>3, <1>6, FS_Injection

\* The sizes of finite sets with a member more or less.
LEMMA Sizes ==
    ASSUME NEW S, IsFiniteSet(S), NEW x
    PROVE  /\ Cardinality(S) \in Nat
           /\ x \notin S => Cardinality(S \cup {x}) = Cardinality(S) + 1
           /\ x \in S => Cardinality(S \ {x}) = Cardinality(S) - 1
BY FS_CardinalityType, FS_AddElement, FS_RemoveElement

LEMMA SetsFinite ==
    ASSUME NEW cat, IsFiniteSet(Named(cat)), NEW z
    PROVE  /\ IsFiniteSet(Of(cat, z)) /\ Cardinality(Of(cat, z)) \in Nat
           /\ IsFiniteSet(Children(cat, z)) /\ Cardinality(Children(cat, z)) \in Nat
           /\ IsFiniteSet(Subfolders(cat, z)) /\ Cardinality(Subfolders(cat, z)) \in Nat
<1>1. /\ Of(cat, z) \in SUBSET Named(cat)
      /\ Children(cat, z) \in SUBSET Named(cat)
      /\ Subfolders(cat, z) \in SUBSET Named(cat)
  BY DEF Of, Children, Subfolders
<1>2. IsFiniteSet(Of(cat, z)) /\ IsFiniteSet(Children(cat, z)) /\ IsFiniteSet(Subfolders(cat, z))
  BY <1>1, FS_Subset
<1> QED
  BY <1>2, FS_CardinalityType

\* What a catalog has more when it has one record more, and less when it has one
\* less.
Gained(cat, new, key, r) ==
    /\ \A z : z # "none" => Cardinality(Of(new, z)) = Cardinality(Of(cat, z)) + One(r.kind = z)
    /\ \A d : /\ Cardinality(Children(new, d))
                    = Cardinality(Children(cat, d)) + One(d = key[1])
              /\ Cardinality(Subfolders(new, d))
                    = Cardinality(Subfolders(cat, d))
                         + IF r.kind = "folder" THEN One(d = key[1]) ELSE 0
    /\ \A k \in Named(cat) : new[k] = cat[k]
    /\ new[key] = r
    /\ Named(new) = Named(cat) \cup {key}

Lost(cat, new, old, r) ==
    /\ \A z : z # "none" => Cardinality(Of(new, z)) = Cardinality(Of(cat, z)) - One(r.kind = z)
    /\ \A d : /\ Cardinality(Children(new, d))
                    = Cardinality(Children(cat, d)) - One(d = old[1])
              /\ Cardinality(Subfolders(new, d))
                    = Cardinality(Subfolders(cat, d))
                         - IF r.kind = "folder" THEN One(d = old[1]) ELSE 0
    /\ \A k \in Named(new) : new[k] = cat[k]
    /\ Named(new) = Named(cat) \ {old}

LEMMA More ==
    ASSUME NEW cat \in [Keys -> Recs], IsFiniteSet(Named(cat)), NEW key \in Keys,
           key \notin Named(cat), NEW r \in Recs, r.kind # "none",
           NEW new, new = [cat EXCEPT ![key] = r]
    PROVE  Gained(cat, new, key, r)
<1>1. \A k \in Keys : new[k] = IF k = key THEN r ELSE cat[k]
  OBVIOUS
<1>2. Named(new) = Named(cat) \cup {key}
  BY <1>1 DEF Named
<1>3. \A k \in Named(cat) : new[k] = cat[k] /\ k # key
  BY <1>1 DEF Named
<1>4. new[key] = r
  BY <1>1
<1>5. ASSUME NEW z, z # "none"
      PROVE  Cardinality(Of(new, z)) = Cardinality(Of(cat, z)) + One(r.kind = z)
  <2>1. key \notin Of(cat, z)
    BY DEF Of
  <2>2. CASE r.kind = z
    <3>1. Of(new, z) = Of(cat, z) \cup {key}
      BY <1>2, <1>3, <1>4, <2>2 DEF Of
    <3> QED
      BY <2>1, <2>2, <3>1, SetsFinite, Sizes DEF One
  <2>3. CASE r.kind # z
    <3>1. Of(new, z) = Of(cat, z)
      BY <1>2, <1>3, <1>4, <2>3 DEF Of
    <3> QED
      BY <2>3, <3>1, SetsFinite DEF One
  <2> QED
    BY <2>2, <2>3
<1>6. ASSUME NEW d
      PROVE  Cardinality(Children(new, d)) = Cardinality(Children(cat, d)) + One(d = key[1])
  <2>1. key \notin Children(cat, d)
    BY DEF Children
  <2>2. CASE d = key[1]
    <3>1. Children(new, d) = Children(cat, d) \cup {key}
      BY <1>2, <2>2 DEF Children
    <3> QED
      BY <2>1, <2>2, <3>1, SetsFinite, Sizes DEF One
  <2>3. CASE d # key[1]
    <3>1. Children(new, d) = Children(cat, d)
      BY <1>2, <2>3 DEF Children
    <3> QED
      BY <2>3, <3>1, SetsFinite DEF One
  <2> QED
    BY <2>2, <2>3
<1>7. ASSUME NEW d
      PROVE  Cardinality(Subfolders(new, d))
                = Cardinality(Subfolders(cat, d))
                     + IF r.kind = "folder" THEN One(d = key[1]) ELSE 0
  <2>1. key \notin Subfolders(cat, d)
    BY DEF Subfolders, Children
  <2>2. CASE d = key[1] /\ r.kind = "folder"
    <3>1. Subfolders(new, d) = Subfolders(cat, d) \cup {key}
      BY <1>2, <1>3, <1>4, <2>2 DEF Subfolders, Children
    <3> QED
      BY <2>1, <2>2, <3>1, SetsFinite, Sizes DEF One
  <2>3. CASE ~(d = key[1] /\ r.kind = "folder")
    <3>1. Subfolders(new, d) = Subfolders(cat, d)
      BY <1>2, <1>3, <1>4, <2>3 DEF Subfolders, Children
    <3> QED
      BY <2>3, <3>1, SetsFinite DEF One
  <2> QED
    BY <2>2, <2>3
<1> QED
  BY <1>2, <1>3, <1>4, <1>5, <1>6, <1>7 DEF Gained

\* A record less.
LEMMA Fewer ==
    ASSUME NEW cat \in [Keys -> Recs], IsFiniteSet(Named(cat)), NEW old \in Named(cat),
           NEW new, new = [cat EXCEPT ![old] = NoRec]
    PROVE  Lost(cat, new, old, cat[old])
<1>1. \A k \in Keys : new[k] = IF k = old THEN NoRec ELSE cat[k]
  OBVIOUS
<1>2. Named(new) = Named(cat) \ {old}
  BY <1>1 DEF Named, NoRec
<1>3. \A k \in Named(new) : new[k] = cat[k]
  BY <1>1, <1>2 DEF Named
<1>4. ASSUME NEW z, z # "none"
      PROVE  Cardinality(Of(new, z)) = Cardinality(Of(cat, z)) - One(cat[old].kind = z)
  <2>1. Of(new, z) = Of(cat, z) \ {old}
    BY <1>2, <1>3 DEF Of
  <2>2. CASE cat[old].kind = z
    <3>1. old \in Of(cat, z)
      BY <2>2 DEF Of
    <3> QED
      BY <2>1, <2>2, <3>1, SetsFinite, Sizes DEF One
  <2>3. CASE cat[old].kind # z
    <3>1. Of(new, z) = Of(cat, z)
      BY <2>1, <2>3 DEF Of
    <3> QED
      BY <2>3, <3>1, SetsFinite DEF One
  <2> QED
    BY <2>2, <2>3
<1>5. ASSUME NEW d
      PROVE  Cardinality(Children(new, d)) = Cardinality(Children(cat, d)) - One(d = old[1])
  <2>1. Children(new, d) = Children(cat, d) \ {old}
    BY <1>2 DEF Children
  <2>2. CASE d = old[1]
    <3>1. old \in Children(cat, d)
      BY <2>2 DEF Children
    <3> QED
      BY <2>1, <2>2, <3>1, SetsFinite, Sizes DEF One
  <2>3. CASE d # old[1]
    <3>1. Children(new, d) = Children(cat, d)
      BY <2>1, <2>3 DEF Children
    <3> QED
      BY <2>3, <3>1, SetsFinite DEF One
  <2> QED
    BY <2>2, <2>3
<1>6. ASSUME NEW d
      PROVE  Cardinality(Subfolders(new, d))
                = Cardinality(Subfolders(cat, d))
                     - IF cat[old].kind = "folder" THEN One(d = old[1]) ELSE 0
  <2>1. Subfolders(new, d) = Subfolders(cat, d) \ {old}
    BY <1>2, <1>3 DEF Subfolders, Children
  <2>2. CASE d = old[1] /\ cat[old].kind = "folder"
    <3>1. old \in Subfolders(cat, d)
      BY <2>2 DEF Subfolders, Children
    <3> QED
      BY <2>1, <2>2, <3>1, SetsFinite, Sizes DEF One
  <2>3. CASE ~(d = old[1] /\ cat[old].kind = "folder")
    <3>1. Subfolders(new, d) = Subfolders(cat, d)
      BY <2>1, <2>3 DEF Subfolders, Children
    <3> QED
      BY <2>3, <3>1, SetsFinite DEF One
  <2> QED
    BY <2>2, <2>3
<1> QED
  BY <1>2, <1>3, <1>4, <1>5, <1>6 DEF Lost

\* Counts depend on keys, kinds and ids.
LEMMA SameCounts ==
    ASSUME NEW cat, NEW new, \A k \in Keys : new[k].kind = cat[k].kind
    PROVE  /\ Named(new) = Named(cat)
           /\ \A z : /\ Of(new, z) = Of(cat, z)
                     /\ Children(new, z) = Children(cat, z)
                     /\ Subfolders(new, z) = Subfolders(cat, z)
<1>1. Named(new) = Named(cat)
  BY DEF Named
<1>2. \A z : Children(new, z) = Children(cat, z) /\ Children(cat, z) \subseteq Keys
  BY <1>1 DEF Children, Named
<1>3. \A k \in Named(cat) : k \in Keys
  BY DEF Named
<1> QED
  BY <1>1, <1>2, <1>3 DEF Of, Subfolders

LEMMA Ones == \A b \in BOOLEAN : One(b) \in {0, 1}
BY DEF One

\* Records that move take their counts with them.
LEMMA DropCounts ==
    ASSUME Typed, Ids, Counts, ~img.torn, op \in Ops,
           op.todo \in {D4, O13, M7, R5, F4},
           img'.cat = [img.cat EXCEPT ![op.old] = NoRec],
           op'.rec = op.rec, op'.old = op.old,
           \/ /\ op'.todo \in {D3, O12}
              /\ img'.files = img.files - 1 + FolderDelta(op.rec)
              /\ img'.folders = img.folders - FolderDelta(op.rec)
           \/ /\ op'.todo \in {M6, R4, F3}
              /\ img'.files = img.files
              /\ img'.folders = img.folders
    PROVE  Counting(img', op')
<1> DEFINE cat == img.cat
           new == img'.cat
           old == op.old
           r   == op.rec
<1>1. cat \in [Keys -> Recs] /\ IsFiniteSet(Named(cat)) /\ img \in Images
  BY NamedFinite DEF Typed, Images, Ids
<1>2. op.todo \in Finding /\ op.todo \in Settled
  BY IdLists DEF Settled
<1>3. old \in Named(cat) /\ cat[old] = r /\ r \in Recs /\ r.kind \in {"file", "folder"}
  BY <1>1, <1>2 DEF Ids, Named, Recs, FileRecs, FolderRecs, NoRec
<1>4. new = [cat EXCEPT ![old] = NoRec]
  OBVIOUS
<1> HIDE DEF old, new, cat
<1>5. /\ \A z : z # "none" => Cardinality(Of(new, z)) = Cardinality(Of(cat, z)) - One(r.kind = z)
      /\ \A d : /\ Cardinality(Children(new, d))
                      = Cardinality(Children(cat, d)) - One(d = old[1])
                /\ Cardinality(Subfolders(new, d))
                      = Cardinality(Subfolders(cat, d))
                           - IF r.kind = "folder" THEN One(d = old[1]) ELSE 0
      /\ \A k \in Named(new) : new[k] = cat[k]
      /\ Named(new) = Named(cat) \ {old}
  <2>1. Lost(cat, new, old, cat[old])
    BY <1>1, <1>3, <1>4, Fewer
  <2> QED
    BY <1>3, <2>1 DEF Lost
<1>6. \A z : /\ Cardinality(Of(cat, z)) \in Nat /\ Cardinality(Children(cat, z)) \in Nat
             /\ Cardinality(Subfolders(cat, z)) \in Nat
  BY <1>1, SetsFinite
<1>7. /\ img.files = Cardinality(Of(cat, "file")) + 0
      /\ img.folders + 1 = Cardinality(Of(cat, "folder")) + 0
      /\ \A k \in Of(cat, "folder") : CountsRight(cat, op, cat[k])
  BY <1>2, Lags DEF Counts, Counting, cat
<1>8. \A d : Lag(op, d) = 0 /\ SubLag(op, d) = 0
  BY <1>2, Lags DEF SubLag
<1>9. \A d : Lag(op', d) = One(d = old[1])
  BY Lags DEF old
<1>10. \A d : SubLag(op', d) = IF r.kind = "folder" THEN One(d = old[1]) ELSE 0
  BY <1>9 DEF SubLag
<1>11. ASSUME NEW q, CountsRight(cat, op, q)
       PROVE  CountsRight(new, op', q)
  <2> DEFINE d == q.id
  <2>1. q.val = Cardinality(Children(cat, d)) /\ q.sub = Cardinality(Subfolders(cat, d))
    BY <1>6, <1>8, <1>11 DEF CountsRight
  <2>2. One(d = old[1]) \in {0, 1}
    BY Ones
  <2> HIDE DEF d
  <2>3. /\ q.val = Cardinality(Children(new, d)) + Lag(op', d)
        /\ q.sub = Cardinality(Subfolders(new, d)) + SubLag(op', d)
    <3>1. CASE r.kind = "folder"
      BY <1>5, <1>6, <1>9, <1>10, <2>1, <2>2, <3>1
    <3>2. CASE r.kind # "folder"
      BY <1>5, <1>6, <1>9, <1>10, <2>1, <2>2, <3>2
    <3> QED
      BY <3>1, <3>2
  <2> QED
    BY <2>3 DEF CountsRight, d
<1>12. \A k \in Of(new, "folder") : CountsRight(new, op', new[k])
  BY <1>5, <1>7, <1>11 DEF Of
<1>13. r.kind = "folder" => CountsRight(new, op', r)
  BY <1>3, <1>7, <1>11 DEF Of
<1>14. img.files \in Int /\ img.folders \in Int
  BY <1>1 DEF Images
<1>15. /\ img'.files = Cardinality(Of(new, "file")) + Ahead(op', "file")
       /\ img'.folders + 1 = Cardinality(Of(new, "folder")) + Ahead(op', "folder")
  <2>1. /\ Cardinality(Of(new, "file")) = Cardinality(Of(cat, "file")) - One(r.kind = "file")
        /\ Cardinality(Of(new, "folder")) = Cardinality(Of(cat, "folder")) - One(r.kind = "folder")
    BY <1>5
  <2>2. FolderDelta(r) = One(r.kind = "folder") /\ One(r.kind = "file") = 1 - One(r.kind = "folder")
        /\ One(r.kind = "folder") \in {0, 1}
    BY <1>3 DEF FolderDelta, One
  <2>3. CASE op'.todo \in {D3, O12}
    <3>1. Ahead(op', "file") = 0 /\ Ahead(op', "folder") = 0
      BY <2>3, Lags
    <3>2. /\ img'.files = img.files - 1 + FolderDelta(r)
          /\ img'.folders = img.folders - FolderDelta(r)
      BY <2>3, CountLists
    <3> QED
      BY <1>6, <1>7, <1>14, <2>1, <2>2, <3>1, <3>2
  <2>4. CASE op'.todo \in {M6, R4, F3}
    <3>1. Ahead(op', "file") = One(r.kind = "file") /\ Ahead(op', "folder") = One(r.kind = "folder")
      BY <2>4, Lags
    <3>2. img'.files = img.files /\ img'.folders = img.folders
      BY <2>4, CountLists
    <3> QED
      BY <1>6, <1>7, <1>14, <2>1, <2>2, <3>1, <3>2
  <2> QED
    BY <2>3, <2>4
<1> QED
  BY <1>12, <1>13, <1>15 DEF Counting, new

\* A record that is inserted is not counted yet, or still.
LEMMA PutCounts ==
    ASSUME Typed, Ids, Tree, Counts, ~img.torn, op \in Ops,
           img'.cat = [img.cat EXCEPT ![op.key] = op.rec],
           img'.files = img.files, img'.folders = img.folders,
           op'.rec = op.rec, op'.old = op.old, op'.key = op.key,
           \/ op.todo = C6 /\ op'.todo = C5
           \/ op.todo = M6 /\ op'.todo = M5
           \/ op.todo = R4 /\ op'.todo = R3
           \/ op.todo = F3 /\ op'.todo = S2
    PROVE  Counting(img', op')
<1> DEFINE cat == img.cat
           new == img'.cat
           old == op.old
           key == op.key
           r   == op.rec
<1>1. cat \in [Keys -> Recs] /\ IsFiniteSet(Named(cat)) /\ img \in Images /\ key \in Keys
  BY NamedFinite DEF Typed, Images, Ids, Ops
<1>2. op.todo \in Holding
  BY IdLists
<1>3. r \in Recs /\ r.kind # "none" /\ r.kind \in {"file", "folder"}
  BY <1>2 DEF Ids, Ops, Recs, FileRecs, FolderRecs, NoRec
<1>4. key \notin Named(cat)
  BY FreeKey
<1>5. new = [cat EXCEPT ![key] = r]
  OBVIOUS
<1>6. op.todo \in {R4, F3} => key[1] = old[1]
  BY DEF Counts, InPlace
<1>7. /\ img.files = Cardinality(Of(cat, "file")) + Ahead(op, "file")
      /\ img.folders + 1 = Cardinality(Of(cat, "folder")) + Ahead(op, "folder")
      /\ \A k \in Of(cat, "folder") : CountsRight(cat, op, cat[k])
      /\ r.kind = "folder" => CountsRight(cat, op, r)
  BY <1>2 DEF Counts, Counting
<1>8. op'.todo \notin Holding
  BY StoreLists
<1>9. ASSUME NEW d
      PROVE  Lag(op, d) = Lag(op', d) + One(d = key[1]) /\ Lag(op', d) \in -1 .. 1
  <2>1. One(d = key[1]) \in {0, 1} /\ One(d = old[1]) \in {0, 1}
    BY Ones
  <2>2. CASE op.todo = C6 /\ op'.todo = C5
    <3>1. Lag(op, d) = 0 /\ Lag(op', d) = 0 - One(d = key[1])
      BY <2>2, Lags DEF Settled
    <3> QED
      BY <2>1, <3>1
  <2>3. CASE op.todo = M6 /\ op'.todo = M5
    <3>1. Lag(op, d) = One(d = old[1]) /\ Lag(op', d) = One(d = old[1]) - One(d = key[1])
      BY <2>3, Lags
    <3> QED
      BY <2>1, <3>1
  <2>4. CASE (op.todo = R4 /\ op'.todo = R3) \/ (op.todo = F3 /\ op'.todo = S2)
    <3>1. Lag(op, d) = One(d = old[1]) /\ Lag(op', d) = 0
      BY <2>4, Lags DEF Settled
    <3>2. key[1] = old[1]
      BY <1>6, <2>4
    <3> QED
      BY <2>1, <3>1, <3>2
  <2> QED
    BY <2>2, <2>3, <2>4
<1>10. \A z : Ahead(op, z) = Ahead(op', z) + One(r.kind = z) /\ Ahead(op', z) \in -1 .. 1
  <2> TAKE z
  <2>1. One(r.kind = z) \in {0, 1}
    BY Ones
  <2>2. CASE op.todo = C6 /\ op'.todo = C5
    <3>1. Ahead(op, z) = 0 /\ Ahead(op', z) = 0 - One(r.kind = z)
      BY <2>2, Lags DEF Settled
    <3> QED
      BY <2>1, <3>1
  <2>3. CASE op.todo \in {M6, R4, F3} /\ op'.todo \in {M5, R3, S2}
    <3>1. Ahead(op, z) = One(r.kind = z) /\ Ahead(op', z) = 0
      BY <2>3, Lags DEF Settled
    <3> QED
      BY <2>1, <3>1
  <2> QED
    BY <2>2, <2>3
<1> HIDE DEF old, key, new, cat, r
<1>11. /\ \A z : z # "none" => Cardinality(Of(new, z)) = Cardinality(Of(cat, z)) + One(r.kind = z)
       /\ \A d : /\ Cardinality(Children(new, d))
                       = Cardinality(Children(cat, d)) + One(d = key[1])
                 /\ Cardinality(Subfolders(new, d))
                       = Cardinality(Subfolders(cat, d))
                            + IF r.kind = "folder" THEN One(d = key[1]) ELSE 0
       /\ \A k \in Named(cat) : new[k] = cat[k]
       /\ new[key] = r
       /\ Named(new) = Named(cat) \cup {key}
  <2>1. Gained(cat, new, key, r)
    BY <1>1, <1>3, <1>4, <1>5, More
  <2> QED
    BY <2>1 DEF Gained
<1>12. \A z : /\ Cardinality(Of(cat, z)) \in Nat /\ Cardinality(Children(cat, z)) \in Nat
              /\ Cardinality(Subfolders(cat, z)) \in Nat
  BY <1>1, SetsFinite
<1>13. ASSUME NEW q, CountsRight(cat, op, q)
       PROVE  CountsRight(new, op', q)
  <2> DEFINE d == q.id
  <2>1. q.val = Cardinality(Children(cat, d)) + Lag(op, d)
        /\ q.sub = Cardinality(Subfolders(cat, d)) + SubLag(op, d)
    BY <1>13 DEF CountsRight
  <2> HIDE DEF d
  <2>2. One(d = key[1]) \in {0, 1} /\ Lag(op', d) \in -1 .. 1
        /\ Lag(op, d) = Lag(op', d) + One(d = key[1])
    BY <1>9, Ones DEF key
  <2>3. /\ q.val = Cardinality(Children(new, d)) + Lag(op', d)
        /\ q.sub = Cardinality(Subfolders(new, d)) + SubLag(op', d)
    <3>1. CASE r.kind = "folder"
      <4>1. SubLag(op, d) = Lag(op, d) /\ SubLag(op', d) = Lag(op', d)
        BY <3>1 DEF SubLag, r
      <4> QED
        BY <1>11, <1>12, <2>1, <2>2, <3>1, <4>1
    <3>2. CASE r.kind # "folder"
      <4>1. SubLag(op, d) = 0 /\ SubLag(op', d) = 0
        BY <3>2 DEF SubLag, r
      <4> QED
        BY <1>11, <1>12, <2>1, <2>2, <3>2, <4>1
    <3> QED
      BY <3>1, <3>2
  <2> QED
    BY <2>3 DEF CountsRight, d
<1>14. \A k \in Of(new, "folder") : CountsRight(new, op', new[k])
  BY <1>7, <1>11, <1>13 DEF Of
<1>15. img.files \in Int /\ img.folders \in Int
  BY <1>1 DEF Images
<1>16. /\ img'.files = Cardinality(Of(new, "file")) + Ahead(op', "file")
       /\ img'.folders + 1 = Cardinality(Of(new, "folder")) + Ahead(op', "folder")
  <2>1. /\ Cardinality(Of(new, "file")) = Cardinality(Of(cat, "file")) + One(r.kind = "file")
        /\ Cardinality(Of(new, "folder")) = Cardinality(Of(cat, "folder")) + One(r.kind = "folder")
    BY <1>11
  <2>2. One(r.kind = "file") \in {0, 1} /\ One(r.kind = "folder") \in {0, 1}
    BY Ones
  <2>3. /\ Ahead(op, "file") = Ahead(op', "file") + One(r.kind = "file")
        /\ Ahead(op, "folder") = Ahead(op', "folder") + One(r.kind = "folder")
        /\ Ahead(op', "file") \in -1 .. 1 /\ Ahead(op', "folder") \in -1 .. 1
    BY <1>10 DEF r
  <2> QED
    BY <1>7, <1>12, <1>15, <2>1, <2>2, <2>3
<1> QED
  BY <1>8, <1>14, <1>16 DEF Counting, new

\* The lists of operations that may leave the folder of their entry.
LEMMA OutOfPlace ==
    \A x \in {<<>>, S1, S2, D4, D3, O13, O12, O11, O10, O9, C8, C7, C6, C5, C4, C3,
              M7, M6, M5, M4, R3} : x \notin InPlace
<1>1. InPlace \subseteq Todos
  BY DEF Todos, Unlinking, Relinking, InPlace
<1>2. <<>> \notin InPlace
  BY <1>1, NothingPromised
<1>3. \A x \in {S1, S2, D4, D3, O13, O12, O11, O10, O9, C8, C7, C6, C5, C4, C3,
                M7, M6, M5, M4, R3} : x \notin InPlace
  BY Course, Distinct DEF InPlace
<1> QED
  BY <1>2, <1>3

\* A step that changes neither the records nor what is still to be counted.
LEMMA StillCounting ==
    ASSUME NEW i, NEW j, NEW o, NEW p, Counting(i, o), j.cat = i.cat,
           j.files = i.files, j.folders = i.folders,
           \A d : Lag(p, d) = Lag(o, d) /\ SubLag(p, d) = SubLag(o, d),
           \A z : Ahead(p, z) = Ahead(o, z),
           p.todo \in Holding /\ p.rec.kind = "folder" => CountsRight(i.cat, o, p.rec)
    PROVE  Counting(j, p)
<1>1. \A r : CountsRight(i.cat, o, r) => CountsRight(i.cat, p, r)
  BY DEF CountsRight
<1> QED
  BY <1>1 DEF Counting

\* Between such lists everything is counted.
LEMMA SettledCounts ==
    ASSUME NEW i, NEW j, NEW o, NEW p, Counting(i, o), j.cat = i.cat,
           j.files = i.files, j.folders = i.folders,
           o.todo \in Settled, p.todo \in Settled,
           p.todo \in Holding /\ p.rec.kind = "folder" => CountsRight(i.cat, o, p.rec)
    PROVE  Counting(j, p)
<1>1. \A d : Lag(p, d) = 0 /\ SubLag(p, d) = 0
  BY Lags DEF SubLag
<1>2. \A d : Lag(o, d) = 0 /\ SubLag(o, d) = 0
  BY Lags DEF SubLag
<1>3. \A z : Ahead(p, z) = 0 /\ Ahead(o, z) = 0
  BY Lags
<1> QED
  BY <1>1, <1>2, <1>3, StillCounting

\* While a valence is adjusted the entries form a tree.
LEMMA AdjustedTree ==
    ASSUME Typed, Tree, ~img.torn, op \in Ops, op.todo \in {C3, D3, O12, M4}
    PROVE  /\ WellFormed(View(img.cat))
           /\ op.todo # C3 => op.old \in Keys
<1> DEFINE v == View(img.cat)
           t == shown
<1>1. t \in Trees /\ op.key \in Keys /\ op.rec \in Recs /\ WellFormed(t) /\ Progress(v, t, op)
  BY DEF Tree, Trees, Ops
<1> HIDE DEF v, t
<1>2. \/ v = Without(t, op) /\ Removable(t, op)
      \/ v = With(t, op) /\ Insertable(t, op) /\ op.todo = C3
      \/ v = With(Without(t, op), op) /\ Movable(t, op)
  BY <1>1, Stages DEF Replaceable
<1>3. WellFormed(v)
  BY <1>1, <1>2, RemovedWell, CreatedWell, MovedWell
<1>4. op.todo # C3 => op.old \in Keys
  BY <1>2 DEF Removable, Movable, Named
<1> QED
  BY <1>3, <1>4 DEF v

\* adjustParentValence finds the record of the folder it was given, and no
\* other record has that id.
LEMMA AdjustedFolder ==
    ASSUME Typed, Tree, Threads, ~img.torn, op \in Ops, op.todo \in {C3, D3, O12, M4},
           NEW d \in Dirs, Found(d)
    PROVE  /\ img.thr[d] \in Named(img.cat)
           /\ img.cat[img.thr[d]].id = d
           /\ \A k \in Named(img.cat) : img.cat[k].id = d => k = img.thr[d]
<1> DEFINE v == View(img.cat)
           p == img.thr[d]
<1>1. WellFormed(v)
  BY AdjustedTree
<1>2. Named(v) = Named(img.cat) /\ \A k \in Keys : v[k].id = img.cat[k].id
  BY ViewIsTree DEF Typed, Images
<1>3. p # NoKey /\ img.cat[p].kind = "folder"
  BY DEF Found
<1>4. ThreadsNear(img, 0) /\ 0 \notin Dirs
  BY Tight, VolumeAssumption DEF Threads, Dirs, UserIds, FirstUser, Root, RootParent
<1> HIDE DEF v
<1>5. PICK k \in Named(img.cat) : img.cat[k].id = d
  BY <1>3, <1>4 DEF ThreadsNear
<1>6. p \in Keys /\ Same(p, k)
  BY <1>4, <1>5 DEF ThreadsNear
<1> HIDE DEF p
<1>7. p \in Named(img.cat)
  BY <1>3, <1>6 DEF Named
<1>8. p = k
  BY <1>1, <1>2, <1>6, <1>7 DEF WellFormed, Same
<1>9. \A l \in Named(img.cat) : img.cat[l].id = d => l = p
  BY <1>1, <1>2, <1>5, <1>8 DEF WellFormed, Named
<1> QED
  BY <1>5, <1>7, <1>8, <1>9 DEF p

\* A valence that is adjusted catches up with the children.
LEMMA ValenceCounts ==
    ASSUME Typed, Ids, Tree, Threads, Counts, Valence, ~img.torn
    PROVE  Counting(img', op')
<1> DEFINE cat == img.cat
           new == img'.cat
           a == Adjusting
           p == img.thr[Adjusting]
           s == IF Now(op.todo) = "enter" THEN 1 ELSE -1
           g == FolderDelta(op.rec)
<1>1. /\ op \in Ops /\ op.todo \in {C3, D3, O12, M4} /\ op'.todo = Rest(op.todo)
      /\ op'.key = op.key /\ op'.old = op.old /\ op'.rec = op.rec
      /\ a = IF Now(op.todo) = "enter" THEN op.key[1] ELSE op.old[1]
      /\ Found(a)
      /\ \A k \in Keys : new[k].kind = cat[k].kind /\ new[k].id = cat[k].id
      /\ \A k \in Keys : k # p => new[k] = cat[k]
      /\ \A k \in Keys : k = p => new[k].val = cat[k].val + s /\ new[k].sub = cat[k].sub + s * g
      /\ img'.files = img.files /\ img'.folders = img.folders
  BY ValenceEffect
<1>2. a \in Dirs
  BY <1>1, AdjustedTree, Course DEF Ops, Keys
<1>3. /\ p \in Named(cat) /\ cat[p].id = a
      /\ \A k \in Named(cat) : cat[k].id = a => k = p
  BY <1>1, <1>2, AdjustedFolder
<1>4. cat \in [Keys -> Recs] /\ IsFiniteSet(Named(cat))
  BY NamedFinite DEF Typed, Images, Ids
<1>5. op'.todo \in {S2, O11, C3} /\ op'.todo \notin Holding
  BY <1>1, Course, StoreLists
<1>6. \A z : Ahead(op, z) = 0 /\ Ahead(op', z) = 0
  <2>1. /\ op.todo \in Settled \cup {D3, O12, C3, M5, M4}
        /\ op'.todo \in Settled \cup {D3, O12, C3, M5, M4}
    BY <1>1, <1>5 DEF Settled
  <2>2. \A z : Ahead(op, z) = 0
    BY <2>1, Lags
  <2>3. \A z : Ahead(op', z) = 0
    BY <2>1, Lags
  <2> QED
    BY <2>2, <2>3
<1>7. s \in {1, -1} /\ g \in {0, 1} /\ (op.rec.kind = "folder" <=> g = 1)
  BY DEF FolderDelta
<1>8. ASSUME NEW d
      PROVE  Lag(op', d) = Lag(op, d) + (IF d = a THEN s ELSE 0) /\ Lag(op, d) \in -1 .. 1
  <2>1. One(d = op.key[1]) \in {0, 1} /\ One(d = op.old[1]) \in {0, 1}
    BY Ones
  <2>2. CASE op.todo = C3
    <3>1. Lag(op, d) = 0 - One(d = op.key[1]) /\ Lag(op', d) = 0
      BY <1>1, <2>2, Course, Lags DEF Settled
    <3>2. a = op.key[1] /\ s = 1
      BY <1>1, <2>2, Course
    <3>3. One(d = op.key[1]) = IF d = a THEN 1 ELSE 0
      BY <3>2 DEF One
    <3> HIDE DEF a, s
    <3> DEFINE one == One(d = op.key[1])
    <3>4. one = (IF d = a THEN 1 ELSE 0) /\ Lag(op, d) = 0 - one
      BY <3>1, <3>3
    <3> HIDE DEF one
    <3> QED
      BY <3>1, <3>2, <3>4
  <2>3. CASE op.todo \in {D3, O12}
    <3>1. Lag(op, d) = One(d = op.old[1]) /\ Lag(op', d) = 0
      BY <1>1, <2>3, Course, Lags DEF Settled
    <3>2. a = op.old[1] /\ s = -1
      BY <1>1, <2>3, Course
    <3> QED
      BY <2>1, <3>1, <3>2 DEF One
  <2>4. CASE op.todo = M4
    <3>1. /\ Lag(op, d) = One(d = op.old[1]) - One(d = op.key[1])
          /\ Lag(op', d) = 0 - One(d = op.key[1])
      BY <1>1, <2>4, Course, Lags
    <3>2. a = op.old[1] /\ s = -1
      BY <1>1, <2>4, Course
    <3> QED
      BY <2>1, <3>1, <3>2 DEF One
  <2> QED
    BY <1>1, <2>2, <2>3, <2>4
<1>9. ASSUME NEW d
      PROVE  SubLag(op', d) = SubLag(op, d) + (IF d = a THEN s * g ELSE 0)
             /\ SubLag(op, d) \in -1 .. 1
  <2>1. CASE op.rec.kind = "folder"
    <3>1. SubLag(op', d) = Lag(op', d) /\ SubLag(op, d) = Lag(op, d) /\ s * g = s
      BY <1>1, <1>7, <2>1 DEF SubLag
    <3> QED
      BY <1>8, <3>1
  <2>2. CASE op.rec.kind # "folder"
    <3>1. SubLag(op', d) = 0 /\ SubLag(op, d) = 0 /\ s * g = 0
      BY <1>1, <1>7, <2>2 DEF SubLag
    <3> QED
      BY <3>1
  <2> QED
    BY <2>1, <2>2
<1>10. /\ Named(new) = Named(cat)
       /\ \A z : /\ Of(new, z) = Of(cat, z)
                 /\ Children(new, z) = Children(cat, z)
                 /\ Subfolders(new, z) = Subfolders(cat, z)
  BY <1>1, SameCounts
<1>11. /\ img.files = Cardinality(Of(cat, "file")) + Ahead(op, "file")
       /\ img.folders + 1 = Cardinality(Of(cat, "folder")) + Ahead(op, "folder")
       /\ \A k \in Of(cat, "folder") : CountsRight(cat, op, cat[k])
  BY DEF Counts, Counting
<1>12. s * g \in -1 .. 1
  BY <1>7
<1> HIDE DEF cat, new, a, p, s, g
<1>13. ASSUME NEW k \in Of(new, "folder")
       PROVE  CountsRight(new, op', new[k])
  <2> DEFINE d == cat[k].id
  <2>1. k \in Of(cat, "folder") /\ k \in Named(cat) /\ k \in Keys /\ new[k].id = d
    BY <1>1, <1>10 DEF Of, Named
  <2>2. /\ cat[k].val = Cardinality(Children(cat, d)) + Lag(op, d)
        /\ cat[k].sub = Cardinality(Subfolders(cat, d)) + SubLag(op, d)
    BY <1>11, <2>1 DEF CountsRight
  <2>3. Cardinality(Children(cat, d)) \in Nat /\ Cardinality(Subfolders(cat, d)) \in Nat
    BY <1>4, SetsFinite
  <2>4. d = a <=> k = p
    BY <1>3, <2>1
  <2>5. /\ Lag(op', d) = Lag(op, d) + (IF d = a THEN s ELSE 0)
        /\ SubLag(op', d) = SubLag(op, d) + (IF d = a THEN s * g ELSE 0)
        /\ Lag(op, d) \in -1 .. 1 /\ SubLag(op, d) \in -1 .. 1
    BY <1>8, <1>9
  <2> HIDE DEF d
  <2> DEFINE q == s * g
  <2>6. q \in -1 .. 1 /\ s \in {1, -1}
    BY <1>7, <1>12
  <2> HIDE DEF q
  <2>7. CASE k = p
    <3>1. new[k].val = cat[k].val + s /\ new[k].sub = cat[k].sub + q
      BY <1>1, <2>1, <2>7 DEF q
    <3>2. Lag(op', d) = Lag(op, d) + s /\ SubLag(op', d) = SubLag(op, d) + q
      BY <2>4, <2>5, <2>7 DEF q
    <3>3. /\ new[k].val = Cardinality(Children(cat, d)) + Lag(op', d)
          /\ new[k].sub = Cardinality(Subfolders(cat, d)) + SubLag(op', d)
      BY <2>2, <2>3, <2>5, <2>6, <3>1, <3>2
    <3> QED
      BY <1>10, <2>1, <3>3 DEF CountsRight
  <2>8. CASE k # p
    <3>1. new[k] = cat[k] /\ Lag(op', d) = Lag(op, d) /\ SubLag(op', d) = SubLag(op, d)
      BY <1>1, <2>1, <2>4, <2>5, <2>8
    <3> QED
      BY <1>10, <2>1, <2>2, <3>1 DEF CountsRight
  <2> QED
    BY <2>7, <2>8
<1>14. /\ img'.files = Cardinality(Of(new, "file")) + Ahead(op', "file")
       /\ img'.folders + 1 = Cardinality(Of(new, "folder")) + Ahead(op', "folder")
  BY <1>1, <1>6, <1>10, <1>11
<1> QED
  BY <1>5, <1>13, <1>14 DEF Counting, new

\* The header's counters catch up with the records.
LEMMA CountCounts ==
    ASSUME Typed, Ids, Tree, Counts, Count, ~img.torn
    PROVE  Counting(img', op')
<1> DEFINE cat == img.cat
           r == op.rec
<1>1. /\ op \in Ops /\ op.todo = C4 /\ op'.todo = C3
      /\ op'.key = op.key /\ op'.old = op.old /\ op'.rec = op.rec
      /\ img'.files = img.files + 1 - FolderDelta(op.rec)
      /\ img'.folders = img.folders + FolderDelta(op.rec)
      /\ img'.cat = img.cat
  BY CountEffect
<1>2. r.kind \in {"file", "folder"}
  <2>1. r.kind # "none" /\ r \in Recs
    BY <1>1, PutKey DEF Ops
  <2> QED
    BY <2>1 DEF Recs, FileRecs, FolderRecs, NoRec
<1>3. \A d : Lag(op', d) = Lag(op, d) /\ SubLag(op', d) = SubLag(op, d)
  BY <1>1, Lags DEF SubLag
<1>4. \A z : Ahead(op', z) = 0 /\ Ahead(op, z) = 0 - One(r.kind = z)
  BY <1>1, Lags
<1>5. op'.todo \notin Holding
  BY <1>1, StoreLists
<1>6. /\ img.files = Cardinality(Of(cat, "file")) + Ahead(op, "file")
      /\ img.folders + 1 = Cardinality(Of(cat, "folder")) + Ahead(op, "folder")
      /\ \A k \in Of(cat, "folder") : CountsRight(cat, op, cat[k])
  BY DEF Counts, Counting
<1>7. \A z : Cardinality(Of(cat, z)) \in Nat
  BY NamedFinite, SetsFinite DEF Typed, Ids
<1>8. FolderDelta(r) = One(r.kind = "folder") /\ One(r.kind = "file") = 1 - One(r.kind = "folder")
      /\ One(r.kind = "folder") \in {0, 1}
  BY <1>2 DEF FolderDelta, One
<1>9. img.files \in Int /\ img.folders \in Int
  BY DEF Typed, Images
<1>10. \A k \in Of(cat, "folder") : CountsRight(cat, op', cat[k])
  BY <1>3, <1>6 DEF CountsRight
<1> HIDE DEF cat, r
<1>11. /\ img'.files = Cardinality(Of(cat, "file"))
       /\ img'.folders + 1 = Cardinality(Of(cat, "folder"))
  <2>1. /\ Ahead(op, "file") = 0 - One(r.kind = "file")
        /\ Ahead(op, "folder") = 0 - One(r.kind = "folder")
    BY <1>4
  <2>2. /\ img'.files = img.files + 1 - FolderDelta(r)
        /\ img'.folders = img.folders + FolderDelta(r)
    BY <1>1 DEF r
  <2> QED
    BY <1>6, <1>7, <1>8, <1>9, <2>1, <2>2
<1>12. /\ img'.files = Cardinality(Of(cat, "file")) + Ahead(op', "file")
       /\ img'.folders + 1 = Cardinality(Of(cat, "folder")) + Ahead(op', "folder")
  BY <1>4, <1>7, <1>11
<1> QED
  BY <1>1, <1>5, <1>10, <1>12 DEF Counting, cat

\* Overflow extents and threads are not counted.
LEMMA PlainInsertCounts ==
    ASSUME Counts, ~img.torn, img'.cat = img.cat, img'.files = img.files,
           img'.folders = img.folders,
           op'.rec = op.rec, op'.old = op.old, op'.key = op.key,
           \/ op.todo = C7 /\ op'.todo = C6
           \/ op.todo = C5 /\ op'.todo = C4
           \/ op.todo = M5 /\ op'.todo = M4
           \/ op.todo = R3 /\ op'.todo = S2
    PROVE  Counting(img', op')
<1>1. \A d : Lag(op', d) = Lag(op, d)
  BY Lags DEF Settled
<1>2. \A d : SubLag(op', d) = SubLag(op, d)
  BY <1>1 DEF SubLag
<1>3. \A z : Ahead(op', z) = Ahead(op, z)
  BY Lags DEF Settled
<1>4. op'.todo \in Holding => op.todo \in Holding
  BY StoreLists
<1>5. op'.todo \in Holding /\ op'.rec.kind = "folder" => CountsRight(img.cat, op, op'.rec)
  BY <1>4 DEF Counts, Counting
<1> QED
  BY <1>1, <1>2, <1>3, <1>5, StillCounting DEF Counts

\* A catalog id that was never handed out has no children.
LEMMA NewHasNoChildren ==
    ASSUME Typed, Ids, Tree, Idle, ~img.torn, img.next <= LastCNID
    PROVE  Children(img.cat, img.next) = {} /\ Subfolders(img.cat, img.next) = {}
<1> DEFINE v == View(img.cat)
<1>1. WellFormed(v)
  BY IdleTree
<1>2. Named(v) = Named(img.cat) /\ \A k \in Keys : v[k].id = img.cat[k].id
  BY ViewIsTree DEF Typed, Images
<1>3. img.next \in Nat /\ img.next # RootParent
  BY VolumeAssumption DEF Typed, Images, FirstUser, RootParent
<1> HIDE DEF v
<1>4. ASSUME NEW k \in Named(img.cat), k[1] = img.next
      PROVE  FALSE
  <2>1. PICK l \in Named(v) : v[l].id = img.next
    BY <1>1, <1>2, <1>3, <1>4 DEF WellFormed, HasFolder
  <2>2. l \in Named(img.cat) /\ img.cat[l].id = img.next
    BY <1>2, <2>1 DEF Named
  <2> QED
    BY <1>3, <2>2 DEF Ids, IdsMatch
<1> QED
  BY <1>4 DEF Children, Subfolders

LEMMA CallCounts ==
    ASSUME Typed, Ids, Tree, Counts, Idle, Call
    PROVE  Counts'
<1>1. img \in Images /\ op.todo = <<>> /\ <<>> \in Settled /\ op = NoOp
  BY DEF Typed, Idle, NoOp, Settled
<1>2. ASSUME NEW todo \in {D4, O13, C8, M7, R5, F4}, NEW key, NEW old, NEW rec,
             NEW data, Start(todo, key, old, rec, data), img' = img,
             todo \in InPlace => key[1] = old[1]
      PROVE  Counts'
  <2>1. op'.todo = todo /\ op'.key = key /\ op'.old = old /\ disk' = disk
    BY <1>2 DEF Start
  <2>2. todo \in Settled /\ todo \notin Holding
    BY StoreLists DEF Settled
  <2>3. ~img.torn => Counting(img', op')
    BY <1>1, <1>2, <2>1, <2>2, SettledCounts DEF Counts
  <2>4. op'.todo \in InPlace => op'.key[1] = op'.old[1]
    BY <1>2, <2>1
  <2> QED
    BY <1>2, <2>1, <2>3, <2>4 DEF Counts
<1>3. ASSUME NEW k, NEW l, NEW data, Overwrite(k, l, data)
      PROVE  Counts'
  BY <1>2, <1>3, Begins, OutOfPlace DEF Overwrite
<1>4. ASSUME NEW k, NEW data, NewFile(k, data)
      PROVE  Counts'
  BY <1>2, <1>4, Begins, OutOfPlace DEF NewFile
<1>5. ASSUME NEW k, MkDir(k)
      PROVE  Counts'
  <2> DEFINE r == FolderRec(img.next)
  <2>1. /\ Start(C6, k, NoKey, r, <<>>) /\ img.next <= LastCNID
        /\ img' = [img EXCEPT !.next = img.next + 1]
    BY <1>5, Begins DEF MkDir
  <2>2. /\ img'.cat = img.cat /\ img'.torn = img.torn
        /\ img'.files = img.files /\ img'.folders = img.folders
    BY <1>1, <2>1 DEF Images
  <2>3. op'.todo = C6 /\ op'.rec = r /\ disk' = disk
    BY <2>1 DEF Start
  <2>4. r.val = 0 /\ r.sub = 0 /\ r.id = img.next
    BY DEF FolderRec
  <2> HIDE DEF r
  <2>5. ASSUME ~img.torn
        PROVE  CountsRight(img.cat, op, r)
    <3>1. Cardinality(Children(img.cat, r.id)) = 0 /\ Cardinality(Subfolders(img.cat, r.id)) = 0
      BY <2>1, <2>4, <2>5, NewHasNoChildren, FS_EmptySet
    <3>2. Lag(op, r.id) = 0 /\ SubLag(op, r.id) = 0
      BY <1>1, Lags DEF SubLag
    <3> QED
      BY <2>4, <3>1, <3>2 DEF CountsRight
  <2>6. C6 \in Settled
    BY DEF Settled
  <2>7. ~img.torn => Counting(img', op')
    BY <1>1, <2>2, <2>3, <2>5, <2>6, SettledCounts DEF Counts
  <2>8. op'.todo \notin InPlace
    BY <2>3, OutOfPlace
  <2> QED
    BY <2>2, <2>3, <2>7, <2>8 DEF Counts
<1>6. ASSUME NEW k, DeleteFile(k) \/ DeleteDir(k)
      PROVE  Counts'
  BY <1>2, <1>6, Begins, OutOfPlace DEF DeleteFile, DeleteDir
<1>7. ASSUME NEW k, NEW new, Rename(k, new)
      PROVE  Counts'
  <2>1. PICK l : Start(IF l[1] # new[1] THEN MoveSteps ELSE RenameSteps,
                       new, l, img.cat[l], <<>>)
    BY <1>7 DEF Rename
  <2>2. img' = img
    BY <1>7 DEF Rename
  <2>3. CASE l[1] = new[1]
    <3>1. Start(R5, new, l, img.cat[l], <<>>)
      BY <2>1, <2>3, Begins
    <3> QED
      BY <1>2, <2>2, <2>3, <3>1
  <2>4. CASE l[1] # new[1]
    <3>1. Start(M7, new, l, img.cat[l], <<>>)
      BY <2>1, <2>4, Begins
    <3> QED
      BY <1>2, <2>2, <3>1, OutOfPlace
  <2> QED
    BY <2>3, <2>4
<1>8. ASSUME NEW k, SetFinderInfo(k)
      PROVE  Counts'
  <2>1. PICK l : l[1] = k[1] /\ Start(F4, k, l, img.cat[l], <<>>)
    BY <1>8, Begins DEF SetFinderInfo, lookupChild
  <2>2. img' = img
    BY <1>8 DEF SetFinderInfo
  <2> QED
    BY <1>2, <2>1, <2>2
<1>9. ASSUME NEW n, SetLabel(n)
      PROVE  Counts'
  <2>1. PICK k : k[1] = RootParent /\ Start(R5, <<RootParent, n>>, k, img.cat[k], <<>>)
    BY <1>9, Begins DEF SetLabel, Label, Children
  <2>2. img' = img
    BY <1>9 DEF SetLabel
  <2> DEFINE key == <<RootParent, n>>
  <2>3. key[1] = k[1] /\ Start(R5, key, k, img.cat[k], <<>>)
    BY <2>1
  <2> HIDE DEF key
  <2> QED
    BY <1>2, <2>2, <2>3
<1> QED
  BY <1>3, <1>4, <1>5, <1>6, <1>7, <1>8, <1>9
     DEF Call, WriteFile, Symlink, Truncate

\* Every step keeps the counts.
LEMMA NextCounts ==
    Typed /\ Ids /\ Tree /\ Threads /\ Counts /\ [Next]_vars => Counts'
<1> SUFFICES ASSUME Typed, Ids, Tree, Threads, Counts, [Next]_vars
             PROVE  Counts'
  OBVIOUS
<1>1. NoOp.todo = <<>> /\ <<>> \in Settled /\ <<>> \notin Holding
  BY StoreLists DEF NoOp, Settled
<1>2. CASE Idle /\ Call
  BY <1>2, CallCounts
<1>3. CASE Rebegin
  <2>1. op.todo = O9 /\ op'.todo = C8 /\ img' = img /\ disk' = disk
    BY <1>3, RebeginEffect
  <2>2. ~img.torn => Counting(img', op')
    BY <2>1, SettledCounts, StoreLists DEF Counts, Settled
  <2> QED
    BY <2>1, <2>2, OutOfPlace DEF Counts
<1>4. CASE Alloc
  <2>1. /\ op.todo = C8 /\ op'.todo \in {C7, C6} /\ op'.rec \in FileRecs
        /\ disk' = disk /\ img'.torn = img.torn /\ img'.cat = img.cat
        /\ img'.files = img.files /\ img'.folders = img.folders
    BY <1>4, AllocEffect
  <2>2. op'.rec.kind = "file"
    BY <2>1 DEF FileRecs
  <2>3. ~img.torn => Counting(img', op')
    BY <2>1, <2>2, SettledCounts DEF Counts, Settled
  <2> QED
    BY <2>1, <2>3, OutOfPlace DEF Counts
<1>5. CASE AllocNoSpace
  <2>1. /\ op.todo = C8 /\ op' = NoOp /\ disk' = disk /\ img'.torn = img.torn
        /\ img'.cat = img.cat /\ img'.files = img.files /\ img'.folders = img.folders
    BY <1>5, AllocNoSpaceEffect
  <2>2. ~img.torn => Counting(img', op')
    BY <1>1, <2>1, SettledCounts DEF Counts, Settled
  <2> QED
    BY <1>1, <2>1, <2>2, OutOfPlace DEF Counts
<1>6. CASE Insert \/ InsertGrows
  <2>1. /\ op \in Ops /\ op.todo \in {C7, C6, M6, R4, F3, C5, M5, R3}
        /\ op'.todo = Rest(op.todo)
        /\ op'.key = op.key /\ op'.old = op.old /\ op'.rec = op.rec
        /\ img'.cat = IF Now(op.todo) = "record"
                      THEN [img.cat EXCEPT ![op.key] = op.rec] ELSE img.cat
        /\ img'.torn = img.torn /\ disk' = disk
        /\ img'.files = img.files /\ img'.folders = img.folders
    BY <1>6, InsertEffect
  <2>2. CASE op.todo \in {C6, M6, R4, F3}
    <3>1. img'.cat = [img.cat EXCEPT ![op.key] = op.rec]
      BY <2>1, <2>2, Course
    <3>2. \/ op.todo = C6 /\ op'.todo = C5
          \/ op.todo = M6 /\ op'.todo = M5
          \/ op.todo = R4 /\ op'.todo = R3
          \/ op.todo = F3 /\ op'.todo = S2
      BY <2>1, <2>2, Course
    <3>3. ~img.torn => Counting(img', op')
      BY <2>1, <3>1, <3>2, PutCounts
    <3> QED
      BY <2>1, <3>2, <3>3, OutOfPlace DEF Counts
  <2>3. CASE op.todo \in {C7, C5, M5, R3}
    <3>1. img'.cat = img.cat
      BY <2>1, <2>3, Course
    <3>2. \/ op.todo = C7 /\ op'.todo = C6
          \/ op.todo = C5 /\ op'.todo = C4
          \/ op.todo = M5 /\ op'.todo = M4
          \/ op.todo = R3 /\ op'.todo = S2
      BY <2>1, <2>3, Course
    <3>3. ~img.torn => Counting(img', op')
      BY <2>1, <3>1, <3>2, PlainInsertCounts
    <3> QED
      BY <2>1, <3>2, <3>3, OutOfPlace DEF Counts
  <2> QED
    BY <2>1, <2>2, <2>3
<1>7. CASE InsertNoSpace \/ ValenceFails
  <2>1. op' = NoOp /\ img'.torn = TRUE /\ disk' = disk
    BY <1>7, FailEffect
  <2> QED
    BY <1>1, <2>1, OutOfPlace DEF Counts
<1>8. CASE Count
  <2>1. op'.todo = C3 /\ disk' = disk /\ img'.torn = img.torn
    BY <1>8, CountEffect
  <2> QED
    BY <1>8, <2>1, CountCounts, OutOfPlace DEF Counts
<1>9. CASE Valence
  <2>1. /\ op.todo \in {C3, D3, O12, M4} /\ op'.todo = Rest(op.todo)
        /\ disk' = disk /\ img'.torn = img.torn
    BY <1>9, ValenceEffect
  <2>2. op'.todo \in {S2, O11, C3}
    BY <2>1, Course
  <2> QED
    BY <1>9, <2>1, <2>2, ValenceCounts, OutOfPlace DEF Counts
<1>10. CASE Remove
  <2>1. /\ op \in Ops /\ op.todo \in {D4, O13} /\ op'.todo = Rest(op.todo)
        /\ op'.old = op.old /\ op'.rec = op.rec
        /\ img'.cat = [img.cat EXCEPT ![op.old] = NoRec]
        /\ img'.files = img.files - 1 + FolderDelta(op.rec)
        /\ img'.folders = img.folders - FolderDelta(op.rec)
        /\ disk' = disk /\ img'.torn = img.torn
    BY <1>10, RemoveEffect
  <2>2. op'.todo \in {D3, O12}
    BY <2>1, Course
  <2>3. ~img.torn => Counting(img', op')
    BY <2>1, <2>2, DropCounts
  <2> QED
    BY <2>1, <2>2, <2>3, OutOfPlace DEF Counts
<1>11. CASE Unlink
  <2>1. /\ op \in Ops /\ op.todo \in {M7, R5, F4} /\ op'.todo = Rest(op.todo)
        /\ op'.key = op.key /\ op'.old = op.old /\ op'.rec = op.rec
        /\ img'.cat = [img.cat EXCEPT ![op.old] = NoRec]
        /\ img'.files = img.files /\ img'.folders = img.folders
        /\ disk' = disk /\ img'.torn = img.torn
    BY <1>11, UnlinkEffect
  <2>2. op'.todo \in {M6, R4, F3} /\ (op.todo = M7 => op'.todo = M6)
    BY <2>1, Course
  <2>3. ~img.torn => Counting(img', op')
    BY <2>1, <2>2, DropCounts
  <2>4. op'.todo \in InPlace => op.todo \in InPlace
    BY <2>1, <2>2, OutOfPlace DEF InPlace
  <2> QED
    BY <2>1, <2>3, <2>4 DEF Counts
<1>12. CASE commit
  <2>1. /\ op.todo \in {S2, O11} /\ op'.todo = Rest(op.todo)
        /\ img'.cat = img.cat /\ img'.files = img.files /\ img'.folders = img.folders
        /\ disk' = disk /\ img'.torn = img.torn
    BY <1>12, commitEffect
  <2>2. op'.todo \in {S1, O10}
    BY <2>1, Course
  <2>3. op.todo \in Settled /\ op'.todo \in Settled /\ op'.todo \notin Holding
    BY <2>1, <2>2, StoreLists DEF Settled
  <2>4. ~img.torn => Counting(img', op')
    BY <2>1, <2>3, SettledCounts DEF Counts
  <2> QED
    BY <2>1, <2>2, <2>4, OutOfPlace DEF Counts
<1>13. CASE Sync
  <2>1. disk' = img /\ img' = img
    BY <1>13, SyncEffect
  <2>2. op.todo \in {<<>>, S1, O10} /\ op'.todo \in {<<>>, O9}
    BY <1>1, <1>13, SyncEffect DEF Idle
  <2>3. op.todo \in Settled /\ op'.todo \in Settled /\ op'.todo \notin Holding
    BY <2>2, StoreLists DEF Settled
  <2>4. ~img.torn => Counting(img, op')
    BY <2>3, SettledCounts DEF Counts
  <2>5. ~img.torn => Counting(img, NoOp)
    BY <1>1, <2>3, SettledCounts DEF Counts
  <2> QED
    BY <2>1, <2>2, <2>4, <2>5, OutOfPlace DEF Counts
<1>14. CASE SyncFails
  <2>1. op.todo \in {S1, O10} /\ op' = NoOp /\ img' = img /\ disk' = disk
    BY <1>14, SyncFailsEffect
  <2>2. op.todo \in Settled
    BY <2>1 DEF Settled
  <2>3. ~img.torn => Counting(img, NoOp)
    BY <1>1, <2>2, SettledCounts DEF Counts
  <2> QED
    BY <1>1, <2>1, <2>3, OutOfPlace DEF Counts
<1>15. CASE Restart
  <2>1. op' = NoOp /\ img' = disk /\ disk' = disk
    BY <1>15, RestartEffect
  <2> QED
    BY <1>1, <2>1, OutOfPlace DEF Counts
<1>16. CASE UNCHANGED vars
  BY <1>16 DEF vars, Counts
<1> QED
  BY <1>2, <1>3, <1>4, <1>5, <1>6, <1>7, <1>8, <1>9, <1>10, <1>11,
     <1>12, <1>13, <1>14, <1>15, <1>16 DEF Next, Step

\* A fresh volume has its root folder and nothing in it.
LEMMA InitCounts == Init => Counts
<1> SUFFICES ASSUME Init
             PROVE  Counts
  OBVIOUS
<1> DEFINE n == CHOOSE m \in Names : TRUE
           r == <<RootParent, n>>
           cat == img.cat
<1>1. n \in Names
  BY VolumeAssumption
<1> HIDE DEF n
<1>2. img = MkfsImage(n) /\ disk = img /\ op = NoOp
  BY DEF Init, n
<1>3. \A k \in Keys : cat[k] = IF k = r THEN FolderRec(Root) ELSE NoRec
  BY <1>1, <1>2, FreshTyped
<1>4. img.files = 0 /\ img.folders = 0
  BY <1>2 DEF MkfsImage
<1>5. r \in Keys /\ r[1] = RootParent
  BY <1>1 DEF Keys, Dirs
<1>6. NoRec.kind = "none" /\ RootParent # Root
  BY DEF NoRec, RootParent, Root
<1> HIDE DEF r
<1>7. cat[r].id = Root /\ cat[r].kind = "folder" /\ cat[r].val = 0 /\ cat[r].sub = 0
  BY <1>3, <1>5 DEF FolderRec
<1>8. Named(cat) = {r}
  BY <1>3, <1>5, <1>6, <1>7 DEF Named
<1> HIDE DEF cat
<1>9. /\ Of(cat, "file") = {} /\ Of(cat, "folder") = {r}
      /\ Children(cat, Root) = {} /\ Subfolders(cat, Root) = {}
  BY <1>5, <1>6, <1>7, <1>8 DEF Of, Children, Subfolders
<1>10. Cardinality({}) = 0 /\ Cardinality({r}) = 1
  BY FS_EmptySet, FS_Singleton
<1>11. op.todo = <<>> /\ <<>> \in Settled /\ <<>> \notin Holding /\ <<>> \notin InPlace
  BY <1>2, StoreLists, OutOfPlace DEF NoOp, Settled
<1>12. Lag(op, Root) = 0 /\ SubLag(op, Root) = 0 /\ \A z : Ahead(op, z) = 0
  <2>1. op.todo \in Settled /\ op.todo \in Settled \cup {D3, O12, C3, M5, M4}
    BY <1>11
  <2>2. Lag(op, Root) = 0
    BY <2>1, Lags
  <2>3. \A z : Ahead(op, z) = 0
    BY <2>1, Lags
  <2> QED
    BY <2>2, <2>3 DEF SubLag
<1>13. CountsRight(cat, op, cat[r])
  BY <1>7, <1>9, <1>10, <1>12 DEF CountsRight
<1>14. Counting(img, op)
  <2>1. /\ img.files = Cardinality(Of(cat, "file")) + Ahead(op, "file")
        /\ img.folders + 1 = Cardinality(Of(cat, "folder")) + Ahead(op, "folder")
    BY <1>4, <1>9, <1>10, <1>12
  <2>2. \A k \in Of(cat, "folder") : CountsRight(cat, op, cat[k])
    BY <1>9, <1>13
  <2> QED
    BY <1>11, <2>1, <2>2 DEF Counting, cat
<1> QED
  BY <1>2, <1>11, <1>14 DEF Counts

\* At every step the valence of each folder, its folder count and the header's
\* counters differ from what is in the catalog by exactly what the operation
\* has still to enter.
THEOREM AlwaysCounts == Spec => []Counts
BY InitTyped, NextTyped, InitIds, NextIds, InitTree, NextTree,
   InitThreads, NextThreads, InitCounts, NextCounts, PTL DEF Spec

\* Valences, folder counts and the header's counters are exact whenever someone
\* can look at an image, for every volume: fsck_hfs would find no "Invalid
\* directory item count".
THEOREM CountsAlwaysAgree == Spec => []CountsAgree
<1>1. ASSUME NEW i \in Images, IdsMatch(i), NEW o, o.todo \in Settled, Counting(i, o)
      PROVE  CountsMatch(i)
  <2>1. \A d : Lag(o, d) = 0 /\ SubLag(o, d) = 0
    BY <1>1, Lags DEF SubLag
  <2>2. \A z : Ahead(o, z) = 0
    BY <1>1, Lags
  <2>3. \A z : /\ Cardinality(Of(i.cat, z)) \in Nat /\ Cardinality(Children(i.cat, z)) \in Nat
               /\ Cardinality(Subfolders(i.cat, z)) \in Nat
    BY <1>1, NamedFinite, SetsFinite
  <2>4. /\ i.files = Cardinality(Of(i.cat, "file"))
        /\ i.folders + 1 = Cardinality(Of(i.cat, "folder"))
    BY <1>1, <2>2, <2>3 DEF Counting
  <2>5. ASSUME NEW k \in Of(i.cat, "folder")
        PROVE  /\ i.cat[k].val = Cardinality(Children(i.cat, i.cat[k].id))
               /\ i.cat[k].sub = Cardinality(Subfolders(i.cat, i.cat[k].id))
    <3>1. CountsRight(i.cat, o, i.cat[k])
      BY <1>1 DEF Counting
    <3> QED
      BY <2>1, <2>3, <3>1 DEF CountsRight
  <2> QED
    BY <2>4, <2>5 DEF CountsMatch, Of, Subfolders
<1>2. Typed /\ Ids /\ Counts => CountsAgree
  <2> SUFFICES ASSUME Typed, Ids, Counts, Idle \/ disk = img, ~img.torn
               PROVE  CountsMatch(img)
    BY DEF CountsAgree, Visible
  <2>1. Counting(img, NoOp)
    BY DEF Counts, Idle
  <2>2. NoOp.todo \in Settled
    BY DEF NoOp, Settled
  <2> QED
    BY <1>1, <2>1, <2>2 DEF Typed, Ids
<1> QED
  BY <1>2, AlwaysTyped, AlwaysIds, AlwaysCounts, PTL

\* The root folder's record is in the catalog, or held by a rename.
LEMMA RootStays ==
    ASSUME Typed, Tree, ~img.torn
    PROVE  \/ HasFolder(View(img.cat), Root)
           \/ op.todo \in {M6, R4, F3} /\ op.rec.kind = "folder"
<1> DEFINE v == View(img.cat)
           t == shown
<1>1. t \in Trees /\ WellFormed(t) /\ Progress(v, t, op)
  BY DEF Tree, Trees
<1> HIDE DEF v, t
<1>2. CASE op = NoOp
  BY <1>1, <1>2, Stages DEF NoOp, WellFormed, v
<1>3. CASE op \in Ops
  <2>1. op.key \in Keys /\ op.rec \in Recs
    BY <1>3 DEF Ops
  <2>2. \/ v = t
        \/ v = Without(t, op) /\ Removable(t, op)
        \/ v = With(t, op) /\ Insertable(t, op)
        \/ v = With(Without(t, op), op) /\ Movable(t, op)
        \/ op.todo \in Relinking /\ v = Without(t, op) /\ Movable(t, op)
    BY <1>1 DEF Progress, Replaceable
  <2>3. CASE op.todo \in Relinking /\ v = Without(t, op) /\ Movable(t, op)
    <3>1. op.todo \in {M6, R4, F3}
      BY <2>3 DEF Relinking
    <3>2. op.old \in Named(t) /\ t[op.old] = Entry(op.rec) /\ op.old \in Keys
      BY <2>3 DEF Movable, Named
    <3>3. PICK k \in Named(t) : t[k].kind = "folder" /\ t[k].id = Root
      BY <1>1 DEF WellFormed, HasFolder
    <3>4. CASE k = op.old
      BY <2>1, <3>1, <3>2, <3>3, <3>4, EntryFields
    <3>5. CASE k # op.old
      <4>1. k \in Named(v) /\ v[k] = t[k]
        BY <1>1, <2>3, <3>2, <3>5, Dropped
      <4> QED
        BY <3>3, <4>1 DEF HasFolder, v
    <3> QED
      BY <3>4, <3>5
  <2>4. WellFormed(v) \/ (op.todo \in Relinking /\ v = Without(t, op) /\ Movable(t, op))
    BY <1>1, <2>1, <2>2, RemovedWell, CreatedWell, MovedWell
  <2> QED
    BY <2>3, <2>4 DEF WellFormed, v
<1> QED
  BY <1>2, <1>3 DEF Typed

\* The catalog has a file, or folders, for what the counters are behind.
LEMMA CountersNatural ==
    ASSUME Typed, Ids, Tree, Counts, ~img.torn
    PROVE  {img.files, img.folders} \subseteq Nat
<1> DEFINE cat == img.cat
           f == Cardinality(Of(cat, "file"))
           g == Cardinality(Of(cat, "folder"))
           v == View(cat)
<1>1. img \in Images /\ op \in Ops \cup {NoOp} /\ img.files \in Int /\ img.folders \in Int
  BY DEF Typed, Images
<1>2. IsFiniteSet(Of(cat, "file")) /\ IsFiniteSet(Of(cat, "folder")) /\ f \in Nat /\ g \in Nat
  BY <1>1, NamedFinite, SetsFinite DEF Ids
<1>3. img.files = f + Ahead(op, "file") /\ img.folders + 1 = g + Ahead(op, "folder")
  BY DEF Counts, Counting
<1>4. /\ Named(v) = Named(cat)
      /\ \A k \in Keys : v[k].kind = cat[k].kind /\ v[k].id = cat[k].id
  BY <1>1, ViewIsTree DEF Images
<1>5. CASE op.todo \in {C5, C4}
  <2>1. op \in Ops
    <3>1. <<>> \notin {C5, C4}
      BY CountLists DEF Settled
    <3> QED
      BY <1>1, <1>5, <3>1 DEF NoOp
  <2>2. op.key \in Of(cat, op.rec.kind) /\ cat[op.key].id = op.rec.id
    BY <1>5, <2>1, PutKey DEF Of
  <2>3. op.rec.id # Root
    <3>1. Progress(v, shown, op)
      BY DEF Tree
    <3>2. Insertable(shown, op)
      BY <1>5, <3>1, Stages
    <3> QED
      BY <3>2 DEF Insertable
  <2>4. PICK k \in Named(v) : v[k].kind = "folder" /\ v[k].id = Root
    <3>1. op.todo \notin {M6, R4, F3}
      BY <1>5, CountLists
    <3> QED
      BY <3>1, RootStays DEF HasFolder
  <2> HIDE DEF v, cat
  <2>5. k \in Of(cat, "folder") /\ k # op.key
    BY <1>4, <2>2, <2>3, <2>4 DEF Of, Named
  <2>6. g # 0
    BY <1>2, <2>5, FS_EmptySet
  <2>7. Ahead(op, "file") = 0 - One(op.rec.kind = "file")
        /\ Ahead(op, "folder") = 0 - One(op.rec.kind = "folder")
    BY <1>5, Lags
  <2>8. CASE op.rec.kind = "file"
    <3>1. f # 0
      BY <1>2, <2>2, <2>8, FS_EmptySet
    <3>2. Ahead(op, "file") = -1 /\ Ahead(op, "folder") = 0
      BY <2>7, <2>8 DEF One
    <3> HIDE DEF f, g
    <3> QED
      BY <1>1, <1>2, <1>3, <2>6, <3>1, <3>2
  <2>9. CASE op.rec.kind = "folder"
    <3> DEFINE h == Cardinality(Of(cat, "folder") \ {op.key})
    <3>1. h = g - 1
      BY <1>2, <2>2, <2>9, Sizes
    <3>2. h # 0
      <4>1. IsFiniteSet(Of(cat, "folder") \ {op.key}) /\ k \in Of(cat, "folder") \ {op.key}
        BY <1>2, <2>5, FS_RemoveElement
      <4> QED
        BY <4>1, FS_EmptySet
    <3>3. Ahead(op, "file") = 0 /\ Ahead(op, "folder") = -1
      BY <2>7, <2>9 DEF One
    <3> HIDE DEF f, g, h
    <3> QED
      BY <1>1, <1>2, <1>3, <2>6, <3>1, <3>2, <3>3
  <2>10. CASE op.rec.kind \notin {"file", "folder"}
    <3>1. Ahead(op, "file") = 0 /\ Ahead(op, "folder") = 0
      BY <2>7, <2>10 DEF One
    <3> HIDE DEF f, g
    <3> QED
      BY <1>1, <1>2, <1>3, <2>6, <3>1
  <2> QED
    BY <2>8, <2>9, <2>10
<1>6. CASE op.todo \notin {C5, C4}
  <2>1. Ahead(op, "file") \in {0, 1} /\ Ahead(op, "folder") \in {0, 1}
    BY <1>6 DEF Ahead, One, Uncounted
  <2>2. g # 0 \/ Ahead(op, "folder") = 1
    <3>1. CASE HasFolder(v, Root)
      <4>1. PICK k \in Named(v) : v[k].kind = "folder"
        BY <3>1 DEF HasFolder
      <4> HIDE DEF v
      <4>2. k \in Of(cat, "folder")
        BY <1>4, <4>1 DEF Of, Named
      <4> QED
        BY <1>2, <4>2, FS_EmptySet
    <3>2. CASE op.todo \in {M6, R4, F3} /\ op.rec.kind = "folder"
      BY <3>2, Lags DEF One
    <3> QED
      BY <3>1, <3>2, RootStays
  <2> HIDE DEF f, g
  <2> QED
    BY <1>1, <1>2, <1>3, <2>1, <2>2
<1> QED
  BY <1>5, <1>6

\* The fields of an image range over keys, ids and blocks, and no counter is
\* ever below zero, at every step, until an operation fails half way.
THEOREM TypeCorrect == Spec => [](~img.torn => TypeOK)
<1>1. ASSUME Typed, Ids, Tree, Counts, ~img.torn
      PROVE  TypeOK
  <2>1. {img.files, img.folders} \subseteq Nat
    BY <1>1, CountersNatural
  <2>2. Inside \subseteq Extents
    BY DEF Inside
  <2>3. <<>> \in Contents
    BY DataAreContents
  <2>4. ASSUME NEW k \in Keys
        PROVE  img.cat[k].ext \subseteq Extents /\ img.cat[k].holds \in Contents
    <3>1. img.cat[k] \in Recs
      BY <1>1 DEF Typed, Images
    <3> QED
      BY <2>2, <2>3, <3>1 DEF Recs, FileRecs, FolderRecs, NoRec
  <2>5. /\ DOMAIN img.cat = Keys
        /\ img.thr \in [Dirs -> Keys \cup {NoKey}]
        /\ img.ovf \in [Dirs -> SUBSET Inside]
        /\ img.fork \in SUBSET Blocks
        /\ img.bitmap \in SUBSET Blocks
        /\ img.free \in 0 .. TotalBlocks
        /\ img.next \in FirstUser .. (LastCNID + 1)
        /\ img.torn \in BOOLEAN
        /\ img.blk \in [Blocks -> Values \cup {Zero}]
    BY <1>1 DEF Typed, Images, Stored
  <2>6. img.ovf \in [Dirs -> SUBSET Extents]
    BY <2>2, <2>5
  <2>7. /\ op.key \in Keys \cup {NoKey} /\ op.old \in Keys \cup {NoKey}
        /\ op.spill \in SUBSET Extents
    BY <1>1, <2>2 DEF Typed, Ops, NoOp
  <2> QED
    BY <1>1, <2>1, <2>4, <2>5, <2>6, <2>7 DEF TypeOK, Typed
<1>2. Typed /\ Ids /\ Tree /\ Counts => (~img.torn => TypeOK)
  BY <1>1
<1> QED
  BY <1>2, AlwaysTyped, AlwaysIds, AlwaysTree, AlwaysCounts, PTL
=============================================================================
