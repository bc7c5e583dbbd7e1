---------------------------- MODULE CatalogKeys -----------------------------
(***************************************************************************)
(* The names of one folder.  A catalog tree has two notions of "the same   *)
(* name".  The order of its keys folds UTF-16 units with a table of its    *)
(* own (foldU16); whether a record is the one looked for is decided by     *)
(* nameEqual, with the folding of the standard library.  A search descends *)
(* by the first and then scans by the second, so it works only while the   *)
(* two agree.                                                              *)
(*                                                                         *)
(* The folder's records are a sequence in leaf order.  Where the leaves    *)
(* begin depends on the lengths of all the records around them, so every   *)
(* operation meets any division that its descent is consistent with.       *)
(***************************************************************************)
EXTENDS Integers, SequencesExt

CONSTANTS
    Names,       \* the names callers use, sequences of UTF-16 units
    SameLetter,  \* external: the letter of a unit for strings.EqualFold
    MaxNames     \* bound: entries of the folder

Units == 0 .. 65535

ASSUME CatalogKeysAssumption ==
    /\ \A n \in Names : n \in Seq(DOMAIN SameLetter) /\ n # <<>>
    /\ DOMAIN SameLetter \subseteq Units
    /\ MaxNames \in Nat

-----------------------------------------------------------------------------
(* Comparing names. *)

\* Defect: the Latin-1 capitals end one too early.
BugFoldU16NoThorn(c) ==
    CASE c \in 65 .. 90                     -> c + 32
      [] c \in \hC0 .. \hDD /\ c # \hD7     -> c + 32
      [] c \in \h100 .. \h17E /\ c % 2 = 0  -> c + 1
      [] OTHER                              -> c

\* 0 is a unit that comparison skips.
foldU16(c) ==
    CASE c \in 65 .. 90                     -> c + 32
      [] c \in \hC0 .. \hDE /\ c # \hD7     -> c + 32
      [] c \in \h100 .. \h17E /\ c % 2 = 0  -> c + 1
      [] OTHER                              -> c

\* The positions that comparison does not skip.
Kept(s) == {i \in DOMAIN s : foldU16(s[i]) # 0}

\* The units that nextFolded returns, one call after the other.
Folded(s) ==
    LET At(j) == CHOOSE i \in Kept(s) : Cardinality({k \in Kept(s) : k < i}) = j - 1
    IN  [j \in 1 .. Cardinality(Kept(s)) |-> foldU16(s[At(j)])]

Sign(n) == IF n < 0 THEN -1 ELSE IF n > 0 THEN 1 ELSE 0

compareU16(a, b) ==
    LET differ == {i \in DOMAIN a \cap DOMAIN b : a[i] # b[i]}
    IN  IF differ = {} THEN Sign(Len(a) - Len(b))
        ELSE Sign(a[Min(differ)] - b[Min(differ)])

fastUnicodeCompare(a, b) == compareU16(Folded(a), Folded(b))

-----------------------------------------------------------------------------
VARIABLES
    binary,  \* the tree was made with binary keys (HFSX)
    dir      \* the names of the folder's records, in leaf order

keyVars == <<binary, dir>>

compareCatalogKey(a, b) ==
    IF binary THEN compareU16(a, b) ELSE fastUnicodeCompare(a, b)

nameEqual(a, b) ==
    IF binary THEN a = b
    ELSE /\ Len(a) = Len(b)
         /\ \A i \in DOMAIN a : SameLetter[a[i]] = SameLetter[b[i]]

\* The leaves that a descent for a name may end in, as the positions of the
\* folder's records they hold: the last leaf whose first key is not above the
\* name, or the one in which the folder begins.
findLeaf(d, n) ==
    {l \in [first : 1 .. (Len(d) + 1), last : 0 .. Len(d)] :
        /\ \/ l.first = 1
           \/ l.first <= l.last /\ compareCatalogKey(d[l.first], n) <= 0
        /\ l.last = Len(d) \/ compareCatalogKey(d[l.last + 1], n) > 0}

FirstOf(S) == IF S = {} THEN 0 ELSE Min(S)

\* The reader's scan goes on over the leaves that follow.
lookup(d, n, l) ==
    FirstOf({i \in l.first .. Len(d) : nameEqual(d[i], n)})

\* The writer's stays in the leaf.
deleteByKey(d, n, l) ==
    LET i == FirstOf({j \in l.first .. l.last : nameEqual(d[j], n)})
    IN  IF i = 0 THEN d ELSE RemoveAt(d, i)

insertSorted(d, n, l) ==
    LET below == {i \in l.first .. l.last : compareCatalogKey(d[i], n) < 0}
    IN  InsertAt(d, l.first + Cardinality(below), n)

-----------------------------------------------------------------------------
Init == binary \in BOOLEAN /\ dir = <<>>

\* The name is taken as soon as the scan finds an equal one.
Create(n) ==
    /\ Len(dir) < MaxNames
    /\ \E l \in findLeaf(dir, n) :
          /\ lookup(dir, n, l) = 0
          /\ dir' = insertSorted(dir, n, l)
    /\ UNCHANGED binary

Delete(n) ==
    /\ \E l \in findLeaf(dir, n) :
          /\ lookup(dir, n, l) # 0
          /\ dir' = deleteByKey(dir, n, l)
    /\ UNCHANGED binary

\* SetFinderInfo: the record comes back under the caller's spelling.
PutBack(n) ==
    /\ \E l \in findLeaf(dir, n) :
          /\ lookup(dir, n, l) # 0
          /\ LET d == deleteByKey(dir, n, l)
             IN  \E k \in findLeaf(d, n) : dir' = insertSorted(d, n, k)
    /\ UNCHANGED binary

Rename(o, n) ==
    /\ \E l \in findLeaf(dir, n) : lookup(dir, n, l) = 0
    /\ \E l \in findLeaf(dir, o) :
          /\ lookup(dir, o, l) # 0
          /\ LET d == deleteByKey(dir, o, l)
             IN  \E k \in findLeaf(d, n) : dir' = insertSorted(d, n, k)
    /\ UNCHANGED binary

Next ==
    \/ \E n \in Names : Create(n) \/ Delete(n) \/ PutBack(n)
    \/ \E i \in DOMAIN dir, n \in Names : Rename(dir[i], n)

Spec == Init /\ [][Next]_keyVars

-----------------------------------------------------------------------------
\* catalog_search.go: lookup "finds the leaf record matching key exactly
\* (parentID + name under the tree's case rules)".  Every entry is found under
\* each spelling that nameEqual takes for its own, wherever the leaves begin,
\* no other entry answers to it, and deleteRecord, which searches one leaf
\* only, finds the same record.
FoundAgain ==
    \A i \in DOMAIN dir, n \in Names :
        nameEqual(dir[i], n) =>
            \A l \in findLeaf(dir, n) : lookup(dir, n, l) = i /\ i <= l.last
=============================================================================
