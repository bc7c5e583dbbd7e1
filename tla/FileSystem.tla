----------------------------- MODULE FileSystem -----------------------------
(***************************************************************************)
(* What a writable volume promises its callers, without blocks, records,   *)
(* counters or transactions: a tree of named entries that each completed   *)
(* operation changes in one place, and a stable copy that a restart goes   *)
(* back to.  WriteFile over an existing file and Truncate are a Remove and *)
(* a Create: the code commits the first before it starts the second.       *)
(***************************************************************************)
EXTENDS Integers

CONSTANTS Keys,      \* pairs of a folder's id and a name
          Ids,       \* catalog ids a user entry may have
          Contents,  \* what a file may hold
          NoEntry,   \* the value of a key that names nothing
          First      \* the tree of a fresh volume

VARIABLES tree,      \* what the operations see
          stable     \* what a restart finds

fsvars == <<tree, stable>>

Entries == [kind : {"file"}, id : Ids, holds : Contents]
             \cup [kind : {"folder"}, id : Ids, holds : {<<>>}]

Named(t) == {k \in Keys : t[k] # NoEntry}

IsFolder(t, id) == \E k \in Named(t) : t[k].kind = "folder" /\ t[k].id = id

HasChildren(t, id) == \E k \in Named(t) : k[1] = id

Init ==
    /\ tree = First
    /\ stable = First

Create(k) ==
    /\ tree[k] = NoEntry
    /\ IsFolder(tree, k[1])
    /\ UNCHANGED stable
    /\ tree'[k] \in Entries
    /\ \A l \in Named(tree) : tree[l].id # tree'[k].id
    /\ tree' = [tree EXCEPT ![k] = tree'[k]]

Remove(k) ==
    /\ tree[k] # NoEntry
    /\ ~HasChildren(tree, tree[k].id)
    /\ tree' = [tree EXCEPT ![k] = NoEntry]
    /\ UNCHANGED stable

\* Rename and SetLabel: the entry keeps its id and what it holds.
Move(k, l) ==
    /\ tree[k] # NoEntry
    /\ tree[l] = NoEntry
    /\ tree' = [tree EXCEPT ![k] = NoEntry, ![l] = tree[k]]
    /\ UNCHANGED stable

Sync == stable' = tree /\ UNCHANGED tree

Restart == tree' = stable /\ UNCHANGED stable

Next ==
    \/ Sync
    \/ Restart
    \/ \E k \in Keys : Create(k) \/ Remove(k) \/ \E l \in Keys : Move(k, l)

Spec == Init /\ [][Next]_fsvars
=============================================================================
