------------------------------- MODULE MCSets -------------------------------
(***************************************************************************)
(* A small instance of the two sets with equal keys, Tree and HashTable,   *)
(* for TLC.  They share nothing: the client uses one of them.              *)
(***************************************************************************)
EXTENDS HashTable, TLC

CONSTANTS i1, i2, i3, i4, i5, c1, c2, c3, c4, c5, h1, h2, h3, h4,
          Items, Cells, TreeKey              \* of Tree

VARIABLES use,                               \* the container the client uses
          root, item, kid, treeCall            \* of Tree

treeVars == <<root, item, kid, treeCall>>

\* h1 and h2 compare equal; as the table grows along 2, 3, 5 key 1 moves ahead of
\* the loop, keys 2 and 3 behind it.
MCNodes == {h1, h2, h3, h4}
MCKey == h1 :> 1 @@ h2 :> 1 @@ h3 :> 2 @@ h4 :> 3
MCHash == 1 :> 4 @@ 2 :> 9 @@ 3 :> 11
MCPrimes == <<2, 3, 5>>

\* Keys 1 and 2 occur twice in the tree.
MCItems == {i1, i2, i3, i4, i5}
MCCells == {c1, c2, c3, c4, c5}
MCTreeKey == i1 :> 1 @@ i2 :> 1 @@ i3 :> 2 @@ i4 :> 2 @@ i5 :> 3

T == INSTANCE Tree WITH Key <- TreeKey, call <- treeCall

\* No step reads call or treeCall.
MCView == <<tablelen, nodecount, loadlimit, primeindex, table, lost, refused, seen,
            root, item, kid, use>>

ASSUME ItemsAssumption == T!TreeAssumption

\* Calls on one of the two, the other being left as it was created.
MCInit == Init /\ T!Init /\ use \in {"tree", "hashtable"}
OnTree == use = "tree" /\ UNCHANGED <<vars, use>>
OnTable == use = "hashtable" /\ UNCHANGED <<treeVars, use>>

MCNext ==
    \/ \E i \in Items : T!insert(i) /\ OnTree
    \/ \E i \in Items : T!delete(TreeKey[i]) /\ OnTree
    \/ \E i \in Items : T!search_tree(TreeKey[i]) /\ OnTree
    \/ T!create_tree /\ OnTree
    \/ \E n \in Nodes : hashtable_insert(n) /\ OnTable
    \/ \E n \in Nodes : InsertInRoom(n) /\ OnTable
    \/ \E n \in Nodes : InsertExpanding(n) /\ OnTable
    \/ \E n \in Nodes : InsertRefused(n) /\ OnTable
    \/ \E n \in Nodes : hashtable_remove(Key[n]) /\ OnTable
    \/ \E n \in Nodes : hashtable_search(Key[n]) /\ OnTable
    \/ hashtable_traverse /\ OnTable
    \/ hashtable_init /\ OnTable
    \/ hashtable_free /\ OnTable
MCSpec == MCInit /\ [][MCNext]_<<vars, treeVars, use>>
-----------------------------------------------------------------------------
\* Tree: the keys are in order, each node allocated is in the tree once, and no
\* link is to a freed node.
TreeWellFormed == T!WellFormed

\* Tree: inserts, deletes and searches are those of a set of items.
TreeImplementsSet == T!ImplementsSet
=============================================================================
