-------------------------------- MODULE Tree --------------------------------
(***************************************************************************)
(* src/tree.c: an unbalanced search tree of integers with data, where a    *)
(* key may occur more than once.  One thread.  An item is a key with its   *)
(* data; deleting may copy an item from one node to another, so an item    *)
(* and the node that holds it are two things.  dup_node and insert2 do not *)
(* look whether malloc failed; here it does not.                           *)
(*                                                                         *)
(* A definition named X_Y is a slip one could make in X; the specification *)
(* does not use it.                                                        *)
(***************************************************************************)
EXTENDS BinaryTrees

CONSTANTS Items, None,
          Key,       \* the key of each item
          Cells      \* where a treenode may be

TreeAssumption == /\ Key \in [Items -> Int]
                  /\ IsFiniteSet(Cells)
                  /\ None \notin Items \cup Cells

VARIABLES root,
          item,      \* what each node holds, None where no node is allocated
          kid,       \* the left and right child of each node
          call       \* the last call: its name, what it was given and returned

vars == <<root, item, kid, call>>

Call(op, arg, ret) == [op |-> op, arg |-> arg, ret |-> ret]

Links == Cells \cup {None}
Leaf == [s \in Side |-> None]

Init == /\ root = None
        /\ item = [c \in Cells |-> None]
        /\ kid = [c \in Cells |-> Leaf]
        /\ call = Call("create", None, "ok")

KeyAt(c) == Key[item[c]]
\* Equal keys go right.
Toward(k, c) == IF k < KeyAt(c) THEN "left" ELSE "right"

\* The loop of search_tree and delete: the first node with the key.
Find(k) ==
    Loop([c \in Links |-> IF c = None THEN None
                          ELSE IF KeyAt(c) = k THEN c ELSE kid[c][Toward(k, c)]],
         root, Cardinality(Cells))

\* The loop of insert1: the node below which k belongs, None in an empty tree.
Back(k) ==
    Loop([c \in Links |-> IF c = None THEN None
                          ELSE IF kid[c][Toward(k, c)] = None THEN c
                          ELSE kid[c][Toward(k, c)]],
         root, Cardinality(Cells))

Inorder == InorderFrom(kid, None, root, Cardinality(Cells))
Held == {item[c] : c \in Range(Inorder)}

Parents(c) == {p \in Cells : item[p] # None /\ \E s \in Side : kid[p][s] = c}
-----------------------------------------------------------------------------
\* insert1 of a client's node with no children, and insert2, which allocates it:
\* anywhere, for no node's place tells it from another.
insert(i) ==
    /\ i \notin Held /\ \E c \in Cells : item[c] = None
    /\ LET c == CHOOSE c \in Cells : item[c] = None
           b == Back(Key[i])
       IN  /\ item' = [item EXCEPT ![c] = i]
           /\ IF b = None THEN root' = c /\ UNCHANGED kid
              ELSE kid' = [kid EXCEPT ![b][Toward(Key[i], b)] = c] /\ UNCHANGED root
    /\ call' = Call("insert", <<i, TRUE>>, "ok")

\* Point what points at c, its parent or the root, at m.
Relink_LeftOnly(c, m) ==
    IF c = root THEN root' = m /\ kid' = [kid EXCEPT ![c] = Leaf]
    ELSE /\ kid' = [p \in Cells |-> IF p = c THEN Leaf
                    ELSE IF p \in Parents(c) THEN [kid[p] EXCEPT !["left"] = m] ELSE kid[p]]
         /\ UNCHANGED root
Relink(c, m) ==
    IF c = root THEN root' = m /\ kid' = [kid EXCEPT ![c] = Leaf]
    ELSE /\ kid' = [p \in Cells |-> IF p = c THEN Leaf
                    ELSE [s \in Side |-> IF kid[p][s] = c THEN m ELSE kid[p][s]]]
         /\ UNCHANGED root

\* A node with one child at most goes.
DeleteOuter(c) ==
    /\ \E s \in Side : kid[c][s] = None
    /\ Relink(c, kid[c][IF kid[c]["right"] = None THEN "left" ELSE "right"])
    /\ item' = [item EXCEPT ![c] = None]

\* The rightmost node of the left subtree.
Predecessor(c) ==
    Loop([m \in Cells |-> IF kid[m]["right"] = None THEN m ELSE kid[m]["right"]],
         kid[c]["left"], Cardinality(Cells))

\* A node with two children takes over its predecessor's item, and that goes.
DeleteInner_CopiesNothing(c) ==
    /\ \A s \in Side : kid[c][s] # None
    /\ LET p == Predecessor(c)
       IN  /\ Relink(p, kid[p]["left"])
           /\ item' = [item EXCEPT ![p] = None]
DeleteInner(c) ==
    /\ \A s \in Side : kid[c][s] # None
    /\ LET p == Predecessor(c)
       IN  /\ Relink(p, kid[p]["left"])
           /\ item' = [item EXCEPT ![c] = item[p], ![p] = None]

delete(k) ==
    \/ /\ Find(k) = None
       /\ call' = Call("remove", k, "err")
       /\ UNCHANGED <<root, item, kid>>
    \/ /\ Find(k) # None
       /\ DeleteOuter(Find(k)) \/ DeleteInner(Find(k))
       /\ call' = Call("remove", k, "ok")

\* The client gets a copy of the item and frees it.
search_tree(k) ==
    /\ call' = Call("search", k, IF Find(k) = None THEN None ELSE item[Find(k)])
    /\ UNCHANGED <<root, item, kid>>

create_tree ==
    /\ root' = None
    /\ item' = [c \in Cells |-> IF c \in Range(Inorder) THEN None ELSE item[c]]
    /\ kid' = [c \in Cells |-> IF c \in Range(Inorder) THEN Leaf ELSE kid[c]]
    /\ call' = Call("clear", None, "ok")

Next == \/ \E i \in Items : insert(i) \/ delete(Key[i]) \/ search_tree(Key[i])
        \/ create_tree

Spec == Init /\ [][Next]_vars
-----------------------------------------------------------------------------
TypeOK == LET Live == {c \in Cells : item[c] # None} \cup {None} IN
    /\ root \in Live
    /\ item \in [Cells -> Items \cup {None}]
    /\ kid \in [Cells -> [Side -> Live]]
    /\ call.ret \in {"ok", "err", None} \cup Items

\* No pointer is to a freed node.  The keys are in order, though an item moved up
\* by a delete may leave its equals on its left where an insert puts them right;
\* each node allocated is in the tree once.
WellFormed ==
    /\ TypeOK
    /\ \A i \in 2 .. Len(Inorder) : KeyAt(Inorder[i - 1]) <= KeyAt(Inorder[i])
    /\ IsInjective(Inorder)
    /\ Range(Inorder) = {c \in Cells : item[c] # None}

\* Inserts, deletes and searches are those of a set of items: equal keys hide no item,
\* and what a delete takes out is an item with the key it was given, though another
\* item's node is freed.
Set == INSTANCE KeyedSetSpec WITH
    Nodes <- Items, held <- Held, Unique <- FALSE, RemoveTells <- TRUE
ImplementsSet == Set!Spec
=============================================================================
