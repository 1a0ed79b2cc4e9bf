------------------------------- MODULE RBTree -------------------------------
(***************************************************************************)
(* src/rbtree.c: a red-black tree of integers.  Each iteration of the two  *)
(* fixup loops is a step, so what holds of the tree between them can be    *)
(* stated.  The code's mirrored halves are one definition here, with the   *)
(* side as a parameter.  The tree holds one node of a key at most, so there   *)
(* is one for each key a client may insert.                                *)
(*                                                                         *)
(* A definition named X_Y is a slip one could make in X; the specification *)
(* does not use it.                                                        *)
(***************************************************************************)
EXTENDS BinaryTrees

CONSTANTS Nodes, None,
          Key        \* of each node, in its storage

ASSUME NodesAssumption == IsFiniteSet(Nodes) /\ None \notin Nodes
ASSUME KeyAssumption == Key \in [Nodes -> Int] /\ IsInjective(Key)

VARIABLES tree,   \* root, and of each node kid[left], kid[right], parent, color
          job,    \* the fixup loop's node and parent, and the node to free
          call    \* the last call: its name, what it is given and returns

vars == <<tree, job, call>>

Call(op, arg, ret) == [op |-> op, arg |-> arg, ret |-> ret]

Other(s) == IF s = "left" THEN "right" ELSE "left"
Links == Nodes \cup {None}
Leaf == [s \in Side |-> None]
NoJob == [kind |-> "none", node |-> None, parent |-> None, victim |-> None]

\* create_rbtree; a node that is not allocated has the color "free".
Init == /\ tree = [root |-> None,
                   kid |-> [n \in Nodes |-> Leaf],
                   parent |-> [n \in Nodes |-> None],
                   color |-> [n \in Nodes |-> "free"]]
        /\ job = NoJob
        /\ call = Call("create", None, "ok")

Red(n) == n # None /\ tree.color[n] = "red"
Black(n) == ~Red(n)
-----------------------------------------------------------------------------
(* Reading a tree. *)

\* The loop of searches and inserts from n goes on to the side of a smaller or a
\* larger key.
Toward(k, n) == IF Key[k] < Key[n] THEN "left" ELSE "right"

search(k) ==
    LET found == Loop([n \in Links |-> IF n = None \/ n = k THEN n ELSE tree.kid[n][Toward(k, n)]],
                      tree.root, Cardinality(Nodes))
    IN  IF found = k THEN k ELSE None

\* minimum and maximum of the subtree n.
Extreme_OneStep(n, s) ==
    IF n = None THEN None ELSE IF tree.kid[n][s] = None THEN n ELSE tree.kid[n][s]
Extreme(n, s) ==
    Loop([m \in Links |-> IF m = None \/ tree.kid[m][s] = None THEN m ELSE tree.kid[m][s]],
         n, Cardinality(Nodes))

\* rbtree_successor (s is right) and rbtree_predecessor (s is left): down on that
\* side, or up from what is on that side.
Climb(n, s) ==
    Loop([m \in Nodes |-> IF tree.parent[m] # None /\ tree.kid[tree.parent[m]][s] = m
                          THEN tree.parent[m] ELSE m],
         n, Cardinality(Nodes))
Neighbour(n, s) == IF tree.kid[n][s] # None THEN Extreme(tree.kid[n][s], Other(s))
                   ELSE tree.parent[Climb(n, s)]

inorder == InorderFrom(tree.kid, None, tree.root, Cardinality(Nodes))
-----------------------------------------------------------------------------
(* Changing a tree t. *)
SideOf(t, p, n) == IF t.kid[p]["left"] = n THEN "left" ELSE "right"
Paint(t, n, c) == [t EXCEPT !.color[n] = c]
SetParent(t, n, p) == IF n = None THEN t ELSE [t EXCEPT !.parent[n] = p]

\* What pointed at n, below p or as the root, points at m.
Replace(t, p, n, m) == IF p = None THEN [t EXCEPT !.root = m]
                       ELSE [t EXCEPT !.kid[p][SideOf(t, p, n)] = m]

\* rbtree_left_rotate (s is left) and rbtree_right_rotate: x goes down on side
\* s and its child y of the other side takes its place.
Rotate(t, x, s) ==
    LET y == t.kid[x][Other(s)]
        inner == t.kid[y][s]
        t1 == SetParent([t EXCEPT !.kid[x][Other(s)] = inner], inner, x)
        t2 == Replace([t1 EXCEPT !.parent[y] = t.parent[x]], t.parent[x], x, y)
    IN  SetParent([t2 EXCEPT !.kid[y][s] = x], x, y)

Freed(t, n) == [t EXCEPT !.kid[n] = Leaf, !.parent[n] = None,
                         !.color[n] = "free"]

Idle == job.kind = "none"

\* Below which node the loop of rbtree_insert leaves a new key.
LeafFor(k) ==
    Loop([n \in Links |-> IF n = None \/ tree.kid[n][Toward(k, n)] = None THEN n
                          ELSE tree.kid[n][Toward(k, n)]],
         tree.root, Cardinality(Nodes))

Attach(k) ==
    /\ LET y == LeafFor(k)
           t1 == [tree EXCEPT !.parent[k] = y, !.color[k] = "red"]
       IN  tree' = IF y = None THEN [t1 EXCEPT !.root = k]
                   ELSE [t1 EXCEPT !.kid[y][Toward(k, y)] = k]
    /\ job' = [NoJob EXCEPT !.kind = "insert", !.node = k]
    /\ call' = Call("insert", <<k, TRUE>>, "ok")

InsertFails(k, room) == call' = Call("insert", <<k, room>>, "err") /\ UNCHANGED <<tree, job>>

\* room: there is memory for a node.
insert_rbtree(k, room) ==
    /\ Idle
    /\ \/ search(k) = None /\ room /\ Attach(k)
       \/ (search(k) # None \/ ~room) /\ InsertFails(k, room)

\* rbtree_insert_fixup: node and its parent may both be red.
Parent == tree.parent[job.node]
Grandparent == tree.parent[Parent]
Uncle == tree.kid[Grandparent][Other(SideOf(tree, Grandparent, Parent))]
InsertLoops == job.kind = "insert" /\ Red(Parent)

UncleIsRed ==
    /\ InsertLoops /\ Red(Uncle)
    /\ tree' = [tree EXCEPT !.color[Uncle] = "black", !.color[Parent] = "black",
                            !.color[Grandparent] = "red"]
    /\ job' = [job EXCEPT !.node = Grandparent]
    /\ UNCHANGED call

\* node is an inner grandchild: it and its parent are turned around first.
Inner(s) == tree.kid[Parent][Other(s)] = job.node

UncleIsBlack ==
    /\ InsertLoops /\ ~Red(Uncle)
    /\ LET s == SideOf(tree, Grandparent, Parent)
           t1 == IF Inner(s) THEN Rotate(tree, Parent, s) ELSE tree
           p == IF Inner(s) THEN job.node ELSE Parent
       IN  /\ tree' = Rotate(Paint(Paint(t1, p, "black"), Grandparent, "red"),
                             Grandparent, Other(s))
           /\ job' = [job EXCEPT !.node = IF Inner(s) THEN Parent ELSE @]
    /\ UNCHANGED call

InsertDone ==
    /\ job.kind = "insert" /\ ~Red(Parent)
    /\ tree' = Paint(tree, tree.root, "black")
    /\ job' = NoJob
    /\ UNCHANGED call
-----------------------------------------------------------------------------
\* The fixup runs when a black node was taken from above child.
NeedsFixup(c) == c = "black"

Spliced(t, c, child, p, n) ==
    IF NeedsFixup(c)
    THEN /\ tree' = t
         /\ job' = [kind |-> "delete", node |-> child, parent |-> p, victim |-> n]
    ELSE tree' = Freed(t, n) /\ UNCHANGED job

\* n has two children: its successor takes its place and color.
DeleteInner(n) ==
    LET r == Extreme(tree.kid[n]["right"], "left")
        child == tree.kid[r]["right"]
        p == tree.parent[r]
        t1 == Replace(tree, tree.parent[n], n, r)
        t2 == IF p = n THEN t1
              ELSE [SetParent(t1, child, p) EXCEPT
                       !.kid[p]["left"] = child,
                       !.kid[r]["right"] = tree.kid[n]["right"],
                       !.parent[tree.kid[n]["right"]] = r]
        t3 == [t2 EXCEPT !.parent[r] = tree.parent[n], !.color[r] = tree.color[n],
                         !.kid[r]["left"] = tree.kid[n]["left"],
                         !.parent[tree.kid[n]["left"]] = r]
    IN  Spliced(t3, tree.color[r], child, IF p = n THEN r ELSE p, n)

DeleteOuter(n) ==
    LET child == tree.kid[n][IF tree.kid[n]["left"] # None THEN "left" ELSE "right"]
        p == tree.parent[n]
    IN  Spliced(Replace(SetParent(tree, child, p), p, n, child), tree.color[n], child, p, n)

delete_rbtree(k) ==
    /\ Idle
    /\ \/ search(k) = None /\ UNCHANGED <<tree, job>>
       \/ /\ search(k) # None
          /\ IF \A s \in Side : tree.kid[k][s] # None THEN DeleteInner(k) ELSE DeleteOuter(k)
    /\ call' = Call("remove", Key[k], "ok")

\* rbtree_delete_fixup: the paths through node are one black short.
DeleteLoops == job.kind = "delete" /\ Black(job.node) /\ job.node # tree.root
Near == SideOf(tree, job.parent, job.node)
Sibling == tree.kid[job.parent][Other(Near)]

\* Case 1 goes on to one of the others with a black sibling.
SiblingIsRed ==
    /\ DeleteLoops /\ Red(Sibling)
    /\ tree' = Rotate(Paint(Paint(tree, Sibling, "black"), job.parent, "red"),
                      job.parent, Near)
    /\ UNCHANGED <<job, call>>

Nephew(s) == IF Sibling = None THEN None ELSE tree.kid[Sibling][s]

Above_Same == job
Above == [job EXCEPT !.node = job.parent, !.parent = tree.parent[job.parent]]

NephewsAreBlack ==
    /\ DeleteLoops /\ Black(Sibling) /\ \A s \in Side : Black(Nephew(s))
    /\ tree' = Paint(tree, Sibling, "red")
    /\ job' = Above
    /\ UNCHANGED call

\* Case 3 turns the sibling so that case 4 finds a red nephew on the far side.
FarIsBlack_Never(far) == FALSE
FarIsBlack(far) == Black(Nephew(far))

NephewIsRed ==
    /\ DeleteLoops /\ Black(Sibling) /\ \E s \in Side : Red(Nephew(s))
    /\ LET far == Other(Near)
           t1 == IF FarIsBlack(far)
                 THEN Rotate(Paint(Paint(tree, Nephew(Near), "black"), Sibling, "red"),
                             Sibling, far)
                 ELSE tree
           sibling == t1.kid[job.parent][far]
           t2 == Paint(Paint(t1, sibling, t1.color[job.parent]), job.parent, "black")
           t3 == IF t2.kid[sibling][far] = None THEN t2
                 ELSE Paint(t2, t2.kid[sibling][far], "black")
           t4 == Rotate(t3, job.parent, Near)
       IN  tree' = t4 /\ job' = [job EXCEPT !.node = t4.root]
    /\ UNCHANGED call

DeleteDone ==
    /\ job.kind = "delete" /\ ~DeleteLoops
    /\ tree' = Freed(IF job.node = None THEN tree ELSE Paint(tree, job.node, "black"),
                     job.victim)
    /\ job' = NoJob
    /\ UNCHANGED call
-----------------------------------------------------------------------------
\* rbtree_search and iterative_rbtree_search.
rbtree_search(k) == Idle /\ call' = Call("search", Key[k], search(k)) /\ UNCHANGED <<tree, job>>

\* destroy_rbtree, and create_rbtree for the next tree.
destroy_rbtree ==
    /\ Idle
    /\ LET gone == Range(inorder)
       IN  tree' = [root |-> None,
                    kid |-> [n \in Nodes |-> IF n \in gone THEN Leaf ELSE tree.kid[n]],
                    parent |-> [n \in Nodes |-> IF n \in gone THEN None ELSE tree.parent[n]],
                    color |-> [n \in Nodes |-> IF n \in gone THEN "free" ELSE tree.color[n]]]
    /\ call' = Call("clear", None, "ok")
    /\ UNCHANGED job

Fixup == \/ UncleIsRed \/ UncleIsBlack \/ InsertDone
         \/ SiblingIsRed \/ NephewsAreBlack \/ NephewIsRed \/ DeleteDone
Next == \/ \E k \in Nodes, room \in BOOLEAN : insert_rbtree(k, room)
        \/ \E k \in Nodes : delete_rbtree(k) \/ rbtree_search(k)
        \/ destroy_rbtree
        \/ Fixup

\* A call that has begun runs on.
Spec == Init /\ [][Next]_vars /\ WF_vars(Fixup)
-----------------------------------------------------------------------------
Allocated == {n \in Nodes : tree.color[n] # "free"} \ {job.victim}

TypeOK ==
    /\ tree \in [root : Links, kid : [Nodes -> [Side -> Links]], parent : [Nodes -> Links],
                 color : [Nodes -> {"free", "red", "black"}]]
    /\ tree.root \in Allocated \cup {None}
    /\ job \in [kind : {"none", "insert", "delete"}, node : Links, parent : Links,
                victim : Links]
    /\ call.ret \in {"ok", "err"} \cup Links

\* The black nodes on the paths from the root to an absent child, where the
\* paths through the node of a delete's fixup count one more.
BlackCounts ==
    LET extra(n, s) == IF /\ job.kind = "delete" /\ job.node # tree.root
                          /\ n = job.parent /\ s = SideOf(tree, n, job.node)
                       THEN 1 ELSE 0
        one(n) == IF Black(n) THEN 1 ELSE 0
        of[d \in 0 .. Cardinality(Nodes)] ==
            [n \in Links |->
                IF n = None \/ d = 0 THEN {0}
                ELSE UNION {{one(n) + extra(n, s) + e : e \in of[d - 1][tree.kid[n][s]]} : s \in Side}]
    IN  of[Cardinality(Nodes)][tree.root]

\* Minimum, maximum, successor and predecessor agree with the order, also from
\* the states between the rotations of a fixup.
NeighboursAgree ==
    LET s == inorder
    IN  s # <<>> =>
          /\ Extreme(tree.root, "left") = Head(s)
          /\ Extreme(tree.root, "right") = Last(s)
          /\ \A i \in 1 .. Len(s) :
                /\ Neighbour(s[i], "right") = IF i = Len(s) THEN None ELSE s[i + 1]
                /\ Neighbour(s[i], "left") = IF i = 1 THEN None ELSE s[i - 1]

\* A search tree: the nodes hang in order, each once, below the node its parent
\* field names, none is leaked or freed early, and no pointer is to a freed one.
WellFormed ==
    /\ TypeOK
    /\ LET s == inorder
       IN  /\ \A i \in 2 .. Len(s) : Key[s[i - 1]] < Key[s[i]]
           /\ Range(s) = Allocated
    /\ tree.root # None => tree.parent[tree.root] = None
    /\ \A n \in Allocated, s \in Side :
          tree.kid[n][s] # None => tree.parent[tree.kid[n][s]] = n
    /\ NeighboursAgree

\* In every state, inside the loops too, the tree is a search tree and is
\* red-black but for the one node a loop is at: so it is red-black whenever a
\* call returns.
RedBlackButOne ==
    /\ WellFormed
    /\ Cardinality(BlackCounts) = 1
    /\ \A n \in Allocated \ {job.node} :
          Red(n) => /\ n # tree.root
                    /\ Red(tree.parent[n]) => job.kind = "delete" /\ tree.parent[n] = job.node

\* Both loops end: the fixup of every insert and delete comes to the return.
FixupEnds == ~Idle ~> Idle

\* The calls are those of a set of integers: each acts on the key it names and on no
\* other, and answers for it.
Set == INSTANCE KeyedSetSpec WITH
    held <- {n \in Nodes : search(n) # None},
    Unique <- TRUE, RemoveTells <- FALSE
ImplementsSet == Set!Spec
=============================================================================
