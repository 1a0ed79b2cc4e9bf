-------------------------------- MODULE Mxml --------------------------------
(***************************************************************************)
(* src/mxml.c: the XML tree, its walks and the loader that fills it.  The  *)
(* library takes no lock: one thread calls it.  A call of a client is one  *)
(* step; mxmlLoadFile is one step per token of its file.  The file is any  *)
(* sequence of tokens, and ends, or has an error in it, anywhere.  What an *)
(* element is called, or that a node is a value, is fixed for each address *)
(* by the constant Name.                                                   *)
(*                                                                         *)
(* A definition named X_Y is a slip one could make in X; the specification *)
(* does not use it.                                                        *)
(***************************************************************************)
EXTENDS Integers, SequencesExt

CONSTANTS Nodes,       \* the addresses calloc returns
          None,        \* a null pointer
          Names,       \* the names of elements
          Name         \* of the element at each address, None of a value node

ASSUME NameAssumption == Name \in [Nodes -> Names \cup {None}]
ASSUME NoneAssumption == None \notin Nodes /\ None \notin Names

VARIABLES alive,                              \* the nodes not freed
          next, prev, parent, child, last,    \* the links in each node
          phase,       \* "idle", "loading", or "crashed" on a null pointer
          top, here,   \* mxmlLoadFile's top and its current parent
          answer       \* what a load returned, None after any other step

links == <<next, prev, parent, child, last>>
vars == <<alive, next, prev, parent, child, last, phase, top, here, answer>>

Nowhere == [n \in Nodes |-> None]
Init == /\ alive = {}
        /\ next = Nowhere /\ prev = Nowhere /\ parent = Nowhere
        /\ child = Nowhere /\ last = Nowhere
        /\ phase = "idle" /\ top = None /\ here = None /\ answer = None

\* The links as one value, so that one call's changes can follow another's.
Links == [next |-> next, prev |-> prev, parent |-> parent, child |-> child, last |-> last]
Become(t) == /\ next' = t.next /\ prev' = t.prev /\ parent' = t.parent
             /\ child' = t.child /\ last' = t.last
-----------------------------------------------------------------------------
\* Link f of n is set to x, and that of m to y if there is a node m.
Set(f, n, x, m, y) == [i \in Nodes |-> IF i = n THEN x ELSE IF i = m THEN y ELSE f[i]]

\* mxmlRemove.
Removed_KeepsLast(t, n) ==
    IF t.parent[n] = None THEN t
    ELSE LET p == t.prev[n]
             x == t.next[n]
             u == t.parent[n]
         IN  [next   |-> Set(t.next, n, None, p, x),
              prev   |-> Set(t.prev, n, None, x, p),
              parent |-> [t.parent EXCEPT ![n] = None],
              child  |-> IF p = None THEN [t.child EXCEPT ![u] = x] ELSE t.child,
              last   |-> t.last]
Removed(t, n) ==
    IF t.parent[n] = None THEN t
    ELSE LET p == t.prev[n]
             x == t.next[n]
             u == t.parent[n]
         IN  [next   |-> Set(t.next, n, None, p, x),
              prev   |-> Set(t.prev, n, None, x, p),
              parent |-> [t.parent EXCEPT ![n] = None],
              child  |-> IF p = None THEN [t.child EXCEPT ![u] = x] ELSE t.child,
              last   |-> IF x = None THEN [t.last EXCEPT ![u] = p] ELSE t.last]

\* n between the neighbours p and x, either of which may be missing.
Between(t, n, u, p, x) ==
    [next   |-> Set(t.next, n, x, p, n),
     prev   |-> Set(t.prev, n, p, x, n),
     parent |-> [t.parent EXCEPT ![n] = u],
     child  |-> IF p = None THEN [t.child EXCEPT ![u] = n] ELSE t.child,
     last   |-> IF x = None THEN [t.last EXCEPT ![u] = n] ELSE t.last]

\* mxmlAdd: a child that is not one of u's is as good as none.
Added(t, u, where, c, n) ==
    LET r     == Removed(t, n)
        beside == c # None /\ r.parent[c] = u
    IN  IF where = "before"
        THEN IF beside THEN Between(r, n, u, r.prev[c], c)
                       ELSE Between(r, n, u, None, r.child[u])
        ELSE IF beside THEN Between(r, n, u, c, r.next[c])
                       ELSE Between(r, n, u, r.last[u], None)

\* mxml_new and the functions that call it: calloc clears the links.
Created(n, u) == IF u = None THEN Links ELSE Added(Links, u, "after", None, n)

\* The nodes from n on; the count stops a list with a cycle.
LinkedList(n, f) ==
    LET From[m \in Nodes \cup {None}, k \in Nat] ==
            IF m = None \/ k = 0 THEN <<>> ELSE <<m>> \o From[f[m], k - 1]
    IN  From[n, Cardinality(Nodes) + 1]
Chain(n) == LinkedList(child[n], next)
Kids == [n \in Nodes |-> Chain(n)]

\* The ancestors of a node, from its root down to itself.
Path(n) == Reverse(LinkedList(n, parent))

\* n and all that is below it, which mxmlDelete frees.
Family(n) ==
    LET Below[k \in Nat] == IF k = 0 THEN {n}
                            ELSE UNION {{m} \cup Range(Chain(m)) : m \in Below[k - 1]}
    IN  Below[Cardinality(Nodes)]
-----------------------------------------------------------------------------
Idle == phase = "idle" /\ answer' = None /\ UNCHANGED <<phase, top, here>>

\* Clients give children to elements only.
Elements == {n \in alive : Name[n] # None}

MxmlNew(n, u) == /\ Idle
                 /\ n \notin alive
                 /\ alive' = alive \cup {n}
                 /\ Become(Created(n, u))

\* Clients put no node beside itself or below itself.
MxmlAdd(u, where, c, n) == /\ Idle
                           /\ c # n /\ u \notin Family(n)
                           /\ Become(Added(Links, u, where, c, n))
                           /\ UNCHANGED alive

MxmlRemove(n) == Idle /\ Become(Removed(Links, n)) /\ UNCHANGED alive

\* The children are removed one by one as they are freed, so that none of the
\* links of the family matters any more.
MxmlDelete(n) ==
    /\ Idle
    /\ alive' = alive \ Family(n)
    /\ LET t == Removed(Links, n)
           Cut(f) == [m \in Nodes |-> IF m \in Family(n) THEN None ELSE f[m]]
       IN  Become([next |-> Cut(t.next), prev |-> Cut(t.prev), parent |-> Cut(t.parent),
                   child |-> Cut(t.child), last |-> Cut(t.last)])
-----------------------------------------------------------------------------
\* mxmlLoadFile.
LoadBegin(u) == /\ phase = "idle"
                /\ phase' = "loading" /\ top' = u /\ here' = u
                /\ answer' = None
                /\ UNCHANGED <<alive, links>>

Reading == phase = "loading" /\ UNCHANGED <<phase, top>> /\ answer' = None

\* A value, a comment, an element closed where it is opened, or one whose
\* attributes are in error.
LoadLeaf(n) == /\ Reading
               /\ n \notin alive
               /\ alive' = alive \cup {n}
               /\ Become(Created(n, here))
               /\ UNCHANGED here

\* An open tag, a processing instruction or a declaration: the last two need a
\* close tag as well.
LoadOpen(n) == /\ Reading
               /\ n \notin alive /\ Name[n] # None
               /\ alive' = alive \cup {n}
               /\ Become(Created(n, here))
               /\ here' = n

\* A close tag with the name of the current parent; that may be top itself.
LoadClose_ToTop == Reading /\ here # None /\ here' = top /\ UNCHANGED <<alive, links>>
LoadClose == Reading /\ here # None /\ here' = parent[here] /\ UNCHANGED <<alive, links>>

\* The climb from here to the node below top; None if it runs past a root.
BelowTop ==
    LET B[n \in Nodes] == IF parent[n] = top THEN n
                          ELSE IF parent[n] = None THEN None ELSE B[parent[n]]
    IN  IF here = None THEN None ELSE B[here]

\* The end of the file, an error in it or a close tag with another name.
LoadEnd == /\ phase = "loading"
           /\ here # None => BelowTop # None
           /\ answer' = BelowTop
           /\ phase' = "idle" /\ top' = None /\ here' = None
           /\ UNCHANGED <<alive, links>>

\* A null pointer is followed: the climb at the end runs past a root, or the
\* error message for a close tag wants the name of a parent there is not.
LoadCrash == /\ phase = "loading"
             /\ IF here = None THEN TRUE ELSE BelowTop = None
             /\ phase' = "crashed" /\ answer' = None
             /\ UNCHANGED <<alive, links, top, here>>

Next == \/ \E n \in Nodes \ alive : \/ \E u \in Elements \cup {None} : MxmlNew(n, u)
                                    \/ LoadLeaf(n) \/ LoadOpen(n)
        \/ \E n \in alive : \/ \E u \in Elements, c \in alive \cup {None}, w \in {"before", "after"} :
                                  MxmlAdd(u, w, c, n)
                            \/ MxmlRemove(n) \/ MxmlDelete(n)
        \/ \E u \in Elements \cup {None} : LoadBegin(u)
        \/ LoadClose \/ LoadEnd \/ LoadCrash

Spec == Init /\ [][Next]_vars
-----------------------------------------------------------------------------
\* mxmlWalkNext and mxmlWalkPrev, within the tree below t.
WalkNext_OneClimb(n, t, descend) ==
    IF child[n] # None /\ descend THEN child[n]
    ELSE IF next[n] # None THEN next[n]
    ELSE IF parent[n] \notin {None, t} THEN next[parent[n]]
    ELSE None
WalkNext(n, t, descend) ==
    LET Climb[m \in Nodes] == IF next[m] # None THEN next[m]
                              ELSE IF parent[m] \in {None, t} THEN None ELSE Climb[parent[m]]
    IN  IF child[n] # None /\ descend THEN child[n]
        ELSE IF next[n] # None THEN next[n]
        ELSE IF parent[n] \notin {None, t} THEN Climb[parent[n]]
        ELSE None

WalkPrev(n, t, descend) ==
    LET Deepest[m \in Nodes] == IF last[m] = None THEN m ELSE Deepest[last[m]]
    IN  IF prev[n] # None
        THEN IF last[prev[n]] # None /\ descend THEN Deepest[prev[n]] ELSE prev[n]
        ELSE IF parent[n] # t THEN parent[n] ELSE None

\* mxmlFindElement; what it asks of a node's attributes is part of the name.
FindElement(n, t, name, descend) ==
    LET Scan[m \in Nodes \cup {None}] ==
            IF m = None THEN None
            ELSE IF Name[m] = name THEN m
            ELSE Scan[IF descend = "descend" THEN WalkNext(m, t, TRUE) ELSE next[m]]
    IN  Scan[WalkNext(n, t, descend # "no descend")]
-----------------------------------------------------------------------------
\* Every node is on the chain of its parent's children, once, the links back
\* agree with the links forward, and no node is its own ancestor.
WellLinked ==
    /\ alive \subseteq Nodes
    /\ Range(next) \cup Range(prev) \cup Range(parent) \cup Range(child) \cup Range(last)
          \subseteq alive \cup {None}
    /\ {top, here, answer} \subseteq alive \cup {None}
    /\ phase \in {"idle", "loading", "crashed"}
    /\ \A n \in alive :
          /\ LET c == Chain(n)
                 k == Len(c)
             IN  /\ Range(c) = {m \in alive : parent[m] = n}
                 /\ IsInjective(c)
                 /\ \A i \in 1 .. k : prev[c[i]] = IF i = 1 THEN None ELSE c[i - 1]
                 /\ last[n] = IF k = 0 THEN None ELSE c[k]
          /\ parent[n] = None => next[n] = None /\ prev[n] = None
          /\ parent[Path(n)[1]] = None

\* A walk from the first node below t meets each node below it once, parents
\* before children and siblings in order; backwards it meets them in the
\* opposite order.
Preorder(t) ==
    LET P[n \in Nodes] == LET c == Chain(n)
                          IN  <<n>> \o FlattenSeq([i \in 1 .. Len(c) |-> P[c[i]]])
    IN  Tail(P[t])
FirstNamed(s, name) == LET hits == SelectSeq(s, LAMBDA n : Name[n] = name)
                       IN  IF hits = <<>> THEN None ELSE Head(hits)
After(s, i) == SubSeq(s, i + 1, Len(s))

\* mxmlWalkNext and mxmlWalkPrev are each other's reverse over the whole tree
\* below a node with children, and repeated calls of mxmlFindElement find every
\* element of that tree, or among its children, that has the name.
WalksInOrder ==
    \A t \in alive : child[t] # None =>
        LET p == Preorder(t)
            c == Chain(t)
        IN  /\ WalkNext(t, t, TRUE) = p[1] /\ WalkPrev(p[1], t, TRUE) = None
            /\ \A i \in 1 .. Len(p) :
                  /\ WalkNext(p[i], t, TRUE) = IF i = Len(p) THEN None ELSE p[i + 1]
                  /\ i > 1 => WalkPrev(p[i], t, TRUE) = p[i - 1]
                  /\ \A name \in Names :
                        FindElement(p[i], t, name, "descend") = FirstNamed(After(p, i), name)
            /\ \A name \in Names :
                  /\ FindElement(t, t, name, "descend") = FirstNamed(p, name)
                  /\ FindElement(t, t, name, "first") = FirstNamed(c, name)
                  /\ \A i \in 1 .. Len(c) :
                        FindElement(c[i], t, name, "no descend") = FirstNamed(After(c, i), name)

Forest == INSTANCE ForestSpec WITH kids <- Kids, loading <- phase # "idle",
                                   open <- Path(here), above <- Path(top)

\* mxmlAdd puts a node beside the child named or, if there is none such, first
\* or last, and leaves the order of the others alone.
AddsWhereAsked ==
    \A n \in alive : \A u \in Elements \ Family(n) : \A c \in (alive \ {n}) \cup {None} :
        LET others == SelectSeq(Chain(u), LAMBDA k : k # n)
            i == SelectInSeq(others, LAMBDA k : k = c)      \* 0 if not there
            Placed(w) == LET t == Added(Links, u, w, c, n)
                         IN  LinkedList(t.child[u], t.next)
        IN  /\ Placed("before") = InsertAt(others, IF i = 0 THEN 1 ELSE i, n)
            /\ Placed("after") = InsertAt(others, IF i = 0 THEN Len(others) + 1 ELSE i + 1, n)

\* Nodes keep their place and order in the forest through every add, move,
\* removal and deletion, and a load puts its nodes where its tags say and
\* returns the outermost element it left open.
ImplementsForest == Forest!Spec /\ []AddsWhereAsked
-----------------------------------------------------------------------------
\* mxml.c says of mxmlLoadFile: "The nodes in the specified file are added to
\* the specified top node" and that it returns the first node, "or NULL if the
\* file could not be read".  Either way a load into a top node given returns.
LoadReturns == phase = "crashed" => top = None
=============================================================================
