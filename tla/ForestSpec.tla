----------------------------- MODULE ForestSpec -----------------------------
(***************************************************************************)
(* What the XML tree of mxml.c promises: a forest in which every node has   *)
(* its children in order, and a loader that keeps the elements its file has *)
(* opened on a stack.  Module Mxml implements it.                          *)
(***************************************************************************)
EXTENDS Naturals, Sequences, SequencesExt

CONSTANTS Nodes,
          None         \* no node

VARIABLES alive,       \* the nodes of the forest
          kids,        \* the children of each node, in order
          loading,     \* is a file being read?
          open,        \* the elements around the place being read, from the root
          above,       \* those of them that were there before the load
          answer       \* what the last load returned, None after any other step

forestVars == <<alive, kids, loading, open, above, answer>>

Init == /\ alive = {} /\ kids = [n \in Nodes |-> <<>>]
        /\ loading = FALSE /\ open = <<>> /\ above = <<>> /\ answer = None

Without(n) == [m \in Nodes |-> SelectSeq(kids[m], LAMBDA k : k # n)]

\* n and the nodes below it.
Below(n) ==
    LET Reach[i \in Nat] == IF i = 0 THEN {n}
                            ELSE UNION {{m} \cup Range(kids[m]) : m \in Reach[i - 1]}
    IN  Reach[Cardinality(Nodes)]

\* A root that no child sequence holds if p is None.
Create(n, p) ==
    /\ alive' = alive \cup {n}
    /\ kids' = IF p = None THEN kids ELSE [kids EXCEPT ![p] = Append(@, n)]

New(n, p) == Create(n, p) /\ UNCHANGED <<loading, open, above>> /\ answer' = None

\* n becomes a child of p, at any place among the others.
Add(n, p) ==
    /\ answer' = None
    /\ UNCHANGED <<alive, loading, open, above>>
    /\ p \notin Below(n)
    /\ LET rest == Without(n)
       IN  \E i \in 1 .. Len(rest[p]) + 1 : kids' = [rest EXCEPT ![p] = InsertAt(@, i, n)]

TakeOut(n) ==
    /\ answer' = None
    /\ UNCHANGED <<alive, loading, open, above>>
    /\ kids' = Without(n)

Delete(n) ==
    /\ n \notin alive'
    /\ LET gone == Below(n)
           rest == Without(n)
       IN  /\ alive' = alive \ gone
           /\ kids' = [m \in Nodes |-> IF m \in gone THEN <<>> ELSE rest[m]]
    /\ answer' = None
    /\ UNCHANGED <<loading, open, above>>
-----------------------------------------------------------------------------
\* The path to a node from its root.
Path(p) == Len(p) > 0 => /\ Range(p) \subseteq alive
                         /\ \A m \in alive : ~Contains(kids[m], p[1])
                         /\ \A i \in 1 .. Len(p) - 1 : Contains(kids[p[i]], p[i + 1])

LoadBegin == /\ ~loading /\ loading'
             /\ Path(above') /\ open' = above'
             /\ answer' = None
             /\ UNCHANGED <<alive, kids>>

Innermost == IF open = <<>> THEN None ELSE Last(open)

\* An element the file leaves open, or a node without content of its own.
LoadNode(n) == /\ loading
               /\ Create(n, Innermost)
               /\ open' \in {open, Append(open, n)}
               /\ answer' = None
               /\ UNCHANGED <<loading, above>>

LoadClose == /\ loading /\ open # <<>>
             /\ open' = Front(open)
             /\ answer' = None
             /\ UNCHANGED <<alive, kids, loading, above>>

\* The load returns the outermost of its elements left open.  If there is none
\* it returns no node, and that only if all around it is closed too.
LoadEnd == /\ loading
           /\ open = <<>> \/ IsStrictPrefix(above, open)
           /\ answer' = IF open = <<>> THEN None ELSE open[Len(above) + 1]
           /\ loading' = FALSE /\ open' = <<>> /\ above' = <<>>
           /\ UNCHANGED <<alive, kids>>

Settle == answer' = None /\ UNCHANGED <<alive, kids, loading, open, above>>

Next == \/ LoadBegin \/ LoadClose \/ LoadEnd \/ Settle
        \/ \E n \in Nodes \ alive : LoadNode(n) \/ \E p \in alive \cup {None} : New(n, p)
        \/ \E n \in alive : TakeOut(n) \/ Delete(n) \/ \E p \in alive : Add(n, p)

Spec == Init /\ [][Next]_forestVars
=============================================================================
