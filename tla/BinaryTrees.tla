----------------------------- MODULE BinaryTrees -----------------------------
(***************************************************************************)
(* What src/tree.c and src/rbtree.c share: nodes with a left and a right   *)
(* child, loops that go from node to node, and the recursion that prints.  *)
(***************************************************************************)
EXTENDS Integers, FiniteSets, SequencesExt

Side == {"left", "right"}

\* A loop from node c: next gives the node after a node, itself where the loop
\* ends.  It ends within n steps in a tree of n nodes.
Loop(next, c, n) ==
    LET at[d \in 0 .. n] == IF d = 0 THEN c ELSE next[at[d - 1]]
    IN  at[n]

\* The nodes from c down in order, none being no node; n bounds the recursion.
InorderFrom(kid, none, c, n) ==
    LET of[d \in 0 .. n] ==
            [m \in DOMAIN kid \cup {none} |->
                IF d = 0 \/ m = none THEN <<>>
                ELSE of[d - 1][kid[m]["left"]] \o <<m>> \o of[d - 1][kid[m]["right"]]]
    IN  of[n][c]
=============================================================================
