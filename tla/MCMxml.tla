------------------------------- MODULE MCMxml -------------------------------
(* A small instance of Mxml for TLC. *)
EXTENDS Mxml, TLC

CONSTANTS n1, n2, n3, n4, n5, red, blue

MCNodes == {n1, n2, n3, n4, n5}
MCNames == {red, blue}
\* Two elements share the name red, one is blue, and two nodes are values.
MCName == n1 :> red @@ n2 :> red @@ n3 :> blue @@ n4 :> None @@ n5 :> None
=============================================================================
