------------------------------- MODULE MCDict -------------------------------
(* A small instance of Dict for TLC. *)
EXTENDS Dict, TLC

CONSTANTS k1, k2, k3, k4, k5, v1, v2

MCKeys == {k1, k2, k3, k4, k5}
MCVals == {v1, v2}
\* k2 and k4 share a bucket in every table, the others in the small ones.
MCHash == k1 :> 0 @@ k2 :> 1 @@ k3 :> 2 @@ k4 :> 5 @@ k5 :> 3
\* No step reads call.
MCView == <<size, used, table, val, iter, state, due, calm>>
MCSymmetry == Permutations(MCVals)
=============================================================================
