------------------------------ MODULE MCSList ------------------------------
(* Small instances of SList for TLC. *)
EXTENDS SList, TLC

CONSTANTS t1, t2, n1, n2, n3, n4

MCThreads == {t1, t2}
MCNodes == {n1, n2, n3}
\* Two nodes share a key, so that removal meets duplicates and sort meets ties.
MCKey == n1 :> 1 @@ n2 :> 2 @@ n3 :> 1 @@ n4 :> 0
MCKeys == n1 :> 1 @@ n2 :> 2 @@ n3 :> 1
MCTwo == {n1, n2}
MCTwoKeys == n1 :> 1 @@ n2 :> 2

Adds == {"append", "prepend"}
Ends == {"init", "free"}
Together(o) == t1 :> o @@ t2 :> o
Alone(o) == t1 :> o @@ t2 :> {}
MCPrograms == {Together(Adds \cup Ends),
               Alone(Adds \cup Ends \cup {"remove"}),
               Alone({"prepend", "sort", "remove"}),
               t1 :> {"append", "remove"} @@ t2 :> {"remove"},
               Alone({"append", "search", "getone", "traverse"}),
               Alone({"append", "remove", "sort"})}
MCRemovers == {t1 :> {"append", "remove"} @@ t2 :> {"remove"}}
MCSearchers == {Alone({"append", "search"})}
=============================================================================
