---------------------------- MODULE KeyedSetSpec ----------------------------
(***************************************************************************)
(* What the library's intrusive containers promise: a set of the clients'  *)
(* nodes, found by a comparison of keys.  Modules HashTable, Tree and      *)
(* RBTree implement it.                                                    *)
(***************************************************************************)
CONSTANTS Nodes,
          Key,         \* of each node: the function given for comparison
          None,        \* no node
          Unique,      \* does the container refuse a key it has?
          RemoveTells  \* does removing say whether the key was there?

VARIABLES held,        \* the nodes in the container
          call         \* the last call: its name, what it was given and returned

keyedVars == <<held, call>>

Call(op, arg, ret) == [op |-> op, arg |-> arg, ret |-> ret]

Init == held = {} /\ call = Call("create", None, "ok")

Equal(k) == {n \in held : Key[n] = k}

\* room: is there memory for one more, and may the container still grow?  It refuses
\* for want of it, or for a key it has, and for nothing else.
Insert(n, room) ==
    \/ /\ call' = Call("insert", <<n, room>>, "ok")
       /\ n \notin held
       /\ Unique => Equal(Key[n]) = {}
       /\ held' = held \cup {n}
    \/ /\ call' = Call("insert", <<n, room>>, "err")
       /\ ~room \/ (Unique /\ Equal(Key[n]) # {})
       /\ UNCHANGED held

\* One node with the key goes, any of them if there are more.
Remove(k) ==
    \/ /\ call' = Call("remove", k, "ok")
       /\ \E n \in Equal(k) : held' = held \ {n}
    \/ /\ call' = Call("remove", k, IF RemoveTells THEN "err" ELSE "ok")
       /\ Equal(k) = {}
       /\ UNCHANGED held

Search(k) ==
    /\ IF Equal(k) = {} THEN call' = Call("search", k, None)
       ELSE \E n \in Equal(k) : call' = Call("search", k, n)
    /\ UNCHANGED held

Clear == call' = Call("clear", None, "ok") /\ held' = {}

Next == \/ \E n \in Nodes, room \in BOOLEAN : Insert(n, room)
        \/ \E n \in Nodes : Remove(Key[n]) \/ Search(Key[n])
        \/ Clear

Spec == Init /\ [][Next]_keyedVars
=============================================================================
