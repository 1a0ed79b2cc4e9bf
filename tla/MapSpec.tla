------------------------------ MODULE MapSpec ------------------------------
(***************************************************************************)
(* What the library's hash tables promise: a map from keys to values, and  *)
(* for each call, with the key it names, the result the map calls for.     *)
(* Modules Dict and HTab implement it; each has some of these operations.  *)
(***************************************************************************)
EXTENDS Naturals, FiniteSets

CONSTANTS Keys, Vals,
          None,        \* the key is not in the map
          Fallible,    \* may memory run out for a new key?
          RemoveTells  \* does removing say whether the key was there?

VARIABLES map,         \* the value of each key, or None
          call         \* the last call: its name, what it was given and returned

mapVars == <<map, call>>

Call(op, arg, ret) == [op |-> op, arg |-> arg, ret |-> ret]

Init == map = [k \in Keys |-> None] /\ call = Call("create", None, "ok")

\* Adding leaves a key that is there alone, and says so.
Add(k, v) ==
    \/ /\ map[k] = None
       /\ call' = Call("add", <<k, v>>, "ok")
       /\ map' = [map EXCEPT ![k] = v]
    \/ /\ map[k] # None
       /\ call' = Call("add", <<k, v>>, "err")
       /\ UNCHANGED map

\* A key that is there always gets its value.
Put(k, v) ==
    \/ /\ call' = Call("put", <<k, v>>, "ok")
       /\ map' = [map EXCEPT ![k] = v]
    \/ /\ Fallible /\ map[k] = None
       /\ call' = Call("put", <<k, v>>, "err")
       /\ UNCHANGED map

Remove(k) ==
    /\ call' = Call("remove", k, IF RemoveTells /\ map[k] = None THEN "err" ELSE "ok")
    /\ map' = [map EXCEPT ![k] = None]

Get(k) == call' = Call("get", k, map[k]) /\ UNCHANGED map

Clear == call' = Call("clear", None, "ok") /\ map' = [k \in Keys |-> None]

\* Asking for room for some number of keys changes none, and fails if there are more.
Present == {k \in Keys : map[k] # None}
Reshape ==
    /\ call'.op = "expand"
    /\ call' = Call("expand", call'.arg,
                    IF Cardinality(Present) > call'.arg THEN "err" ELSE "ok")
    /\ UNCHANGED map

Next == \/ Clear \/ Reshape
        \/ \E k \in Keys : Get(k) \/ Remove(k)
        \/ \E k \in Keys, v \in Vals : Add(k, v) \/ Put(k, v)

Spec == Init /\ [][Next]_mapVars
=============================================================================
