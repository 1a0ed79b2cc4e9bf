------------------------------ MODULE ArrayList ------------------------------
(***************************************************************************)
(* src/arraylist.c: an array of pointers that grows by a fixed step when it *)
(* is full and gives the step back when removals leave room for it.  The   *)
(* client's equals compares the objects themselves.  A malloc that fails   *)
(* ends the program; whether a realloc failed is not looked at, and data   *)
(* is then NULL (Null), which the next call that needs a place follows.    *)
(***************************************************************************)
EXTENDS Integers, SequencesExt

CONSTANTS Objects,
          Order,              \* how the client's compare ranks the objects
          InitialCapacity,    \* ARRAYLIST_INITIAL_CAPACITY
          CapacityDelta,      \* ARRAYLIST_CAPACITY_DELTA
          MaxSize,            \* a bound on the objects the client adds
          None

ArrayListAssumption ==
    /\ InitialCapacity \in Nat \ {0} /\ CapacityDelta \in Nat \ {0}
    /\ None \notin Objects /\ Order \in [Objects -> Nat]

VARIABLES data,                       \* what each allocated place holds
          size, current_capacity,
          ended,                      \* the program exited, or followed NULL
          call                        \* the last call, its arguments, its result

vars == <<data, size, current_capacity, ended, call>>
array == <<data, size, current_capacity>>

\* malloc and realloc: the places that are new hold anything, here None.
Places(c) == 0 .. c - 1
Resized(d, c) == [i \in Places(c) |-> IF i \in DOMAIN d THEN d[i] ELSE None]

\* arraylist_create.
Init == /\ data = Resized(<<>>, InitialCapacity)
        /\ size = 0 /\ current_capacity = InitialCapacity /\ ended = FALSE
        /\ call = <<"create">>

Full == size = current_capacity
Null == <<>>
Held == data # Null

\* An add that must grow and finds no memory exits; a call that reads or writes a
\* place when there are none is the program's last.
Ends == (Full \/ ~Held) /\ ended' = TRUE /\ UNCHANGED <<array, call>>

arraylist_add(object) ==
    /\ size < MaxSize /\ Held
    /\ current_capacity' = current_capacity + (IF Full THEN CapacityDelta ELSE 0)
    /\ data' = [Resized(data, current_capacity') EXCEPT ![size] = object]
    /\ size' = size + 1
    /\ call' = <<"add tail", "array", object>>

\* The first place that holds the object, from 0, or -1.
arraylist_index_of(object) ==
    LET at == {i \in Places(size) : data[i] = object}
    IN  IF at = {} THEN -1 ELSE CHOOSE i \in at : \A j \in at : i <= j

\* memmove leaves the last object twice, the second time past the end.
Shifted(i) == [j \in DOMAIN data |-> IF j \in i .. size - 2 THEN data[j + 1] ELSE data[j]]
Shrinks == current_capacity - CapacityDelta > size - 1

arraylist_remove(object) ==
    LET i == arraylist_index_of(object)
        inside == i < size - 1
    IN  /\ Held /\ i >= 0
        /\ size' = size - 1
        /\ current_capacity' = current_capacity - (IF inside /\ Shrinks THEN CapacityDelta ELSE 0)
        /\ \/ data' = Resized(IF inside THEN Shifted(i) ELSE data, current_capacity')
           \/ inside /\ Shrinks /\ data' = Null
        /\ call' = <<"delete", "array", i + 1>>

\* arraylist_remove of an object that is not there, arraylist_contains and
\* arraylist_index_of itself.
Looked(object) == /\ Held \/ size = 0
                  /\ call' = <<"find", "array", object, arraylist_index_of(object) + 1>>
                  /\ UNCHANGED array

arraylist_get(index) == /\ Held /\ index \in Places(size)
                        /\ call' = <<"at", "array", index, data[index]>>
                        /\ UNCHANGED array

\* arraylist_size and arraylist_is_empty.
arraylist_size == call' = <<"size", "array", size>> /\ UNCHANGED array

arraylist_clear == /\ data' = Resized(data, InitialCapacity) \/ data' = Null
                   /\ current_capacity' = InitialCapacity /\ size' = 0
                   /\ call' = <<"clear", "array">>

\* qsort may leave objects that compare equal in any order; these do not.
qsort(s) == SortSeq(s, LAMBDA x, y : Order[x] < Order[y])
Objs == [i \in 1 .. size |-> data[i - 1]]
arraylist_sort ==
    /\ Held \/ size <= 1
    /\ data' = [i \in DOMAIN data |-> IF i < size THEN qsort(Objs)[i + 1] ELSE data[i]]
    /\ call' = <<"sort", "array">>
    /\ UNCHANGED <<size, current_capacity>>

Calls == \/ \E o \in Objects : arraylist_add(o) \/ arraylist_remove(o) \/ Looked(o)
         \/ \E i \in Places(MaxSize) : arraylist_get(i)
         \/ arraylist_size \/ arraylist_clear \/ arraylist_sort
Next == ~ended /\ ((Calls /\ UNCHANGED ended) \/ Ends)

Spec == Init /\ [][Next]_vars
-----------------------------------------------------------------------------
\* No place past the allocated ones is ever used, and the array does not shrink
\* below what it was created with.
InBounds == /\ size <= current_capacity /\ InitialCapacity <= current_capacity
            /\ Held => DOMAIN data = Places(current_capacity)

\* The calls are those of a sequence, through every growing and shrinking, but
\* for the one whose realloc fails: it loses the objects and tells no one.
List == INSTANCE ListSpec WITH
    Lists <- {"array"}, Items <- Objects, rest <- <<>>, Rank <- Order,
    seqs <- [l \in {"array"} |-> [i \in 1 .. size |-> IF Held THEN data[i - 1] ELSE None]]
ImplementsLists == List!Init /\ [][List!Next \/ (Held /\ ~Held')]_(List!listVars)
=============================================================================
