------------------------------- MODULE ADList -------------------------------
(***************************************************************************)
(* src/adlist.c: doubly linked lists whose nodes the library allocates,    *)
(* with an iterator for either direction and a copy.  One client, which    *)
(* makes copies of one list and, while it iterates, deletes the node it    *)
(* was given last and no other.  The optional dup, free and match methods  *)
(* are not set.  Any malloc may fail; listDup and listSearchKey do not     *)
(* look whether the iterator they ask for is there.                        *)
(*                                                                         *)
(* A definition named X_Y is a slip one could make in X; the specification *)
(* does not use it.                                                        *)
(***************************************************************************)
EXTENDS Integers, SequencesExt

CONSTANTS Addresses,     \* what malloc returns
          Data,          \* the values the client stores
          None

VARIABLES mem,     \* lists, node: the structs list and listNode; live: what is not free
          iter,    \* the listIter: on, next, and the way it goes
          given,   \* the node listNextElement returned last
          due,     \* history: the values the iteration has yet to return
          ended,   \* a null pointer was followed: the program is no more
          call     \* the last call, its arguments and what it returned

vars == <<mem, iter, given, due, ended, call>>
iteration == <<iter, given, due>>

ListNames == {"orig", "copy"}
NoIter == [on |-> FALSE, next |-> None, way |-> "next"]
Blank == [prev |-> None, next |-> None, value |-> None]
Empty == [made |-> TRUE, head |-> None, tail |-> None, len |-> 0]
NoList == [Empty EXCEPT !.made = FALSE]

\* listCreate.
Init == /\ mem = [lists |-> [l \in ListNames |-> IF l = "orig" THEN Empty ELSE NoList],
                  node  |-> [a \in Addresses |-> Blank],
                  live  |-> {}]
        /\ iter = NoIter /\ given = None /\ due = <<>> /\ ended = FALSE
        /\ call = <<"create">>

\* The nodes met from a; a chain longer than the memory has a cycle.
Chain(m, a, way) ==
    LET From[b \in Addresses \cup {None}, k \in Nat] ==
            IF b = None \/ k = 0 THEN <<>> ELSE <<b>> \o From[m.node[b][way], k - 1]
    IN  From[a, Cardinality(Addresses) + 1]

Chained(l) == Chain(mem, mem.lists[l].head, "next")
Value(a) == IF a = None THEN None ELSE mem.node[a].value
Values(l) == LET s == Chained(l) IN [i \in DOMAIN s |-> Value(s[i])]
Made(l) == mem.lists[l].made

\* A free address; which one makes no difference to the calls.
Malloc(m) == CHOOSE a \in Addresses : a \notin m.live
Room(m) == Cardinality(Addresses \ m.live)
Idle == ~iter.on

\* free: what freed memory holds is not told apart.
Freed(m, gone) == [m EXCEPT !.live = @ \ gone,
                            !.node = [a \in Addresses |-> IF a \in gone THEN Blank ELSE @[a]]]
-----------------------------------------------------------------------------
AddNodeHead(m, l, v) ==
    LET a == Malloc(m)
        head == m.lists[l].head
        empty == m.lists[l].len = 0
        new == [prev |-> None, next |-> IF empty THEN None ELSE head, value |-> v]
    IN  [lists |-> [m.lists EXCEPT ![l].head = a, ![l].tail = IF empty THEN a ELSE @,
                                   ![l].len = @ + 1],
         node  |-> [x \in Addresses |-> IF x = a THEN new
                                        ELSE IF ~empty /\ x = head
                                             THEN [m.node[x] EXCEPT !.prev = a]
                                             ELSE m.node[x]],
         live  |-> m.live \cup {a}]

AddNodeTail(m, l, v) ==
    LET a == Malloc(m)
        tail == m.lists[l].tail
        empty == m.lists[l].len = 0
        new == [next |-> None, prev |-> IF empty THEN None ELSE tail, value |-> v]
    IN  [lists |-> [m.lists EXCEPT ![l].tail = a, ![l].head = IF empty THEN a ELSE @,
                                   ![l].len = @ + 1],
         node  |-> [x \in Addresses |-> IF x = a THEN new
                                        ELSE IF ~empty /\ x = tail
                                             THEN [m.node[x] EXCEPT !.next = a]
                                             ELSE m.node[x]],
         live  |-> m.live \cup {a}]

listAddNodeHead(l, v) == /\ Idle /\ Made(l) /\ Room(mem) > 0
                         /\ mem' = AddNodeHead(mem, l, v)
                         /\ call' = <<"add head", l, v>>
                         /\ UNCHANGED iteration

listAddNodeTail(l, v) == /\ Idle /\ Made(l) /\ Room(mem) > 0
                         /\ mem' = AddNodeTail(mem, l, v)
                         /\ call' = <<"add tail", l, v>>
                         /\ UNCHANGED iteration

\* malloc returns NULL to an add, to listGetIterator, or to listDup for the list.
OutOfMemory == Idle /\ call' = <<"fail">> /\ UNCHANGED <<mem, iteration>>

\* malloc returns NULL to listDup or listSearchKey for the iterator, and
\* listNextElement follows it.
NoIterator == Idle /\ ended' = TRUE /\ UNCHANGED <<mem, iteration, call>>

Unlinked(m, l, a) ==
    LET p == m.node[a].prev
        n == m.node[a].next
        Passing(x) == [m.node[x] EXCEPT !.next = IF x = p THEN n ELSE @,
                                        !.prev = IF x = n THEN p ELSE @]
    IN  Freed([m EXCEPT !.lists[l].head = IF p = None THEN n ELSE @,
                        !.lists[l].tail = IF n = None THEN p ELSE @,
                        !.lists[l].len = @ - 1,
                        !.node = [x \in Addresses |-> Passing(x)]], {a})

listDelNode(l, i) == /\ Made(l) /\ i \in DOMAIN Chained(l)
                     /\ Idle \/ Chained(l)[i] = given
                     /\ mem' = Unlinked(mem, l, Chained(l)[i])
                     /\ given' = None
                     /\ call' = <<"delete", l, i>>
                     /\ UNCHANGED <<iter, due>>

\* len nodes are freed, whatever the links say.
Released(m, l) == Freed([m EXCEPT !.lists[l] = NoList],
                        Range(SubSeq(Chain(m, m.lists[l].head, "next"), 1, m.lists[l].len)))

\* The client has a list to go on with: it then creates another.
listRelease(l) == /\ Idle /\ Made(l)
                  /\ mem' = [Released(mem, l) EXCEPT !.lists["orig"].made = TRUE]
                  /\ call' = <<"clear", l>>
                  /\ UNCHANGED iteration

\* The copy with the first n values of the original.
Copied(n) == FoldLeft(LAMBDA m, a : AddNodeTail(m, "copy", mem.node[a].value),
                      [mem EXCEPT !.lists["copy"] = Empty], SubSeq(Chained("orig"), 1, n))
MayCopy(n) == Idle /\ ~Made("copy") /\ n <= Room(mem)

listDup == /\ MayCopy(mem.lists["orig"].len)
           /\ mem' = Copied(mem.lists["orig"].len)
           /\ call' = <<"copy", "orig", "copy">>
           /\ UNCHANGED iteration

\* malloc returns NULL for node n + 1, and listDup releases the copy.
DupFails_Keeps(n) == /\ MayCopy(n) /\ n < mem.lists["orig"].len
                     /\ mem' = [Copied(n) EXCEPT !.lists["copy"] = NoList]
                     /\ call' = <<"fail">>
                     /\ UNCHANGED iteration
DupFails(n) == /\ MayCopy(n) /\ n < mem.lists["orig"].len
               /\ mem' = Released(Copied(n), "copy")
               /\ call' = <<"fail">>
               /\ UNCHANGED iteration
-----------------------------------------------------------------------------
listGetIterator(l, end) ==
    /\ Idle /\ Made(l)
    /\ iter' = IF end = "head"
               THEN [on |-> TRUE, next |-> mem.lists[l].head, way |-> "next"]
               ELSE [on |-> TRUE, next |-> mem.lists[l].tail, way |-> "prev"]
    /\ due' = IF end = "head" THEN Values(l) ELSE Reverse(Values(l))
    /\ call' = <<"iterate", l, end>>
    /\ UNCHANGED <<mem, given>>

\* listNextElement; when it returns NULL the client calls listReleaseIterator.
listNextElement ==
    /\ iter.on
    /\ given' = iter.next
    /\ iter' = IF iter.next = None THEN NoIter
               ELSE [iter EXCEPT !.next = mem.node[iter.next][iter.way]]
    /\ due' = IF due = <<>> THEN due ELSE Tail(due)
    /\ call' = <<"next", Value(iter.next)>>
    /\ UNCHANGED mem

listSearchKey(l, v) ==
    /\ Idle /\ Made(l)
    /\ call' = <<"find", l, v, SelectInSeq(Chained(l), LAMBDA a : mem.node[a].value = v)>>
    /\ UNCHANGED <<mem, iteration>>

\* index-- && n steps from one end.
listIndex(l, index) ==
    /\ Idle /\ Made(l)
    /\ LET steps == IF index < 0 THEN (-index) - 1 ELSE index
           met == IF index < 0 THEN Chain(mem, mem.lists[l].tail, "prev") ELSE Chained(l)
           n == IF steps < Len(met) THEN met[steps + 1] ELSE None
       IN  call' = <<"at", l, index, Value(n)>>
    /\ UNCHANGED <<mem, iteration>>

Places == 1 .. Cardinality(Addresses)
Calls == \/ \E l \in ListNames, v \in Data : listAddNodeHead(l, v) \/ listAddNodeTail(l, v)
                                         \/ listSearchKey(l, v)
         \/ \E l \in ListNames : listRelease(l)
         \/ \E l \in ListNames, i \in Places : listDelNode(l, i)
         \/ \E l \in ListNames, end \in {"head", "tail"} : listGetIterator(l, end)
         \/ \E l \in ListNames, index \in {-2, -1, 0, 1} : listIndex(l, index)
         \/ \E n \in 0 .. Cardinality(Addresses) : DupFails(n)
         \/ listDup \/ listNextElement \/ OutOfMemory
Next == ~ended /\ ((Calls /\ UNCHANGED ended) \/ NoIterator)

Spec == Init /\ [][Next]_vars
-----------------------------------------------------------------------------
\* len, both ends and both directions tell of the same nodes.
Agree(l) == /\ Chained(l) = Reverse(Chain(mem, mem.lists[l].tail, "prev"))
            /\ mem.lists[l].len = Len(Chained(l))

\* The nodes in use are those of the lists, each once, and the links of the two
\* directions agree, whatever was added, deleted, copied and released.
WellLinked ==
    LET all == Chained("orig") \o Chained("copy")
    IN  /\ \A l \in ListNames : Agree(l)
        /\ IsInjective(all) /\ mem.live = Range(all)

\* The calls are those of sequences: an iteration returns what the list held
\* though its nodes are deleted under way, and a copy leaves the original alone,
\* the one that fails half way too.
List == INSTANCE ListSpec WITH
    Lists <- ListNames, Items <- Data, rest <- due, Rank <- [v \in Data |-> 0],
    seqs <- [l \in ListNames |-> Values(l)]
ImplementsLists == List!Spec
=============================================================================
