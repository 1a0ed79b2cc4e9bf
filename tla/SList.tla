-------------------------------- MODULE SList --------------------------------
(***************************************************************************)
(* src/slist.c: a singly linked list of the callers' own nodes behind a    *)
(* spin lock.  A call takes the lock and does its work in one step and      *)
(* unlocks in another; nodecount is loaded and stored in two, because      *)
(* slist_remove updates it after it has unlocked.  slist_search and        *)
(* slist_getone keep the lock when they find their node, and a loop over   *)
(* links that have become a cycle never ends.  slist_init and slist_free   *)
(* take no lock and are called while no other call is under way.           *)
(* Freed memory keeps its contents until malloc hands it out again.        *)
(*                                                                         *)
(* A definition named X_Y is a slip one could make in X; the specification *)
(* does not use it.                                                        *)
(***************************************************************************)
EXTENDS Integers, SequencesExt

CONSTANTS Threads,     \* the threads that share the list
          Nodes,       \* the addresses malloc hands to the clients
          None,        \* a null pointer, and no thread
          Key,         \* the datum in each node, which _cmp and sort_cmp compare
          CountMod,    \* nodecount is unsigned: it counts modulo this
          Programs     \* what the clients' threads may be written to call

AllOps == {"append", "prepend", "remove", "search", "getone", "traverse", "sort",
           "init", "free"}
ASSUME ProgramsAssumption == Programs \subseteq [Threads -> SUBSET AllOps]
ASSUME KeyAssumption == Key \in [Nodes -> Nat]
ASSUME NodesAssumption == IsFiniteSet(Nodes)
ASSUME CountModAssumption == CountMod \in Nat /\ CountMod > Cardinality(Nodes)
ASSUME NoneAssumption == None \notin Threads /\ None \notin Nodes
SListAssumption == /\ ProgramsAssumption /\ KeyAssumption /\ NodesAssumption
                   /\ CountModAssumption /\ NoneAssumption

VARIABLES head, tail, nodecount, lock,   \* the fields of struct _slist_
          link,      \* the pointer each node holds at the list's offset
          pc,        \* "idle", the operation called, or how far it has come
          node,      \* the node a call adds
          arg,       \* the datum or the index a call looks for
          tmp,       \* the nodecount a thread has loaded and not yet stored
          used,      \* the addresses that are not free memory
          phase,     \* "live", "freed", or "crashed": a node was freed twice,
                     \* or slist_sort_internal has used up the stack
          ops,       \* the operations each thread calls, the same all along
          items      \* history: what the list should hold, first to last

vars == <<head, tail, nodecount, lock, link, pc, node, arg, tmp, used, phase,
          ops, items>>

Keys == {Key[n] : n \in Nodes}
Called == UNION Range(ops)      \* by one thread or another

\* The nodes met from head; a chain longer than the memory has a cycle.
Walk[k \in Nat] ==
    IF k = 0 THEN <<>>
    ELSE LET before == Walk[k - 1]
             next == IF before = <<>> THEN head ELSE link[Last(before)]
         IN  IF Len(before) < k - 1 \/ next = None THEN before
                                                   ELSE Append(before, next)
Chain == Walk[Cardinality(Nodes) + 1]
Endless == Len(Chain) > Cardinality(Nodes)

\* The chain can be freed: it ends and none of its nodes is free already.
Freeable == ~Endless /\ Range(Chain) \subseteq used

\* The links that make a sequence of nodes a chain.
Linked(s) == [n \in Nodes |-> IF n \in Range(s)
                              THEN LET i == CHOOSE j \in 1 .. Len(s) : s[j] = n
                                   IN  IF i = Len(s) THEN None ELSE s[i + 1]
                              ELSE link[n]]

\* A sequence without its first n.
Without(s, n) == LET i == CHOOSE j \in 1 .. Len(s) : s[j] = n
                 IN  IF n \in Range(s) THEN SubSeq(s, 1, i - 1) \o SubSeq(s, i + 1, Len(s))
                                       ELSE s

Goto(t, from, to) == phase = "live" /\ pc[t] = from /\ pc' = [pc EXCEPT ![t] = to]
Take(t) == lock = None /\ lock' = t
Unlock(t) == lock' = None
Less(c) == (c - 1) % CountMod

\* slist_create.
Init == /\ head = None /\ tail = None /\ nodecount = 0 /\ lock = None
        /\ link = [n \in Nodes |-> None]
        /\ pc = [t \in Threads |-> "idle"]
        /\ node = [t \in Threads |-> None]
        /\ arg = [t \in Threads |-> 0]
        /\ tmp = [t \in Threads |-> 0]
        /\ used = {}
        /\ phase = "live"
        /\ ops \in Programs
        /\ items = <<>>
-----------------------------------------------------------------------------
\* A client allocates a node, fills it in and calls an add.  It clears the
\* node's link, as the repository's test does: slist_append and, on an empty
\* list, slist_prepend leave it alone.
CallAdd(t) ==
    /\ \E op \in ops[t] \cap {"append", "prepend"} : Goto(t, "idle", op)
    /\ \E n \in Nodes \ used :
          /\ node' = [node EXCEPT ![t] = n]
          /\ used' = used \cup {n}
          /\ link' = [link EXCEPT ![n] = None]
    /\ UNCHANGED <<head, tail, nodecount, lock, arg, tmp, phase, ops, items>>

CallOther(t) ==
    /\ \E op \in ops[t] \cap {"remove", "search", "getone", "traverse", "sort"} :
          Goto(t, "idle", op)
    /\ \E a \in Keys : arg' = [arg EXCEPT ![t] = a]
    /\ UNCHANGED <<head, tail, nodecount, lock, link, node, tmp, used, phase, ops, items>>

SListPrepend(t) ==
    /\ Goto(t, "prepend", "added")
    /\ Take(t)
    /\ IF head = None THEN tail' = node[t] /\ UNCHANGED link
                      ELSE link' = [link EXCEPT ![node[t]] = head] /\ UNCHANGED tail
    /\ head' = node[t]
    /\ tmp' = [tmp EXCEPT ![t] = nodecount]
    /\ items' = <<node[t]>> \o items
    /\ UNCHANGED <<nodecount, node, arg, used, phase, ops>>

SListAppend(t) ==
    /\ Goto(t, "append", "added")
    /\ Take(t)
    /\ IF head = None THEN head' = node[t] /\ UNCHANGED link
                      ELSE link' = [link EXCEPT ![tail] = node[t]] /\ UNCHANGED head
    /\ tail' = node[t]
    /\ tmp' = [tmp EXCEPT ![t] = nodecount]
    /\ items' = Append(items, node[t])
    /\ UNCHANGED <<nodecount, node, arg, used, phase, ops>>

AddCount(t) ==
    /\ Goto(t, "added", "idle")
    /\ nodecount' = (tmp[t] + 1) % CountMod
    /\ Unlock(t)
    /\ node' = [node EXCEPT ![t] = None]
    /\ tmp' = [tmp EXCEPT ![t] = 0]
    /\ UNCHANGED <<head, tail, link, arg, used, phase, ops, items>>
-----------------------------------------------------------------------------
Matches(k) == {i \in 1 .. Len(Chain) : Key[Chain[i]] = k}
First(k) == CHOOSE i \in Matches(k) : \A j \in Matches(k) : i <= j

\* The branches of slist_remove for the node at place i: nodecount decides the
\* first, the links the others.
Unlink_HeadFirst(i) ==
    LET rover == Chain[i]
        prev  == IF i = 1 THEN rover ELSE Chain[i - 1]
    IN  IF i = 1
        THEN head' = link[rover] /\ UNCHANGED <<tail, link>>
        ELSE /\ link' = [link EXCEPT ![prev] = link[rover]]
             /\ tail' = IF link[rover] = None THEN prev ELSE tail
             /\ UNCHANGED head
Unlink(i) ==
    LET rover == Chain[i]
        prev  == IF i = 1 THEN rover ELSE Chain[i - 1]
    IN  CASE nodecount = 1 ->
                head' = None /\ tail' = None /\ UNCHANGED link
          [] nodecount # 1 /\ link[rover] = None ->
                tail' = prev /\ link' = [link EXCEPT ![prev] = None] /\ UNCHANGED head
          [] nodecount # 1 /\ link[rover] # None /\ head = rover ->
                head' = link[rover] /\ UNCHANGED <<tail, link>>
          [] OTHER ->
                link' = [link EXCEPT ![prev] = link[rover]] /\ UNCHANGED <<head, tail>>

SListRemove(t) ==
    /\ phase = "live" /\ pc[t] = "remove" /\ pc' = [pc EXCEPT ![t] = "unlinked"]
    /\ Take(t)
    /\ Matches(arg[t]) # {}
    /\ LET rover == Chain[First(arg[t])]
       IN  /\ Unlink(First(arg[t]))
           /\ phase' = IF rover \in used THEN "live" ELSE "crashed"
           /\ used' = used \ {rover}
           /\ items' = Without(items, rover)
    /\ UNCHANGED <<nodecount, node, arg, tmp, ops>>

RemoveUnlock_Keeps(t) ==
    /\ Goto(t, "unlinked", "removed")
    /\ UNCHANGED <<head, tail, nodecount, lock, link, node, arg, tmp, used, phase, ops, items>>
RemoveUnlock(t) ==
    /\ Goto(t, "unlinked", "removed")
    /\ Unlock(t)
    /\ UNCHANGED <<head, tail, nodecount, link, node, arg, tmp, used, phase, ops, items>>

RemoveLoad(t) ==
    /\ Goto(t, "removed", "uncount")
    /\ tmp' = [tmp EXCEPT ![t] = nodecount]
    /\ UNCHANGED <<head, tail, nodecount, lock, link, node, arg, used, phase, ops, items>>

RemoveCount(t) ==
    /\ Goto(t, "uncount", "idle")
    /\ nodecount' = Less(tmp[t])
    /\ tmp' = [tmp EXCEPT ![t] = 0]
    /\ UNCHANGED <<head, tail, lock, link, node, arg, used, phase, ops, items>>

\* slist_getone rejects every index from nodecount - 1 on, in unsigned
\* arithmetic: the last node is out of its reach.
InReach(n) == n < Less(nodecount)
Finds(t) == CASE pc[t] \in {"remove", "search"} -> Matches(arg[t]) # {}
              [] pc[t] = "getone" -> InReach(arg[t]) /\ (Endless \/ arg[t] < Len(Chain))
              [] OTHER -> FALSE
\* The walks that stop only where the chain does.
WalksOn(t) == CASE pc[t] \in {"remove", "search"} -> Matches(arg[t]) = {}
                [] pc[t] = "traverse" -> arg[t] < nodecount
                [] OTHER -> FALSE

\* slist_search and slist_getone return from inside the loop, locked.
FindsAndReturns(t) ==
    /\ \E op \in {"search", "getone"} : Goto(t, op, "idle")
    /\ Take(t)
    /\ Finds(t)
    /\ UNCHANGED <<head, tail, nodecount, link, node, arg, tmp, used, phase, ops, items>>

\* slist_remove, slist_search and slist_getone when there is nothing to find, and
\* slist_traverse.
FindsNothing(t) ==
    /\ \E op \in {"remove", "search", "getone", "traverse"} : Goto(t, op, "done")
    /\ Take(t)
    /\ ~Finds(t) /\ ~(Endless /\ WalksOn(t))
    /\ UNCHANGED <<head, tail, nodecount, link, node, arg, tmp, used, phase, ops, items>>

\* The same on a cycle: the thread goes round with the lock held.
GoesRound(t) ==
    /\ \E op \in {"remove", "search", "traverse"} : Goto(t, op, "endless")
    /\ Take(t)
    /\ Endless /\ WalksOn(t)
    /\ UNCHANGED <<head, tail, nodecount, link, node, arg, tmp, used, phase, ops, items>>
-----------------------------------------------------------------------------
\* slist_sort_internal: the nodes below the pivot, the first node, and the
\* others are each collected back to front and sorted in turn.
Backward(s, places) ==
    [k \in 1 .. Cardinality(places) |->
        s[CHOOSE i \in places : Cardinality({j \in places : j >= i}) = k]]
Below(s) == {i \in 2 .. Len(s) : Key[s[i]] < Key[s[1]]}
SortInternal[s \in Seq(Nodes)] ==
    IF Len(s) < 2 THEN s
    ELSE SortInternal[Backward(s, Below(s))] \o <<s[1]>>
            \o SortInternal[Backward(s, (2 .. Len(s)) \ Below(s))]

SortedChain_OneLevel ==
    LET s == Chain
    IN  IF Len(s) < 2 THEN s
        ELSE Backward(s, Below(s)) \o <<s[1]>> \o Backward(s, (2 .. Len(s)) \ Below(s))
SortedChain == SortInternal[Chain]

\* tail is left where it was.
SListSort(t) ==
    /\ Goto(t, "sort", "done")
    /\ Take(t)
    /\ ~Endless
    /\ link' = Linked(SortedChain)
    /\ head' = IF Chain = <<>> THEN None ELSE Head(SortedChain)
    /\ items' = SortInternal[items]
    /\ UNCHANGED <<tail, nodecount, node, arg, tmp, used, phase, ops>>

\* On a cycle the recursion meets its first node again and does not end.
SortOverflows(t) ==
    /\ phase = "live" /\ pc[t] = "sort" /\ pc' = [pc EXCEPT ![t] = "done"]
    /\ Take(t)
    /\ Endless
    /\ phase' = "crashed"
    /\ UNCHANGED <<head, tail, nodecount, link, node, arg, tmp, used, ops, items>>

Return(t) ==
    /\ Goto(t, "done", "idle")
    /\ Unlock(t)
    /\ UNCHANGED <<head, tail, nodecount, link, node, arg, tmp, used, phase, ops, items>>

Quiescent == phase = "live" /\ \A t \in Threads : pc[t] = "idle"

SListInit ==
    /\ "init" \in Called /\ Quiescent
    /\ used' = used \ Range(Chain)
    /\ head' = None /\ tail' = None /\ nodecount' = 0
    /\ items' = <<>>
    /\ phase' = IF Freeable THEN "live" ELSE "crashed"
    /\ UNCHANGED <<lock, link, pc, node, arg, tmp, ops>>

SListFree ==
    /\ "free" \in Called /\ Quiescent
    /\ used' = used \ Range(Chain)
    /\ phase' = IF Freeable THEN "freed" ELSE "crashed"
    /\ items' = <<>>
    /\ UNCHANGED <<head, tail, nodecount, lock, link, pc, node, arg, tmp, ops>>

Step(t) == \/ SListPrepend(t) \/ SListAppend(t) \/ AddCount(t)
           \/ SListRemove(t) \/ RemoveUnlock(t) \/ RemoveLoad(t) \/ RemoveCount(t)
           \/ FindsAndReturns(t) \/ FindsNothing(t) \/ GoesRound(t)
           \/ SListSort(t) \/ SortOverflows(t) \/ Return(t)
Next == (\E t \in Threads : CallAdd(t) \/ CallOther(t) \/ Step(t))
        \/ SListInit \/ SListFree

\* Strong fairness: a call that can get the lock again and again does get it.
Spec == Init /\ [][Next]_vars /\ \A t \in Threads : SF_vars(Step(t))
-----------------------------------------------------------------------------
Inside == {"added", "unlinked", "done", "endless"}
Uncounted == {"unlinked", "removed", "uncount"}
Places == Inside \cup {"idle", "removed", "uncount"}

TypeOK ==
    /\ {head, tail} \subseteq Nodes \cup {None}
    /\ nodecount \in 0 .. CountMod - 1
    /\ lock \in Threads \cup {None}
    /\ link \in [Nodes -> Nodes \cup {None}]
    /\ pc \in [Threads -> AllOps \cup Places]
    /\ node \in [Threads -> Nodes \cup {None}]
    /\ arg \in [Threads -> Keys \cup {0}]
    /\ tmp \in [Threads -> 0 .. CountMod - 1]
    /\ used \subseteq Nodes
    /\ phase \in {"live", "freed", "crashed"} /\ ops \in Programs
    /\ items \in Seq(Nodes)

\* Clients whose calls do not meet: one thread makes them all, or all of them add.
Apart == \/ \E t \in Threads : \A u \in Threads \ {t} : ops[u] = {}
         \/ Called \subseteq {"append", "prepend", "init", "free"}
\* A sort moves the last node away from tail, so clients that sort must not
\* append afterwards.
Orderly == Apart /\ ~({"sort", "append"} \subseteq Called)

\* A thread has the lock exactly from where its call takes it to where the call
\* unlocks: no path returns with it, whatever adds, removes and sorts do to the
\* links, as long as slist_search and slist_getone are not called.  A walk that
\* goes round a cycle has it for ever.
LockBalanced == Called \cap {"search", "getone"} = {} =>
    \A t \in Threads : lock = t <=> pc[t] \in Inside

\* The chain from head holds what was added and not removed, in order, and tail
\* is its last node; no walk over it goes round for ever.  nodecount, which
\* decides the branch slist_remove takes and bounds slist_traverse, is its length
\* but for the calls that have yet to count, and when no call is under way the
\* nodes that are not free are the chain's.
ListExact == phase = "live" /\ Orderly =>
    /\ Chain = items
    /\ "sort" \notin Called => tail = IF items = <<>> THEN None ELSE Last(items)
    /\ nodecount = Len(items) - Cardinality({t \in Threads : pc[t] = "added"})
                     + Cardinality({t \in Threads : pc[t] \in Uncounted})
    /\ \A t \in Threads : pc[t] # "endless"
    /\ Quiescent => used = Range(Chain)

\* slist_sort leaves the same nodes, from small to large, whatever the calls
\* before it.
SortSorts == [][\A t \in Threads : SListSort(t) /\ Orderly =>
    /\ \A i, j \in 1 .. Len(Chain') : i < j => Key[Chain'[i]] <= Key[Chain'[j]]
    /\ Len(Chain') = Len(Chain) /\ Range(Chain') = Range(Chain)]_vars
-----------------------------------------------------------------------------
\* src/slist.h says of slist_search: "return pointer of node or NULL if not
\* found".  Either way it returns.
SearchReturns == \A t \in Threads : pc[t] = "search" ~> pc[t] = "idle"

\* src/slist.h says of slist_remove: "Remove a particular node from a slist
\* according to data. succeed 1 or failed 0."  One or the other, it returns.
RemoveReturns == \A t \in Threads :
    pc[t] = "remove" ~> (pc[t] = "idle" \/ phase = "crashed")
=============================================================================
