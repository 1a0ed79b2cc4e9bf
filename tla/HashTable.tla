----------------------------- MODULE HashTable -----------------------------
(***************************************************************************)
(* src/hashtable.c: the intrusive hash table whose sizes are primes and    *)
(* which is rehashed in place when it grows.  The link to the next node is *)
(* in the client's node; a chain is given here as the sequence of nodes it *)
(* links.  One thread.  Equal keys may be inserted more than once.         *)
(*                                                                         *)
(* A definition named X_Y is a slip one could make in X; the specification *)
(* does not use it.                                                        *)
(***************************************************************************)
EXTENDS Integers, FiniteSets, SequencesExt

CONSTANTS Nodes, None,
          Key,           \* what h_cmp compares
          Hash,          \* h_hash: of the key
          primes,        \* the sizes a table can have
          MaxCount       \* bounds nodecount

ASSUME NodesAssumption == IsFiniteSet(Nodes) /\ None \notin Nodes    \* memory is finite
ASSUME HashAssumption == Key \in [Nodes -> Nat] /\ Hash \in [Range(Key) -> Nat]
ASSUME PrimesAssumption ==    \* the table of primes grows
    /\ primes \in Seq(Nat \ {0}) /\ primes # <<>>
    /\ \A i \in 2 .. Len(primes) : primes[i - 1] < primes[i]

VARIABLES tablelen, nodecount, loadlimit, primeindex,   \* of hashtable_t
          table,         \* the nodes chained in each bucket, first to last
          lost,          \* nodes the table has dropped without freeing them
          refused,       \* history: nodes refused since the last init
          seen,          \* the nodes the last traversal called back for
          call           \* the last call: its name, what it was given and returned

vars == <<tablelen, nodecount, loadlimit, primeindex, table, lost, refused, seen, call>>

Call(op, arg, ret) == [op |-> op, arg |-> arg, ret |-> ret]

LoadLimit(n) == (618 * n) \div 1000 + 1      \* n * max_load_factor + 1
Index(n, len) == Hash[Key[n]] % len
Held == UNION {Range(table[i]) : i \in DOMAIN table}
Empty(len) == [i \in 0 .. len - 1 |-> <<>>]

\* hashtable_create, for the smallest table.
Init == /\ primeindex = 1 /\ tablelen = primes[1]
        /\ loadlimit = LoadLimit(primes[1])
        /\ nodecount = 0
        /\ table = Empty(primes[1])
        /\ lost = {} /\ refused = 0 /\ seen = {}
        /\ call = Call("create", None, "ok")
-----------------------------------------------------------------------------
\* The nodes at some places of a chain, in its order or against it.
Forward(chain, places) ==
    [x \in 1 .. Cardinality(places) |->
        chain[CHOOSE p \in places : Cardinality({q \in places : q <= p}) = x]]
Backward(chain, places) ==
    [x \in 1 .. Cardinality(places) |->
        chain[CHOOSE p \in places : Cardinality({q \in places : q >= p}) = x]]

\* One bucket of the loop in hashtable_expand: nodes that stay keep their
\* order, the others go one by one to the front of the bucket they belong to,
\* which the loop may have passed or may yet come to.
Sift(t, i, len) ==
    [j \in 0 .. len - 1 |->
        LET there == {x \in DOMAIN t[i] : Index(t[i][x], len) = j}
        IN  IF j = i THEN Forward(t[i], there) ELSE Backward(t[i], there) \o t[j]]

\* The longer table, with nothing in its new buckets, after m buckets of that loop.
Longer(len) == [j \in 0 .. len - 1 |-> IF j < tablelen THEN table[j] ELSE <<>>]
After(len, m) ==
    LET after[i \in 0 .. m] == IF i = 0 THEN Longer(len) ELSE Sift(after[i - 1], i - 1, len)
    IN  after[m]
Expanded_StopsEarly(len) == After(len, tablelen - 1)
Expanded(len) == After(len, tablelen)

Pushed(t, n, len) == [t EXCEPT ![Index(n, len)] = <<n>> \o @]

\* Nodes are the client's until they are inserted.
Insertable(n) == n \notin Held /\ n \notin lost /\ nodecount < MaxCount

hashtable_insert(n) ==
    /\ Insertable(n)
    /\ nodecount' = nodecount + 1
    /\ table' = Pushed(table, n, tablelen)
    /\ call' = Call("insert", <<n, TRUE>>, "ok")
    /\ UNCHANGED <<tablelen, loadlimit, primeindex, lost, refused, seen>>

Overloaded == nodecount + 1 > loadlimit

InsertInRoom(n) ==
    /\ Insertable(n) /\ ~Overloaded
    /\ nodecount' = nodecount + 1
    /\ table' = Pushed(table, n, tablelen)
    /\ call' = Call("insert", <<n, TRUE>>, "ok")
    /\ UNCHANGED <<tablelen, loadlimit, primeindex, lost, refused, seen>>

NewLimit(len) == LoadLimit(len)

InsertExpanding(n) ==
    /\ Insertable(n) /\ Overloaded /\ primeindex < Len(primes)
    /\ primeindex' = primeindex + 1
    /\ tablelen' = primes[primeindex']
    /\ loadlimit' = NewLimit(tablelen')
    /\ nodecount' = nodecount + 1
    /\ table' = Pushed(Expanded(tablelen'), n, tablelen')
    /\ call' = Call("insert", <<n, TRUE>>, "ok")
    /\ UNCHANGED <<lost, refused, seen>>

\* The largest prime is in use, or realloc fails.  nodecount has been raised.
InsertRefused(n) ==
    /\ Insertable(n) /\ Overloaded
    /\ nodecount' = nodecount + 1
    /\ refused' = refused + 1
    /\ call' = Call("insert", <<n, FALSE>>, "err")
    /\ UNCHANGED <<tablelen, loadlimit, primeindex, table, lost, seen>>

hashtable_insert_ex(n) == InsertInRoom(n) \/ InsertExpanding(n) \/ InsertRefused(n)

\* The first node of the chain that compares equal to k.
First(k, chain) ==
    LET equal == {x \in DOMAIN chain : Key[chain[x]] = k}
    IN  IF equal = {} THEN None ELSE chain[CHOOSE x \in equal : \A y \in equal : x <= y]
Lookup(k) == First(k, table[Hash[k] % tablelen])

Without(chain, n) == RemoveAt(chain, CHOOSE x \in DOMAIN chain : chain[x] = n)

Uncount(n) == n - 1

hashtable_remove(k) ==
    /\ \/ /\ Lookup(k) # None
          /\ table' = [table EXCEPT ![Hash[k] % tablelen] = Without(@, Lookup(k))]
          /\ nodecount' = Uncount(nodecount)
          /\ call' = Call("remove", k, "ok")
       \/ /\ Lookup(k) = None
          /\ call' = Call("remove", k, "err")
          /\ UNCHANGED <<table, nodecount>>
    /\ UNCHANGED <<tablelen, loadlimit, primeindex, lost, refused, seen>>

hashtable_search(k) ==
    /\ call' = Call("search", k, Lookup(k))
    /\ UNCHANGED <<tablelen, nodecount, loadlimit, primeindex, table, lost, refused, seen>>
-----------------------------------------------------------------------------
\* The buckets a loop visits that counts n nodes down to zero, unsigned, and
\* looks at the count between buckets only.
Visited_OneShort(n) == {i \in 0 .. tablelen - 1 : i < n - 1}
Visited(n) ==
    LET before[i \in 0 .. tablelen] ==
            IF i = 0 THEN 0 ELSE before[i - 1] + Len(table[i - 1])
    IN  {i \in 0 .. tablelen - 1 : \A j \in 0 .. i : before[j] # n}
VisitedNodes(n) == UNION {Range(table[i]) : i \in Visited(n)}

\* hashtable_traverse, with a callback that leaves the table alone.
hashtable_traverse ==
    /\ seen' = VisitedNodes(nodecount)
    /\ UNCHANGED <<tablelen, nodecount, loadlimit, primeindex, table, lost, refused, call>>

hashtable_init ==
    /\ table' = Empty(tablelen)
    /\ nodecount' = 0 /\ refused' = 0
    /\ call' = Call("clear", None, "ok")
    /\ UNCHANGED <<tablelen, loadlimit, primeindex, lost, seen>>

\* hashtable_free stops early like the traversal; a new table is created.
hashtable_free ==
    /\ lost' = lost \cup (Held \ VisitedNodes(nodecount))
    /\ primeindex' = 1 /\ tablelen' = primes[1]
    /\ loadlimit' = LoadLimit(primes[1])
    /\ table' = Empty(primes[1])
    /\ nodecount' = 0 /\ refused' = 0
    /\ call' = Call("clear", None, "ok")
    /\ UNCHANGED seen

Next == \/ \E n \in Nodes : hashtable_insert(n) \/ hashtable_insert_ex(n)
        \/ \E n \in Nodes : hashtable_remove(Key[n]) \/ hashtable_search(Key[n])
        \/ hashtable_traverse \/ hashtable_init \/ hashtable_free

Spec == Init /\ [][Next]_vars
-----------------------------------------------------------------------------
TypeOK ==
    /\ primeindex \in 1 .. Len(primes) /\ tablelen = primes[primeindex]
    /\ loadlimit = LoadLimit(tablelen)
    /\ nodecount \in Nat /\ refused \in Nat
    /\ table \in [0 .. tablelen - 1 -> Seq(Nodes)]
    /\ lost \subseteq Nodes /\ seen \subseteq Nodes
    /\ call.ret \in {"ok", "err", None} \cup Nodes

\* Rehashing in place visits some nodes twice and passes others behind the
\* loop: still every node ends in the bucket its hash calls for, and once.  The
\* counter is off by the refusals since the table was last emptied, never below
\* what the table holds.
TableWellPlaced ==
    /\ TypeOK
    /\ nodecount = Cardinality(Held) + refused
    /\ \A i, j \in DOMAIN table : \A x \in 1 .. Len(table[i]), y \in 1 .. Len(table[j]) :
          /\ Index(table[i][x], tablelen) = i
          /\ table[i][x] = table[j][y] => i = j /\ x = y

\* Inserts, refused inserts, removals and searches are those of a set of nodes: each
\* answers for the node or key it names, and changes nothing else.
\* Both loops that stop when the counter says all nodes were seen reach every
\* node: a traversal calls back for each, hashtable_free frees each.
Set == INSTANCE KeyedSetSpec WITH held <- Held, Unique <- FALSE, RemoveTells <- TRUE
NothingSkipped == [][/\ hashtable_traverse => seen' = Held
                     /\ lost' = {}]_vars
TableImplementsSet == Set!Spec /\ NothingSkipped
=============================================================================
