-------------------------------- MODULE Dict --------------------------------
(***************************************************************************)
(* src/dict.c: a chained hash table that doubles when it is full, with an  *)
(* iterator that its user interleaves with other calls.  One thread; an    *)
(* entry is named by its key, of which a table holds one at most.          *)
(*                                                                         *)
(* A definition named X_Y is a slip one could make in X; the specification *)
(* does not use it.                                                        *)
(***************************************************************************)
EXTENDS Integers, SequencesExt

CONSTANTS Keys, Vals, None,
          Hash,            \* hashFunction of the dictType
          InitialSize,     \* DICT_HT_INITIAL_SIZE
          MaxSize          \* the largest table whose bytes the int of _dictAlloc can
                           \* count, 2^27 of 8 bytes each: what is said of sizes
                           \* below needs no width, since signed and unsigned 32
                           \* bits have room for twice as many

ASSUME HashAssumption == Hash \in [Keys -> Nat]
ASSUME SizeAssumption ==    \* both are powers of two
    /\ \E e \in 0 .. 31 : InitialSize = 2 ^ e
    /\ \E e \in 0 .. 31 : MaxSize = 2 ^ e
    /\ InitialSize \in Nat \ {0} /\ MaxSize \in Nat /\ InitialSize <= MaxSize

VARIABLES size, used,    \* of struct dict
          table,         \* the keys chained in each bucket, first to last
          val,           \* the value in each key's entry
          iter,          \* the dictIterator
          state,         \* "idle", "random" (in dictGetRandomKey), "crashed"
          call,          \* the last call: its name, what it was given and returned
          due,           \* history: the entries an iteration has yet to return
          calm           \* history: has the iteration's user called nothing
                         \* but deletes of the entry returned last, and finds?

vars == <<size, used, table, val, iter, state, call, due, calm>>
iteration == <<iter, due, calm>>

Freed == "freed"    \* a pointer to an entry that was freed
ASSUME NoneAssumption == /\ Keys \cap {None, Freed} = {} /\ None \notin Vals
                         /\ None # Freed
ASSUME KeysAssumption == IsFiniteSet(Keys)    \* memory is finite
NoIterator == [on |-> FALSE, index |-> -1, entry |-> None, next |-> None]

\* The sizes a table can have: the powers of two divide MaxSize.
Sizes == {p \in InitialSize .. MaxSize : MaxSize % p = 0}

\* For what can be allocated.
_dictNextPower(n) == CHOOSE p \in Sizes : p >= n /\ \A q \in Sizes : q >= n => p <= q

Bucket(k, n) == Hash[k] % n             \* dictHashKey & sizemask
Held == UNION {Range(table[i]) : i \in DOMAIN table}     \* every entry
Present(k) == size > 0 /\ k \in Range(table[Bucket(k, size)])
Find(k) == IF Present(k) THEN val[k] ELSE None

Call(op, arg, ret) == [op |-> op, arg |-> arg, ret |-> ret]

\* dictCreate.
Init == /\ size = 0 /\ used = 0 /\ table = <<>>
        /\ val = [k \in Keys |-> None]
        /\ iter = NoIterator
        /\ state = "idle" /\ call = Call("create", None, "ok") /\ due = {} /\ calm = TRUE
-----------------------------------------------------------------------------
\* The table dictExpand leaves behind.  Entries are moved in the order the
\* old table has them, bucket by bucket, each to the front of its new bucket.
Places == UNION {{i} \X (1 .. Len(table[i])) : i \in DOMAIN table}
At(p) == table[p[1]][p[2]]
NotBefore(p, q) == p[1] > q[1] \/ (p[1] = q[1] /\ p[2] >= q[2])
Backward(places) ==
    [x \in 1 .. Cardinality(places) |->
        At(CHOOSE p \in places : Cardinality({q \in places : NotBefore(q, p)}) = x)]
Rehashed(n) == [i \in 0 .. n - 1 |-> Backward({p \in Places : Bucket(At(p), n) = i})]

\* _dictExpandIfNeeded: what size the table is to have.  It is never refused, and
\* where no such table can be allocated _dictAlloc comes back null, or with a block
\* that is too short, and dictExpand clears what is not there.
Needs == size = 0 \/ used = size
Wanted == IF size = 0 THEN InitialSize ELSE size * 2
TooLarge == Needs /\ Wanted > MaxSize
Room == IF Needs THEN _dictNextPower(Wanted) ELSE size
Roomy == IF Needs THEN Rehashed(Room) ELSE table

Idle == state = "idle"
Disturb == calm' = (calm /\ ~iter.on)    \* entries may be added or moved

\* dictAdd on a key that is absent; the table has grown by then.
AddNew(k, v) ==
    /\ ~TooLarge /\ ~Present(k)
    /\ size' = Room
    /\ table' = [Roomy EXCEPT ![Bucket(k, Room)] = <<k>> \o @]
    /\ used' = used + 1
    /\ val' = [val EXCEPT ![k] = v]
    /\ UNCHANGED state

\* The table may grow before dictAdd finds the key.
AddOld(k) ==
    /\ ~TooLarge /\ Present(k)
    /\ size' = Room /\ table' = Roomy
    /\ UNCHANGED <<used, state>>

GrowthFails ==
    /\ TooLarge
    /\ state' = "crashed"
    /\ UNCHANGED <<size, table, used, val, call>>

DictAdd(k, v) ==
    /\ Idle /\ Disturb
    /\ \/ AddNew(k, v) /\ call' = Call("add", <<k, v>>, "ok")
       \/ AddOld(k) /\ call' = Call("add", <<k, v>>, "err") /\ UNCHANGED val
       \/ GrowthFails
    /\ UNCHANGED <<iter, due>>

\* When dictAdd fails the key is there.
DictReplace(k, v) ==
    /\ Idle /\ Disturb
    /\ \/ AddNew(k, v) /\ call' = Call("put", <<k, v>>, "ok")
       \/ /\ AddOld(k) /\ call' = Call("put", <<k, v>>, "ok")
          /\ val' = [val EXCEPT ![k] = v]
       \/ GrowthFails
    /\ UNCHANGED <<iter, due>>

Without_First(chain, k) == Tail(chain)
Without(chain, k) == RemoveAt(chain, CHOOSE x \in DOMAIN chain : chain[x] = k)

Uncount_Forgotten(n) == n
Uncount(n) == n - 1

\* dictDelete and dictDeleteNoFree, which differ in the destructors called.
DictDelete(k) ==
    /\ Idle
    /\ calm' = (calm /\ (iter.on /\ Present(k) => iter.entry = k))
    /\ \/ /\ Present(k)
          /\ table' = [table EXCEPT ![Bucket(k, size)] = Without(@, k)]
          /\ used' = Uncount(used)
          /\ val' = [val EXCEPT ![k] = None]
          /\ iter' = IF iter.next = k THEN [iter EXCEPT !.next = Freed] ELSE iter
          /\ due' = due \ {k}
          /\ call' = Call("remove", k, "ok")
       \/ /\ ~Present(k)
          /\ call' = Call("remove", k, "err")
          /\ UNCHANGED <<table, used, val, iter, due>>
    /\ UNCHANGED <<size, state>>

DictFind(k) ==
    /\ Idle
    /\ call' = Call("get", k, Find(k))
    /\ UNCHANGED <<size, used, table, val, state, iteration>>

\* dictExpand, and dictResize, which asks for the number of entries.
Expand(n) ==
    /\ Idle /\ Disturb
    /\ \/ /\ used <= n /\ n <= MaxSize
          /\ size' = _dictNextPower(n)
          /\ table' = Rehashed(_dictNextPower(n))
          /\ call' = Call("expand", n, "ok")
          /\ UNCHANGED state
       \/ /\ used > n
          /\ call' = Call("expand", n, "err")
          /\ UNCHANGED <<size, table, state>>
       \/ /\ used <= n /\ n > MaxSize
          /\ state' = "crashed"
          /\ UNCHANGED <<size, table, call>>
    /\ UNCHANGED <<used, val, iter, due>>

DictResize == Expand(IF used < InitialSize THEN InitialSize ELSE used)
DictExpand == \E n \in 0 .. MaxSize + 1 : Expand(n)

\* _dictClear; dictRelease frees the dict as well.
DictClear ==
    /\ Idle /\ ~iter.on
    /\ size' = 0 /\ used' = 0 /\ table' = <<>>
    /\ val' = [k \in Keys |-> None]
    /\ call' = Call("clear", None, "ok")
    /\ UNCHANGED <<state, iteration>>
-----------------------------------------------------------------------------
GetIterator ==
    /\ Idle /\ ~iter.on
    /\ iter' = [NoIterator EXCEPT !.on = TRUE]
    /\ due' = Held /\ calm' = TRUE
    /\ UNCHANGED <<size, used, table, val, state, call>>

\* dictNext saves the successor of the entry it returns.
Successor(k) == LET chain == table[Bucket(k, size)]
                    later == {i \in 2 .. Len(chain) : chain[i - 1] = k}
                IN  IF later = {} THEN None ELSE chain[CHOOSE i \in later : TRUE]
Following == iter.entry # None /\ iter.next # None
BucketsAhead_FromZero == {i \in 1 .. size - 1 : i > iter.index /\ table[i] # <<>>}
BucketsAhead == {i \in 0 .. size - 1 : i > iter.index /\ table[i] # <<>>}

Yield(k, i) ==
    /\ iter' = [on |-> TRUE, index |-> i, entry |-> k, next |-> Successor(k)]
    /\ due' = due \ {k}
    /\ UNCHANGED calm

NextInChain ==
    /\ Idle /\ iter.on /\ Following /\ iter.next # Freed
    /\ Yield(iter.next, iter.index)
    /\ UNCHANGED <<size, used, table, val, state, call>>

\* The saved successor was freed meanwhile.
NextIsFreed ==
    /\ Idle /\ iter.on /\ Following /\ iter.next = Freed
    /\ state' = "crashed"
    /\ UNCHANGED <<size, used, table, val, call, iteration>>

NextBucket ==
    /\ Idle /\ iter.on /\ ~Following /\ BucketsAhead # {}
    /\ LET i == CHOOSE j \in BucketsAhead : \A h \in BucketsAhead : j <= h
       IN  Yield(Head(table[i]), i)
    /\ UNCHANGED <<size, used, table, val, state, call>>

\* dictNext returns null and the client calls dictReleaseIterator.
NextIsNull ==
    /\ Idle /\ iter.on /\ ~Following /\ BucketsAhead = {}
    /\ iter' = NoIterator /\ due' = {} /\ calm' = TRUE
    /\ UNCHANGED <<size, used, table, val, state, call>>
-----------------------------------------------------------------------------
\* dictGetRandomKey tries buckets until one holds an entry: for ever if the
\* table has buckets and no entry.
RandomCall ==
    /\ Idle /\ size > 0
    /\ state' = "random"
    /\ UNCHANGED <<size, used, table, val, call, iteration>>

RandomHit(h) ==
    /\ state = "random" /\ h \in DOMAIN table /\ table[h] # <<>>
    /\ state' = "idle"
    /\ UNCHANGED <<size, used, table, val, call, iteration>>

Next == \/ \E k \in Keys, v \in Vals : DictAdd(k, v) \/ DictReplace(k, v)
        \/ \E k \in Keys : DictDelete(k) \/ DictFind(k)
        \/ DictExpand \/ DictResize \/ DictClear
        \/ GetIterator \/ NextInChain \/ NextIsFreed \/ NextBucket \/ NextIsNull
        \/ RandomCall \/ \E h \in 0 .. MaxSize - 1 : RandomHit(h)

Spec == Init /\ [][Next]_vars
-----------------------------------------------------------------------------
TypeOK ==
    /\ size \in {0} \cup Sizes
    /\ used \in Nat
    /\ table \in [0 .. size - 1 -> Seq(Keys)]
    /\ val \in [Keys -> Vals \cup {None}]
    /\ iter \in [on : BOOLEAN, index : Int, entry : Keys \cup {None},
                 next : Keys \cup {None, Freed}]
    /\ state \in {"idle", "random", "crashed"}
    /\ call.ret \in {"ok", "err", None} \cup Vals
    /\ due \subseteq Keys /\ calm \in BOOLEAN

\* Every entry is in the bucket a lookup searches, once: growing and resizing
\* neither lose nor double an entry nor leave it under its old index.  used,
\* at which dictExpand stops moving entries, counts them exactly whatever was
\* added, deleted and moved: dictExpand asserts it ends at 0.
WellPlaced ==
    /\ used = Cardinality(Held)
    /\ \A i \in DOMAIN table : \A x, y \in DOMAIN table[i] :
          /\ Bucket(table[i][x], size) = i
          /\ table[i][x] = table[i][y] => x = y
    /\ \A k \in Keys : val[k] # None <=> k \in Held

\* dictNext may be mixed with deletes of the entry it returned last: it returns
\* every entry that was in the table once and ends when none is left.
IterationExact == [][calm => /\ NextInChain \/ NextBucket => iter'.entry \in due
                             /\ NextIsNull => due = {}
                             /\ ~NextIsFreed]_vars

\* A table behaves as a map: each call returns what the map has for the key it names,
\* changes that key and no other, and fails only where a map's call has to.
Map == INSTANCE MapSpec WITH map <- [k \in Keys |-> Find(k)],
                             Fallible <- FALSE, RemoveTells <- TRUE
ImplementsMap == Map!Spec
=============================================================================
