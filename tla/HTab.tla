-------------------------------- MODULE HTab --------------------------------
(***************************************************************************)
(* src/htab.c: the hash table under conf.c, with chains linked both ways,  *)
(* so that an entry is taken out without its predecessor being searched.   *)
(* One thread; allocation may fail.  Keys and values are owned by the      *)
(* table once put, so clients pass keys of their own to get and remove.    *)
(*                                                                         *)
(* A definition named X_Y is a slip one could make in X; the specification *)
(* does not use it.                                                        *)
(***************************************************************************)
EXTENDS Integers, FiniteSets, SequencesExt

CONSTANTS Keys, Vals, None,
          Hash,          \* htab_hash_cb
          Cells,         \* where calloc may put an htab_entry_t
          InitialSize    \* the size given to htab_init

ASSUME HashAssumption == Hash \in [Keys -> Nat]
ASSUME SizeAssumption == InitialSize \in Nat \ {0}
ASSUME NoneAssumption == None \notin Keys \cup Vals \cup Cells
ASSUME CellsAssumption == IsFiniteSet(Cells)

VARIABLES size, items,   \* of struct htab_s
          bucket,        \* the first entry of each chain
          heap,          \* the entries allocated
          at,            \* the entry htab_foreach is at
          due,           \* history: the entries it has yet to reach
          new,           \* history: those put since it began and not reached
          call           \* the last call: its name, what it was given and returned

vars == <<size, items, bucket, heap, at, due, new, call>>

Call(op, arg, ret) == [op |-> op, arg |-> arg, ret |-> ret]

Pointers == Cells \cup {None}

\* Entries from p on, following next; walk[n] gives the first n.
ChainFrom(p) ==
    LET walk[n \in 0 .. Cardinality(Cells)] ==
            [q \in Pointers |-> IF n = 0 \/ q \notin DOMAIN heap THEN <<>>
                               ELSE <<q>> \o walk[n - 1][heap[q].next]]
    IN  walk[Cardinality(Cells)][p]
Chain(i) == ChainFrom(bucket[i])

\* Those of all chains, as the loops over the table meet them.
Entries ==
    LET upto[i \in 0 .. size] == IF i = 0 THEN <<>> ELSE upto[i - 1] \o Chain(i - 1)
    IN  upto[size]

Index(k, n) == Hash[k] % n
\* The first entry with key k; search[n] looks at n of them.
Found(k) ==
    LET search[n \in 0 .. Cardinality(Cells)] ==
            [q \in Pointers |-> IF n = 0 \/ q \notin DOMAIN heap THEN None
                                ELSE IF heap[q].key = k THEN q
                                ELSE search[n - 1][heap[q].next]]
    IN  search[Cardinality(Cells)][bucket[Index(k, size)]]
ValueOf(k) == IF Found(k) = None THEN None ELSE heap[Found(k)].value

NoEntries(n) == [i \in 0 .. n - 1 |-> None]

Init == /\ size = InitialSize /\ items = 0
        /\ bucket = NoEntries(InitialSize)
        /\ heap = <<>>
        /\ at = None /\ due = {} /\ new = {}
        /\ call = Call("create", None, "ok")
-----------------------------------------------------------------------------
\* Put p in front of chain i: s is the store, buckets and heap.
Push_KeepsPrev(s, p, i) ==
    [bucket |-> [s.bucket EXCEPT ![i] = p],
     heap |-> [c \in DOMAIN s.heap |->
                  CASE c = p -> [s.heap[c] EXCEPT !.next = s.bucket[i]]
                    [] c = s.bucket[i] /\ c # p -> [s.heap[c] EXCEPT !.prev = p]
                    [] OTHER -> s.heap[c]]]
Push(s, p, i) ==
    [bucket |-> [s.bucket EXCEPT ![i] = p],
     heap |-> [c \in DOMAIN s.heap |->
                  CASE c = p -> [s.heap[c] EXCEPT !.prev = None, !.next = s.bucket[i]]
                    [] c = s.bucket[i] /\ c # p -> [s.heap[c] EXCEPT !.prev = p]
                    [] OTHER -> s.heap[c]]]

\* htab_resize: each entry goes to the front of its new chain.
Rehashed(n) ==
    LET e == Entries
        after[m \in 0 .. Len(e)] ==
            IF m = 0 THEN [bucket |-> NoEntries(n), heap |-> heap]
            ELSE Push(after[m - 1], e[m], Index(heap[e[m]].key, n))
    IN  after[Len(e)]

Crowded == 13 * items > 10 * size      \* items * 1.3 > size
Room == IF Crowded THEN 2 * size ELSE size
Roomy == IF Crowded THEN Rehashed(Room) ELSE [bucket |-> bucket, heap |-> heap]

\* A client that iterates adds nothing that makes the table grow.
MayAdd == at # None => ~Crowded

\* The slot of a new entry is taken after the table has grown.
Slot_BeforeResize(k) == Index(k, size)
Slot(k) == Index(k, Room)

\* htab_put where the key is there: key and value change hands.
PutOld(k, v) ==
    /\ Found(k) # None
    /\ heap' = [heap EXCEPT ![Found(k)].value = v]
    /\ call' = Call("put", <<k, v>>, "ok")
    /\ UNCHANGED <<size, items, bucket, at, due, new>>

PutNew(k, v) ==
    /\ Found(k) = None /\ MayAdd
    /\ \E p \in Cells \ DOMAIN heap :
          LET r == Roomy
              fresh == [c \in DOMAIN heap \cup {p} |->
                          IF c = p THEN [key |-> k, value |-> v, prev |-> None, next |-> None]
                          ELSE r.heap[c]]
              s == Push([bucket |-> r.bucket, heap |-> fresh], p, Slot(k))
          IN  /\ bucket' = s.bucket /\ heap' = s.heap
              /\ new' = IF at = None THEN {} ELSE new \cup {p}
    /\ size' = Room
    /\ items' = items + 1
    /\ call' = Call("put", <<k, v>>, "ok")
    /\ UNCHANGED <<at, due>>

\* calloc fails in htab_resize, or for the entry when the table has grown.
ResizeFails(k, v) ==
    /\ Found(k) = None /\ MayAdd /\ Crowded
    /\ call' = Call("put", <<k, v>>, "err")
    /\ UNCHANGED <<size, items, bucket, heap, at, due, new>>
EntryFails(k, v) ==
    /\ Found(k) = None /\ MayAdd
    /\ size' = Room /\ bucket' = Roomy.bucket /\ heap' = Roomy.heap
    /\ call' = Call("put", <<k, v>>, "err")
    /\ UNCHANGED <<items, at, due, new>>

htab_put(k, v) == PutOld(k, v) \/ PutNew(k, v) \/ ResizeFails(k, v) \/ EntryFails(k, v)

htab_get(k) ==
    /\ call' = Call("get", k, ValueOf(k))
    /\ UNCHANGED <<size, items, bucket, heap, at, due, new>>

Uncount(n) == n - 1

\* Unlinking p needs the bucket only when p is first in its chain.
Unlink(p) ==
    LET e == heap[p]
    IN  [c \in DOMAIN heap \ {p} |->
            CASE c = e.next -> [heap[c] EXCEPT !.prev = e.prev]
              [] c = e.prev /\ c # e.next -> [heap[c] EXCEPT !.next = e.next]
              [] OTHER -> heap[c]]

\* A client that iterates does not remove the entry it is at.
htab_remove(k) ==
    /\ call' = Call("remove", k, "ok")
    /\ \/ Found(k) = None /\ UNCHANGED <<size, items, bucket, heap, at, due, new>>
       \/ /\ Found(k) # None /\ Found(k) # at
          /\ LET p == Found(k)
             IN  /\ heap' = Unlink(p)
                 /\ bucket' = IF heap[p].prev # None THEN bucket
                              ELSE [bucket EXCEPT ![Index(k, size)] = heap[p].next]
                 /\ due' = due \ {p} /\ new' = new \ {p}
          /\ items' = Uncount(items)
          /\ UNCHANGED <<size, at>>

\* htab_destroy, and htab_init for the next table.
htab_destroy ==
    /\ at = None
    /\ heap' = [c \in DOMAIN heap \ Range(Entries) |-> heap[c]]
    /\ bucket' = NoEntries(InitialSize)
    /\ size' = InitialSize /\ items' = 0
    /\ call' = Call("clear", None, "ok")
    /\ UNCHANGED <<at, due, new>>
-----------------------------------------------------------------------------
FirstFrom(i) ==
    LET taken == {j \in i .. size - 1 : bucket[j] # None}
    IN  IF taken = {} THEN None
        ELSE bucket[CHOOSE j \in taken : \A h \in taken : j <= h]

htab_begin ==
    /\ at = None
    /\ at' = FirstFrom(0)
    /\ due' = Range(Entries) \ {at'}
    /\ UNCHANGED <<size, items, bucket, heap, new, call>>

Following_SameBucket(p) ==
    IF heap[p].next # None THEN heap[p].next ELSE FirstFrom(Index(heap[p].key, size))
Following(p) ==
    IF heap[p].next # None THEN heap[p].next ELSE FirstFrom(Index(heap[p].key, size) + 1)

htab_next ==
    /\ at # None
    /\ at' = Following(at)
    /\ due' = due \ {at'}
    /\ new' = IF at' = None THEN {} ELSE new \ {at'}
    /\ UNCHANGED <<size, items, bucket, heap, call>>

\* The body of htab_foreach breaks out of the loop.
Break ==
    /\ at # None
    /\ at' = None /\ due' = {} /\ new' = {}
    /\ UNCHANGED <<size, items, bucket, heap, call>>

Next == \/ \E k \in Keys, v \in Vals : htab_put(k, v)
        \/ \E k \in Keys : htab_get(k) \/ htab_remove(k)
        \/ htab_destroy \/ htab_begin \/ htab_next \/ Break

Spec == Init /\ [][Next]_vars
-----------------------------------------------------------------------------
TypeOK == LET Live == DOMAIN heap \cup {None} IN
    /\ size \in Nat \ {0} /\ items \in Nat
    /\ bucket \in [0 .. size - 1 -> Live]
    /\ DOMAIN heap \subseteq Cells
    /\ \A c \in DOMAIN heap : heap[c] \in [key : Keys, value : Vals,
                                           prev : Live, next : Live]
    /\ at \in Live /\ due \cup new \subseteq DOMAIN heap
    /\ call.ret \in {"ok", "err", None} \cup Vals

\* No pointer dangles; prev is the inverse of next in every chain and null at
\* its head, where htab_remove decides whether the bucket must change; every
\* entry is in the chain its hash calls for, every allocated one can be reached
\* once, and items counts them: no sequence of puts, failed puts, growths and
\* removals leaks one or leaves it unfindable.
WellLinked ==
    /\ TypeOK
    /\ items = Cardinality(DOMAIN heap)
    /\ \A i \in 0 .. size - 1 : LET c == Chain(i) IN
          \A j \in 1 .. Len(c) :
             /\ heap[c[j]].prev = IF j = 1 THEN None ELSE c[j - 1]
             /\ Index(heap[c[j]].key, size) = i
    /\ IsInjective(Entries)
    /\ Range(Entries) = DOMAIN heap

\* htab_foreach reaches each entry that was there when it began and has not been
\* removed since, and no entry twice, whatever is put and removed in its body.
ForeachExact == [][htab_next => IF at' = None THEN due = {}
                                ELSE at' \in due \cup new]_vars

\* A put, get or remove acts as on a map, on the key it names and no other; a put
\* that fails changes nothing, and one of a key that is there does not fail.
Map == INSTANCE MapSpec WITH map <- [k \in Keys |-> ValueOf(k)],
                             Fallible <- TRUE, RemoveTells <- FALSE
ImplementsMap == Map!Spec
=============================================================================
