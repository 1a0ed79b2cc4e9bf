------------------------------- MODULE PQueue -------------------------------
(***************************************************************************)
(* src/pqueue.c: a ring buffer of node pointers guarded by a spin lock.    *)
(* pqueue_addone and pqueue_getone take the lock; pqueue_count,            *)
(* pqueue_init and pqueue_free do not.  Each step below is one memory      *)
(* access that another thread could observe between two others.            *)
(*                                                                         *)
(* A thread owns a node (held) until it adds it, and owns it again when    *)
(* pqueue_getone hands it out.  pqueue_init and pqueue_free are called     *)
(* while no other call is under way: nothing in them would survive a       *)
(* concurrent call.                                                        *)
(*                                                                         *)
(* A definition named X_Y is a slip one could make in X, such as leaving   *)
(* out a test; the specification does not use it.  Each property is shown  *)
(* to notice one.                                                          *)
(***************************************************************************)
EXTENDS Integers, FiniteSets

CONSTANTS Threads,     \* the threads that share the queue
          Nodes,       \* the nodes the clients pass through it
          None,        \* a null pointer, and no thread
          MaxLen       \* the length pqueue_create is given

ASSUME MaxLenAssumption == MaxLen \in Nat \ {0}     \* pqueue_create refuses 0
ASSUME NoneAssumption == None \notin Threads /\ None \notin Nodes

Zeroed == "zeroed"     \* a lock word overwritten with zeros, read as taken
ASSUME ZeroedAssumption == Zeroed \notin Threads /\ Zeroed # None

VARIABLES top, tail, len, maxlen, slot,  \* the fields of struct pqueue_s
          lock,     \* the holder of the spin lock, or None
          pc,       \* where each thread is in its call
          node,     \* the argument of addone, the local pone of getone
          held,     \* the nodes each thread owns
          freed,    \* the nodes the queue itself has passed to free()
          phase,    \* "live", "freed", or "crashed" (the process died)
          dropped   \* history: the nodes queued when init or free was called

ring == <<top, tail, len, maxlen, slot>>
vars == <<top, tail, len, maxlen, slot, lock, pc, node, held,
          freed, phase, dropped>>
fate == <<freed, phase, dropped>>

Slots == 0 .. MaxLen - 1
Next1(i) == (i + 1) % maxlen                 \* the index after i
Full_Never == FALSE
Full == Next1(top) = tail
Empty_TooSoon == len <= 1
Empty == top = tail
Goto(t, from, to) == /\ phase = "live"
                     /\ pc[t] = from
                     /\ pc' = [pc EXCEPT ![t] = to]
CanLock_NoWait == TRUE
CanLock == lock = None
Unlock_Forgotten == lock' = lock
Unlock == lock' = None

\* pqueue_create, after which each thread holds its share of the nodes.
Init == /\ top = 0 /\ tail = 0 /\ len = 0
        /\ maxlen = MaxLen
        /\ slot = [i \in Slots |-> None]
        /\ lock = None
        /\ pc = [t \in Threads |-> "idle"]
        /\ node = [t \in Threads |-> None]
        /\ \E owner \in [Nodes -> Threads] :
              held = [t \in Threads |-> {n \in Nodes : owner[n] = t}]
        /\ freed = {} /\ dropped = {}
        /\ phase = "live"
-----------------------------------------------------------------------------
AddCall(t) == \E n \in held[t] :
    /\ Goto(t, "idle", "add_lock")
    /\ node' = [node EXCEPT ![t] = n]
    /\ held' = [held EXCEPT ![t] = @ \ {n}]
    /\ UNCHANGED <<ring, lock, fate>>

GetCall(t) ==
    /\ Goto(t, "idle", "get_lock")
    /\ UNCHANGED <<ring, lock, node, held, fate>>

\* pthread_spin_lock, external: taken by any one of the waiters.
Lock(t) ==
    /\ CanLock
    /\ \/ Goto(t, "add_lock", "add_test")
       \/ Goto(t, "get_lock", "get_test")
    /\ lock' = t
    /\ UNCHANGED <<ring, node, held, fate>>

\* After pqueue_init maxlen is 0, and the remainder traps.
AddDivideByZero(t) ==
    /\ Goto(t, "add_test", "trap")
    /\ maxlen = 0
    /\ phase' = "crashed"
    /\ UNCHANGED <<ring, lock, node, held, freed, dropped>>

AddFull_WaitsInLock(t) ==
    /\ Goto(t, "add_test", "add_test")
    /\ maxlen # 0 /\ Full
    /\ UNCHANGED <<ring, lock, node, held, fate>>
AddFull(t) ==
    /\ Goto(t, "add_test", "idle")
    /\ maxlen # 0
    /\ Full
    /\ Unlock
    /\ held' = [held EXCEPT ![t] = @ \cup {node[t]}]
    /\ node' = [node EXCEPT ![t] = None]
    /\ UNCHANGED <<ring, fate>>

AddStore(t) ==
    /\ Goto(t, "add_test", "add_top")
    /\ maxlen # 0
    /\ ~Full
    /\ slot' = [slot EXCEPT ![top] = node[t]]
    /\ UNCHANGED <<top, tail, len, maxlen, lock, node, held, fate>>

AddTop(t) ==
    /\ Goto(t, "add_top", "add_len")
    /\ top' = Next1(top)
    /\ UNCHANGED <<tail, len, maxlen, slot, lock, node, held, fate>>

AddReturn(t) ==
    /\ Goto(t, "add_len", "idle")
    /\ len' = len + 1
    /\ Unlock
    /\ node' = [node EXCEPT ![t] = None]
    /\ UNCHANGED <<top, tail, maxlen, slot, held, fate>>
-----------------------------------------------------------------------------
GetEmpty(t) ==
    /\ Goto(t, "get_test", "idle")
    /\ Empty
    /\ Unlock
    /\ UNCHANGED <<ring, node, held, fate>>

GetRead(t) ==
    /\ Goto(t, "get_test", "get_tail")
    /\ ~Empty
    /\ node' = [node EXCEPT ![t] = slot[tail]]
    /\ UNCHANGED <<ring, lock, held, fate>>

GetTail(t) ==
    /\ Goto(t, "get_tail", "get_len")
    /\ tail' = Next1(tail)
    /\ UNCHANGED <<top, len, maxlen, slot, lock, node, held, fate>>

GetReturn(t) ==
    /\ Goto(t, "get_len", "idle")
    /\ len' = len - 1
    /\ Unlock
    /\ held' = [held EXCEPT ![t] = @ \cup {node[t]}]
    /\ node' = [node EXCEPT ![t] = None]
    /\ UNCHANGED <<top, tail, maxlen, slot, fate>>
-----------------------------------------------------------------------------
\* How many slots from tail up to top are in use, and which.
Used == IF tail <= top THEN top - tail ELSE top - tail + MaxLen
Live == {i \in Slots : IF tail <= top THEN tail <= i /\ i < top
                                      ELSE tail <= i \/ i < top}

pqueue_count == len     \* read without the lock

\* The pointers the loops of pqueue_init and pqueue_free pass to free(): they
\* start at top, where the next node would go, and do not wrap.
Released == {slot[i] : i \in {j \in Slots : top <= j /\ j < top + len}} \ {None}

\* A loop past the last slot reads memory the queue does not own: it may find
\* zeros and stop nothing, or pass garbage to free() and die.
ReleaseOutcomes == IF top + len > maxlen THEN {"survives", "dies"} ELSE {"survives"}

Quiescent == phase = "live" /\ \A t \in Threads : pc[t] = "idle"

\* pqueue_init zeroes the whole struct, maxlen and lock word included.  A zero
\* lock word is a free lock on some platforms and a taken one on others.
PQueueInit ==
    /\ Quiescent
    /\ dropped' = dropped \cup {slot[i] : i \in Live}
    /\ freed' = freed \cup Released
    /\ \E outcome \in ReleaseOutcomes :
          phase' = IF outcome = "dies" THEN "crashed" ELSE "live"
    /\ top' = 0 /\ tail' = 0 /\ len' = 0 /\ maxlen' = 0
    /\ slot' = [i \in Slots |-> None]
    /\ lock' \in {None, Zeroed}
    /\ UNCHANGED <<pc, node, held>>

PQueueFree ==
    /\ Quiescent
    /\ dropped' = dropped \cup {slot[i] : i \in Live}
    /\ freed' = freed \cup Released
    /\ \E outcome \in ReleaseOutcomes :
          phase' = IF outcome = "dies" THEN "crashed" ELSE "freed"
    /\ UNCHANGED <<ring, lock, pc, node, held>>

Add(t) == \/ AddCall(t) \/ AddDivideByZero(t) \/ AddFull(t)
          \/ AddStore(t) \/ AddTop(t) \/ AddReturn(t)
Get(t) == GetCall(t) \/ GetEmpty(t) \/ GetRead(t) \/ GetTail(t) \/ GetReturn(t)

Next == (\E t \in Threads : Lock(t) \/ Add(t) \/ Get(t)) \/ PQueueInit \/ PQueueFree

\* A thread that has called an operation keeps running; calling one is up to
\* the client.
Fairness == \A t \in Threads :
    WF_vars(\/ Lock(t) \/ AddDivideByZero(t) \/ AddFull(t) \/ AddStore(t)
            \/ AddTop(t) \/ AddReturn(t) \/ GetEmpty(t) \/ GetRead(t)
            \/ GetTail(t) \/ GetReturn(t))

Spec == Init /\ [][Next]_vars /\ Fairness
-----------------------------------------------------------------------------
InLock == {"add_test", "add_top", "add_len", "get_test", "get_tail", "get_len", "trap"}
PastTest == {"add_top", "add_len", "get_tail", "get_len"}
Carrying == {"add_lock", "add_test", "add_top", "add_len", "get_tail", "get_len"}

TypeOK ==
    /\ top \in Slots /\ tail \in Slots
    /\ len \in 0 .. MaxLen - 1            \* the unsigned counter never wraps
    /\ maxlen \in {0, MaxLen}
    /\ slot \in [Slots -> Nodes \cup {None}]
    /\ lock \in Threads \cup {None, Zeroed}
    /\ pc \in [Threads -> {"idle", "add_lock", "get_lock"} \cup InLock]
    /\ node \in [Threads -> Nodes \cup {None}]
    /\ held \in [Threads -> SUBSET Nodes]
    /\ freed \in SUBSET Nodes /\ dropped \in SUBSET Nodes
    /\ phase \in {"live", "freed", "crashed"}

\* Only the lock's holder is between pthread_spin_lock and pthread_spin_unlock
\* in pqueue_addone and pqueue_getone, and no return path leaves it locked.
MutualExclusion == \A t \in Threads : pc[t] \in InLock <=> lock = t

\* What pqueue_count reads without the lock: the queue's true length, one less
\* while an add is about to count its node, one more while a get is.
CountExact ==
    pqueue_count = Used + (IF \E t \in Threads : pc[t] = "get_len" THEN 1 ELSE 0)
                        - (IF \E t \in Threads : pc[t] = "add_len" THEN 1 ELSE 0)

\* What every step needs of the state: one slot stays empty so that top = tail
\* means empty, the slots in use hold nodes, and a call past its test has
\* room, or a node, to work on.
SlotsSound ==
    /\ \A i \in Live : slot[i] \in Nodes
    /\ maxlen = 0 => top = 0 /\ tail = 0
CallsSound == \A t \in Threads :
    /\ pc[t] \in Carrying => node[t] \in Nodes
    /\ pc[t] \in PastTest => maxlen = MaxLen
    /\ pc[t] \in {"idle", "get_lock", "get_test"} => node[t] = None
    /\ pc[t] = "add_top" => slot[top] = node[t]
    /\ pc[t] = "get_tail" => slot[tail] = node[t]
    /\ pc[t] \in {"add_top", "get_len"} => Used < MaxLen - 1
    /\ pc[t] \in {"add_len", "get_tail"} => Used > 0
IInv == TypeOK /\ MutualExclusion /\ CountExact /\ SlotsSound /\ CallsSound

\* Every node is in exactly one place: owned by one thread, carried by one
\* call, in one slot between tail and top, or dropped because pqueue_init or
\* pqueue_free met it in the queue.  The queue frees no node of clients that
\* empty it first.
NodesConserved ==
    LET carriers(n) == {t \in Threads : node[t] = n /\ pc[t] \in
                          {"add_lock", "add_test", "add_top", "get_len", "trap"}}
        owners(n) == {t \in Threads : n \in held[t]}
        queued(n) == {i \in Live : slot[i] = n /\ n \notin dropped}
    IN  /\ dropped = {} => freed = {}
        /\ \A n \in Nodes : Cardinality(owners(n)) + Cardinality(carriers(n))
              + Cardinality(queued(n)) + Cardinality({n} \cap dropped) = 1

\* The abstract queue: the slots from tail up to top, in that order.  An add
\* takes effect when top moves, a get when tail moves.
Position(i) == (tail + i - 1) % MaxLen
Contents == [i \in 1 .. Used |-> slot[Position(i)]]
CallStatus(t) ==
    CASE pc[t] \in {"add_lock", "add_test", "add_top", "trap"} -> "put"
      [] pc[t] = "add_len" -> "stored"
      [] pc[t] \in {"get_lock", "get_test", "get_tail"} -> "take"
      [] pc[t] = "get_len" -> "taken"
      [] OTHER -> "idle"
Status == [t \in Threads |-> CallStatus(t)]
Carried == [t \in Threads |-> IF pc[t] = "get_tail" THEN None ELSE node[t]]
Fifo == INSTANCE FifoSpec WITH Capacity <- MaxLen - 1, queue <- Contents,
                               status <- Status, node <- Carried

\* pqueue behaves as a bounded FIFO for every interleaving of its callers:
\* nodes come out in the order they went in, once each, an add is refused only
\* when MaxLen - 1 nodes are queued, a get misses only when none is.
ImplementsFifo == Fifo!Spec

\* No deadlock: a thread that has the lock gives it back, unless pqueue_init
\* zeroed maxlen and the remainder kills the process; and while threads wait for
\* the lock of a queue that pqueue_init has not overwritten, one of them gets
\* it.  Which one is not promised.
NoDeadlock ==
    /\ \A t \in Threads : pc[t] \in InLock ~> (pc[t] = "idle" \/ phase = "crashed")
    /\ (\E t \in Threads : pc[t] \in {"add_lock", "get_lock"})
          ~> (maxlen = 0 \/ \E t \in Threads : pc[t] \in InLock)
=============================================================================
