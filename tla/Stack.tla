-------------------------------- MODULE Stack --------------------------------
(***************************************************************************)
(* src/stack.c: a linked stack of the callers' own nodes behind a spin     *)
(* lock.  stack_pop counts its node off after it has released the lock,    *)
(* and stack_top reads head after it has; the compiled code loads and      *)
(* stores nodecount in two accesses, so a push and a pop may lose one      *)
(* another's count.  stack_init and stack_free take no lock and are called *)
(* while no other call is under way.                                       *)
(*                                                                         *)
(* A definition named X_Y is a slip one could make in X; the specification *)
(* does not use it.                                                        *)
(***************************************************************************)
EXTENDS Integers, Sequences, FiniteSets

CONSTANTS Threads,     \* the threads that share the stack
          Nodes,       \* the clients' nodes
          None,        \* a null pointer, and no thread
          CountMod     \* nodecount is unsigned: it counts modulo this

StackAssumption == CountMod \in Nat /\ CountMod > 1 /\ None \notin Threads \cup Nodes

VARIABLES head, nodecount, lock,   \* the fields of struct _stack_
          link,     \* the pointer each node holds at the stack's offset
          pc,       \* where each thread is in its call
          node,     \* the argument of push, rover of pop, the result of top
          tmp,      \* the nodecount a thread has loaded and not yet stored
          held,     \* the nodes each thread owns
          freed,    \* the nodes the stack has passed to s_free
          phase,    \* "live", "freed", or "crashed" (a null head was followed)
          stacked   \* history: the nodes pushed and not popped, newest first

shared == <<head, nodecount, lock, link>>
vars == <<head, nodecount, lock, link, pc, node, tmp, held, freed, phase, stacked>>

Goto(t, from, to) == /\ phase = "live"
                     /\ pc[t] = from
                     /\ pc' = [pc EXCEPT ![t] = to]
CanLock == lock = None
Less(c) == (c - 1) % CountMod

\* stack_create.
Init == /\ head = None /\ nodecount = 0 /\ lock = None
        /\ link = [n \in Nodes |-> None]
        /\ pc = [t \in Threads |-> "idle"]
        /\ node = [t \in Threads |-> None]
        /\ tmp = [t \in Threads |-> 0]
        /\ \E owner \in [Nodes -> Threads] :
              held = [t \in Threads |-> {n \in Nodes : owner[n] = t}]
        /\ freed = {}
        /\ phase = "live"
        /\ stacked = <<>>
-----------------------------------------------------------------------------
\* The client clears the node's link, as the repository's test does:
\* stack_push leaves it alone when the stack is empty.
PushCall(t) == \E n \in held[t] :
    /\ Goto(t, "idle", "push_lock")
    /\ node' = [node EXCEPT ![t] = n]
    /\ held' = [held EXCEPT ![t] = @ \ {n}]
    /\ link' = [link EXCEPT ![n] = None]
    /\ UNCHANGED <<head, nodecount, lock, tmp, freed, phase, stacked>>

PopCall(t) ==
    /\ Goto(t, "idle", "pop_lock")
    /\ UNCHANGED <<shared, node, tmp, held, freed, phase, stacked>>

TopCall(t) ==
    /\ Goto(t, "idle", "top_lock")
    /\ UNCHANGED <<shared, node, tmp, held, freed, phase, stacked>>

Lock(t) ==
    /\ CanLock
    /\ \/ Goto(t, "push_lock", "push_link")
       \/ Goto(t, "pop_lock", "pop_head")
       \/ Goto(t, "top_lock", "top_test")
    /\ lock' = t
    /\ UNCHANGED <<head, nodecount, link, node, tmp, held, freed, phase, stacked>>

PushLink(t) ==
    /\ Goto(t, "push_link", "push_load")
    /\ link' = IF head = None THEN link ELSE [link EXCEPT ![node[t]] = head]
    /\ head' = node[t]
    /\ stacked' = <<node[t]>> \o stacked
    /\ UNCHANGED <<nodecount, lock, node, tmp, held, freed, phase>>

PushLoad(t) ==
    /\ Goto(t, "push_load", "push_store")
    /\ tmp' = [tmp EXCEPT ![t] = nodecount]
    /\ UNCHANGED <<shared, node, held, freed, phase, stacked>>

PushReturn(t) ==
    /\ Goto(t, "push_store", "idle")
    /\ nodecount' = (tmp[t] + 1) % CountMod
    /\ lock' = None
    /\ tmp' = [tmp EXCEPT ![t] = 0]
    /\ node' = [node EXCEPT ![t] = None]
    /\ UNCHANGED <<head, link, held, freed, phase, stacked>>
-----------------------------------------------------------------------------
\* rover = head; a nodecount of 1 clears head, which the next step overwrites.
PopHead(t) ==
    /\ Goto(t, "pop_head", "pop_unlink")
    /\ node' = [node EXCEPT ![t] = head]
    /\ head' = IF nodecount = 1 THEN None ELSE head
    /\ UNCHANGED <<nodecount, lock, link, tmp, held, freed, phase, stacked>>

\* head becomes the successor of rover whatever nodecount said.
PopUnlink_OnlyIfOthers(t) ==
    /\ Goto(t, "pop_unlink", "pop_load")
    /\ node[t] # None
    /\ head' = IF nodecount = 1 THEN head ELSE link[node[t]]
    /\ lock' = None
    /\ stacked' = SubSeq(stacked, 2, Len(stacked))
    /\ UNCHANGED <<nodecount, link, node, tmp, held, freed, phase>>
PopUnlink(t) ==
    /\ Goto(t, "pop_unlink", "pop_load")
    /\ node[t] # None
    /\ head' = link[node[t]]
    /\ lock' = None
    /\ stacked' = SubSeq(stacked, 2, Len(stacked))
    /\ UNCHANGED <<nodecount, link, node, tmp, held, freed, phase>>

\* An empty stack: rover is null and reading its link kills the process.
PopEmpty(t) ==
    /\ Goto(t, "pop_unlink", "dead")
    /\ node[t] = None
    /\ phase' = "crashed"
    /\ UNCHANGED <<shared, node, tmp, held, freed, stacked>>

PopLoad(t) ==
    /\ Goto(t, "pop_load", "pop_store")
    /\ tmp' = [tmp EXCEPT ![t] = nodecount]
    /\ UNCHANGED <<shared, node, held, freed, phase, stacked>>

PopReturn(t) ==
    /\ Goto(t, "pop_store", "idle")
    /\ nodecount' = Less(tmp[t])
    /\ tmp' = [tmp EXCEPT ![t] = 0]
    /\ held' = [held EXCEPT ![t] = @ \cup {node[t]}]
    /\ node' = [node EXCEPT ![t] = None]
    /\ UNCHANGED <<head, lock, link, freed, phase, stacked>>
-----------------------------------------------------------------------------
TopTest(t) ==
    /\ Goto(t, "top_test", IF head = None THEN "top_return" ELSE "top_read")
    /\ lock' = None
    /\ UNCHANGED <<head, nodecount, link, node, tmp, held, freed, phase, stacked>>

TopRead(t) ==
    /\ Goto(t, "top_read", "top_return")
    /\ node' = [node EXCEPT ![t] = head]
    /\ UNCHANGED <<shared, tmp, held, freed, phase, stacked>>

TopReturn(t) ==
    /\ Goto(t, "top_return", "idle")
    /\ node' = [node EXCEPT ![t] = None]
    /\ UNCHANGED <<shared, tmp, held, freed, phase, stacked>>
-----------------------------------------------------------------------------
Reached_HeadOnly == {head} \ {None}
\* The nodes the loops of stack_init and stack_free reach from head.
Reached == {n \in Nodes : \A closed \in SUBSET Nodes :
                 (/\ head \in closed \cup {None}
                  /\ \A m \in closed : link[m] \in closed \cup {None})
                 => n \in closed}

Quiescent == phase = "live" /\ \A t \in Threads : pc[t] = "idle"

StackInit ==
    /\ Quiescent
    /\ freed' = freed \cup Reached
    /\ head' = None /\ nodecount' = 0
    /\ stacked' = <<>>
    /\ UNCHANGED <<lock, link, pc, node, tmp, held, phase>>

StackFree ==
    /\ Quiescent
    /\ freed' = freed \cup Reached
    /\ phase' = "freed"
    /\ stacked' = <<>>
    /\ UNCHANGED <<shared, pc, node, tmp, held>>

Push(t) == PushCall(t) \/ PushLink(t) \/ PushLoad(t) \/ PushReturn(t)
Pop(t) == \/ PopCall(t) \/ PopHead(t) \/ PopUnlink(t)
          \/ PopEmpty(t) \/ PopLoad(t) \/ PopReturn(t)
Top(t) == TopCall(t) \/ TopTest(t) \/ TopRead(t) \/ TopReturn(t)

Next == (\E t \in Threads : Lock(t) \/ Push(t) \/ Pop(t) \/ Top(t))
        \/ StackInit \/ StackFree

Spec == Init /\ [][Next]_vars
-----------------------------------------------------------------------------
InLock == {"push_link", "push_load", "push_store", "pop_head", "pop_unlink", "top_test"}
Labels == InLock \cup {"idle", "push_lock", "pop_lock", "top_lock", "pop_load",
                       "pop_store", "top_read", "top_return", "dead"}

TypeOK ==
    /\ head \in Nodes \cup {None}
    /\ nodecount \in 0 .. CountMod - 1
    /\ lock \in Threads \cup {None}
    /\ link \in [Nodes -> Nodes \cup {None}]
    /\ pc \in [Threads -> Labels]
    /\ node \in [Threads -> Nodes \cup {None}]
    /\ tmp \in [Threads -> 0 .. CountMod - 1]
    /\ held \in [Threads -> SUBSET Nodes]
    /\ freed \in SUBSET Nodes
    /\ phase \in {"live", "freed", "crashed"}
    /\ stacked \in Seq(Nodes)

Unlinking == \E t \in Threads : pc[t] = "pop_unlink"

\* The chain from head is the stacked nodes, newest first, and ends: no
\* interleaving leaves a link to a node that was popped, a cycle, or a node
\* that cannot be reached.  While a pop is between its two stores to head, the
\* node it holds is the newest, so it follows a null head only if no node is
\* stacked, whatever nodecount says.
ChainSpellsStack == phase = "live" =>
    /\ \A i \in 1 .. Len(stacked) :
          link[stacked[i]] = IF i = Len(stacked) THEN None ELSE stacked[i + 1]
    /\ ~Unlinking => head = IF stacked = <<>> THEN None ELSE Head(stacked)
    /\ \A t \in Threads : pc[t] = "pop_unlink" =>
          node[t] = IF stacked = <<>> THEN None ELSE Head(stacked)

\* Every node is in one place: owned by a thread, carried by a call, stacked
\* once, or freed by stack_init or stack_free, which free all that is stacked.
NodesConserved ==
    LET carriers(n) == {t \in Threads : node[t] = n /\ pc[t] \in
                          {"push_lock", "push_link", "pop_load", "pop_store"}}
        owners(n) == {t \in Threads : n \in held[t]}
        places(n) == {i \in 1 .. Len(stacked) : stacked[i] = n}
    IN  \A n \in Nodes :
           Cardinality(owners(n)) + Cardinality(carriers(n))
           + Cardinality(places(n)) + Cardinality({n} \cap freed) = 1

\* The abstract stack.  A push takes effect when it links its node, a pop when
\* it moves head to the successor.
CallStatus(t) ==
    CASE pc[t] \in {"push_lock", "push_link"} -> "push"
      [] pc[t] \in {"push_load", "push_store"} -> "pushed"
      [] pc[t] \in {"pop_lock", "pop_head", "pop_unlink", "dead"} -> "pop"
      [] pc[t] \in {"pop_load", "pop_store"} -> "popped"
      [] pc[t] \in {"top_lock", "top_test", "top_read"} -> "look"
      [] pc[t] = "top_return" -> "looked"
      [] OTHER -> "idle"
Status == [t \in Threads |-> CallStatus(t)]
Carried == [t \in Threads |->
    IF pc[t] \in {"pop_unlink", "push_load", "push_store", "dead"} THEN None ELSE node[t]]
Lifo == INSTANCE LifoSpec WITH nodes <- stacked, status <- Status, node <- Carried

\* Whatever the interleaving, and however far nodecount has drifted, pushes and
\* pops act as on a stack: each pop returns the newest node, each node once.
ImplementsLifo == Lifo!Spec
=============================================================================
