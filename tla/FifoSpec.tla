------------------------------ MODULE FifoSpec ------------------------------
(***************************************************************************)
(* What pqueue promises its callers: a bounded first-in first-out queue    *)
(* that any number of threads share.  An operation is invoked, takes       *)
(* effect at one instant, and returns; a put is refused only when the      *)
(* queue holds Capacity nodes, a take comes back empty-handed only when    *)
(* the queue is empty.  Module PQueue implements it.                       *)
(***************************************************************************)
EXTENDS Naturals, Sequences

CONSTANTS Threads,    \* the threads sharing the queue
          Nodes,      \* the nodes clients pass through it
          None,       \* no node
          Capacity    \* how many nodes the queue holds at most

VARIABLES queue,      \* the queued nodes, oldest first
          status,     \* what each thread's call is doing
          node,       \* the node each thread's call carries
          held        \* the nodes each thread owns outside any call

fifoVars == <<queue, status, node, held>>

Init == /\ queue = <<>>
        /\ status = [t \in Threads |-> "idle"]
        /\ node = [t \in Threads |-> None]
        /\ \E owner \in [Nodes -> Threads] :
              held = [t \in Threads |-> {n \in Nodes : owner[n] = t}]

Move(t, from, to) == status[t] = from /\ status' = [status EXCEPT ![t] = to]

InvokePut(t) == \E n \in held[t] :
    /\ Move(t, "idle", "put")
    /\ node' = [node EXCEPT ![t] = n]
    /\ held' = [held EXCEPT ![t] = @ \ {n}]
    /\ UNCHANGED queue

Put(t) ==
    /\ Move(t, "put", "stored")
    /\ Len(queue) < Capacity
    /\ queue' = Append(queue, node[t])
    /\ UNCHANGED <<node, held>>

ReturnPut(t) ==
    /\ Move(t, "stored", "idle")
    /\ node' = [node EXCEPT ![t] = None]
    /\ UNCHANGED <<queue, held>>

Refuse(t) ==
    /\ Move(t, "put", "idle")
    /\ Len(queue) = Capacity
    /\ held' = [held EXCEPT ![t] = @ \cup {node[t]}]
    /\ node' = [node EXCEPT ![t] = None]
    /\ UNCHANGED queue

InvokeTake(t) ==
    /\ Move(t, "idle", "take")
    /\ UNCHANGED <<queue, node, held>>

Take(t) ==
    /\ Move(t, "take", "taken")
    /\ queue # <<>>
    /\ node' = [node EXCEPT ![t] = Head(queue)]
    /\ queue' = Tail(queue)
    /\ UNCHANGED held

ReturnTake(t) ==
    /\ Move(t, "taken", "idle")
    /\ held' = [held EXCEPT ![t] = @ \cup {node[t]}]
    /\ node' = [node EXCEPT ![t] = None]
    /\ UNCHANGED queue

Miss(t) ==
    /\ Move(t, "take", "idle")
    /\ queue = <<>>
    /\ UNCHANGED <<queue, node, held>>

\* Emptying the queue while no call is under way.
Clear ==
    /\ \A t \in Threads : status[t] = "idle"
    /\ queue' = <<>>
    /\ UNCHANGED <<status, node, held>>

Next == \/ Clear
        \/ \E t \in Threads :
              \/ InvokePut(t) \/ Put(t) \/ ReturnPut(t) \/ Refuse(t)
              \/ InvokeTake(t) \/ Take(t) \/ ReturnTake(t) \/ Miss(t)

Spec == Init /\ [][Next]_fifoVars
=============================================================================
