------------------------------ MODULE LifoSpec ------------------------------
(***************************************************************************)
(* What a stack promises threads that share it: each push and each pop     *)
(* takes effect at one instant, and a pop takes the newest node.  A look   *)
(* at the top sees the newest node, or nothing: stack_top may come back    *)
(* empty-handed while the last node is being popped.  Module Stack         *)
(* implements it.                                                          *)
(***************************************************************************)
EXTENDS Naturals, Sequences

CONSTANTS Threads,    \* the threads sharing the stack
          Nodes,      \* the nodes clients pass through it
          None        \* no node

VARIABLES nodes,      \* the stacked nodes, newest first
          status,     \* what each thread's call is doing
          node,       \* the node each thread's call carries
          held        \* the nodes each thread owns outside any call

lifoVars == <<nodes, status, node, held>>

Init == /\ nodes = <<>>
        /\ status = [t \in Threads |-> "idle"]
        /\ node = [t \in Threads |-> None]
        /\ \E owner \in [Nodes -> Threads] :
              held = [t \in Threads |-> {n \in Nodes : owner[n] = t}]

Move(t, from, to) == status[t] = from /\ status' = [status EXCEPT ![t] = to]

InvokePush(t) == \E n \in held[t] :
    /\ Move(t, "idle", "push")
    /\ node' = [node EXCEPT ![t] = n]
    /\ held' = [held EXCEPT ![t] = @ \ {n}]
    /\ UNCHANGED nodes

Push(t) ==
    /\ Move(t, "push", "pushed")
    /\ nodes' = <<node[t]>> \o nodes
    /\ node' = [node EXCEPT ![t] = None]
    /\ UNCHANGED held

InvokePop(t) ==
    /\ Move(t, "idle", "pop")
    /\ UNCHANGED <<nodes, node, held>>

Pop(t) ==
    /\ Move(t, "pop", "popped")
    /\ nodes # <<>>
    /\ node' = [node EXCEPT ![t] = Head(nodes)]
    /\ nodes' = Tail(nodes)
    /\ UNCHANGED held

ReturnPop(t) ==
    /\ Move(t, "popped", "idle")
    /\ held' = [held EXCEPT ![t] = @ \cup {node[t]}]
    /\ node' = [node EXCEPT ![t] = None]
    /\ UNCHANGED nodes

InvokeLook(t) ==
    /\ Move(t, "idle", "look")
    /\ UNCHANGED <<nodes, node, held>>

Look(t) ==
    /\ Move(t, "look", "looked")
    /\ \/ UNCHANGED node
       \/ nodes # <<>> /\ node' = [node EXCEPT ![t] = Head(nodes)]
    /\ UNCHANGED <<nodes, held>>

Return(t) ==
    /\ Move(t, "pushed", "idle") \/ Move(t, "looked", "idle")
    /\ node' = [node EXCEPT ![t] = None]
    /\ UNCHANGED <<nodes, held>>

Clear ==
    /\ \A t \in Threads : status[t] = "idle"
    /\ nodes' = <<>>
    /\ UNCHANGED <<status, node, held>>

Next == \/ Clear
        \/ \E t \in Threads :
              \/ InvokePush(t) \/ Push(t) \/ InvokePop(t) \/ Pop(t)
              \/ ReturnPop(t) \/ InvokeLook(t) \/ Look(t) \/ Return(t)

Spec == Init /\ [][Next]_lifoVars
=============================================================================
