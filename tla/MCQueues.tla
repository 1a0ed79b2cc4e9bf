------------------------------ MODULE MCQueues ------------------------------
(***************************************************************************)
(* A small instance of the queue and the stack that threads share, PQueue  *)
(* and Stack, for TLC.  They share nothing: the threads use one of them.   *)
(***************************************************************************)
EXTENDS PQueue

CONSTANTS t1, t2, n1, n2, n3, CountMod

VARIABLES use,                         \* the one the threads use
          head, nodecount, link, tmp, stacked,
          stackLock, stackPc, stackNode, stackHeld, stackFreed, stackPhase

stackVars == <<head, nodecount, link, tmp, stacked,
               stackLock, stackPc, stackNode, stackHeld, stackFreed, stackPhase>>

MCThreads == {t1, t2}
MCNodes == {n1, n2, n3}

S == INSTANCE Stack WITH lock <- stackLock, pc <- stackPc, node <- stackNode,
                         held <- stackHeld, freed <- stackFreed, phase <- stackPhase

ASSUME CountModAssumption == S!StackAssumption

\* Of the one not used the first thread has all nodes.
AllFirst(h) == h[t1] = MCNodes
MCInit == /\ Init /\ S!Init
          /\ \/ use = "queue" /\ AllFirst(stackHeld)
             \/ use = "stack" /\ AllFirst(held)
OnQueue == use = "queue" /\ UNCHANGED <<stackVars, use>>
OnStack == use = "stack" /\ UNCHANGED <<vars, use>>

MCNext ==
    \/ \E t \in Threads : Lock(t) /\ OnQueue
    \/ \E t \in Threads : Add(t) /\ OnQueue
    \/ \E t \in Threads : Get(t) /\ OnQueue
    \/ PQueueInit /\ OnQueue
    \/ PQueueFree /\ OnQueue
    \/ \E t \in Threads : S!Lock(t) /\ OnStack
    \/ \E t \in Threads : S!Push(t) /\ OnStack
    \/ \E t \in Threads : S!Pop(t) /\ OnStack
    \/ \E t \in Threads : S!Top(t) /\ OnStack
    \/ S!StackInit /\ OnStack
    \/ S!StackFree /\ OnStack

\* The fairness of PQueue; of the stack nothing must happen.
MCSpec == /\ MCInit /\ [][MCNext]_<<vars, stackVars, use>>
          /\ use = "queue" => Fairness
-----------------------------------------------------------------------------
\* Stack: the chain is the stacked nodes whatever the interleaving, and no node is
\* lost, doubled or freed with another's.
StackKept == S!ChainSpellsStack /\ S!NodesConserved

\* Stack: pushes and pops act as on a stack, however far nodecount has drifted.
StackImplementsLifo == S!ImplementsLifo
=============================================================================
