------------------------------- MODULE MCLoops -------------------------------
(***************************************************************************)
(* Small instances, for TLC, of the two modules with a loop that must end: *)
(* RBTree with its fixups, ConnOpen with the retries of conn_cycle.  They  *)
(* share nothing: the client uses one of them.                             *)
(***************************************************************************)
EXTENDS RBTree, TLC

CONSTANTS n1, n2, n3, n4, n5, n6, n7, n8,
          Fds                        \* of ConnOpen

VARIABLES use,                       \* what the client uses
          socket, held, open, up     \* of ConnOpen

openVars == <<socket, held, open, up>>

MCNodes == {n1, n2, n3, n4, n5, n6, n7, n8}
MCKey == n1 :> 1 @@ n2 :> 2 @@ n3 :> 3 @@ n4 :> 4 @@ n5 :> 5 @@ n6 :> 6 @@ n7 :> 7 @@ n8 :> 8
MCFds == {"f", "g", "h"}

C == INSTANCE ConnOpen

\* No step reads call.
MCView == <<tree, job, openVars, use>>

ASSUME DescriptorsAssumption == C!FdsAssumption

\* Calls on one of the two, the other being left as it was created.
MCInit == /\ Init /\ C!Init
          /\ \/ use = "rbtree" /\ up
             \/ use = "conn"
OnTree == use = "rbtree" /\ UNCHANGED <<openVars, use>>
OnConn == use = "conn" /\ UNCHANGED <<vars, use>>

MCNext ==
    \/ \E k \in Nodes, room \in BOOLEAN : insert_rbtree(k, room) /\ OnTree
    \/ \E k \in Nodes : delete_rbtree(k) /\ OnTree
    \/ \E k \in Nodes : rbtree_search(k) /\ OnTree
    \/ destroy_rbtree /\ OnTree
    \/ UncleIsRed /\ OnTree
    \/ UncleIsBlack /\ OnTree
    \/ InsertDone /\ OnTree
    \/ SiblingIsRed /\ OnTree
    \/ NephewsAreBlack /\ OnTree
    \/ NephewIsRed /\ OnTree
    \/ DeleteDone /\ OnTree
    \/ \E nb \in BOOLEAN : C!conn_open(nb) /\ OnConn
    \/ \E nb \in BOOLEAN : C!conn_peer(nb) /\ OnConn
    \/ C!conn_cycle /\ OnConn
    \/ C!Socket /\ OnConn
    \/ C!SocketFails /\ OnConn
    \/ C!Bind /\ OnConn
    \/ C!Listen /\ OnConn
    \/ C!BindOrListenFails /\ OnConn
    \/ C!Wakes /\ OnConn
    \/ C!ConnectBlocks /\ OnConn
    \/ C!ConnectReturns /\ OnConn
    \/ C!ConnectFails /\ OnConn
    \/ C!ConnectAtOnce /\ OnConn
    \/ C!ConnectInterrupted /\ OnConn
    \/ C!GoesUpOrDown /\ OnConn
    \/ \E f \in Fds : C!conn_check(f) /\ OnConn
    \/ \E f \in Fds : C!close(f) /\ OnConn
    \/ \E f \in Fds : C!Accepted(f) /\ OnConn
    \/ \E f \in Fds : C!Refused(f) /\ OnConn

\* Of the part not used nothing is enabled that is held to be fair.
MCSpec == /\ MCInit /\ [][MCNext]_<<openVars, vars, use>>
          /\ WF_vars(Fixup) /\ C!Fairness
-----------------------------------------------------------------------------
\* RBTree: the calls are those of a set of integers.
TreeIsSet == ImplementsSet

\* ConnOpen: descriptors are the client's or the call's, and what is handed out is ready.
DescriptorsKept == C!DescriptorsKept

\* ConnOpen: conn_cycle returns once the other side stays up.
CycleReturns == C!CycleReturns
=============================================================================
