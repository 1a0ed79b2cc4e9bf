---------------------------- MODULE LoopsProofs ----------------------------
(***************************************************************************)
(* Proofs about ConnOpen and RBTree, for every set of descriptors and of   *)
(* nodes.                                                                  *)
(*                                                                         *)
(* ConnOpen: ConnInv is inductive and adds to DescriptorsKept what the     *)
(* step a call has come to says of the descriptor it holds.                *)
(*                                                                         *)
(* RBTree: RBInv is inductive.  The nodes in the tree are the M of         *)
(* Sound(tree, job, M, sub, bh), where sub[n] are those from n down and    *)
(* bh[n] the black nodes on any path from n to an absent child, the one    *)
(* path a delete's loop has yet to mend counting one more.  With sub and   *)
(* bh named, what recursion over the tree would say is said of one node    *)
(* and its children, and a rotation or a removal changes few of them.      *)
(***************************************************************************)
EXTENDS MCLoops, Ranking

Calls == [pc : {"idle", "socket", "bind", "listen", "connect", "wait", "sleep"},
          op : {"none", "conn_open", "conn_peer", "conn_cycle"},
          nonblock : BOOLEAN, fd : Fds \cup {None}]

\* The call in progress holds a descriptor from socket() to its return or to the
\* failure that closes it, and that one is in the mode the caller asked for.
CallSound ==
    /\ open \in Calls
    /\ open.pc \in {"idle", "socket", "sleep"} <=> open.fd = None
    /\ open.fd # None => socket[open.fd] # None /\ C!Mine.nonblock = open.nonblock

ConnInv == CallSound /\ C!DescriptorsKept

LEMMA InitConnInv == C!Init => ConnInv
BY DescriptorsAssumption DEF C!FdsAssumption, C!Init, ConnInv, CallSound, Calls, C!Resting, C!DescriptorsKept, C!TypeOK

LEMMA StepConnInv == ConnInv /\ [C!Next]_(C!openVars) => ConnInv'
<1> SUFFICES ASSUME ConnInv, [C!Next]_(C!openVars) PROVE ConnInv'
  OBVIOUS
<1> USE DescriptorsAssumption DEF C!FdsAssumption
<1> USE DEF ConnInv, CallSound, Calls, C!Mine, C!DescriptorsKept, C!TypeOK, C!At, C!Resting, C!Sockets, C!States
<1>1. ASSUME NEW op \in {"conn_open", "conn_peer", "conn_cycle"}, NEW nonblock \in BOOLEAN,
             C!Begin(op, nonblock)
      PROVE  ConnInv'
  BY <1>1 DEF C!Begin
<1>2. ASSUME C!Socket PROVE ConnInv'
  <2>1. PICK f \in Fds :
           /\ socket[f] = None
           /\ socket' = [socket EXCEPT ![f] = [state |-> "new", nonblock |-> open.nonblock,
                                              error |-> FALSE]]
           /\ open' = [open EXCEPT !.fd = f,
                          !.pc = IF open.op = "conn_open" THEN "bind" ELSE "connect"]
           /\ open.pc = "socket" /\ UNCHANGED <<held, up>>
    BY <1>2 DEF C!Socket
  <2>2. /\ open.fd = None /\ f \notin held
        /\ socket'[f] \in C!Sockets /\ socket'[f] # None /\ socket'[f].nonblock = open.nonblock
        /\ \A g \in Fds : g # f => socket'[g] = socket[g]
        /\ open' \in Calls /\ open'.fd = f /\ open'.pc \in {"bind", "connect"}
        /\ open'.nonblock = open.nonblock
    <3> DEFINE new == [state |-> "new", nonblock |-> open.nonblock, error |-> FALSE]
    <3>1. new \in C!Sockets OBVIOUS
    <3>2. new # None BY <3>1
    <3>3. socket'[f] = new /\ new.nonblock = open.nonblock BY <2>1
    <3>4. /\ open.fd = None /\ f \notin held /\ \A g \in Fds : g # f => socket'[g] = socket[g]
      BY <2>1
    <3>5. /\ open' \in Calls /\ open'.fd = f /\ open'.pc \in {"bind", "connect"}
          /\ open'.nonblock = open.nonblock
      BY <2>1
    <3> HIDE DEF new, ConnInv, CallSound, C!DescriptorsKept, C!TypeOK
    <3> QED BY <3>1, <3>2, <3>3, <3>4, <3>5
  <2>3. CallSound' BY <2>1, <2>2
  <2>4. C!TypeOK' BY <2>1, <2>2
  <2>5. {g \in Fds : socket'[g] # None} = {g \in Fds : socket[g] # None} \cup {f}
    BY <2>2
  <2>6. C!DescriptorsKept' BY <2>1, <2>2, <2>4, <2>5
  <2> QED BY <2>3, <2>6
<1>3. ASSUME open.fd # None, NEW state \in {"listening", "connected", "connecting"},
             state = "connecting" => open.nonblock, C!Returns(state)
      PROVE  ConnInv'
  BY <1>3 DEF C!Returns
<1>4. ASSUME C!ReturnsError PROVE ConnInv'
  <2> USE <1>4 DEF C!ReturnsError, C!Closes
  <2>1. CallSound' OBVIOUS
  <2>2. C!TypeOK' OBVIOUS
  <2>3. {g \in Fds : socket'[g] # None} = {g \in Fds : socket[g] # None} \ {open.fd}
    OBVIOUS
  <2>4. \A g \in held : socket'[g] = socket[g]
    OBVIOUS
  <2> QED BY <2>1, <2>2, <2>3, <2>4
<1>5. ASSUME C!Bind \/ C!ConnectBlocks \/ C!Wakes PROVE ConnInv'
  BY <1>5 DEF C!Bind, C!ConnectBlocks, C!Wakes
<1>6. ASSUME C!SocketFails \/ C!BindOrListenFails \/ C!ConnectFails \/ C!ConnectInterrupted PROVE ConnInv'
  BY <1>4, <1>6 DEF C!SocketFails, C!BindOrListenFails, C!ConnectFails, C!ConnectInterrupted
<1>7. ASSUME C!Listen \/ C!ConnectReturns \/ C!ConnectAtOnce PROVE ConnInv'
  BY <1>3, <1>4, <1>7 DEF C!Listen, C!ConnectReturns, C!ConnectAtOnce
<1>8. ASSUME NEW f \in Fds, C!conn_check(f) PROVE ConnInv'
  <2> USE <1>8 DEF C!conn_check
  <2>1. f # open.fd /\ socket[f] \in C!Sockets OBVIOUS
  <2>2. /\ socket'[f] = [socket[f] EXCEPT !.error = FALSE] /\ socket'[f] \in C!Sockets
        /\ \A g \in Fds : g # f => socket'[g] = socket[g]
    BY <2>1
  <2>3. C!TypeOK' BY <2>1, <2>2
  <2>4. CallSound'
    <3>1. open' = open /\ f # open.fd BY <2>1
    <3>2. \A g \in Fds : g # f => socket'[g] = socket[g] BY <2>2
    <3>3. CallSound OBVIOUS
    <3> HIDE DEF ConnInv, C!DescriptorsKept, C!TypeOK
    <3> QED BY <3>1, <3>2, <3>3
  <2>5. {g \in Fds : socket'[g] # None} = {g \in Fds : socket[g] # None}
    <3>1. socket[f] # None BY <2>1
    <3>2. socket'[f] # None BY <2>2
    <3>3. \A g \in Fds : g # f => socket'[g] = socket[g] BY <2>2
    <3> HIDE DEF ConnInv
    <3> QED BY <3>1, <3>2, <3>3
  <2> QED BY <2>2, <2>3, <2>4, <2>5
<1>9. ASSUME NEW f \in Fds, C!close(f) PROVE ConnInv'
  BY <1>9 DEF C!close
<1>10. ASSUME NEW f \in Fds, C!Accepted(f) PROVE ConnInv'
  BY <1>10 DEF C!Accepted
<1>11. ASSUME NEW f \in Fds, C!Refused(f) PROVE ConnInv'
  <2> USE <1>11 DEF C!Refused
  <2>1. socket[f] \in C!Sockets /\ (f \in held => socket[f].nonblock) OBVIOUS
  <2>2. /\ socket'[f] = [socket[f] EXCEPT !.state = "failed", !.error = TRUE]
        /\ socket'[f] \in C!Sockets
        /\ \A g \in Fds : g # f => socket'[g] = socket[g]
    <3> DEFINE new == [socket[f] EXCEPT !.state = "failed", !.error = TRUE]
    <3>1. socket' = [socket EXCEPT ![f] = new] OBVIOUS
    <3>2. new \in C!Sockets BY <2>1
    <3>a. DOMAIN socket = Fds OBVIOUS
    <3> HIDE DEF new, ConnInv
    <3>3. socket'[f] = new /\ \A g \in Fds : g # f => socket'[g] = socket[g] BY <3>1, <3>a
    <3> QED BY <3>2, <3>3 DEF new
  <2>3. C!TypeOK' BY <2>1, <2>2
  <2>4. CallSound'
    <3>1. open' = open OBVIOUS
    <3>2. socket'[f] # None /\ socket'[f].nonblock = socket[f].nonblock BY <2>1, <2>2
    <3>3. \A g \in Fds : g # f => socket'[g] = socket[g] BY <2>2
    <3>4. CallSound /\ open.fd \in Fds \cup {None} OBVIOUS
    <3> HIDE DEF ConnInv, C!Refused, C!DescriptorsKept, C!TypeOK, C!Sockets, Calls
    <3>5. open.fd # None => /\ socket'[open.fd] # None
                            /\ socket'[open.fd].nonblock = socket[open.fd].nonblock
      <4> HIDE DEF C!Mine
      <4>1. CASE open.fd = f BY <3>2, <4>1
      <4>2. CASE open.fd # f BY <3>3, <3>4, <4>2
      <4> QED BY <4>1, <4>2
    <3> QED BY <3>1, <3>4, <3>5
  <2>5. {g \in Fds : socket'[g] # None} = {g \in Fds : socket[g] # None}
    <3>1. socket[f] # None BY <2>1
    <3>2. socket'[f] # None BY <2>2
    <3>3. \A g \in Fds : g # f => socket'[g] = socket[g] BY <2>2
    <3> HIDE DEF ConnInv
    <3> QED BY <3>1, <3>2, <3>3
  <2> QED BY <2>1, <2>2, <2>3, <2>4, <2>5
<1>12. CASE C!GoesUpOrDown \/ UNCHANGED C!openVars
  <2> USE <1>12 DEF C!GoesUpOrDown, C!openVars
  <2>1. UNCHANGED <<socket, held, open>> /\ up' \in BOOLEAN
    BY Zenon
  <2> QED BY <2>1
<1> QED
  BY <1>1, <1>2, <1>4, <1>5, <1>6, <1>7, <1>8, <1>9, <1>10, <1>11, <1>12
     DEF C!Next, C!Runs, C!conn_open, C!conn_peer, C!conn_cycle

LEMMA ConnInvariance == C!Spec => []ConnInv
<1>1. C!Spec => C!Init /\ [][C!Next]_(C!openVars) BY DEF C!Spec
<1> QED BY <1>1, InitConnInv, StepConnInv, PTL

\* Beside the red-black tree the calls still behave as module ConnOpen says.
LEMMA ImplementsConnOpen == MCSpec => C!Spec
<1>1. MCInit => C!Init BY DEF MCInit
<1>2. [MCNext]_<<openVars, vars, use>> => [C!Next]_(C!openVars)
  BY Zenon DEF MCNext, OnTree, openVars, C!openVars, C!Next, C!Runs
<1> QED BY <1>1, <1>2, PTL DEF MCSpec, C!Spec

\* Whichever system calls fail, in whatever order, conn_open, conn_peer and
\* conn_cycle keep no descriptor to themselves, close none they returned, and hand
\* out none that neither listens nor is connected unless they were told not to wait.
THEOREM NoDescriptorLost == MCSpec => []DescriptorsKept
<1>1. ConnInv => DescriptorsKept BY DEF ConnInv, DescriptorsKept
<1> QED BY <1>1, ConnInvariance, ImplementsConnOpen, PTL
-----------------------------------------------------------------------------
(* RBTree: what is read from a tree that hangs together. *)

RBAssumption == NodesAssumption /\ KeyAssumption

Trees == [root : Links, kid : [Nodes -> [Side -> Links]], parent : [Nodes -> Links],
          color : [Nodes -> {"free", "red", "black"}]]

\* The parent fields go back where the child fields came from.
Linked(t, M) ==
    /\ t.root # None => t.parent[t.root] = None
    /\ \A n \in M, s \in Side : t.kid[n][s] # None => t.parent[t.kid[n][s]] = n

\* The nodes M are a doubly linked search tree, sub[n] those from n down.
Hangs(t, M, sub) ==
    /\ t \in Trees /\ M \subseteq Nodes
    /\ Spans(sub, M, t.kid, t.root, None) /\ SortedBy(sub, M, t.kid, Key) /\ Linked(t, M)

LEMMA TreeFacts ==
  ASSUME RBAssumption, NEW t, NEW M, NEW sub, Hangs(t, M, sub)
  PROVE  /\ t.kid \in [Nodes -> [Side -> Links]] /\ t.parent \in [Nodes -> Links]
         /\ t.color \in [Nodes -> {"free", "red", "black"}] /\ t.root \in M \cup {None}
         /\ M \subseteq Nodes /\ None \notin M /\ None \notin Nodes
         /\ Spans(sub, M, t.kid, t.root, None) /\ SortedBy(sub, M, t.kid, Key) /\ Linked(t, M)
         /\ IsFiniteSet(M) /\ Cardinality(Nodes) \in Nat /\ Cardinality(M) \in Nat
         /\ Distinct(Key, Nodes) /\ Distinct(Key, M)
         /\ sub[None] = {} /\ sub[t.root] = M
         /\ \A c \in M \cup {None} : /\ Cardinality(sub[c]) \in Nat
                                     /\ Cardinality(sub[c]) <= Cardinality(M)
                                     /\ Cardinality(sub[c]) <= Cardinality(Nodes)
         /\ \A c \in M, s \in Side : t.kid[c][s] \in M \cup {None}
<1>1. /\ t.kid \in [Nodes -> [Side -> Links]] /\ t.parent \in [Nodes -> Links]
      /\ t.color \in [Nodes -> {"free", "red", "black"}]
      /\ M \subseteq Nodes
      /\ Spans(sub, M, t.kid, t.root, None) /\ SortedBy(sub, M, t.kid, Key) /\ Linked(t, M)
  BY DEF Hangs, Trees
<1>2. IsFiniteSet(M) /\ None \notin M /\ t.root \in M \cup {None} /\ sub[None] = {} /\ sub[t.root] = M
  BY <1>1 DEF Spans
<1>3. None \notin Nodes /\ IsFiniteSet(Nodes) BY DEF RBAssumption, NodesAssumption
<1>4. /\ Cardinality(Nodes) \in Nat /\ Cardinality(M) \in Nat
      /\ Cardinality(M) <= Cardinality(Nodes)
  BY <1>1, <1>3, FS_CardinalityType, FS_Subset
<1>5. Distinct(Key, Nodes)
  <2>1. Key \in [Nodes -> Int] /\ \A a, b \in Nodes : Key[a] = Key[b] => a = b
    BY DEF RBAssumption, KeyAssumption, IsInjective
  <2> QED BY <2>1 DEF Distinct
<1>6. Distinct(Key, M) BY <1>1, <1>5 DEF Distinct
<1>7. ASSUME NEW c \in M \cup {None}
      PROVE  /\ Cardinality(sub[c]) \in Nat /\ Cardinality(sub[c]) <= Cardinality(M)
             /\ Cardinality(sub[c]) <= Cardinality(Nodes)
  <2>1. Cardinality(sub[c]) \in Nat /\ Cardinality(sub[c]) <= Cardinality(M)
    BY <1>1, SubtreeSizes
  <2> QED BY <1>4, <2>1
<1>8. \A c \in M, s \in Side : t.kid[c][s] \in M \cup {None} BY <1>1, SubtreeSizes
<1> QED BY <1>1, <1>2, <1>3, <1>4, <1>5, <1>6, <1>7, <1>8

LEMMA Others == ASSUME NEW s \in Side
                PROVE  Other(s) \in Side /\ Other(s) # s /\ Other(Other(s)) = s
                       /\ \A z \in Side : z = s \/ z = Other(s)
BY DEF Side, Other

\* Going to the side of a key.
LEMMA TowardIs == ASSUME RBAssumption, NEW k \in Nodes, NEW n \in Nodes, k # n, NEW s \in Side
                  PROVE  /\ Toward(k, n) \in Side /\ Beyond(Key, Toward(k, n), n, k)
                         /\ Beyond(Key, s, n, k) => s = Toward(k, n)
<1>1. Key[k] \in Int /\ Key[n] \in Int /\ Key[k] # Key[n]
  BY DEF RBAssumption, KeyAssumption, IsInjective
<1> QED BY <1>1 DEF Toward, Beyond, Side

\* Searching finds the node with the key, if the tree has it.
LEMMA SearchIs ==
  ASSUME RBAssumption, NEW M, NEW sub, Hangs(tree, M, sub), NEW k \in Nodes
  PROVE  search(k) = IF k \in M THEN k ELSE None
<1> DEFINE next == [n \in Links |-> IF n = None \/ n = k THEN n ELSE tree.kid[n][Toward(k, n)]]
           found == Loop(next, tree.root, Cardinality(Nodes))
           rank == [c \in M \cup {None} |-> Cardinality(sub[c])]
<1>1. search(k) = IF found = k THEN k ELSE None BY DEF search
<1>2. /\ M \subseteq Nodes /\ None \notin Nodes /\ tree.root \in M \cup {None}
      /\ Spans(sub, M, tree.kid, tree.root, None) /\ SortedBy(sub, M, tree.kid, Key)
      /\ Distinct(Key, M) /\ Cardinality(Nodes) \in Nat /\ sub[tree.root] = M /\ sub[None] = {}
      /\ \A c \in M \cup {None} : rank[c] \in Nat /\ rank[c] <= Cardinality(Nodes)
  BY TreeFacts
<1>3. \A p \in M, z \in Side : \A y \in sub[tree.kid[p][z]] : Beyond(Key, z, p, y)
  BY <1>2, SidesDiffer
<1>4. ASSUME NEW c \in M, c # k
      PROVE  /\ next[c] = tree.kid[c][Toward(k, c)] /\ next[c] \in M \cup {None} /\ next[c] # c
             /\ rank[next[c]] < rank[c] /\ Toward(k, c) \in Side
  <2>1. Toward(k, c) \in Side BY DEF Toward, Side
  <2>2. next[c] = tree.kid[c][Toward(k, c)] BY <1>2, <1>4 DEF Links
  <2>3. /\ tree.kid[c][Toward(k, c)] \in M \cup {None}
        /\ Cardinality(sub[tree.kid[c][Toward(k, c)]]) < Cardinality(sub[c])
    BY <1>2, <2>1, SubtreeSizes
  <2> HIDE DEF next
  <2>4. rank[next[c]] < rank[c] BY <2>2, <2>3
  <2>5. next[c] # c
    <3> SUFFICES ASSUME next[c] = c PROVE FALSE OBVIOUS
    <3> HIDE DEF rank
    <3> QED BY <1>2, <2>4
  <2> QED BY <2>1, <2>2, <2>3, <2>4, <2>5
<1>5. next[None] = None /\ (k \in M => next[k] = k) BY <1>2 DEF Links
<1>6. CASE k \in M
  <2> DEFINE P == {c \in M : k \in sub[c]}
  <2>1. ComesToRest(next, P, rank)
    <3>1. ASSUME NEW c \in P
          PROVE  next[c] \in P /\ rank[c] \in Nat /\ (next[c] # c => rank[next[c]] < rank[c])
      <4>1. CASE c = k BY <1>2, <1>5, <4>1
      <4>2. CASE c # k
        <5>1. PICK z \in Side : k \in sub[tree.kid[c][z]] BY <1>2, <4>2, Splits
        <5>2. z = Toward(k, c)
          <6>1. Beyond(Key, z, c, k) BY <1>3, <5>1
          <6> QED BY <1>2, <4>2, <6>1, TowardIs
        <5>3. k \in sub[next[c]] BY <1>4, <4>2, <5>1, <5>2
        <5>4. next[c] # None BY <1>2, <5>3
        <5> HIDE DEF next
        <5> QED BY <1>2, <1>4, <4>2, <5>3, <5>4
      <4> QED BY <4>1, <4>2
    <3> HIDE DEF next, P, rank
    <3> QED BY <3>1 DEF ComesToRest
  <2>2. tree.root \in P BY <1>2, <1>6
  <2>3. found \in P /\ next[found] = found
    <3>1. rank[tree.root] <= Cardinality(Nodes) BY <1>2
    <3> HIDE DEF next, P, rank
    <3> QED BY <1>2, <2>1, <2>2, <3>1, LoopSettles
  <2> HIDE DEF found, next
  <2>4. found = k BY <1>4, <2>3
  <2> QED BY <1>1, <1>6, <2>4
<1>7. CASE k \notin M
  <2>1. ComesToRest(next, M \cup {None}, rank)
    <3>1. ASSUME NEW c \in M \cup {None}
          PROVE  next[c] \in M \cup {None} /\ rank[c] \in Nat
                 /\ (next[c] # c => rank[next[c]] < rank[c])
      <4> HIDE DEF next, rank
      <4> QED BY <1>2, <1>4, <1>5, <1>7
    <3> HIDE DEF next, rank
    <3> QED BY <3>1 DEF ComesToRest
  <2>2. found \in M \cup {None}
    <3>1. rank[tree.root] <= Cardinality(Nodes) BY <1>2
    <3> HIDE DEF next, rank
    <3> QED BY <1>2, <2>1, <3>1, LoopSettles
  <2>3. found # k BY <1>2, <1>7, <2>2
  <2> QED BY <1>1, <1>7, <2>3
<1> QED BY <1>6, <1>7

\* The parent of a node is above it, or it is the root.
LEMMA ParentIs ==
  ASSUME RBAssumption, NEW t, NEW M, NEW sub, Hangs(t, M, sub), NEW n \in M
  PROVE  \/ n = t.root /\ t.parent[n] = None
         \/ n # t.root /\ t.parent[n] \in M /\ \E s \in Side : t.kid[t.parent[n]][s] = n
<1>1. Spans(sub, M, t.kid, t.root, None) /\ Linked(t, M) /\ None \notin M BY TreeFacts
<1>2. CASE n = t.root BY <1>1, <1>2 DEF Linked
<1>3. CASE n # t.root
  <2>1. PICK p \in M, s \in Side : t.kid[p][s] = n BY <1>1, <1>3, HasParent
  <2>2. t.parent[n] = p BY <1>1, <2>1 DEF Linked
  <2> QED BY <1>3, <2>1, <2>2
<1> QED BY <1>2, <1>3

\* Minimum and maximum of what is from c down.
LEMMA ExtremeIs ==
  ASSUME RBAssumption, NEW M, NEW sub, Hangs(tree, M, sub), NEW c \in M, NEW s \in Side
  PROVE  /\ Extreme(c, s) \in sub[c] /\ Extreme(c, s) \in M
         /\ tree.kid[Extreme(c, s)][s] = None
         /\ \A a \in sub[c] : a = Extreme(c, s) \/ Beyond(Key, s, a, Extreme(c, s))
<1> DEFINE next == [m \in Links |-> IF m = None \/ tree.kid[m][s] = None THEN m
                                    ELSE tree.kid[m][s]]
           at == Loop(next, c, Cardinality(Nodes))
           rank == [m \in M \cup {None} |-> Cardinality(sub[m])]
           P == {m \in M : m \in sub[c] /\ \A a \in sub[c] : a \in sub[m] \/ Beyond(Key, s, a, m)}
<1>1. Extreme(c, s) = at BY DEF Extreme
<1>2. /\ M \subseteq Nodes /\ None \notin Nodes /\ Spans(sub, M, tree.kid, tree.root, None)
      /\ SortedBy(sub, M, tree.kid, Key) /\ Distinct(Key, M) /\ Cardinality(Nodes) \in Nat
      /\ \A m \in M \cup {None} : rank[m] \in Nat /\ rank[m] <= Cardinality(Nodes)
  BY TreeFacts
<1>3. \A p \in M, z \in Side : \A y \in sub[tree.kid[p][z]] : Beyond(Key, z, p, y)
  BY <1>2, SidesDiffer
<1>4. ASSUME NEW m \in P, tree.kid[m][s] # None
      PROVE  /\ next[m] = tree.kid[m][s] /\ next[m] \in P /\ rank[next[m]] < rank[m]
  <2> DEFINE k == tree.kid[m][s]
             o == Other(s)
  <2>1. next[m] = k BY <1>2, <1>4 DEF Links
  <2>2. k \in M /\ Cardinality(sub[k]) < Cardinality(sub[m]) BY <1>2, <1>4, SubtreeSizes
  <2>3. k \in sub[k] /\ k \in sub[m]
    <3>1. k \in sub[k] BY <1>2, <2>2, Splits
    <3> QED BY <1>2, <3>1, Splits
  <2>4. k \in sub[c] BY <1>2, <2>3, SubtreeBelow
  <2>5. Beyond(Key, s, m, k) BY <1>3, <2>3
  <2>6. ASSUME NEW a \in sub[c] PROVE a \in sub[k] \/ Beyond(Key, s, a, k)
    <3>0. a \in M BY <1>2, Splits
    <3>1. CASE a \notin sub[m]
      <4>1. Beyond(Key, s, a, m) BY <3>1
      <4> QED BY <1>2, <2>2, <2>5, <3>0, <4>1, BeyondOrders
    <3>2. CASE a = m BY <2>5, <3>2
    <3>3. CASE a \in sub[m] /\ a # m
      <4>1. PICK z \in Side : a \in sub[tree.kid[m][z]] BY <1>2, <3>3, Splits
      <4>2. CASE z = s BY <4>1, <4>2
      <4>3. CASE z = o
        <5>1. Beyond(Key, o, m, a) BY <1>3, <4>1, <4>3
        <5>2. o \in Side /\ o # s BY Others
        <5> HIDE DEF k, o
        <5>3. Beyond(Key, s, a, m) BY <1>2, <3>0, <5>1, <5>2, BeyondOrders
        <5> QED BY <1>2, <2>2, <2>5, <3>0, <5>3, BeyondOrders
      <4> QED BY <4>2, <4>3, Others
    <3> QED BY <3>1, <3>2, <3>3
  <2> HIDE DEF next, k
  <2> QED BY <2>1, <2>2, <2>4, <2>6 DEF k
<1>5. ComesToRest(next, P, rank)
  <2>1. ASSUME NEW m \in P
        PROVE  next[m] \in P /\ rank[m] \in Nat /\ (next[m] # m => rank[next[m]] < rank[m])
    <3>1. CASE tree.kid[m][s] = None
      <4>1. next[m] = m BY <1>2, <3>1 DEF Links
      <4> QED BY <1>2, <4>1
    <3>2. CASE tree.kid[m][s] # None
      <4>1. rank[m] \in Nat BY <1>2
      <4> QED BY <1>4, <3>2, <4>1
    <3> QED BY <3>1, <3>2
  <2> HIDE DEF next, P, rank
  <2> QED BY <2>1 DEF ComesToRest
<1>6. c \in P BY <1>2, Splits
<1>7. at \in P /\ next[at] = at
  <2>1. rank[c] <= Cardinality(Nodes) BY <1>2
  <2> HIDE DEF next, P, rank
  <2> QED BY <1>2, <1>5, <1>6, <2>1, LoopSettles
<1> HIDE DEF at, next
<1>8. tree.kid[at][s] = None
  <2> SUFFICES ASSUME tree.kid[at][s] # None PROVE FALSE OBVIOUS
  <2>1. rank[next[at]] < rank[at] /\ rank[at] \in Nat BY <1>2, <1>4, <1>7
  <2> HIDE DEF rank
  <2> QED BY <1>7, <2>1
<1>9. ASSUME NEW a \in sub[c] PROVE a = at \/ Beyond(Key, s, a, at)
  <2>0. a \in M /\ at \in M BY <1>2, <1>7, Splits
  <2>1. CASE a \in sub[at] /\ a # at
    <3>1. PICK z \in Side : a \in sub[tree.kid[at][z]] BY <1>2, <2>0, <2>1, Splits
    <3>2. z # s
      <4>1. sub[None] = {} BY TreeFacts
      <4> QED BY <1>8, <3>1, <4>1
    <3>3. Beyond(Key, z, at, a) BY <1>3, <2>0, <3>1
    <3> QED BY <1>2, <2>0, <3>2, <3>3, BeyondOrders
  <2> QED BY <1>7, <2>1
<1> QED BY <1>1, <1>7, <1>8, <1>9

\* A new key k fits where node b has no child.
Fits(M, sub, b, k) ==
    /\ b \in M /\ tree.kid[b][Toward(k, b)] = None
    /\ \A p \in M, z \in Side : b \in sub[tree.kid[p][z]] => Beyond(Key, z, p, k)

LEMMA LeafForIs ==
  ASSUME RBAssumption, NEW M, NEW sub, Hangs(tree, M, sub), NEW k \in Nodes, k \notin M
  PROVE  IF tree.root = None THEN LeafFor(k) = None ELSE Fits(M, sub, LeafFor(k), k)
<1> DEFINE next == [n \in Links |-> IF n = None \/ tree.kid[n][Toward(k, n)] = None THEN n
                                    ELSE tree.kid[n][Toward(k, n)]]
           at == Loop(next, tree.root, Cardinality(Nodes))
           rank == [m \in M \cup {None} |-> Cardinality(sub[m])]
           P == {c \in M : \A p \in M, z \in Side : c \in sub[tree.kid[p][z]] => Beyond(Key, z, p, k)}
<1>1. LeafFor(k) = at BY DEF LeafFor
<1>2. /\ M \subseteq Nodes /\ None \notin Nodes /\ Spans(sub, M, tree.kid, tree.root, None)
      /\ tree.root \in M \cup {None} /\ sub[tree.root] = M
      /\ SortedBy(sub, M, tree.kid, Key) /\ Distinct(Key, M) /\ Cardinality(Nodes) \in Nat
      /\ \A m \in M \cup {None} : rank[m] \in Nat /\ rank[m] <= Cardinality(Nodes)
  BY TreeFacts
<1>3. CASE tree.root = None
  <2> DEFINE zero == [m \in {None} |-> 0]
  <2>1. ComesToRest(next, {None}, zero)
    <3>1. next[None] = None BY DEF Links
    <3> HIDE DEF next
    <3> QED BY <3>1 DEF ComesToRest
  <2>2. at \in {None}
    <3>1. zero[None] <= Cardinality(Nodes) BY <1>2
    <3> HIDE DEF next, zero
    <3> QED BY <1>2, <1>3, <2>1, <3>1, LoopSettles
  <2> QED BY <1>1, <1>3, <2>2
<1>4. CASE tree.root # None
  <2>1. ASSUME NEW c \in P, tree.kid[c][Toward(k, c)] # None
        PROVE  /\ next[c] = tree.kid[c][Toward(k, c)] /\ next[c] \in P /\ rank[next[c]] < rank[c]
    <3> DEFINE s == Toward(k, c)
               m == tree.kid[c][s]
    <3>1. next[c] = m BY <1>2, <2>1 DEF Links
    <3>2. s \in Side /\ Beyond(Key, s, c, k)
      <4>1. s \in Side BY DEF Toward, Side
      <4>2. c \in Nodes /\ k # c BY <1>2
      <4> QED BY <4>1, <4>2, TowardIs
    <3>3. m \in M /\ Cardinality(sub[m]) < Cardinality(sub[c]) BY <1>2, <2>1, <3>2, SubtreeSizes
    <3>4. ASSUME NEW p \in M, NEW z \in Side, m \in sub[tree.kid[p][z]]
          PROVE  Beyond(Key, z, p, k)
      <4>1. CASE p = c
        <5>1. m \in sub[tree.kid[c][s]] BY <1>2, <3>3, Splits
        <5>2. \A v, w \in Side : \A x \in sub[tree.kid[c][v]] : x \in sub[tree.kid[c][w]] => v = w
          BY <1>2, Splits
        <5>3. z = s BY <3>2, <3>4, <4>1, <5>1, <5>2
        <5> QED BY <3>2, <4>1, <5>3
      <4>2. CASE p # c
        <5>1. c \in sub[tree.kid[p][z]] BY <1>2, <3>2, <3>3, <3>4, <4>2, ParentAbove
        <5> QED BY <5>1
      <4> QED BY <4>1, <4>2
    <3> HIDE DEF next, m, s
    <3> QED BY <3>1, <3>3, <3>4 DEF m, s
  <2>2. ComesToRest(next, P, rank)
    <3>1. ASSUME NEW m \in P
          PROVE  next[m] \in P /\ rank[m] \in Nat /\ (next[m] # m => rank[next[m]] < rank[m])
      <4>1. CASE tree.kid[m][Toward(k, m)] = None
        <5>1. next[m] = m BY <1>2, <4>1 DEF Links
        <5> QED BY <1>2, <5>1
      <4>2. CASE tree.kid[m][Toward(k, m)] # None
        <5>1. rank[m] \in Nat BY <1>2
        <5> QED BY <2>1, <4>2, <5>1
      <4> QED BY <4>1, <4>2
    <3> HIDE DEF next, P, rank
    <3> QED BY <3>1 DEF ComesToRest
  <2>3. tree.root \in P
    <3> SUFFICES ASSUME NEW p \in M, NEW z \in Side, tree.root \in sub[tree.kid[p][z]]
                 PROVE  FALSE
      BY <1>2, <1>4
    <3>1. tree.kid[p][z] \in M BY <1>2, Splits
    <3>2. sub[tree.root] \subseteq sub[tree.kid[p][z]] BY <1>2, <3>1, SubtreeBelow
    <3>3. p \notin sub[tree.kid[p][z]] BY <1>2, Splits
    <3> QED BY <1>2, <3>2, <3>3
  <2>4. at \in P /\ next[at] = at
    <3>1. rank[tree.root] <= Cardinality(Nodes) BY <1>2
    <3> HIDE DEF next, P, rank
    <3> QED BY <1>2, <2>2, <2>3, <3>1, LoopSettles
  <2> HIDE DEF at, next
  <2>5. tree.kid[at][Toward(k, at)] = None
    <3> SUFFICES ASSUME tree.kid[at][Toward(k, at)] # None PROVE FALSE OBVIOUS
    <3>1. rank[next[at]] < rank[at] /\ rank[at] \in Nat BY <1>2, <2>1, <2>4
    <3> HIDE DEF rank
    <3> QED BY <2>4, <3>1
  <2>6. Fits(M, sub, at, k) BY <2>4, <2>5 DEF Fits
  <2> QED BY <1>1, <1>4, <2>6
<1> QED BY <1>3, <1>4

\* Going above from n, which has nothing on side s, ends at the top of those it is the
\* last of on that side.
LEMMA ClimbIs ==
  ASSUME RBAssumption, NEW M, NEW sub, Hangs(tree, M, sub), NEW n \in M, NEW s \in Side,
         tree.kid[n][s] = None
  PROVE  /\ Climb(n, s) \in M /\ n \in sub[Climb(n, s)]
         /\ \A a \in sub[Climb(n, s)] : a = n \/ Beyond(Key, s, a, n)
         /\ tree.parent[Climb(n, s)] # None =>
               tree.kid[tree.parent[Climb(n, s)]][s] # Climb(n, s)
<1> DEFINE next == [m \in Nodes |-> IF tree.parent[m] # None /\ tree.kid[tree.parent[m]][s] = m
                                    THEN tree.parent[m] ELSE m]
           at == Loop(next, n, Cardinality(Nodes))
           rank == [m \in M |-> Cardinality(M) - Cardinality(sub[m])]
           P == {m \in M : n \in sub[m] /\ \A a \in sub[m] : a = n \/ Beyond(Key, s, a, n)}
           o == Other(s)
<1>1. Climb(n, s) = at BY DEF Climb
<1>2. /\ M \subseteq Nodes /\ None \notin Nodes /\ Spans(sub, M, tree.kid, tree.root, None)
      /\ SortedBy(sub, M, tree.kid, Key) /\ Distinct(Key, M) /\ Cardinality(Nodes) \in Nat
      /\ Cardinality(M) \in Nat /\ sub[None] = {}
      /\ \A m \in M \cup {None} : Cardinality(sub[m]) \in Nat /\ Cardinality(sub[m]) <= Cardinality(M)
  BY TreeFacts
<1>3. \A p \in M, z \in Side : \A y \in sub[tree.kid[p][z]] : Beyond(Key, z, p, y)
  BY <1>2, SidesDiffer
<1>4. o \in Side /\ o # s /\ \A z \in Side : z = s \/ z = o BY Others
<1> HIDE DEF o
<1>5. \A p, a \in M : Beyond(Key, o, p, a) => Beyond(Key, s, a, p)
  BY <1>2, <1>4, BeyondOrders
<1>6. \A a, b, c \in M : Beyond(Key, s, a, b) /\ Beyond(Key, s, b, c) => Beyond(Key, s, a, c)
  BY <1>2, BeyondOrders
<1>7. ASSUME NEW m \in P, tree.parent[m] # None, tree.kid[tree.parent[m]][s] = m
      PROVE  /\ next[m] = tree.parent[m] /\ next[m] \in P /\ rank[next[m]] < rank[m]
  <2> DEFINE p == tree.parent[m]
  <2>1. next[m] = p BY <1>2, <1>7
  <2>2. p \in M BY <1>7, ParentIs
  <2> HIDE DEF next, p
  <2>3. tree.kid[p][s] = m BY <1>7 DEF p
  <2>4. /\ Cardinality(sub[m]) < Cardinality(sub[p]) BY <1>2, <2>2, <2>3, SubtreeSizes
  <2>5. rank[p] < rank[m]
    <3>1. Cardinality(sub[m]) \in Nat /\ Cardinality(sub[p]) \in Nat BY <1>2, <2>2
    <3> QED BY <1>2, <2>2, <2>4, <3>1
  <2>6. n \in sub[p] /\ Beyond(Key, s, p, n)
    <3>1. n \in sub[tree.kid[p][s]] BY <2>3
    <3> QED BY <1>2, <1>3, <2>2, <3>1, Splits
  <2>7. ASSUME NEW a \in sub[p] PROVE a = n \/ Beyond(Key, s, a, n)
    <3>0. a \in M BY <1>2, <2>2, Splits
    <3>1. CASE a = p BY <2>6, <3>1
    <3>2. CASE a # p
      <4>0. a = p \/ \E z \in Side : a \in sub[tree.kid[p][z]]
        <5>1. Spans(sub, M, tree.kid, tree.root, None) BY <1>2
        <5> QED BY <2>2, <2>7, <5>1, Splits
      <4>1. PICK z \in Side : a \in sub[tree.kid[p][z]] BY <3>2, <4>0
      <4>2. CASE z = s BY <2>3, <4>1, <4>2
      <4>3. CASE z = o
        <5>1. Beyond(Key, s, a, p) BY <1>3, <1>4, <1>5, <2>2, <3>0, <4>1, <4>3
        <5> QED BY <1>6, <2>2, <2>6, <3>0, <5>1
      <4> QED BY <1>4, <4>2, <4>3
    <3> QED BY <3>1, <3>2
  <2> QED BY <2>1, <2>2, <2>5, <2>6, <2>7 DEF p
<1>8. ComesToRest(next, P, rank)
  <2>1. ASSUME NEW m \in P
        PROVE  next[m] \in P /\ rank[m] \in Nat /\ (next[m] # m => rank[next[m]] < rank[m])
    <3>0. rank[m] \in Nat BY <1>2
    <3>1. CASE tree.parent[m] # None /\ tree.kid[tree.parent[m]][s] = m BY <1>7, <3>0, <3>1
    <3>2. CASE ~(tree.parent[m] # None /\ tree.kid[tree.parent[m]][s] = m)
      <4>1. next[m] = m BY <1>2, <3>2
      <4> QED BY <3>0, <4>1
    <3> QED BY <3>1, <3>2
  <2> HIDE DEF next, P, rank
  <2> QED BY <2>1 DEF ComesToRest
<1>9. n \in P
  <2>1. n \in sub[n] BY <1>2, Splits
  <2>2. ASSUME NEW a \in sub[n], a # n PROVE Beyond(Key, s, a, n)
    <3>0. a \in M BY <1>2, Splits
    <3>1. PICK z \in Side : a \in sub[tree.kid[n][z]] BY <1>2, <2>2, Splits
    <3>2. z = o BY <1>2, <1>4, <3>1
    <3> QED BY <1>3, <1>4, <1>5, <3>0, <3>1, <3>2
  <2> QED BY <2>1, <2>2
<1>10. at \in P /\ next[at] = at
  <2>1. rank[n] <= Cardinality(Nodes)
    <3>1. rank[n] \in Nat /\ rank[n] <= Cardinality(M) BY <1>2
    <3>2. Cardinality(M) <= Cardinality(Nodes)
      <4>1. IsFiniteSet(Nodes) BY DEF RBAssumption, NodesAssumption
      <4> QED BY <1>2, <4>1, FS_Subset
    <3> QED BY <1>2, <3>1, <3>2
  <2> HIDE DEF next, P, rank
  <2> QED BY <1>2, <1>8, <1>9, <2>1, LoopSettles
<1> HIDE DEF at, next
<1>11. ~(tree.parent[at] # None /\ tree.kid[tree.parent[at]][s] = at)
  <2> SUFFICES ASSUME tree.parent[at] # None, tree.kid[tree.parent[at]][s] = at PROVE FALSE
    OBVIOUS
  <2>1. rank[next[at]] < rank[at] /\ next[at] \in P BY <1>7, <1>10
  <2>2. rank[at] \in Int BY <1>2, <1>10
  <2> HIDE DEF rank
  <2> QED BY <1>10, <2>1, <2>2
<1> QED BY <1>1, <1>10, <1>11

\* The neighbour of n on a side is the nearest node on that side, if there is one.
NextTo(M, s, n, m) ==
    \/ m = None /\ \A k \in M : ~Beyond(Key, s, n, k)
    \/ /\ m \in M /\ Beyond(Key, s, n, m)
       /\ \A k \in M : Beyond(Key, s, n, k) => k = m \/ Beyond(Key, s, m, k)

LEMMA NeighbourIs ==
  ASSUME RBAssumption, NEW M, NEW sub, Hangs(tree, M, sub), NEW n \in M, NEW s \in Side
  PROVE  NextTo(M, s, n, Neighbour(n, s))
<1> DEFINE o == Other(s)
           kid == tree.kid
<1>2. /\ M \subseteq Nodes /\ None \notin Nodes /\ Spans(sub, M, kid, tree.root, None)
      /\ SortedBy(sub, M, kid, Key) /\ Distinct(Key, M)
      /\ sub[None] = {} /\ sub[tree.root] = M
  BY TreeFacts
<1>3. \A p \in M, z \in Side : \A y \in sub[kid[p][z]] : Beyond(Key, z, p, y)
  BY <1>2, SidesDiffer
<1>4. o \in Side /\ o # s /\ \A z \in Side : z = s \/ z = o BY Others
<1>5. Neighbour(n, s) = IF kid[n][s] # None THEN Extreme(kid[n][s], o)
                        ELSE tree.parent[Climb(n, s)]
  BY DEF Neighbour
<1> HIDE DEF o, kid
<1>6. \A p, a \in M : Beyond(Key, o, p, a) <=> Beyond(Key, s, a, p)
  BY <1>2, <1>4, BeyondOrders
<1>7. /\ \A a, b, c \in M : Beyond(Key, s, a, b) /\ Beyond(Key, s, b, c) => Beyond(Key, s, a, c)
      /\ \A a, b \in M : ~(Beyond(Key, s, a, b) /\ Beyond(Key, s, b, a))
      /\ \A a \in M : ~Beyond(Key, s, a, a)
  BY <1>2, BeyondOrders
\* What is beyond one node of a subtree and not in it is beyond all of it.
<1>8. ASSUME NEW a \in M, NEW k \in M, k \notin sub[a], NEW x \in sub[a], Beyond(Key, s, x, k),
             NEW y \in sub[a]
      PROVE  Beyond(Key, s, y, k)
  <2>1. PICK z \in Side : \A w \in sub[a] : Beyond(Key, z, k, w) BY <1>2, <1>8, OneSide
  <2>2. x \in M /\ y \in M BY <1>2, Splits
  <2>3. z = o BY <1>4, <1>7, <1>8, <2>1, <2>2
  <2> QED BY <1>6, <2>1, <2>2, <2>3
<1>9. \A c \in M : c \in sub[c] BY <1>2, Splits
<1>10. CASE kid[n][s] # None
  <2> DEFINE c == kid[n][s]
             m == Extreme(c, o)
  <2>1. c \in M BY <1>2, <1>10, SubtreeSizes
  <2>2. m \in sub[c] /\ m \in M /\ \A a \in sub[c] : a = m \/ Beyond(Key, o, a, m)
    BY <1>4, <2>1, ExtremeIs
  <2>3. Neighbour(n, s) = m BY <1>5, <1>10
  <2> HIDE DEF m
  <2>4. Beyond(Key, s, n, m) BY <1>3, <2>2
  <2>5. ASSUME NEW k \in M, Beyond(Key, s, n, k) PROVE k = m \/ Beyond(Key, s, m, k)
    <3>1. CASE k \in sub[c]
      <4>1. k = m \/ Beyond(Key, o, k, m) BY <2>2, <3>1
      <4> QED BY <1>6, <2>2, <4>1
    <3>2. CASE k \in sub[n] /\ k \notin sub[c]
      <4>1. k # n BY <1>7, <2>5
      <4>2. PICK z \in Side : k \in sub[kid[n][z]] BY <1>2, <3>2, <4>1, Splits
      <4>3. z = o BY <1>4, <3>2, <4>2
      <4>4. Beyond(Key, s, k, n) BY <1>3, <1>4, <1>6, <4>2, <4>3
      <4> QED BY <1>7, <2>5, <4>4
    <3>3. CASE k \notin sub[n]
      <4>1. m \in sub[n] BY <1>2, <2>2, Splits
      <4> QED BY <1>8, <1>9, <2>5, <3>3, <4>1
    <3> QED BY <3>1, <3>2, <3>3
  <2> QED BY <2>2, <2>3, <2>4, <2>5 DEF NextTo
<1>11. CASE kid[n][s] = None
  <2> DEFINE c == Climb(n, s)
             p == tree.parent[c]
  <2>1. /\ c \in M /\ n \in sub[c] /\ \A a \in sub[c] : a = n \/ Beyond(Key, s, a, n)
        /\ p # None => kid[p][s] # c
    BY <1>11, ClimbIs DEF kid
  <2>2. Neighbour(n, s) = p BY <1>5, <1>11
  <2>3. \/ c = tree.root /\ p = None
        \/ c # tree.root /\ p \in M /\ \E z \in Side : kid[p][z] = c
    BY <2>1, ParentIs DEF kid
  <2> HIDE DEF c, p
  <2>4. ASSUME NEW k \in M, Beyond(Key, s, n, k) PROVE k \notin sub[c]
    <3> SUFFICES ASSUME k \in sub[c] PROVE FALSE OBVIOUS
    <3>1. k = n \/ Beyond(Key, s, k, n) BY <2>1
    <3> QED BY <1>7, <2>4, <3>1
  <2>5. CASE c = tree.root /\ p = None
    <3>1. \A k \in M : ~Beyond(Key, s, n, k) BY <1>2, <2>4, <2>5
    <3> QED BY <2>2, <2>5, <3>1 DEF NextTo
  <2>6. CASE c # tree.root /\ p \in M /\ \E z \in Side : kid[p][z] = c
    <3>1. kid[p][o] = c
      <4>1. p # None BY <1>2, <2>6
      <4> QED BY <1>4, <2>1, <2>6, <4>1
    <3>2. Beyond(Key, s, n, p)
      <4>1. Beyond(Key, o, p, n) BY <1>3, <1>4, <2>1, <2>6, <3>1
      <4> QED BY <1>6, <2>6, <4>1
    <3>3. ASSUME NEW k \in M, Beyond(Key, s, n, k) PROVE k = p \/ Beyond(Key, s, p, k)
      <4>1. CASE k \in sub[p] /\ k # p
        <5>1. PICK z \in Side : k \in sub[kid[p][z]] BY <1>2, <2>6, <4>1, Splits
        <5>2. z = s BY <1>4, <2>4, <3>1, <3>3, <5>1
        <5> QED BY <1>3, <2>6, <5>1, <5>2
      <4>2. CASE k \notin sub[p]
        <5>1. n \in sub[p]
          <6>1. n \in sub[kid[p][o]] BY <2>1, <3>1
          <6> QED BY <1>2, <1>4, <2>6, <6>1, Splits
        <5> QED BY <1>8, <1>9, <2>6, <3>3, <4>2, <5>1
      <4> QED BY <4>1, <4>2
    <3> QED BY <2>2, <2>6, <3>2, <3>3 DEF NextTo
  <2> QED BY <2>3, <2>5, <2>6
<1> QED BY <1>10, <1>11

LEMMA OrderIs ==
  ASSUME RBAssumption, NEW M, NEW sub, Hangs(tree, M, sub)
  PROVE  /\ Lists(inorder, M) /\ Range(inorder) = M /\ Len(inorder) \in Nat
         /\ \A i \in 1 .. Len(inorder) : inorder[i] \in M
         /\ \A i, j \in 1 .. Len(inorder) : i < j => Key[inorder[i]] < Key[inorder[j]]
<1> DEFINE n == Cardinality(Nodes)
<1>1. /\ tree.kid \in [Nodes -> [Side -> Nodes \cup {None}]] /\ n \in Nat
      /\ Spans(sub, M, tree.kid, tree.root, None) /\ SortedBy(sub, M, tree.kid, Key)
      /\ Distinct(Key, M) /\ tree.root \in M \cup {None} /\ sub[tree.root] = M
      /\ Cardinality(sub[tree.root]) <= n
  BY TreeFacts DEF Links
<1> HIDE DEF n
<1>2. Lists(InorderFrom(tree.kid, None, tree.root, n), sub[tree.root])
      /\ Ascends(InorderFrom(tree.kid, None, tree.root, n), Key)
  BY <1>1, InorderIs
<1>3. Lists(inorder, M) /\ Ascends(inorder, Key) BY <1>1, <1>2 DEF inorder, n
<1>4. /\ Range(inorder) = M /\ Len(inorder) \in Nat
      /\ \A i \in 1 .. Len(inorder) : inorder[i] \in M
  BY <1>3, ListsAre
<1>5. ASSUME NEW i \in 1 .. Len(inorder), NEW j \in 1 .. Len(inorder), i < j
      PROVE  Key[inorder[i]] < Key[inorder[j]]
  <2>1. Key[inorder[i]] <= Key[inorder[j]] /\ inorder[i] # inorder[j]
    <3>1. Key[inorder[i]] <= Key[inorder[j]] BY <1>3, <1>5 DEF Ascends
    <3>2. inorder[i] # inorder[j] BY <1>3, <1>5 DEF Lists
    <3> QED BY <3>1, <3>2
  <2>2. inorder[i] \in M /\ inorder[j] \in M BY <1>4
  <2>3. Key[inorder[i]] # Key[inorder[j]] /\ Key[inorder[i]] \in Int /\ Key[inorder[j]] \in Int
    BY <1>1, <2>1, <2>2 DEF Distinct
  <2> QED BY <2>1, <2>3
<1> QED BY <1>3, <1>4, <1>5

LEMMA NeighboursDoAgree ==
  ASSUME RBAssumption, NEW M, NEW sub, Hangs(tree, M, sub)
  PROVE  NeighboursAgree
<1> DEFINE s == inorder
<1>1. /\ Lists(s, M) /\ Range(s) = M /\ Len(s) \in Nat
      /\ \A i \in 1 .. Len(s) : s[i] \in M
      /\ \A i, j \in 1 .. Len(s) : i < j => Key[s[i]] < Key[s[j]]
  BY OrderIs
<1>2. \A m \in M : \E i \in 1 .. Len(s) : s[i] = m BY <1>1 DEF Lists
<1>3. s \in Seq(M) BY <1>1 DEF Lists
<1>4. Distinct(Key, M) /\ tree.root \in M \cup {None} /\ None \notin M /\ sub[tree.root] = M
      /\ sub[None] = {}
  BY TreeFacts
<1>5. "left" \in Side /\ "right" \in Side BY DEF Side
<1> SUFFICES ASSUME s # <<>>
             PROVE  /\ Extreme(tree.root, "left") = Head(s)
                    /\ Extreme(tree.root, "right") = Last(s)
                    /\ \A i \in 1 .. Len(s) :
                          /\ Neighbour(s[i], "right") = IF i = Len(s) THEN None ELSE s[i + 1]
                          /\ Neighbour(s[i], "left") = IF i = 1 THEN None ELSE s[i - 1]
  BY DEF NeighboursAgree
<1> HIDE DEF s
<1>6. Len(s) # 0 /\ 1 \in 1 .. Len(s) /\ Len(s) \in 1 .. Len(s)
  <2>1. Len(s) # 0 BY <1>3, EmptySeq
  <2> QED BY <1>1, <2>1
<1>7. tree.root \in M
  <2>1. s[1] \in M BY <1>1, <1>6
  <2> QED BY <1>4, <2>1
<1>8. \A i \in 1 .. Len(s) : Key[s[i]] \in Int BY <1>1, <1>4 DEF Distinct
<1>9. Extreme(tree.root, "left") = Head(s)
  <2> DEFINE m == Extreme(tree.root, "left")
  <2>1. m \in M /\ \A a \in M : a = m \/ Beyond(Key, "left", a, m)
    BY <1>4, <1>5, <1>7, ExtremeIs
  <2> HIDE DEF m
  <2>2. PICK i \in 1 .. Len(s) : s[i] = m BY <1>2, <2>1
  <2>3. s[1] = m
    <3> SUFFICES ASSUME s[1] # m PROVE FALSE OBVIOUS
    <3>1. Key[m] < Key[s[1]] BY <1>1, <1>6, <2>1 DEF Beyond
    <3>2. i # 1 /\ 1 < i BY <2>2, <1>1
    <3>3. Key[s[1]] < Key[s[i]] BY <1>1, <1>6, <3>2
    <3> QED BY <1>6, <1>8, <2>2, <3>1, <3>3
  <2> QED BY <1>3, <2>3 DEF m
<1>10. Extreme(tree.root, "right") = Last(s)
  <2> DEFINE m == Extreme(tree.root, "right")
  <2>1. m \in M /\ \A a \in M : a = m \/ Beyond(Key, "right", a, m)
    BY <1>4, <1>5, <1>7, ExtremeIs
  <2> HIDE DEF m
  <2>2. PICK i \in 1 .. Len(s) : s[i] = m BY <1>2, <2>1
  <2>3. s[Len(s)] = m
    <3> SUFFICES ASSUME s[Len(s)] # m PROVE FALSE OBVIOUS
    <3>1. Key[s[Len(s)]] < Key[m] BY <1>1, <1>6, <2>1 DEF Beyond
    <3>2. i # Len(s) /\ i < Len(s) BY <2>2, <1>1
    <3>3. Key[s[i]] < Key[s[Len(s)]] BY <1>1, <1>6, <3>2
    <3> QED BY <1>6, <1>8, <2>2, <3>1, <3>3
  <2> QED BY <2>3 DEF m, Last
<1>11. ASSUME NEW i \in 1 .. Len(s)
       PROVE  Neighbour(s[i], "right") = IF i = Len(s) THEN None ELSE s[i + 1]
  <2> DEFINE m == Neighbour(s[i], "right")
  <2>1. NextTo(M, "right", s[i], m) BY <1>1, <1>5, NeighbourIs
  <2> HIDE DEF m
  <2>2. \/ m = None /\ \A k \in M : ~(Key[s[i]] < Key[k])
        \/ /\ m \in M /\ Key[s[i]] < Key[m]
           /\ \A k \in M : Key[s[i]] < Key[k] => k = m \/ Key[m] < Key[k]
    BY <2>1 DEF NextTo, Beyond
  <2>3. CASE i = Len(s)
    <3>1. m \notin M
      <4> SUFFICES ASSUME m \in M PROVE FALSE OBVIOUS
      <4>1. PICK j \in 1 .. Len(s) : s[j] = m BY <1>2
      <4>2. Key[s[i]] < Key[s[j]] BY <1>4, <2>2, <4>1
      <4>3. j = i \/ j < i BY <1>1, <2>3
      <4>4. Key[s[j]] = Key[s[i]] \/ Key[s[j]] < Key[s[i]] BY <1>1, <4>3
      <4> QED BY <1>8, <4>2, <4>4
    <3> QED BY <2>2, <2>3, <3>1 DEF m
  <2>4. CASE i # Len(s)
    <3>1. i + 1 \in 1 .. Len(s) /\ i < i + 1 BY <1>1, <2>4
    <3>2. Key[s[i]] < Key[s[i + 1]] /\ s[i + 1] \in M BY <1>1, <3>1
    <3>3. m \in M /\ Key[s[i]] < Key[m] /\ (s[i + 1] = m \/ Key[m] < Key[s[i + 1]])
      BY <2>2, <3>2
    <3>4. PICK j \in 1 .. Len(s) : s[j] = m BY <1>2, <3>3
    <3>5. s[i + 1] = m
      <4> SUFFICES ASSUME Key[m] < Key[s[i + 1]] PROVE FALSE BY <3>3
      <4>1. j <= i \/ i + 1 <= j BY <1>1
      <4>2. CASE j <= i
        <5>1. Key[s[j]] = Key[s[i]] \/ Key[s[j]] < Key[s[i]] BY <1>1, <4>2
        <5> QED BY <1>8, <3>3, <3>4, <5>1
      <4>3. CASE i + 1 <= j
        <5>1. Key[s[i + 1]] = Key[s[j]] \/ Key[s[i + 1]] < Key[s[j]] BY <1>1, <3>1, <4>3
        <5> QED BY <1>8, <3>1, <3>4, <5>1
      <4> QED BY <4>1, <4>2, <4>3
    <3> QED BY <2>4, <3>5 DEF m
  <2> QED BY <2>3, <2>4
<1>12. ASSUME NEW i \in 1 .. Len(s)
       PROVE  Neighbour(s[i], "left") = IF i = 1 THEN None ELSE s[i - 1]
  <2> DEFINE m == Neighbour(s[i], "left")
  <2>1. NextTo(M, "left", s[i], m) BY <1>1, <1>5, NeighbourIs
  <2> HIDE DEF m
  <2>2. \/ m = None /\ \A k \in M : ~(Key[k] < Key[s[i]])
        \/ /\ m \in M /\ Key[m] < Key[s[i]]
           /\ \A k \in M : Key[k] < Key[s[i]] => k = m \/ Key[k] < Key[m]
    BY <2>1 DEF NextTo, Beyond
  <2>3. CASE i = 1
    <3>1. m \notin M
      <4> SUFFICES ASSUME m \in M PROVE FALSE OBVIOUS
      <4>1. PICK j \in 1 .. Len(s) : s[j] = m BY <1>2
      <4>2. Key[s[j]] < Key[s[i]] BY <1>4, <2>2, <4>1
      <4>3. j = i \/ i < j BY <1>1, <2>3
      <4>4. Key[s[j]] = Key[s[i]] \/ Key[s[i]] < Key[s[j]] BY <1>1, <4>3
      <4> QED BY <1>8, <4>2, <4>4
    <3> QED BY <2>2, <2>3, <3>1 DEF m
  <2>4. CASE i # 1
    <3>1. i - 1 \in 1 .. Len(s) /\ i - 1 < i BY <1>1, <2>4
    <3>2. Key[s[i - 1]] < Key[s[i]] /\ s[i - 1] \in M BY <1>1, <3>1
    <3>3. m \in M /\ Key[m] < Key[s[i]] /\ (s[i - 1] = m \/ Key[s[i - 1]] < Key[m])
      BY <2>2, <3>2
    <3>4. PICK j \in 1 .. Len(s) : s[j] = m BY <1>2, <3>3
    <3>5. s[i - 1] = m
      <4> SUFFICES ASSUME Key[s[i - 1]] < Key[m] PROVE FALSE BY <3>3
      <4>1. i <= j \/ j <= i - 1 BY <1>1
      <4>2. CASE i <= j
        <5>1. Key[s[j]] = Key[s[i]] \/ Key[s[i]] < Key[s[j]] BY <1>1, <4>2
        <5> QED BY <1>8, <3>3, <3>4, <5>1
      <4>3. CASE j <= i - 1
        <5>1. Key[s[i - 1]] = Key[s[j]] \/ Key[s[j]] < Key[s[i - 1]] BY <1>1, <3>1, <4>3
        <5> QED BY <1>8, <3>1, <3>4, <5>1
      <4> QED BY <4>1, <4>2, <4>3
    <3> QED BY <2>4, <3>5 DEF m
  <2> QED BY <2>3, <2>4
<1> QED BY <1>9, <1>10, <1>11, <1>12
-----------------------------------------------------------------------------
\* The black nodes from a node down, on every path, where a path on side z of q has one
\* more to come.
Weight(t, n) == IF t.color[n] = "red" THEN 0 ELSE 1
Short(q, z, n, s) == IF n = q /\ s = z THEN 1 ELSE 0
Even(t, M, q, z, bh) ==
    /\ bh[None] = 0
    /\ \A n \in M : /\ bh[n] \in Nat
                    /\ \A s \in Side : bh[n] = Weight(t, n) + Short(q, z, n, s) + bh[t.kid[n][s]]

\* What the node of a delete's fixup is below, and on which side.
ShortAt == IF job.kind = "delete" /\ job.node # tree.root THEN job.parent ELSE None
ShortOn == SideOf(tree, job.parent, job.node)

LEMMA BlackCountsAre ==
  ASSUME RBAssumption, NEW M, NEW sub, Hangs(tree, M, sub),
         NEW bh, Even(tree, M, ShortAt, ShortOn, bh)
  PROVE  Cardinality(BlackCounts) = 1
<1> DEFINE n == Cardinality(Nodes)
           extra(m, s) == IF /\ job.kind = "delete" /\ job.node # tree.root
                             /\ m = job.parent /\ s = SideOf(tree, m, job.node)
                          THEN 1 ELSE 0
           one(m) == IF Black(m) THEN 1 ELSE 0
           S == [Links -> SUBSET Nat]
           start == [m \in Links |-> {0}]
           below(w, m) == UNION {{one(m) + extra(m, s) + e : e \in w[tree.kid[m][s]]} : s \in Side}
           deeper(w) == [m \in Links |-> IF m = None THEN {0} ELSE below(w, m)]
           step == [p \in S \X Nat |-> deeper(p[1])]
           body(w) == [d \in 0 .. n |->
                         [m \in Links |->
                            IF m = None \/ d = 0 THEN {0}
                            ELSE UNION {{one(m) + extra(m, s) + e : e \in w[d - 1][tree.kid[m][s]]}
                                           : s \in Side}]]
<1>0. /\ tree.kid \in [Nodes -> [Side -> Links]] /\ n \in Nat /\ None \notin Nodes /\ M \subseteq Nodes
      /\ Spans(sub, M, tree.kid, tree.root, None) /\ tree.root \in M \cup {None}
      /\ sub[None] = {} /\ \A c \in M \cup {None} : Cardinality(sub[c]) \in Nat /\ Cardinality(sub[c]) <= n
      /\ \A c \in M, s \in Side : tree.kid[c][s] \in M \cup {None}
  BY TreeFacts
<1> HIDE DEF n
<1>20. n \in Nat /\ \A i \in 0 .. n : i # 0 => i - 1 \in Nat /\ (i - 1) + 1 = i /\ i - 1 \in 0 .. n
  <2>1. n \in Nat BY <1>0
  <2> QED BY <2>1
<1>1. start \in S OBVIOUS
<1>2. step \in [S \X Nat -> S]
  <2>1. ASSUME NEW w \in S PROVE deeper(w) \in S
    <3>1. ASSUME NEW m \in Links, m # None PROVE below(w, m) \in SUBSET Nat
      <4>1. ASSUME NEW s \in Side PROVE w[tree.kid[m][s]] \in SUBSET Nat
        <5>1. tree.kid[m][s] \in Links BY <1>0, <3>1 DEF Links
        <5> QED BY <5>1
      <4>2. ASSUME NEW s \in Side, NEW e \in w[tree.kid[m][s]]
            PROVE one(m) + extra(m, s) + e \in Nat
        <5>1. e \in Nat BY <4>1
        <5>2. one(m) \in Nat OBVIOUS
        <5>3. extra(m, s) \in Nat OBVIOUS
        <5> HIDE DEF one, extra
        <5> QED BY <5>1, <5>2, <5>3
      <4> HIDE DEF one, extra, S
      <4> QED BY <4>2
    <3>2. {0} \in SUBSET Nat OBVIOUS
    <3> HIDE DEF below
    <3> QED BY <3>1, <3>2
  <2>2. \A p \in S \X Nat : p[1] \in S OBVIOUS
  <2> HIDE DEF S, deeper
  <2> QED BY <2>1, <2>2
<1>3. PICK g \in [Nat -> S] : g[0] = start /\ \A i \in Nat : g[i + 1] = step[<<g[i], i>>]
  <2> HIDE DEF S, step, start
  <2>1. \E g : Iterates(g, S, start, step) BY <1>1, <1>2, Iterate
  <2> QED BY <2>1 DEF Iterates
<1>4. \A i \in Nat : g[i + 1] = deeper(g[i])
  <2>1. ASSUME NEW i \in Nat PROVE step[<<g[i], i>>] = deeper(g[i])
    <3>1. <<g[i], i>> \in S \X Nat OBVIOUS
    <3> HIDE DEF deeper, S
    <3> QED BY <3>1
  <2> HIDE DEF step, deeper
  <2> QED BY <1>3, <2>1
<1> HIDE DEF step
<1>5. \E w : w = body(w)
  <2> DEFINE f == [d \in 0 .. n |-> g[d]]
  <2>1. ASSUME NEW d \in 0 .. n PROVE f[d] = body(f)[d]
    <3>1. CASE d = 0
      <4>1. f[0] = start BY <1>0, <1>3
      <4>2. body(f)[0] = start
        <5> HIDE DEF f, one, extra
        <5> QED BY <1>0
      <4> HIDE DEF f, body, start
      <4> QED BY <3>1, <4>1, <4>2
    <3>2. CASE d # 0
      <4>1. d - 1 \in Nat /\ (d - 1) + 1 = d /\ d - 1 \in 0 .. n
        <5> HIDE DEF body, f, deeper, one, extra
        <5> QED BY <1>20, <3>2
      <4>2. f[d] = deeper(g[d - 1]) /\ f[d - 1] = g[d - 1]
        <5>1. g[(d - 1) + 1] = deeper(g[d - 1]) BY <1>4, <4>1
        <5> HIDE DEF deeper
        <5> QED BY <4>1, <5>1
      <4>3. body(f)[d] = deeper(f[d - 1])
        <5> HIDE DEF f, one, extra
        <5> QED BY <3>2
      <4> HIDE DEF f, body, deeper
      <4> QED BY <4>2, <4>3
    <3> QED BY <3>1, <3>2
  <2>2. body(f) = [d \in 0 .. n |-> body(f)[d]]
    <3> HIDE DEF f, one, extra
    <3> QED OBVIOUS
  <2>3. f = [d \in 0 .. n |-> f[d]] OBVIOUS
  <2> HIDE DEF body, f
  <2>4. f = body(f) BY <2>1, <2>2, <2>3
  <2> QED BY <2>4
<1> DEFINE of == CHOOSE w : w = body(w)
<1>6. of = body(of)
  <2> HIDE DEF body
  <2> QED BY <1>5
<1>7. BlackCounts = of[n][tree.root]
  BY Zenon DEF BlackCounts, n
<1> HIDE DEF of
<1>8. ASSUME NEW d \in 0 .. n, NEW m \in Links
      PROVE  of[d][m] = IF m = None \/ d = 0 THEN {0} ELSE below(of[d - 1], m)
  <2>1. of[d] = body(of)[d] BY <1>6, Zenon
  <2> HIDE DEF one, extra
  <2> QED BY <2>1
<1>9. /\ bh[None] = 0
      /\ \A m \in M : /\ bh[m] \in Nat
                      /\ \A s \in Side : bh[m] = one(m) + extra(m, s) + bh[tree.kid[m][s]]
  <2>1. ASSUME NEW m \in M, NEW s \in Side
        PROVE  one(m) = Weight(tree, m) /\ extra(m, s) = Short(ShortAt, ShortOn, m, s)
    <3>1. m # None BY <1>0
    <3>2. one(m) = Weight(tree, m) BY <3>1 DEF Weight, Black, Red
    <3>3. extra(m, s) = Short(ShortAt, ShortOn, m, s)
      BY <3>1 DEF Short, ShortAt, ShortOn
    <3> QED BY <3>2, <3>3
  <2> HIDE DEF one, extra
  <2> QED BY <2>1 DEF Even
<1> HIDE DEF one, extra
<1> DEFINE good(d, m) == Cardinality(sub[m]) <= d => of[d][m] = {bh[m]}
           D == {d \in Nat : d <= n => \A m \in M \cup {None} : good(d, m)}
<1>10. ASSUME NEW d \in 0 .. n PROVE good(d, None)
  <2>1. of[d][None] = {0} BY <1>8 DEF Links
  <2> QED BY <1>9, <2>1
<1>11. \A m \in M : 0 < Cardinality(sub[m])
  <2> SUFFICES ASSUME NEW m \in M PROVE 0 < Cardinality(sub[m]) OBVIOUS
  <2>1. "left" \in Side BY DEF Side
  <2>2. Cardinality(sub[tree.kid[m]["left"]]) < Cardinality(sub[m]) BY <1>0, <2>1, SubtreeSizes
  <2>3. Cardinality(sub[tree.kid[m]["left"]]) \in Nat /\ Cardinality(sub[m]) \in Nat BY <1>0, <2>1
  <2> QED BY <2>2, <2>3
<1>12. 0 \in D
  <2>1. ASSUME NEW m \in M \cup {None} PROVE good(0, m)
    <3>1. CASE m = None
      <4>1. 0 \in 0 .. n BY <1>20
      <4> HIDE DEF good
      <4> QED BY <1>10, <3>1, <4>1
    <3>2. CASE m \in M
      <4>1. 0 < Cardinality(sub[m]) /\ Cardinality(sub[m]) \in Nat BY <1>0, <1>11, <3>2
      <4> QED BY <4>1
    <3> QED BY <3>1, <3>2
  <2> HIDE DEF good
  <2> QED BY <2>1
<1>13. ASSUME NEW d \in D PROVE d + 1 \in D
  <2> SUFFICES ASSUME d + 1 <= n, NEW m \in M \cup {None} PROVE good(d + 1, m)
    <3> HIDE DEF good
    <3>1. d + 1 \in Nat OBVIOUS
    <3> QED BY <3>1
  <2>1. d \in Nat /\ d + 1 \in 0 .. n /\ d + 1 # 0 /\ (d + 1) - 1 = d /\ d <= n
    BY <1>0
  <2>2. CASE m = None BY <1>10, <2>1, <2>2
  <2>3. CASE m \in M
    <3> SUFFICES ASSUME Cardinality(sub[m]) <= d + 1 PROVE of[d + 1][m] = {bh[m]}
      OBVIOUS
    <3>1. ASSUME NEW s \in Side PROVE of[d][tree.kid[m][s]] = {bh[tree.kid[m][s]]}
      <4> DEFINE k == tree.kid[m][s]
      <4>1. k \in M \cup {None} BY <1>0, <2>3
      <4>2. Cardinality(sub[k]) < Cardinality(sub[m]) BY <1>0, <2>3, SubtreeSizes
      <4> HIDE DEF k
      <4>3. Cardinality(sub[k]) \in Nat /\ Cardinality(sub[m]) \in Nat BY <1>0, <4>1
      <4>4. Cardinality(sub[k]) <= d BY <2>1, <4>2, <4>3
      <4>5. good(d, k)
        <5> HIDE DEF good
        <5> QED BY <2>1, <4>1
      <4> QED BY <4>4, <4>5 DEF k
    <3>2. of[d + 1][m] = below(of[d], m)
      <4>1. m \in Links /\ m # None BY <1>0, <2>3 DEF Links
      <4> HIDE DEF below
      <4> QED BY <1>8, <2>1, <4>1
    <3>3. ASSUME NEW s \in Side
          PROVE  {one(m) + extra(m, s) + e : e \in of[d][tree.kid[m][s]]} = {bh[m]}
      <4> DEFINE v == bh[tree.kid[m][s]]
                 add(e) == one(m) + extra(m, s) + e
      <4>1. bh[m] = add(v) BY <1>9, <2>3
      <4>2. of[d][tree.kid[m][s]] = {v} BY <3>1
      <4> HIDE DEF v, add
      <4>3. {add(e) : e \in of[d][tree.kid[m][s]]} = {bh[m]} BY <4>1, <4>2
      <4> QED BY <4>3 DEF add
    <3> DEFINE part(s) == {one(m) + extra(m, s) + e : e \in of[d][tree.kid[m][s]]}
    <3>4. of[d + 1][m] = UNION {part(s) : s \in Side} BY <3>2
    <3>5. \A s \in Side : part(s) = {bh[m]} BY <3>3
    <3>6. "left" \in Side BY DEF Side
    <3> HIDE DEF part
    <3>7. UNION {part(s) : s \in Side} = {bh[m]} BY <3>5, <3>6
    <3> QED BY <3>4, <3>7
  <2> QED BY <2>2, <2>3
<1>14. D = Nat
  <2>1. D \in SUBSET Nat OBVIOUS
  <2> HIDE DEF D
  <2> QED BY <1>12, <1>13, <2>1, Induct
<1>15. good(n, tree.root)
  <2>1. n \in D BY <1>0, <1>14
  <2> HIDE DEF good
  <2> QED BY <1>0, <2>1
<1>16. BlackCounts = {bh[tree.root]}
  <2>1. Cardinality(sub[tree.root]) <= n BY <1>0
  <2> QED BY <1>7, <1>15, <2>1
<1> QED BY <1>16, FS_Singleton
-----------------------------------------------------------------------------
(* What each write to the tree leaves in its fields. *)

LEMMA FieldsOf ==
  ASSUME NEW t \in Trees
  PROVE  /\ t.root \in Links /\ t.kid \in [Nodes -> [Side -> Links]]
         /\ t.parent \in [Nodes -> Links] /\ t.color \in [Nodes -> {"free", "red", "black"}]
         /\ \A n \in Nodes, s \in Side : t.kid[n][s] \in Links
BY DEF Trees

\* u is t with the child on side z of x set to v.
KidsBut(u, t, x, z, v) ==
    \A n \in Nodes, s \in Side : u.kid[n][s] = IF n = x /\ s = z THEN v ELSE t.kid[n][s]
ParentsBut(u, t, n, p) == \A m \in Nodes : u.parent[m] = IF m = n THEN p ELSE t.parent[m]
ColorsBut(u, t, n, c) == \A m \in Nodes : u.color[m] = IF m = n THEN c ELSE t.color[m]

LEMMA KidSet ==
  ASSUME NEW t \in Trees, NEW x \in Nodes, NEW z \in Side, NEW v \in Links
  PROVE  /\ [t EXCEPT !.kid[x][z] = v] \in Trees
         /\ KidsBut([t EXCEPT !.kid[x][z] = v], t, x, z, v)
         /\ [t EXCEPT !.kid[x][z] = v].root = t.root
         /\ [t EXCEPT !.kid[x][z] = v].parent = t.parent
         /\ [t EXCEPT !.kid[x][z] = v].color = t.color
<1> DEFINE u == [t EXCEPT !.kid[x][z] = v]
<1>1. /\ u = [t EXCEPT !.kid = [t.kid EXCEPT ![x] = [t.kid[x] EXCEPT ![z] = v]]] OBVIOUS
<1>2. [t.kid EXCEPT ![x] = [t.kid[x] EXCEPT ![z] = v]] \in [Nodes -> [Side -> Links]]
  BY FieldsOf
<1>3. u.kid = [t.kid EXCEPT ![x] = [t.kid[x] EXCEPT ![z] = v]] BY DEF Trees
<1>4. u \in Trees /\ u.root = t.root /\ u.parent = t.parent /\ u.color = t.color
  BY <1>1, <1>2 DEF Trees
<1>5. KidsBut(u, t, x, z, v)
  <2> SUFFICES ASSUME NEW n \in Nodes, NEW s \in Side
               PROVE  u.kid[n][s] = IF n = x /\ s = z THEN v ELSE t.kid[n][s]
    BY DEF KidsBut
  <2> HIDE DEF u
  <2> QED BY <1>3, FieldsOf
<1> QED BY <1>4, <1>5

LEMMA ParentSet ==
  ASSUME NEW t \in Trees, NEW n \in Nodes, NEW p \in Links
  PROVE  /\ [t EXCEPT !.parent[n] = p] \in Trees
         /\ ParentsBut([t EXCEPT !.parent[n] = p], t, n, p)
         /\ [t EXCEPT !.parent[n] = p].root = t.root
         /\ [t EXCEPT !.parent[n] = p].kid = t.kid
         /\ [t EXCEPT !.parent[n] = p].color = t.color
<1> DEFINE u == [t EXCEPT !.parent[n] = p]
<1>1. u.parent = [t.parent EXCEPT ![n] = p] BY DEF Trees
<1>2. [t.parent EXCEPT ![n] = p] \in [Nodes -> Links] BY FieldsOf
<1>3. u \in Trees /\ u.root = t.root /\ u.kid = t.kid /\ u.color = t.color
  BY <1>2 DEF Trees
<1> QED BY <1>1, <1>3, FieldsOf DEF ParentsBut

LEMMA SetParentIs ==
  ASSUME RBAssumption, NEW t \in Trees, NEW n \in Links, NEW p \in Links
  PROVE  /\ SetParent(t, n, p) \in Trees
         /\ ParentsBut(SetParent(t, n, p), t, n, p)
         /\ SetParent(t, n, p).root = t.root
         /\ SetParent(t, n, p).kid = t.kid
         /\ SetParent(t, n, p).color = t.color
<1>1. None \notin Nodes BY DEF RBAssumption, NodesAssumption
<1>2. CASE n = None
  <2>1. SetParent(t, n, p) = t BY <1>2 DEF SetParent
  <2> QED BY <1>1, <1>2, <2>1 DEF ParentsBut
<1>3. CASE n # None
  <2>1. SetParent(t, n, p) = [t EXCEPT !.parent[n] = p] /\ n \in Nodes
    BY <1>3 DEF SetParent, Links
  <2> QED BY <2>1, ParentSet
<1> QED BY <1>2, <1>3

LEMMA PaintIs ==
  ASSUME NEW t \in Trees, NEW n \in Nodes, NEW c \in {"free", "red", "black"}
  PROVE  /\ Paint(t, n, c) \in Trees
         /\ ColorsBut(Paint(t, n, c), t, n, c)
         /\ Paint(t, n, c).root = t.root
         /\ Paint(t, n, c).kid = t.kid
         /\ Paint(t, n, c).parent = t.parent
<1> DEFINE u == [t EXCEPT !.color[n] = c]
<1>1. u.color = [t.color EXCEPT ![n] = c] BY DEF Trees
<1>2. [t.color EXCEPT ![n] = c] \in [Nodes -> {"free", "red", "black"}] BY FieldsOf
<1>3. u \in Trees /\ u.root = t.root /\ u.kid = t.kid /\ u.parent = t.parent
  BY <1>2 DEF Trees
<1>4. ColorsBut(u, t, n, c) BY <1>1, FieldsOf DEF ColorsBut
<1> QED BY <1>3, <1>4 DEF Paint

LEMMA ReplaceIs ==
  ASSUME RBAssumption, NEW t \in Trees, NEW p \in Links, NEW n, NEW m \in Links
  PROVE  /\ Replace(t, p, n, m) \in Trees
         /\ KidsBut(Replace(t, p, n, m), t, p, SideOf(t, p, n), m)
         /\ Replace(t, p, n, m).root = IF p = None THEN m ELSE t.root
         /\ Replace(t, p, n, m).parent = t.parent
         /\ Replace(t, p, n, m).color = t.color
<1>1. None \notin Nodes BY DEF RBAssumption, NodesAssumption
<1>2. CASE p = None
  <2>1. Replace(t, p, n, m) = [t EXCEPT !.root = m] BY <1>2 DEF Replace
  <2>2. /\ [t EXCEPT !.root = m] \in Trees /\ [t EXCEPT !.root = m].root = m
        /\ [t EXCEPT !.root = m].kid = t.kid /\ [t EXCEPT !.root = m].parent = t.parent
        /\ [t EXCEPT !.root = m].color = t.color
    BY DEF Trees
  <2> QED BY <1>1, <1>2, <2>1, <2>2 DEF KidsBut
<1>3. CASE p # None
  <2>1. SideOf(t, p, n) \in Side /\ p \in Nodes BY <1>3 DEF SideOf, Side, Links
  <2>2. Replace(t, p, n, m) = [t EXCEPT !.kid[p][SideOf(t, p, n)] = m] BY <1>3 DEF Replace
  <2> QED BY <1>3, <2>1, <2>2, KidSet
<1> QED BY <1>2, <1>3

LEMMA FreedIs ==
  ASSUME NEW t \in Trees, NEW n \in Nodes
  PROVE  /\ Freed(t, n) \in Trees
         /\ ParentsBut(Freed(t, n), t, n, None) /\ ColorsBut(Freed(t, n), t, n, "free")
         /\ \A m \in Nodes : Freed(t, n).kid[m] = IF m = n THEN Leaf ELSE t.kid[m]
         /\ Freed(t, n).root = t.root
<1> DEFINE u == Freed(t, n)
<1>1. /\ u.kid = [t.kid EXCEPT ![n] = Leaf] /\ u.parent = [t.parent EXCEPT ![n] = None]
      /\ u.color = [t.color EXCEPT ![n] = "free"] /\ u.root = t.root
  BY DEF Trees, Freed
<1>2. /\ [t.kid EXCEPT ![n] = Leaf] \in [Nodes -> [Side -> Links]]
      /\ [t.parent EXCEPT ![n] = None] \in [Nodes -> Links]
      /\ [t.color EXCEPT ![n] = "free"] \in [Nodes -> {"free", "red", "black"}]
  BY FieldsOf DEF Leaf, Links
<1>3. u \in Trees
  <2> DEFINE v == [t EXCEPT !.kid[n] = Leaf]
             w == [v EXCEPT !.parent[n] = None]
  <2>1. v \in Trees BY <1>2 DEF Trees
  <2>2. w \in Trees BY <2>1, ParentSet DEF Links
  <2>3. Paint(w, n, "free") \in Trees BY <2>2, PaintIs
  <2>4. u = Paint(w, n, "free") BY DEF Freed, Paint
  <2> QED BY <2>3, <2>4
<1> HIDE DEF u
<1> QED BY <1>1, <1>3, FieldsOf DEF u, ParentsBut, ColorsBut

\* Which child a node is, where that is not in doubt.
LEMMA SideOfIs ==
  ASSUME RBAssumption, NEW t, NEW M, NEW sub, Hangs(t, M, sub), NEW p \in M, NEW s \in Side,
         t.kid[p][s] # None \/ t.kid[p][Other(s)] # None
  PROVE  SideOf(t, p, t.kid[p][s]) = s
<1>1. Spans(sub, M, t.kid, t.root, None) BY TreeFacts
<1>2. CASE s = "left" BY <1>2 DEF SideOf
<1>3. CASE s = "right"
  <2>1. t.kid[p]["left"] # t.kid[p]["right"]
    <3>1. CASE t.kid[p]["right"] = None BY <1>3, <3>1 DEF Other
    <3>2. CASE t.kid[p]["right"] # None
      <4> SUFFICES ASSUME t.kid[p]["left"] = t.kid[p]["right"] PROVE FALSE OBVIOUS
      <4>1. "left" \in Side /\ "right" \in Side /\ "left" # "right" BY DEF Side
      <4> QED BY <1>1, <3>2, <4>1, OneParent
    <3> QED BY <3>1, <3>2
  <2> QED BY <1>3, <2>1 DEF SideOf
<1> QED BY <1>2, <1>3 DEF Side

\* A child is another node than those above it, and has fewer nodes below.
LEMMA ChildIs ==
  ASSUME RBAssumption, NEW t, NEW M, NEW sub, Hangs(t, M, sub), NEW p \in M, NEW s \in Side,
         t.kid[p][s] # None
  PROVE  /\ t.kid[p][s] \in M /\ t.kid[p][s] # p /\ t.kid[p][s] # t.root
         /\ t.parent[t.kid[p][s]] = p
         /\ \A z \in Side : t.kid[t.kid[p][s]][z] # p /\ t.kid[t.kid[p][s]][z] # t.kid[p][s]
         /\ \A q \in M, z \in Side : t.kid[q][z] = t.kid[p][s] => q = p /\ z = s
<1> DEFINE c == t.kid[p][s]
<1>1. /\ Spans(sub, M, t.kid, t.root, None) /\ Linked(t, M) /\ None \notin M
      /\ \A m \in M \cup {None} : Cardinality(sub[m]) \in Nat
  BY TreeFacts
<1>2. c \in M /\ c # t.root /\ \A q \in M, z \in Side : t.kid[q][z] = c => q = p /\ z = s
  BY <1>1, OneParent
<1>3. t.parent[c] = p BY <1>1 DEF Linked
<1>4. Cardinality(sub[c]) < Cardinality(sub[p]) BY <1>1, SubtreeSizes
<1>5. ASSUME NEW z \in Side
      PROVE  t.kid[c][z] \in M \cup {None} /\ Cardinality(sub[t.kid[c][z]]) < Cardinality(sub[c])
  BY <1>1, <1>2, SubtreeSizes
<1> HIDE DEF c
<1>6. c # p
  <2> SUFFICES ASSUME c = p PROVE FALSE OBVIOUS
  <2> QED BY <1>1, <1>4
<1>7. ASSUME NEW z \in Side PROVE t.kid[c][z] # p /\ t.kid[c][z] # c
  <2> DEFINE d == t.kid[c][z]
  <2>1. d \in M \cup {None} /\ Cardinality(sub[d]) < Cardinality(sub[c]) BY <1>5
  <2>2. Cardinality(sub[d]) \in Nat /\ Cardinality(sub[c]) \in Nat /\ Cardinality(sub[p]) \in Nat
    BY <1>1, <1>2, <2>1
  <2> HIDE DEF d
  <2>3. d # p
    <3> SUFFICES ASSUME d = p PROVE FALSE OBVIOUS
    <3> QED BY <1>4, <2>1, <2>2
  <2>4. d # c
    <3> SUFFICES ASSUME d = c PROVE FALSE OBVIOUS
    <3> QED BY <2>1, <2>2
  <2> QED BY <2>3, <2>4 DEF d
<1> QED BY <1>2, <1>3, <1>6, <1>7 DEF c

\* t2 is the tree t turned at x, down to side s.
IsTurned(t, M, sub, x, s, t2) ==
    /\ Hangs(t2, M, Turned(sub, M, t.kid, None, x, s, t.kid[x][Other(s)]))
    /\ t2.root = (IF t.root = x THEN t.kid[x][Other(s)] ELSE t.root)
    /\ t2.color = t.color
    /\ TurnsTo(M, t.kid, None, x, s, Other(s), t.kid[x][Other(s)], t2.kid)
    /\ \A n \in Nodes \ M : t2.kid[n] = t.kid[n]

LEMMA RotateIs ==
  ASSUME RBAssumption, NEW t, NEW M, NEW sub, Hangs(t, M, sub), NEW x \in M, NEW s \in Side,
         t.kid[x][Other(s)] # None
  PROVE  IsTurned(t, M, sub, x, s, Rotate(t, x, s))
<1> DEFINE o == Other(s)
           y == t.kid[x][o]
           inner == t.kid[y][s]
           above == t.parent[x]
           t0 == [t EXCEPT !.kid[x][o] = inner]
           t1 == SetParent(t0, inner, x)
           u1 == [t1 EXCEPT !.parent[y] = above]
           u2 == Replace(u1, above, x, y)
           u3 == [u2 EXCEPT !.kid[y][s] = x]
           u4 == SetParent(u3, x, y)
<1>1. Rotate(t, x, s) = u4 BY Zenon DEF Rotate
<1> HIDE DEF t0, t1, u1, u2, u3, u4
<1>2. /\ t \in Trees /\ M \subseteq Nodes /\ None \notin M /\ None \notin Nodes
      /\ Spans(sub, M, t.kid, t.root, None) /\ SortedBy(sub, M, t.kid, Key) /\ Linked(t, M)
      /\ t.root \in M \cup {None} /\ t.kid \in [Nodes -> [Side -> Links]]
      /\ \A c \in M, z \in Side : t.kid[c][z] \in M \cup {None}
  BY TreeFacts DEF Hangs
<1>3. o \in Side /\ o # s /\ \A z \in Side : z = s \/ z = o BY Others
<1> HIDE DEF o
<1>4. /\ y \in M /\ y # x /\ y # t.root /\ y # None
      /\ \A z \in Side : t.kid[y][z] # x /\ t.kid[y][z] # y
      /\ \A q \in M, z \in Side : t.kid[q][z] = y => q = x /\ z = o
      /\ t.parent[y] = x
  <2>1. t.kid[x][o] # None BY DEF o
  <2> QED BY <1>3, <2>1, ChildIs
<1> HIDE DEF y
<1>5. /\ inner \in M \cup {None} /\ inner # x /\ inner # y
      /\ inner # None => /\ inner # t.root
                         /\ \A q \in M, z \in Side : t.kid[q][z] = inner => q = y /\ z = s
  <2>1. inner \in M \cup {None} /\ inner # x /\ inner # y BY <1>2, <1>4
  <2>2. inner # None => /\ inner # t.root
                        /\ \A q \in M, z \in Side : t.kid[q][z] = inner => q = y /\ z = s
    BY <1>4, ChildIs
  <2> QED BY <2>1, <2>2
<1>6. /\ above \in M \cup {None} /\ above # x /\ above # y
      /\ above = None <=> x = t.root
      /\ above # None => t.kid[above][SideOf(t, above, x)] = x
      /\ \A q \in M, z \in Side : t.kid[q][z] = x => q = above /\ z = SideOf(t, above, x) /\ x # t.root
  <2>1. CASE x = t.root /\ above = None
    <3>1. \A q \in M, z \in Side : t.kid[q][z] # x
      <4> SUFFICES ASSUME NEW q \in M, NEW z \in Side, t.kid[q][z] = x PROVE FALSE OBVIOUS
      <4> QED BY <1>2, <2>1, ChildIs
    <3> QED BY <1>2, <1>4, <2>1, <3>1
  <2>2. CASE x # t.root /\ above \in M /\ \E z \in Side : t.kid[above][z] = x
    <3>1. PICK z \in Side : t.kid[above][z] = x BY <2>2
    <3>2. t.kid[above][z] # None BY <1>2, <3>1
    <3>3. SideOf(t, above, x) = z BY <2>2, <3>1, <3>2, SideOfIs
    <3>4. /\ above # x /\ \A q \in M, w \in Side : t.kid[q][w] = x => q = above /\ w = z
      BY <2>2, <3>1, <3>2, ChildIs
    <3>5. above # y BY <1>4, <3>1
    <3> QED BY <1>2, <2>2, <3>1, <3>3, <3>4, <3>5
  <2> QED BY <2>1, <2>2, ParentIs
<1> HIDE DEF inner, above
<1>7. x \in Nodes /\ y \in Nodes /\ inner \in Links /\ above \in Links /\ x \in Links /\ y \in Links
  BY <1>2, <1>4, <1>5, <1>6 DEF Links
<1>8. /\ t0 \in Trees /\ KidsBut(t0, t, x, o, inner) /\ t0.root = t.root /\ t0.parent = t.parent
      /\ t0.color = t.color
  <2>1. t \in Trees BY <1>2
  <2> QED BY <2>1, <1>3, <1>7, KidSet DEF t0
<1>9. /\ t1 \in Trees /\ t1.kid = t0.kid /\ t1.root = t.root /\ ParentsBut(t1, t0, inner, x)
      /\ t1.color = t.color
  BY <1>7, <1>8, SetParentIs DEF t1
<1>10. /\ u1 \in Trees /\ u1.kid = t0.kid /\ u1.root = t.root /\ ParentsBut(u1, t1, y, above)
       /\ u1.color = t.color
  BY <1>7, <1>9, ParentSet DEF u1
<1>11. above # None => SideOf(u1, above, x) = SideOf(t, above, x)
  <2> SUFFICES ASSUME above # None PROVE SideOf(u1, above, x) = SideOf(t, above, x) OBVIOUS
  <2>1. above \in Nodes /\ "left" \in Side BY <1>2, <1>6 DEF Side
  <2>2. u1.kid[above]["left"] = t.kid[above]["left"] BY <1>6, <1>8, <1>10, <2>1 DEF KidsBut
  <2> QED BY <2>2 DEF SideOf
<1>12. /\ u2 \in Trees /\ KidsBut(u2, u1, above, SideOf(u1, above, x), y)
       /\ u2.root = (IF above = None THEN y ELSE t.root) /\ u2.parent = u1.parent /\ u2.color = t.color
  BY <1>7, <1>10, ReplaceIs DEF u2
<1>13. /\ u3 \in Trees /\ KidsBut(u3, u2, y, s, x) /\ u3.root = u2.root /\ u3.parent = u1.parent
       /\ u3.color = t.color
  BY <1>7, <1>12, KidSet DEF u3
<1>14. /\ u4 \in Trees /\ u4.kid = u3.kid /\ u4.root = u2.root /\ ParentsBut(u4, u3, x, y)
       /\ u4.color = t.color
  BY <1>7, <1>13, SetParentIs DEF u4
<1>15. \A n \in Nodes, z \in Side :
          u4.kid[n][z] = IF n = y /\ z = s THEN x
                         ELSE IF n = above /\ z = SideOf(t, above, x) THEN y
                         ELSE IF n = x /\ z = o THEN inner ELSE t.kid[n][z]
  BY <1>2, <1>8, <1>10, <1>11, <1>12, <1>13, <1>14 DEF KidsBut
<1>16. \A n \in Nodes :
          u4.parent[n] = IF n = x THEN y ELSE IF n = y THEN above
                         ELSE IF n = inner THEN x ELSE t.parent[n]
  BY <1>8, <1>9, <1>10, <1>12, <1>13, <1>14 DEF ParentsBut
<1>17. u4.root = IF t.root = x THEN y ELSE t.root BY <1>6, <1>12, <1>14
<1>18. TurnsTo(M, t.kid, None, x, s, o, y, u4.kid)
  <2>1. DOMAIN u4.kid = DOMAIN t.kid BY <1>2, <1>14 DEF Trees
  <2>2. u4.kid[x][s] = t.kid[x][s] /\ u4.kid[x][o] = t.kid[y][s]
    BY <1>3, <1>4, <1>6, <1>7, <1>15 DEF inner
  <2>3. u4.kid[y][s] = x /\ u4.kid[y][o] = t.kid[y][o]
    BY <1>3, <1>4, <1>6, <1>7, <1>15
  <2>4. ASSUME NEW p \in M \ {x, y}, NEW z \in Side
        PROVE  u4.kid[p][z] = IF t.kid[p][z] = x THEN y ELSE t.kid[p][z]
    <3>1. u4.kid[p][z] = IF p = above /\ z = SideOf(t, above, x) THEN y ELSE t.kid[p][z]
      BY <1>2, <1>15
    <3>2. t.kid[p][z] = x <=> p = above /\ z = SideOf(t, above, x)
      BY <1>2, <1>6
    <3> QED BY <3>1, <3>2
  <2>5. y = t.kid[x][o] BY DEF y
  <2> QED BY <1>3, <1>4, <2>1, <2>2, <2>3, <2>4, <2>5 DEF TurnsTo
<1>19. Linked(u4, M)
  <2>1. u4.parent[u4.root] = None
    <3>1. CASE t.root = x BY <1>4, <1>6, <1>7, <1>16, <1>17, <3>1
    <3>2. CASE t.root # x
      <4>1. t.root \in M
        <5>1. x \in M /\ t.root # None BY <1>2, Splits
        <5> QED BY <1>2, <5>1
      <4>2. t.root # inner /\ t.root # y /\ t.parent[t.root] = None
        BY <1>2, <1>4, <1>5, <4>1 DEF Linked
      <4> QED BY <1>2, <1>16, <1>17, <3>2, <4>1, <4>2
    <3> QED BY <3>1, <3>2
  <2>2. ASSUME NEW n \in M, NEW z \in Side, u4.kid[n][z] # None
        PROVE  u4.parent[u4.kid[n][z]] = n
    <3>1. CASE n = y /\ z = s BY <1>7, <1>15, <1>16, <3>1
    <3>2. CASE n = above /\ z = SideOf(t, above, x)
      <4>1. u4.kid[n][z] = y BY <1>2, <1>6, <1>15, <3>2
      <4> QED BY <1>4, <1>7, <1>16, <3>2, <4>1
    <3>3. CASE n = x /\ z = o
      <4>1. u4.kid[n][z] = inner BY <1>2, <1>4, <1>6, <1>15, <3>3
      <4>2. inner \in Nodes BY <1>2, <1>5, <2>2, <4>1
      <4> QED BY <1>5, <1>16, <3>3, <4>1, <4>2
    <3>4. CASE ~(n = y /\ z = s) /\ ~(n = above /\ z = SideOf(t, above, x)) /\ ~(n = x /\ z = o)
      <4> DEFINE c == t.kid[n][z]
      <4>1. u4.kid[n][z] = c BY <1>2, <1>15, <3>4
      <4>2. c \in M /\ c # None BY <1>2, <2>2, <4>1
      <4>3. c # x /\ c # y BY <1>4, <1>6, <3>4
      <4>4. c # inner BY <1>5, <3>4, <4>2
      <4>5. t.parent[c] = n BY <1>2, <4>2 DEF Linked
      <4> HIDE DEF c
      <4> QED BY <1>2, <1>16, <4>1, <4>2, <4>3, <4>4, <4>5
    <3> QED BY <3>1, <3>2, <3>3, <3>4
  <2> QED BY <2>1, <2>2 DEF Linked
<1>20. /\ Spans(Turned(sub, M, t.kid, None, x, s, y), M, u4.kid, u4.root, None)
       /\ SortedBy(Turned(sub, M, t.kid, None, x, s, y), M, u4.kid, Key)
  BY <1>2, <1>17, <1>18, RotationTurns
<1>21. ASSUME NEW n \in Nodes \ M PROVE u4.kid[n] = t.kid[n]
  <2>1. \A z \in Side : u4.kid[n][z] = t.kid[n][z]
    BY <1>2, <1>4, <1>6, <1>15
  <2>2. u4.kid[n] \in [Side -> Links] /\ t.kid[n] \in [Side -> Links] BY <1>2, <1>14, FieldsOf
  <2> QED BY <2>1, <2>2
<1>22. IsTurned(t, M, sub, x, s, u4)
  <2>1. Hangs(u4, M, Turned(sub, M, t.kid, None, x, s, y))
    BY <1>2, <1>14, <1>19, <1>20 DEF Hangs
  <2> QED BY <1>14, <1>17, <1>18, <1>21, <2>1 DEF IsTurned, y, o
<1> QED BY <1>1, <1>22
-----------------------------------------------------------------------------
IsRed(t, n) == n # None /\ t.color[n] = "red"
RedPair(t, p, z) == IsRed(t, p) /\ IsRed(t, t.kid[p][z])

\* No red node is below a red one, but n, and what is below d; nor is the root red, but n.
Reds(t, M, n, d) ==
    /\ IsRed(t, t.root) => t.root = n
    /\ \A p \in M, z \in Side : RedPair(t, p, z) => t.kid[p][z] = n \/ p = d

\* The counts bh when x and y, a child of it, are turned, and x then has b.
Moved(bh, M, x, y, b) ==
    [a \in M \cup {None} |-> IF a = y THEN bh[x] ELSE IF a = x THEN b ELSE bh[a]]

Moves(new, bh, t, t2, M, x, s, o, y, b) ==
    /\ new[None] = bh[None] /\ new[x] = b /\ new[y] = bh[x]
    /\ \A p \in M \ {x, y} :
          /\ new[p] = bh[p]
          /\ \A z \in Side : new[t2.kid[p][z]] = bh[t.kid[p][z]]
    /\ new[t2.kid[x][s]] = bh[t.kid[x][s]] /\ new[t2.kid[x][o]] = bh[t.kid[y][s]]
    /\ new[t2.kid[y][s]] = b /\ new[t2.kid[y][o]] = bh[t.kid[y][o]]

LEMMA MovedIs ==
  ASSUME RBAssumption, NEW t, NEW M, NEW sub, Hangs(t, M, sub), NEW x, NEW s, NEW o, NEW y,
         NEW t2, TurnsTo(M, t.kid, None, x, s, o, y, t2.kid), NEW bh, NEW b
  PROVE  Moves(Moved(bh, M, x, y, b), bh, t, t2, M, x, s, o, y, b)
<1> DEFINE new == Moved(bh, M, x, y, b)
<1>1. /\ x \in M /\ s \in Side /\ o \in Side /\ s # o /\ y = t.kid[x][o] /\ y # None
      /\ t2.kid[x][s] = t.kid[x][s] /\ t2.kid[x][o] = t.kid[y][s]
      /\ t2.kid[y][s] = x /\ t2.kid[y][o] = t.kid[y][o]
      /\ \A p \in M \ {x, y}, z \in Side :
            t2.kid[p][z] = IF t.kid[p][z] = x THEN y ELSE t.kid[p][z]
  BY DEF TurnsTo
<1>2. /\ y \in M /\ y # x
      /\ \A z \in Side : t.kid[y][z] # x /\ t.kid[y][z] # y
      /\ \A q \in M, z \in Side : t.kid[q][z] = y => q = x /\ z = o
  BY <1>1, ChildIs
<1>3. None \notin M /\ \A p \in M, z \in Side : t.kid[p][z] \in M \cup {None} BY TreeFacts
<1>4. t.kid[x][s] # x /\ t.kid[x][s] # y
  <2>1. t.kid[x][s] # y BY <1>1, <1>2
  <2>2. CASE t.kid[x][s] = None BY <1>1, <1>3, <2>1, <2>2
  <2>3. CASE t.kid[x][s] # None BY <1>1, <2>1, <2>3, ChildIs
  <2> QED BY <2>2, <2>3
<1>5. /\ new[x] = b /\ new[y] = bh[x] /\ \A a \in M \cup {None} : a # x /\ a # y => new[a] = bh[a]
  BY <1>1, <1>2 DEF Moved
<1> HIDE DEF new
<1>6. ASSUME NEW p \in M \ {x, y}, NEW z \in Side PROVE new[t2.kid[p][z]] = bh[t.kid[p][z]]
  <2>1. t.kid[p][z] # y BY <1>2
  <2>2. CASE t.kid[p][z] = x BY <1>1, <1>5, <2>2
  <2>3. CASE t.kid[p][z] # x BY <1>1, <1>3, <1>5, <2>1, <2>3
  <2> QED BY <2>2, <2>3
<1>7. new[None] = bh[None] BY <1>1, <1>3, <1>5
<1>8. new[t2.kid[x][s]] = bh[t.kid[x][s]] /\ new[t2.kid[x][o]] = bh[t.kid[y][s]]
  BY <1>1, <1>2, <1>3, <1>4, <1>5
<1>9. new[t2.kid[y][s]] = b /\ new[t2.kid[y][o]] = bh[t.kid[y][o]]
  BY <1>1, <1>2, <1>3, <1>5
<1> QED BY <1>5, <1>6, <1>7, <1>8, <1>9 DEF new, Moves

\* Turning a node x and a red child y of it, the two changing colors, keeps the counts.
Exchanges(t, t2, M, x, y) ==
    \A n \in M : t2.color[n] = IF n = y THEN t.color[x] ELSE IF n = x THEN "red" ELSE t.color[n]

LEMMA EvenWhenTurned ==
  ASSUME RBAssumption, NEW t, NEW M, NEW sub, Hangs(t, M, sub), NEW x, NEW s, NEW o, NEW y,
         NEW t2, TurnsTo(M, t.kid, None, x, s, o, y, t2.kid), Exchanges(t, t2, M, x, y),
         t.color[y] = "red",
         NEW q, NEW z, q \notin {x, y} \/ (q = x /\ z = s), NEW bh, Even(t, M, q, z, bh)
  PROVE  Even(t2, M, q, z, Moved(bh, M, x, y, bh[y]))
<1> DEFINE new == Moved(bh, M, x, y, bh[y])
<1>1. /\ x \in M /\ s \in Side /\ o \in Side /\ s # o /\ y = t.kid[x][o] /\ y # None
  BY DEF TurnsTo
<1>2. y \in M /\ y # x BY <1>1, ChildIs
<1>3. /\ new[None] = bh[None] /\ new[x] = bh[y] /\ new[y] = bh[x]
      /\ \A p \in M \ {x, y} :
            /\ new[p] = bh[p]
            /\ \A w \in Side : new[t2.kid[p][w]] = bh[t.kid[p][w]]
      /\ new[t2.kid[x][s]] = bh[t.kid[x][s]] /\ new[t2.kid[x][o]] = bh[t.kid[y][s]]
      /\ new[t2.kid[y][s]] = bh[y] /\ new[t2.kid[y][o]] = bh[t.kid[y][o]]
  <2>1. Moves(new, bh, t, t2, M, x, s, o, y, bh[y]) BY MovedIs, Zenon
  <2> HIDE DEF new
  <2> QED BY <2>1 DEF Moves
<1> HIDE DEF new
<1>4. \A w \in Side : w = s \/ w = o BY <1>1 DEF Side
<1>5. /\ bh[None] = 0
      /\ \A n \in M : /\ bh[n] \in Nat
                      /\ \A w \in Side : bh[n] = Weight(t, n) + Short(q, z, n, w) + bh[t.kid[n][w]]
  BY DEF Even
<1>6. /\ Weight(t, y) = 0 /\ Weight(t2, x) = 0 /\ Weight(t2, y) = Weight(t, x)
      /\ \A n \in M \ {x, y} : Weight(t2, n) = Weight(t, n)
      /\ \A n : Weight(t, n) \in {0, 1}
  BY <1>1, <1>2 DEF Weight, Exchanges
<1>7. \A w \in Side : /\ Short(q, z, y, w) = 0
                      /\ w = o => Short(q, z, x, w) = 0
                      /\ \A n : Short(q, z, n, w) \in {0, 1}
  BY <1>1, <1>2 DEF Short
<1>8. ASSUME NEW p \in M \ {x, y}, NEW w \in Side
      PROVE  new[p] = Weight(t2, p) + Short(q, z, p, w) + new[t2.kid[p][w]]
  BY <1>3, <1>5, <1>6
<1>9. \A n \in M, w \in Side : t.kid[n][w] \in M \cup {None} BY TreeFacts
<1>10. ASSUME NEW w \in Side
       PROVE  new[x] = Weight(t2, x) + Short(q, z, x, w) + new[t2.kid[x][w]]
  <2>0. bh[y] = bh[t.kid[y][s]] /\ bh[y] = bh[t.kid[y][o]]
    <3>1. bh[t.kid[y][s]] \in Nat /\ bh[t.kid[y][o]] \in Nat BY <1>1, <1>2, <1>5, <1>9
    <3> QED BY <1>1, <1>2, <1>5, <1>6, <1>7, <3>1
  <2>1. bh[x] = Weight(t, x) + Short(q, z, x, s) + bh[t.kid[x][s]]
        /\ bh[x] = Weight(t, x) + bh[y]
    <3>1. bh[x] = Weight(t, x) + Short(q, z, x, o) + bh[t.kid[x][o]] BY <1>1, <1>5
    <3>2. Short(q, z, x, o) = 0 BY <1>1, <1>7
    <3>3. Weight(t, x) \in Nat /\ bh[y] \in Nat BY <1>2, <1>5, <1>6
    <3> QED BY <1>1, <1>5, <3>1, <3>2, <3>3
  <2>2. /\ Weight(t, x) \in Nat /\ Short(q, z, x, s) \in Nat /\ bh[t.kid[x][s]] \in Nat
        /\ bh[y] \in Nat
    BY <1>1, <1>2, <1>5, <1>6, <1>7, <1>9
  <2>3. CASE w = s BY <1>3, <1>6, <2>1, <2>2, <2>3
  <2>4. CASE w = o
    <3>1. Short(q, z, x, w) = 0 BY <1>7, <2>4
    <3> QED BY <1>3, <1>6, <2>0, <2>2, <2>4, <3>1
  <2> QED BY <1>4, <2>3, <2>4
<1>11. ASSUME NEW w \in Side
       PROVE  new[y] = Weight(t2, y) + Short(q, z, y, w) + new[t2.kid[y][w]]
  <2>0. bh[y] = bh[t.kid[y][o]] /\ bh[y] \in Nat
    <3>1. bh[t.kid[y][o]] \in Nat /\ bh[y] \in Nat BY <1>1, <1>2, <1>5, <1>9
    <3> QED BY <1>1, <1>2, <1>5, <1>6, <1>7, <3>1
  <2>1. bh[x] = Weight(t, x) + bh[y]
    <3>1. bh[x] = Weight(t, x) + Short(q, z, x, o) + bh[t.kid[x][o]] BY <1>1, <1>5
    <3>2. Short(q, z, x, o) = 0 BY <1>1, <1>7
    <3>3. Weight(t, x) \in Nat BY <1>6
    <3> QED BY <1>1, <2>0, <3>1, <3>2, <3>3
  <2>2. Short(q, z, y, w) = 0 /\ Weight(t, x) \in Nat BY <1>6, <1>7
  <2>3. CASE w = s BY <1>3, <1>6, <2>0, <2>1, <2>2, <2>3
  <2>4. CASE w = o BY <1>3, <1>6, <2>0, <2>1, <2>2, <2>4
  <2> QED BY <1>4, <2>3, <2>4
<1>12. ASSUME NEW n \in M
       PROVE  /\ new[n] \in Nat
              /\ \A w \in Side : new[n] = Weight(t2, n) + Short(q, z, n, w) + new[t2.kid[n][w]]
  <2>1. bh[x] \in Nat /\ bh[y] \in Nat /\ bh[n] \in Nat BY <1>1, <1>2, <1>5
  <2>2. CASE n = x BY <1>3, <1>10, <2>1, <2>2
  <2>3. CASE n = y BY <1>3, <1>11, <2>1, <2>3
  <2>4. CASE n \in M \ {x, y}
    <3>1. new[n] \in Nat BY <1>3, <2>1, <2>4
    <3> QED BY <1>8, <2>4, <3>1
  <2> QED BY <2>2, <2>3, <2>4
<1> QED BY <1>3, <1>5, <1>12 DEF Even, new
-----------------------------------------------------------------------------
(* What turning a node and its child does to the colors. *)

\* The red pairs of a tree turned at x are those of t, but at x and y.
PairsKept(t, t2, M, x, s, o, y) ==
    /\ \A p \in M \ {x, y}, z \in Side :
          /\ RedPair(t2, p, z) <=> RedPair(t, p, z)
          /\ t2.kid[p][z] = IF t.kid[p][z] = x THEN y ELSE t.kid[p][z]
    /\ RedPair(t2, x, s) <=> IsRed(t, t.kid[x][s])
    /\ RedPair(t2, x, o) <=> IsRed(t, t.kid[y][s])
    /\ RedPair(t2, y, s) <=> t.color[x] = "red"
    /\ RedPair(t2, y, o) <=> t.color[x] = "red" /\ IsRed(t, t.kid[y][o])

LEMMA PairsWhenTurned ==
  ASSUME RBAssumption, NEW t, NEW M, NEW sub, Hangs(t, M, sub), NEW x, NEW s, NEW o, NEW y,
         NEW t2, TurnsTo(M, t.kid, None, x, s, o, y, t2.kid), Exchanges(t, t2, M, x, y)
  PROVE  PairsKept(t, t2, M, x, s, o, y)
<1>1. /\ x \in M /\ s \in Side /\ o \in Side /\ s # o /\ y = t.kid[x][o] /\ y # None
      /\ t2.kid[x][s] = t.kid[x][s] /\ t2.kid[x][o] = t.kid[y][s]
      /\ t2.kid[y][s] = x /\ t2.kid[y][o] = t.kid[y][o]
      /\ \A p \in M \ {x, y}, z \in Side :
            t2.kid[p][z] = IF t.kid[p][z] = x THEN y ELSE t.kid[p][z]
  BY DEF TurnsTo
<1>2. /\ y \in M /\ y # x
      /\ \A z \in Side : t.kid[y][z] # x /\ t.kid[y][z] # y
      /\ \A q \in M, z \in Side : t.kid[q][z] = y => q = x /\ z = o
  BY <1>1, ChildIs
<1>3. None \notin M /\ \A p \in M, z \in Side : t.kid[p][z] \in M \cup {None} BY TreeFacts
<1>4. t.kid[x][s] # x /\ t.kid[x][s] # y
  <2>1. t.kid[x][s] # y BY <1>1, <1>2
  <2>2. CASE t.kid[x][s] = None BY <1>1, <1>3, <2>1, <2>2
  <2>3. CASE t.kid[x][s] # None BY <1>1, <2>1, <2>3, ChildIs
  <2> QED BY <2>2, <2>3
<1>5. /\ t2.color[x] = "red" /\ t2.color[y] = t.color[x]
      /\ \A n \in M \ {x, y} : t2.color[n] = t.color[n]
  BY <1>1, <1>2 DEF Exchanges
<1>6. ASSUME NEW p \in M \ {x, y}, NEW z \in Side
      PROVE RedPair(t2, p, z) <=> RedPair(t, p, z)
  <2>1. t.kid[p][z] # y BY <1>2
  <2>2. t2.color[p] = t.color[p] BY <1>5
  <2>3. CASE t.kid[p][z] = x
    <3>1. t2.kid[p][z] = y BY <1>1, <2>3
    <3>2. x # None BY <1>1, <1>3
    <3> QED BY <1>1, <1>5, <2>2, <2>3, <3>1, <3>2 DEF RedPair, IsRed
  <2>4. CASE t.kid[p][z] # x
    <3>1. t2.kid[p][z] = t.kid[p][z] BY <1>1, <2>4
    <3>2. t.kid[p][z] = None \/ t.kid[p][z] \in M \ {x, y} BY <1>3, <2>1, <2>4
    <3> QED BY <1>5, <2>2, <3>1, <3>2 DEF RedPair, IsRed
  <2> QED BY <2>3, <2>4
<1>7. /\ t.kid[x][s] = None \/ t.kid[x][s] \in M \ {x, y}
      /\ t.kid[y][s] = None \/ t.kid[y][s] \in M \ {x, y}
      /\ t.kid[y][o] = None \/ t.kid[y][o] \in M \ {x, y}
  BY <1>1, <1>2, <1>3, <1>4
<1>8. x # None BY <1>1, <1>3
<1>9. RedPair(t2, x, s) <=> IsRed(t, t.kid[x][s])
  BY <1>1, <1>5, <1>7, <1>8 DEF RedPair, IsRed
<1>10. RedPair(t2, x, o) <=> IsRed(t, t.kid[y][s])
  BY <1>1, <1>5, <1>7, <1>8 DEF RedPair, IsRed
<1>11. RedPair(t2, y, s) <=> t.color[x] = "red"
  BY <1>1, <1>5, <1>7, <1>8 DEF RedPair, IsRed
<1>12. RedPair(t2, y, o) <=> t.color[x] = "red" /\ IsRed(t, t.kid[y][o])
  BY <1>1, <1>5, <1>7, <1>8 DEF RedPair, IsRed
<1> QED BY <1>1, <1>6, <1>9, <1>10, <1>11, <1>12 DEF PairsKept

\* Turning a node x with the short path and its black child y of the other side, the far
\* child of which is red, and painting x and the far child black fills the short path.
Fills(t, t2, M, x, y, f) ==
    \A n \in M : t2.color[n] = IF n = y THEN t.color[x]
                               ELSE IF n = x \/ n = f THEN "black" ELSE t.color[n]
Filled(bh, M, x, y, f) ==
    [a \in M \cup {None} |-> IF a = f THEN bh[f] + 1 ELSE Moved(bh, M, x, y, bh[y])[a]]

LEMMA EvenWhenFilled ==
  ASSUME RBAssumption, NEW t, NEW M, NEW sub, Hangs(t, M, sub), NEW x, NEW s, NEW o, NEW y,
         NEW t2, TurnsTo(M, t.kid, None, x, s, o, y, t2.kid),
         NEW f, f = t.kid[y][o], IsRed(t, f), t.color[y] # "red", Fills(t, t2, M, x, y, f),
         NEW bh, Even(t, M, x, s, bh), NEW z
  PROVE  Even(t2, M, None, z, Filled(bh, M, x, y, f))
<1> DEFINE new == Moved(bh, M, x, y, bh[y])
           bh2 == Filled(bh, M, x, y, f)
<1>1. /\ x \in M /\ s \in Side /\ o \in Side /\ s # o /\ y = t.kid[x][o] /\ y # None
      /\ t2.kid[x][s] = t.kid[x][s] /\ t2.kid[x][o] = t.kid[y][s]
      /\ t2.kid[y][s] = x /\ t2.kid[y][o] = f
      /\ \A p \in M \ {x, y}, w \in Side :
            t2.kid[p][w] = IF t.kid[p][w] = x THEN y ELSE t.kid[p][w]
  BY DEF TurnsTo
<1>2. /\ y \in M /\ y # x
      /\ \A q \in M, w \in Side : t.kid[q][w] = y => q = x /\ w = o
  BY <1>1, ChildIs
<1>3. None \notin M /\ \A p \in M, w \in Side : t.kid[p][w] \in M \cup {None} BY TreeFacts
<1>4. /\ f \in M /\ f # y /\ f # x /\ f # None
      /\ \A q \in M, w \in Side : t.kid[q][w] = f => q = y /\ w = o
      /\ \A w \in Side : t.kid[f][w] # y /\ t.kid[f][w] # f
  <2>1. t.kid[y][o] # None BY DEF IsRed
  <2>2. t.kid[y][o] # x BY <1>1, ChildIs
  <2>3. /\ t.kid[y][o] \in M /\ t.kid[y][o] # y
        /\ \A q \in M, w \in Side : t.kid[q][w] = t.kid[y][o] => q = y /\ w = o
        /\ \A w \in Side : t.kid[t.kid[y][o]][w] # y /\ t.kid[t.kid[y][o]][w] # t.kid[y][o]
    <3>1. y \in M /\ o \in Side BY <1>1, <1>2
    <3> HIDE DEF new, bh2
    <3> QED BY <2>1, <3>1, ChildIs
  <2> QED BY <2>1, <2>2, <2>3
<1>5. /\ new[None] = bh[None] /\ new[x] = bh[y] /\ new[y] = bh[x]
      /\ \A p \in M \ {x, y} :
            /\ new[p] = bh[p]
            /\ \A w \in Side : new[t2.kid[p][w]] = bh[t.kid[p][w]]
      /\ new[t2.kid[x][s]] = bh[t.kid[x][s]] /\ new[t2.kid[x][o]] = bh[t.kid[y][s]]
      /\ new[t2.kid[y][s]] = bh[y] /\ new[t2.kid[y][o]] = bh[t.kid[y][o]]
  <2>1. Moves(new, bh, t, t2, M, x, s, o, y, bh[y]) BY MovedIs, Zenon
  <2> HIDE DEF new
  <2> QED BY <2>1 DEF Moves
<1>6. \A a \in M \cup {None} : bh2[a] = IF a = f THEN bh[f] + 1 ELSE new[a] BY DEF Filled
<1> HIDE DEF new, bh2
<1>7. \A w \in Side : w = s \/ w = o BY <1>1 DEF Side
<1>8. /\ bh[None] = 0
      /\ \A n \in M : /\ bh[n] \in Nat
                      /\ \A w \in Side : bh[n] = Weight(t, n) + Short(x, s, n, w) + bh[t.kid[n][w]]
  BY DEF Even
<1>9. /\ Weight(t, y) = 1 /\ Weight(t, f) = 0
      /\ Weight(t2, x) = 1 /\ Weight(t2, f) = 1 /\ Weight(t2, y) = Weight(t, x)
      /\ \A n \in M \ {x, y, f} : Weight(t2, n) = Weight(t, n)
      /\ \A n : Weight(t, n) \in {0, 1}
  BY <1>1, <1>2, <1>4 DEF Weight, Fills, IsRed
<1>10. /\ Short(x, s, x, s) = 1 /\ Short(x, s, x, o) = 0
       /\ \A n \in M \ {x}, w \in Side : Short(x, s, n, w) = 0
       /\ \A n \in M, w \in Side : Short(None, z, n, w) = 0
  BY <1>1, <1>3 DEF Short
<1>11. \A n \in M \cup {None} : bh[n] \in Nat BY <1>8
<1>12. /\ bh[y] = 1 + bh[t.kid[y][s]] /\ bh[y] = 1 + bh[f]
       /\ bh[x] = Weight(t, x) + 1 + bh[t.kid[x][s]] /\ bh[x] = Weight(t, x) + bh[y]
       /\ \A w \in Side : bh[f] = bh[t.kid[f][w]]
  <2>1. bh[y] = 1 + 0 + bh[t.kid[y][s]] /\ bh[y] = 1 + 0 + bh[f]
    BY <1>1, <1>2, <1>8, <1>9, <1>10
  <2>2. bh[x] = Weight(t, x) + 1 + bh[t.kid[x][s]] /\ bh[x] = Weight(t, x) + 0 + bh[y]
    BY <1>1, <1>2, <1>8, <1>10
  <2>3. \A w \in Side : bh[f] = 0 + 0 + bh[t.kid[f][w]] BY <1>4, <1>8, <1>9, <1>10
  <2>4. /\ bh[y] \in Nat /\ bh[f] \in Nat /\ bh[t.kid[y][s]] \in Nat
        /\ bh[t.kid[x][s]] \in Nat /\ Weight(t, x) \in Nat
        /\ \A w \in Side : bh[t.kid[f][w]] \in Nat
    <3>1. t.kid[y][s] \in M \cup {None} /\ t.kid[x][s] \in M \cup {None}
      BY <1>1, <1>2, <1>3
    <3>2. \A w \in Side : t.kid[f][w] \in M \cup {None} BY <1>3, <1>4
    <3>3. Weight(t, x) \in Nat BY <1>9
    <3> QED BY <1>1, <1>2, <1>4, <1>11, <3>1, <3>2, <3>3
  <2> QED BY <2>1, <2>2, <2>3, <2>4
<1>13. /\ t.kid[x][s] # f /\ t.kid[y][s] # f BY <1>1, <1>2, <1>4
<1>14. /\ bh2[None] = 0 /\ bh2[x] = bh[y] /\ bh2[y] = bh[x] /\ bh2[f] = bh[f] + 1
       /\ bh2[t2.kid[x][s]] = bh[t.kid[x][s]] /\ bh2[t2.kid[x][o]] = bh[t.kid[y][s]]
       /\ bh2[t2.kid[y][s]] = bh[y] /\ bh2[t2.kid[y][o]] = bh[f] + 1
  <2>1. /\ None \in M \cup {None} /\ x \in M \cup {None} /\ y \in M \cup {None}
        /\ f \in M \cup {None} /\ t2.kid[x][s] \in M \cup {None} /\ t2.kid[x][o] \in M \cup {None}
    BY <1>1, <1>2, <1>3, <1>4
  <2>2. /\ None # f /\ x # f /\ y # f /\ t2.kid[x][s] # f /\ t2.kid[x][o] # f
    BY <1>1, <1>4, <1>13
  <2>3. t2.kid[y][s] = x /\ t2.kid[y][o] = f BY <1>1
  <2>4. /\ bh2[None] = new[None] /\ bh2[x] = new[x] /\ bh2[y] = new[y] /\ bh2[f] = bh[f] + 1
        /\ bh2[t2.kid[x][s]] = new[t2.kid[x][s]] /\ bh2[t2.kid[x][o]] = new[t2.kid[x][o]]
    BY <1>6, <2>1, <2>2
  <2> QED BY <1>5, <1>8, <2>3, <2>4
<1>15. ASSUME NEW p \in M \ {x, y, f}, NEW w \in Side
       PROVE  bh2[p] = bh[p] /\ bh2[t2.kid[p][w]] = bh[t.kid[p][w]]
  <2>1. t2.kid[p][w] # f /\ t2.kid[p][w] \in M \cup {None}
    <3>1. t2.kid[p][w] = IF t.kid[p][w] = x THEN y ELSE t.kid[p][w] BY <1>1
    <3>2. t.kid[p][w] # f /\ t.kid[p][w] \in M \cup {None} BY <1>3, <1>4
    <3> QED BY <1>2, <1>4, <3>1, <3>2
  <2>2. bh2[t2.kid[p][w]] = new[t2.kid[p][w]] BY <1>6, <2>1
  <2> QED BY <1>5, <1>6, <2>2
<1>16. \A w \in Side : bh2[t2.kid[f][w]] = bh[t.kid[f][w]]
  <2> SUFFICES ASSUME NEW w \in Side PROVE bh2[t2.kid[f][w]] = bh[t.kid[f][w]] OBVIOUS
  <2>1. t2.kid[f][w] # f /\ t2.kid[f][w] \in M \cup {None}
    <3>1. t2.kid[f][w] = IF t.kid[f][w] = x THEN y ELSE t.kid[f][w] BY <1>1, <1>4
    <3>2. t.kid[f][w] # f /\ t.kid[f][w] \in M \cup {None} BY <1>3, <1>4
    <3> QED BY <1>2, <1>4, <3>1, <3>2
  <2>2. bh2[t2.kid[f][w]] = new[t2.kid[f][w]] BY <1>6, <2>1
  <2> QED BY <1>4, <1>5, <2>2
<1>17. ASSUME NEW n \in M
       PROVE  /\ bh2[n] \in Nat
              /\ \A w \in Side : bh2[n] = Weight(t2, n) + Short(None, z, n, w) + bh2[t2.kid[n][w]]
  <2>0. bh[x] \in Nat /\ bh[y] \in Nat /\ bh[f] \in Nat BY <1>1, <1>2, <1>4, <1>11
  <2>1. CASE n = x
    <3>1. Short(None, z, n, s) = 0 /\ Short(None, z, n, o) = 0 BY <1>1, <1>10
    <3>2. bh[t.kid[x][s]] \in Nat /\ bh[t.kid[y][s]] \in Nat /\ Weight(t, x) \in Nat
      BY <1>1, <1>2, <1>3, <1>9, <1>11
    <3>3. bh[y] = 1 + bh[t.kid[x][s]] BY <1>12, <2>0, <3>2
    <3>4. bh2[n] = Weight(t2, n) + Short(None, z, n, s) + bh2[t2.kid[n][s]]
      BY <1>9, <1>14, <2>1, <3>1, <3>2, <3>3
    <3>5. bh2[n] = Weight(t2, n) + Short(None, z, n, o) + bh2[t2.kid[n][o]]
      BY <1>9, <1>12, <1>14, <2>1, <3>1, <3>2
    <3> QED BY <1>7, <1>14, <2>0, <2>1, <3>4, <3>5
  <2>2. CASE n = y
    <3>1. Short(None, z, n, s) = 0 /\ Short(None, z, n, o) = 0 BY <1>1, <1>10
    <3>2. Weight(t, x) \in Nat BY <1>9
    <3>3. bh2[n] = Weight(t2, n) + Short(None, z, n, s) + bh2[t2.kid[n][s]]
      BY <1>9, <1>12, <1>14, <2>0, <2>2, <3>1, <3>2
    <3>4. bh2[n] = Weight(t2, n) + Short(None, z, n, o) + bh2[t2.kid[n][o]]
      BY <1>9, <1>12, <1>14, <2>0, <2>2, <3>1, <3>2
    <3> QED BY <1>7, <1>14, <2>0, <2>2, <3>3, <3>4
  <2>3. CASE n = f
    <3> SUFFICES ASSUME NEW w \in Side
                 PROVE bh2[f] = Weight(t2, f) + Short(None, z, f, w) + bh2[t2.kid[f][w]]
      BY <1>14, <2>0, <2>3
    <3>1. Short(None, z, f, w) = 0 BY <1>4, <1>10
    <3>2. bh2[t2.kid[f][w]] = bh[f] BY <1>12, <1>16
    <3> QED BY <1>9, <1>14, <2>0, <3>1, <3>2
  <2>4. CASE n \in M \ {x, y, f}
    <3>0. bh2[n] \in Nat
      <4>1. "left" \in Side BY DEF Side
      <4> QED BY <1>11, <1>15, <2>4, <4>1
    <3> SUFFICES ASSUME NEW w \in Side
                 PROVE bh2[n] = Weight(t2, n) + Short(None, z, n, w) + bh2[t2.kid[n][w]]
      BY <3>0
    <3>1. Short(None, z, n, w) = 0 /\ Short(x, s, n, w) = 0 BY <1>10, <2>4
    <3>2. bh[n] = Weight(t, n) + Short(x, s, n, w) + bh[t.kid[n][w]] BY <1>8
    <3> QED BY <1>9, <1>15, <2>4, <3>1, <3>2
  <2> QED BY <2>1, <2>2, <2>3, <2>4
<1> QED BY <1>14, <1>17 DEF Even, bh2
-----------------------------------------------------------------------------
\* pt is the tree t, its nodes M painted anew, in colors of nodes that are allocated.
Repaints(t, pt, M) ==
    /\ pt \in Trees /\ pt.kid = t.kid /\ pt.root = t.root /\ pt.parent = t.parent
    /\ \A n \in Nodes \ M : pt.color[n] = t.color[n]
    /\ \A n \in M : pt.color[n] # "free"

LEMMA Repainted ==
  ASSUME RBAssumption, NEW t, NEW M, NEW sub, Hangs(t, M, sub), NEW pt, Repaints(t, pt, M)
  PROVE  /\ Hangs(pt, M, sub)
         /\ \A n \in M, c \in {"red", "black"} :
               Repaints(t, Paint(pt, n, c), M) /\ ColorsBut(Paint(pt, n, c), pt, n, c)
<1>1. Hangs(pt, M, sub) BY DEF Hangs, Repaints, Linked
<1>2. ASSUME NEW n \in M, NEW c \in {"red", "black"}
      PROVE  Repaints(t, Paint(pt, n, c), M) /\ ColorsBut(Paint(pt, n, c), pt, n, c)
  <2>1. pt \in Trees /\ n \in Nodes /\ c \in {"free", "red", "black"} /\ c # "free"
        /\ M \subseteq Nodes
    BY DEF Hangs, Repaints
  <2>2. /\ Paint(pt, n, c) \in Trees
        /\ ColorsBut(Paint(pt, n, c), pt, n, c)
        /\ Paint(pt, n, c).root = pt.root
        /\ Paint(pt, n, c).kid = pt.kid
        /\ Paint(pt, n, c).parent = pt.parent
    BY <2>1, PaintIs
  <2> QED BY <2>1, <2>2 DEF Repaints, ColorsBut
<1> QED BY <1>1, <1>2

Turns(t, t2, M, sub, x, s, y) ==
    /\ Hangs(t2, M, Turned(sub, M, t.kid, None, x, s, y))
    /\ t2.root = (IF t.root = x THEN y ELSE t.root)
    /\ TurnsTo(M, t.kid, None, x, s, Other(s), y, t2.kid)
    /\ \A n \in Nodes \ M : t2.kid[n] = t.kid[n]

LEMMA TurnPainted ==
  ASSUME RBAssumption, NEW t, NEW M, NEW sub, Hangs(t, M, sub), NEW pt, Repaints(t, pt, M),
         NEW x \in M, NEW s \in Side, t.kid[x][Other(s)] # None
  PROVE  /\ Turns(t, Rotate(pt, x, s), M, sub, x, s, t.kid[x][Other(s)])
         /\ Rotate(pt, x, s).color = pt.color
<1>1. Hangs(pt, M, sub) BY Repainted
<1>2. pt.kid = t.kid /\ pt.root = t.root BY DEF Repaints
<1>3. IsTurned(pt, M, sub, x, s, Rotate(pt, x, s)) BY <1>1, <1>2, RotateIs
<1> QED BY <1>2, <1>3 DEF IsTurned, Turns
-----------------------------------------------------------------------------
(* The inductive invariant. *)

\* The node the loops of a delete are at is the child of the job's parent, and no node
\* is being freed but by a delete.
JobSound(t, j, M) ==
    /\ j \in [kind : {"none", "insert", "delete"}, node : Links, parent : Links, victim : Links]
    /\ j.kind = "none" => j = NoJob
    /\ j.kind = "insert" => j.node \in M /\ t.color[j.node] = "red" /\ j.victim = None
    /\ j.kind = "delete" =>
          /\ j.victim \in Nodes /\ j.node \in M \cup {None}
          /\ j.node # t.root => j.parent \in M /\ \E s \in Side : t.kid[j.parent][s] = j.node

FreeAreLeaves(t) == \A n \in Nodes : t.color[n] = "free" => t.kid[n] = Leaf

InTree(t, j) == {n \in Nodes : t.color[n] # "free"} \ {j.victim}
ShortBelow(t, j) == IF j.kind = "delete" /\ j.node # t.root THEN j.parent ELSE None
Excused(j) == IF j.kind = "delete" THEN j.node ELSE None

Sound(t, j, M, sub, bh) ==
    /\ M = InTree(t, j) /\ FreeAreLeaves(t) /\ JobSound(t, j, M)
    /\ Hangs(t, M, sub)
    /\ Even(t, M, ShortBelow(t, j), SideOf(t, j.parent, j.node), bh)
    /\ Reds(t, M, j.node, Excused(j))

TreeSound(t, j) == \E M, sub, bh : Sound(t, j, M, sub, bh)

RBInv == TreeSound(tree, job) /\ call.ret \in {"ok", "err"} \cup Links

\* The nodes that are free stay so, and what else a step leaves alone in them.
Keeps(t, t2, M) ==
    \A n \in Nodes : /\ n \in M => t2.color[n] # "free"
                     /\ n \notin M => t2.color[n] = t.color[n] /\ t2.kid[n] = t.kid[n]

LEMMA TreeKept ==
  ASSUME NEW t, NEW t2, NEW j, NEW j2, NEW M, M = InTree(t, j), FreeAreLeaves(t), Keeps(t, t2, M),
         j2.victim = j.victim
  PROVE  M = InTree(t2, j2) /\ FreeAreLeaves(t2)
BY DEF InTree, FreeAreLeaves, Keeps

\* Where no path is short it does not matter on which side.
LEMMA NoneShort ==
  ASSUME NEW t, NEW M, NEW bh, None \notin M, NEW z, NEW w, Even(t, M, None, z, bh)
  PROVE  Even(t, M, None, w, bh)
BY DEF Even, Short
-----------------------------------------------------------------------------
Holds(t, j, M) == \E sub, bh : Sound(t, j, M, sub, bh)

LEMMA SoundFacts ==
  ASSUME RBAssumption, NEW t, NEW j, NEW M, NEW sub, NEW bh, Sound(t, j, M, sub, bh)
  PROVE  /\ M = InTree(t, j) /\ FreeAreLeaves(t) /\ Hangs(t, M, sub) /\ t \in Trees
         /\ Even(t, M, ShortBelow(t, j), SideOf(t, j.parent, j.node), bh)
         /\ Reds(t, M, j.node, Excused(j)) /\ JobSound(t, j, M)
         /\ M \subseteq Nodes /\ None \notin M /\ None \notin Nodes
         /\ t.root \in M \cup {None} /\ (M # {} => t.root # None)
         /\ \A c \in M : t.color[c] # "free"
         /\ \A c \in M, s \in Side : t.kid[c][s] \in M \cup {None}
         /\ bh[None] = 0 /\ \A c \in M \cup {None} : bh[c] \in Nat
<1>1. /\ M = InTree(t, j) /\ FreeAreLeaves(t) /\ JobSound(t, j, M) /\ Hangs(t, M, sub)
      /\ Even(t, M, ShortBelow(t, j), SideOf(t, j.parent, j.node), bh)
      /\ Reds(t, M, j.node, Excused(j))
  BY DEF Sound
<1>2. t \in Trees BY <1>1 DEF Hangs
<1>3. /\ M \subseteq Nodes /\ None \notin M /\ None \notin Nodes /\ t.root \in M \cup {None}
      /\ sub[None] = {} /\ sub[t.root] = M
      /\ \A c \in M, s \in Side : t.kid[c][s] \in M \cup {None}
  BY <1>1, TreeFacts
<1>4. M # {} => t.root # None BY <1>3
<1>5. \A c \in M : t.color[c] # "free" BY <1>1 DEF InTree
<1>6. bh[None] = 0 /\ \A c \in M \cup {None} : bh[c] \in Nat BY <1>1 DEF Even
<1> QED BY <1>1, <1>2, <1>3, <1>4, <1>5, <1>6

\* Where the loop of an insert is: node, its red parent p on side s of g, which is not red.
TwoReds(t, M, g, s, p, n) ==
    /\ g \in M /\ s \in Side /\ p \in M /\ n \in M /\ t.kid[g][s] = p
    /\ \E z \in Side : t.kid[p][z] = n
    /\ p # g /\ n # p /\ n # t.root /\ p # t.root
    /\ t.color[p] = "red" /\ t.color[n] = "red" /\ t.color[g] # "red"

LEMMA GrandparentIs ==
  ASSUME RBAssumption, NEW M, NEW sub, NEW bh, Sound(tree, job, M, sub, bh), InsertLoops
  PROVE  /\ TwoReds(tree, M, Grandparent, SideOf(tree, Grandparent, Parent), Parent, job.node)
         /\ Uncle \in M \cup {None} /\ Excused(job) = None /\ ShortBelow(tree, job) = None
<1> DEFINE n == job.node
           p == Parent
           g == Grandparent
<1>1. /\ Hangs(tree, M, sub) /\ Reds(tree, M, n, Excused(job)) /\ JobSound(tree, job, M)
      /\ None \notin M /\ \A c \in M, s \in Side : tree.kid[c][s] \in M \cup {None}
  BY SoundFacts
<1>2. /\ job.kind = "insert" /\ p # None /\ tree.color[p] = "red" /\ n \in M /\ tree.color[n] = "red"
      /\ Excused(job) = None /\ ShortBelow(tree, job) = None
  BY <1>1 DEF InsertLoops, Red, JobSound, Excused, ShortBelow
<1>3. p = tree.parent[n] /\ g = tree.parent[p] BY DEF Parent, Grandparent
<1> HIDE DEF n, p, g
<1>4. n # tree.root /\ p \in M /\ \E z \in Side : tree.kid[p][z] = n BY <1>1, <1>2, <1>3, ParentIs
<1>5. PICK z \in Side : tree.kid[p][z] = n BY <1>4
<1>6. n # p
  <2>1. tree.kid[p][z] # None BY <1>1, <1>2, <1>5
  <2> QED BY <1>1, <1>4, <1>5, <2>1, ChildIs
<1>7. p # tree.root BY <1>2, <1>6 , <1>1 DEF Reds, IsRed
<1>8. g \in M /\ \E s \in Side : tree.kid[g][s] = p BY <1>1, <1>3, <1>4, <1>7, ParentIs
<1>9. PICK s \in Side : tree.kid[g][s] = p BY <1>8
<1>10. SideOf(tree, g, p) = s /\ p # g
  <2>1. tree.kid[g][s] # None BY <1>2, <1>9
  <2> QED BY <1>1, <1>8, <1>9, <2>1, SideOfIs, ChildIs
<1>11. tree.color[g] # "red"
  <2> SUFFICES ASSUME tree.color[g] = "red" PROVE FALSE OBVIOUS
  <2>1. RedPair(tree, g, s) BY <1>1, <1>2, <1>8, <1>9 DEF RedPair, IsRed
  <2>2. tree.kid[g][s] = n \/ g = None BY <1>1, <1>2, <1>8, <2>1 DEF Reds
  <2> QED BY <1>1, <1>6, <1>8, <1>9, <2>2
<1>12. Uncle \in M \cup {None}
  <2>1. Uncle = tree.kid[g][Other(s)] BY <1>10 DEF Uncle, g, p
  <2> QED BY <1>1, <1>8, <2>1, Others
<1>13. TwoReds(tree, M, g, SideOf(tree, g, p), p, n)
  BY <1>2, <1>4, <1>6, <1>7, <1>8, <1>9, <1>10, <1>11 DEF TwoReds
<1> QED BY <1>2, <1>12, <1>13 DEF n, p, g

\* Two red children of a node that is not may give it their color.
Recolors(t, t2, M, g, p, u) ==
    /\ t2.kid = t.kid /\ g \in M /\ IsRed(t, p) /\ IsRed(t, u) /\ t.color[g] # "red"
    /\ \E s \in Side : t.kid[g][s] = p /\ t.kid[g][Other(s)] = u
    /\ \A n \in M : t2.color[n] = IF n = g THEN "red" ELSE IF n = p \/ n = u THEN "black"
                                   ELSE t.color[n]

LEMMA EvenWhenRecolored ==
  ASSUME RBAssumption, NEW t, NEW M, NEW sub, Hangs(t, M, sub), NEW t2, NEW g, NEW p, NEW u,
         Recolors(t, t2, M, g, p, u), NEW bh, NEW z, Even(t, M, None, z, bh), NEW w
  PROVE  \E bh2 : Even(t2, M, None, w, bh2)
<1> USE DEF Recolors
<1> PICK s \in Side : t.kid[g][s] = p /\ t.kid[g][Other(s)] = u OBVIOUS
<1> DEFINE bh2 == [a \in M \cup {None} |-> IF a = p \/ a = u THEN bh[a] + 1 ELSE bh[a]]
<1>1. None \notin M /\ \A c \in M, y \in Side : t.kid[c][y] \in M \cup {None} BY TreeFacts
<1>2. Other(s) \in Side /\ Other(s) # s /\ \A y \in Side : y = s \/ y = Other(s) BY Others
<1>3. /\ p \in M /\ p # g /\ \A q \in M, y \in Side : t.kid[q][y] = p => q = g
  <2>1. t.kid[g][s] # None BY DEF IsRed
  <2> QED BY <2>1, ChildIs
<1>4. /\ u \in M /\ u # g /\ \A q \in M, y \in Side : t.kid[q][y] = u => q = g
  <2>1. t.kid[g][Other(s)] # None BY DEF IsRed
  <2> QED BY <1>2, <2>1, ChildIs
<1>5. /\ bh[None] = 0
      /\ \A n \in M : bh[n] \in Nat /\ \A y \in Side : bh[n] = Weight(t, n) + bh[t.kid[n][y]]
  <2>1. \A n \in M, y \in Side : Short(None, z, n, y) = 0 BY <1>1 DEF Short
  <2>2. \A n \in M \cup {None} : bh[n] \in Nat BY DEF Even
  <2>3. ASSUME NEW n \in M, NEW y \in Side PROVE bh[n] = Weight(t, n) + bh[t.kid[n][y]]
    <3>1. bh[n] = Weight(t, n) + Short(None, z, n, y) + bh[t.kid[n][y]] BY DEF Even
    <3>2. Weight(t, n) \in Nat /\ bh[t.kid[n][y]] \in Nat BY <1>1, <2>2 DEF Weight
    <3> QED BY <2>1, <3>1, <3>2
  <2> QED BY <2>2, <2>3 DEF Even
<1>6. /\ Weight(t, p) = 0 /\ Weight(t, u) = 0 /\ Weight(t, g) = 1
      /\ Weight(t2, p) = 1 /\ Weight(t2, u) = 1 /\ Weight(t2, g) = 0
      /\ \A n \in M : n # p /\ n # u /\ n # g => Weight(t2, n) = Weight(t, n)
  BY <1>3, <1>4 DEF Weight, IsRed
<1>7. \A a \in M \cup {None} : bh2[a] = IF a = p \/ a = u THEN bh[a] + 1 ELSE bh[a] OBVIOUS
<1> HIDE DEF bh2
<1>8. ASSUME NEW n \in M, NEW y \in Side
      PROVE  bh2[n] \in Nat /\ bh2[n] = Weight(t2, n) + Short(None, w, n, y) + bh2[t2.kid[n][y]]
  <2>1. Short(None, w, n, y) = 0 BY <1>1 DEF Short
  <2>2. bh[n] = Weight(t, n) + bh[t.kid[n][y]] /\ bh[n] \in Nat BY <1>5
  <2>3. bh[t.kid[n][y]] \in Nat BY <1>1, <1>5
  <2>4. CASE n = g
    <3>1. t.kid[n][y] = p \/ t.kid[n][y] = u BY <1>2, <2>4
    <3>2. bh2[n] = bh[n] BY <1>3, <1>4, <1>7, <2>4
    <3>3. bh2[t.kid[n][y]] = bh[t.kid[n][y]] + 1 BY <1>1, <1>7, <3>1
    <3> QED BY <1>6, <2>1, <2>2, <2>3, <2>4, <3>2, <3>3
  <2>5. CASE n # g
    <3>1. bh2[t.kid[n][y]] = bh[t.kid[n][y]] BY <1>1, <1>3, <1>4, <1>7, <2>5
    <3>2. CASE n = p \/ n = u
      <4>1. bh2[n] = bh[n] + 1 BY <1>7, <3>2
      <4>2. Weight(t, n) = 0 /\ Weight(t2, n) = 1 BY <1>6, <3>2
      <4> QED BY <2>1, <2>2, <2>3, <3>1, <4>1, <4>2
    <3>3. CASE n # p /\ n # u
      <4>1. bh2[n] = bh[n] BY <1>7, <3>3
      <4>2. Weight(t, n) = Weight(t2, n) /\ Weight(t, n) \in Nat BY <1>6, <2>5, <3>3 DEF Weight
      <4> QED BY <2>1, <2>2, <2>3, <3>1, <4>1, <4>2
    <3> QED BY <3>2, <3>3
  <2> QED BY <2>4, <2>5
<1>9. bh2[None] = 0 BY <1>1, <1>3, <1>4, <1>5, <1>7
<1>10. Even(t2, M, None, w, bh2)
  <2>1. \A n \in M : bh2[n] \in Nat
    <3>1. "left" \in Side BY DEF Side
    <3> QED BY <1>8, <3>1
  <2> QED BY <1>8, <1>9, <2>1 DEF Even
<1> QED BY <1>10

LEMMA UncleIsRedKeeps ==
  ASSUME RBAssumption, NEW M, NEW sub, NEW bh, Sound(tree, job, M, sub, bh), UncleIsRed
  PROVE  Holds(tree', job', M)
<1> DEFINE n == job.node
           p == Parent
           g == Grandparent
           u == Uncle
           s == SideOf(tree, g, p)
           t1 == Paint(tree, u, "black")
           t2 == Paint(t1, p, "black")
           t3 == Paint(t2, g, "red")
<1>1. InsertLoops /\ Red(u) BY DEF UncleIsRed
<1>2. /\ TwoReds(tree, M, g, s, p, n) /\ u \in M \cup {None} /\ Excused(job) = None
      /\ ShortBelow(tree, job) = None
  BY <1>1, GrandparentIs, Zenon
<1>3. /\ Hangs(tree, M, sub) /\ Reds(tree, M, n, Excused(job)) /\ JobSound(tree, job, M)
      /\ Even(tree, M, ShortBelow(tree, job), SideOf(tree, job.parent, job.node), bh)
      /\ M = InTree(tree, job) /\ FreeAreLeaves(tree) /\ tree \in Trees
      /\ None \notin M /\ M \subseteq Nodes /\ \A c \in M : tree.color[c] # "free"
      /\ \A c \in M, y \in Side : tree.kid[c][y] \in M \cup {None}
  BY SoundFacts
<1>4. tree' = t3
  <2>1. tree' = [tree EXCEPT !.color[u] = "black", !.color[p] = "black", !.color[g] = "red"]
    BY DEF UncleIsRed
  <2> QED BY <2>1 DEF Paint
<1>5. job' = [job EXCEPT !.node = g] BY DEF UncleIsRed
<1>6. u = tree.kid[g][Other(s)] BY DEF Uncle
<1>7. /\ g \in M /\ s \in Side /\ p \in M /\ n \in M /\ tree.kid[g][s] = p
      /\ p # g /\ n # p /\ n # tree.root /\ p # tree.root
      /\ tree.color[p] = "red" /\ tree.color[n] = "red" /\ tree.color[g] # "red"
      /\ \E z \in Side : tree.kid[p][z] = n
  BY <1>2 DEF TwoReds
<1>8. u \in M /\ IsRed(tree, u) /\ IsRed(tree, p) BY <1>1, <1>2, <1>3, <1>7 DEF Red, IsRed
<1> HIDE DEF n, p, g, u, s, t1, t2, t3
<1>9. u # g /\ u # tree.root
  <2>1. tree.kid[g][Other(s)] # None /\ Other(s) \in Side BY <1>6, <1>7, <1>8, Others DEF IsRed
  <2> QED BY <1>3, <1>6, <1>7, <2>1, ChildIs
<1>10. Repaints(tree, tree, M) BY <1>3 DEF Repaints
<1>11. Repaints(tree, t1, M) /\ ColorsBut(t1, tree, u, "black") BY <1>3, <1>8, <1>10, Repainted DEF t1
<1>12. Repaints(tree, t2, M) /\ ColorsBut(t2, t1, p, "black") BY <1>3, <1>7, <1>11, Repainted DEF t2
<1>13. Repaints(tree, t3, M) /\ ColorsBut(t3, t2, g, "red") BY <1>3, <1>7, <1>12, Repainted DEF t3
<1>14. Hangs(t3, M, sub) BY <1>3, <1>13, Repainted
<1>15. t3.kid = tree.kid /\ t3.root = tree.root BY <1>13 DEF Repaints
<1>16. \A a \in M : t3.color[a] = IF a = g THEN "red" ELSE IF a = p \/ a = u THEN "black"
                                  ELSE tree.color[a]
  BY <1>3, <1>11, <1>12, <1>13 DEF ColorsBut
<1>17. Even(tree, M, None, SideOf(tree, job.parent, job.node), bh) BY <1>2, <1>3
<1>18. PICK bh2 : Even(t3, M, None, SideOf(t3, job'.parent, job'.node), bh2)
  <2>1. \E bh2 : Even(t3, M, None, SideOf(t3, job'.parent, job'.node), bh2)
    <3> DEFINE w == SideOf(t3, job'.parent, job'.node)
               z == SideOf(tree, job.parent, job.node)
    <3> HIDE DEF w, z
    <3>1. Even(tree, M, None, z, bh) BY <1>17 DEF z
    <3>2. Recolors(tree, t3, M, g, p, u) BY <1>6, <1>7, <1>8, <1>15, <1>16 DEF Recolors
    <3>3. Hangs(tree, M, sub) BY <1>3
    <3>4. \E bh2 : Even(t3, M, None, w, bh2) BY <3>1, <3>2, <3>3, EvenWhenRecolored, Zenon
    <3> QED BY <3>4 DEF w
  <2> QED BY <2>1
<1>19. /\ job' \in [kind : {"none", "insert", "delete"}, node : Links, parent : Links, victim : Links]
       /\ job'.kind = "insert" /\ job'.node = g /\ job'.victim = None /\ job.victim = None
  BY <1>1, <1>3, <1>5, <1>7 DEF InsertLoops, JobSound, Links
<1>20. JobSound(t3, job', M) BY <1>7, <1>16, <1>19 DEF JobSound
<1>21. Excused(job') = None /\ ShortBelow(t3, job') = None BY <1>19 DEF Excused, ShortBelow
<1>22. M = InTree(t3, job') /\ FreeAreLeaves(t3)
  <2>1. Keeps(tree, t3, M) BY <1>13, <1>15 DEF Keeps, Repaints
  <2> QED BY <1>3, <1>19, <2>1, TreeKept
<1>23. Reds(t3, M, g, None)
  <2>1. IsRed(t3, t3.root) => t3.root = g
    <3> SUFFICES ASSUME IsRed(t3, t3.root), t3.root # g PROVE FALSE OBVIOUS
    <3>1. tree.root \in M BY <1>3, <1>15, SoundFacts DEF IsRed
    <3>2. IsRed(tree, tree.root) BY <1>7, <1>9, <1>15, <1>16, <3>1 DEF IsRed
    <3> QED BY <1>3, <1>7, <3>2 DEF Reds
  <2>2. ASSUME NEW q \in M, NEW z \in Side, RedPair(t3, q, z)
        PROVE  t3.kid[q][z] = g
    <3> SUFFICES ASSUME tree.kid[q][z] # g PROVE FALSE BY <1>15
    <3>1. tree.kid[q][z] \in M BY <1>3, <1>15, <2>2 DEF RedPair, IsRed
    <3>2. tree.kid[q][z] # p /\ tree.kid[q][z] # u /\ IsRed(tree, tree.kid[q][z])
      BY <1>15, <1>16, <2>2, <3>1 DEF RedPair, IsRed
    <3>3. q # g
      <4>1. Other(s) \in Side /\ \A y \in Side : y = s \/ y = Other(s) BY <1>7, Others
      <4> QED BY <1>6, <1>7, <3>2, <4>1
    <3>4. q # p /\ IsRed(tree, q) BY <1>16, <2>2, <3>3 DEF RedPair, IsRed
    <3>5. tree.kid[q][z] = n \/ q = None BY <1>2, <1>3, <3>2, <3>4 DEF Reds, RedPair
    <3>6. tree.kid[q][z] = n BY <1>3, <3>5
    <3>7. q = p
      <4>1. PICK y \in Side : tree.kid[p][y] = n BY <1>7
      <4>2. tree.kid[p][y] # None BY <1>3, <1>7, <4>1
      <4> QED BY <1>3, <1>7, <3>6, <4>1, <4>2, ChildIs
    <3> QED BY <3>4, <3>7
  <2> QED BY <2>1, <2>2 DEF Reds
<1>24. Sound(t3, job', M, sub, bh2)
  BY <1>14, <1>18, <1>19, <1>20, <1>21, <1>22, <1>23 DEF Sound
<1> QED BY <1>4, <1>24 DEF Holds

\* What an insert's rotations find: node n and its parent are red, and no others.
Mid(t, M, sub, bh, g, s, p, n) ==
    /\ Hangs(t, M, sub) /\ Even(t, M, None, "left", bh) /\ Reds(t, M, n, None)
    /\ TwoReds(t, M, g, s, p, n) /\ ~IsRed(t, t.kid[g][Other(s)])
    /\ \A c \in M : t.color[c] # "free"

MidSeen(t, M, sub, bh, g, s, o, p, n) ==
    /\ Hangs(t, M, sub) /\ Even(t, M, None, "left", bh) /\ Reds(t, M, n, None)
    /\ t \in Trees /\ Repaints(t, t, M)
    /\ g \in M /\ s \in Side /\ p \in M /\ n \in M /\ t.kid[g][s] = p
    /\ p # g /\ n # p /\ n # t.root /\ p # t.root /\ n # g
    /\ t.color[p] = "red" /\ t.color[n] = "red" /\ t.color[g] = "black"
    /\ o = Other(s) /\ o \in Side /\ o # s /\ Other(o) = s
    /\ \A z \in Side : z = s \/ z = o
    /\ None \notin M /\ M \subseteq Nodes
    /\ t.root \in M /\ ~IsRed(t, t.root)
    /\ \A q \in M, z \in Side : t.kid[q][z] = n => q = p
    /\ \A q \in M, z \in Side : t.kid[q][z] = p => q = g /\ z = s
    /\ \A q \in M, z \in Side : RedPair(t, q, z) => q = p /\ t.kid[q][z] = n
    /\ \A z, y \in Side : t.kid[p][z] = n /\ t.kid[p][y] = n => z = y
    /\ \A z \in Side : t.kid[n][z] # n

LEMMA MidFacts ==
  ASSUME RBAssumption, NEW t, NEW M, NEW sub, NEW bh, NEW g, NEW s, NEW p, NEW n,
         Mid(t, M, sub, bh, g, s, p, n)
  PROVE  MidSeen(t, M, sub, bh, g, s, Other(s), p, n)
<1>1. /\ Hangs(t, M, sub) /\ Even(t, M, None, "left", bh) /\ Reds(t, M, n, None)
      /\ g \in M /\ s \in Side /\ p \in M /\ n \in M /\ t.kid[g][s] = p
      /\ p # g /\ n # p /\ n # t.root /\ p # t.root
      /\ t.color[p] = "red" /\ t.color[n] = "red" /\ t.color[g] # "red"
      /\ \E z \in Side : t.kid[p][z] = n
      /\ \A c \in M : t.color[c] # "free"
  BY DEF Mid, TwoReds
<1>2. /\ None \notin M /\ M \subseteq Nodes /\ t.color \in [Nodes -> {"free", "red", "black"}]
      /\ t.root \in M \cup {None} /\ Spans(sub, M, t.kid, t.root, None)
  BY <1>1, TreeFacts
<1>3. t \in Trees BY <1>1 DEF Hangs
<1>4. Repaints(t, t, M) BY <1>1, <1>3 DEF Repaints
<1>5. t.color[g] = "black" BY <1>1, <1>2
<1>6. PICK w \in Side : t.kid[p][w] = n BY <1>1
<1>7. /\ \A q \in M, z \in Side : t.kid[q][z] = n => q = p /\ z = w
      /\ \A z \in Side : t.kid[n][z] # n
  <2>1. t.kid[p][w] # None BY <1>1, <1>2, <1>6
  <2> QED BY <1>1, <1>6, <2>1, ChildIs
<1>8. \A q \in M, z \in Side : t.kid[q][z] = p => q = g /\ z = s
  <2>1. t.kid[g][s] # None BY <1>1, <1>2
  <2> QED BY <1>1, <2>1, ChildIs
<1>9. t.root \in M
  <2>1. t.root \in M BY <1>1, <1>2, Splits
  <2> QED BY <2>1
<1>10. ~IsRed(t, t.root) BY <1>1 DEF Reds
<1>11. ASSUME NEW q \in M, NEW z \in Side, RedPair(t, q, z)
       PROVE  q = p /\ t.kid[q][z] = n
  <2>1. t.kid[q][z] = n \/ q = None BY <1>1, <1>11 DEF Reds
  <2> QED BY <1>2, <1>7, <2>1
<1>12. n # g BY <1>1
<1>13. /\ Other(s) \in Side /\ Other(s) # s /\ Other(Other(s)) = s
       /\ \A z \in Side : z = s \/ z = Other(s)
  BY <1>1, Others
<1>14. \A z, y \in Side : t.kid[p][z] = n /\ t.kid[p][y] = n => z = y BY <1>1, <1>7
<1> QED BY <1>1, <1>2, <1>3, <1>4, <1>5, <1>7, <1>8, <1>9, <1>10, <1>11, <1>12, <1>13, <1>14 DEF MidSeen

HasOuter(t, t2, M, g, s, p, n) ==
    /\ \E sub, bh : Mid(t2, M, sub, bh, g, s, p, n)
    /\ t2.kid[p][s] = n /\ Keeps(t, t2, M)

LEMMA InnerTurned ==
  ASSUME RBAssumption, NEW t, NEW M, NEW sub, NEW bh, NEW g, NEW s, NEW p, NEW n,
         Mid(t, M, sub, bh, g, s, p, n), t.kid[p][Other(s)] = n, NEW t2, t2 = Rotate(t, p, s)
  PROVE  HasOuter(t, t2, M, g, s, n, p)
<1> DEFINE o == Other(s)
           sub2 == Turned(sub, M, t.kid, None, p, s, n)
           bh2 == Moved(bh, M, p, n, bh[n])
<1>1. MidSeen(t, M, sub, bh, g, s, o, p, n) BY MidFacts
<1> USE <1>1 DEF MidSeen
<1>2. Turns(t, t2, M, sub, p, s, n) /\ t2.color = t.color
  <2>1. t.kid[p][Other(s)] # None BY <1>1
  <2> QED BY <1>1, <2>1, TurnPainted
<1> HIDE DEF o, sub2, bh2
<1>3. /\ Hangs(t2, M, sub2) /\ t2.root = t.root /\ TurnsTo(M, t.kid, None, p, s, o, n, t2.kid)
      /\ \A a \in Nodes \ M : t2.kid[a] = t.kid[a]
  BY <1>1, <1>2 DEF Turns, sub2, o
<1>4. Exchanges(t, t2, M, p, n) BY <1>1, <1>2 DEF Exchanges
<1>5. Even(t2, M, None, "left", bh2)
  <2>1. None \notin {p, n} BY <1>1
  <2>2. Hangs(t, M, sub) /\ t.color[n] = "red" /\ Even(t, M, None, "left", bh) BY <1>1
  <2> QED BY <1>3, <1>4, <2>1, <2>2, EvenWhenTurned, Zenon DEF bh2
<1>6. PairsKept(t, t2, M, p, s, o, n)
  <2>1. Hangs(t, M, sub) BY <1>1
  <2> QED BY <1>3, <1>4, <2>1, PairsWhenTurned, Zenon
<1>7. /\ t2.kid[n][s] = p
      /\ \A q \in M \ {p, n}, z \in Side : t2.kid[q][z] = IF t.kid[q][z] = p THEN n ELSE t.kid[q][z]
  BY <1>3 DEF TurnsTo
<1>8. t2.kid[g][s] = n /\ t2.kid[g][o] = t.kid[g][o] BY <1>1, <1>7
<1>9. Reds(t2, M, p, None)
  <2>1. ~IsRed(t2, t2.root) BY <1>1, <1>2, <1>3 DEF IsRed
  <2>2. ASSUME NEW q \in M, NEW z \in Side, RedPair(t2, q, z) PROVE t2.kid[q][z] = p
    <3>1. CASE q \in M \ {p, n} BY <1>1, <1>6, <2>2, <3>1 DEF PairsKept
    <3>2. CASE q = p /\ z = s
      <4>1. RedPair(t, p, s) BY <1>1, <1>6, <2>2, <3>2 DEF PairsKept, RedPair, IsRed
      <4> QED BY <1>1, <4>1 DEF o
    <3>3. CASE q = p /\ z = o
      <4>1. RedPair(t, n, s) BY <1>1, <1>6, <2>2, <3>3 DEF PairsKept, RedPair, IsRed
      <4> QED BY <1>1, <4>1
    <3>4. CASE q = n /\ z = s BY <1>7, <3>4
    <3>5. CASE q = n /\ z = o
      <4>1. RedPair(t, n, o) BY <1>1, <1>6, <2>2, <3>5 DEF PairsKept, RedPair, IsRed
      <4> QED BY <1>1, <4>1
    <3> QED BY <1>1, <3>1, <3>2, <3>3, <3>4, <3>5
  <2> QED BY <2>1, <2>2 DEF Reds
<1>10. TwoReds(t2, M, g, s, n, p)
  BY <1>1, <1>2, <1>3, <1>7, <1>8 DEF TwoReds
<1>11. ~IsRed(t2, t2.kid[g][o]) BY <1>2, <1>8 DEF Mid, IsRed, o
<1>12. Mid(t2, M, sub2, bh2, g, s, n, p)
  <2>1. \A c \in M : t2.color[c] # "free" BY <1>2 DEF Mid
  <2> QED BY <1>3, <1>5, <1>9, <1>10, <1>11, <2>1 DEF Mid, o
<1>13. Keeps(t, t2, M) BY <1>2, <1>3 DEF Keeps, Mid
<1> QED BY <1>7, <1>12, <1>13 DEF HasOuter

\* What a rotation of the loops leaves.
Mends(t, t2, M, n) ==
    /\ \E sub, bh : Hangs(t2, M, sub) /\ Even(t2, M, None, "left", bh)
    /\ Reds(t2, M, n, None) /\ Keeps(t, t2, M) /\ t2.color[n] = "red"

LEMMA OuterTurned ==
  ASSUME RBAssumption, NEW t, NEW M, NEW sub, NEW bh, NEW g, NEW s, NEW p, NEW n,
         Mid(t, M, sub, bh, g, s, p, n), t.kid[p][s] = n,
         NEW t2, t2 = Rotate(Paint(Paint(t, p, "black"), g, "red"), g, Other(s))
  PROVE  Mends(t, t2, M, n)
<1> DEFINE o == Other(s)
           sub2 == Turned(sub, M, t.kid, None, g, o, p)
           bh2 == Moved(bh, M, g, p, bh[p])
           t0 == Paint(t, p, "black")
           t1 == Paint(t0, g, "red")
<1>1. MidSeen(t, M, sub, bh, g, s, o, p, n) BY MidFacts
<1> USE <1>1 DEF MidSeen
<1> HIDE DEF t0, t1
<1>2. Repaints(t, t0, M) /\ ColorsBut(t0, t, p, "black")
  BY <1>1, Repainted DEF t0
<1>3. Repaints(t, t1, M) /\ ColorsBut(t1, t0, g, "red")
  BY <1>1, <1>2, Repainted DEF t1
<1>4. Turns(t, t2, M, sub, g, o, p) /\ t2.color = t1.color
  <2>1. t.kid[g][Other(o)] = p /\ t.kid[g][Other(o)] # None BY <1>1
  <2>2. Hangs(t, M, sub) /\ g \in M /\ o \in Side BY <1>1
  <2>3. t2 = Rotate(t1, g, o) BY DEF t0, t1
  <2> HIDE DEF o
  <2> QED BY <1>3, <2>1, <2>2, <2>3, TurnPainted
<1> HIDE DEF o, sub2, bh2
<1>5. /\ Hangs(t2, M, sub2) /\ t2.root = (IF t.root = g THEN p ELSE t.root)
      /\ TurnsTo(M, t.kid, None, g, o, s, p, t2.kid)
      /\ \A a \in Nodes \ M : t2.kid[a] = t.kid[a]
  BY <1>1, <1>4 DEF Turns, sub2
<1>6. \A a \in M : t2.color[a] = IF a = p THEN "black" ELSE IF a = g THEN "red" ELSE t.color[a]
  BY <1>1, <1>2, <1>3, <1>4 DEF ColorsBut
<1>7. Exchanges(t, t2, M, g, p) BY <1>1, <1>6 DEF Exchanges
<1>8. Even(t2, M, None, "left", bh2)
  <2>1. None \notin {g, p} BY <1>1
  <2>2. Hangs(t, M, sub) /\ t.color[p] = "red" /\ Even(t, M, None, "left", bh) BY <1>1
  <2> QED BY <1>5, <1>7, <2>1, <2>2, EvenWhenTurned, Zenon DEF bh2
<1>9. PairsKept(t, t2, M, g, o, s, p)
  <2>1. Hangs(t, M, sub) BY <1>1
  <2> QED BY <1>5, <1>7, <2>1, PairsWhenTurned, Zenon
<1>10. Reds(t2, M, n, None)
  <2>1. ~IsRed(t2, t2.root)
    <3>1. CASE t.root = g BY <1>1, <1>5, <1>6, <3>1 DEF IsRed
    <3>2. CASE t.root # g BY <1>1, <1>5, <1>6, <3>2 DEF IsRed
    <3> QED BY <3>1, <3>2
  <2>2. ASSUME NEW q \in M, NEW z \in Side PROVE ~RedPair(t2, q, z)
    <3>1. CASE q \in M \ {g, p} BY <1>1, <1>9, <3>1 DEF PairsKept
    <3>2. CASE q = g /\ z = o BY <1>9, <3>2 DEF PairsKept, Mid, o
    <3>3. CASE q = g /\ z = s
      <4>1. ~RedPair(t, p, o) BY <1>1
      <4> QED BY <1>1, <1>9, <3>3, <4>1 DEF PairsKept, RedPair, IsRed
    <3>4. CASE q = p BY <1>1, <1>9, <3>4 DEF PairsKept
    <3> QED BY <1>1, <3>1, <3>2, <3>3, <3>4
  <2> QED BY <2>1, <2>2 DEF Reds
<1>11. Keeps(t, t2, M)
  <2>1. \A a \in Nodes \ M : t2.color[a] = t.color[a] BY <1>3, <1>4 DEF Repaints
  <2>2. \A a \in M : t2.color[a] # "free" BY <1>3, <1>4 DEF Repaints
  <2> QED BY <1>5, <2>1, <2>2 DEF Keeps
<1>12. t2.color[n] = "red" BY <1>1, <1>6
<1> QED BY <1>5, <1>8, <1>10, <1>11, <1>12 DEF Mends

LEMMA UncleIsBlackKeeps ==
  ASSUME RBAssumption, NEW M, NEW sub, NEW bh, Sound(tree, job, M, sub, bh), UncleIsBlack
  PROVE  Holds(tree', job', M)
<1> DEFINE n == job.node
           p == Parent
           g == Grandparent
           s == SideOf(tree, g, p)
           t1 == IF Inner(s) THEN Rotate(tree, p, s) ELSE tree
           c == IF Inner(s) THEN n ELSE p
           d == IF Inner(s) THEN p ELSE n
<1>1. InsertLoops /\ ~Red(Uncle) BY DEF UncleIsBlack
<1>2. /\ TwoReds(tree, M, g, s, p, n) /\ Uncle \in M \cup {None} /\ Excused(job) = None
      /\ ShortBelow(tree, job) = None
  BY <1>1, GrandparentIs, Zenon
<1>3. /\ Hangs(tree, M, sub) /\ Reds(tree, M, n, Excused(job)) /\ JobSound(tree, job, M)
      /\ Even(tree, M, ShortBelow(tree, job), SideOf(tree, job.parent, job.node), bh)
      /\ M = InTree(tree, job) /\ FreeAreLeaves(tree) /\ tree \in Trees
      /\ None \notin M /\ M \subseteq Nodes /\ \A a \in M : tree.color[a] # "free"
  BY SoundFacts
<1>4. tree' = Rotate(Paint(Paint(t1, c, "black"), g, "red"), g, Other(s))
  BY DEF UncleIsBlack
<1>5. job' = [job EXCEPT !.node = d] BY DEF UncleIsBlack
<1>6. Uncle = tree.kid[g][Other(s)] BY DEF Uncle
<1>7. Inner(s) <=> tree.kid[p][Other(s)] = n BY DEF Inner
<1> HIDE DEF n, p, g, s, t1, c, d
<1>8. Mid(tree, M, sub, bh, g, s, p, n)
  <2>1. Even(tree, M, None, "left", bh) BY <1>2, <1>3, NoneShort
  <2>2. ~IsRed(tree, tree.kid[g][Other(s)]) BY <1>1, <1>6 DEF Red, IsRed
  <2> QED BY <1>2, <1>3, <2>1, <2>2 DEF Mid
<1>9. HasOuter(tree, t1, M, g, s, c, d)
  <2>1. CASE Inner(s)
    <3>1. t1 = Rotate(tree, p, s) /\ c = n /\ d = p BY <2>1 DEF t1, c, d
    <3> QED BY <1>7, <1>8, <2>1, <3>1, InnerTurned, Zenon
  <2>2. CASE ~Inner(s)
    <3>1. t1 = tree /\ c = p /\ d = n BY <2>2 DEF t1, c, d
    <3>2. \E z \in Side : tree.kid[p][z] = n BY <1>2 DEF TwoReds
    <3>3. s \in Side BY <1>2 DEF TwoReds
    <3>4. tree.kid[p][s] = n BY <1>7, <2>2, <3>2, <3>3, Others
    <3>5. Keeps(tree, tree, M) BY <1>3 DEF Keeps
    <3> QED BY <1>8, <3>1, <3>4, <3>5 DEF HasOuter
  <2> QED BY <2>1, <2>2
<1>10. Mends(t1, tree', M, d)
  <2>1. PICK sub1, bh1 : Mid(t1, M, sub1, bh1, g, s, c, d) BY <1>9 DEF HasOuter
  <2>2. t1.kid[c][s] = d BY <1>9 DEF HasOuter
  <2> QED BY <1>4, <2>1, <2>2, OuterTurned, Zenon
<1>11. PICK sub2, bh2 : Hangs(tree', M, sub2) /\ Even(tree', M, None, "left", bh2)
  BY <1>10 DEF Mends
<1>12. Reds(tree', M, d, None) /\ Keeps(t1, tree', M) /\ tree'.color[d] = "red" BY <1>10 DEF Mends
<1>13. Keeps(tree, tree', M) BY <1>3, <1>9, <1>12 DEF Keeps, HasOuter
<1>14. d \in M
  BY <1>2 DEF TwoReds, d
<1>15. /\ job' \in [kind : {"none", "insert", "delete"}, node : Links, parent : Links, victim : Links]
       /\ job'.kind = "insert" /\ job'.node = d /\ job'.victim = None /\ job.victim = None
  BY <1>1, <1>3, <1>5, <1>14 DEF InsertLoops, JobSound, Links
<1>16. JobSound(tree', job', M) BY <1>12, <1>14, <1>15 DEF JobSound
<1>17. Excused(job') = None /\ ShortBelow(tree', job') = None BY <1>15 DEF Excused, ShortBelow
<1>18. M = InTree(tree', job') /\ FreeAreLeaves(tree') BY <1>3, <1>13, <1>15, TreeKept
<1>19. Even(tree', M, None, SideOf(tree', job'.parent, job'.node), bh2) BY <1>3, <1>11, NoneShort
<1>20. Sound(tree', job', M, sub2, bh2)
  BY <1>11, <1>12, <1>15, <1>16, <1>17, <1>18, <1>19 DEF Sound
<1> QED BY <1>20 DEF Holds
-----------------------------------------------------------------------------
\* Painting black the root, or a red node at the end of the short path, evens the counts.
Blackens(t, t2, M, c, q, z) ==
    /\ c \in M /\ t2.kid = t.kid
    /\ \A n \in M : t2.color[n] = IF n = c THEN "black" ELSE t.color[n]
    /\ \/ c = t.root /\ q = None
       \/ t.color[c] = "red" /\ q \in M /\ z \in Side /\ t.kid[q][z] = c

LEMMA EvenWhenBlackened ==
  ASSUME RBAssumption, NEW t, NEW M, NEW sub, Hangs(t, M, sub), NEW t2, NEW c, NEW q, NEW z,
         Blackens(t, t2, M, c, q, z), NEW bh, Even(t, M, q, z, bh), NEW w
  PROVE  \E bh2 : Even(t2, M, None, w, bh2)
<1> DEFINE more == IF t.color[c] = "red" THEN 1 ELSE 0
           bh2 == [a \in M \cup {None} |-> IF a = c THEN bh[c] + more ELSE bh[a]]
<1>1. None \notin M /\ \A a \in M, y \in Side : t.kid[a][y] \in M \cup {None} BY TreeFacts
<1>2. /\ c \in M /\ t2.kid = t.kid
      /\ \A n \in M : t2.color[n] = IF n = c THEN "black" ELSE t.color[n]
  BY DEF Blackens
<1>3. \A a \in M \cup {None} : bh2[a] = IF a = c THEN bh[c] + more ELSE bh[a] OBVIOUS
<1>4. /\ more \in Nat /\ Weight(t2, c) = Weight(t, c) + more /\ more \in {0, 1}
      /\ \A n \in M : n # c => Weight(t2, n) = Weight(t, n)
      /\ \A n : Weight(t, n) \in Nat
  BY <1>2 DEF Weight
<1>5. bh[None] = 0 /\ \A a \in M \cup {None} : bh[a] \in Nat BY DEF Even
<1>6. ASSUME NEW n \in M, NEW y \in Side
      PROVE  /\ Short(q, z, n, y) \in Nat /\ t.kid[c][y] # c
             /\ bh2[t.kid[n][y]] = bh[t.kid[n][y]] + Short(q, z, n, y)
  <2>0. t.kid[n][y] \in M \cup {None} /\ bh[t.kid[n][y]] \in Nat BY <1>1, <1>5
  <2>1. CASE c = t.root /\ q = None
    <3>1. t.kid[n][y] # c /\ t.kid[c][y] # c
      <4>1. ASSUME NEW a \in M PROVE t.kid[a][y] # c
        <5> SUFFICES ASSUME t.kid[a][y] = c PROVE FALSE OBVIOUS
        <5>1. t.kid[a][y] # None BY <1>1, <1>2
        <5> QED BY <2>1, <5>1, ChildIs
      <4> QED BY <1>2, <4>1
    <3>2. Short(q, z, n, y) = 0 BY <1>1, <2>1 DEF Short
    <3> HIDE DEF bh2
    <3> QED BY <1>3, <2>0, <3>1, <3>2
  <2>2. CASE t.color[c] = "red" /\ q \in M /\ z \in Side /\ t.kid[q][z] = c
    <3>1. /\ \A a \in M, v \in Side : t.kid[a][v] = c => a = q /\ v = z
          /\ \A v \in Side : t.kid[c][v] # c
      <4>1. t.kid[q][z] # None BY <1>1, <1>2, <2>2
      <4> QED BY <2>2, <4>1, ChildIs
    <3>2. more = 1 BY <2>2
    <3>3. CASE t.kid[n][y] = c
      <4>1. n = q /\ y = z BY <3>1, <3>3
      <4>2. Short(q, z, n, y) = 1 BY <4>1 DEF Short
      <4> HIDE DEF bh2, more
      <4> QED BY <1>2, <1>3, <3>1, <3>2, <3>3, <4>2
    <3>4. CASE t.kid[n][y] # c
      <4>1. Short(q, z, n, y) = 0 BY <2>2, <3>4 DEF Short
      <4> HIDE DEF bh2, more
      <4> QED BY <1>3, <2>0, <3>1, <3>4, <4>1
    <3> QED BY <3>3, <3>4
  <2> QED BY <2>1, <2>2 DEF Blackens
<1> HIDE DEF bh2, more
<1>7. ASSUME NEW n \in M, NEW y \in Side
      PROVE  bh2[n] \in Nat /\ bh2[n] = Weight(t2, n) + Short(None, w, n, y) + bh2[t2.kid[n][y]]
  <2>1. bh[n] = Weight(t, n) + Short(q, z, n, y) + bh[t.kid[n][y]] BY DEF Even
  <2>2. Short(None, w, n, y) = 0 BY <1>1 DEF Short
  <2>3. /\ bh[n] \in Nat /\ bh[t.kid[n][y]] \in Nat /\ Weight(t, n) \in Nat
    BY <1>1, <1>4, <1>5
  <2>4. bh2[t2.kid[n][y]] = bh[t.kid[n][y]] + Short(q, z, n, y) /\ Short(q, z, n, y) \in Nat
    BY <1>2, <1>6
  <2>5. bh2[n] = IF n = c THEN bh[n] + more ELSE bh[n] BY <1>3
  <2>6. Weight(t2, n) = IF n = c THEN Weight(t, n) + more ELSE Weight(t, n) BY <1>4
  <2> QED BY <1>4, <2>1, <2>2, <2>3, <2>4, <2>5, <2>6
<1>8. bh2[None] = 0 BY <1>1, <1>2, <1>3, <1>5
<1>9. Even(t2, M, None, w, bh2)
  <2>1. "left" \in Side BY DEF Side
  <2> QED BY <1>7, <1>8, <2>1 DEF Even
<1> QED BY <1>9

LEMMA NoJobSound ==
  ASSUME NEW t, NEW M PROVE JobSound(t, NoJob, M) /\ Excused(NoJob) = None
                            /\ ShortBelow(t, NoJob) = None /\ NoJob.node = None
                            /\ NoJob.victim = None /\ NoJob.kind = "none"
BY DEF JobSound, NoJob, Links, Excused, ShortBelow

LEMMA InsertDoneKeeps ==
  ASSUME RBAssumption, NEW M, NEW sub, NEW bh, Sound(tree, job, M, sub, bh), InsertDone
  PROVE  Holds(tree', job', M)
<1> DEFINE c == tree.root
           n == job.node
<1>1. /\ Hangs(tree, M, sub) /\ Reds(tree, M, n, Excused(job)) /\ JobSound(tree, job, M)
      /\ Even(tree, M, ShortBelow(tree, job), SideOf(tree, job.parent, job.node), bh)
      /\ M = InTree(tree, job) /\ FreeAreLeaves(tree) /\ tree \in Trees
      /\ None \notin M /\ M \subseteq Nodes /\ \A a \in M : tree.color[a] # "free"
      /\ c \in M \cup {None} /\ (M # {} => c # None)
  BY SoundFacts
<1>2. tree' = Paint(tree, c, "black") /\ job' = NoJob /\ job.kind = "insert" /\ ~Red(tree.parent[n])
  BY DEF InsertDone, Parent
<1>3. n \in M /\ job.victim = None /\ Excused(job) = None /\ ShortBelow(tree, job) = None
  BY <1>1, <1>2 DEF JobSound, Excused, ShortBelow
<1> HIDE DEF n, c
<1>4. c \in M BY <1>1, <1>3
<1>5. Repaints(tree, tree', M) /\ ColorsBut(tree', tree, c, "black")
  <2>1. Repaints(tree, tree, M) BY <1>1 DEF Repaints
  <2> QED BY <1>1, <1>2, <1>4, <2>1, Repainted
<1>6. /\ tree'.kid = tree.kid /\ tree'.root = tree.root /\ Hangs(tree', M, sub)
      /\ \A a \in M : tree'.color[a] = IF a = c THEN "black" ELSE tree.color[a]
  <2>1. Hangs(tree', M, sub) BY <1>1, <1>5, Repainted
  <2> QED BY <1>1, <1>5, <2>1 DEF Repaints, ColorsBut
<1>7. PICK bh2 : Even(tree', M, None, SideOf(tree', NoJob.parent, NoJob.node), bh2)
  <2> DEFINE w == SideOf(tree', NoJob.parent, NoJob.node)
             z == SideOf(tree, job.parent, job.node)
  <2> HIDE DEF w, z
  <2>1. Blackens(tree, tree', M, c, None, z) BY <1>4, <1>6 DEF Blackens, c
  <2>2. Hangs(tree, M, sub) /\ Even(tree, M, None, z, bh) BY <1>1, <1>3 DEF z
  <2>3. \E bh2 : Even(tree', M, None, w, bh2) BY <2>1, <2>2, EvenWhenBlackened, Zenon
  <2> QED BY <2>3 DEF w
<1>8. Reds(tree', M, None, None)
  <2>1. ~IsRed(tree', tree'.root) BY <1>4, <1>6 DEF IsRed, c
  <2>2. ASSUME NEW q \in M, NEW z \in Side, RedPair(tree', q, z) PROVE FALSE
    <3>1. tree.kid[q][z] \in M \cup {None} BY <1>1, SoundFacts
    <3>2. RedPair(tree, q, z) BY <1>6, <2>2, <3>1 DEF RedPair, IsRed
    <3>3. tree.kid[q][z] = n BY <1>1, <1>3, <3>2 DEF Reds
    <3>4. tree.parent[n] = q
      <4>1. tree.kid[q][z] # None BY <1>1, <1>3, <3>3
      <4> QED BY <1>1, <3>3, <4>1, ChildIs
    <3> QED BY <1>2, <3>2, <3>4 DEF RedPair, IsRed, Red
  <2> QED BY <2>1, <2>2 DEF Reds
<1>9. M = InTree(tree', NoJob) /\ FreeAreLeaves(tree')
  <2>1. Keeps(tree, tree', M) BY <1>5, <1>6 DEF Keeps, Repaints
  <2>2. NoJob.victim = job.victim BY <1>3 DEF NoJob
  <2> QED BY <1>1, <2>1, <2>2, TreeKept
<1>10. Sound(tree', NoJob, M, sub, bh2) BY <1>6, <1>7, <1>8, <1>9, NoJobSound DEF Sound
<1> QED BY <1>2, <1>10 DEF Holds

\* Where the loop of a delete is: there is a sibling, for its paths have one more.
DeleteAt(t, M, bh, q, z, n, y) ==
    /\ q \in M /\ z \in Side /\ t.kid[q][z] = n /\ y = t.kid[q][Other(z)] /\ y \in M
    /\ ShortBelow(t, job) = q /\ SideOf(t, job.parent, job.node) = z
    /\ bh[y] = bh[n] + 1

LEMMA SiblingIs ==
  ASSUME RBAssumption, NEW M, NEW sub, NEW bh, Sound(tree, job, M, sub, bh),
         job.kind = "delete", job.node # tree.root
  PROVE  DeleteAt(tree, M, bh, job.parent, Near, job.node, Sibling)
<1> DEFINE q == job.parent
           z == Near
           n == job.node
           y == Sibling
<1>1. /\ Hangs(tree, M, sub) /\ JobSound(tree, job, M)
      /\ Even(tree, M, ShortBelow(tree, job), SideOf(tree, job.parent, job.node), bh)
      /\ bh[None] = 0 /\ \A c \in M \cup {None} : bh[c] \in Nat
      /\ \A c \in M, s \in Side : tree.kid[c][s] \in M \cup {None}
  BY SoundFacts
<1>2. q \in M /\ ShortBelow(tree, job) = q /\ \E s \in Side : tree.kid[q][s] = n
  BY <1>1 DEF JobSound, ShortBelow
<1>3. z \in Side /\ tree.kid[q][z] = n /\ z = SideOf(tree, q, n)
  BY <1>2 DEF Near, SideOf, Side
<1>4. y = tree.kid[q][Other(z)] BY DEF Sibling
<1> HIDE DEF q, z, n, y
<1>5. y \in M \cup {None} /\ n \in M \cup {None} BY <1>1, <1>2, <1>3, <1>4, Others
<1>6. bh[y] = bh[n] + 1
  <2>1. Other(z) \in Side /\ Other(z) # z BY <1>3, Others
  <2>2. /\ bh[q] = Weight(tree, q) + Short(q, z, q, z) + bh[n]
        /\ bh[q] = Weight(tree, q) + Short(q, z, q, Other(z)) + bh[y]
    BY <1>1, <1>2, <1>3, <1>4, <2>1 DEF Even, q, n
  <2>3. Short(q, z, q, z) = 1 /\ Short(q, z, q, Other(z)) = 0 BY <2>1 DEF Short
  <2>4. Weight(tree, q) \in Nat /\ bh[n] \in Nat /\ bh[y] \in Nat BY <1>1, <1>5 DEF Weight
  <2> QED BY <2>2, <2>3, <2>4
<1>7. y \in M
  <2> SUFFICES ASSUME y = None PROVE FALSE BY <1>5
  <2>1. bh[n] \in Nat BY <1>1, <1>5
  <2> QED BY <1>1, <1>6, <2>1
<1> QED BY <1>2, <1>3, <1>4, <1>6, <1>7 DEF DeleteAt, q, z, n, y

\* A tree is what its nodes and their fields are.
LEMMA SameTree ==
  ASSUME RBAssumption, NEW t, NEW M, NEW sub, Hangs(t, M, sub), NEW t2 \in Trees, t2.root = t.root,
         \A n \in M : t2.kid[n] = t.kid[n] /\ t2.parent[n] = t.parent[n] /\ t2.color[n] = t.color[n],
         NEW q, NEW z, NEW bh, Even(t, M, q, z, bh), NEW n, NEW d, Reds(t, M, n, d)
  PROVE  Hangs(t2, M, sub) /\ Even(t2, M, q, z, bh) /\ Reds(t2, M, n, d)
<1>1. /\ Spans(sub, M, t.kid, t.root, None) /\ SortedBy(sub, M, t.kid, Key) /\ Linked(t, M)
      /\ M \subseteq Nodes /\ None \notin M /\ t.root \in M \cup {None}
      /\ \A c \in M, s \in Side : t.kid[c][s] \in M \cup {None}
  BY TreeFacts
<1>2. DOMAIN t2.kid = Nodes BY DEF Trees
<1>3. Spans(sub, M, t2.kid, t2.root, None)
  <2> DEFINE k == t.kid
             k2 == t2.kid
  <2>1. (\A a \in M : k2[a] = k[a]) /\ DOMAIN k2 = Nodes BY <1>2
  <2>2. Spans(sub, M, k, t.root, None) /\ M \subseteq Nodes BY <1>1
  <2> HIDE DEF k, k2
  <2> DEFINE Body(f, c) ==
               /\ f[c]["left"] \in M \cup {None} /\ f[c]["right"] \in M \cup {None}
               /\ sub[c] = {c} \cup sub[f[c]["left"]] \cup sub[f[c]["right"]]
               /\ sub[c] \subseteq M
               /\ c \notin sub[f[c]["left"]] /\ c \notin sub[f[c]["right"]]
               /\ sub[f[c]["left"]] \cap sub[f[c]["right"]] = {}
  <2>3. \A c \in M : Body(k, c) BY <2>2, Zenon DEF Spans
  <2>4. ASSUME NEW c \in M PROVE Body(k2, c)
    <3>1. k2[c] = k[c] BY <2>1
    <3>2. Body(k, c) BY <2>3
    <3> QED BY <3>1, <3>2, Zenon
  <2>5. /\ IsFiniteSet(M) /\ None \notin M /\ M \subseteq DOMAIN k2
        /\ t.root \in M \cup {None} /\ sub[t.root] = M /\ sub[None] = {}
    BY <2>1, <2>2 DEF Spans
  <2>6. Spans(sub, M, k2, t.root, None) BY <2>4, <2>5, Zenon DEF Spans
  <2> QED BY <2>6 DEF k2
<1>4. SortedBy(sub, M, t2.kid, Key) BY <1>1 DEF SortedBy
<1>5. Linked(t2, M) BY <1>1 DEF Linked
<1>6. Even(t2, M, q, z, bh) BY DEF Even, Weight
<1>7. Reds(t2, M, n, d)
  <2>1. \A c \in M \cup {None} : IsRed(t2, c) <=> IsRed(t, c) BY DEF IsRed
  <2> QED BY <1>1, <2>1 DEF Reds, RedPair
<1> QED BY <1>1, <1>3, <1>4, <1>5, <1>6, <1>7 DEF Hangs

LEMMA VictimFreed ==
  ASSUME RBAssumption, NEW t, NEW M, NEW sub, Hangs(t, M, sub), NEW w, NEW bh,
         Even(t, M, None, w, bh), Reds(t, M, None, None), NEW v \in Nodes, v \notin M,
         M = {n \in Nodes : t.color[n] # "free"} \ {v}, FreeAreLeaves(t)
  PROVE  Sound(Freed(t, v), NoJob, M, sub, bh)
<1> DEFINE t2 == Freed(t, v)
<1>1. M \subseteq Nodes /\ None \notin M /\ t \in Trees BY TreeFacts DEF Hangs
<1>2. /\ t2 \in Trees /\ t2.root = t.root
      /\ \A n \in Nodes : /\ t2.kid[n] = IF n = v THEN Leaf ELSE t.kid[n]
                          /\ t2.parent[n] = IF n = v THEN None ELSE t.parent[n]
                          /\ t2.color[n] = IF n = v THEN "free" ELSE t.color[n]
  BY <1>1, FreedIs DEF ParentsBut, ColorsBut
<1> HIDE DEF t2
<1>3. \A n \in M : /\ t2.kid[n] = t.kid[n] /\ t2.parent[n] = t.parent[n]
                   /\ t2.color[n] = t.color[n]
  BY <1>1, <1>2
<1>4. Hangs(t2, M, sub) /\ Even(t2, M, None, w, bh) /\ Reds(t2, M, None, None)
  BY <1>2, <1>3, SameTree
<1>5. Even(t2, M, None, SideOf(t2, NoJob.parent, NoJob.node), bh) BY <1>1, <1>4, NoneShort
<1>6. M = InTree(t2, NoJob) BY <1>1, <1>2, NoJobSound DEF InTree
<1>7. FreeAreLeaves(t2) BY <1>2 DEF FreeAreLeaves
<1> QED BY <1>4, <1>5, <1>6, <1>7, NoJobSound DEF Sound, t2

LEMMA DeleteDoneKeeps ==
  ASSUME RBAssumption, NEW M, NEW sub, NEW bh, Sound(tree, job, M, sub, bh), DeleteDone
  PROVE  Holds(tree', job', M)
<1> DEFINE n == job.node
           v == job.victim
           z == SideOf(tree, job.parent, job.node)
           q == ShortBelow(tree, job)
           t1 == IF n = None THEN tree ELSE Paint(tree, n, "black")
<1>1. /\ Hangs(tree, M, sub) /\ Reds(tree, M, n, Excused(job)) /\ JobSound(tree, job, M)
      /\ Even(tree, M, q, z, bh)
      /\ M = InTree(tree, job) /\ FreeAreLeaves(tree) /\ tree \in Trees
      /\ None \notin M /\ M \subseteq Nodes /\ \A a \in M : tree.color[a] # "free"
      /\ tree.root \in M \cup {None} /\ (M # {} => tree.root # None)
      /\ \A c \in M, s \in Side : tree.kid[c][s] \in M \cup {None}
  BY SoundFacts
<1>2. /\ tree' = Freed(t1, v) /\ job' = NoJob /\ job.kind = "delete"
      /\ Red(n) \/ n = tree.root
  BY DEF DeleteDone, DeleteLoops, Black
<1>3. v \in Nodes /\ n \in M \cup {None} /\ v \notin M
  BY <1>1, <1>2 DEF JobSound, InTree
<1>4. Excused(job) = n BY <1>2 DEF Excused
<1>5. n = tree.root => q = None BY DEF ShortBelow
<1>6. n # tree.root => DeleteAt(tree, M, bh, job.parent, Near, n, Sibling)
  BY <1>2, SiblingIs
<1> HIDE DEF n, v, z, q, t1
<1>7. CASE n = None
  <2>1. t1 = tree /\ tree.root = None BY <1>2, <1>7 DEF t1, Red
  <2>2. q = None BY <1>5, <1>7, <2>1
  <2>3. Even(tree, M, None, z, bh) /\ Reds(tree, M, None, None) BY <1>1, <1>4, <1>7, <2>2
  <2>4. Sound(Freed(tree, v), NoJob, M, sub, bh)
    BY <1>1, <1>3, <2>3, VictimFreed DEF InTree, v
  <2> QED BY <1>2, <2>1, <2>4 DEF Holds
<1>8. CASE n # None
  <2>1. n \in M /\ t1 = Paint(tree, n, "black") BY <1>3, <1>8 DEF t1
  <2>2. Repaints(tree, t1, M) /\ ColorsBut(t1, tree, n, "black")
    <3>1. Repaints(tree, tree, M) BY <1>1 DEF Repaints
    <3> QED BY <1>1, <2>1, <3>1, Repainted
  <2>3. /\ t1.kid = tree.kid /\ t1.root = tree.root /\ Hangs(t1, M, sub)
        /\ \A a \in M : t1.color[a] = IF a = n THEN "black" ELSE tree.color[a]
    <3>1. Hangs(t1, M, sub) BY <1>1, <2>2, Repainted
    <3> QED BY <1>1, <2>2, <3>1 DEF Repaints, ColorsBut
  <2>4. Blackens(tree, t1, M, n, q, z)
    <3>1. CASE n = tree.root BY <1>5, <2>1, <2>3, <3>1 DEF Blackens
    <3>2. CASE n # tree.root
      <4>1. q \in M /\ z \in Side /\ tree.kid[q][z] = n
        BY <1>6, <3>2 DEF DeleteAt, q, z
      <4>2. tree.color[n] = "red" BY <1>2, <3>2 DEF Red
      <4> QED BY <2>1, <2>3, <4>1, <4>2 DEF Blackens
    <3> QED BY <3>1, <3>2
  <2>5. PICK bh2 : Even(t1, M, None, "left", bh2)
    <3>1. Hangs(tree, M, sub) /\ Even(tree, M, q, z, bh) BY <1>1
    <3>2. \E bh2 : Even(t1, M, None, "left", bh2)
      BY <2>4, <3>1, EvenWhenBlackened, Zenon
    <3> QED BY <3>2
  <2>6. Reds(t1, M, None, None)
    <3>1. ~IsRed(t1, t1.root)
      <4> SUFFICES ASSUME IsRed(t1, t1.root) PROVE FALSE OBVIOUS
      <4>1. tree.root \in M /\ tree.root # n BY <1>1, <2>3 DEF IsRed
      <4>2. IsRed(tree, tree.root) BY <2>3, <4>1 DEF IsRed
      <4> QED BY <1>1, <4>1, <4>2 DEF Reds
    <3>2. ASSUME NEW p \in M, NEW s \in Side, RedPair(t1, p, s) PROVE FALSE
      <4>1. tree.kid[p][s] \in M \cup {None} BY <1>1
      <4>2. RedPair(tree, p, s) /\ p # n /\ tree.kid[p][s] # n
        BY <2>3, <3>2, <4>1 DEF RedPair, IsRed
      <4> QED BY <1>1, <1>4, <4>2 DEF Reds
    <3> QED BY <3>1, <3>2 DEF Reds
  <2>7. M = {a \in Nodes : t1.color[a] # "free"} \ {v} /\ FreeAreLeaves(t1)
    <3>1. Keeps(tree, t1, M) BY <2>2, <2>3 DEF Keeps, Repaints
    <3>2. M = InTree(t1, job) /\ FreeAreLeaves(t1) BY <1>1, <3>1, TreeKept
    <3> QED BY <3>2 DEF InTree, v
  <2>8. Sound(Freed(t1, v), NoJob, M, sub, bh2)
    BY <1>3, <2>3, <2>5, <2>6, <2>7, VictimFreed, Zenon
  <2> QED BY <1>2, <2>8 DEF Holds
<1> QED BY <1>7, <1>8
-----------------------------------------------------------------------------
\* What the loop of a delete finds: n, whose paths are short, and its sibling y below q.
Deleting(t, M, sub, bh, q, z, o, n, y) ==
    /\ Hangs(t, M, sub) /\ Even(t, M, q, z, bh) /\ t \in Trees /\ Repaints(t, t, M)
    /\ None \notin M /\ M \subseteq Nodes /\ t.root \in M /\ n # t.root
    /\ q \in M /\ z \in Side /\ o = Other(z) /\ o \in Side /\ o # z /\ Other(o) = z
    /\ \A w \in Side : w = z \/ w = o
    /\ t.kid[q][z] = n /\ n \in M \cup {None} /\ y = t.kid[q][o] /\ y \in M /\ y # None
    /\ n # q /\ y # q /\ n # y /\ y # t.root /\ ~IsRed(t, n)
    /\ \A p \in M, w \in Side : t.kid[p][w] = y => p = q /\ w = o
    /\ \A w \in Side : t.kid[y][w] # q /\ t.kid[y][w] # y
    /\ \A p \in M, w \in Side : t.kid[p][w] \in M \cup {None}
    /\ \A a \in M \cup {None} : bh[a] \in Nat
    /\ bh[None] = 0 /\ bh[y] = bh[n] + 1
    /\ ~IsRed(t, t.root) /\ \A p \in M, w \in Side : ~RedPair(t, p, w)

LEMMA DeletingIs ==
  ASSUME RBAssumption, NEW M, NEW sub, NEW bh, Sound(tree, job, M, sub, bh), DeleteLoops
  PROVE  Deleting(tree, M, sub, bh, job.parent, Near, Other(Near), job.node, Sibling)
<1> DEFINE q == job.parent
           z == Near
           o == Other(z)
           n == job.node
           y == Sibling
<1>1. /\ Hangs(tree, M, sub) /\ Reds(tree, M, n, Excused(job)) /\ JobSound(tree, job, M)
      /\ Even(tree, M, ShortBelow(tree, job), SideOf(tree, job.parent, job.node), bh)
      /\ bh[None] = 0 /\ (\A c \in M \cup {None} : bh[c] \in Nat) /\ tree \in Trees
      /\ None \notin M /\ M \subseteq Nodes /\ (\A a \in M : tree.color[a] # "free")
      /\ tree.root \in M \cup {None} /\ (M # {} => tree.root # None)
      /\ \A c \in M, s \in Side : tree.kid[c][s] \in M \cup {None}
  BY SoundFacts
<1>2. job.kind = "delete" /\ n # tree.root /\ ~IsRed(tree, n) /\ Excused(job) = n
  BY DEF DeleteLoops, Black, Red, IsRed, Excused
<1>3. DeleteAt(tree, M, bh, q, z, n, y) BY <1>2, SiblingIs
<1> HIDE DEF q, z, n, y
<1>4. /\ q \in M /\ z \in Side /\ tree.kid[q][z] = n /\ y = tree.kid[q][o] /\ y \in M
      /\ Even(tree, M, q, z, bh) /\ bh[y] = bh[n] + 1
  BY <1>1, <1>3 DEF DeleteAt
<1>5. o \in Side /\ o # z /\ Other(o) = z /\ \A w \in Side : w = z \/ w = o BY <1>4, Others
<1> HIDE DEF o
<1>6. n \in M \cup {None} /\ y # None /\ tree.root \in M BY <1>1, <1>4
<1>7. n # y
  <2> SUFFICES ASSUME n = y PROVE FALSE OBVIOUS
  <2>1. bh[y] \in Nat /\ bh[y] = bh[y] + 1 BY <1>1, <1>4
  <2> QED BY <2>1
<1>8. /\ y # q /\ y # tree.root
      /\ \A p \in M, w \in Side : tree.kid[p][w] = y => p = q /\ w = o
      /\ \A w \in Side : tree.kid[y][w] # q /\ tree.kid[y][w] # y
  BY <1>1, <1>4, <1>5, <1>6, ChildIs
<1>9. n # q
  <2>1. CASE n = None BY <1>1, <1>4, <2>1
  <2>2. CASE n # None BY <1>1, <1>4, <2>2, ChildIs
  <2> QED BY <2>1, <2>2
<1>10. ~IsRed(tree, tree.root) /\ \A p \in M, w \in Side : ~RedPair(tree, p, w)
  <2>1. ~IsRed(tree, tree.root) BY <1>1, <1>2 DEF Reds
  <2>2. ASSUME NEW p \in M, NEW w \in Side, RedPair(tree, p, w) PROVE FALSE
    <3>1. tree.kid[p][w] = n \/ p = n BY <1>1, <1>2, <2>2 DEF Reds
    <3> QED BY <1>2, <2>2, <3>1 DEF RedPair
  <2> QED BY <2>1, <2>2
<1>11. Repaints(tree, tree, M) BY <1>1 DEF Repaints
<1> QED BY <1>1, <1>2, <1>4, <1>5, <1>6, <1>7, <1>8, <1>9, <1>10, <1>11
        DEF Deleting, q, z, o, n, y

LEMMA SiblingIsRedKeeps ==
  ASSUME RBAssumption, NEW M, NEW sub, NEW bh, Sound(tree, job, M, sub, bh), SiblingIsRed
  PROVE  Holds(tree', job', M)
<1> DEFINE q == job.parent
           z == Near
           o == Other(z)
           n == job.node
           y == Sibling
           sub2 == Turned(sub, M, tree.kid, None, q, z, y)
           bh2 == Moved(bh, M, q, y, bh[y])
           t0 == Paint(tree, y, "black")
           t1 == Paint(t0, q, "red")
           t2 == Rotate(t1, q, z)
<1>1. DeleteLoops /\ Red(y) /\ tree' = t2 /\ job' = job BY DEF SiblingIsRed
<1>2. Deleting(tree, M, sub, bh, q, z, o, n, y) BY <1>1, DeletingIs
<1>3. M = InTree(tree, job) /\ FreeAreLeaves(tree) /\ JobSound(tree, job, M) BY SoundFacts
<1>4. job.kind = "delete" BY <1>1 DEF DeleteLoops
<1> HIDE DEF q, z, o, n, y, t0, t1, t2
<1> USE <1>2 DEF Deleting
<1>5. tree.color[y] = "red" /\ tree.color[q] = "black"
  <2>1. tree.color[y] = "red" BY <1>1 DEF Red
  <2>2. tree.color[q] # "red" BY <2>1 DEF RedPair, IsRed
  <2>3. tree.color[q] \in {"free", "red", "black"} BY FieldsOf
  <2>4. tree.color[q] # "free" BY DEF Repaints
  <2> QED BY <2>1, <2>2, <2>3, <2>4
<1>6. Repaints(tree, t0, M) /\ ColorsBut(t0, tree, y, "black") BY Repainted DEF t0
<1>7. Repaints(tree, t1, M) /\ ColorsBut(t1, t0, q, "red") BY <1>6, Repainted DEF t1
<1>8. Turns(tree, t2, M, sub, q, z, y) /\ t2.color = t1.color
  <2>1. tree.kid[q][Other(z)] = y /\ tree.kid[q][Other(z)] # None OBVIOUS
  <2>2. Hangs(tree, M, sub) /\ q \in M /\ z \in Side OBVIOUS
  <2> QED BY <1>7, <2>1, <2>2, TurnPainted DEF t2
<1> HIDE DEF sub2, bh2
<1>9. /\ Hangs(t2, M, sub2) /\ t2.root = (IF tree.root = q THEN y ELSE tree.root)
      /\ TurnsTo(M, tree.kid, None, q, z, o, y, t2.kid)
      /\ \A a \in Nodes \ M : t2.kid[a] = tree.kid[a]
  BY <1>8 DEF Turns, sub2
<1>10. \A a \in M : t2.color[a] = IF a = q THEN "red" ELSE IF a = y THEN "black"
                                  ELSE tree.color[a]
  BY <1>6, <1>7, <1>8 DEF ColorsBut
<1>11. Exchanges(tree, t2, M, q, y) BY <1>5, <1>10 DEF Exchanges
<1>12. Even(t2, M, q, z, bh2)
  <2>1. Hangs(tree, M, sub) /\ Even(tree, M, q, z, bh) OBVIOUS
  <2> QED BY <1>5, <1>9, <1>11, <2>1, EvenWhenTurned, Zenon DEF bh2
<1>13. PairsKept(tree, t2, M, q, z, o, y)
  <2>1. Hangs(tree, M, sub) OBVIOUS
  <2> QED BY <1>9, <1>11, <2>1, PairsWhenTurned, Zenon
<1>14. t2.kid[q][z] = n /\ t2.kid[q][o] = tree.kid[y][z] /\ tree.kid[y][z] # None
  <2>1. t2.kid[q][z] = n /\ t2.kid[q][o] = tree.kid[y][z] BY <1>9 DEF TurnsTo
  <2>2. bh[y] = bh[tree.kid[y][z]]
    <3>1. bh[y] = Weight(tree, y) + Short(q, z, y, z) + bh[tree.kid[y][z]] BY DEF Even
    <3>2. Weight(tree, y) = 0 /\ Short(q, z, y, z) = 0 BY <1>5 DEF Weight, Short
    <3>3. bh[tree.kid[y][z]] \in Nat OBVIOUS
    <3> QED BY <3>1, <3>2, <3>3
  <2>3. tree.kid[y][z] # None
    <3> SUFFICES ASSUME tree.kid[y][z] = None PROVE FALSE OBVIOUS
    <3>1. bh[n] \in Nat /\ bh[n] + 1 = 0 BY <2>2
    <3> QED BY <3>1
  <2> QED BY <2>1, <2>3
<1>15. SideOf(t2, q, n) = z
  <2>1. t2.kid[q][Other(z)] # None BY <1>14
  <2> QED BY <1>9, <1>14, <2>1, SideOfIs
<1>16. n # t2.root BY <1>9
<1>17. ShortBelow(t2, job') = q /\ SideOf(t2, job'.parent, job'.node) = z
  BY <1>1, <1>4, <1>15, <1>16 DEF ShortBelow, q, n
<1>18. Reds(t2, M, n, n)
  <2>1. ~IsRed(t2, t2.root)
    <3>1. CASE tree.root = q BY <1>9, <1>10, <3>1 DEF IsRed
    <3>2. CASE tree.root # q BY <1>9, <1>10, <3>2 DEF IsRed
    <3> QED BY <3>1, <3>2
  <2>2. ASSUME NEW p \in M, NEW w \in Side PROVE ~RedPair(t2, p, w)
    <3>1. CASE p \in M \ {q, y} BY <1>13, <3>1 DEF PairsKept
    <3>2. CASE p = q /\ w = z BY <1>13, <3>2 DEF PairsKept
    <3>3. CASE p = q /\ w = o
      <4>1. ~RedPair(tree, y, z) OBVIOUS
      <4> QED BY <1>5, <1>13, <3>3, <4>1 DEF PairsKept, RedPair, IsRed
    <3>4. CASE p = y BY <1>5, <1>13, <3>4 DEF PairsKept
    <3> QED BY <3>1, <3>2, <3>3, <3>4
  <2> QED BY <2>1, <2>2 DEF Reds
<1>19. M = InTree(t2, job') /\ FreeAreLeaves(t2)
  <2>1. Keeps(tree, t2, M) BY <1>7, <1>8, <1>9 DEF Keeps, Repaints
  <2> QED BY <1>1, <1>3, <2>1, TreeKept
<1>20. JobSound(t2, job', M)
  <2>1. \E s \in Side : t2.kid[q][s] = n BY <1>14
  <2> QED BY <1>1, <1>3, <1>4, <2>1 DEF JobSound, q, n
<1>21. Excused(job') = n /\ job'.node = n BY <1>1, <1>4 DEF Excused, n
<1>22. Sound(t2, job', M, sub2, bh2)
  BY <1>9, <1>12, <1>17, <1>18, <1>19, <1>20, <1>21 DEF Sound
<1> QED BY <1>1, <1>22 DEF Holds

\* A sibling painted red makes the paths through its parent short instead.
Raises(t, t2, M, q, z, o, y, q2, z2) ==
    /\ t2.kid = t.kid /\ t.color[y] # "red"
    /\ \A a \in M : t2.color[a] = IF a = y THEN "red" ELSE t.color[a]
    /\ \/ q = t.root /\ q2 = None
       \/ q2 \in M /\ z2 \in Side /\ t.kid[q2][z2] = q

LEMMA EvenWhenRaised ==
  ASSUME RBAssumption, NEW t, NEW M, NEW sub, NEW bh, NEW q, NEW z, NEW o, NEW n, NEW y,
         Deleting(t, M, sub, bh, q, z, o, n, y), NEW t2, NEW q2, NEW z2,
         Raises(t, t2, M, q, z, o, y, q2, z2)
  PROVE  \E bh2 : Even(t2, M, q2, z2, bh2)
<1> USE DEF Deleting
<1> DEFINE bh2 == [a \in M \cup {None} |-> IF a = q \/ a = y THEN bh[a] - 1 ELSE bh[a]]
<1>1. /\ t2.kid = t.kid /\ Weight(t, y) = 1 /\ Weight(t2, y) = 0
      /\ \A a \in M : a # y => Weight(t2, a) = Weight(t, a)
      /\ \A a : Weight(t, a) \in Nat
  BY DEF Raises, Weight
<1>2. \A a \in M \cup {None} : bh2[a] = IF a = q \/ a = y THEN bh[a] - 1 ELSE bh[a] OBVIOUS
<1> HIDE DEF bh2
<1>3. /\ bh[n] \in Nat /\ bh[y] \in Nat /\ bh[q] \in Nat
      /\ bh[q] = Weight(t, q) + 1 + bh[n] /\ bh[q] = Weight(t, q) + bh[y]
  <2>1. bh[q] = Weight(t, q) + Short(q, z, q, z) + bh[n]
        /\ bh[q] = Weight(t, q) + Short(q, z, q, o) + bh[y]
    BY DEF Even
  <2>2. Short(q, z, q, z) = 1 /\ Short(q, z, q, o) = 0 BY DEF Short
  <2>3. bh[n] \in Nat /\ bh[y] \in Nat /\ bh[q] \in Nat OBVIOUS
  <2>4. Weight(t, q) \in Nat BY <1>1
  <2> QED BY <2>1, <2>2, <2>3, <2>4
<1>4. /\ \A a \in M, w \in Side : t.kid[a][w] = q =>
            a = q2 /\ w = z2 /\ q2 # q /\ q2 # y /\ q2 \in M /\ z2 \in Side
      /\ q2 \in M => z2 \in Side /\ t.kid[q2][z2] = q /\ q2 # q /\ q2 # y
      /\ q2 = None \/ q2 \in M
  <2>1. CASE q = t.root /\ q2 = None
    <3>1. \A a \in M, w \in Side : t.kid[a][w] # q
      <4> SUFFICES ASSUME NEW a \in M, NEW w \in Side, t.kid[a][w] = q PROVE FALSE OBVIOUS
      <4>1. Hangs(t, M, sub) /\ t.kid[a][w] # None OBVIOUS
      <4> QED BY <2>1, <4>1, ChildIs
    <3> QED BY <2>1, <3>1
  <2>2. CASE q2 \in M /\ z2 \in Side /\ t.kid[q2][z2] = q
    <3>1. Hangs(t, M, sub) /\ t.kid[q2][z2] # None BY <2>2
    <3>2. q # q2 /\ \A a \in M, w \in Side : t.kid[a][w] = q => a = q2 /\ w = z2
      BY <2>2, <3>1, ChildIs
    <3>3. q2 # y BY <2>2
    <3> QED BY <2>2, <3>2, <3>3
  <2> QED BY <2>1, <2>2 DEF Raises
<1>5. ASSUME NEW a \in M, NEW w \in Side
      PROVE  bh2[a] \in Nat /\ bh2[a] = Weight(t2, a) + Short(q2, z2, a, w) + bh2[t2.kid[a][w]]
  <2>1. bh[a] = Weight(t, a) + Short(q, z, a, w) + bh[t.kid[a][w]] BY DEF Even
  <2>2. /\ bh[a] \in Nat /\ bh[t.kid[a][w]] \in Nat /\ Weight(t, a) \in Nat
    BY <1>1
  <2>3. CASE a = q
    <3>1. Short(q2, z2, a, w) = 0 BY <1>4, <2>3 DEF Short
    <3>2. bh2[a] = bh[q] - 1 BY <1>2, <2>3
    <3>3. Weight(t2, a) = Weight(t, q) /\ Weight(t, q) \in Nat BY <1>1, <2>3
    <3>4. CASE w = z
      <4>1. bh2[t2.kid[a][w]] = bh[n] BY <1>1, <1>2, <2>3, <3>4
      <4> QED BY <1>3, <3>1, <3>2, <3>3, <4>1
    <3>5. CASE w = o
      <4>1. bh2[t2.kid[a][w]] = bh[y] - 1 BY <1>1, <1>2, <2>3, <3>5
      <4>2. bh[y] = bh[n] + 1 OBVIOUS
      <4> QED BY <1>3, <3>1, <3>2, <3>3, <4>1, <4>2
    <3> QED BY <3>4, <3>5
  <2>4. CASE a = y
    <3>1. Short(q2, z2, a, w) = 0 /\ Short(q, z, a, w) = 0 BY <1>4, <2>4 DEF Short
    <3>2. bh2[a] = bh[y] - 1 BY <1>2, <2>4
    <3>3. bh2[t2.kid[a][w]] = bh[t.kid[a][w]] BY <1>1, <1>2, <2>4
    <3>4. Weight(t2, a) = 0 /\ Weight(t, a) = 1 BY <1>1, <2>4
    <3> QED BY <2>1, <2>2, <2>4, <3>1, <3>2, <3>3, <3>4
  <2>5. CASE a # q /\ a # y
    <3>1. Short(q, z, a, w) = 0 BY <2>5 DEF Short
    <3>2. bh2[a] = bh[a] /\ Weight(t2, a) = Weight(t, a) BY <1>1, <1>2, <2>5
    <3>3. t.kid[a][w] # y BY <2>5
    <3>4. CASE t.kid[a][w] = q
      <4>1. Short(q2, z2, a, w) = 1 BY <1>4, <3>4 DEF Short
      <4>2. bh2[t2.kid[a][w]] = bh[q] - 1 /\ bh[t.kid[a][w]] = bh[q] BY <1>1, <1>2, <3>4
      <4> QED BY <1>3, <2>1, <2>2, <3>1, <3>2, <4>1, <4>2
    <3>5. CASE t.kid[a][w] # q
      <4>1. Short(q2, z2, a, w) = 0
        <5>1. ~(a = q2 /\ w = z2) BY <1>4, <3>5
        <5> QED BY <5>1 DEF Short
      <4>2. bh2[t2.kid[a][w]] = bh[t.kid[a][w]] BY <1>1, <1>2, <3>3, <3>5
      <4> QED BY <2>1, <2>2, <3>1, <3>2, <4>1, <4>2
    <3> QED BY <3>4, <3>5
  <2> QED BY <2>3, <2>4, <2>5
<1>6. bh2[None] = 0 BY <1>2
<1>7. Even(t2, M, q2, z2, bh2)
  <2>1. "left" \in Side BY DEF Side
  <2> QED BY <1>5, <1>6, <2>1 DEF Even
<1> QED BY <1>7

LEMMA NephewsAreBlackKeeps ==
  ASSUME RBAssumption, NEW M, NEW sub, NEW bh, Sound(tree, job, M, sub, bh), NephewsAreBlack
  PROVE  Holds(tree', job', M)
<1> DEFINE q == job.parent
           z == Near
           o == Other(z)
           n == job.node
           y == Sibling
           q2 == ShortBelow(tree', job')
           z2 == SideOf(tree', job'.parent, job'.node)
<1>1. /\ DeleteLoops /\ Black(y) /\ (\A s \in Side : Black(Nephew(s)))
      /\ tree' = Paint(tree, y, "red")
      /\ job' = [job EXCEPT !.node = q, !.parent = tree.parent[q]]
  BY DEF NephewsAreBlack, Above
<1>2. Deleting(tree, M, sub, bh, q, z, o, n, y) BY <1>1, DeletingIs
<1>3. M = InTree(tree, job) /\ FreeAreLeaves(tree) /\ JobSound(tree, job, M) BY SoundFacts
<1>4. job.kind = "delete" BY <1>1 DEF DeleteLoops
<1>5. y # None => \A s \in Side : ~IsRed(tree, tree.kid[y][s])
  BY <1>1 DEF Nephew, Black, Red, IsRed
<1> HIDE DEF q, z, o, n, y
<1> USE <1>2 DEF Deleting
<1>6. /\ job'.node = q /\ job'.parent = tree.parent[q] /\ job'.victim = job.victim
      /\ job'.kind = "delete"
      /\ job' \in [kind : {"none", "insert", "delete"}, node : Links, parent : Links, victim : Links]
  <2>1. tree.parent[q] \in Links /\ q \in Links BY FieldsOf DEF Links
  <2> QED BY <1>1, <1>3, <1>4, <2>1 DEF JobSound
<1>7. Repaints(tree, tree', M) /\ ColorsBut(tree', tree, y, "red") BY <1>1, Repainted
<1>8. /\ tree'.kid = tree.kid /\ tree'.root = tree.root /\ Hangs(tree', M, sub)
      /\ \A a \in M : tree'.color[a] = IF a = y THEN "red" ELSE tree.color[a]
  <2>1. Hangs(tree', M, sub) BY <1>7, Repainted
  <2> QED BY <1>7, <2>1 DEF Repaints, ColorsBut
<1>9. /\ q = tree.root => q2 = None
      /\ q # tree.root => /\ q2 = tree.parent[q] /\ q2 \in M /\ z2 \in Side
                          /\ tree.kid[q2][z2] = q
  <2>1. CASE q = tree.root BY <1>6, <1>8, <2>1 DEF ShortBelow
  <2>2. CASE q # tree.root
    <3>1. q2 = tree.parent[q] BY <1>6, <1>8, <2>2 DEF ShortBelow
    <3>2. Hangs(tree, M, sub) /\ q \in M OBVIOUS
    <3>3. q2 \in M /\ \E s \in Side : tree.kid[q2][s] = q BY <2>2, <3>1, <3>2, ParentIs
    <3>4. z2 = SideOf(tree, q2, q) BY <1>6, <1>8, <3>1 DEF SideOf
    <3>5. z2 \in Side /\ tree.kid[q2][z2] = q BY <3>3, <3>4 DEF SideOf, Side
    <3> QED BY <2>2, <3>1, <3>3, <3>5
  <2> QED BY <2>1, <2>2
<1> HIDE DEF q2, z2
<1>10. Raises(tree, tree', M, q, z, o, y, q2, z2)
  BY <1>1, <1>8, <1>9 DEF Raises, Black, Red
<1>11. PICK bh2 : Even(tree', M, q2, z2, bh2)
  <2> HIDE DEF Deleting
  <2>1. Deleting(tree, M, sub, bh, q, z, o, n, y) BY <1>2
  <2> DEFINE t2 == tree'
  <2>2. Raises(tree, t2, M, q, z, o, y, q2, z2) BY <1>10
  <2> HIDE DEF t2
  <2>3. \E bh2 : Even(t2, M, q2, z2, bh2) BY <2>1, <2>2, EvenWhenRaised, Zenon
  <2> QED BY <2>3 DEF t2
<1>12. Reds(tree', M, q, q)
  <2>1. ~IsRed(tree', tree'.root) BY <1>8 DEF IsRed
  <2>2. ASSUME NEW p \in M, NEW w \in Side, RedPair(tree', p, w) PROVE p = q
    <3> SUFFICES ASSUME p # q PROVE FALSE OBVIOUS
    <3>1. tree.kid[p][w] # y OBVIOUS
    <3>2. IsRed(tree, tree.kid[p][w]) BY <1>8, <2>2, <3>1 DEF RedPair, IsRed
    <3>3. p # y BY <1>5, <3>2
    <3>4. RedPair(tree, p, w) BY <1>8, <2>2, <3>2, <3>3 DEF RedPair, IsRed
    <3> QED BY <3>4
  <2> QED BY <2>1, <2>2 DEF Reds
<1>13. M = InTree(tree', job') /\ FreeAreLeaves(tree')
  <2>1. Keeps(tree, tree', M) BY <1>7, <1>8 DEF Keeps, Repaints
  <2> QED BY <1>3, <1>6, <2>1, TreeKept
<1>14. JobSound(tree', job', M)
  <2>1. job'.node # tree'.root => job'.parent \in M /\ \E s \in Side : tree'.kid[job'.parent][s] = job'.node
    BY <1>6, <1>8, <1>9
  <2> QED BY <1>3, <1>4, <1>6, <2>1 DEF JobSound
<1>15. Excused(job') = q BY <1>6 DEF Excused
<1>16. Sound(tree', job', M, sub, bh2)
  BY <1>6, <1>8, <1>11, <1>12, <1>13, <1>14, <1>15 DEF Sound, q2, z2
<1> QED BY <1>16 DEF Holds

\* What the last case of a delete's loop starts from: a black sibling y whose far child f
\* is red.
Ready(t, M, sub, bh, q, z, o, y, f) ==
    /\ Hangs(t, M, sub) /\ Repaints(t, t, M) /\ Even(t, M, q, z, bh)
    /\ None \notin M /\ M \subseteq Nodes /\ t.root \in M
    /\ q \in M /\ z \in Side /\ o = Other(z) /\ o \in Side /\ o # z /\ \A w \in Side : w = z \/ w = o
    /\ y = t.kid[q][o] /\ y \in M /\ y # None /\ ~IsRed(t, y)
    /\ f = t.kid[y][o] /\ IsRed(t, f)
    /\ \A p \in M, w \in Side : t.kid[p][w] \in M \cup {None}
    /\ ~IsRed(t, t.root) /\ \A p \in M, w \in Side : ~RedPair(t, p, w)

LEMMA ReadyAtOnce ==
  ASSUME NEW t, NEW M, NEW sub, NEW bh, NEW q, NEW z, NEW o, NEW n, NEW y,
         Deleting(t, M, sub, bh, q, z, o, n, y), ~IsRed(t, y), IsRed(t, t.kid[y][o])
  PROVE  Ready(t, M, sub, bh, q, z, o, y, t.kid[y][o])
BY DEF Deleting, Ready

\* Turning the sibling and its red near child c: c is the new sibling.
LEMMA FarTurned ==
  ASSUME RBAssumption, NEW t, NEW M, NEW sub, NEW bh, NEW q, NEW z, NEW o, NEW n, NEW y,
         Deleting(t, M, sub, bh, q, z, o, n, y), ~IsRed(t, y),
         NEW c, c = t.kid[y][z], IsRed(t, c), ~IsRed(t, t.kid[y][o]),
         NEW t2, t2 = Rotate(Paint(Paint(t, c, "black"), y, "red"), y, o)
  PROVE  /\ Keeps(t, t2, M)
         /\ \E sub2, bh2 : Ready(t2, M, sub2, bh2, q, z, o, c, y)
<1> USE DEF Deleting
<1> DEFINE t0 == Paint(t, c, "black")
           t1 == Paint(t0, y, "red")
           sub2 == Turned(sub, M, t.kid, None, y, o, c)
           bh2 == Moved(bh, M, y, c, bh[c])
<1>1. t2 = Rotate(t1, y, o) OBVIOUS
<1> HIDE DEF t0, t1, sub2, bh2
<1>2. c # None /\ t.color[c] = "red" /\ c \in M BY DEF IsRed
<1>3. /\ c # y /\ c # t.root /\ c # q /\ c # n
      /\ \A p \in M, w \in Side : t.kid[p][w] = c => p = y /\ w = z
  <2>1. Hangs(t, M, sub) /\ t.kid[y][z] # None /\ y \in M /\ z \in Side BY <1>2
  <2>2. /\ t.kid[y][z] # y /\ t.kid[y][z] # t.root
        /\ \A p \in M, w \in Side : t.kid[p][w] = t.kid[y][z] => p = y /\ w = z
    BY <2>1, ChildIs
  <2>3. c # n BY <1>2 DEF IsRed
  <2>4. c # q OBVIOUS
  <2> QED BY <2>2, <2>3, <2>4
<1>4. t.color[y] = "black"
  <2>1. t.color[y] \in {"free", "red", "black"} BY FieldsOf
  <2>2. t.color[y] # "red" BY DEF IsRed
  <2> QED BY <2>1, <2>2 DEF Repaints
<1>5. Repaints(t, t0, M) /\ ColorsBut(t0, t, c, "black") BY <1>2, Repainted DEF t0
<1>6. Repaints(t, t1, M) /\ ColorsBut(t1, t0, y, "red") BY <1>5, Repainted DEF t1
<1>7. Turns(t, t2, M, sub, y, o, c) /\ t2.color = t1.color
  <2>1. t.kid[y][Other(o)] = c /\ t.kid[y][Other(o)] # None BY <1>2
  <2>2. Hangs(t, M, sub) /\ y \in M /\ o \in Side OBVIOUS
  <2> QED BY <1>1, <1>6, <2>1, <2>2, TurnPainted
<1>8. /\ Hangs(t2, M, sub2) /\ t2.root = t.root
      /\ TurnsTo(M, t.kid, None, y, o, z, c, t2.kid)
      /\ \A a \in Nodes \ M : t2.kid[a] = t.kid[a]
  BY <1>7 DEF Turns, sub2
<1>9. \A a \in M : t2.color[a] = IF a = y THEN "red" ELSE IF a = c THEN "black" ELSE t.color[a]
  <2>1. M \subseteq Nodes OBVIOUS
  <2> HIDE DEF Deleting
  <2>2. \A a \in Nodes : t0.color[a] = IF a = c THEN "black" ELSE t.color[a] BY <1>5 DEF ColorsBut
  <2>3. \A a \in Nodes : t2.color[a] = IF a = y THEN "red" ELSE t0.color[a]
    BY <1>6, <1>7 DEF ColorsBut
  <2> QED BY <2>1, <2>2, <2>3
<1>10. Exchanges(t, t2, M, y, c)
  <2> HIDE DEF Deleting
  <2> QED BY <1>2, <1>3, <1>4, <1>9 DEF Exchanges
<1>11. Even(t2, M, q, z, bh2)
  <2>1. Hangs(t, M, sub) /\ Even(t, M, q, z, bh) /\ q \notin {y, c} BY <1>3
  <2> QED BY <1>2, <1>8, <1>10, <2>1, EvenWhenTurned, Zenon DEF bh2
<1>12. PairsKept(t, t2, M, y, o, z, c)
  <2>1. Hangs(t, M, sub) OBVIOUS
  <2> QED BY <1>8, <1>10, <2>1, PairsWhenTurned, Zenon
<1>13. /\ t2.kid[q][o] = c /\ t2.kid[q][z] = n /\ t2.kid[c][o] = y
  BY <1>2, <1>3, <1>8 DEF TurnsTo
<1>14. ~IsRed(t2, t2.root) /\ ~IsRed(t2, c) /\ IsRed(t2, y)
  <2>1. t2.color[c] = "black" /\ t2.color[y] = "red" BY <1>2, <1>3, <1>9
  <2>2. t.root \in M /\ t.root # y /\ t.root # c BY <1>3
  <2>3. t2.color[t2.root] = t.color[t.root]
    <3>1. t2.root = t.root BY <1>8
    <3> HIDE DEF Deleting
    <3>2. t2.color[t.root] = t.color[t.root] BY <1>9, <2>2
    <3> QED BY <3>1, <3>2
  <2>4. t.color[t.root] # "red" BY <2>2 DEF IsRed
  <2> QED BY <2>1, <2>3, <2>4 DEF IsRed
<1>15. ASSUME NEW p \in M, NEW w \in Side PROVE ~RedPair(t2, p, w)
  <2>1. CASE p \in M \ {y, c}
    <3>1. ~RedPair(t, p, w) OBVIOUS
    <3> HIDE DEF Deleting
    <3> QED BY <1>12, <2>1, <3>1 DEF PairsKept
  <2>2. CASE p = y /\ w = o BY <1>12, <2>2 DEF PairsKept
  <2>3. CASE p = y /\ w = z
    <3>1. ~RedPair(t, c, o) BY <1>2
    <3> QED BY <1>2, <1>12, <2>3, <3>1 DEF PairsKept, RedPair, IsRed
  <2>4. CASE p = c
    <3>1. w = z \/ w = o OBVIOUS
    <3>2. t.color[y] # "red" BY <1>4
    <3>3. ~RedPair(t2, c, o) /\ ~RedPair(t2, c, z) BY <1>12, <3>2, Zenon DEF PairsKept
    <3> QED BY <2>4, <3>1, <3>3
  <2> QED BY <2>1, <2>2, <2>3, <2>4
<1>16. Keeps(t, t2, M)
  <2> HIDE DEF Deleting
  <2>1. (\A a \in Nodes \ M : t1.color[a] = t.color[a]) /\ \A a \in M : t1.color[a] # "free"
    BY <1>6 DEF Repaints
  <2>2. t2.color = t1.color /\ \A a \in Nodes \ M : t2.kid[a] = t.kid[a] BY <1>7, <1>8
  <2> QED BY <2>1, <2>2 DEF Keeps
<1>17. Repaints(t2, t2, M) /\ \A p \in M, w \in Side : t2.kid[p][w] \in M \cup {None}
  <2>a. M \subseteq Nodes OBVIOUS
  <2> HIDE DEF Deleting
  <2>1. t2 \in Trees BY <1>8 DEF Hangs
  <2>2. \A p \in M, w \in Side : t2.kid[p][w] \in M \cup {None} BY <1>8, TreeFacts
  <2>3. \A a \in M : t2.color[a] # "free" BY <1>16, <2>a DEF Keeps
  <2> QED BY <2>1, <2>2, <2>3 DEF Repaints
<1>18. Ready(t2, M, sub2, bh2, q, z, o, c, y)
  BY <1>2, <1>8, <1>11, <1>13, <1>14, <1>15, <1>17 DEF Ready
<1> QED BY <1>16, <1>18

\* Turning the parent of the short paths fills them.
LEMMA FarFilled ==
  ASSUME RBAssumption, NEW t, NEW M, NEW sub, NEW bh, NEW q, NEW z, NEW o, NEW y, NEW f,
         Ready(t, M, sub, bh, q, z, o, y, f), NEW t2,
         t2 = Rotate(Paint(Paint(Paint(t, y, t.color[q]), q, "black"), f, "black"), q, z)
  PROVE  /\ Keeps(t, t2, M) /\ t2.root \in M
         /\ Hangs(t2, M, Turned(sub, M, t.kid, None, q, z, y))
         /\ \A w : Even(t2, M, None, w, Filled(bh, M, q, y, f))
         /\ ~IsRed(t2, t2.root) /\ \A p \in M, w \in Side : ~RedPair(t2, p, w)
<1> USE DEF Ready
<1> DEFINE p1 == Paint(t, y, t.color[q])
           p2 == Paint(p1, q, "black")
           p3 == Paint(p2, f, "black")
<1>1. t2 = Rotate(p3, q, z) OBVIOUS
<1> HIDE DEF p1, p2, p3
<1>2. f # None /\ t.color[f] = "red" /\ f \in M BY DEF IsRed
<1>3. /\ y # q /\ y # t.root
      /\ \A p \in M, w \in Side : t.kid[p][w] = y => p = q /\ w = o
      /\ \A w \in Side : t.kid[y][w] # q /\ t.kid[y][w] # y
  <2>1. Hangs(t, M, sub) /\ t.kid[q][o] # None /\ q \in M /\ o \in Side OBVIOUS
  <2>2. /\ t.kid[q][o] # q /\ t.kid[q][o] # t.root
        /\ \A p \in M, w \in Side : t.kid[p][w] = t.kid[q][o] => p = q /\ w = o
        /\ \A w \in Side : t.kid[t.kid[q][o]][w] # q /\ t.kid[t.kid[q][o]][w] # t.kid[q][o]
    BY <2>1, ChildIs
  <2> QED BY <2>2
<1>4. /\ f # y /\ f # q
      /\ \A p \in M, w \in Side : t.kid[p][w] = f => p = y /\ w = o
  <2>1. Hangs(t, M, sub) /\ t.kid[y][o] # None /\ y \in M /\ o \in Side BY <1>2
  <2>2. \A p \in M, w \in Side : t.kid[p][w] = t.kid[y][o] => p = y /\ w = o
    BY <2>1, ChildIs
  <2> QED BY <1>3, <2>2
<1>5. t.color[q] \in {"red", "black"}
  <2>1. t.color[q] \in {"free", "red", "black"} BY FieldsOf DEF Repaints
  <2> QED BY <2>1 DEF Repaints
<1>a. /\ Hangs(t, M, sub) /\ Repaints(t, t, M) /\ q \in M /\ y \in M /\ M \subseteq Nodes
      /\ t.root \in M
  OBVIOUS
<1>6. Repaints(t, p1, M) /\ ColorsBut(p1, t, y, t.color[q])
  <2> HIDE DEF Ready
  <2> QED BY <1>5, <1>a, Repainted DEF p1
<1>7. Repaints(t, p2, M) /\ ColorsBut(p2, p1, q, "black")
  <2> HIDE DEF Ready
  <2> QED BY <1>6, <1>a, Repainted DEF p2
<1>8. Repaints(t, p3, M) /\ ColorsBut(p3, p2, f, "black")
  <2> HIDE DEF Ready
  <2> QED BY <1>2, <1>7, <1>a, Repainted DEF p3
<1>9. Turns(t, t2, M, sub, q, z, y) /\ t2.color = p3.color
  <2>1. t.kid[q][Other(z)] = y /\ t.kid[q][Other(z)] # None OBVIOUS
  <2>2. Hangs(t, M, sub) /\ q \in M /\ z \in Side OBVIOUS
  <2> QED BY <1>1, <1>8, <2>1, <2>2, TurnPainted
<1>10. /\ Hangs(t2, M, Turned(sub, M, t.kid, None, q, z, y))
       /\ t2.root = (IF t.root = q THEN y ELSE t.root)
       /\ TurnsTo(M, t.kid, None, q, z, o, y, t2.kid)
       /\ \A a \in Nodes \ M : t2.kid[a] = t.kid[a]
  BY <1>9 DEF Turns
<1>11. Fills(t, t2, M, q, y, f)
  <2> HIDE DEF Ready
  <2>1. \A a \in Nodes : p1.color[a] = IF a = y THEN t.color[q] ELSE t.color[a]
    BY <1>6 DEF ColorsBut
  <2>2. \A a \in Nodes : p2.color[a] = IF a = q THEN "black" ELSE p1.color[a]
    BY <1>7 DEF ColorsBut
  <2>3. \A a \in Nodes : t2.color[a] = IF a = f THEN "black" ELSE p2.color[a]
    BY <1>8, <1>9 DEF ColorsBut
  <2> QED BY <1>3, <1>4, <1>a, <2>1, <2>2, <2>3 DEF Fills
<1>12. ASSUME NEW w PROVE Even(t2, M, None, w, Filled(bh, M, q, y, f))
  <2>1. /\ Hangs(t, M, sub) /\ Even(t, M, q, z, bh) /\ f = t.kid[y][o] /\ IsRed(t, f)
        /\ t.color[y] # "red"
    BY DEF IsRed
  <2>2. TurnsTo(M, t.kid, None, q, z, o, y, t2.kid) /\ Fills(t, t2, M, q, y, f) BY <1>10, <1>11
  <2> HIDE DEF Ready
  <2> QED BY <2>1, <2>2, EvenWhenFilled, Zenon
<1>13. /\ t2.kid[y][z] = q /\ t2.kid[y][o] = f
       /\ \A p \in M \ {q, y}, w \in Side :
             t2.kid[p][w] = IF t.kid[p][w] = q THEN y ELSE t.kid[p][w]
  BY <1>10 DEF TurnsTo
<1>14. \A a \in M : t2.color[a] = IF a = y THEN t.color[q]
                                  ELSE IF a = q \/ a = f THEN "black" ELSE t.color[a]
  BY <1>11 DEF Fills
<1>15. ~IsRed(t2, t2.root)
  <2>1. CASE t.root = q
    <3> HIDE DEF Ready
    <3>1. t2.root = y /\ t2.color[y] = t.color[t.root] BY <1>10, <1>14, <1>a, <2>1
    <3>2. t.root # None => t.color[t.root] # "red"
      <4>1. ~IsRed(t, t.root) BY DEF Ready
      <4> QED BY <4>1 DEF IsRed
    <3>3. None \notin M BY DEF Ready
    <3> QED BY <1>a, <3>1, <3>2, <3>3 DEF IsRed
  <2>2. CASE t.root # q
    <3>1. t2.root = t.root /\ t.root \in M /\ t.root # y BY <1>3, <1>10, <2>2
    <3>2. t2.color[t.root] = "black" \/ t2.color[t.root] = t.color[t.root] BY <1>14, <3>1
    <3>3. t.color[t.root] # "red" BY <3>1 DEF IsRed
    <3> QED BY <3>1, <3>2, <3>3 DEF IsRed
  <2> QED BY <2>1, <2>2
<1>16. ASSUME NEW p \in M, NEW w \in Side, RedPair(t2, p, w) PROVE FALSE
  <2>1. t2.color[p] = "red" /\ t2.kid[p][w] # None /\ t2.color[t2.kid[p][w]] = "red"
    BY <1>16 DEF RedPair, IsRed
  <2>2. p # q /\ p # f BY <1>3, <1>4, <1>14, <2>1
  <2>3. CASE p = y
    <3>1. t2.kid[p][w] = q \/ t2.kid[p][w] = f BY <1>13, <2>3
    <3> QED BY <1>2, <1>3, <1>4, <1>14, <2>1, <3>1
  <2>4. CASE p # y
    <3>1. t.color[p] = "red" BY <1>14, <2>1, <2>2, <2>4
    <3>2. CASE t.kid[p][w] = q
      <4>0. t2.kid[p][w] = y BY <1>13, <2>2, <2>4, <3>2
      <4>1. t.color[q] = "red" BY <1>14, <2>1, <4>0
      <4>2. RedPair(t, p, w) BY <3>1, <3>2, <4>1 DEF RedPair, IsRed
      <4> QED BY <4>2
    <3>3. CASE t.kid[p][w] # q
      <4>0. t.kid[p][w] \in M \cup {None} OBVIOUS
      <4>a. None \notin M OBVIOUS
      <4> DEFINE b == t.kid[p][w]
      <4> HIDE DEF Ready
      <4>1. t2.kid[p][w] = b BY <1>13, <2>2, <2>4, <3>3
      <4>2. b # y /\ b # f /\ b # q BY <1>3, <1>4, <2>2, <2>4, <3>3
      <4>3. b \in M BY <2>1, <4>0, <4>1
      <4> HIDE DEF b
      <4>4. t.color[b] = "red" BY <1>14, <2>1, <4>1, <4>2, <4>3
      <4>5. RedPair(t, p, w) BY <3>1, <4>3, <4>4, <4>a DEF RedPair, IsRed, b
      <4> QED BY <4>5 DEF Ready
    <3> QED BY <3>2, <3>3
  <2> QED BY <2>3, <2>4
<1>17. Keeps(t, t2, M)
  <2> HIDE DEF Ready
  <2>1. (\A a \in Nodes \ M : p3.color[a] = t.color[a]) /\ \A a \in M : p3.color[a] # "free"
    BY <1>8 DEF Repaints
  <2>2. t2.color = p3.color /\ \A a \in Nodes \ M : t2.kid[a] = t.kid[a] BY <1>9, <1>10
  <2> QED BY <2>1, <2>2 DEF Keeps
<1>18. t2.root \in M BY <1>10
<1> QED BY <1>10, <1>12, <1>15, <1>16, <1>17, <1>18

LEMMA NephewIsRedKeeps ==
  ASSUME RBAssumption, NEW M, NEW sub, NEW bh, Sound(tree, job, M, sub, bh), NephewIsRed
  PROVE  Holds(tree', job', M)
<1> DEFINE q == job.parent
           z == Near
           o == Other(z)
           n == job.node
           y == Sibling
           c == Nephew(z)
           t1 == IF FarIsBlack(o) THEN Rotate(Paint(Paint(tree, c, "black"), y, "red"), y, o)
                 ELSE tree
           y1 == t1.kid[q][o]
           t2 == Paint(Paint(t1, y1, t1.color[q]), q, "black")
           t3 == IF t2.kid[y1][o] = None THEN t2 ELSE Paint(t2, t2.kid[y1][o], "black")
           t4 == Rotate(t3, q, z)
<1>1. /\ DeleteLoops /\ Black(y) /\ (\E s \in Side : Red(Nephew(s)))
      /\ tree' = t4 /\ job' = [job EXCEPT !.node = t4.root]
  BY DEF NephewIsRed
<1>2. Deleting(tree, M, sub, bh, q, z, o, n, y) BY <1>1, DeletingIs
<1>3. M = InTree(tree, job) /\ FreeAreLeaves(tree) /\ JobSound(tree, job, M) BY SoundFacts
<1>4. job.kind = "delete" BY <1>1 DEF DeleteLoops
<1>5. y # None /\ ~IsRed(tree, y) /\ z \in Side /\ o \in Side /\ \A w \in Side : w = z \/ w = o
  <2>1. ~IsRed(tree, y) BY <1>1 DEF Black, Red, IsRed
  <2> QED BY <1>2, <2>1 DEF Deleting
<1>6. c = tree.kid[y][z] /\ Nephew(o) = tree.kid[y][o] BY <1>5 DEF Nephew
<1>7. FarIsBlack(o) <=> ~IsRed(tree, tree.kid[y][o]) BY <1>6 DEF FarIsBlack, Black, Red, IsRed
<1>8. FarIsBlack(o) => IsRed(tree, c)
  <2>1. PICK s \in Side : Red(Nephew(s)) BY <1>1
  <2>2. CASE s = z BY <2>1, <2>2 DEF Red, IsRed
  <2>3. CASE s = o BY <2>1, <2>3 DEF FarIsBlack, Black
  <2> QED BY <1>5, <2>2, <2>3
<1> HIDE DEF q, z, o, n, y, c
<1>9. /\ Keeps(tree, t1, M)
      /\ \E sub1, bh1, f1 : Ready(t1, M, sub1, bh1, q, z, o, y1, f1)
  <2>1. CASE FarIsBlack(o)
    <3>1. t1 = Rotate(Paint(Paint(tree, c, "black"), y, "red"), y, o) BY <2>1
    <3> HIDE DEF t1
    <3>2. Keeps(tree, t1, M) /\ \E sub2, bh2 : Ready(t1, M, sub2, bh2, q, z, o, c, y)
      BY <1>2, <1>5, <1>6, <1>7, <1>8, <2>1, <3>1, FarTurned
    <3>3. PICK sub2, bh2 : Ready(t1, M, sub2, bh2, q, z, o, c, y) BY <3>2
    <3>4. y1 = c BY <3>3 DEF Ready
    <3> QED BY <3>2, <3>3, <3>4
  <2>2. CASE ~FarIsBlack(o)
    <3>1. t1 = tree BY <2>2
    <3> HIDE DEF t1
    <3>2. Ready(tree, M, sub, bh, q, z, o, y, tree.kid[y][o])
      BY <1>2, <1>5, <1>7, <2>2, ReadyAtOnce
    <3>3. y1 = y BY <3>1, <3>2 DEF Ready
    <3>4. Keeps(tree, tree, M) BY <1>2 DEF Keeps, Deleting, Repaints
    <3> QED BY <3>1, <3>2, <3>3, <3>4
  <2> QED BY <2>1, <2>2
<1> HIDE DEF t1, y1
<1>10. PICK sub1, bh1, f1 : Ready(t1, M, sub1, bh1, q, z, o, y1, f1) BY <1>9
<1>11. t4 = Rotate(Paint(Paint(Paint(t1, y1, t1.color[q]), q, "black"), f1, "black"), q, z)
  <2>1. t2.kid = t1.kid BY DEF Paint
  <2>2. t1.kid[y1][o] = f1 /\ f1 # None BY <1>10 DEF Ready, IsRed
  <2> HIDE DEF t2
  <2>3. t3 = Paint(t2, f1, "black") BY <2>1, <2>2
  <2> QED BY <2>3 DEF t2
<1> HIDE DEF t2, t3, t4
<1>12. /\ Keeps(t1, t4, M) /\ t4.root \in M
       /\ Hangs(t4, M, Turned(sub1, M, t1.kid, None, q, z, y1))
       /\ \A w : Even(t4, M, None, w, Filled(bh1, M, q, y1, f1))
       /\ ~IsRed(t4, t4.root) /\ \A p \in M, w \in Side : ~RedPair(t4, p, w)
  BY <1>10, <1>11, FarFilled
<1>13. /\ job'.kind = "delete" /\ job'.node = t4.root /\ job'.parent = q /\ job'.victim = job.victim
       /\ job' \in [kind : {"none", "insert", "delete"}, node : Links, parent : Links, victim : Links]
  <2>1. t4.root \in Links BY <1>12, TreeFacts DEF Links
  <2> QED BY <1>1, <1>3, <1>4, <2>1 DEF JobSound, q
<1>14. Keeps(tree, t4, M)
  <2>1. Keeps(tree, t1, M) BY <1>9
  <2> QED BY <1>12, <2>1 DEF Keeps
<1>15. M = InTree(t4, job') /\ FreeAreLeaves(t4) BY <1>3, <1>13, <1>14, TreeKept
<1>16. JobSound(t4, job', M) BY <1>3, <1>4, <1>12, <1>13 DEF JobSound
<1>17. ShortBelow(t4, job') = None /\ Reds(t4, M, job'.node, Excused(job'))
  BY <1>12, <1>13 DEF ShortBelow, Reds
<1>18. Sound(t4, job', M, Turned(sub1, M, t1.kid, None, q, z, y1), Filled(bh1, M, q, y1, f1))
  BY <1>12, <1>15, <1>16, <1>17 DEF Sound
<1> QED BY <1>1, <1>18 DEF Holds
-----------------------------------------------------------------------------
(* Inserting. *)

\* t2 is t with the leaf k red as child s of b.
Grows(t, t2, b, s, k) ==
    /\ t2 \in Trees /\ t2.root = t.root
    /\ KidsBut(t2, t, b, s, k) /\ ParentsBut(t2, t, k, b) /\ ColorsBut(t2, t, k, "red")

LEMMA HangsWhenGrown ==
  ASSUME RBAssumption, NEW M, NEW sub, Hangs(tree, M, sub), NEW k \in Nodes, k \notin M,
         tree.kid[k] = Leaf, NEW b, Fits(M, sub, b, k), NEW t2, Grows(tree, t2, b, Toward(k, b), k)
  PROVE  Hangs(t2, M \cup {k}, Hung(sub, M, None, b, k))
<1> DEFINE s == Toward(k, b)
           M2 == M \cup {k}
           sub2 == Hung(sub, M, None, b, k)
<1>1. /\ M \subseteq Nodes /\ None \notin M /\ None \notin Nodes /\ tree.root \in M \cup {None}
      /\ Spans(sub, M, tree.kid, tree.root, None) /\ SortedBy(sub, M, tree.kid, Key) /\ Linked(tree, M)
      /\ Distinct(Key, Nodes) /\ Distinct(Key, M) /\ tree.kid \in [Nodes -> [Side -> Links]]
      /\ \A c \in M, z \in Side : tree.kid[c][z] \in M \cup {None}
  BY TreeFacts
<1>2. /\ b \in M /\ s \in Side /\ Beyond(Key, s, b, k)
      /\ \A p \in M, z \in Side : b \in sub[tree.kid[p][z]] => Beyond(Key, z, p, k)
  <2>1. b \in M /\ \A p \in M, z \in Side : b \in sub[tree.kid[p][z]] => Beyond(Key, z, p, k)
    BY DEF Fits
  <2>2. b \in Nodes /\ b # k BY <1>1, <2>1
  <2>3. "left" \in Side BY DEF Side
  <2>4. Toward(k, b) \in Side /\ Beyond(Key, Toward(k, b), b, k) BY <2>2, <2>3, TowardIs
  <2> QED BY <2>1, <2>4
<1> HIDE DEF s, sub2
<1>3. /\ t2 \in Trees /\ t2.root = tree.root /\ t2.kid \in [Nodes -> [Side -> Links]]
      /\ \A n \in Nodes, z \in Side : t2.kid[n][z] = IF n = b /\ z = s THEN k ELSE tree.kid[n][z]
      /\ \A n \in Nodes : t2.parent[n] = IF n = k THEN b ELSE tree.parent[n]
  BY FieldsOf DEF Grows, KidsBut, ParentsBut, s
<1>4. \A z \in Side : t2.kid[k][z] = None
  <2>1. k # b BY <1>2
  <2> QED BY <1>3, <2>1 DEF Leaf
<1>5. HangsFrom(M, tree.kid, None, b, s, k, t2.kid)
  <2>1. DOMAIN tree.kid = Nodes /\ DOMAIN t2.kid = Nodes BY <1>1, <1>3
  <2>2. \A p \in M, z \in Side : t2.kid[p][z] = IF p = b /\ z = s THEN k ELSE tree.kid[p][z]
    BY <1>1, <1>3
  <2> QED BY <1>1, <1>2, <1>4, <2>1, <2>2 DEF HangsFrom, Fits, s
<1>6. /\ Spans(sub2, M2, t2.kid, t2.root, None)
      /\ Adds(sub2, sub, M, tree.kid, t2.kid, b, s, k)
  BY <1>1, <1>3, <1>5, LeafHung DEF sub2
<1>7. SortedBy(sub2, M2, t2.kid, Key)
  <2>1. Distinct(Key, M2) BY <1>1 DEF Distinct
  <2>2. \A p \in M, z \in Side : \A a \in sub[tree.kid[p][z]] : Beyond(Key, z, p, a)
    BY <1>1, SidesDiffer
  <2>3. ASSUME NEW p \in M2, NEW z \in Side, NEW a \in sub2[t2.kid[p][z]]
        PROVE  Beyond(Key, z, p, a)
    <3>1. CASE p = k
      <4>1. sub2[None] = {} BY <1>6 DEF Spans
      <4> QED BY <1>4, <2>3, <3>1, <4>1
    <3>2. CASE p \in M
      <4>1. sub2[t2.kid[p][z]] = IF (p = b /\ z = s) \/ b \in sub[tree.kid[p][z]]
                                 THEN sub[tree.kid[p][z]] \cup {k} ELSE sub[tree.kid[p][z]]
        BY <1>6, <3>2 DEF Adds
      <4>2. CASE a = k /\ ((p = b /\ z = s) \/ b \in sub[tree.kid[p][z]]) BY <1>2, <3>2, <4>2
      <4>3. CASE a \in sub[tree.kid[p][z]] BY <2>2, <3>2, <4>3
      <4> QED BY <2>3, <4>1, <4>2, <4>3
    <3> QED BY <3>1, <3>2
  <2> QED BY <1>6, <2>1, <2>3, SidesDiffer
<1>8. Linked(t2, M2)
  <2>1. tree.root # None => tree.parent[tree.root] = None /\ tree.root # k BY <1>1 DEF Linked
  <2>2. t2.root # None => t2.parent[t2.root] = None BY <1>1, <1>3, <2>1
  <2>3. ASSUME NEW n \in M2, NEW z \in Side, t2.kid[n][z] # None
        PROVE  t2.parent[t2.kid[n][z]] = n
    <3>1. n \in M BY <1>4, <2>3
    <3>2. CASE n = b /\ z = s BY <1>1, <1>3, <3>1, <3>2
    <3>3. CASE ~(n = b /\ z = s)
      <4>1. t2.kid[n][z] = tree.kid[n][z] BY <1>1, <1>3, <3>1, <3>3
      <4>2. tree.kid[n][z] \in M /\ tree.parent[tree.kid[n][z]] = n BY <1>1, <2>3, <3>1, <4>1 DEF Linked
      <4> QED BY <1>1, <1>3, <4>1, <4>2
    <3> QED BY <3>2, <3>3
  <2> QED BY <2>2, <2>3 DEF Linked
<1> QED BY <1>1, <1>3, <1>6, <1>7, <1>8 DEF Hangs, sub2

\* A red leaf changes no count.
LEMMA EvenWhenGrown ==
  ASSUME RBAssumption, NEW t, NEW M, NEW sub, Hangs(t, M, sub), NEW k \in Nodes, k \notin M,
         t.kid[k] = Leaf, NEW b \in M, NEW s \in Side, t.kid[b][s] = None,
         NEW t2, Grows(t, t2, b, s, k), NEW bh, NEW w, Even(t, M, None, w, bh),
         Reds(t, M, None, None), NEW z2
  PROVE  /\ Even(t2, M \cup {k}, None, z2, [a \in M \cup {k, None} |-> IF a = k THEN 0 ELSE bh[a]])
         /\ Reds(t2, M \cup {k}, k, None)
<1> DEFINE bh2 == [a \in M \cup {k, None} |-> IF a = k THEN 0 ELSE bh[a]]
<1>1. /\ M \subseteq Nodes /\ None \notin M /\ None \notin Nodes /\ t.root \in M \cup {None}
      /\ \A c \in M, z \in Side : t.kid[c][z] \in M \cup {None}
  BY TreeFacts
<1>2. /\ t2.root = t.root
      /\ \A n \in Nodes, z \in Side : t2.kid[n][z] = IF n = b /\ z = s THEN k ELSE t.kid[n][z]
      /\ \A n \in Nodes : t2.color[n] = IF n = k THEN "red" ELSE t.color[n]
  BY DEF Grows, KidsBut, ColorsBut
<1>3. bh2[k] = 0 /\ bh2[None] = bh[None] /\ \A a \in M : bh2[a] = bh[a] BY <1>1
<1> HIDE DEF bh2
<1>4. /\ bh[None] = 0
      /\ \A n \in M : /\ bh[n] \in Nat
                      /\ \A z \in Side : bh[n] = Weight(t, n) + bh[t.kid[n][z]]
  <2>1. \A n \in M, z \in Side : Short(None, w, n, z) = 0 BY <1>1 DEF Short
  <2>2. bh[None] = 0 /\ \A n \in M : bh[n] \in Nat BY DEF Even
  <2>3. ASSUME NEW n \in M, NEW z \in Side PROVE bh[n] = Weight(t, n) + bh[t.kid[n][z]]
    <3>1. bh[n] = Weight(t, n) + Short(None, w, n, z) + bh[t.kid[n][z]] BY DEF Even
    <3>2. Weight(t, n) \in Nat /\ bh[t.kid[n][z]] \in Nat BY <1>1, <2>2 DEF Weight
    <3> QED BY <2>1, <3>1, <3>2
  <2> QED BY <2>2, <2>3
<1>5. ASSUME NEW n \in M \cup {k}, NEW z \in Side
      PROVE  bh2[n] \in Nat /\ bh2[n] = Weight(t2, n) + Short(None, z2, n, z) + bh2[t2.kid[n][z]]
  <2>1. Short(None, z2, n, z) = 0 BY <1>1 DEF Short
  <2>2. CASE n = k
    <3>1. n # b /\ t2.kid[n][z] = None BY <1>2, <2>2 DEF Leaf
    <3>2. Weight(t2, n) = 0 BY <1>2, <2>2 DEF Weight
    <3> QED BY <1>3, <1>4, <2>1, <2>2, <3>1, <3>2
  <2>3. CASE n \in M
    <3>1. Weight(t2, n) = Weight(t, n) BY <1>1, <1>2, <2>3 DEF Weight
    <3>2. bh2[t2.kid[n][z]] = bh[t.kid[n][z]]
      <4>1. CASE n = b /\ z = s BY <1>1, <1>2, <1>3, <1>4, <4>1
      <4>2. CASE ~(n = b /\ z = s)
        <5>1. t2.kid[n][z] = t.kid[n][z] BY <1>1, <1>2, <2>3, <4>2
        <5>2. t.kid[n][z] \in M \cup {None} BY <1>1, <2>3
        <5> QED BY <1>3, <5>1, <5>2
      <4> QED BY <4>1, <4>2
    <3>3. Weight(t, n) \in Nat /\ bh[t.kid[n][z]] \in Nat BY <1>1, <1>4, <2>3 DEF Weight
    <3>4. bh[n] = Weight(t, n) + bh[t.kid[n][z]] /\ bh[n] \in Nat BY <1>4, <2>3
    <3> QED BY <1>3, <2>1, <2>3, <3>1, <3>2, <3>3, <3>4
  <2> QED BY <2>2, <2>3
<1>6. Even(t2, M \cup {k}, None, z2, bh2)
  <2>1. "left" \in Side BY DEF Side
  <2> QED BY <1>3, <1>4, <1>5, <2>1 DEF Even
<1>7. Reds(t2, M \cup {k}, k, None)
  <2>1. IsRed(t2, t2.root) => t2.root = k
    <3>1. ~IsRed(t, t.root) BY DEF Reds, IsRed
    <3> QED BY <1>1, <1>2, <3>1 DEF IsRed
  <2>2. ASSUME NEW p \in M \cup {k}, NEW z \in Side, RedPair(t2, p, z)
        PROVE  t2.kid[p][z] = k
    <3> SUFFICES ASSUME t2.kid[p][z] # k PROVE FALSE OBVIOUS
    <3>1. t2.kid[p][z] = t.kid[p][z] BY <1>1, <1>2
    <3>2. p # k
      <4> SUFFICES ASSUME p = k PROVE FALSE OBVIOUS
      <4>1. t2.kid[p][z] = None BY <3>1 DEF Leaf
      <4> QED BY <2>2, <4>1 DEF RedPair, IsRed
    <3>3. p \in M /\ t.kid[p][z] \in M \cup {None} BY <1>1, <3>2
    <3>4. RedPair(t, p, z) BY <1>1, <1>2, <2>2, <3>1, <3>2, <3>3 DEF RedPair, IsRed
    <3>5. ~RedPair(t, p, z) BY <3>3 DEF Reds, RedPair, IsRed
    <3> QED BY <3>4, <3>5
  <2> QED BY <2>1, <2>2 DEF Reds
<1> QED BY <1>6, <1>7 DEF bh2

\* Between calls the tree is red-black, and the nodes it does not have are free.
LEMMA IdleIs ==
  ASSUME RBAssumption, NEW M, NEW sub, NEW bh, Sound(tree, job, M, sub, bh), Idle
  PROVE  /\ job = NoJob /\ M = {n \in Nodes : tree.color[n] # "free"}
         /\ Hangs(tree, M, sub) /\ Reds(tree, M, None, None)
         /\ \A w : Even(tree, M, None, w, bh)
         /\ \A k \in Nodes : /\ search(k) = (IF k \in M THEN k ELSE None) /\ k # None
                             /\ k \notin M => tree.color[k] = "free" /\ tree.kid[k] = Leaf
<1>1. /\ Hangs(tree, M, sub) /\ JobSound(tree, job, M) /\ M = InTree(tree, job)
      /\ FreeAreLeaves(tree) /\ Reds(tree, M, job.node, Excused(job))
      /\ Even(tree, M, ShortBelow(tree, job), SideOf(tree, job.parent, job.node), bh)
      /\ None \notin M /\ None \notin Nodes
  BY SoundFacts
<1>2. job = NoJob BY <1>1 DEF Idle, JobSound
<1>3. M = {n \in Nodes : tree.color[n] # "free"} BY <1>1, <1>2 DEF InTree, NoJob
<1>4. Reds(tree, M, None, None) BY <1>1, <1>2, NoJobSound
<1>5. Even(tree, M, None, SideOf(tree, job.parent, job.node), bh) BY <1>1, <1>2, NoJobSound
<1>6. \A w : Even(tree, M, None, w, bh) BY <1>1, <1>5, NoneShort
<1>7. \A k \in Nodes : search(k) = (IF k \in M THEN k ELSE None) BY <1>1, SearchIs
<1> QED BY <1>1, <1>2, <1>3, <1>4, <1>6, <1>7 DEF FreeAreLeaves

LEMMA AttachKeeps ==
  ASSUME RBAssumption, NEW M, NEW sub, NEW bh, Sound(tree, job, M, sub, bh), Idle,
         NEW k \in Nodes, search(k) = None, Attach(k)
  PROVE  Holds(tree', job', M \cup {k})
<1> DEFINE b == LeafFor(k)
           ta == [tree EXCEPT !.parent[k] = b]
           tb == Paint(ta, k, "red")
           tk == [tb EXCEPT !.kid[b][Toward(k, b)] = k]
           tr == [tb EXCEPT !.root = k]
           j2 == [NoJob EXCEPT !.kind = "insert", !.node = k]
           M2 == M \cup {k}
<1>1. /\ M = {n \in Nodes : tree.color[n] # "free"}
      /\ Hangs(tree, M, sub) /\ Reds(tree, M, None, None)
      /\ \A w : Even(tree, M, None, w, bh)
      /\ k \notin M /\ k # None /\ tree.color[k] = "free" /\ tree.kid[k] = Leaf
  BY IdleIs
<1>2. FreeAreLeaves(tree) /\ tree \in Trees /\ M \subseteq Nodes /\ None \notin M /\ None \notin Nodes
      /\ tree.root \in M \cup {None} /\ (M # {} => tree.root # None)
  BY SoundFacts
<1>3. tree' = (IF b = None THEN tr ELSE tk) /\ job' = j2
  <2>1. tb = [tree EXCEPT !.parent[k] = b, !.color[k] = "red"] BY DEF Paint
  <2> HIDE DEF tb
  <2> QED BY <2>1 DEF Attach
<1>4. IF tree.root = None THEN b = None ELSE Fits(M, sub, b, k) BY <1>1, LeafForIs
<1>5. b \in Links BY <1>2, <1>4 DEF Fits, Links
<1> HIDE DEF b
<1>6. /\ ta \in Trees /\ ParentsBut(ta, tree, k, b) /\ ta.root = tree.root /\ ta.kid = tree.kid
      /\ ta.color = tree.color
  BY <1>2, <1>5, ParentSet
<1> HIDE DEF ta
<1>7. /\ tb \in Trees /\ ColorsBut(tb, ta, k, "red") /\ tb.root = tree.root /\ tb.kid = tree.kid
      /\ tb.parent = ta.parent
  BY <1>6, PaintIs
<1> HIDE DEF tb
<1>8. /\ j2 \in [kind : {"none", "insert", "delete"}, node : Links, parent : Links, victim : Links]
      /\ j2.kind = "insert" /\ j2.node = k /\ j2.victim = None
      /\ Excused(j2) = None /\ \A t : ShortBelow(t, j2) = None
  BY DEF NoJob, Links, Excused, ShortBelow
<1> HIDE DEF j2
<1>9. CASE b = None
  <2>1. tree' = tr /\ tree.root = None /\ M = {} BY <1>2, <1>3, <1>4, <1>9 DEF Fits
  <2>2. /\ tr \in Trees /\ tr.root = k /\ tr.kid = tree.kid
        /\ \A n \in Nodes : /\ tr.parent[n] = IF n = k THEN None ELSE tree.parent[n]
                            /\ tr.color[n] = IF n = k THEN "red" ELSE tree.color[n]
    <3>1. tr \in Trees /\ tr.root = k /\ tr.kid = tb.kid /\ tr.parent = tb.parent /\ tr.color = tb.color
      BY <1>7 DEF Trees, Links
    <3> QED BY <1>6, <1>7, <1>9, <3>1 DEF ParentsBut, ColorsBut
  <2> HIDE DEF tr
  <2> DEFINE sub2 == [a \in {k, None} |-> IF a = k THEN {k} ELSE {}]
             bh2 == [a \in {k, None} |-> 0]
  <2>3. sub2[k] = {k} /\ sub2[None] = {} /\ bh2[k] = 0 /\ bh2[None] = 0 BY <1>1
  <2> HIDE DEF sub2, bh2
  <2>4. \A z \in Side : tr.kid[k][z] = None BY <1>1, <2>2 DEF Leaf
  <2>5. /\ IsFiniteSet({k}) /\ DOMAIN tr.kid = Nodes /\ "left" \in Side /\ "right" \in Side
        /\ Key[k] \in Int
    BY <2>2, FS_Singleton DEF Trees, Side, RBAssumption, KeyAssumption
  <2>6. Hangs(tr, {k}, sub2)
    <3>1. Spans(sub2, {k}, tr.kid, tr.root, None) BY <1>1, <2>2, <2>3, <2>4, <2>5 DEF Spans
    <3>2. SortedBy(sub2, {k}, tr.kid, Key) BY <2>3, <2>4, <2>5 DEF SortedBy
    <3>3. Linked(tr, {k}) BY <2>2, <2>4 DEF Linked
    <3> QED BY <2>2, <3>1, <3>2, <3>3 DEF Hangs
  <2>7. Even(tr, {k}, None, SideOf(tr, j2.parent, j2.node), bh2)
    <3>1. Weight(tr, k) = 0 /\ \A z, w : Short(None, w, k, z) = 0 BY <1>1, <2>2 DEF Weight, Short
    <3> QED BY <2>3, <2>4, <3>1 DEF Even
  <2>8. Reds(tr, {k}, k, None) BY <2>2, <2>4 DEF Reds, RedPair, IsRed
  <2>9. {k} = InTree(tr, j2) BY <1>1, <1>2, <1>8, <2>1, <2>2 DEF InTree
  <2>10. FreeAreLeaves(tr) BY <1>2, <2>2 DEF FreeAreLeaves
  <2>11. JobSound(tr, j2, {k}) BY <1>8, <2>2 DEF JobSound
  <2>12. Sound(tr, j2, {k}, sub2, bh2)
    BY <1>8, <2>6, <2>7, <2>8, <2>9, <2>10, <2>11 DEF Sound
  <2> QED BY <1>3, <2>1, <2>12 DEF Holds
<1>10. CASE b # None
  <2> DEFINE s == Toward(k, b)
             sub2 == Hung(sub, M, None, b, k)
             bh2 == [a \in M \cup {k, None} |-> IF a = k THEN 0 ELSE bh[a]]
  <2>1. tree' = tk /\ Fits(M, sub, b, k) BY <1>3, <1>4, <1>10
  <2>2. b \in M /\ tree.kid[b][s] = None BY <2>1 DEF Fits
  <2>3. s \in Side BY DEF Toward, Side
  <2> HIDE DEF s
  <2>4. Grows(tree, tk, b, s, k)
    <3>1. b \in Nodes /\ k \in Links BY <1>2, <2>2 DEF Links
    <3>2. /\ tk \in Trees /\ KidsBut(tk, tb, b, s, k) /\ tk.root = tb.root
          /\ tk.parent = tb.parent /\ tk.color = tb.color
      BY <1>7, <2>3, <3>1, KidSet DEF s
    <3> HIDE DEF tk
    <3> QED BY <1>6, <1>7, <3>2 DEF Grows, KidsBut, ParentsBut, ColorsBut
  <2> HIDE DEF tk
  <2>5. Hangs(tk, M2, sub2) BY <1>1, <2>1, <2>4, HangsWhenGrown DEF s
  <2>6. /\ Even(tk, M2, None, SideOf(tk, j2.parent, j2.node), bh2)
        /\ Reds(tk, M2, k, None)
    BY <1>1, <2>2, <2>3, <2>4, EvenWhenGrown
  <2>7. tk \in Trees /\ \A n \in Nodes : /\ tk.color[n] = IF n = k THEN "red" ELSE tree.color[n]
                                         /\ n # b => tk.kid[n] = tree.kid[n]
    <3>1. tk \in Trees /\ \A n \in Nodes : tk.color[n] = IF n = k THEN "red" ELSE tree.color[n]
      BY <2>4 DEF Grows, ColorsBut
    <3>2. ASSUME NEW n \in Nodes, n # b PROVE tk.kid[n] = tree.kid[n]
      <4>1. tk.kid[n] \in [Side -> Links] /\ tree.kid[n] \in [Side -> Links]
        BY <1>2, <3>1 DEF Trees
      <4>2. \A z \in Side : tk.kid[n][z] = tree.kid[n][z] BY <2>4, <3>2 DEF Grows, KidsBut
      <4> QED BY <4>1, <4>2
    <3> QED BY <3>1, <3>2
  <2>8. M2 = InTree(tk, j2) BY <1>1, <1>2, <1>8, <2>7 DEF InTree
  <2>9. FreeAreLeaves(tk) BY <1>1, <1>2, <2>2, <2>7 DEF FreeAreLeaves
  <2>10. JobSound(tk, j2, M2) BY <1>8, <2>7 DEF JobSound
  <2>11. Sound(tk, j2, M2, sub2, bh2) BY <1>8, <2>5, <2>6, <2>8, <2>9, <2>10 DEF Sound
  <2> QED BY <1>3, <2>1, <2>11 DEF Holds
<1> QED BY <1>9, <1>10
-----------------------------------------------------------------------------
(* Deleting. *)

\* t2 is t where what pointed at c points at m, its one child if it has one.
Cuts(t, t2, M, c, m) ==
    /\ t2 \in Trees /\ t2.color = t.color
    /\ t2.root = (IF t.root = c THEN m ELSE t.root)
    /\ \A p \in M \ {c}, z \in Side : t2.kid[p][z] = IF t.kid[p][z] = c THEN m ELSE t.kid[p][z]
    /\ \A a \in Nodes : t2.parent[a] = IF a = m THEN t.parent[c] ELSE t.parent[a]
    /\ \A a \in Nodes \ M : t2.kid[a] = t.kid[a]

OneChild(t, M, c, s) == c \in M /\ s \in Side /\ t.kid[c][Other(s)] = None

LEMMA CutIs ==
  ASSUME RBAssumption, NEW t, NEW M, NEW sub, Hangs(t, M, sub), NEW c, NEW s, OneChild(t, M, c, s),
         NEW m, m = t.kid[c][s], NEW p, p = t.parent[c]
  PROVE  /\ Cuts(t, Replace(SetParent(t, m, p), p, c, m), M, c, m)
         /\ Hangs(Replace(SetParent(t, m, p), p, c, m), M \ {c}, CutOut(sub, M, None, c))
<1> DEFINE t1 == SetParent(t, m, p)
           t2 == Replace(t1, p, c, m)
           sub2 == CutOut(sub, M, None, c)
           o == Other(s)
<1>1. /\ M \subseteq Nodes /\ None \notin M /\ None \notin Nodes /\ t.root \in M \cup {None}
      /\ Spans(sub, M, t.kid, t.root, None) /\ SortedBy(sub, M, t.kid, Key) /\ Linked(t, M)
      /\ Distinct(Key, M) /\ t.kid \in [Nodes -> [Side -> Links]]
      /\ \A a \in M, z \in Side : t.kid[a][z] \in M \cup {None}
  BY TreeFacts
<1>2. /\ c \in M /\ s \in Side /\ t.kid[c][o] = None /\ o \in Side /\ o # s
      /\ \A z \in Side : z = s \/ z = o
  BY Others DEF OneChild
<1>3. m \in M \cup {None} /\ m # c /\ (m # None => m # t.root)
  <2>1. m \in M \cup {None} BY <1>1, <1>2
  <2>2. m # None => t.kid[c][s] # c /\ t.kid[c][s] # t.root BY <1>2, ChildIs
  <2> QED BY <1>1, <1>2, <2>1, <2>2
<1>4. /\ \/ p = None /\ c = t.root
         \/ p \in M /\ c # t.root /\ t.kid[p][SideOf(t, p, c)] = c /\ SideOf(t, p, c) \in Side
      /\ \A a \in M, z \in Side : t.kid[a][z] = c =>
            c # t.root /\ a = p /\ z = SideOf(t, p, c)
  <2>0. c # None BY <1>1, <1>2
  <2>1. CASE c = t.root
    <3>1. p = None BY <1>1, <2>0, <2>1 DEF Linked
    <3>2. \A a \in M, z \in Side : t.kid[a][z] # c
      <4> SUFFICES ASSUME NEW a \in M, NEW z \in Side, t.kid[a][z] = c PROVE FALSE OBVIOUS
      <4>1. t.kid[a][z] # None BY <2>0
      <4> QED BY <2>1, <4>1, ChildIs
    <3> QED BY <2>1, <3>1, <3>2
  <2>2. CASE c # t.root
    <3>1. p \in M /\ \E z \in Side : t.kid[p][z] = c BY <1>2, <2>2, ParentIs
    <3>2. t.kid[p][SideOf(t, p, c)] = c /\ SideOf(t, p, c) \in Side BY <3>1 DEF SideOf, Side
    <3>3. t.kid[p][SideOf(t, p, c)] # None BY <2>0, <3>2
    <3>4. \A a \in M, z \in Side : t.kid[a][z] = t.kid[p][SideOf(t, p, c)] =>
             a = p /\ z = SideOf(t, p, c)
      BY <3>1, <3>2, <3>3, ChildIs
    <3> QED BY <2>2, <3>1, <3>2, <3>4
  <2> QED BY <2>1, <2>2
<1>5. p \in Links /\ m \in Links /\ t \in Trees BY <1>1, <1>3, <1>4 DEF Links, Hangs
<1>6. /\ t1 \in Trees /\ ParentsBut(t1, t, m, p) /\ t1.root = t.root /\ t1.kid = t.kid
      /\ t1.color = t.color
  BY <1>5, SetParentIs
<1>7. SideOf(t1, p, c) = SideOf(t, p, c) BY <1>6 DEF SideOf
<1> HIDE DEF t1
<1>8. /\ t2 \in Trees /\ KidsBut(t2, t1, p, SideOf(t1, p, c), m)
      /\ t2.root = (IF p = None THEN m ELSE t1.root)
      /\ t2.parent = t1.parent /\ t2.color = t1.color
  BY <1>5, <1>6, ReplaceIs
<1> HIDE DEF t2, sub2, o
<1>9. \A a \in Nodes, z \in Side :
         t2.kid[a][z] = IF a = p /\ z = SideOf(t, p, c) THEN m ELSE t.kid[a][z]
  BY <1>6, <1>7, <1>8 DEF KidsBut
<1>10. t2.root = IF t.root = c THEN m ELSE t.root BY <1>1, <1>4, <1>6, <1>8
<1>11. \A a \in M \ {c}, z \in Side :
          t2.kid[a][z] = IF t.kid[a][z] = c THEN m ELSE t.kid[a][z]
  <2> SUFFICES ASSUME NEW a \in M \ {c}, NEW z \in Side
               PROVE t2.kid[a][z] = IF t.kid[a][z] = c THEN m ELSE t.kid[a][z]
    OBVIOUS
  <2>1. t2.kid[a][z] = IF a = p /\ z = SideOf(t, p, c) THEN m ELSE t.kid[a][z] BY <1>1, <1>9
  <2>2. (a = p /\ z = SideOf(t, p, c)) <=> t.kid[a][z] = c BY <1>1, <1>4
  <2> QED BY <2>1, <2>2
<1>12. \A a \in Nodes : t2.parent[a] = IF a = m THEN p ELSE t.parent[a]
  BY <1>6, <1>8 DEF ParentsBut
<1>13. \A a \in Nodes \ M : t2.kid[a] = t.kid[a]
  <2> SUFFICES ASSUME NEW a \in Nodes \ M PROVE t2.kid[a] = t.kid[a] OBVIOUS
  <2>1. t2.kid[a] \in [Side -> Links] /\ t.kid[a] \in [Side -> Links] BY <1>5, <1>8 DEF Trees
  <2>2. a # p BY <1>1, <1>4
  <2>3. \A z \in Side : t2.kid[a][z] = t.kid[a][z] BY <1>9, <2>2
  <2> QED BY <2>1, <2>3
<1>14. Cuts(t, t2, M, c, m) BY <1>6, <1>8, <1>10, <1>11, <1>12, <1>13 DEF Cuts
<1>15. IsCutFrom(M, t.kid, None, c, s, t2.kid)
  <2>1. DOMAIN t2.kid = DOMAIN t.kid BY <1>5, <1>8 DEF Trees
  <2>2. \A z \in Side : z # s => t.kid[c][z] = None BY <1>2
  <2> QED BY <1>2, <1>11, <2>1, <2>2 DEF IsCutFrom
<1>16. /\ Spans(sub2, M \ {c}, t2.kid, t2.root, None)
       /\ Drops(sub2, sub, M \ {c}, t.kid, t2.kid, c)
  <2>1. /\ Spans(sub2, M \ {c}, t2.kid, IF t.root = c THEN t.kid[c][s] ELSE t.root, None)
        /\ Drops(sub2, sub, M \ {c}, t.kid, t2.kid, c)
    BY <1>1, <1>15, NodeCut DEF sub2
  <2>2. t2.root = IF t.root = c THEN t.kid[c][s] ELSE t.root BY <1>10
  <2> QED BY <2>1, <2>2
<1>17. SortedBy(sub2, M \ {c}, t2.kid, Key)
  <2>1. \A a \in M \ {c}, z \in Side : sub2[t2.kid[a][z]] = sub[t.kid[a][z]] \ {c}
    BY <1>16 DEF Drops
  <2>2. \A a \in M \ {c} : \A z \in Side : sub2[t2.kid[a][z]] \subseteq sub[t.kid[a][z]]
    BY <2>1
  <2>3. SortedBy(sub, M, t.kid, Key) BY <1>1
  <2> HIDE DEF Hangs, OneChild
  <2> QED BY <2>2, <2>3 DEF SortedBy, Side
<1>18. Linked(t2, M \ {c})
  <2>1. t2.root # None => t2.parent[t2.root] = None
    <3>1. CASE t.root = c
      <4>1. t2.root = m /\ p = None BY <1>4, <1>10, <3>1
      <4> QED BY <1>1, <1>3, <1>12, <4>1
    <3>2. CASE t.root # c
      <4>1. t2.root = t.root BY <1>10, <3>2
      <4> QED BY <1>1, <1>3, <1>12, <4>1 DEF Linked
    <3> QED BY <3>1, <3>2
  <2>2. ASSUME NEW a \in M \ {c}, NEW z \in Side, t2.kid[a][z] # None
        PROVE  t2.parent[t2.kid[a][z]] = a
    <3>1. CASE t.kid[a][z] = c
      <4>1. t2.kid[a][z] = m /\ a = p BY <1>4, <1>11, <3>1
      <4> QED BY <1>1, <1>3, <1>12, <2>2, <4>1
    <3>2. CASE t.kid[a][z] # c
      <4>1. t2.kid[a][z] = t.kid[a][z] BY <1>11, <3>2
      <4>2. t.kid[a][z] \in M /\ t.parent[t.kid[a][z]] = a BY <1>1, <2>2, <4>1 DEF Linked
      <4>3. t.kid[a][z] # m
        <5> SUFFICES ASSUME t.kid[a][z] = m PROVE FALSE OBVIOUS
        <5>1. t.kid[c][s] # None BY <1>1, <4>2
        <5>2. a = c BY <1>2, <5>1, ChildIs
        <5> QED BY <5>2
      <4> QED BY <1>1, <1>12, <4>1, <4>2, <4>3
    <3> QED BY <3>1, <3>2
  <2> QED BY <2>1, <2>2 DEF Linked
<1>19. Hangs(t2, M \ {c}, sub2) BY <1>1, <1>8, <1>16, <1>17, <1>18 DEF Hangs
<1> QED BY <1>14, <1>19 DEF t2, t1, sub2

\* What is left of a tree of which a node of color c was taken from above m, below p: it is
\* red-black, or short of a black node on the paths through m.
Spliceable(t, M, sub, bh, c, m, p) ==
    /\ Hangs(t, M, sub) /\ m \in M \cup {None} /\ p \in Links
    /\ c # "black" => (\A w : Even(t, M, None, w, bh)) /\ Reds(t, M, None, None)
    /\ c = "black" =>
          /\ Reds(t, M, m, m)
          /\ \/ m = t.root /\ \A w : Even(t, M, None, w, bh)
             \/ /\ m # t.root /\ p \in M
                /\ \E z \in Side : /\ t.kid[p][z] = m /\ t.kid[p][Other(z)] # None
                                   /\ Even(t, M, p, z, bh)

LEMMA SplicedHolds ==
  ASSUME RBAssumption, NEW t, NEW M, NEW sub, NEW bh, NEW c, NEW m, NEW p,
         Spliceable(t, M, sub, bh, c, m, p), NEW n \in Nodes, n \notin M,
         M = {a \in Nodes : t.color[a] # "free"} \ {n}, FreeAreLeaves(t),
         job = NoJob, Spliced(t, c, m, p, n)
  PROVE  Holds(tree', job', M)
<1>1. Hangs(t, M, sub) /\ m \in M \cup {None} /\ p \in Links BY DEF Spliceable
<1>2. None \notin M /\ M \subseteq Nodes /\ None \notin Nodes BY <1>1, TreeFacts
<1>3. CASE c # "black"
  <2>1. Even(t, M, None, "left", bh) /\ Reds(t, M, None, None) BY <1>3 DEF Spliceable
  <2>2. tree' = Freed(t, n) /\ job' = NoJob BY <1>3 DEF Spliced, NeedsFixup
  <2>3. Sound(Freed(t, n), NoJob, M, sub, bh) BY <1>1, <2>1, VictimFreed
  <2> QED BY <2>2, <2>3 DEF Holds
<1>4. CASE c = "black"
  <2> DEFINE j2 == [kind |-> "delete", node |-> m, parent |-> p, victim |-> n]
  <2>1. tree' = t /\ job' = j2 BY <1>4 DEF Spliced, NeedsFixup
  <2>2. /\ j2.kind = "delete" /\ j2.node = m /\ j2.parent = p /\ j2.victim = n
        /\ j2 \in [kind : {"none", "insert", "delete"}, node : Links, parent : Links, victim : Links]
    BY <1>1, <1>2 DEF Links
  <2> HIDE DEF j2
  <2>3. M = InTree(t, j2) /\ Excused(j2) = m BY <2>2 DEF InTree, Excused
  <2>4. Reds(t, M, m, m) BY <1>4 DEF Spliceable
  <2>5. CASE m = t.root /\ \A w : Even(t, M, None, w, bh)
    <3>1. ShortBelow(t, j2) = None BY <2>2, <2>5 DEF ShortBelow
    <3>2. JobSound(t, j2, M) BY <1>1, <2>2, <2>5 DEF JobSound
    <3>3. Sound(t, j2, M, sub, bh) BY <1>1, <2>2, <2>3, <2>4, <2>5, <3>1, <3>2 DEF Sound
    <3> QED BY <2>1, <3>3 DEF Holds
  <2>6. CASE /\ m # t.root /\ p \in M
             /\ \E z \in Side : /\ t.kid[p][z] = m /\ t.kid[p][Other(z)] # None
                                /\ Even(t, M, p, z, bh)
    <3>1. PICK z \in Side : /\ t.kid[p][z] = m /\ t.kid[p][Other(z)] # None
                            /\ Even(t, M, p, z, bh)
      BY <2>6
    <3>2. ShortBelow(t, j2) = p BY <2>2, <2>6 DEF ShortBelow
    <3>3. SideOf(t, p, t.kid[p][z]) = z BY <1>1, <2>6, <3>1, SideOfIs
    <3>4. JobSound(t, j2, M) BY <1>1, <2>2, <2>6, <3>1 DEF JobSound
    <3>5. Even(t, M, ShortBelow(t, j2), SideOf(t, j2.parent, j2.node), bh)
      BY <2>2, <3>1, <3>2, <3>3
    <3>6. Sound(t, j2, M, sub, bh) BY <1>1, <2>2, <2>3, <2>4, <3>4, <3>5 DEF Sound
    <3> QED BY <2>1, <3>6 DEF Holds
  <2> QED BY <1>4, <2>5, <2>6 DEF Spliceable
<1> QED BY <1>3, <1>4

\* Cutting a node out of a red-black tree.
LEMMA CutSpliceable ==
  ASSUME RBAssumption, NEW t, NEW M, NEW sub, Hangs(t, M, sub), NEW bh,
         \A w : Even(t, M, None, w, bh), Reds(t, M, None, None), NEW c, NEW s, OneChild(t, M, c, s),
         NEW m, m = t.kid[c][s], NEW p, p = t.parent[c], t.color[c] # "free",
         NEW t2, Cuts(t, t2, M, c, m), NEW sub2, Hangs(t2, M \ {c}, sub2)
  PROVE  Spliceable(t2, M \ {c}, sub2, bh, t.color[c], m, p)
<1> DEFINE M2 == M \ {c}
<1>1. /\ M \subseteq Nodes /\ None \notin M /\ None \notin Nodes /\ t.root \in M \cup {None}
      /\ Linked(t, M) /\ t \in Trees
      /\ \A a \in M, z \in Side : t.kid[a][z] \in M \cup {None}
  BY TreeFacts DEF Hangs
<1>2. /\ c \in M /\ s \in Side /\ t.kid[c][Other(s)] = None /\ Other(s) \in Side /\ Other(s) # s
      /\ \A z \in Side : z = s \/ z = Other(s)
  BY Others DEF OneChild
<1>3. m \in M2 \cup {None} /\ (m # None => m # t.root)
  <2>1. m \in M \cup {None} BY <1>1, <1>2
  <2>2. m # None => t.kid[c][s] # c /\ t.kid[c][s] # t.root BY <1>2, ChildIs
  <2> QED BY <1>1, <1>2, <2>1, <2>2
<1>4. /\ t2.color = t.color /\ t2.root = (IF t.root = c THEN m ELSE t.root)
      /\ \A a \in M2, z \in Side : t2.kid[a][z] = IF t.kid[a][z] = c THEN m ELSE t.kid[a][z]
  BY DEF Cuts
<1>5. /\ bh[None] = 0
      /\ \A a \in M : bh[a] \in Nat /\ \A z \in Side : bh[a] = Weight(t, a) + bh[t.kid[a][z]]
  <2>1. \A a \in M, z \in Side : Short(None, "left", a, z) = 0 BY <1>1 DEF Short
  <2>2. Even(t, M, None, "left", bh) OBVIOUS
  <2>3. bh[None] = 0 /\ \A a \in M : bh[a] \in Nat BY <2>2 DEF Even
  <2>4. ASSUME NEW a \in M, NEW z \in Side PROVE bh[a] = Weight(t, a) + bh[t.kid[a][z]]
    <3>1. bh[a] = Weight(t, a) + Short(None, "left", a, z) + bh[t.kid[a][z]] BY <2>2 DEF Even
    <3>2. Weight(t, a) \in Nat /\ bh[t.kid[a][z]] \in Nat BY <1>1, <2>3 DEF Weight
    <3> QED BY <2>1, <3>1, <3>2
  <2> QED BY <2>3, <2>4
<1>6. bh[c] = Weight(t, c) + bh[m] /\ bh[m] \in Nat /\ \A a \in M2 : Weight(t2, a) = Weight(t, a)
  <2>1. bh[m] \in Nat BY <1>3, <1>5
  <2> QED BY <1>2, <1>4, <1>5, <2>1 DEF Weight
<1>7. \A a \in M2, z \in Side : t2.kid[a][z] = t.kid[a][z] \/ (t.kid[a][z] = c /\ t2.kid[a][z] = m)
  BY <1>4
<1>8. t.color[c] \in {"red", "black"} BY <1>1, <1>2, FieldsOf
<1>9. ~IsRed(t, t.root) /\ \A a \in M, z \in Side : ~RedPair(t, a, z)
  BY <1>1 DEF Reds, RedPair, IsRed
<1>10. c = t.root \/ (c # t.root /\ p \in M /\ \E z \in Side : t.kid[p][z] = c)
  BY <1>2, ParentIs
<1>11. p \in Links
  <2>1. c \in Nodes BY <1>1, <1>2
  <2> QED BY <1>1, <2>1, FieldsOf
\* A red pair of the new tree is at m.
<1>12. Reds(t2, M2, m, m)
  <2>1. IsRed(t2, t2.root) => t2.root = m BY <1>4, <1>9 DEF IsRed
  <2>2. ASSUME NEW a \in M2, NEW z \in Side, RedPair(t2, a, z) PROVE t2.kid[a][z] = m
    <3> SUFFICES ASSUME t2.kid[a][z] # m PROVE FALSE OBVIOUS
    <3>1. t2.kid[a][z] = t.kid[a][z] BY <1>7
    <3>2. RedPair(t, a, z) BY <1>4, <2>2, <3>1 DEF RedPair, IsRed
    <3> QED BY <1>9, <3>2
  <2> QED BY <2>1, <2>2 DEF Reds
<1>13. CASE t.color[c] # "black"
  <2>1. t.color[c] = "red" /\ bh[c] = bh[m] BY <1>6, <1>8, <1>13 DEF Weight
  <2>2. c # None BY <1>1, <1>2
  <2>3. ASSUME NEW w PROVE Even(t2, M2, None, w, bh)
    <3>1. \A a \in M2, z \in Side : Short(None, w, a, z) = 0 BY <1>1 DEF Short
    <3>2. \A a \in M2, z \in Side : bh[t2.kid[a][z]] = bh[t.kid[a][z]] BY <1>7, <2>1
    <3>3. \A a \in M2, z \in Side : bh[a] = Weight(t2, a) + Short(None, w, a, z) + bh[t2.kid[a][z]]
      <4> SUFFICES ASSUME NEW a \in M2, NEW z \in Side
                   PROVE bh[a] = Weight(t2, a) + Short(None, w, a, z) + bh[t2.kid[a][z]]
        OBVIOUS
      <4>1. bh[a] = Weight(t, a) + bh[t.kid[a][z]] BY <1>5
      <4>2. Weight(t, a) \in Nat /\ bh[t.kid[a][z]] \in Nat BY <1>1, <1>5 DEF Weight
      <4> QED BY <1>6, <3>1, <3>2, <4>1, <4>2
    <3> QED BY <1>5, <3>3 DEF Even
  <2>4. ~IsRed(t, m)
    <3>1. ~RedPair(t, c, s) BY <1>2, <1>9
    <3> QED BY <2>1, <2>2, <3>1 DEF RedPair, IsRed
  <2>5. ~IsRed(t2, m) BY <1>4, <2>4 DEF IsRed
  <2>6. Reds(t2, M2, None, None) BY <1>12, <2>5 DEF Reds, RedPair
  <2> QED BY <1>3, <1>11, <1>13, <2>3, <2>6 DEF Spliceable
<1>14. CASE t.color[c] = "black"
  <2>1. bh[c] = 1 + bh[m] BY <1>6, <1>14 DEF Weight
  <2>2. CASE c = t.root
    <3>1. m = t2.root BY <1>4, <2>2
    <3>2. \A a \in M2, z \in Side : t2.kid[a][z] = t.kid[a][z]
      <4> SUFFICES ASSUME NEW a \in M2, NEW z \in Side, t.kid[a][z] = c PROVE FALSE BY <1>7
      <4>1. t.kid[a][z] # None BY <1>1, <1>2
      <4> QED BY <2>2, <4>1, ChildIs
    <3>3. ASSUME NEW w PROVE Even(t2, M2, None, w, bh)
      <4>1. \A a \in M2, z \in Side : Short(None, w, a, z) = 0 BY <1>1 DEF Short
      <4>2. \A a \in M2, z \in Side : bh[a] = Weight(t2, a) + Short(None, w, a, z) + bh[t2.kid[a][z]]
        <5> SUFFICES ASSUME NEW a \in M2, NEW z \in Side
                     PROVE bh[a] = Weight(t2, a) + Short(None, w, a, z) + bh[t2.kid[a][z]]
          OBVIOUS
        <5>1. bh[a] = Weight(t, a) + bh[t.kid[a][z]] BY <1>5
        <5>2. Weight(t, a) \in Nat /\ bh[t.kid[a][z]] \in Nat BY <1>1, <1>5 DEF Weight
        <5> QED BY <1>6, <3>2, <4>1, <5>1, <5>2
      <4> QED BY <1>5, <4>2 DEF Even
    <3> QED BY <1>3, <1>11, <1>12, <1>14, <3>1, <3>3 DEF Spliceable
  <2>3. CASE c # t.root
    <3>1. p \in M /\ c # None BY <1>1, <1>2, <1>10, <2>3
    <3>2. PICK z \in Side : t.kid[p][z] = c BY <1>10, <2>3
    <3>3. c # p /\ \A a \in M, w \in Side : t.kid[a][w] = c => a = p /\ w = z
      <4>1. t.kid[p][z] # None BY <3>1, <3>2
      <4>2. t.kid[p][z] # p /\ \A a \in M, w \in Side : t.kid[a][w] = t.kid[p][z] => a = p /\ w = z
        BY <3>1, <4>1, ChildIs
      <4> QED BY <3>2, <4>2
    <3>4. p \in M2 /\ m # t2.root
      <4>1. t2.root = t.root /\ t.root # None BY <1>1, <1>2, <1>4, <2>3, TreeFacts
      <4> QED BY <1>3, <3>1, <3>3, <4>1
    <3>5. Other(z) \in Side /\ Other(z) # z BY Others
    <3>6. t2.kid[p][z] = m /\ t2.kid[p][Other(z)] = t.kid[p][Other(z)]
      BY <1>4, <3>2, <3>3, <3>4, <3>5
    <3>7. t.kid[p][Other(z)] # None
      <4> SUFFICES ASSUME t.kid[p][Other(z)] = None PROVE FALSE OBVIOUS
      <4>1. bh[p] = Weight(t, p) + bh[c] /\ bh[p] = Weight(t, p) + 0 /\ Weight(t, p) \in Nat
        BY <1>5, <3>1, <3>2, <3>5 DEF Weight
      <4> QED BY <1>6, <2>1, <4>1
    <3>8. ASSUME NEW a \in M2, NEW w \in Side
          PROVE  bh[a] = Weight(t2, a) + Short(p, z, a, w) + bh[t2.kid[a][w]]
      <4>1. bh[a] = Weight(t, a) + bh[t.kid[a][w]] BY <1>5
      <4>2. Weight(t, a) \in Nat /\ bh[t.kid[a][w]] \in Nat BY <1>1, <1>5 DEF Weight
      <4>3. CASE a = p /\ w = z
        <5>1. Short(p, z, a, w) = 1 /\ t2.kid[a][w] = m /\ t.kid[a][w] = c
          BY <3>2, <3>6, <4>3 DEF Short
        <5> QED BY <1>6, <2>1, <4>1, <4>2, <5>1
      <4>4. CASE ~(a = p /\ w = z)
        <5>1. Short(p, z, a, w) = 0 /\ t2.kid[a][w] = t.kid[a][w]
          BY <1>7, <3>3, <4>4 DEF Short
        <5> QED BY <1>6, <4>1, <4>2, <5>1
      <4> QED BY <4>3, <4>4
    <3>9. Even(t2, M2, p, z, bh) BY <1>5, <3>8 DEF Even
    <3> QED BY <1>3, <1>11, <1>12, <1>14, <3>4, <3>6, <3>7, <3>9 DEF Spliceable
  <2> QED BY <2>2, <2>3
<1> QED BY <1>13, <1>14

\* Node r, next to n in the order, takes the place of n: its links and its color.
TakesOver(t, t2, M, n, r) ==
    /\ n \in M /\ r \in Nodes /\ r \notin M /\ t2 \in Trees
    /\ t2.root = (IF t.root = n THEN r ELSE t.root)
    /\ \A a \in M \ {n}, z \in Side : t2.kid[a][z] = IF t.kid[a][z] = n THEN r ELSE t.kid[a][z]
    /\ \A z \in Side : t2.kid[r][z] = t.kid[n][z]
    /\ t2.parent[r] = t.parent[n]
    /\ \A a \in M \ {n} : t2.parent[a] = IF t.parent[a] = n THEN r ELSE t.parent[a]
    /\ t2.color[r] = t.color[n] /\ \A a \in M \ {n} : t2.color[a] = t.color[a]
    /\ \A a \in M \ {n}, z \in Side : /\ Beyond(Key, z, n, a) => Beyond(Key, z, r, a)
                                      /\ Beyond(Key, z, a, n) => Beyond(Key, z, a, r)

LEMMA HangsWhenTaken ==
  ASSUME RBAssumption, NEW t, NEW M, NEW sub, Hangs(t, M, sub), NEW n, NEW r,
         NEW t2, TakesOver(t, t2, M, n, r)
  PROVE  Hangs(t2, (M \ {n}) \cup {r}, InPlace(sub, M, None, n, r))
<1> DEFINE M2 == (M \ {n}) \cup {r}
           sub2 == InPlace(sub, M, None, n, r)
<1>1. /\ M \subseteq Nodes /\ None \notin M /\ None \notin Nodes /\ t.root \in M \cup {None}
      /\ Spans(sub, M, t.kid, t.root, None) /\ SortedBy(sub, M, t.kid, Key) /\ Linked(t, M)
      /\ Distinct(Key, Nodes) /\ Distinct(Key, M) /\ t.kid \in [Nodes -> [Side -> Links]]
      /\ \A a \in M, z \in Side : t.kid[a][z] \in M \cup {None}
  BY TreeFacts
<1>2. /\ n \in M /\ r \in Nodes /\ r \notin M /\ t2 \in Trees
      /\ t2.root = (IF t.root = n THEN r ELSE t.root)
      /\ \A a \in M \ {n}, z \in Side : t2.kid[a][z] = IF t.kid[a][z] = n THEN r ELSE t.kid[a][z]
      /\ \A z \in Side : t2.kid[r][z] = t.kid[n][z]
      /\ t2.parent[r] = t.parent[n]
      /\ \A a \in M \ {n} : t2.parent[a] = IF t.parent[a] = n THEN r ELSE t.parent[a]
      /\ \A a \in M \ {n}, z \in Side : /\ Beyond(Key, z, n, a) => Beyond(Key, z, r, a)
                                        /\ Beyond(Key, z, a, n) => Beyond(Key, z, a, r)
  BY DEF TakesOver
<1> HIDE DEF sub2
<1>3. DOMAIN t2.kid = Nodes /\ DOMAIN t.kid = Nodes BY <1>1, <1>2 DEF Trees
<1>4. TakesPlace(M, t.kid, None, n, r, t2.kid) BY <1>1, <1>2, <1>3 DEF TakesPlace
<1>5. /\ Spans(sub2, M2, t2.kid, t2.root, None)
      /\ Renames(sub2, sub, M, t.kid, t2.kid, n, r)
  <2>1. /\ Spans(sub2, M2, t2.kid, IF t.root = n THEN r ELSE t.root, None)
        /\ Renames(sub2, sub, M, t.kid, t2.kid, n, r)
    BY <1>1, <1>4, PlaceTaken DEF sub2
  <2> QED BY <1>2, <2>1
<1>6. SortedBy(sub2, M2, t2.kid, Key)
  <2>1. Distinct(Key, M2) BY <1>1, <1>2 DEF Distinct
  <2>2. \A p \in M, z \in Side : \A a \in sub[t.kid[p][z]] : Beyond(Key, z, p, a)
    BY <1>1, SidesDiffer
  <2>3. \A p \in M, z \in Side : \A a \in sub[t.kid[p][z]] : a \in M /\ a # p
    BY <1>1, Splits
  <2>4. ASSUME NEW p \in M2, NEW z \in Side, NEW a \in sub2[t2.kid[p][z]]
        PROVE  Beyond(Key, z, p, a)
    <3>1. CASE p = r
      <4>1. sub2[t2.kid[r][z]] = sub[t.kid[n][z]] BY <1>5 DEF Renames
      <4>2. Beyond(Key, z, n, a) /\ a \in M \ {n} BY <1>2, <2>2, <2>3, <2>4, <3>1, <4>1
      <4> QED BY <1>2, <3>1, <4>2
    <3>2. CASE p # r
      <4>0. p \in M \ {n} BY <3>2
      <4>1. sub2[t2.kid[p][z]] = Instead(sub[t.kid[p][z]], n, r) BY <1>5, <4>0 DEF Renames
      <4>2. (a = r /\ n \in sub[t.kid[p][z]]) \/ a \in sub[t.kid[p][z]] BY <2>4, <4>1 DEF Instead
      <4>3. CASE a \in sub[t.kid[p][z]] BY <2>2, <4>0, <4>3
      <4>4. CASE a = r /\ n \in sub[t.kid[p][z]]
        <5>1. Beyond(Key, z, p, n) BY <2>2, <4>0, <4>4
        <5> QED BY <1>2, <4>0, <4>4, <5>1
      <4> QED BY <4>2, <4>3, <4>4
    <3> QED BY <3>1, <3>2
  <2> QED BY <1>5, <2>1, <2>4, SidesDiffer
<1>7. Linked(t2, M2)
  <2>1. t2.root # None => t2.parent[t2.root] = None
    <3>1. CASE t.root = n BY <1>1, <1>2, <3>1 DEF Linked
    <3>2. CASE t.root # n BY <1>1, <1>2, <3>2 DEF Linked
    <3> QED BY <3>1, <3>2
  <2>2. ASSUME NEW a \in M2, NEW z \in Side, t2.kid[a][z] # None
        PROVE  t2.parent[t2.kid[a][z]] = a
    <3>1. CASE a = r
      <4>1. t2.kid[a][z] = t.kid[n][z] /\ t.kid[n][z] # None BY <1>2, <2>2, <3>1
      <4>2. t.kid[n][z] \in M /\ t.kid[n][z] # n /\ t.parent[t.kid[n][z]] = n
        BY <1>2, <4>1, ChildIs
      <4> QED BY <1>2, <3>1, <4>1, <4>2
    <3>2. CASE a # r
      <4>0. a \in M \ {n} BY <3>2
      <4>1. CASE t.kid[a][z] = n
        <5>1. t2.kid[a][z] = r /\ t.kid[a][z] # None BY <1>1, <1>2, <4>0, <4>1
        <5>2. t.parent[n] = a BY <1>1, <4>0, <4>1, <5>1 DEF Linked
        <5> QED BY <1>2, <5>1, <5>2
      <4>2. CASE t.kid[a][z] # n
        <5>1. t2.kid[a][z] = t.kid[a][z] BY <1>2, <4>0, <4>2
        <5>2. t.kid[a][z] \in M \ {n} /\ t.parent[t.kid[a][z]] = a
          BY <1>1, <2>2, <4>0, <4>2, <5>1 DEF Linked
        <5> QED BY <1>2, <4>0, <5>1, <5>2
      <4> QED BY <4>1, <4>2
    <3> QED BY <3>1, <3>2
  <2> QED BY <2>1, <2>2 DEF Linked
<1> QED BY <1>1, <1>2, <1>5, <1>6, <1>7 DEF Hangs, sub2

\* The counts go with the place, and so does where the short paths are.
EvenTaken(t2, M, n, r, q, z, bh) ==
    Even(t2, (M \ {n}) \cup {r}, IF q = n THEN r ELSE q, z,
         [a \in M \cup {None, r} |-> IF a = r THEN bh[n] ELSE bh[a]])

LEMMA EvenWhenTaken ==
  ASSUME RBAssumption, NEW t, NEW M, NEW sub, Hangs(t, M, sub), NEW n, NEW r,
         NEW t2, TakesOver(t, t2, M, n, r), NEW bh, NEW q, NEW z, q # r, Even(t, M, q, z, bh)
  PROVE  EvenTaken(t2, M, n, r, q, z, bh)
<1> DEFINE M2 == (M \ {n}) \cup {r}
           q2 == IF q = n THEN r ELSE q
           bh2 == [a \in M \cup {None, r} |-> IF a = r THEN bh[n] ELSE bh[a]]
<1>1. /\ M \subseteq Nodes /\ None \notin M /\ None \notin Nodes
      /\ \A a \in M, w \in Side : t.kid[a][w] \in M \cup {None}
  BY TreeFacts
<1>2. /\ n \in M /\ r \in Nodes /\ r \notin M /\ r # None /\ r # n
      /\ \A a \in M \ {n}, w \in Side : t2.kid[a][w] = IF t.kid[a][w] = n THEN r ELSE t.kid[a][w]
      /\ \A w \in Side : t2.kid[r][w] = t.kid[n][w]
      /\ t2.color[r] = t.color[n] /\ \A a \in M \ {n} : t2.color[a] = t.color[a]
  BY <1>1 DEF TakesOver
<1>3. bh2[None] = bh[None] /\ bh2[r] = bh[n] /\ \A a \in M : bh2[a] = bh[a] BY <1>1, <1>2
<1> HIDE DEF bh2
<1>4. \A w \in Side : t.kid[n][w] # n
  <2> SUFFICES ASSUME NEW w \in Side, t.kid[n][w] = n PROVE FALSE OBVIOUS
  <2>1. t.kid[n][w] # None BY <1>1, <1>2
  <2> QED BY <1>2, <2>1, ChildIs
<1>5. /\ bh[None] = 0 /\ \A a \in M : bh[a] \in Nat
      /\ \A a \in M, w \in Side : bh[a] = Weight(t, a) + Short(q, z, a, w) + bh[t.kid[a][w]]
  BY DEF Even
<1>6. ASSUME NEW a \in M2, NEW w \in Side
      PROVE  bh2[a] \in Nat /\ bh2[a] = Weight(t2, a) + Short(q2, z, a, w) + bh2[t2.kid[a][w]]
  <2>1. CASE a = r
    <3>1. Weight(t2, a) = Weight(t, n) BY <1>2, <2>1 DEF Weight
    <3>2. Short(q2, z, a, w) = Short(q, z, n, w) BY <1>2, <2>1 DEF Short
    <3>3. bh2[t2.kid[a][w]] = bh[t.kid[n][w]] BY <1>1, <1>2, <1>3, <2>1
    <3> QED BY <1>2, <1>3, <1>5, <2>1, <3>1, <3>2, <3>3
  <2>2. CASE a # r
    <3>0. a \in M /\ a # n BY <2>2
    <3>1. Weight(t2, a) = Weight(t, a) BY <1>2, <3>0 DEF Weight
    <3>2. Short(q2, z, a, w) = Short(q, z, a, w) BY <1>2, <3>0 DEF Short
    <3>3. bh2[t2.kid[a][w]] = bh[t.kid[a][w]]
      <4>1. t2.kid[a][w] = IF t.kid[a][w] = n THEN r ELSE t.kid[a][w] BY <1>2, <3>0
      <4>2. t.kid[a][w] \in M \cup {None} BY <1>1, <3>0
      <4> QED BY <1>3, <4>1, <4>2
    <3> QED BY <1>3, <1>5, <3>0, <3>1, <3>2, <3>3
  <2> QED BY <2>1, <2>2
<1>7. bh2[None] = 0 BY <1>3, <1>5
<1>8. Even(t2, M2, q2, z, bh2)
  <2>1. "left" \in Side BY DEF Side
  <2> QED BY <1>6, <1>7, <2>1 DEF Even
<1> QED BY <1>8 DEF EvenTaken, bh2

\* So what was left of the tree is as it was.
CanSplice(t, M, c, m, p) == \E sub, bh : Spliceable(t, M, sub, bh, c, m, p)

SplicesTaken(t, M, sub, bh, c, m, p, n, r, t2, M2, p2) ==
    /\ Spliceable(t, M, sub, bh, c, m, p) /\ m # n /\ p # r /\ TakesOver(t, t2, M, n, r)
    /\ M2 = (M \ {n}) \cup {r} /\ p2 = IF p = n THEN r ELSE p

LEMMA SpliceableWhenTaken ==
  ASSUME RBAssumption, NEW t, NEW M, NEW sub, NEW bh, NEW c, NEW m, NEW p, NEW n, NEW r,
         NEW t2, NEW M2, NEW p2, SplicesTaken(t, M, sub, bh, c, m, p, n, r, t2, M2, p2)
  PROVE  CanSplice(t2, M2, c, m, p2)
<1>a. /\ Spliceable(t, M, sub, bh, c, m, p) /\ m # n /\ p # r /\ TakesOver(t, t2, M, n, r)
      /\ M2 = (M \ {n}) \cup {r} /\ p2 = IF p = n THEN r ELSE p
  BY DEF SplicesTaken
<1> USE <1>a
<1> DEFINE sub2 == InPlace(sub, M, None, n, r)
           bh2 == [a \in M \cup {None, r} |-> IF a = r THEN bh[n] ELSE bh[a]]
<1>0. Hangs(t, M, sub) /\ m \in M \cup {None} /\ p \in Links BY DEF Spliceable
<1>1. /\ M \subseteq Nodes /\ None \notin M /\ None \notin Nodes /\ t.root \in M \cup {None}
      /\ \A a \in M, w \in Side : t.kid[a][w] \in M \cup {None}
  BY <1>0, TreeFacts
<1>2. /\ n \in M /\ r \in Nodes /\ r \notin M /\ r # None /\ r # n
      /\ t2.root = (IF t.root = n THEN r ELSE t.root)
      /\ \A a \in M \ {n}, w \in Side : t2.kid[a][w] = IF t.kid[a][w] = n THEN r ELSE t.kid[a][w]
      /\ \A w \in Side : t2.kid[r][w] = t.kid[n][w]
      /\ t2.color[r] = t.color[n] /\ \A a \in M \ {n} : t2.color[a] = t.color[a]
  BY <1>1 DEF TakesOver
<1>3. Hangs(t2, M2, sub2) BY <1>0, HangsWhenTaken
<1>4. \A w \in Side : t.kid[n][w] # n
  <2> SUFFICES ASSUME NEW w \in Side, t.kid[n][w] = n PROVE FALSE OBVIOUS
  <2>1. t.kid[n][w] # None BY <1>1, <1>2
  <2> QED BY <1>0, <1>2, <2>1, ChildIs
<1>5. \A q, z : q # r /\ Even(t, M, q, z, bh) => Even(t2, M2, IF q = n THEN r ELSE q, z, bh2)
  <2>1. \A q, z : q # r /\ Even(t, M, q, z, bh) => EvenTaken(t2, M, n, r, q, z, bh)
    BY <1>0, EvenWhenTaken
  <2> QED BY <2>1 DEF EvenTaken
<1> HIDE DEF sub2, bh2
<1>6. (\A w : Even(t, M, None, w, bh)) => \A w : Even(t2, M2, None, w, bh2)
  <2>1. None # r /\ None # n BY <1>1, <1>2
  <2> QED BY <1>5, <2>1
<1>7. IsRed(t2, t2.root) => IsRed(t, t.root) /\ (t2.root = t.root \/ (t2.root = r /\ t.root = n))
  BY <1>1, <1>2 DEF IsRed
<1>8. ASSUME NEW a \in M2, NEW w \in Side, RedPair(t2, a, w)
      PROVE  \E b \in M : /\ RedPair(t, b, w) /\ (b = a \/ (a = r /\ b = n))
                          /\ t2.kid[a][w] = t.kid[b][w] \/ (t2.kid[a][w] = r /\ t.kid[b][w] = n)
  <2>1. CASE a = r
    <3>1. t2.kid[a][w] = t.kid[n][w] BY <1>2, <2>1
    <3>2. t.kid[n][w] = None \/ t.kid[n][w] \in M \ {n} BY <1>1, <1>2, <1>4
    <3>3. RedPair(t, n, w) BY <1>1, <1>2, <1>8, <2>1, <3>1, <3>2 DEF RedPair, IsRed
    <3> QED BY <1>2, <2>1, <3>1, <3>3
  <2>2. CASE a # r
    <3>0. a \in M /\ a # n BY <2>2
    <3>1. t2.kid[a][w] = IF t.kid[a][w] = n THEN r ELSE t.kid[a][w] BY <1>2, <3>0
    <3>2. t.kid[a][w] = None \/ t.kid[a][w] = n \/ t.kid[a][w] \in M \ {n} BY <1>1, <3>0
    <3>3. RedPair(t, a, w) BY <1>1, <1>2, <1>8, <3>0, <3>1, <3>2 DEF RedPair, IsRed
    <3> QED BY <3>0, <3>1, <3>3
  <2> QED BY <2>1, <2>2
<1>9. ASSUME NEW k, k # n, Reds(t, M, k, k) PROVE Reds(t2, M2, k, k)
  <2>1. IsRed(t2, t2.root) => t2.root = k BY <1>2, <1>7, <1>9 DEF Reds
  <2>2. ASSUME NEW a \in M2, NEW w \in Side, RedPair(t2, a, w) PROVE t2.kid[a][w] = k \/ a = k
    <3>1. PICK b \in M : /\ RedPair(t, b, w) /\ (b = a \/ (a = r /\ b = n))
                         /\ t2.kid[a][w] = t.kid[b][w] \/ (t2.kid[a][w] = r /\ t.kid[b][w] = n)
      BY <1>8, <2>2
    <3>2. t.kid[b][w] = k \/ b = k BY <1>9, <3>1 DEF Reds
    <3> QED BY <1>9, <3>1, <3>2
  <2> QED BY <2>1, <2>2 DEF Reds
<1>10. m \in M2 \cup {None} /\ p2 \in Links BY <1>0, <1>2 DEF Links
<1>11. CASE c # "black"
  <2>1. (\A w : Even(t, M, None, w, bh)) /\ Reds(t, M, None, None) BY <1>11 DEF Spliceable
  <2>2. Reds(t2, M2, None, None) BY <1>1, <1>2, <1>9, <2>1
  <2>3. Spliceable(t2, M2, sub2, bh2, c, m, p2)
    BY <1>3, <1>6, <1>10, <1>11, <2>1, <2>2 DEF Spliceable
  <2> QED BY <2>3 DEF CanSplice
<1>12. CASE c = "black"
  <2>1. Reds(t2, M2, m, m) BY <1>9, <1>12 DEF Spliceable
  <2>2. CASE m = t.root /\ \A w : Even(t, M, None, w, bh)
    <3>1. m = t2.root BY <1>2, <2>2
    <3>2. Spliceable(t2, M2, sub2, bh2, c, m, p2)
      BY <1>3, <1>6, <1>10, <1>12, <2>1, <2>2, <3>1 DEF Spliceable
    <3> QED BY <3>2 DEF CanSplice
  <2>3. CASE /\ m # t.root /\ p \in M
             /\ \E z \in Side : /\ t.kid[p][z] = m /\ t.kid[p][Other(z)] # None
                                /\ Even(t, M, p, z, bh)
    <3>1. PICK z \in Side : /\ t.kid[p][z] = m /\ t.kid[p][Other(z)] # None
                            /\ Even(t, M, p, z, bh)
      BY <2>3
    <3>2. Even(t2, M2, p2, z, bh2) BY <1>5, <3>1
    <3>3. m # t2.root /\ p2 \in M2 BY <1>0, <1>1, <1>2, <2>3
    <3>4. Other(z) \in Side BY Others
    <3>5. t2.kid[p2][z] = m /\ t2.kid[p2][Other(z)] # None
      <4>1. CASE p = n BY <1>2, <3>1, <3>4, <4>1
      <4>2. CASE p # n BY <1>2, <2>3, <3>1, <3>4, <4>2
      <4> QED BY <4>1, <4>2
    <3>6. Spliceable(t2, M2, sub2, bh2, c, m, p2)
      BY <1>3, <1>10, <1>12, <2>1, <3>2, <3>3, <3>4, <3>5 DEF Spliceable
    <3> QED BY <3>6 DEF CanSplice
  <2> QED BY <1>12, <2>2, <2>3 DEF Spliceable
<1> QED BY <1>11, <1>12

LEMMA DeleteOuterKeeps ==
  ASSUME RBAssumption, NEW M, NEW sub, NEW bh, Sound(tree, job, M, sub, bh), Idle,
         NEW n \in M, ~\A s \in Side : tree.kid[n][s] # None, DeleteOuter(n)
  PROVE  Holds(tree', job', M \ {n})
<1> DEFINE s == IF tree.kid[n]["left"] # None THEN "left" ELSE "right"
           m == tree.kid[n][s]
           p == tree.parent[n]
           t2 == Replace(SetParent(tree, m, p), p, n, m)
           sub2 == CutOut(sub, M, None, n)
<1>1. /\ job = NoJob /\ M = {a \in Nodes : tree.color[a] # "free"}
      /\ Hangs(tree, M, sub) /\ Reds(tree, M, None, None)
      /\ \A w : Even(tree, M, None, w, bh)
      /\ FreeAreLeaves(tree)
  BY IdleIs DEF Sound
<1>2. OneChild(tree, M, n, s)
  <2>1. tree.kid[n]["left"] = None \/ tree.kid[n]["right"] = None BY DEF Side
  <2> QED BY <2>1 DEF OneChild, Other, Side
<1>3. Spliced(t2, tree.color[n], m, p, n) BY DEF DeleteOuter
<1> HIDE DEF s
<1>4. Cuts(tree, t2, M, n, m) /\ Hangs(t2, M \ {n}, sub2) BY <1>1, <1>2, CutIs
<1>5. n \in Nodes /\ tree.color[n] # "free" BY <1>1
<1> HIDE DEF t2, sub2
<1>6. Spliceable(t2, M \ {n}, sub2, bh, tree.color[n], m, p)
  BY <1>1, <1>2, <1>4, <1>5, CutSpliceable
<1>7. M \ {n} = {a \in Nodes : t2.color[a] # "free"} \ {n} /\ FreeAreLeaves(t2)
  <2>1. t2.color = tree.color /\ \A a \in Nodes \ M : t2.kid[a] = tree.kid[a] BY <1>4 DEF Cuts
  <2> QED BY <1>1, <2>1 DEF FreeAreLeaves
<1> HIDE DEF m, p
<1> QED BY <1>1, <1>3, <1>5, <1>6, <1>7, SplicedHolds

\* The successor of n is the last on the left below its right child a: a itself, or the left
\* child of its parent.
Succeeds(M, sub, n, a, r, p) ==
    /\ n \in M /\ a \in M /\ a = tree.kid[n]["right"] /\ a \in Nodes /\ n \in Nodes /\ a # n
    /\ r \in M /\ r # n /\ r \in Nodes /\ tree.kid[r]["left"] = None
    /\ tree.kid[r]["right"] # n
    /\ p = tree.parent[r] /\ p \in M /\ p \in Nodes /\ p # r
    /\ \/ r = a /\ p = n
       \/ r # a /\ p # n /\ tree.kid[p]["left"] = r
    /\ \A b \in M \ {n, r}, z \in Side : /\ Beyond(Key, z, n, b) => Beyond(Key, z, r, b)
                                         /\ Beyond(Key, z, b, n) => Beyond(Key, z, b, r)

LEMMA SuccessorIs ==
  ASSUME RBAssumption, NEW M, NEW sub, Hangs(tree, M, sub), NEW n \in M,
         tree.kid[n]["right"] # None
  PROVE  LET r == Extreme(tree.kid[n]["right"], "left")
         IN  Succeeds(M, sub, n, tree.kid[n]["right"], r, tree.parent[r])
<1> DEFINE a == tree.kid[n]["right"]
           r == Extreme(a, "left")
           p == tree.parent[r]
<1>1. /\ M \subseteq Nodes /\ None \notin M /\ None \notin Nodes /\ tree.root \in M \cup {None}
      /\ Spans(sub, M, tree.kid, tree.root, None) /\ SortedBy(sub, M, tree.kid, Key)
      /\ Linked(tree, M) /\ Distinct(Key, M) /\ sub[tree.root] = M /\ sub[None] = {}
  BY TreeFacts
<1>2. "left" \in Side /\ "right" \in Side /\ \A z \in Side : z = "left" \/ z = "right" BY DEF Side
<1>3. /\ a \in M /\ a # n /\ a # tree.root
      /\ \A q \in M, z \in Side : tree.kid[q][z] = a => q = n /\ z = "right"
  BY <1>2, ChildIs
<1> HIDE DEF a
<1>4. /\ r \in sub[a] /\ r \in M /\ tree.kid[r]["left"] = None
      /\ \A b \in sub[a] : b = r \/ Beyond(Key, "left", b, r)
  BY <1>2, <1>3, ExtremeIs
<1> HIDE DEF r
<1>5. \A q \in M, z \in Side : \A y \in sub[tree.kid[q][z]] : Beyond(Key, z, q, y)
  BY <1>1, SidesDiffer
<1>6. /\ \A y \in sub[a] : y \in M /\ y # n /\ Beyond(Key, "right", n, y)
      /\ a \in sub[a]
  <2>1. \A y \in sub[tree.kid[n]["right"]] : y # n /\ y \in sub[n] BY <1>1, <1>2, Splits
  <2>2. \A y \in sub[n] : y \in M BY <1>1, Splits
  <2>3. a \in sub[a] BY <1>1, <1>3, Splits
  <2> QED BY <1>2, <1>5, <2>1, <2>2, <2>3 DEF a
<1>7. /\ p \in M /\ \E z \in Side : tree.kid[p][z] = r
      /\ tree.parent[r] = p
  <2>1. r # tree.root
    <3> SUFFICES ASSUME r = tree.root PROVE FALSE OBVIOUS
    <3>1. n \in sub[r] BY <1>1
    <3>2. sub[r] \subseteq sub[a] BY <1>1, <1>3, <1>4, SubtreeBelow
    <3> QED BY <1>6, <3>1, <3>2
  <2> QED BY <1>4, <2>1, ParentIs
<1> HIDE DEF p
<1>8. p # r
  <2>1. PICK z \in Side : tree.kid[p][z] = r BY <1>7
  <2>2. tree.kid[p][z] # None BY <1>1, <1>4, <2>1
  <2> QED BY <1>7, <2>1, <2>2, ChildIs
<1>9. \/ r = a /\ p = n
      \/ r # a /\ p # n /\ tree.kid[p]["left"] = r
  <2>1. CASE r = a BY <1>3, <1>7, <2>1
  <2>2. CASE r # a
    <3>1. PICK z \in Side : tree.kid[p][z] = r BY <1>7
    <3>2. p \in sub[a]
      <4>1. tree.kid[p][z] \in M BY <1>4, <3>1
      <4>2. tree.kid[p][z] \in sub[a] /\ a # tree.kid[p][z] => p \in sub[a]
        BY <1>1, <1>3, <1>7, <4>1, ParentAbove
      <4> QED BY <1>4, <2>2, <3>1, <4>2
    <3>3. p # n /\ Beyond(Key, "left", p, r) BY <1>4, <1>6, <1>8, <3>2
    <3>4. r \in sub[tree.kid[p][z]]
      <4>1. r \in sub[r] BY <1>1, <1>4, Splits
      <4> QED BY <3>1, <4>1
    <3>5. Beyond(Key, z, p, r) BY <1>5, <1>7, <3>4
    <3>6. z = "left"
      <4> SUFFICES ASSUME z = "right" PROVE FALSE BY <1>2
      <4>1. Key[p] \in Int /\ Key[r] \in Int BY <1>1, <1>4, <1>7 DEF Distinct
      <4> QED BY <3>3, <3>5, <4>1 DEF Beyond
    <3> QED BY <2>2, <3>1, <3>3, <3>6
  <2> QED BY <2>1, <2>2
\* Nothing is between n and r in the order.
<1>10. ASSUME NEW b \in M \ {n, r}, NEW z \in Side
       PROVE  /\ Beyond(Key, z, n, b) => Beyond(Key, z, r, b)
              /\ Beyond(Key, z, b, n) => Beyond(Key, z, b, r)
  <2>1. Key[b] \in Int /\ Key[n] \in Int /\ Key[r] \in Int BY <1>1, <1>4 DEF Distinct
  <2>2. Key[n] < Key[r] BY <1>4, <1>6 DEF Beyond
  <2>3. Key[b] < Key[n] \/ Key[r] < Key[b]
    <3>1. CASE b \in sub[a]
      <4>1. Beyond(Key, "left", b, r) BY <1>4, <3>1
      <4> QED BY <4>1 DEF Beyond
    <3>2. CASE b \notin sub[a]
      <4>1. PICK w \in Side : \A y \in sub[a] : Beyond(Key, w, b, y)
        BY <1>1, <1>3, <3>2, OneSide
      <4>2. CASE w = "left"
        <5>1. Beyond(Key, "left", b, r) BY <1>4, <4>1, <4>2
        <5> QED BY <5>1 DEF Beyond
      <4>3. CASE w = "right"
        <5> SUFFICES ASSUME Key[n] < Key[b] PROVE FALSE
          <6>1. Key[b] # Key[n] BY <1>1 DEF Distinct
          <6> QED BY <2>1, <6>1
        <5>1. \E v \in Side : b \in sub[tree.kid[n][v]] \/ b \notin sub[n]
          BY <1>1, <1>2, Splits
        <5>2. CASE b \in sub[n]
          <6>1. PICK v \in Side : b \in sub[tree.kid[n][v]] BY <1>1, <5>2, Splits
          <6>2. v = "left" BY <1>2, <3>2, <6>1 DEF a
          <6>3. Beyond(Key, "left", n, b) BY <1>2, <1>5, <6>1, <6>2
          <6> QED BY <2>1, <6>3 DEF Beyond
        <5>3. CASE b \notin sub[n]
          <6>1. PICK v \in Side : \A y \in sub[n] : Beyond(Key, v, b, y)
            BY <1>1, <5>3, OneSide
          <6>2. n \in sub[n] /\ r \in sub[n]
            <7>1. n \in sub[n] /\ \A y \in sub[tree.kid[n]["right"]] : y \in sub[n]
              BY <1>1, <1>2, Splits
            <7> QED BY <1>4, <7>1 DEF a
          <6>3. Beyond(Key, v, b, n) /\ Beyond(Key, v, b, r) BY <6>1, <6>2
          <6>4. Beyond(Key, "right", b, r) BY <1>4, <4>1, <4>3
          <6>5. v = "left"
            <7> SUFFICES ASSUME v = "right" PROVE FALSE BY <1>2
            <7> QED BY <2>1, <6>3 DEF Beyond
          <6> QED BY <2>1, <6>3, <6>4, <6>5 DEF Beyond
        <5> QED BY <5>2, <5>3
      <4> QED BY <1>2, <4>2, <4>3
    <3> QED BY <3>1, <3>2
  <2> QED BY <2>1, <2>2, <2>3 DEF Beyond
<1>11. tree.kid[r]["right"] # n
  <2> SUFFICES ASSUME tree.kid[r]["right"] = n PROVE FALSE OBVIOUS
  <2>1. sub[r] \subseteq sub[a] BY <1>1, <1>3, <1>4, SubtreeBelow
  <2>2. n \in sub[n] BY <1>1, Splits
  <2>3. n \in sub[r] BY <1>1, <1>2, <1>4, <2>2, Splits
  <2> QED BY <1>6, <2>1, <2>3
<1>12. Succeeds(M, sub, n, a, r, p)
  BY <1>1, <1>3, <1>4, <1>6, <1>7, <1>8, <1>9, <1>10, <1>11 DEF Succeeds, a
<1> QED BY <1>12 DEF a, r, p

\* t2 is the tree once r has left its place below p, its child m moving above, and taken that
\* of n, whose children are l and a.
Succeeded(t2, n, a, r, p, l, m, above, s) ==
    /\ t2 \in Trees /\ t2.root = (IF above = None THEN r ELSE tree.root)
    /\ \A x \in Nodes, z \in Side :
          t2.kid[x][z] = IF x = r /\ z = "left" THEN l
                         ELSE IF p # n /\ x = r /\ z = "right" THEN a
                         ELSE IF p # n /\ x = p /\ z = "left" THEN m
                         ELSE IF x = above /\ z = s THEN r ELSE tree.kid[x][z]
    /\ \A x \in Nodes :
          t2.parent[x] = IF x = l THEN r ELSE IF x = r THEN above
                         ELSE IF p # n /\ x = a THEN r
                         ELSE IF p # n /\ x = m THEN p ELSE tree.parent[x]
    /\ \A x \in Nodes : t2.color[x] = IF x = r THEN tree.color[n] ELSE tree.color[x]

\* The first half: r hangs below above, and its child m and n's child a where they go.
Vacated(t2, n, a, r, p, m, above, s) ==
    /\ t2 \in Trees /\ t2.root = (IF above = None THEN r ELSE tree.root) /\ t2.color = tree.color
    /\ \A x \in Nodes, z \in Side :
          t2.kid[x][z] = IF p # n /\ x = r /\ z = "right" THEN a
                         ELSE IF p # n /\ x = p /\ z = "left" THEN m
                         ELSE IF x = above /\ z = s THEN r ELSE tree.kid[x][z]
    /\ \A x \in Nodes :
          t2.parent[x] = IF p # n /\ x = a THEN r
                         ELSE IF p # n /\ x = m THEN p ELSE tree.parent[x]

LEMMA VacatedAtOnce ==
  ASSUME RBAssumption, tree \in Trees, NEW n \in Nodes, NEW a, NEW r \in Nodes, NEW m, NEW above \in Links
  PROVE  Vacated(Replace(tree, above, n, r), n, a, r, n, m, above, SideOf(tree, above, n))
<1> DEFINE t1 == Replace(tree, above, n, r)
           s == SideOf(tree, above, n)
<1>1. /\ t1 \in Trees /\ KidsBut(t1, tree, above, s, r)
      /\ t1.root = (IF above = None THEN r ELSE tree.root)
      /\ t1.parent = tree.parent /\ t1.color = tree.color
  <2>1. r \in Links BY DEF Links
  <2> QED BY <2>1, ReplaceIs
<1> HIDE DEF t1, s
<1>2. \A x \in Nodes, z \in Side : t1.kid[x][z] = IF x = above /\ z = s THEN r ELSE tree.kid[x][z]
  BY <1>1 DEF KidsBut
<1>3. Vacated(t1, n, a, r, n, m, above, s) BY <1>1, <1>2 DEF Vacated
<1> QED BY <1>3 DEF t1, s

LEMMA VacatedBelow ==
  ASSUME RBAssumption, tree \in Trees, NEW n \in Nodes, NEW a \in Nodes, NEW r \in Nodes,
         NEW p \in Nodes, p # n, NEW m \in Links, NEW above \in Links
  PROVE  Vacated([SetParent(Replace(tree, above, n, r), m, p) EXCEPT
                      !.kid[p]["left"] = m, !.kid[r]["right"] = a, !.parent[a] = r],
                 n, a, r, p, m, above, SideOf(tree, above, n))
<1> DEFINE t1 == Replace(tree, above, n, r)
           s == SideOf(tree, above, n)
           u2 == SetParent(t1, m, p)
           u3 == [u2 EXCEPT !.kid[p]["left"] = m]
           u4 == [u3 EXCEPT !.kid[r]["right"] = a]
           u5 == [u4 EXCEPT !.parent[a] = r]
<1>1. /\ t1 \in Trees /\ KidsBut(t1, tree, above, s, r)
      /\ t1.root = (IF above = None THEN r ELSE tree.root)
      /\ t1.parent = tree.parent /\ t1.color = tree.color
  <2>1. r \in Links BY DEF Links
  <2> QED BY <2>1, ReplaceIs
<1>2. [u2 EXCEPT !.kid[p]["left"] = m, !.kid[r]["right"] = a, !.parent[a] = r] = u5 OBVIOUS
<1>3. "left" \in Side /\ "right" \in Side /\ p \in Links /\ a \in Links /\ r \in Links
  BY DEF Side, Links
<1> HIDE DEF t1, s
<1>4. u2 \in Trees /\ ParentsBut(u2, t1, m, p) /\ u2.root = t1.root /\ u2.kid = t1.kid
      /\ u2.color = t1.color
  BY <1>1, <1>3, SetParentIs
<1> HIDE DEF u2
<1>5. /\ u3 \in Trees /\ KidsBut(u3, u2, p, "left", m) /\ u3.root = u2.root /\ u3.parent = u2.parent
      /\ u3.color = u2.color
  BY <1>3, <1>4, KidSet
<1> HIDE DEF u3
<1>6. /\ u4 \in Trees /\ KidsBut(u4, u3, r, "right", a) /\ u4.root = u3.root
      /\ u4.parent = u3.parent /\ u4.color = u3.color
  BY <1>3, <1>5, KidSet
<1> HIDE DEF u4
<1>7. /\ u5 \in Trees /\ ParentsBut(u5, u4, a, r) /\ u5.root = u4.root /\ u5.kid = u4.kid
      /\ u5.color = u4.color
  BY <1>3, <1>6, ParentSet
<1> HIDE DEF u5
<1>8. \A x \in Nodes, z \in Side :
         u5.kid[x][z] = IF x = r /\ z = "right" THEN a
                        ELSE IF x = p /\ z = "left" THEN m
                        ELSE IF x = above /\ z = s THEN r ELSE tree.kid[x][z]
  BY <1>1, <1>4, <1>5, <1>6, <1>7 DEF KidsBut
<1>9. \A x \in Nodes : u5.parent[x] = IF x = a THEN r ELSE IF x = m THEN p ELSE tree.parent[x]
  BY <1>1, <1>4, <1>5, <1>6, <1>7 DEF ParentsBut
<1>10. u5.root = (IF above = None THEN r ELSE tree.root) /\ u5.color = tree.color
  BY <1>1, <1>4, <1>5, <1>6, <1>7
<1>11. Vacated(u5, n, a, r, p, m, above, s) BY <1>7, <1>8, <1>9, <1>10 DEF Vacated
<1> QED BY <1>2, <1>11 DEF t1, s, u2, u3, u4, u5

LEMMA SucceededIs ==
  ASSUME RBAssumption, tree \in Trees, NEW n \in Nodes, NEW a \in Nodes, NEW r \in Nodes,
         NEW p \in Nodes, NEW l \in Nodes, NEW m \in Links, NEW above \in Links, NEW s,
         NEW t2, Vacated(t2, n, a, r, p, m, above, s)
  PROVE  Succeeded([t2 EXCEPT !.parent[r] = above, !.color[r] = tree.color[n],
                              !.kid[r]["left"] = l, !.parent[l] = r],
                   n, a, r, p, l, m, above, s)
<1> DEFINE w1 == [t2 EXCEPT !.parent[r] = above]
           w2 == Paint(w1, r, tree.color[n])
           w3 == [w2 EXCEPT !.kid[r]["left"] = l]
           w4 == [w3 EXCEPT !.parent[l] = r]
<1>1. [t2 EXCEPT !.parent[r] = above, !.color[r] = tree.color[n],
                 !.kid[r]["left"] = l, !.parent[l] = r] = w4
  BY DEF Paint
<1>2. /\ "left" \in Side /\ l \in Links /\ r \in Links /\ tree.color[n] \in {"free", "red", "black"}
  BY FieldsOf DEF Side, Links
<1>3. /\ t2 \in Trees /\ t2.root = (IF above = None THEN r ELSE tree.root) /\ t2.color = tree.color
      /\ \A x \in Nodes, z \in Side :
            t2.kid[x][z] = IF p # n /\ x = r /\ z = "right" THEN a
                           ELSE IF p # n /\ x = p /\ z = "left" THEN m
                           ELSE IF x = above /\ z = s THEN r ELSE tree.kid[x][z]
      /\ \A x \in Nodes :
            t2.parent[x] = IF p # n /\ x = a THEN r
                           ELSE IF p # n /\ x = m THEN p ELSE tree.parent[x]
  BY DEF Vacated
<1>4. t2 \in Trees BY <1>3
<1>5. /\ w1 \in Trees /\ ParentsBut(w1, t2, r, above) /\ w1.root = t2.root /\ w1.kid = t2.kid
      /\ w1.color = t2.color
  BY <1>4, ParentSet
<1> HIDE DEF w1
<1>6. w1 \in Trees BY <1>5
<1>7. /\ w2 \in Trees /\ ColorsBut(w2, w1, r, tree.color[n]) /\ w2.root = w1.root
      /\ w2.kid = w1.kid /\ w2.parent = w1.parent
  BY <1>2, <1>6, PaintIs
<1> HIDE DEF w2
<1>8. w2 \in Trees BY <1>7
<1>9. /\ w3 \in Trees /\ KidsBut(w3, w2, r, "left", l) /\ w3.root = w2.root
      /\ w3.parent = w2.parent /\ w3.color = w2.color
  BY <1>2, <1>8, KidSet
<1> HIDE DEF w3
<1>10. w3 \in Trees BY <1>9
<1>11. /\ w4 \in Trees /\ ParentsBut(w4, w3, l, r) /\ w4.root = w3.root /\ w4.kid = w3.kid
       /\ w4.color = w3.color
  BY <1>2, <1>10, ParentSet
<1> HIDE DEF w4
<1>12. w4.root = (IF above = None THEN r ELSE tree.root) BY <1>3, <1>5, <1>7, <1>9, <1>11
<1>13. \A x \in Nodes, z \in Side :
          w4.kid[x][z] = IF x = r /\ z = "left" THEN l
                         ELSE IF p # n /\ x = r /\ z = "right" THEN a
                         ELSE IF p # n /\ x = p /\ z = "left" THEN m
                         ELSE IF x = above /\ z = s THEN r ELSE tree.kid[x][z]
  <2>1. \A x \in Nodes, z \in Side :
           w4.kid[x][z] = IF x = r /\ z = "left" THEN l ELSE t2.kid[x][z]
    BY <1>5, <1>7, <1>9, <1>11 DEF KidsBut
  <2> QED BY <1>3, <2>1
<1>14. \A x \in Nodes :
          w4.parent[x] = IF x = l THEN r ELSE IF x = r THEN above
                         ELSE IF p # n /\ x = a THEN r
                         ELSE IF p # n /\ x = m THEN p ELSE tree.parent[x]
  <2>1. \A x \in Nodes : w4.parent[x] = IF x = l THEN r ELSE IF x = r THEN above ELSE t2.parent[x]
    BY <1>5, <1>7, <1>9, <1>11 DEF ParentsBut
  <2> QED BY <1>3, <2>1
<1>15. \A x \in Nodes : w4.color[x] = IF x = r THEN tree.color[n] ELSE tree.color[x]
  BY <1>3, <1>5, <1>7, <1>9, <1>11 DEF ColorsBut
<1>16. Succeeded(w4, n, a, r, p, l, m, above, s) BY <1>11, <1>12, <1>13, <1>14, <1>15 DEF Succeeded
<1> QED BY <1>1, <1>16 DEF w1, w2, w3, w4

\* Which is the tree that r was cut out of, with r in the place of n.
LEMMA SuccessorTakesOver ==
  ASSUME RBAssumption, NEW M, NEW sub, Hangs(tree, M, sub), NEW n, NEW a, NEW r, NEW p,
         Succeeds(M, sub, n, a, r, p), NEW l, l = tree.kid[n]["left"], l # None,
         NEW m, m = tree.kid[r]["right"], NEW above, above = tree.parent[n],
         NEW tc, Cuts(tree, tc, M, r, m),
         NEW t3, Succeeded(t3, n, a, r, p, l, m, above, SideOf(tree, above, n))
  PROVE  TakesOver(tc, t3, M \ {r}, n, r)
<1> DEFINE s == SideOf(tree, above, n)
<1>1. /\ M \subseteq Nodes /\ None \notin M /\ None \notin Nodes /\ tree.root \in M \cup {None}
      /\ \A b \in M, z \in Side : tree.kid[b][z] \in M \cup {None}
  BY TreeFacts
<1>2. /\ n \in M /\ a \in M /\ a = tree.kid[n]["right"] /\ a # n
      /\ r \in M /\ r # n /\ tree.kid[r]["left"] = None /\ tree.kid[r]["right"] # n
      /\ p = tree.parent[r] /\ p \in M /\ p # r
      /\ \/ r = a /\ p = n
         \/ r # a /\ p # n /\ tree.kid[p]["left"] = r
      /\ \A b \in M \ {n, r}, z \in Side : /\ Beyond(Key, z, n, b) => Beyond(Key, z, r, b)
                                           /\ Beyond(Key, z, b, n) => Beyond(Key, z, b, r)
  BY DEF Succeeds
<1>3. "left" \in Side /\ "right" \in Side /\ \A z \in Side : z = "left" \/ z = "right" BY DEF Side
<1>4. l \in M /\ l # n /\ \A q \in M, z \in Side : tree.kid[q][z] = l => q = n /\ z = "left"
  BY <1>2, <1>3, ChildIs
<1>5. \A q \in M, z \in Side : tree.kid[q][z] = a => q = n /\ z = "right"
  <2>1. tree.kid[n]["right"] # None BY <1>1, <1>2
  <2>2. \A q \in M, z \in Side : tree.kid[q][z] = tree.kid[n]["right"] => q = n /\ z = "right"
    BY <1>2, <1>3, <2>1, ChildIs
  <2> QED BY <1>2, <2>2
<1>6. m \in M \cup {None} /\ m # n /\ m # a /\ m # l BY <1>1, <1>2, <1>3, <1>4, <1>5
<1>7. m # None => m # r /\ tree.parent[m] = r BY <1>2, <1>3, ChildIs
<1>8. l # r BY <1>2, <1>3, <1>4
<1>9. \A b \in M \ {n}, z \in Side : tree.kid[b][z] = r <=> p # n /\ b = p /\ z = "left"
  <2>1. CASE p = n BY <1>2, <1>5, <2>1
  <2>2. CASE p # n
    <3>1. tree.kid[p]["left"] # None /\ tree.kid[p]["left"] = r BY <1>1, <1>2, <2>2
    <3>2. \A q \in M, z \in Side : tree.kid[q][z] = tree.kid[p]["left"] => q = p /\ z = "left"
      BY <1>2, <1>3, <3>1, ChildIs
    <3> QED BY <2>2, <3>1, <3>2
  <2> QED BY <2>1, <2>2
<1>10. /\ r # tree.root
       /\ \/ above = None /\ n = tree.root
          \/ above # None /\ n # tree.root
       /\ above # r
       /\ \A b \in M, z \in Side : tree.kid[b][z] = n <=> b = above /\ z = s
  <2>1. r # tree.root
    <3>1. \E z \in Side : tree.kid[p][z] = r BY <1>2, <1>3
    <3>2. PICK z \in Side : tree.kid[p][z] = r BY <3>1
    <3>3. tree.kid[p][z] # None /\ p \in M BY <1>1, <1>2, <3>2
    <3> QED BY <3>2, <3>3, ChildIs
  <2>2. CASE n = tree.root
    <3>1. above = None BY <1>2, <2>2, ParentIs
    <3>2. ASSUME NEW b \in M, NEW z \in Side PROVE tree.kid[b][z] # n
      <4> SUFFICES ASSUME tree.kid[b][z] = n PROVE FALSE OBVIOUS
      <4>1. tree.kid[b][z] # None BY <1>1, <1>2
      <4> QED BY <2>2, <4>1, ChildIs
    <3> QED BY <1>1, <1>2, <2>1, <2>2, <3>1, <3>2
  <2>3. CASE n # tree.root
    <3>1. above \in M /\ \E z \in Side : tree.kid[above][z] = n BY <1>2, <2>3, ParentIs
    <3>2. PICK w \in Side : tree.kid[above][w] = n BY <3>1
    <3>3. tree.kid[above][w] # None BY <1>1, <1>2, <3>2
    <3>4. SideOf(tree, above, tree.kid[above][w]) = w BY <3>1, <3>3, SideOfIs
    <3>5. w = s BY <3>2, <3>4
    <3>6. \A q \in M, z \in Side : tree.kid[q][z] = tree.kid[above][w] => q = above /\ z = w
      BY <3>1, <3>3, ChildIs
    <3>7. above # r BY <1>2, <1>1, <1>3, <3>2
    <3> HIDE DEF s
    <3> QED BY <1>1, <2>1, <2>3, <3>1, <3>2, <3>5, <3>6, <3>7
  <2> QED BY <2>2, <2>3
<1>11. \A b \in M : tree.parent[b] = n => b = l \/ b = a
  <2> SUFFICES ASSUME NEW b \in M, tree.parent[b] = n PROVE b = l \/ b = a OBVIOUS
  <2>1. \E z \in Side : tree.kid[n][z] = b BY <1>1, <1>2, ParentIs
  <2> QED BY <1>2, <1>3, <2>1
<1>12. tree.parent[l] = n /\ tree.parent[a] = n
  <2>1. tree.kid[n]["right"] # None BY <1>1, <1>2
  <2> QED BY <1>2, <1>3, <2>1, ChildIs
<1> HIDE DEF s
<1>13. /\ t3 \in Trees /\ t3.root = (IF above = None THEN r ELSE tree.root)
       /\ \A x \in Nodes, z \in Side :
             t3.kid[x][z] = IF x = r /\ z = "left" THEN l
                            ELSE IF p # n /\ x = r /\ z = "right" THEN a
                            ELSE IF p # n /\ x = p /\ z = "left" THEN m
                            ELSE IF x = above /\ z = s THEN r ELSE tree.kid[x][z]
       /\ \A x \in Nodes :
             t3.parent[x] = IF x = l THEN r ELSE IF x = r THEN above
                            ELSE IF p # n /\ x = a THEN r
                            ELSE IF p # n /\ x = m THEN p ELSE tree.parent[x]
       /\ \A x \in Nodes : t3.color[x] = IF x = r THEN tree.color[n] ELSE tree.color[x]
  BY DEF Succeeded, s
<1>14. /\ tc.color = tree.color
       /\ tc.root = (IF tree.root = r THEN m ELSE tree.root)
       /\ \A b \in M \ {r}, z \in Side :
             tc.kid[b][z] = IF tree.kid[b][z] = r THEN m ELSE tree.kid[b][z]
       /\ \A b \in Nodes : tc.parent[b] = IF b = m THEN p ELSE tree.parent[b]
  BY <1>2 DEF Cuts
<1>15. t3.root = IF tc.root = n THEN r ELSE tc.root BY <1>10, <1>13, <1>14
<1>16. ASSUME NEW b \in (M \ {r}) \ {n}, NEW z \in Side
       PROVE  t3.kid[b][z] = IF tc.kid[b][z] = n THEN r ELSE tc.kid[b][z]
  <2>1. b \in Nodes /\ b \in M /\ b # r /\ b # n BY <1>1
  <2>2. t3.kid[b][z] = IF p # n /\ b = p /\ z = "left" THEN m
                       ELSE IF b = above /\ z = s THEN r ELSE tree.kid[b][z]
    BY <1>13, <2>1
  <2>3. tc.kid[b][z] = IF tree.kid[b][z] = r THEN m ELSE tree.kid[b][z] BY <1>14, <2>1
  <2> QED BY <1>6, <1>9, <1>10, <2>1, <2>2, <2>3
<1>17. ASSUME NEW z \in Side PROVE t3.kid[r][z] = tc.kid[n][z]
  <2>1. tc.kid[n][z] = IF tree.kid[n][z] = r THEN m ELSE tree.kid[n][z] BY <1>2, <1>14
  <2>2. r \in Nodes BY <1>1, <1>2
  <2>3. CASE z = "left" BY <1>8, <1>13, <2>1, <2>2, <2>3
  <2>4. CASE z = "right" /\ p # n BY <1>2, <1>13, <2>1, <2>2, <2>4
  <2>5. CASE z = "right" /\ p = n
    <3>1. t3.kid[r][z] = tree.kid[r]["right"] BY <1>10, <1>13, <2>2, <2>5
    <3> QED BY <1>2, <2>1, <2>5, <3>1
  <2> QED BY <1>3, <2>3, <2>4, <2>5
<1>18. t3.parent[r] = tc.parent[n] BY <1>1, <1>2, <1>6, <1>8, <1>13, <1>14
<1>19. ASSUME NEW b \in (M \ {r}) \ {n}
       PROVE  t3.parent[b] = IF tc.parent[b] = n THEN r ELSE tc.parent[b]
  <2>1. b \in Nodes /\ b \in M /\ b # r /\ b # n /\ b # None BY <1>1
  <2>2. t3.parent[b] = IF b = l THEN r ELSE IF p # n /\ b = a THEN r
                       ELSE IF p # n /\ b = m THEN p ELSE tree.parent[b]
    BY <1>13, <2>1
  <2>3. tc.parent[b] = IF b = m THEN p ELSE tree.parent[b] BY <1>14, <2>1
  <2>4. CASE b = l BY <1>6, <1>12, <2>2, <2>3, <2>4
  <2>5. CASE b = a BY <1>2, <1>6, <1>12, <2>1, <2>2, <2>3, <2>5
  <2>6. CASE b = m BY <1>2, <1>6, <1>7, <2>1, <2>2, <2>3, <2>6
  <2>7. CASE b # l /\ b # a /\ b # m BY <1>11, <2>1, <2>2, <2>3, <2>7
  <2> QED BY <2>4, <2>5, <2>6, <2>7
<1>20. t3.color[r] = tc.color[n] /\ \A b \in (M \ {r}) \ {n} : t3.color[b] = tc.color[b]
  BY <1>1, <1>2, <1>13, <1>14
<1>21. \A b \in (M \ {r}) \ {n}, z \in Side : /\ Beyond(Key, z, n, b) => Beyond(Key, z, r, b)
                                              /\ Beyond(Key, z, b, n) => Beyond(Key, z, b, r)
  BY <1>2
<1>22. n \in M \ {r} /\ r \in Nodes /\ r \notin M \ {r} /\ t3 \in Trees BY <1>1, <1>2, <1>13
<1> QED BY <1>15, <1>16, <1>17, <1>18, <1>19, <1>20, <1>21, <1>22 DEF TakesOver

LEMMA DeleteInnerKeeps ==
  ASSUME RBAssumption, NEW M, NEW sub, NEW bh, Sound(tree, job, M, sub, bh), Idle,
         NEW n \in M, \A s \in Side : tree.kid[n][s] # None, DeleteInner(n)
  PROVE  Holds(tree', job', M \ {n})
<1> DEFINE a == tree.kid[n]["right"]
           l == tree.kid[n]["left"]
           r == Extreme(a, "left")
           m == tree.kid[r]["right"]
           p == tree.parent[r]
           above == tree.parent[n]
           s == SideOf(tree, above, n)
           t1 == Replace(tree, above, n, r)
           t2 == IF p = n THEN t1
                 ELSE [SetParent(t1, m, p) EXCEPT
                          !.kid[p]["left"] = m, !.kid[r]["right"] = a, !.parent[a] = r]
           t3 == [t2 EXCEPT !.parent[r] = above, !.color[r] = tree.color[n],
                            !.kid[r]["left"] = l, !.parent[l] = r]
           q == IF p = n THEN r ELSE p
           tc == Replace(SetParent(tree, m, p), p, r, m)
           cut == CutOut(sub, M, None, r)
           M3 == ((M \ {r}) \ {n}) \cup {r}
<1>1. Spliced(t3, tree.color[r], m, q, n) BY DEF DeleteInner
<1>2. /\ job = NoJob /\ M = {b \in Nodes : tree.color[b] # "free"}
      /\ Hangs(tree, M, sub) /\ Reds(tree, M, None, None)
      /\ \A w : Even(tree, M, None, w, bh)
      /\ FreeAreLeaves(tree)
  BY IdleIs DEF Sound
<1>3. /\ M \subseteq Nodes /\ None \notin M /\ None \notin Nodes /\ tree \in Trees
      /\ \A b \in M, z \in Side : tree.kid[b][z] \in M \cup {None}
  BY <1>2, TreeFacts DEF Hangs
<1>4. "left" \in Side /\ "right" \in Side BY DEF Side
<1>5. Succeeds(M, sub, n, a, r, p)
  <2>1. tree.kid[n]["right"] # None BY <1>4
  <2> QED BY <1>2, <2>1, SuccessorIs
<1>6. l \in M /\ l # None BY <1>3, <1>4
<1> HIDE DEF a, r
<1>7. /\ n \in Nodes /\ a \in Nodes /\ r \in M /\ r \in Nodes /\ p \in Nodes /\ l \in Nodes
      /\ r # n /\ p # r /\ tree.kid[r]["left"] = None /\ tree.kid[r]["right"] # n
  BY <1>3, <1>5, <1>6 DEF Succeeds
<1>8. m \in Links /\ above \in Links
  <2>1. tree.kid[r]["right"] \in Links BY <1>3, <1>4, <1>7, FieldsOf
  <2>2. tree.parent[n] \in Links BY <1>3, <1>7, FieldsOf
  <2> QED BY <2>1, <2>2
<1>9. OneChild(tree, M, r, "right") /\ m = tree.kid[r]["right"] /\ p = tree.parent[r]
  BY <1>4, <1>7 DEF OneChild, Other
<1>10. l = tree.kid[n]["left"] /\ above = tree.parent[n] /\ m # n BY <1>7
<1> HIDE DEF m, p, l, above
<1>11. Cuts(tree, tc, M, r, m) /\ Hangs(tc, M \ {r}, cut) BY <1>2, <1>9, CutIs
<1> HIDE DEF tc, cut
<1>12. Spliceable(tc, M \ {r}, cut, bh, tree.color[r], m, p)
  <2>1. tree.color[r] # "free" BY <1>2, <1>7
  <2> QED BY <1>2, <1>9, <1>11, <2>1, CutSpliceable
<1>13. Vacated(t2, n, a, r, p, m, above, s)
  <2>1. CASE p = n
    <3>1. t2 = t1 BY <2>1
    <3>2. Vacated(t1, n, a, r, n, m, above, s) BY <1>3, <1>7, <1>8, VacatedAtOnce
    <3> HIDE DEF t1, t2, s
    <3> QED BY <2>1, <3>1, <3>2
  <2>2. CASE p # n
    <3>1. Vacated([SetParent(t1, m, p) EXCEPT
                      !.kid[p]["left"] = m, !.kid[r]["right"] = a, !.parent[a] = r],
                  n, a, r, p, m, above, s)
      BY <1>3, <1>7, <1>8, <2>2, VacatedBelow
    <3> QED BY <2>2, <3>1
  <2> QED BY <2>1, <2>2
<1> HIDE DEF t2
<1>14. Succeeded(t3, n, a, r, p, l, m, above, s) BY <1>3, <1>7, <1>8, <1>13, SucceededIs
<1> HIDE DEF t3
<1>15. TakesOver(tc, t3, M \ {r}, n, r)
  BY <1>2, <1>5, <1>6, <1>9, <1>10, <1>11, <1>14, SuccessorTakesOver
<1>16. CanSplice(t3, M3, tree.color[r], m, q)
  <2>1. /\ m # n /\ p # r /\ M3 = ((M \ {r}) \ {n}) \cup {r} /\ q = IF p = n THEN r ELSE p
    BY <1>7, <1>10
  <2> HIDE DEF s, t1, M3, q
  <2> DEFINE N == M \ {r}
             c == tree.color[r]
  <2>2. Spliceable(tc, N, cut, bh, c, m, p) /\ TakesOver(tc, t3, N, n, r) BY <1>12, <1>15
  <2>3. m # n /\ p # r /\ M3 = (N \ {n}) \cup {r} /\ q = IF p = n THEN r ELSE p BY <2>1
  <2> HIDE DEF N, c
  <2>4. SplicesTaken(tc, N, cut, bh, c, m, p, n, r, t3, M3, q)
    BY <2>2, <2>3, Zenon DEF SplicesTaken
  <2>5. CanSplice(t3, M3, c, m, q) BY <2>4, SpliceableWhenTaken, Zenon
  <2> QED BY <2>5 DEF c
<1>17. M3 = M \ {n} BY <1>7
<1> HIDE DEF M3, q
<1>18. PICK sub2, bh2 : Spliceable(t3, M \ {n}, sub2, bh2, tree.color[r], m, q)
  BY <1>16, <1>17 DEF CanSplice
<1>19. M \ {n} = {b \in Nodes : t3.color[b] # "free"} \ {n} /\ FreeAreLeaves(t3)
  <2>1. \A b \in Nodes : t3.color[b] = IF b = r THEN tree.color[n] ELSE tree.color[b]
    BY <1>14 DEF Succeeded
  <2>2. \A b \in Nodes : t3.color[b] # "free" <=> tree.color[b] # "free" BY <1>2, <1>7, <2>1
  <2>3. ASSUME NEW b \in Nodes, tree.color[b] = "free" PROVE t3.kid[b] = Leaf
    <3>1. b \notin M BY <1>2, <2>3
    <3>2. tree.kid[b] = Leaf BY <1>2, <2>3 DEF FreeAreLeaves
    <3>3. b # r /\ b # p /\ b # above
      <4>1. p \in M BY <1>5 DEF Succeeds
      <4>2. above \in M \cup {None} BY <1>2, <1>10, ParentIs
      <4> QED BY <1>3, <1>7, <3>1, <4>1, <4>2
    <3>4. \A z \in Side : t3.kid[b][z] = tree.kid[b][z] BY <1>14, <3>3 DEF Succeeded
    <3>5. t3.kid[b] \in [Side -> Links] /\ tree.kid[b] \in [Side -> Links]
      <4>1. t3 \in Trees BY <1>14 DEF Succeeded
      <4> QED BY <1>3, <4>1, FieldsOf
    <3>6. t3.kid[b] = tree.kid[b] BY <3>4, <3>5
    <3> QED BY <3>2, <3>6
  <2> QED BY <1>2, <2>2, <2>3 DEF FreeAreLeaves
<1>20. n \in Nodes /\ n \notin M \ {n} BY <1>7
<1> QED BY <1>1, <1>2, <1>18, <1>19, <1>20, SplicedHolds
-----------------------------------------------------------------------------
(* Every step. *)

LEMMA InitHolds == ASSUME RBAssumption, Init
                   PROVE  Holds(tree, job, {}) /\ call = Call("create", None, "ok")
<1> DEFINE sub == [c \in {None} |-> {}]
           bh == [c \in {None} |-> 0]
<1>1. /\ tree.root = None /\ job = NoJob /\ call = Call("create", None, "ok")
      /\ \A n \in Nodes : tree.color[n] = "free" /\ tree.kid[n] = Leaf /\ tree.parent[n] = None
  BY DEF Init
<1>2. tree \in Trees
  <2>1. Leaf \in [Side -> Links] BY DEF Leaf, Links
  <2> QED BY <2>1 DEF Init, Trees, Links
<1>3. Spans(sub, {}, tree.kid, tree.root, None) BY <1>1, FS_EmptySet DEF Spans
<1>4. SortedBy(sub, {}, tree.kid, Key) BY DEF SortedBy
<1>5. Hangs(tree, {}, sub) BY <1>1, <1>2, <1>3, <1>4 DEF Hangs, Linked
<1>6. Even(tree, {}, None, SideOf(tree, job.parent, job.node), bh) BY DEF Even
<1>7. Reds(tree, {}, None, None) BY <1>1 DEF Reds, IsRed
<1>8. JobSound(tree, job, {}) /\ Excused(job) = None /\ ShortBelow(tree, job) = None /\ job.node = None
      /\ InTree(tree, job) = {} /\ FreeAreLeaves(tree)
  BY <1>1, NoJobSound DEF InTree, FreeAreLeaves
<1>9. Sound(tree, job, {}, sub, bh) BY <1>5, <1>6, <1>7, <1>8 DEF Sound
<1> QED BY <1>1, <1>9 DEF Holds

LEMMA DestroyKeeps ==
  ASSUME RBAssumption, NEW M, NEW sub, NEW bh, Sound(tree, job, M, sub, bh), destroy_rbtree
  PROVE  Holds(tree', job', {})
<1> DEFINE sub2 == [c \in {None} |-> {}]
           bh2 == [c \in {None} |-> 0]
<1>1. /\ job = NoJob /\ M = {b \in Nodes : tree.color[b] # "free"} /\ FreeAreLeaves(tree)
      /\ Hangs(tree, M, sub) /\ tree \in Trees
  BY IdleIs, SoundFacts DEF destroy_rbtree
<1>2. Range(inorder) = M BY <1>1, OrderIs
<1>3. /\ tree' = [root |-> None,
                  kid |-> [n \in Nodes |-> IF n \in M THEN Leaf ELSE tree.kid[n]],
                  parent |-> [n \in Nodes |-> IF n \in M THEN None ELSE tree.parent[n]],
                  color |-> [n \in Nodes |-> IF n \in M THEN "free" ELSE tree.color[n]]]
      /\ job' = NoJob
  BY <1>1, <1>2 DEF destroy_rbtree
<1>4. \A n \in Nodes : tree'.color[n] = "free" /\ tree'.kid[n] = Leaf
  BY <1>1, <1>3 DEF FreeAreLeaves
<1>5. tree' \in Trees /\ tree'.root = None
  <2>1. Leaf \in [Side -> Links] /\ None \in Links BY DEF Leaf, Links
  <2>2. /\ tree.kid \in [Nodes -> [Side -> Links]] /\ tree.parent \in [Nodes -> Links]
        /\ tree.color \in [Nodes -> {"free", "red", "black"}]
    BY <1>1, FieldsOf
  <2> QED BY <1>3, <2>1, <2>2 DEF Trees
<1>6. Spans(sub2, {}, tree'.kid, tree'.root, None) BY <1>5, FS_EmptySet DEF Spans
<1>7. SortedBy(sub2, {}, tree'.kid, Key) BY DEF SortedBy
<1>8. Hangs(tree', {}, sub2) BY <1>5, <1>6, <1>7 DEF Hangs, Linked
<1>9. Even(tree', {}, None, SideOf(tree', job'.parent, job'.node), bh2) BY DEF Even
<1>10. Reds(tree', {}, None, None) BY <1>5 DEF Reds, IsRed
<1>11. /\ JobSound(tree', job', {}) /\ Excused(job') = None /\ ShortBelow(tree', job') = None
       /\ job'.node = None /\ InTree(tree', job') = {} /\ FreeAreLeaves(tree')
  BY <1>3, <1>4, NoJobSound DEF InTree, FreeAreLeaves
<1>12. Sound(tree', job', {}, sub2, bh2) BY <1>8, <1>9, <1>10, <1>11 DEF Sound
<1> QED BY <1>12 DEF Holds

\* What a step does to the nodes the tree holds.
Results == {"ok", "err"} \cup Links

LEMMA FixupKeeps ==
  ASSUME RBAssumption, NEW M, NEW sub, NEW bh, Sound(tree, job, M, sub, bh), Fixup
  PROVE  Holds(tree', job', M) /\ call' = call
<1>1. call' = call
  BY DEF Fixup, UncleIsRed, UncleIsBlack, InsertDone, SiblingIsRed, NephewsAreBlack, NephewIsRed,
         DeleteDone
<1>2. Holds(tree', job', M)
  BY UncleIsRedKeeps, UncleIsBlackKeeps, InsertDoneKeeps, SiblingIsRedKeeps, NephewsAreBlackKeeps,
     NephewIsRedKeeps, DeleteDoneKeeps
     DEF Fixup
<1> QED BY <1>1, <1>2

LEMMA InsertKeeps ==
  ASSUME RBAssumption, NEW M, NEW sub, NEW bh, Sound(tree, job, M, sub, bh),
         NEW k \in Nodes, NEW room \in BOOLEAN, insert_rbtree(k, room)
  PROVE  \/ /\ k \notin M /\ Holds(tree', job', M \cup {k})
            /\ call' = Call("insert", <<k, TRUE>>, "ok")
         \/ /\ ~room \/ k \in M
            /\ Holds(tree', job', M)
            /\ call' = Call("insert", <<k, room>>, "err")
<1>1. Idle BY DEF insert_rbtree
<1>2. CASE search(k) = None /\ Attach(k)
  <2>1. Holds(tree', job', M \cup {k}) BY <1>1, <1>2, AttachKeeps
  <2>2. k \notin M BY <1>1, <1>2, IdleIs
  <2>3. call' = Call("insert", <<k, TRUE>>, "ok") BY <1>2 DEF Attach
  <2> QED BY <2>1, <2>2, <2>3
<1>3. CASE (search(k) # None \/ ~room) /\ InsertFails(k, room)
  <2>1. tree' = tree /\ job' = job /\ call' = Call("insert", <<k, room>>, "err")
    BY <1>3 DEF InsertFails
  <2>2. Holds(tree', job', M) BY <2>1 DEF Holds
  <2>3. ~room \/ k \in M BY <1>1, <1>3, IdleIs
  <2> QED BY <2>1, <2>2, <2>3
<1> QED BY <1>2, <1>3 DEF insert_rbtree

LEMMA DeleteKeeps ==
  ASSUME RBAssumption, NEW M, NEW sub, NEW bh, Sound(tree, job, M, sub, bh),
         NEW k \in Nodes, delete_rbtree(k)
  PROVE  Holds(tree', job', M \ {k}) /\ call' = Call("remove", Key[k], "ok")
<1>1. Idle /\ call' = Call("remove", Key[k], "ok") BY DEF delete_rbtree
<1>2. CASE search(k) = None /\ UNCHANGED <<tree, job>>
  <2>1. k \notin M BY <1>1, <1>2, IdleIs
  <2>2. M \ {k} = M BY <2>1
  <2>3. tree' = tree /\ job' = job BY <1>2
  <2> QED BY <1>1, <2>2, <2>3 DEF Holds
<1>3. CASE search(k) # None
  <2>1. k \in M BY <1>1, <1>3, IdleIs
  <2>2. CASE \A s \in Side : tree.kid[k][s] # None
    <3>1. DeleteInner(k) BY <1>3, <2>2 DEF delete_rbtree
    <3> QED BY <1>1, <2>1, <2>2, <3>1, DeleteInnerKeeps
  <2>3. CASE ~\A s \in Side : tree.kid[k][s] # None
    <3>1. DeleteOuter(k) BY <1>3, <2>3 DEF delete_rbtree
    <3> QED BY <1>1, <2>1, <2>3, <3>1, DeleteOuterKeeps
  <2> QED BY <2>2, <2>3
<1> QED BY <1>2, <1>3 DEF delete_rbtree

\* Whatever a step does, it leaves a sound tree with one node more, one less, the same or none.
Steps(M, M2, answer) ==
    \/ M2 = M /\ answer = call
    \/ \E k \in Nodes :
          \/ k \notin M /\ M2 = M \cup {k} /\ answer = Call("insert", <<k, TRUE>>, "ok")
          \/ \E room \in BOOLEAN : /\ ~room \/ k \in M
                                  /\ M2 = M /\ answer = Call("insert", <<k, room>>, "err")
          \/ M2 = M \ {k} /\ answer = Call("remove", Key[k], "ok")
          \/ M2 = M /\ answer = Call("search", Key[k], IF k \in M THEN k ELSE None)
    \/ M2 = {} /\ answer = Call("clear", None, "ok")

LEMMA EveryStep ==
  ASSUME RBAssumption, NEW M, NEW sub, NEW bh, Sound(tree, job, M, sub, bh), [Next]_vars
  PROVE  \E M2 : Holds(tree', job', M2) /\ Steps(M, M2, call')
<1>1. ASSUME NEW k \in Nodes, NEW room \in BOOLEAN, insert_rbtree(k, room)
      PROVE  \E M2 : Holds(tree', job', M2) /\ Steps(M, M2, call')
  BY <1>1, InsertKeeps DEF Steps
<1>2. ASSUME NEW k \in Nodes, delete_rbtree(k)
      PROVE  \E M2 : Holds(tree', job', M2) /\ Steps(M, M2, call')
  BY <1>2, DeleteKeeps DEF Steps
<1>3. ASSUME NEW k \in Nodes, rbtree_search(k)
      PROVE  \E M2 : Holds(tree', job', M2) /\ Steps(M, M2, call')
  <2>1. tree' = tree /\ job' = job /\ call' = Call("search", Key[k], search(k))
    BY <1>3 DEF rbtree_search
  <2>2. search(k) = (IF k \in M THEN k ELSE None) BY <1>3, IdleIs DEF rbtree_search
  <2>3. Holds(tree', job', M) BY <2>1 DEF Holds
  <2>4. Steps(M, M, call') BY <2>1, <2>2 DEF Steps
  <2> QED BY <2>3, <2>4
<1>4. ASSUME destroy_rbtree PROVE \E M2 : Holds(tree', job', M2) /\ Steps(M, M2, call')
  <2>1. call' = Call("clear", None, "ok") BY <1>4 DEF destroy_rbtree
  <2>2. Holds(tree', job', {}) BY <1>4, DestroyKeeps
  <2> QED BY <2>1, <2>2 DEF Steps
<1>5. ASSUME Fixup PROVE \E M2 : Holds(tree', job', M2) /\ Steps(M, M2, call')
  <2>1. Holds(tree', job', M) /\ call' = call BY <1>5, FixupKeeps
  <2> QED BY <2>1 DEF Steps
<1>6. CASE UNCHANGED vars
  <2>1. tree' = tree /\ job' = job /\ call' = call BY <1>6 DEF vars
  <2>2. Holds(tree', job', M) BY <2>1 DEF Holds
  <2> QED BY <2>1, <2>2 DEF Steps
<1> QED BY <1>1, <1>2, <1>3, <1>4, <1>5, <1>6 DEF Next

LEMMA StepRB == ASSUME RBAssumption, RBInv, [Next]_vars PROVE RBInv'
<1>1. PICK M, sub, bh : Sound(tree, job, M, sub, bh) BY DEF RBInv, TreeSound
<1>2. PICK M2 : Holds(tree', job', M2) /\ Steps(M, M2, call') BY <1>1, EveryStep
<1>3. TreeSound(tree', job') BY <1>2 DEF Holds, TreeSound
<1>4. call.ret \in Results BY DEF RBInv, Results
<1>5. call'.ret \in Results
  <2>1. CASE call' = call BY <1>4, <2>1
  <2>2. ASSUME NEW name, NEW arg, NEW ret, call' = Call(name, arg, ret)
        PROVE  call'.ret = ret
    BY <2>2 DEF Call
  <2>3. ASSUME NEW k \in Nodes, call' = Call("search", Key[k], IF k \in M THEN k ELSE None)
        PROVE  call'.ret \in Results
    <3>1. call'.ret = (IF k \in M THEN k ELSE None) BY <2>2, <2>3
    <3> QED BY <3>1 DEF Results, Links
  <2>4. ASSUME NEW name, NEW arg, NEW ret \in {"ok", "err"}, call' = Call(name, arg, ret)
        PROVE  call'.ret \in Results
    <3>1. call'.ret = ret BY <2>2, <2>4
    <3> QED BY <3>1 DEF Results
  <2>5. CASE \E k \in Nodes : \/ call' = Call("insert", <<k, TRUE>>, "ok")
                             \/ call' = Call("remove", Key[k], "ok")
                             \/ \E room \in BOOLEAN : call' = Call("insert", <<k, room>>, "err")
    BY <2>4, <2>5
  <2>6. CASE call' = Call("clear", None, "ok") BY <2>4, <2>6
  <2>7. CASE \E k \in Nodes : call' = Call("search", Key[k], IF k \in M THEN k ELSE None)
    BY <2>3, <2>7
  <2> QED BY <1>2, <2>1, <2>5, <2>6, <2>7 DEF Steps
<1> QED BY <1>3, <1>5 DEF RBInv, Results

\* What a caller could ask of the tree and of its neighbours holds of a sound tree.
LEMMA RBInvThen == ASSUME RBAssumption, RBInv PROVE RedBlackButOne
<1>1. PICK M, sub, bh : Sound(tree, job, M, sub, bh) BY DEF RBInv, TreeSound
<1>2. /\ M = InTree(tree, job) /\ Hangs(tree, M, sub) /\ tree \in Trees
      /\ Even(tree, M, ShortBelow(tree, job), SideOf(tree, job.parent, job.node), bh)
      /\ Reds(tree, M, job.node, Excused(job)) /\ JobSound(tree, job, M)
      /\ M \subseteq Nodes /\ None \notin M /\ tree.root \in M \cup {None}
  BY <1>1, SoundFacts
<1>3. M = Allocated BY <1>2 DEF InTree, Allocated
<1>4. TypeOK BY <1>2, <1>3 DEF TypeOK, RBInv, JobSound, Trees
<1>5. /\ Range(inorder) = M /\ Len(inorder) \in Nat
      /\ \A i, j \in 1 .. Len(inorder) : i < j => Key[inorder[i]] < Key[inorder[j]]
  BY <1>2, OrderIs
<1>6. \A i \in 2 .. Len(inorder) : Key[inorder[i - 1]] < Key[inorder[i]]
  <2> SUFFICES ASSUME NEW i \in 2 .. Len(inorder) PROVE Key[inorder[i - 1]] < Key[inorder[i]]
    OBVIOUS
  <2>1. i - 1 \in 1 .. Len(inorder) /\ i \in 1 .. Len(inorder) /\ i - 1 < i BY <1>5
  <2> QED BY <1>5, <2>1
<1>7. NeighboursAgree BY <1>2, NeighboursDoAgree
<1>8. Linked(tree, M) BY <1>2, TreeFacts
<1>9. WellFormed BY <1>3, <1>4, <1>5, <1>6, <1>7, <1>8 DEF WellFormed, Linked
<1>10. Cardinality(BlackCounts) = 1
  <2>1. Even(tree, M, ShortAt, ShortOn, bh) BY <1>2 DEF ShortAt, ShortOn, ShortBelow
  <2> QED BY <1>2, <2>1, BlackCountsAre
<1>11. ASSUME NEW n \in Allocated \ {job.node}, Red(n)
       PROVE  /\ n # tree.root
              /\ Red(tree.parent[n]) => job.kind = "delete" /\ tree.parent[n] = job.node
  <2>1. n \in M /\ n # job.node /\ IsRed(tree, n) BY <1>3, <1>11 DEF Red, IsRed
  <2>2. n # tree.root BY <1>2, <2>1 DEF Reds
  <2>3. ASSUME Red(tree.parent[n]) PROVE job.kind = "delete" /\ tree.parent[n] = job.node
    <3>1. PICK s \in Side : tree.parent[n] \in M /\ tree.kid[tree.parent[n]][s] = n
      BY <1>2, <2>1, <2>2, ParentIs
    <3>2. RedPair(tree, tree.parent[n], s) BY <2>1, <2>3, <3>1 DEF RedPair, IsRed, Red
    <3>3. tree.parent[n] = Excused(job) BY <1>2, <2>1, <3>1, <3>2 DEF Reds
    <3>4. tree.parent[n] # None BY <1>2, <3>1
    <3> QED BY <3>3, <3>4 DEF Excused
  <2> QED BY <2>2, <2>3
<1> QED BY <1>9, <1>10, <1>11 DEF RedBlackButOne

LEMMA HeldIs ==
  ASSUME RBAssumption, NEW t, NEW j, NEW M, Holds(t, j, M), t = tree
  PROVE  {n \in Nodes : search(n) # None} = M
<1>1. PICK sub, bh : Sound(tree, j, M, sub, bh) BY DEF Holds
<1>2. Hangs(tree, M, sub) /\ M \subseteq Nodes /\ None \notin M BY <1>1, SoundFacts
<1>3. \A k \in Nodes : search(k) = IF k \in M THEN k ELSE None BY <1>2, SearchIs
<1> QED BY <1>2, <1>3
-----------------------------------------------------------------------------
(* The composition. *)

LEMMA RBAssumed == RBAssumption
BY NodesAssumption, KeyAssumption DEF RBAssumption

\* Beside ConnOpen the tree still steps as module RBTree says.
LEMMA StepsOfTheTree == MCSpec => Init /\ [][Next]_vars
<1>1. MCInit => Init BY DEF MCInit
<1>2. [MCNext]_<<openVars, vars, use>> => [Next]_vars
  BY Zenon DEF MCNext, OnTree, OnConn, Next, Fixup
<1> QED BY <1>1, <1>2, PTL DEF MCSpec

LEMMA RBInvariance == MCSpec => []RBInv
<1>1. Init => RBInv
  <2> SUFFICES ASSUME Init PROVE RBInv OBVIOUS
  <2>1. Holds(tree, job, {}) /\ call.ret = "ok" BY RBAssumed, InitHolds DEF Call
  <2> QED BY <2>1 DEF RBInv, TreeSound, Holds
<1>2. RBInv /\ [Next]_vars => RBInv' BY RBAssumed, StepRB
<1> QED BY <1>1, <1>2, StepsOfTheTree, PTL

\* In every state, between the rotations of a fixup too, the nodes allocated hang once each
\* and in order, the child and the parent fields agree, minimum, maximum, successor and
\* predecessor say so, as many black nodes are on every path but the one a delete's loop
\* is at, and no red node has a red child but where a loop is: so the tree is red-black
\* whenever rbtree_insert or rbtree_delete returns.
THEOREM RedBlackThroughout == MCSpec => []RedBlackButOne
<1>1. RBInv => RedBlackButOne BY RBAssumed, RBInvThen
<1> QED BY <1>1, RBInvariance, PTL

\* What rbtree_search finds are the nodes in the tree.
Agrees == {n \in Nodes : search(n) # None} = InTree(tree, job)

LEMMA Found == RBInv => Agrees
<1> SUFFICES ASSUME RBInv PROVE Agrees OBVIOUS
<1>1. PICK M, sub, bh : Sound(tree, job, M, sub, bh) BY DEF RBInv, TreeSound
<1>2. M = InTree(tree, job) /\ Holds(tree, job, M) BY <1>1 DEF Sound, Holds
<1>3. {n \in Nodes : search(n) # None} = M BY <1>2, RBAssumed, HeldIs
<1> QED BY <1>2, <1>3 DEF Agrees

LEMMA StepOfASet ==
  ASSUME RBInv, Agrees, Agrees', [Next]_vars PROVE [Set!Next]_(Set!keyedVars)
<1> DEFINE H == {n \in Nodes : search(n) # None}
<1>1. PICK M, sub, bh : Sound(tree, job, M, sub, bh) BY DEF RBInv, TreeSound
<1>2. PICK M2 : Holds(tree', job', M2) /\ Steps(M, M2, call') BY <1>1, RBAssumed, EveryStep
<1>3. M = InTree(tree, job) /\ M \subseteq Nodes /\ None \notin Nodes
  BY <1>1, RBAssumed, SoundFacts
<1>4. M2 = InTree(tree', job') BY <1>2 DEF Holds, Sound
<1>5. H = M /\ H' = M2 BY <1>3, <1>4 DEF Agrees
<1>6. \A k \in Nodes : Set!Equal(Key[k]) = {n \in H : Key[n] = Key[k]} BY DEF Set!Equal
<1> HIDE DEF H
<1>7. \A k \in Nodes : Set!Equal(Key[k]) = IF k \in M THEN {k} ELSE {}
  <2>1. \A a, b \in Nodes : Key[a] = Key[b] => a = b BY KeyAssumption DEF IsInjective
  <2> QED BY <1>3, <1>5, <1>6, <2>1
<1>8. CASE M2 = M /\ call' = call BY <1>5, <1>8 DEF Set!keyedVars, H
<1>9. ASSUME NEW k \in Nodes, k \notin M, M2 = M \cup {k},
             call' = Call("insert", <<k, TRUE>>, "ok")
      PROVE  Set!Insert(k, TRUE)
  BY <1>5, <1>7, <1>9 DEF Set!Insert, H, Call, Set!Call
<1>10. ASSUME NEW k \in Nodes, NEW room \in BOOLEAN, ~room \/ k \in M, M2 = M,
              call' = Call("insert", <<k, room>>, "err")
       PROVE  Set!Insert(k, room)
  BY <1>5, <1>7, <1>10 DEF Set!Insert, H, Call, Set!Call
<1>11. ASSUME NEW k \in Nodes, M2 = M \ {k}, call' = Call("remove", Key[k], "ok")
       PROVE  Set!Remove(Key[k])
  BY <1>5, <1>7, <1>11 DEF Set!Remove, H, Call, Set!Call
<1>12. ASSUME NEW k \in Nodes, M2 = M,
              call' = Call("search", Key[k], IF k \in M THEN k ELSE None)
       PROVE  Set!Search(Key[k])
  BY <1>5, <1>7, <1>12 DEF Set!Search, H, Call, Set!Call
<1>13. ASSUME M2 = {}, call' = Call("clear", None, "ok") PROVE Set!Clear
  BY <1>5, <1>13 DEF Set!Clear, H, Call, Set!Call
<1> QED BY <1>2, <1>8, <1>9, <1>10, <1>11, <1>12, <1>13 DEF Steps, Set!Next

\* Calls of rbtree_insert, rbtree_delete, rbtree_search and destroy_rbtree are those of a set
\* of integers: no rotation or color change of a fixup loses a key or brings one back.
THEOREM RBTreeRefinesSet == MCSpec => TreeIsSet
<1>1. Init => Set!Init
  <2> SUFFICES ASSUME Init PROVE Set!Init OBVIOUS
  <2>1. Holds(tree, job, {}) /\ call = Call("create", None, "ok") BY RBAssumed, InitHolds
  <2>2. {n \in Nodes : search(n) # None} = {} BY <2>1, RBAssumed, HeldIs
  <2> QED BY <2>1, <2>2 DEF Set!Init, Call, Set!Call
<1>2. RBInv /\ Agrees /\ Agrees' /\ [Next]_vars => [Set!Next]_(Set!keyedVars)
  BY StepOfASet
<1> QED BY <1>1, <1>2, Found, RBInvariance, StepsOfTheTree, PTL
      DEF TreeIsSet, ImplementsSet, Set!Spec
=============================================================================
