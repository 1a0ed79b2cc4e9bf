---------------------------- MODULE QueuesProofs ----------------------------
(***************************************************************************)
(* Proofs about the queue and the stack of MCQueues, for every set of      *)
(* threads and nodes, every maximum length and every width of nodecount:   *)
(* first PQueue, then Stack, then the stack beside the queue.  IInv and    *)
(* StackInv are inductive; the properties the runs check follow from them. *)
(***************************************************************************)
EXTENDS MCQueues, SequenceTheorems, FiniteSetTheorems, TLAPS

\* The index arithmetic of the ring: (i + 1) % M wraps exactly at M - 1.
LEMMA Wrap == ASSUME NEW M \in Nat \ {0}, NEW i \in 0 .. M - 1
              PROVE  (i + 1) % M = IF i = M - 1 THEN 0 ELSE i + 1
<1>1. CASE i = M - 1
  <2>1. i + 1 = M BY <1>1
  <2>2. M % M = 0 BY SMT
  <2> QED BY <1>1, <2>1, <2>2
<1>2. CASE i # M - 1
  <2>1. i + 1 \in 0 .. M - 1 BY <1>2
  <2>2. \A j \in 0 .. M - 1 : j % M = j BY SMT
  <2> QED BY <1>2, <2>1, <2>2
<1> QED BY <1>1, <1>2

\* Advancing top or tail keeps it inside the slots pqueue_create allocated.
LEMMA NextIndex == ASSUME maxlen = MaxLen, NEW i \in Slots
                   PROVE  /\ Next1(i) \in Slots
                          /\ Next1(i) = IF i = MaxLen - 1 THEN 0 ELSE i + 1
BY Wrap, MaxLenAssumption DEF Next1, Slots

LEMMA InitIInv == Init => IInv
<1> SUFFICES ASSUME Init PROVE IInv
  OBVIOUS
<1> USE NoneAssumption, MaxLenAssumption, ZeroedAssumption
<1>1. held \in [Threads -> SUBSET Nodes]
  BY DEF Init
<1>2. TypeOK
  BY <1>1 DEF Init, TypeOK, Slots, InLock
<1>3. MutualExclusion /\ CountExact
  BY DEF Init, MutualExclusion, CountExact, InLock, Used, pqueue_count
<1>4. SlotsSound /\ CallsSound
  BY DEF Init, SlotsSound, CallsSound, Live, Slots, PastTest, Carrying
<1> QED BY <1>2, <1>3, <1>4 DEF IInv

LEMMA StepIInv == IInv /\ [Next]_vars => IInv'
<1> SUFFICES ASSUME IInv, [Next]_vars PROVE IInv'
  OBVIOUS
<1> USE NoneAssumption, MaxLenAssumption, ZeroedAssumption
<1> USE DEF IInv, Goto, ring, fate, Full, Empty, CanLock
<1>1. ASSUME NEW t \in Threads, AddCall(t) PROVE IInv'
  <2> USE <1>1 DEF AddCall
  <2>1. TypeOK' BY DEF TypeOK, InLock
  <2>2. MutualExclusion' BY DEF TypeOK, MutualExclusion, InLock
  <2>3. CountExact' BY DEF TypeOK, CountExact, Used, pqueue_count
  <2>4. SlotsSound' BY DEF SlotsSound, Live
  <2>5. CallsSound' BY DEF TypeOK, CallsSound, PastTest, Carrying, Used
  <2> QED BY <2>1, <2>2, <2>3, <2>4, <2>5
<1>2. ASSUME NEW t \in Threads, GetCall(t) PROVE IInv'
  <2> USE <1>2 DEF GetCall
  <2>1. TypeOK' BY DEF TypeOK, InLock
  <2>2. MutualExclusion' BY DEF TypeOK, MutualExclusion, InLock
  <2>3. CountExact' BY DEF TypeOK, CountExact, Used, pqueue_count
  <2>4. SlotsSound' BY DEF SlotsSound, Live
  <2>5. CallsSound' BY DEF TypeOK, CallsSound, PastTest, Carrying, Used
  <2> QED BY <2>1, <2>2, <2>3, <2>4, <2>5
<1>3. ASSUME NEW t \in Threads, Lock(t) PROVE IInv'
  <2> USE <1>3 DEF Lock
  <2>1. TypeOK' BY DEF TypeOK, InLock
  <2>2. MutualExclusion' BY DEF TypeOK, MutualExclusion, InLock
  <2>3. CountExact' BY DEF TypeOK, CountExact, Used, pqueue_count
  <2>4. SlotsSound' BY DEF SlotsSound, Live
  <2>5. CallsSound' BY DEF TypeOK, CallsSound, PastTest, Carrying, Used
  <2> QED BY <2>1, <2>2, <2>3, <2>4, <2>5
<1>4. ASSUME NEW t \in Threads, AddDivideByZero(t) PROVE IInv'
  <2> USE <1>4 DEF AddDivideByZero
  <2>1. TypeOK' BY DEF TypeOK, InLock
  <2>2. MutualExclusion' BY DEF TypeOK, MutualExclusion, InLock
  <2>3. CountExact' BY DEF TypeOK, CountExact, Used, pqueue_count
  <2>4. SlotsSound' BY DEF SlotsSound, Live
  <2>5. CallsSound' BY DEF TypeOK, CallsSound, PastTest, Carrying, Used
  <2> QED BY <2>1, <2>2, <2>3, <2>4, <2>5
<1>5. ASSUME NEW t \in Threads, AddFull(t) PROVE IInv'
  <2> USE <1>5 DEF AddFull, Unlock
  <2>1. TypeOK'
    <3>1. node[t] \in Nodes BY DEF CallsSound, Carrying
    <3> QED BY <3>1 DEF TypeOK, InLock
  <2>2. MutualExclusion' BY DEF TypeOK, MutualExclusion, InLock
  <2>3. CountExact' BY DEF TypeOK, CountExact, Used, pqueue_count
  <2>4. SlotsSound' BY DEF SlotsSound, Live
  <2>5. CallsSound' BY DEF TypeOK, CallsSound, PastTest, Carrying, Used
  <2> QED BY <2>1, <2>2, <2>3, <2>4, <2>5
<1>6. ASSUME NEW t \in Threads, AddStore(t) PROVE IInv'
  <2> USE <1>6 DEF AddStore
  <2>1. node[t] \in Nodes BY DEF CallsSound, Carrying
  <2>2. TypeOK' BY <2>1 DEF TypeOK, InLock
  <2>3. MutualExclusion' BY DEF TypeOK, MutualExclusion, InLock
  <2>4. CountExact' BY DEF TypeOK, CountExact, Used, pqueue_count
  <2>5. top \notin Live BY DEF TypeOK, Live, Slots
  <2>6. SlotsSound' BY <2>1, <2>5 DEF TypeOK, SlotsSound, Live
  <2>7. Used < MaxLen - 1
    <3>1. maxlen = MaxLen /\ top \in Slots /\ tail \in Slots BY DEF TypeOK
    <3>2. Next1(top) = IF top = MaxLen - 1 THEN 0 ELSE top + 1 BY <3>1, NextIndex
    <3>3. Next1(top) # tail OBVIOUS
    <3> QED BY <3>1, <3>2, <3>3 DEF Used, Slots
  <2>8. CallsSound'
    <3>1. \A u \in Threads : u # t => pc[u] \notin InLock
      BY DEF TypeOK, MutualExclusion, InLock
    <3> QED BY <2>1, <2>7, <3>1
            DEF TypeOK, CallsSound, PastTest, Carrying, Used, InLock
  <2> QED BY <2>2, <2>3, <2>4, <2>6, <2>8
<1>7. ASSUME NEW t \in Threads, AddTop(t) PROVE IInv'
  <2> USE <1>7 DEF AddTop
  <2>1. maxlen = MaxLen /\ top \in Slots /\ tail \in Slots /\ Used < MaxLen - 1
    BY DEF TypeOK, CallsSound, PastTest
  <2>2. top' = IF top = MaxLen - 1 THEN 0 ELSE top + 1
    BY <2>1, NextIndex
  <2>3. Used' = Used + 1 /\ top' \in Slots
    BY <2>1, <2>2 DEF Used, Slots
  <2>4. Live' = Live \cup {top}
    BY <2>1, <2>2 DEF Used, Live, Slots
  <2>5. \A u \in Threads : u # t => pc[u] \notin InLock
    BY DEF TypeOK, MutualExclusion, InLock
  <2>6. TypeOK' BY <2>3 DEF TypeOK, InLock
  <2>7. MutualExclusion' BY DEF TypeOK, MutualExclusion, InLock
  <2>8. Used \in Nat BY <2>1 DEF Used, Slots
  <2>9. CountExact'
    <3>1. len = Used BY <2>5, <2>8 DEF TypeOK, CountExact, pqueue_count, InLock
    <3> QED BY <2>3, <2>5, <2>8, <3>1 DEF TypeOK, CountExact, pqueue_count, InLock
  <2>10. SlotsSound' BY <2>1, <2>4 DEF SlotsSound, CallsSound, Carrying
  <2>11. CallsSound'
    BY <2>1, <2>3, <2>5, <2>8 DEF TypeOK, CallsSound, PastTest, Carrying, InLock
  <2> QED BY <2>6, <2>7, <2>9, <2>10, <2>11
<1>8. ASSUME NEW t \in Threads, AddReturn(t) PROVE IInv'
  <2> USE <1>8 DEF AddReturn, Unlock
  <2>1. \A u \in Threads : u # t => pc[u] \notin InLock
    BY DEF TypeOK, MutualExclusion, InLock
  <2>2. Used \in 0 .. MaxLen - 1 BY DEF TypeOK, Used, Slots
  <2>3. len = Used - 1
    BY <2>1, <2>2 DEF TypeOK, CountExact, pqueue_count, InLock
  <2>4. TypeOK' BY <2>2, <2>3 DEF TypeOK, InLock
  <2>5. MutualExclusion' BY DEF TypeOK, MutualExclusion, InLock
  <2>6. Used' = Used BY DEF Used
  <2>7. CountExact'
    BY <2>1, <2>2, <2>3, <2>6 DEF TypeOK, CountExact, pqueue_count, InLock
  <2>8. SlotsSound' BY DEF SlotsSound, Live
  <2>9. CallsSound' BY <2>6 DEF TypeOK, CallsSound, PastTest, Carrying
  <2> QED BY <2>4, <2>5, <2>7, <2>8, <2>9
<1>9. ASSUME NEW t \in Threads, GetEmpty(t) PROVE IInv'
  <2> USE <1>9 DEF GetEmpty, Unlock
  <2>1. TypeOK' BY DEF TypeOK, InLock
  <2>2. MutualExclusion' BY DEF TypeOK, MutualExclusion, InLock
  <2>3. CountExact' BY DEF TypeOK, CountExact, Used, pqueue_count
  <2>4. SlotsSound' BY DEF SlotsSound, Live
  <2>5. CallsSound' BY DEF TypeOK, CallsSound, PastTest, Carrying, Used
  <2> QED BY <2>1, <2>2, <2>3, <2>4, <2>5
<1>10. ASSUME NEW t \in Threads, GetRead(t) PROVE IInv'
  <2> USE <1>10 DEF GetRead
  <2>1. maxlen = MaxLen BY DEF TypeOK, SlotsSound
  <2>2. tail \in Live /\ Used > 0 BY <2>1 DEF TypeOK, Live, Used, Slots
  <2>3. slot[tail] \in Nodes BY <2>2 DEF SlotsSound
  <2>4. TypeOK' BY <2>3 DEF TypeOK, InLock
  <2>5. MutualExclusion' BY DEF TypeOK, MutualExclusion, InLock
  <2>6. CountExact' BY DEF TypeOK, CountExact, Used, pqueue_count
  <2>7. SlotsSound' BY DEF SlotsSound, Live
  <2>8. Used' = Used BY DEF Used
  <2>9. CallsSound'
    BY <2>1, <2>2, <2>3, <2>8 DEF TypeOK, CallsSound, PastTest, Carrying
  <2> QED BY <2>4, <2>5, <2>6, <2>7, <2>9
<1>11. ASSUME NEW t \in Threads, GetTail(t) PROVE IInv'
  <2> USE <1>11 DEF GetTail
  <2>1. maxlen = MaxLen /\ top \in Slots /\ tail \in Slots /\ Used > 0
    BY DEF TypeOK, CallsSound, PastTest
  <2>2. tail' = IF tail = MaxLen - 1 THEN 0 ELSE tail + 1
    BY <2>1, NextIndex
  <2>3. Used' = Used - 1 /\ tail' \in Slots
    BY <2>1, <2>2 DEF Used, Slots
  <2>4. Live' \subseteq Live
    BY <2>1, <2>2 DEF Used, Live, Slots
  <2>5. \A u \in Threads : u # t => pc[u] \notin InLock
    BY DEF TypeOK, MutualExclusion, InLock
  <2>6. TypeOK' BY <2>3 DEF TypeOK, InLock
  <2>7. MutualExclusion' BY DEF TypeOK, MutualExclusion, InLock
  <2>8. Used \in 0 .. MaxLen - 1 BY <2>1 DEF Used, Slots
  <2>9. CountExact'
    <3>1. len = Used BY <2>5, <2>8 DEF TypeOK, CountExact, pqueue_count, InLock
    <3> QED BY <2>3, <2>5, <2>8, <3>1 DEF TypeOK, CountExact, pqueue_count, InLock
  <2>10. SlotsSound' BY <2>1, <2>4 DEF SlotsSound
  <2>11. CallsSound'
    BY <2>1, <2>3, <2>5, <2>8 DEF TypeOK, CallsSound, PastTest, Carrying, InLock
  <2> QED BY <2>6, <2>7, <2>9, <2>10, <2>11
<1>12. ASSUME NEW t \in Threads, GetReturn(t) PROVE IInv'
  <2> USE <1>12 DEF GetReturn, Unlock
  <2>1. \A u \in Threads : u # t => pc[u] \notin InLock
    BY DEF TypeOK, MutualExclusion, InLock
  <2>2. Used \in 0 .. MaxLen - 2 /\ node[t] \in Nodes
    BY DEF TypeOK, CallsSound, Carrying, Used, Slots
  <2>3. len = Used + 1
    BY <2>1, <2>2 DEF TypeOK, CountExact, pqueue_count, InLock
  <2>4. TypeOK' BY <2>2, <2>3 DEF TypeOK, InLock
  <2>5. MutualExclusion' BY DEF TypeOK, MutualExclusion, InLock
  <2>6. Used' = Used BY DEF Used
  <2>7. CountExact'
    BY <2>1, <2>2, <2>3, <2>6 DEF TypeOK, CountExact, pqueue_count, InLock
  <2>8. SlotsSound' BY DEF SlotsSound, Live
  <2>9. CallsSound' BY <2>6 DEF TypeOK, CallsSound, PastTest, Carrying
  <2> QED BY <2>4, <2>5, <2>7, <2>8, <2>9
<1>13. ASSUME PQueueInit PROVE IInv'
  <2> USE <1>13 DEF PQueueInit, Quiescent
  <2>1. TypeOK'
    <3>1. freed' \in SUBSET Nodes BY DEF TypeOK, Slots, Released
    <3>2. dropped' \in SUBSET Nodes BY DEF TypeOK, SlotsSound
    <3> QED BY <3>1, <3>2 DEF TypeOK, Slots
  <2>2. MutualExclusion' BY DEF TypeOK, MutualExclusion, InLock
  <2>3. CountExact' BY DEF TypeOK, CountExact, Used, pqueue_count
  <2>4. SlotsSound' BY DEF SlotsSound, Live, Slots
  <2>5. CallsSound' BY DEF TypeOK, CallsSound, PastTest, Carrying
  <2> QED BY <2>1, <2>2, <2>3, <2>4, <2>5
<1>14. ASSUME PQueueFree PROVE IInv'
  <2> USE <1>14 DEF PQueueFree, Quiescent
  <2>1. TypeOK'
    <3>1. freed' \in SUBSET Nodes BY DEF TypeOK, Slots, Released
    <3>2. dropped' \in SUBSET Nodes BY DEF TypeOK, SlotsSound
    <3> QED BY <3>1, <3>2 DEF TypeOK, Slots
  <2>2. MutualExclusion' BY DEF TypeOK, MutualExclusion, InLock
  <2>3. CountExact' BY DEF TypeOK, CountExact, Used, pqueue_count
  <2>4. SlotsSound' BY DEF SlotsSound, Live
  <2>5. CallsSound' BY DEF TypeOK, CallsSound, PastTest, Carrying, Used
  <2> QED BY <2>1, <2>2, <2>3, <2>4, <2>5
<1>15. CASE UNCHANGED vars
  BY <1>15 DEF vars, TypeOK, MutualExclusion, CountExact, SlotsSound, CallsSound,
               InLock, Used, Live, pqueue_count, PastTest, Carrying
<1> QED
  BY <1>1, <1>2, <1>3, <1>4, <1>5, <1>6, <1>7, <1>8, <1>9, <1>10, <1>11,
     <1>12, <1>13, <1>14, <1>15 DEF Next, Add, Get

\* IInv holds in every reachable state of every instance.
LEMMA Invariance == Spec => []IInv
<1>1. Spec => Init /\ [][Next]_vars BY DEF Spec
<1> QED BY <1>1, InitIInv, StepIInv, PTL

\* Type correctness: top and tail always index an allocated slot, and the
\* unsigned length neither wraps below zero nor passes MaxLen - 1.
THEOREM TypeCorrect == Spec => []TypeOK
<1>1. IInv => TypeOK BY DEF IInv
<1> QED BY <1>1, Invariance, PTL

\* At most one thread is between lock and unlock, and every return unlocks.
THEOREM LockIsExclusive == Spec => []MutualExclusion
<1>1. IInv => MutualExclusion BY DEF IInv
<1> QED BY <1>1, Invariance, PTL

\* An unlocked pqueue_count is off by at most the one operation in the lock.
THEOREM CountIsExact == Spec => []CountExact
<1>1. IInv => CountExact BY DEF IInv
<1> QED BY <1>1, Invariance, PTL
-----------------------------------------------------------------------------
(***************************************************************************)
(* The ring buffer implements the bounded FIFO of FifoSpec.                *)
(***************************************************************************)

\* The remainder of a number below twice the modulus.
LEMMA Remainder ==
  ASSUME NEW M \in Nat \ {0}, NEW a \in 0 .. 2 * M - 1
  PROVE  a % M = IF a < M THEN a ELSE a - M
<1>1. CASE a < M
  <2>1. \A j \in 0 .. M - 1 : j % M = j BY SMT
  <2> QED BY <1>1, <2>1
<1>2. CASE a >= M
  <2>1. \A j \in 0 .. M - 1 : (j + M) % M = j BY SMT
  <2>2. a - M \in 0 .. M - 1 /\ a = (a - M) + M
    BY <1>2
  <2> QED BY <1>2, <2>1, <2>2
<1> QED BY <1>1, <1>2

\* The slot of the i-th oldest node, without the remainder.
LEMMA PositionIs ==
  ASSUME TypeOK, NEW i \in 1 .. MaxLen
  PROVE  Position(i) = IF tail + i - 1 < MaxLen THEN tail + i - 1
                                                ELSE tail + i - 1 - MaxLen
<1>1. tail + i - 1 \in 0 .. 2 * MaxLen - 1
  BY MaxLenAssumption DEF TypeOK, Slots
<1>2. MaxLen \in Nat \ {0} BY MaxLenAssumption
<1>3. PICK a \in 0 .. 2 * MaxLen - 1 : a = tail + i - 1
  BY <1>1
<1>4. a % MaxLen = IF a < MaxLen THEN a ELSE a - MaxLen
  BY <1>2, Remainder
<1>5. Position(i) = a % MaxLen
  BY <1>3 DEF Position
<1> QED BY <1>2, <1>3, <1>4, <1>5 DEF TypeOK, Slots

\* The queued nodes are in the slots in use; the one after them goes to top.
LEMMA PositionWhere ==
  ASSUME TypeOK
  PROVE  /\ \A i \in 1 .. Used : Position(i) \in Live
         /\ Position(Used + 1) = top
         /\ Position(1) = tail
<1>1. Used \in 0 .. MaxLen - 1 /\ tail \in Slots /\ top \in Slots
  BY MaxLenAssumption DEF TypeOK, Used, Slots
<1>2. \A i \in 1 .. Used : Position(i) \in Live
  BY <1>1, PositionIs, MaxLenAssumption DEF Live, Used, Slots
<1>3. Position(Used + 1) = top
  BY <1>1, PositionIs, MaxLenAssumption DEF Used, Slots
<1>4. Position(1) = tail
  BY <1>1, PositionIs, MaxLenAssumption DEF Slots
<1> QED BY <1>2, <1>3, <1>4

\* The abstract queue is a sequence of nodes as long as the slots in use.
LEMMA ContentsSeq == IInv => Contents \in Seq(Nodes) /\ Len(Contents) = Used
<1> SUFFICES ASSUME IInv PROVE Contents \in Seq(Nodes) /\ Len(Contents) = Used
  OBVIOUS
<1>1. Used \in Nat BY MaxLenAssumption DEF IInv, TypeOK, Used, Slots
<1>2. \A i \in 1 .. Used : slot[Position(i)] \in Nodes
  BY PositionWhere DEF IInv, SlotsSound
<1> QED BY <1>1, <1>2 DEF Contents

\* Moving top in pqueue_addone appends the stored node.
LEMMA AddTopAppends ==
  ASSUME IInv, NEW t \in Threads, AddTop(t)
  PROVE  Contents' = Append(Contents, node[t]) /\ Used < MaxLen - 1
<1>1. /\ maxlen = MaxLen /\ top \in Slots /\ tail \in Slots /\ Used < MaxLen - 1
      /\ slot[top] = node[t]
  BY DEF IInv, TypeOK, CallsSound, PastTest, AddTop, Goto
<1>2. top' = IF top = MaxLen - 1 THEN 0 ELSE top + 1
  BY <1>1, NextIndex DEF AddTop
<1>3. Used' = Used + 1 /\ Used \in Nat
  BY <1>1, <1>2, MaxLenAssumption DEF Used, Slots, AddTop
<1>4. \A i : Position(i)' = Position(i)
  BY DEF Position, AddTop
<1>5. Contents' = [i \in 1 .. Used + 1 |-> slot[Position(i)]]
  BY <1>3, <1>4 DEF Contents, AddTop
<1>6. Position(Used + 1) = top BY PositionWhere DEF IInv
<1> QED BY <1>1, <1>3, <1>5, <1>6 DEF Contents

\* Moving tail in pqueue_getone removes the node that was read.
LEMMA GetTailRemoves ==
  ASSUME IInv, NEW t \in Threads, GetTail(t)
  PROVE  /\ Contents # <<>>
         /\ node[t] = Head(Contents)
         /\ Contents' = Tail(Contents)
<1> USE MaxLenAssumption
<1>1. /\ maxlen = MaxLen /\ top \in Slots /\ tail \in Slots /\ Used > 0
      /\ slot[tail] = node[t]
  BY DEF IInv, TypeOK, CallsSound, PastTest, GetTail, Goto
<1>2. tail' = IF tail = MaxLen - 1 THEN 0 ELSE tail + 1
  BY <1>1, NextIndex DEF GetTail
<1>3. Used' = Used - 1 /\ Used \in 1 .. MaxLen - 1
  BY <1>1, <1>2 DEF Used, Slots, GetTail
<1>5. \A i \in 1 .. Used - 1 : Position(i)' = Position(i + 1)
  <2> SUFFICES ASSUME NEW i \in 1 .. Used - 1 PROVE Position(i)' = Position(i + 1)
    OBVIOUS
  <2>1. Position(i + 1) = IF tail + i < MaxLen THEN tail + i ELSE tail + i - MaxLen
    BY <1>1, <1>3, PositionIs DEF IInv, Slots
  <2>2. Position(i)' = IF tail' + i - 1 < MaxLen THEN tail' + i - 1
                                                 ELSE tail' + i - 1 - MaxLen
    <3>1. tail' + i - 1 \in 0 .. 2 * MaxLen - 1
      BY <1>1, <1>2, <1>3 DEF Slots
    <3>2. PICK a \in 0 .. 2 * MaxLen - 1 : a = tail' + i - 1
      BY <3>1
    <3>3. a % MaxLen = IF a < MaxLen THEN a ELSE a - MaxLen
      BY Remainder
    <3>4. Position(i)' = a % MaxLen
      BY <3>2 DEF Position
    <3> QED BY <1>1, <1>2, <3>2, <3>3, <3>4 DEF Slots
  <2> QED BY <1>1, <1>2, <1>3, <2>1, <2>2 DEF Slots
<1>6. Contents' = [i \in 1 .. Used - 1 |-> slot[Position(i + 1)]]
  BY <1>3, <1>5 DEF Contents, GetTail
<1>7. Contents \in Seq(Nodes) /\ Len(Contents) = Used
  BY ContentsSeq
<1>8. Contents[1] = node[t]
  BY <1>1, <1>3, PositionWhere DEF Contents, IInv
<1>9. \A i \in 1 .. Used - 1 : Contents[i + 1] = slot[Position(i + 1)]
  BY <1>3 DEF Contents
<1>10. Contents # <<>> /\ Head(Contents) = node[t]
  BY <1>3, <1>7, <1>8
<1>11. Tail(Contents) = [i \in 1 .. Used - 1 |-> Contents[i + 1]]
  <2>1. /\ Tail(Contents) \in Seq(Nodes)
        /\ Len(Tail(Contents)) = Used - 1
        /\ \A i \in 1 .. Len(Tail(Contents)) : Tail(Contents)[i] = Contents[i + 1]
    BY <1>7, <1>10, HeadTailProperties
  <2> DEFINE rest == Tail(Contents)
  <2> HIDE DEF rest
  <2>2. rest \in [1 .. Used - 1 -> Nodes]
    BY <2>1, LenProperties DEF rest
  <2>3. \A i \in 1 .. Used - 1 : rest[i] = Contents[i + 1]
    BY <2>1 DEF rest
  <2>4. rest = [i \in 1 .. Used - 1 |-> Contents[i + 1]]
    BY <2>2, <2>3
  <2> QED BY <2>4, Zenon DEF rest
<1> QED BY <1>6, <1>9, <1>10, <1>11

\* An action that leaves the slots, tail and top alone leaves the queue alone.
LEMMA ContentsStable ==
  ASSUME top' = top, tail' = tail, slot' = slot
  PROVE  Contents' = Contents
BY DEF Contents, Used, Position

LEMMA InitFifo == Init => Fifo!Init
<1> SUFFICES ASSUME Init PROVE Fifo!Init
  OBVIOUS
<1>1. Contents = <<>>
  BY DEF Init, Contents, Used
<1>2. Status = [t \in Threads |-> "idle"]
  BY DEF Init, Status, CallStatus
<1>3. Carried = [t \in Threads |-> None]
  BY DEF Init, Carried
<1> QED BY <1>1, <1>2, <1>3 DEF Init, Fifo!Init

LEMMA StepFifo == IInv /\ [Next]_vars => [Fifo!Next]_(Fifo!fifoVars)
<1> SUFFICES ASSUME IInv, [Next]_vars PROVE [Fifo!Next]_(Fifo!fifoVars)
  OBVIOUS
<1> USE NoneAssumption, MaxLenAssumption
<1> USE DEF Goto, ring, fate, Full, Empty, CanLock, Fifo!Move
<1>0. pc \in [Threads -> {"idle", "add_lock", "get_lock"} \cup InLock]
      /\ node \in [Threads -> Nodes \cup {None}]
  BY DEF IInv, TypeOK
<1>1. ASSUME NEW t \in Threads, AddCall(t) PROVE Fifo!InvokePut(t)
  <2>1. PICK n \in held[t] : AddCall(t)!(n)
    BY <1>1 DEF AddCall
  <2>2. Contents' = Contents BY <2>1, ContentsStable
  <2>3. Status[t] = "idle" /\ Status' = [Status EXCEPT ![t] = "put"]
    BY <1>0, <2>1 DEF Status, CallStatus
  <2>4. Carried' = [Carried EXCEPT ![t] = n]
    BY <1>0, <2>1 DEF Carried
  <2> QED BY <2>1, <2>2, <2>3, <2>4 DEF Fifo!InvokePut
<1>2. ASSUME NEW t \in Threads, GetCall(t) PROVE Fifo!InvokeTake(t)
  BY <1>0, <1>2, ContentsStable
     DEF GetCall, Fifo!InvokeTake, Status, CallStatus, Carried
<1>3. ASSUME NEW t \in Threads, Lock(t) PROVE UNCHANGED Fifo!fifoVars
  BY <1>0, <1>3, ContentsStable
     DEF Lock, Fifo!fifoVars, Status, CallStatus, Carried
<1>4. ASSUME NEW t \in Threads, AddDivideByZero(t) PROVE UNCHANGED Fifo!fifoVars
  BY <1>0, <1>4, ContentsStable
     DEF AddDivideByZero, Fifo!fifoVars, Status, CallStatus, Carried
<1>5. ASSUME NEW t \in Threads, AddFull(t) PROVE Fifo!Refuse(t)
  <2>1. Len(Contents) = MaxLen - 1
    <3>1. maxlen = MaxLen /\ top \in Slots /\ tail \in Slots
      BY <1>5 DEF IInv, TypeOK, AddFull
    <3>2. Next1(top) = tail BY <1>5 DEF AddFull
    <3>3. Used = MaxLen - 1 BY <3>1, <3>2, NextIndex DEF Used, Slots
    <3> QED BY <3>3, ContentsSeq
  <2> QED BY <1>0, <1>5, <2>1, ContentsStable
          DEF AddFull, Fifo!Refuse, Status, CallStatus, Carried
<1>6. ASSUME NEW t \in Threads, AddStore(t) PROVE UNCHANGED Fifo!fifoVars
  <2>1. Contents' = Contents
    <3>1. top \notin Live BY DEF IInv, TypeOK, Live, Slots
    <3>2. \A i \in 1 .. Used : Position(i) # top /\ Position(i) \in Slots
      BY <3>1, PositionWhere DEF IInv, Live
    <3>3. \A i \in 1 .. Used : slot'[Position(i)] = slot[Position(i)]
      BY <1>6, <3>2 DEF AddStore, IInv, TypeOK
    <3>4. Used' = Used /\ \A i : Position(i)' = Position(i)
      BY <1>6 DEF AddStore, Used, Position
    <3>5. Contents' = [i \in 1 .. Used |-> slot'[Position(i)]]
      BY <3>4 DEF Contents
    <3> QED BY <3>3, <3>5 DEF Contents
  <2> QED BY <1>0, <1>6, <2>1
          DEF AddStore, Fifo!fifoVars, Status, CallStatus, Carried
<1>7. ASSUME NEW t \in Threads, AddTop(t) PROVE Fifo!Put(t)
  <2>1. Contents' = Append(Contents, node[t]) /\ Len(Contents) < MaxLen - 1
    BY <1>7, AddTopAppends, ContentsSeq
  <2> QED BY <1>0, <1>7, <2>1
          DEF AddTop, Fifo!Put, Status, CallStatus, Carried
<1>8. ASSUME NEW t \in Threads, AddReturn(t) PROVE Fifo!ReturnPut(t)
  BY <1>0, <1>8, ContentsStable
     DEF AddReturn, Unlock, Fifo!ReturnPut, Status, CallStatus, Carried
<1>9. ASSUME NEW t \in Threads, GetEmpty(t) PROVE Fifo!Miss(t)
  <2>1. Contents = <<>>
    BY <1>9 DEF GetEmpty, Contents, Used, IInv, TypeOK, Slots
  <2> QED BY <1>0, <1>9, <2>1, ContentsStable
          DEF GetEmpty, Fifo!Miss, Status, CallStatus, Carried
<1>10. ASSUME NEW t \in Threads, GetRead(t) PROVE UNCHANGED Fifo!fifoVars
  BY <1>0, <1>10, ContentsStable
     DEF GetRead, Fifo!fifoVars, Status, CallStatus, Carried, IInv, CallsSound
<1>11. ASSUME NEW t \in Threads, GetTail(t) PROVE Fifo!Take(t)
  BY <1>0, <1>11, GetTailRemoves
     DEF GetTail, Fifo!Take, Status, CallStatus, Carried
<1>12. ASSUME NEW t \in Threads, GetReturn(t) PROVE Fifo!ReturnTake(t)
  BY <1>0, <1>12, ContentsStable
     DEF GetReturn, Unlock, Fifo!ReturnTake, Status, CallStatus, Carried
<1>13. ASSUME PQueueInit PROVE Fifo!Clear
  <2>1. Contents' = <<>> BY <1>13 DEF PQueueInit, Contents, Used
  <2> QED BY <1>0, <1>13, <2>1
          DEF PQueueInit, Quiescent, Fifo!Clear, Status, CallStatus, Carried
<1>14. ASSUME PQueueFree PROVE UNCHANGED Fifo!fifoVars
  BY <1>14, ContentsStable
     DEF PQueueFree, Fifo!fifoVars, Status, CallStatus, Carried
<1>15. CASE UNCHANGED vars
  BY <1>15, ContentsStable
     DEF vars, Fifo!fifoVars, Status, CallStatus, Carried
<1> QED
  BY <1>1, <1>2, <1>3, <1>4, <1>5, <1>6, <1>7, <1>8, <1>9, <1>10, <1>11,
     <1>12, <1>13, <1>14, <1>15 DEF Next, Add, Get, Fifo!Next

\* Under every interleaving pqueue_addone and pqueue_getone behave as the puts
\* and takes of a FIFO queue of MaxLen - 1 nodes, each taking effect at once.
THEOREM RefinesFifo == Spec => ImplementsFifo
<1>1. Spec => Init /\ [][Next]_vars BY DEF Spec
<1>2. Init => Fifo!Init BY InitFifo
<1>3. IInv /\ [Next]_vars => [Fifo!Next]_(Fifo!fifoVars) BY StepFifo
<1> QED BY <1>1, <1>2, <1>3, Invariance, PTL DEF ImplementsFifo, Fifo!Spec
-----------------------------------------------------------------------------
(***************************************************************************)
(* Where the nodes are.                                                    *)
(***************************************************************************)

\* Which calls carry a node that is in no slot between tail and top.
Carries(t) == pc[t] \in {"add_lock", "add_test", "add_top", "get_len", "trap"}
Queued == {slot[i] : i \in Live}

\* No node is in two places.  What is dropped stays in the slots of a queue that
\* pqueue_free has released.
Apart ==
    /\ \A t, u \in Threads : t # u => held[t] \cap held[u] = {}
    /\ \A t \in Threads : held[t] \cap (Queued \cup dropped) = {}
    /\ \A t \in Threads : Carries(t) =>
          /\ node[t] \notin Queued \cup dropped
          /\ \A u \in Threads : node[t] \notin held[u]
          /\ \A u \in Threads : u # t /\ Carries(u) => node[u] # node[t]
    /\ \A i, j \in Live : slot[i] = slot[j] => i = j

\* Every node is in some place.
Has(t, n) == n \in held[t] \/ (Carries(t) /\ node[t] = n)
Everywhere == \A n \in Nodes : n \in Queued \cup dropped \/ \E t \in Threads : Has(t, n)

\* The queue frees a node only when it drops some.
FreesDropped == dropped = {} => freed = {}

\* After pqueue_init drops nodes no call gets past its test, after pqueue_free none
\* comes.
DropsLast == phase = "live" /\ dropped # {} => maxlen = 0

PlacesInv == Apart /\ Everywhere /\ FreesDropped /\ DropsLast

\* Between calls the loops of pqueue_init and pqueue_free run as often as nodes are
\* queued: they free none, not even one left over in a slot, when none is.
LEMMA DroppedIfFreed == ASSUME IInv, Quiescent, Queued = {} PROVE Released = {}
<1>1. top \in Slots /\ tail \in Slots BY DEF IInv, TypeOK
<1>2. \A t \in Threads : pc[t] = "idle" BY DEF Quiescent
<1>3. len = Used
  <2>1. Used \in Nat BY <1>1, MaxLenAssumption DEF Used, Slots
  <2> QED BY <1>2, <2>1 DEF IInv, TypeOK, CountExact, pqueue_count
<1>4. tail \notin Live BY DEF Queued
<1>5. Used = 0 BY <1>1, <1>4, MaxLenAssumption DEF Used, Live, Slots
<1> QED BY <1>1, <1>3, <1>5 DEF Released, Slots

LEMMA InitPlaces == Init => PlacesInv
<1> SUFFICES ASSUME Init PROVE PlacesInv
  OBVIOUS
<1>1. PICK owner \in [Nodes -> Threads] : held = [t \in Threads |-> {n \in Nodes : owner[n] = t}]
  BY DEF Init
<1>2. Live = {} /\ Queued = {}
  BY DEF Init, Live, Queued, Slots
<1>3. Apart BY <1>1, <1>2 DEF Init, Apart, Carries
<1>4. Everywhere BY <1>1 DEF Everywhere, Has
<1>5. FreesDropped /\ DropsLast BY DEF Init, FreesDropped, DropsLast
<1> QED BY <1>3, <1>4, <1>5 DEF PlacesInv

\* A step that leaves the slots in use, what threads own and what calls carry alone.
LEMMA PlacesFrame ==
  ASSUME PlacesInv, Live' = Live, \A i \in Live : slot'[i] = slot[i],
         UNCHANGED <<held, freed, dropped, maxlen>>, phase' = "live" => phase = "live",
         \A t \in Threads : /\ Carries(t)' <=> Carries(t)
                            /\ Carries(t) => node'[t] = node[t]
  PROVE  PlacesInv'
<1>1. Queued' = Queued BY DEF Queued
<1>2. Apart' BY <1>1 DEF PlacesInv, Apart
<1>3. Everywhere'
  <2>1. \A t \in Threads, n \in Nodes : Has(t, n) => Has(t, n)' BY DEF Has
  <2> QED BY <1>1, <2>1 DEF PlacesInv, Everywhere
<1>4. FreesDropped' /\ DropsLast' BY DEF PlacesInv, FreesDropped, DropsLast
<1> QED BY <1>2, <1>3, <1>4 DEF PlacesInv

LEMMA StepPlaces == IInv /\ PlacesInv /\ [Next]_vars => PlacesInv'
<1> SUFFICES ASSUME IInv, PlacesInv, [Next]_vars PROVE PlacesInv'
  OBVIOUS
<1> USE NoneAssumption, MaxLenAssumption, ZeroedAssumption DEF Goto, ring, fate, CanLock
<1>0. /\ pc \in [Threads -> {"idle", "add_lock", "get_lock"} \cup InLock]
      /\ node \in [Threads -> Nodes \cup {None}] /\ held \in [Threads -> SUBSET Nodes]
      /\ slot \in [Slots -> Nodes \cup {None}] /\ top \in Slots /\ tail \in Slots
      /\ maxlen \in {0, MaxLen}
  BY DEF IInv, TypeOK
<1>1. ASSUME NEW t \in Threads, AddCall(t) PROVE PlacesInv'
  <2>1. PICK n \in held[t] : AddCall(t)!(n) BY <1>1 DEF AddCall
  <2>2. Queued' = Queued /\ Live' = Live BY <2>1 DEF Queued, Live
  <2>3. Apart' BY <1>0, <2>1, <2>2 DEF PlacesInv, Apart, Carries
  <2>4. Everywhere'
    <3>1. \A u \in Threads, m \in Nodes : Has(u, m) => Has(u, m)'
      BY <1>0, <2>1 DEF Has, Carries
    <3> QED BY <2>1, <2>2, <3>1 DEF PlacesInv, Everywhere
  <2> QED BY <2>1, <2>3, <2>4 DEF PlacesInv, FreesDropped, DropsLast
<1>2. ASSUME NEW t \in Threads, GetCall(t) PROVE PlacesInv'
  BY <1>0, <1>2, PlacesFrame DEF GetCall, Live, Carries
<1>3. ASSUME NEW t \in Threads, Lock(t) PROVE PlacesInv'
  BY <1>0, <1>3, PlacesFrame DEF Lock, Live, Carries
<1>4. ASSUME NEW t \in Threads, AddDivideByZero(t) PROVE PlacesInv'
  BY <1>0, <1>4, PlacesFrame DEF AddDivideByZero, Live, Carries
<1>5. ASSUME NEW t \in Threads, AddFull(t) PROVE PlacesInv'
  <2> USE <1>5 DEF AddFull
  <2>1. node[t] \in Nodes /\ Carries(t) BY DEF IInv, CallsSound, Carrying, Carries
  <2>2. Queued' = Queued /\ Live' = Live BY DEF Queued, Live
  <2>3. Apart' BY <1>0, <2>1, <2>2 DEF PlacesInv, Apart, Carries
  <2>4. Everywhere'
    <3>1. \A u \in Threads, m \in Nodes : Has(u, m) => Has(u, m)'
      BY <1>0 DEF Has, Carries
    <3> QED BY <2>2, <3>1 DEF PlacesInv, Everywhere
  <2> QED BY <2>3, <2>4 DEF PlacesInv, FreesDropped, DropsLast
<1>6. ASSUME NEW t \in Threads, AddStore(t) PROVE PlacesInv'
  <2>1. top \notin Live BY <1>0 DEF Live, Slots
  <2>2. Live' = Live /\ Live \subseteq Slots BY <1>6 DEF AddStore, Live
  <2>3. \A i \in Live : slot'[i] = slot[i] BY <1>0, <1>6, <2>1, <2>2 DEF AddStore
  <2> QED BY <1>0, <1>6, <2>2, <2>3, PlacesFrame DEF AddStore, Carries
<1>7. ASSUME NEW t \in Threads, AddTop(t) PROVE PlacesInv'
  <2> USE <1>7 DEF AddTop
  <2>1. maxlen = MaxLen /\ Used < MaxLen - 1 /\ slot[top] = node[t] /\ Carries(t)
    BY DEF IInv, CallsSound, PastTest, Carries
  <2>2. top' = IF top = MaxLen - 1 THEN 0 ELSE top + 1
    BY <1>0, <2>1, NextIndex
  <2>3. Live' = Live \cup {top} BY <1>0, <2>1, <2>2 DEF Used, Live, Slots
  <2>4. Queued' = Queued \cup {node[t]} BY <2>1, <2>3 DEF Queued
  <2>5. Apart'
    <3>1. node[t] \notin Queued \cup dropped BY <2>1 DEF PlacesInv, Apart
    <3>2. \A i \in Live : slot[i] # slot[top] BY <2>1, <3>1 DEF Queued
    <3>3. \A i, j \in Live' : slot'[i] = slot'[j] => i = j
      BY <2>3, <3>2 DEF PlacesInv, Apart
    <3> QED BY <1>0, <2>1, <2>4, <3>1, <3>3 DEF PlacesInv, Apart, Carries
  <2>6. Everywhere'
    <3>1. \A u \in Threads, m \in Nodes : Has(u, m) => Has(u, m)' \/ m \in Queued'
      BY <1>0, <2>1, <2>4 DEF Has, Carries
    <3> QED BY <2>4, <3>1 DEF PlacesInv, Everywhere
  <2> QED BY <2>5, <2>6 DEF PlacesInv, FreesDropped, DropsLast
<1>8. ASSUME NEW t \in Threads, AddReturn(t) PROVE PlacesInv'
  BY <1>0, <1>8, PlacesFrame DEF AddReturn, Live, Carries
<1>9. ASSUME NEW t \in Threads, GetEmpty(t) PROVE PlacesInv'
  BY <1>0, <1>9, PlacesFrame DEF GetEmpty, Live, Carries
<1>10. ASSUME NEW t \in Threads, GetRead(t) PROVE PlacesInv'
  BY <1>0, <1>10, PlacesFrame DEF GetRead, Live, Carries
<1>11. ASSUME NEW t \in Threads, GetTail(t) PROVE PlacesInv'
  <2> USE <1>11 DEF GetTail
  <2>1. /\ maxlen = MaxLen /\ Used > 0 /\ slot[tail] = node[t] /\ node[t] \in Nodes
        /\ ~Carries(t)
    BY DEF IInv, CallsSound, PastTest, Carries, Carrying
  <2>2. tail' = IF tail = MaxLen - 1 THEN 0 ELSE tail + 1
    BY <1>0, <2>1, NextIndex
  <2>3. tail \in Live /\ Live' = Live \ {tail}
    BY <1>0, <2>1, <2>2 DEF Used, Live, Slots
  <2>4. node[t] \in Queued /\ Queued' = Queued \ {node[t]}
    BY <2>1, <2>3 DEF Queued, PlacesInv, Apart
  <2>5. node[t] \notin dropped
    BY <2>1 DEF PlacesInv, DropsLast
  <2>6. Apart'
    BY <1>0, <2>1, <2>3, <2>4, <2>5 DEF PlacesInv, Apart, Carries
  <2>7. Everywhere'
    <3>1. \A u \in Threads, m \in Nodes : Has(u, m) => Has(u, m)'
      BY <1>0, <2>1 DEF Has, Carries
    <3>2. Has(t, node[t])' BY <1>0 DEF Has, Carries
    <3> QED BY <2>4, <3>1, <3>2 DEF PlacesInv, Everywhere
  <2> QED BY <2>6, <2>7 DEF PlacesInv, FreesDropped, DropsLast
<1>12. ASSUME NEW t \in Threads, GetReturn(t) PROVE PlacesInv'
  <2> USE <1>12 DEF GetReturn
  <2>1. node[t] \in Nodes /\ Carries(t) BY DEF IInv, CallsSound, Carrying, Carries
  <2>2. Queued' = Queued /\ Live' = Live BY DEF Queued, Live
  <2>3. Apart' BY <1>0, <2>1, <2>2 DEF PlacesInv, Apart, Carries
  <2>4. Everywhere'
    <3>1. \A u \in Threads, m \in Nodes : Has(u, m) => Has(u, m)'
      BY <1>0 DEF Has, Carries
    <3> QED BY <2>2, <3>1 DEF PlacesInv, Everywhere
  <2> QED BY <2>3, <2>4 DEF PlacesInv, FreesDropped, DropsLast
<1>13. ASSUME PQueueInit PROVE PlacesInv'
  <2> USE <1>13 DEF PQueueInit, Quiescent
  <2>1. Live' = {} /\ Queued' = {} BY DEF Live, Queued, Slots
  <2>2. dropped' = dropped \cup Queued BY DEF Queued
  <2>3. Apart' BY <1>0, <2>1, <2>2 DEF PlacesInv, Apart, Carries
  <2>4. Everywhere'
    <3>1. \A u \in Threads, m \in Nodes : Has(u, m) => Has(u, m)' BY DEF Has, Carries
    <3> QED BY <2>1, <2>2, <3>1 DEF PlacesInv, Everywhere
  <2>5. FreesDropped' /\ DropsLast' BY <2>2, DroppedIfFreed DEF PlacesInv, FreesDropped, DropsLast
  <2> QED BY <2>3, <2>4, <2>5 DEF PlacesInv
<1>14. ASSUME PQueueFree PROVE PlacesInv'
  <2> USE <1>14 DEF PQueueFree, Quiescent
  <2>1. Live' = Live /\ Queued' = Queued BY DEF Live, Queued
  <2>2. dropped' = dropped \cup Queued BY DEF Queued
  <2>3. Apart' BY <1>0, <2>1, <2>2 DEF PlacesInv, Apart, Carries
  <2>4. Everywhere'
    <3>1. \A u \in Threads, m \in Nodes : Has(u, m) => Has(u, m)' BY DEF Has, Carries
    <3> QED BY <2>1, <2>2, <3>1 DEF PlacesInv, Everywhere
  <2>5. FreesDropped' /\ DropsLast' BY <2>2, DroppedIfFreed DEF PlacesInv, FreesDropped, DropsLast
  <2> QED BY <2>3, <2>4, <2>5 DEF PlacesInv
<1>15. CASE UNCHANGED vars
  BY <1>15, PlacesFrame DEF vars, Live, Carries
<1> QED
  BY <1>1, <1>2, <1>3, <1>4, <1>5, <1>6, <1>7, <1>8, <1>9, <1>10, <1>11,
     <1>12, <1>13, <1>14, <1>15 DEF Next, Add, Get

LEMMA AtMostOne == ASSUME NEW P, \A x, y \in P : x = y
                   PROVE  Cardinality(P) = IF P = {} THEN 0 ELSE 1
<1>1. CASE P = {} BY <1>1, FS_EmptySet
<1>2. CASE P # {}
  <2>1. PICK x \in P : TRUE BY <1>2
  <2>2. P = {x} BY <2>1
  <2> QED BY <1>2, <2>2, FS_Singleton
<1> QED BY <1>1, <1>2

LEMMA OnePlaceEach == PlacesInv => NodesConserved
<1> SUFFICES ASSUME PlacesInv PROVE NodesConserved
  OBVIOUS
<1> DEFINE owners(n) == {t \in Threads : n \in held[t]}
           carriers(n) == {t \in Threads : node[t] = n /\ pc[t] \in
                             {"add_lock", "add_test", "add_top", "get_len", "trap"}}
           queued(n) == {i \in Live : slot[i] = n /\ n \notin dropped}
<1> SUFFICES ASSUME NEW n \in Nodes
             PROVE  Cardinality(owners(n)) + Cardinality(carriers(n))
                    + Cardinality(queued(n)) + Cardinality({n} \cap dropped) = 1
  BY DEF NodesConserved, PlacesInv, FreesDropped
<1>1. carriers(n) = {t \in Threads : Carries(t) /\ node[t] = n}
  BY DEF Carries
<1>2. /\ \A t, u \in owners(n) : t = u
      /\ \A t, u \in carriers(n) : t = u
      /\ \A i, j \in queued(n) : i = j
      /\ \A x, y \in {n} \cap dropped : x = y
  BY <1>1 DEF PlacesInv, Apart
<1>3. /\ queued(n) # {} <=> n \in Queued /\ n \notin dropped
      /\ {n} \cap dropped # {} <=> n \in dropped
  BY DEF Queued
<1>4. /\ owners(n) # {} => carriers(n) = {} /\ n \notin Queued \cup dropped
      /\ carriers(n) # {} => n \notin Queued \cup dropped
  BY <1>1 DEF PlacesInv, Apart
<1>5. owners(n) # {} \/ carriers(n) # {} \/ n \in Queued \/ n \in dropped
  BY <1>1 DEF PlacesInv, Everywhere, Has
<1> HIDE DEF owners, carriers, queued
<1>6. /\ Cardinality(owners(n)) = IF owners(n) = {} THEN 0 ELSE 1
      /\ Cardinality(carriers(n)) = IF carriers(n) = {} THEN 0 ELSE 1
      /\ Cardinality(queued(n)) = IF queued(n) = {} THEN 0 ELSE 1
      /\ Cardinality({n} \cap dropped) = IF {n} \cap dropped = {} THEN 0 ELSE 1
  BY <1>2, AtMostOne
<1> QED BY <1>3, <1>4, <1>5, <1>6

\* No interleaving of the callers loses a node, hands one out twice or leaves one in
\* the ring and with a client, and what pqueue_init and pqueue_free forget is exactly
\* what was queued.
THEOREM NodesHaveOnePlace == Spec => []NodesConserved
<1>1. Spec => Init /\ [][Next]_vars BY DEF Spec
<1>2. PlacesInv => NodesConserved BY OnePlaceEach
<1> QED BY <1>1, <1>2, Invariance, InitPlaces, StepPlaces, PTL
-------
-----------------------------------------------------------------------------
(***************************************************************************)
(* The stack.  Its invariant is in the names of MCQueues: S! is Stack, its *)
(* lock, pc, node, held, freed and phase those with stack before them.     *)
(* nodecount is in none of the parts but the type: whatever it has drifted *)
(* to, the chain is right.                                                 *)
(***************************************************************************)
\* The lock is held by the one thread between lock and unlock, or for ever by the
\* one that followed a null head.
StackExclusion == \A t \in Threads : stackPc[t] \in S!InLock \cup {"dead"} => stackLock = t

\* Which calls carry a node, and which have none yet.
StackCarries(t) == stackPc[t] \in {"push_lock", "push_link", "pop_load", "pop_store"}
StackCalls == \A t \in Threads :
    /\ StackCarries(t) \/ stackPc[t] \in {"push_load", "push_store"} => stackNode[t] \in Nodes
    /\ stackPc[t] \in {"idle", "pop_lock", "pop_head", "top_lock", "top_test", "top_read"}
          => stackNode[t] = None
    /\ stackPc[t] \in {"push_lock", "push_link"} => link[stackNode[t]] = None
    /\ stackPc[t] = "dead" => stackPhase = "crashed"

\* No node is in two places.
Stacked == {stacked[i] : i \in 1 .. Len(stacked)}
StackApart ==
    /\ \A t, u \in Threads : t # u => stackHeld[t] \cap stackHeld[u] = {}
    /\ \A t \in Threads : stackHeld[t] \cap (Stacked \cup stackFreed) = {}
    /\ \A t \in Threads : StackCarries(t) =>
          /\ stackNode[t] \notin Stacked \cup stackFreed
          /\ \A u \in Threads : stackNode[t] \notin stackHeld[u]
          /\ \A u \in Threads : u # t /\ StackCarries(u) => stackNode[u] # stackNode[t]
    /\ Stacked \cap stackFreed = {}
    /\ \A i, j \in 1 .. Len(stacked) : stacked[i] = stacked[j] => i = j

\* Every node is in some place.
StackHas(t, n) == n \in stackHeld[t] \/ (StackCarries(t) /\ stackNode[t] = n)
StackEverywhere ==
    \A n \in Nodes : n \in Stacked \cup stackFreed \/ \E t \in Threads : StackHas(t, n)

\* While a pop is between its two stores, head is what it was or null.
HeadSound == stackPhase = "live" => head = None \/ (stacked # <<>> /\ head = stacked[1])

StackInv == /\ S!TypeOK /\ StackExclusion /\ StackCalls /\ StackApart /\ StackEverywhere
            /\ HeadSound /\ S!ChainSpellsStack
-----------------------------------------------------------------------------
\* Counting stays inside the width of nodecount.
LEMMA StackCounts == ASSUME S!StackAssumption, NEW c \in 0 .. CountMod - 1
                     PROVE  /\ (c + 1) % CountMod \in 0 .. CountMod - 1
                            /\ S!Less(c) \in 0 .. CountMod - 1
BY SMT DEF S!StackAssumption, S!Less

\* Putting a node in front of a sequence, and taking the first away.
LEMMA InFront == ASSUME NEW T, NEW s \in Seq(T), NEW x \in T
                 PROVE  /\ <<x>> \o s \in Seq(T)
                        /\ Len(<<x>> \o s) = Len(s) + 1
                        /\ (<<x>> \o s)[1] = x
                        /\ \A i \in 1 .. Len(s) : (<<x>> \o s)[i + 1] = s[i]
<1>1. <<x>> \in Seq(T) /\ Len(<<x>>) = 1 /\ <<x>>[1] = x OBVIOUS
<1>2. Len(s) \in Nat BY LenProperties
<1>3. /\ <<x>> \o s \in Seq(T)
      /\ Len(<<x>> \o s) = 1 + Len(s)
      /\ \A i \in 1 .. 1 + Len(s) : (<<x>> \o s)[i] = IF i <= 1 THEN <<x>>[i] ELSE s[i - 1]
  BY <1>1, ConcatProperties
<1> QED BY <1>1, <1>2, <1>3

LEMMA Rest == ASSUME NEW T, NEW s \in Seq(T), s # <<>>
              PROVE  /\ SubSeq(s, 2, Len(s)) \in Seq(T)
                     /\ Len(SubSeq(s, 2, Len(s))) = Len(s) - 1
                     /\ \A i \in 1 .. Len(s) - 1 : SubSeq(s, 2, Len(s))[i] = s[i + 1]
                     /\ Tail(s) = SubSeq(s, 2, Len(s))
                     /\ Head(s) = s[1] /\ Len(s) > 0
<1>1. Tail(s) = SubSeq(s, 2, Len(s)) BY TailIsSubSeq
<1>2. Len(s) \in Nat \ {0} BY EmptySeq
<1>3. /\ Tail(s) \in Seq(T)
      /\ Len(Tail(s)) = Len(s) - 1
      /\ \A i \in 1 .. Len(Tail(s)) : Tail(s)[i] = s[i + 1]
  BY HeadTailProperties
<1>4. Head(s) = s[1] BY DEF Head
<1> HIDE DEF Tail, SubSeq
<1> QED BY <1>1, <1>2, <1>3, <1>4

LEMMA InitStackInv == S!StackAssumption /\ S!Init => StackInv
<1> SUFFICES ASSUME S!StackAssumption, S!Init PROVE StackInv
  OBVIOUS
<1> USE DEF S!StackAssumption
<1>1. stackHeld \in [Threads -> SUBSET Nodes]
  BY DEF S!Init
<1>2. PICK owner \in [Nodes -> Threads] :
         stackHeld = [t \in Threads |-> {n \in Nodes : owner[n] = t}]
  BY DEF S!Init
<1>3. S!TypeOK
  BY <1>1 DEF S!Init, S!TypeOK, S!Labels, S!InLock
<1>4. StackExclusion /\ StackCalls
  BY DEF S!Init, StackExclusion, StackCalls, StackCarries, S!InLock
<1>5. Stacked = {}
  BY DEF S!Init, Stacked
<1>6. StackApart
  BY <1>2, <1>5 DEF S!Init, StackApart, StackCarries
<1>7. StackEverywhere
  BY <1>2 DEF StackEverywhere, StackHas
<1>8. HeadSound /\ S!ChainSpellsStack
  BY DEF S!Init, HeadSound, S!ChainSpellsStack
<1> QED BY <1>3, <1>4, <1>6, <1>7, <1>8 DEF StackInv

\* A set of places that has the first, and with each place the next, has them all.
LEMMA Stepwise == ASSUME NEW n \in Nat, NEW D \in SUBSET (1 .. n), n > 0 => 1 \in D,
                         \A i \in D : i < n => i + 1 \in D
                  PROVE  D = 1 .. n
<1> SUFFICES ASSUME NEW k \in 1 .. n, k \notin D PROVE FALSE
  OBVIOUS
<1> DEFINE E == {i \in D : i < k}
           step == [i \in E |-> i + 1]
<1>1. 1 \in E /\ \A i \in E : i + 1 \in E
  OBVIOUS
<1>2. IsFiniteSet(E)
  <2>1. IsFiniteSet(1 .. n) BY FS_Interval
  <2> QED BY <2>1, FS_Subset
<1>3. /\ IsFiniteSet(E \ {1})
      /\ Cardinality(E \ {1}) = Cardinality(E) - 1
      /\ Cardinality(E) \in Nat
  BY <1>1, <1>2, FS_RemoveElement, FS_CardinalityType
<1>4. step \in [E -> E \ {1}]
  <2>1. \A i \in E : i + 1 \in E \ {1} BY <1>1
  <2> HIDE DEF E
  <2> QED BY <2>1
<1>5. PICK x, y \in E : x # y /\ step[x] = step[y]
  <2> HIDE DEF E, step
  <2>1. Cardinality(E \ {1}) < Cardinality(E) BY <1>3
  <2> QED BY <1>2, <1>3, <1>4, <2>1, FS_PigeonHole
<1> QED BY <1>5

\* The loops of stack_init and stack_free meet the stacked nodes and no others.
LEMMA ReachesStacked ==
  ASSUME S!StackAssumption, S!TypeOK, S!ChainSpellsStack, S!Quiescent
  PROVE  S!Reached = Stacked
<1>1. /\ stacked \in Seq(Nodes) /\ Len(stacked) \in Nat
      /\ \A i \in 1 .. Len(stacked) : stacked[i] \in Nodes
      /\ \A i \in 1 .. Len(stacked) :
            link[stacked[i]] = IF i = Len(stacked) THEN None ELSE stacked[i + 1]
      /\ head = IF stacked = <<>> THEN None ELSE Head(stacked)
      /\ None \notin Nodes
  BY LenProperties, ElementOfSeq
     DEF S!TypeOK, S!ChainSpellsStack, S!Quiescent, S!Unlinking, S!StackAssumption
<1>2. CASE stacked = <<>>
  <2>1. Stacked = {} BY <1>2 DEF Stacked
  <2>2. head \in {} \cup {None} BY <1>1, <1>2
  <2> QED BY <2>1, <2>2 DEF S!Reached
<1>3. CASE stacked # <<>>
  <2>1. head = stacked[1] /\ Len(stacked) > 0
    BY <1>1, <1>3, Rest
  <2>2. S!Reached \subseteq Stacked
    <3>1. Stacked \in SUBSET Nodes /\ head \in Stacked
      BY <1>1, <2>1 DEF Stacked
    <3>2. \A m \in Stacked : link[m] \in Stacked \cup {None}
      BY <1>1 DEF Stacked
    <3> QED BY <3>1, <3>2 DEF S!Reached
  <2>3. ASSUME NEW closed \in SUBSET Nodes, head \in closed \cup {None},
               \A m \in closed : link[m] \in closed \cup {None}
        PROVE  Stacked \subseteq closed
    <3> DEFINE D == {i \in 1 .. Len(stacked) : stacked[i] \in closed}
    <3>1. 1 \in D BY <1>1, <2>1, <2>3
    <3>2. \A i \in D : i < Len(stacked) => i + 1 \in D
      BY <1>1, <2>3
    <3>3. D = 1 .. Len(stacked)
      <4> HIDE DEF D
      <4>1. D \in SUBSET (1 .. Len(stacked)) BY DEF D
      <4> QED BY <1>1, <3>1, <3>2, <4>1, Stepwise
    <3> QED BY <3>3 DEF Stacked
  <2>4. Stacked \subseteq S!Reached
    BY <1>1, <2>3 DEF Stacked, S!Reached
  <2> QED BY <2>2, <2>4
<1> QED BY <1>2, <1>3

LEMMA StepStackInv == S!StackAssumption /\ StackInv /\ [S!Next]_(S!vars) => StackInv'
<1> SUFFICES ASSUME S!StackAssumption, StackInv, [S!Next]_(S!vars) PROVE StackInv'
  OBVIOUS
<1> USE DEF S!StackAssumption, StackInv, S!Goto, S!shared, S!CanLock
<1>1. ASSUME NEW t \in Threads, S!PushCall(t) PROVE StackInv'
  <2>1. PICK n \in stackHeld[t] : S!PushCall(t)!(n)
    BY <1>1 DEF S!PushCall
  <2> USE <2>1
  <2>2. n \in Nodes /\ n \notin Stacked BY DEF S!TypeOK, StackApart
  <2>3. S!TypeOK' BY <2>2 DEF S!TypeOK, S!Labels, S!InLock
  <2>4. StackExclusion' BY DEF S!TypeOK, StackExclusion, S!InLock
  <2>5. StackCalls' BY <2>2 DEF S!TypeOK, StackCalls, StackCarries, StackApart
  <2>6. Stacked' = Stacked BY DEF Stacked
  <2>7. StackApart' BY <2>2, <2>6 DEF S!TypeOK, StackApart, StackCarries
  <2>8. StackEverywhere'
    <3>1. \A u \in Threads, m \in Nodes : StackHas(u, m) => StackHas(u, m)'
      BY DEF S!TypeOK, StackHas, StackCarries
    <3> QED BY <2>6, <3>1 DEF StackEverywhere
  <2>9. HeadSound' BY DEF HeadSound
  <2>10. S!ChainSpellsStack'
    <3>1. \A i \in 1 .. Len(stacked) : stacked[i] # n BY <2>2 DEF Stacked
    <3>2. \A i \in 1 .. Len(stacked) : link'[stacked[i]] = link[stacked[i]]
      BY <3>1 DEF S!TypeOK
    <3>3. S!Unlinking' <=> S!Unlinking BY DEF S!TypeOK, S!Unlinking
    <3> QED BY <3>2, <3>3 DEF S!TypeOK, S!ChainSpellsStack
  <2> QED BY <2>3, <2>4, <2>5, <2>7, <2>8, <2>9, <2>10
<1>2. ASSUME NEW t \in Threads, S!PopCall(t) PROVE StackInv'
  <2> USE <1>2 DEF S!PopCall
  <2>1. S!TypeOK' BY DEF S!TypeOK, S!Labels, S!InLock
  <2>2. StackExclusion' BY DEF S!TypeOK, StackExclusion, S!InLock
  <2>3. StackCalls' BY DEF S!TypeOK, StackCalls, StackCarries
  <2>4. StackApart' BY DEF S!TypeOK, StackApart, StackCarries, Stacked
  <2>5. StackEverywhere'
    <3>1. \A u \in Threads, n \in Nodes : StackHas(u, n) => StackHas(u, n)'
      BY DEF S!TypeOK, StackHas, StackCarries
    <3>2. Stacked' = Stacked BY DEF Stacked
    <3> QED BY <3>1, <3>2 DEF StackEverywhere
  <2>6. HeadSound' BY DEF HeadSound
  <2>7. S!ChainSpellsStack' BY DEF S!TypeOK, S!ChainSpellsStack, S!Unlinking
  <2> QED BY <2>1, <2>2, <2>3, <2>4, <2>5, <2>6, <2>7
<1>3. ASSUME NEW t \in Threads, S!TopCall(t) PROVE StackInv'
  <2> USE <1>3 DEF S!TopCall
  <2>1. S!TypeOK' BY DEF S!TypeOK, S!Labels, S!InLock
  <2>2. StackExclusion' BY DEF S!TypeOK, StackExclusion, S!InLock
  <2>3. StackCalls' BY DEF S!TypeOK, StackCalls, StackCarries
  <2>4. StackApart' BY DEF S!TypeOK, StackApart, StackCarries, Stacked
  <2>5. StackEverywhere'
    <3>1. \A u \in Threads, n \in Nodes : StackHas(u, n) => StackHas(u, n)'
      BY DEF S!TypeOK, StackHas, StackCarries
    <3>2. Stacked' = Stacked BY DEF Stacked
    <3> QED BY <3>1, <3>2 DEF StackEverywhere
  <2>6. HeadSound' BY DEF HeadSound
  <2>7. S!ChainSpellsStack' BY DEF S!TypeOK, S!ChainSpellsStack, S!Unlinking
  <2> QED BY <2>1, <2>2, <2>3, <2>4, <2>5, <2>6, <2>7
<1>4. ASSUME NEW t \in Threads, S!Lock(t) PROVE StackInv'
  <2> USE <1>4 DEF S!Lock
  <2>1. S!TypeOK' BY DEF S!TypeOK, S!Labels, S!InLock
  <2>2. StackExclusion' BY DEF S!TypeOK, StackExclusion, S!InLock
  <2>3. StackCalls' BY DEF S!TypeOK, StackCalls, StackCarries
  <2>4. StackApart'
    <3>1. \A u \in Threads : StackCarries(u)' <=> StackCarries(u) BY DEF S!TypeOK, StackCarries
    <3>2. Stacked' = Stacked BY DEF Stacked
    <3> QED BY <3>1, <3>2 DEF StackApart
  <2>5. StackEverywhere'
    <3>1. \A u \in Threads, n \in Nodes : StackHas(u, n) => StackHas(u, n)'
      BY DEF S!TypeOK, StackHas, StackCarries
    <3>2. Stacked' = Stacked BY DEF Stacked
    <3> QED BY <3>1, <3>2 DEF StackEverywhere
  <2>6. HeadSound' BY DEF HeadSound
  <2>7. S!ChainSpellsStack' BY DEF S!TypeOK, S!ChainSpellsStack, S!Unlinking
  <2> QED BY <2>1, <2>2, <2>3, <2>4, <2>5, <2>6, <2>7
<1>5. ASSUME NEW t \in Threads, S!PushLink(t) PROVE StackInv'
  <2> USE <1>5 DEF S!PushLink
  <2>1. /\ stackNode[t] \in Nodes /\ stackNode[t] \notin Stacked /\ link[stackNode[t]] = None
        /\ stacked \in Seq(Nodes) /\ Len(stacked) \in Nat
    BY LenProperties DEF S!TypeOK, StackCalls, StackApart, StackCarries
  <2>2. \A u \in Threads : u # t => stackPc[u] \notin S!InLock
    BY DEF S!TypeOK, StackExclusion, S!InLock
  <2>3. /\ stacked' \in Seq(Nodes) /\ Len(stacked') = Len(stacked) + 1
        /\ stacked'[1] = stackNode[t]
        /\ \A i \in 1 .. Len(stacked) : stacked'[i + 1] = stacked[i]
        /\ stacked' # <<>>
    <3>1. /\ stacked' \in Seq(Nodes) /\ Len(stacked') = Len(stacked) + 1
          /\ stacked'[1] = stackNode[t]
          /\ \A i \in 1 .. Len(stacked) : stacked'[i + 1] = stacked[i]
      BY <2>1, InFront
    <3> QED BY <2>1, <3>1, EmptySeq
  <2>4. \A j \in 1 .. Len(stacked') :
           j = 1 \/ (j - 1 \in 1 .. Len(stacked) /\ stacked'[j] = stacked[j - 1])
    <3> SUFFICES ASSUME NEW j \in 1 .. Len(stacked'), j # 1
                 PROVE  j - 1 \in 1 .. Len(stacked) /\ stacked'[j] = stacked[j - 1]
      OBVIOUS
    <3>1. j - 1 \in 1 .. Len(stacked) BY <2>1, <2>3
    <3>2. stacked'[(j - 1) + 1] = stacked[j - 1] BY <2>3, <3>1
    <3> QED BY <3>1, <3>2
  <2>5. Stacked' = Stacked \cup {stackNode[t]}
    <3>1. Stacked' \subseteq Stacked \cup {stackNode[t]} BY <2>3, <2>4 DEF Stacked
    <3>2. stackNode[t] \in Stacked' BY <2>1, <2>3 DEF Stacked
    <3>3. Stacked \subseteq Stacked'
      <4> SUFFICES ASSUME NEW i \in 1 .. Len(stacked) PROVE stacked[i] \in Stacked'
        BY DEF Stacked
      <4>1. i + 1 \in 1 .. Len(stacked') BY <2>1, <2>3
      <4> QED BY <2>3, <4>1 DEF Stacked
    <3> QED BY <3>1, <3>2, <3>3
  <2>6. S!TypeOK' BY <2>1, <2>3 DEF S!TypeOK, S!Labels, S!InLock
  <2>7. StackExclusion' BY DEF S!TypeOK, StackExclusion, S!InLock
  <2>8. StackCalls'
    <3>1. \A u \in Threads : u # t /\ stackPc[u] = "push_lock" => stackNode[u] # stackNode[t]
      BY DEF StackApart, StackCarries
    <3> QED BY <2>2, <3>1 DEF S!TypeOK, StackCalls, StackCarries, S!InLock
  <2>9. StackApart'
    <3>1. \A i, j \in 1 .. Len(stacked') : stacked'[i] = stacked'[j] => i = j
      <4> SUFFICES ASSUME NEW i \in 1 .. Len(stacked'), NEW j \in 1 .. Len(stacked'),
                          stacked'[i] = stacked'[j]
                   PROVE  i = j
        OBVIOUS
      <4>1. \A k \in 1 .. Len(stacked) : stacked[k] # stackNode[t] BY <2>1 DEF Stacked
      <4>2. i = 1 <=> j = 1 BY <2>3, <2>4, <4>1
      <4>3. i # 1 => i - 1 = j - 1 BY <2>4, <4>2 DEF StackApart
      <4> QED BY <4>2, <4>3
    <3>2. \A u \in Threads : StackCarries(u)' <=> StackCarries(u) /\ u # t
      BY DEF S!TypeOK, StackCarries
    <3>3. StackCarries(t) BY DEF StackCarries
    <3> QED BY <2>5, <3>1, <3>2, <3>3 DEF StackApart
  <2>10. StackEverywhere'
    <3>1. \A u \in Threads, n \in Nodes : StackHas(u, n) => StackHas(u, n)' \/ n = stackNode[t]
      BY <2>1 DEF S!TypeOK, StackHas, StackCarries, StackApart
    <3> QED BY <2>5, <3>1 DEF StackEverywhere
  <2>11. HeadSound' BY <2>3 DEF HeadSound
  <2>12. ~S!Unlinking /\ ~S!Unlinking' BY <2>2 DEF S!TypeOK, S!Unlinking, S!InLock
  <2>13. S!ChainSpellsStack'
    <3>1. head = IF stacked = <<>> THEN None ELSE Head(stacked)
      BY <2>12 DEF S!ChainSpellsStack
    <3>2. \A i \in 1 .. Len(stacked') :
             link'[stacked'[i]] = IF i = Len(stacked') THEN None ELSE stacked'[i + 1]
      <4> SUFFICES ASSUME NEW i \in 1 .. Len(stacked')
                   PROVE  link'[stacked'[i]] = IF i = Len(stacked') THEN None
                                               ELSE stacked'[i + 1]
        OBVIOUS
      <4>1. CASE i = 1 /\ stacked = <<>>
        BY <2>1, <2>3, <3>1, <4>1 DEF S!TypeOK
      <4>2. CASE i = 1 /\ stacked # <<>>
        <5>1. head = stacked[1] /\ 1 \in 1 .. Len(stacked)
          BY <2>1, <3>1, <4>2, Rest
        <5>2. head \in Nodes BY <2>1, <5>1, ElementOfSeq
        <5> QED BY <2>1, <2>3, <4>2, <5>1, <5>2 DEF S!TypeOK
      <4>3. CASE i # 1
        <5>1. i - 1 \in 1 .. Len(stacked) /\ stacked'[i] = stacked[i - 1]
          BY <2>4, <4>3
        <5>2. stacked[i - 1] # stackNode[t] BY <2>1, <5>1 DEF Stacked
        <5>3. link'[stacked'[i]] = link[stacked[i - 1]] BY <5>1, <5>2 DEF S!TypeOK
        <5>4. link[stacked[i - 1]] = IF i - 1 = Len(stacked) THEN None ELSE stacked[(i - 1) + 1]
          BY <5>1 DEF S!ChainSpellsStack
        <5>5. i # Len(stacked') => i \in 1 .. Len(stacked) /\ stacked'[i + 1] = stacked[i]
          BY <2>1, <2>3
        <5> QED BY <2>1, <2>3, <5>1, <5>3, <5>4, <5>5
      <4> QED BY <4>1, <4>2, <4>3
    <3>3. Head(stacked') = stacked'[1] BY DEF Head
    <3>4. \A u \in Threads : stackPc'[u] # "pop_unlink" BY <2>12 DEF S!Unlinking
    <3> QED BY <2>3, <2>12, <3>2, <3>3, <3>4 DEF S!ChainSpellsStack
  <2> QED BY <2>6, <2>7, <2>8, <2>9, <2>10, <2>11, <2>13
<1>6. ASSUME NEW t \in Threads, S!PushLoad(t) PROVE StackInv'
  <2> USE <1>6 DEF S!PushLoad
  <2>1. S!TypeOK' BY DEF S!TypeOK, S!Labels, S!InLock
  <2>2. StackExclusion' BY DEF S!TypeOK, StackExclusion, S!InLock
  <2>3. StackCalls' BY DEF S!TypeOK, StackCalls, StackCarries
  <2>4. StackApart' BY DEF S!TypeOK, StackApart, StackCarries, Stacked
  <2>5. StackEverywhere'
    <3>1. \A u \in Threads, n \in Nodes : StackHas(u, n) => StackHas(u, n)'
      BY DEF S!TypeOK, StackHas, StackCarries
    <3>2. Stacked' = Stacked BY DEF Stacked
    <3> QED BY <3>1, <3>2 DEF StackEverywhere
  <2>6. HeadSound' BY DEF HeadSound
  <2>7. S!ChainSpellsStack' BY DEF S!TypeOK, S!ChainSpellsStack, S!Unlinking
  <2> QED BY <2>1, <2>2, <2>3, <2>4, <2>5, <2>6, <2>7
<1>7. ASSUME NEW t \in Threads, S!PushReturn(t) PROVE StackInv'
  <2> USE <1>7 DEF S!PushReturn
  <2>1. S!TypeOK'
    <3>1. tmp[t] \in 0 .. CountMod - 1 BY DEF S!TypeOK
    <3>2. (tmp[t] + 1) % CountMod \in 0 .. CountMod - 1 BY <3>1, StackCounts
    <3> QED BY <3>2 DEF S!TypeOK, S!Labels, S!InLock
  <2>2. StackExclusion' BY DEF S!TypeOK, StackExclusion, S!InLock
  <2>3. StackCalls' BY DEF S!TypeOK, StackCalls, StackCarries
  <2>4. StackApart' BY DEF S!TypeOK, StackApart, StackCarries, Stacked
  <2>5. StackEverywhere'
    <3>1. \A u \in Threads, n \in Nodes : StackHas(u, n) => StackHas(u, n)'
      BY DEF S!TypeOK, StackHas, StackCarries
    <3>2. Stacked' = Stacked BY DEF Stacked
    <3> QED BY <3>1, <3>2 DEF StackEverywhere
  <2>6. HeadSound' BY DEF HeadSound
  <2>7. S!ChainSpellsStack' BY DEF S!TypeOK, S!ChainSpellsStack, S!Unlinking
  <2> QED BY <2>1, <2>2, <2>3, <2>4, <2>5, <2>6, <2>7
<1>8. ASSUME NEW t \in Threads, S!PopHead(t) PROVE StackInv'
  <2> USE <1>8 DEF S!PopHead
  <2>1. \A u \in Threads : u # t => stackPc[u] \notin S!InLock
    BY DEF S!TypeOK, StackExclusion, S!InLock
  <2>2. ~S!Unlinking BY <2>1 DEF S!Unlinking, S!InLock
  <2>3. head = IF stacked = <<>> THEN None ELSE Head(stacked)
    BY <2>2 DEF S!ChainSpellsStack
  <2>4. S!TypeOK' BY DEF S!TypeOK, S!Labels, S!InLock
  <2>5. StackExclusion' BY DEF S!TypeOK, StackExclusion, S!InLock
  <2>6. StackCalls' BY DEF S!TypeOK, StackCalls, StackCarries
  <2>7. Stacked' = Stacked BY DEF Stacked
  <2>8. StackApart' BY <2>7 DEF S!TypeOK, StackApart, StackCarries
  <2>9. StackEverywhere'
    <3>1. \A u \in Threads, n \in Nodes : StackHas(u, n) => StackHas(u, n)'
      BY DEF S!TypeOK, StackHas, StackCarries
    <3> QED BY <2>7, <3>1 DEF StackEverywhere
  <2>10. HeadSound' BY DEF HeadSound
  <2>11. S!Unlinking' /\ \A u \in Threads : stackPc'[u] = "pop_unlink" => u = t
    BY <2>1 DEF S!TypeOK, S!Unlinking, S!InLock
  <2>12. stackNode'[t] = head BY DEF S!TypeOK
  <2>13. S!ChainSpellsStack' BY <2>3, <2>11, <2>12 DEF S!ChainSpellsStack
  <2> QED BY <2>4, <2>5, <2>6, <2>8, <2>9, <2>10, <2>13
<1>9. ASSUME NEW t \in Threads, S!PopUnlink(t) PROVE StackInv'
  <2> USE <1>9 DEF S!PopUnlink
  <2>1. /\ stacked \in Seq(Nodes) /\ Len(stacked) \in Nat
        /\ stackNode[t] = IF stacked = <<>> THEN None ELSE Head(stacked)
    BY LenProperties DEF S!TypeOK, S!ChainSpellsStack
  <2>2. stacked # <<>> /\ Head(stacked) = stacked[1] /\ Len(stacked) > 0
        /\ stackNode[t] = stacked[1]
    BY <2>1, Rest
  <2>3. stackNode[t] \in Nodes /\ stackNode[t] \in Stacked
    BY <2>1, <2>2, ElementOfSeq DEF Stacked
  <2>4. \A u \in Threads : u # t => stackPc[u] \notin S!InLock
    BY DEF S!TypeOK, StackExclusion, S!InLock
  <2>5. /\ stacked' \in Seq(Nodes) /\ Len(stacked') = Len(stacked) - 1
        /\ \A i \in 1 .. Len(stacked) - 1 : stacked'[i] = stacked[i + 1]
        /\ Len(stacked') = 0 <=> stacked' = <<>>
    <3>1. /\ stacked' \in Seq(Nodes) /\ Len(stacked') = Len(stacked) - 1
          /\ \A i \in 1 .. Len(stacked) - 1 : stacked'[i] = stacked[i + 1]
      BY <2>1, <2>2, Rest
    <3> QED BY <3>1, EmptySeq
  <2>6. Stacked' = Stacked \ {stackNode[t]}
    <3>1. Stacked' \subseteq Stacked \ {stackNode[t]}
      <4> SUFFICES ASSUME NEW i \in 1 .. Len(stacked')
                   PROVE  stacked'[i] \in Stacked \ {stackNode[t]}
        BY DEF Stacked
      <4>1. i + 1 \in 1 .. Len(stacked) /\ stacked'[i] = stacked[i + 1] /\ i + 1 # 1
        BY <2>1, <2>5
      <4>2. stacked[i + 1] # stacked[1] BY <2>1, <2>2, <4>1 DEF StackApart
      <4> QED BY <2>2, <4>1, <4>2 DEF Stacked
    <3>2. Stacked \ {stackNode[t]} \subseteq Stacked'
      <4> SUFFICES ASSUME NEW i \in 1 .. Len(stacked), stacked[i] # stackNode[t]
                   PROVE  stacked[i] \in Stacked'
        BY DEF Stacked
      <4>1. i - 1 \in 1 .. Len(stacked) - 1 BY <2>1, <2>2
      <4>2. stacked'[i - 1] = stacked[(i - 1) + 1] BY <2>5, <4>1
      <4>3. i - 1 \in 1 .. Len(stacked') /\ stacked'[i - 1] = stacked[i]
        BY <2>1, <2>5, <4>1, <4>2
      <4> QED BY <4>3 DEF Stacked
    <3> QED BY <3>1, <3>2
  <2>7. S!TypeOK' BY <2>3, <2>5 DEF S!TypeOK, S!Labels, S!InLock
  <2>8. StackExclusion' BY DEF S!TypeOK, StackExclusion, S!InLock
  <2>9. StackCalls' BY <2>3 DEF S!TypeOK, StackCalls, StackCarries
  <2>10. StackApart'
    <3>1. \A i, j \in 1 .. Len(stacked') : stacked'[i] = stacked'[j] => i = j
      <4> SUFFICES ASSUME NEW i \in 1 .. Len(stacked'), NEW j \in 1 .. Len(stacked'),
                          stacked'[i] = stacked'[j]
                   PROVE  i = j
        OBVIOUS
      <4>1. /\ i + 1 \in 1 .. Len(stacked) /\ stacked'[i] = stacked[i + 1]
            /\ j + 1 \in 1 .. Len(stacked) /\ stacked'[j] = stacked[j + 1]
        BY <2>1, <2>5
      <4>2. i + 1 = j + 1 BY <4>1 DEF StackApart
      <4> QED BY <4>2
    <3>2. \A u \in Threads : StackCarries(u)' <=> StackCarries(u) \/ u = t
      BY DEF S!TypeOK, StackCarries
    <3> QED BY <2>3, <2>6, <3>1, <3>2 DEF StackApart
  <2>11. StackEverywhere'
    <3>1. \A u \in Threads, n \in Nodes : StackHas(u, n) => StackHas(u, n)'
      BY DEF S!TypeOK, StackHas, StackCarries
    <3>2. StackHas(t, stackNode[t])' BY DEF S!TypeOK, StackHas, StackCarries
    <3> QED BY <2>3, <2>6, <3>1, <3>2 DEF StackEverywhere
  <2>12. link[stackNode[t]] = IF Len(stacked) = 1 THEN None ELSE stacked[2]
    <3>1. 1 \in 1 .. Len(stacked) BY <2>1, <2>2
    <3>2. link[stacked[1]] = IF 1 = Len(stacked) THEN None ELSE stacked[1 + 1]
      BY <3>1 DEF S!ChainSpellsStack
    <3> QED BY <2>2, <3>2
  <2>13. head' = IF stacked' = <<>> THEN None ELSE Head(stacked')
    <3>1. CASE Len(stacked) = 1 BY <2>5, <2>12, <3>1
    <3>2. CASE Len(stacked) # 1
      <4>1. stacked'[1] = stacked[1 + 1] /\ stacked' # <<>> BY <2>1, <2>2, <2>5, <3>2
      <4> QED BY <2>12, <3>2, <4>1 DEF Head
    <3> QED BY <3>1, <3>2
  <2>14. HeadSound' BY <2>13 DEF HeadSound, Head
  <2>15. ~S!Unlinking' BY <2>4 DEF S!TypeOK, S!Unlinking, S!InLock
  <2>16. S!ChainSpellsStack'
    <3>1. \A i \in 1 .. Len(stacked') :
             link'[stacked'[i]] = IF i = Len(stacked') THEN None ELSE stacked'[i + 1]
      <4> SUFFICES ASSUME NEW i \in 1 .. Len(stacked')
                   PROVE  link'[stacked'[i]] = IF i = Len(stacked') THEN None
                                               ELSE stacked'[i + 1]
        OBVIOUS
      <4>1. i + 1 \in 1 .. Len(stacked) /\ stacked'[i] = stacked[i + 1]
        BY <2>1, <2>5
      <4>2. link[stacked[i + 1]] = IF i + 1 = Len(stacked) THEN None ELSE stacked[(i + 1) + 1]
        BY <4>1 DEF S!ChainSpellsStack
      <4>3. i # Len(stacked') => stacked'[i + 1] = stacked[(i + 1) + 1]
        BY <2>1, <2>5
      <4> QED BY <2>1, <2>5, <4>1, <4>2, <4>3
    <3>2. \A u \in Threads : stackPc'[u] # "pop_unlink" BY <2>15 DEF S!Unlinking
    <3> QED BY <2>13, <3>1, <3>2 DEF S!ChainSpellsStack
  <2> QED BY <2>7, <2>8, <2>9, <2>10, <2>11, <2>14, <2>16
<1>10. ASSUME NEW t \in Threads, S!PopEmpty(t) PROVE StackInv'
  <2> USE <1>10 DEF S!PopEmpty
  <2>1. S!TypeOK' BY DEF S!TypeOK, S!Labels, S!InLock
  <2>2. StackExclusion' BY DEF S!TypeOK, StackExclusion, S!InLock
  <2>3. StackCalls' BY DEF S!TypeOK, StackCalls, StackCarries
  <2>4. StackApart' BY DEF S!TypeOK, StackApart, StackCarries, Stacked
  <2>5. StackEverywhere'
    <3>1. \A u \in Threads, n \in Nodes : StackHas(u, n) => StackHas(u, n)'
      BY DEF S!TypeOK, StackHas, StackCarries
    <3>2. Stacked' = Stacked BY DEF Stacked
    <3> QED BY <3>1, <3>2 DEF StackEverywhere
  <2>6. HeadSound' BY DEF HeadSound
  <2>7. S!ChainSpellsStack' BY DEF S!TypeOK, S!ChainSpellsStack, S!Unlinking
  <2> QED BY <2>1, <2>2, <2>3, <2>4, <2>5, <2>6, <2>7
<1>11. ASSUME NEW t \in Threads, S!PopLoad(t) PROVE StackInv'
  <2> USE <1>11 DEF S!PopLoad
  <2>1. S!TypeOK' BY DEF S!TypeOK, S!Labels, S!InLock
  <2>2. StackExclusion' BY DEF S!TypeOK, StackExclusion, S!InLock
  <2>3. StackCalls' BY DEF S!TypeOK, StackCalls, StackCarries
  <2>4. StackApart' BY DEF S!TypeOK, StackApart, StackCarries, Stacked
  <2>5. StackEverywhere'
    <3>1. \A u \in Threads, n \in Nodes : StackHas(u, n) => StackHas(u, n)'
      BY DEF S!TypeOK, StackHas, StackCarries
    <3>2. Stacked' = Stacked BY DEF Stacked
    <3> QED BY <3>1, <3>2 DEF StackEverywhere
  <2>6. HeadSound' BY DEF HeadSound
  <2>7. S!ChainSpellsStack' BY DEF S!TypeOK, S!ChainSpellsStack, S!Unlinking
  <2> QED BY <2>1, <2>2, <2>3, <2>4, <2>5, <2>6, <2>7
<1>12. ASSUME NEW t \in Threads, S!PopReturn(t) PROVE StackInv'
  <2> USE <1>12 DEF S!PopReturn
  <2>1. stackNode[t] \in Nodes /\ StackCarries(t) BY DEF StackCalls, StackCarries
  <2>2. S!TypeOK'
    <3>1. tmp[t] \in 0 .. CountMod - 1 BY DEF S!TypeOK
    <3>2. S!Less(tmp[t]) \in 0 .. CountMod - 1 BY <3>1, StackCounts
    <3> QED BY <2>1, <3>2 DEF S!TypeOK, S!Labels, S!InLock
  <2>3. StackExclusion' BY DEF S!TypeOK, StackExclusion, S!InLock
  <2>4. StackCalls' BY DEF S!TypeOK, StackCalls, StackCarries
  <2>5. Stacked' = Stacked BY DEF Stacked
  <2>6. StackApart' BY <2>1, <2>5 DEF S!TypeOK, StackApart, StackCarries
  <2>7. StackEverywhere'
    <3>1. \A u \in Threads, n \in Nodes : StackHas(u, n) => StackHas(u, n)'
      BY DEF S!TypeOK, StackHas, StackCarries
    <3> QED BY <2>5, <3>1 DEF StackEverywhere
  <2>8. HeadSound' BY DEF HeadSound
  <2>9. S!ChainSpellsStack' BY DEF S!TypeOK, S!ChainSpellsStack, S!Unlinking
  <2> QED BY <2>2, <2>3, <2>4, <2>6, <2>7, <2>8, <2>9
<1>13. ASSUME NEW t \in Threads, S!TopTest(t) PROVE StackInv'
  <2> USE <1>13 DEF S!TopTest
  <2>1. S!TypeOK' BY DEF S!TypeOK, S!Labels, S!InLock
  <2>2. StackExclusion' BY DEF S!TypeOK, StackExclusion, S!InLock
  <2>3. StackCalls' BY DEF S!TypeOK, StackCalls, StackCarries
  <2>4. StackApart' BY DEF S!TypeOK, StackApart, StackCarries, Stacked
  <2>5. StackEverywhere'
    <3>1. \A u \in Threads, n \in Nodes : StackHas(u, n) => StackHas(u, n)'
      BY DEF S!TypeOK, StackHas, StackCarries
    <3>2. Stacked' = Stacked BY DEF Stacked
    <3> QED BY <3>1, <3>2 DEF StackEverywhere
  <2>6. HeadSound' BY DEF HeadSound
  <2>7. S!ChainSpellsStack' BY DEF S!TypeOK, S!ChainSpellsStack, S!Unlinking
  <2> QED BY <2>1, <2>2, <2>3, <2>4, <2>5, <2>6, <2>7
<1>14. ASSUME NEW t \in Threads, S!TopRead(t) PROVE StackInv'
  <2> USE <1>14 DEF S!TopRead
  <2>1. S!TypeOK' BY DEF S!TypeOK, S!Labels, S!InLock
  <2>2. StackExclusion' BY DEF S!TypeOK, StackExclusion, S!InLock
  <2>3. StackCalls' BY DEF S!TypeOK, StackCalls, StackCarries
  <2>4. StackApart' BY DEF S!TypeOK, StackApart, StackCarries, Stacked
  <2>5. StackEverywhere'
    <3>1. \A u \in Threads, n \in Nodes : StackHas(u, n) => StackHas(u, n)'
      BY DEF S!TypeOK, StackHas, StackCarries
    <3>2. Stacked' = Stacked BY DEF Stacked
    <3> QED BY <3>1, <3>2 DEF StackEverywhere
  <2>6. HeadSound' BY DEF HeadSound
  <2>7. S!ChainSpellsStack' BY DEF S!TypeOK, S!ChainSpellsStack, S!Unlinking
  <2> QED BY <2>1, <2>2, <2>3, <2>4, <2>5, <2>6, <2>7
<1>15. ASSUME NEW t \in Threads, S!TopReturn(t) PROVE StackInv'
  <2> USE <1>15 DEF S!TopReturn
  <2>1. S!TypeOK' BY DEF S!TypeOK, S!Labels, S!InLock
  <2>2. StackExclusion' BY DEF S!TypeOK, StackExclusion, S!InLock
  <2>3. StackCalls' BY DEF S!TypeOK, StackCalls, StackCarries
  <2>4. StackApart' BY DEF S!TypeOK, StackApart, StackCarries, Stacked
  <2>5. StackEverywhere'
    <3>1. \A u \in Threads, n \in Nodes : StackHas(u, n) => StackHas(u, n)'
      BY DEF S!TypeOK, StackHas, StackCarries
    <3>2. Stacked' = Stacked BY DEF Stacked
    <3> QED BY <3>1, <3>2 DEF StackEverywhere
  <2>6. HeadSound' BY DEF HeadSound
  <2>7. S!ChainSpellsStack' BY DEF S!TypeOK, S!ChainSpellsStack, S!Unlinking
  <2> QED BY <2>1, <2>2, <2>3, <2>4, <2>5, <2>6, <2>7
<1>16. ASSUME S!StackInit PROVE StackInv'
  <2> USE <1>16 DEF S!StackInit, S!Quiescent
  <2>1. S!Reached = Stacked BY ReachesStacked DEF S!Quiescent
  <2>2. Stacked \subseteq Nodes /\ Stacked' = {}
    BY LenProperties, ElementOfSeq DEF S!TypeOK, Stacked
  <2>3. S!TypeOK' BY <2>1, <2>2, EmptySeq DEF S!TypeOK
  <2>4. StackExclusion' BY DEF StackExclusion, S!InLock
  <2>5. StackCalls' BY DEF StackCalls, StackCarries
  <2>6. StackApart'
    <3>1. \A u \in Threads : StackCarries(u)' <=> StackCarries(u) BY DEF StackCarries
    <3> QED BY <2>1, <2>2, <3>1, EmptySeq DEF StackApart
  <2>7. StackEverywhere'
    <3>1. \A u \in Threads, n \in Nodes : StackHas(u, n) => StackHas(u, n)'
      BY DEF StackHas, StackCarries
    <3> QED BY <2>1, <2>2, <3>1 DEF StackEverywhere
  <2>8. HeadSound' BY DEF HeadSound
  <2>9. S!ChainSpellsStack' BY EmptySeq DEF S!ChainSpellsStack, S!Unlinking
  <2> QED BY <2>3, <2>4, <2>5, <2>6, <2>7, <2>8, <2>9
<1>17. ASSUME S!StackFree PROVE StackInv'
  <2> USE <1>17 DEF S!StackFree, S!Quiescent
  <2>1. S!Reached = Stacked BY ReachesStacked DEF S!Quiescent
  <2>2. Stacked \subseteq Nodes /\ Stacked' = {}
    BY LenProperties, ElementOfSeq DEF S!TypeOK, Stacked
  <2>3. S!TypeOK' BY <2>1, <2>2, EmptySeq DEF S!TypeOK
  <2>4. StackExclusion' BY DEF StackExclusion, S!InLock
  <2>5. StackCalls' BY DEF StackCalls, StackCarries
  <2>6. StackApart'
    <3>1. \A u \in Threads : StackCarries(u)' <=> StackCarries(u) BY DEF StackCarries
    <3> QED BY <2>1, <2>2, <3>1, EmptySeq DEF StackApart
  <2>7. StackEverywhere'
    <3>1. \A u \in Threads, n \in Nodes : StackHas(u, n) => StackHas(u, n)'
      BY DEF StackHas, StackCarries
    <3> QED BY <2>1, <2>2, <3>1 DEF StackEverywhere
  <2>8. HeadSound' BY DEF HeadSound
  <2>9. S!ChainSpellsStack' BY EmptySeq DEF S!ChainSpellsStack, S!Unlinking
  <2> QED BY <2>3, <2>4, <2>5, <2>6, <2>7, <2>8, <2>9
<1>18. CASE UNCHANGED S!vars
  BY <1>18 DEF S!vars, S!TypeOK, StackExclusion, StackCalls, StackApart, StackEverywhere,
               StackHas, HeadSound,
               S!ChainSpellsStack, S!InLock, S!Labels, StackCarries, Stacked, S!Unlinking
<1> QED
  BY <1>1, <1>2, <1>3, <1>4, <1>5, <1>6, <1>7, <1>8, <1>9, <1>10, <1>11, <1>12,
     <1>13, <1>14, <1>15, <1>16, <1>17, <1>18 DEF S!Next, S!Push, S!Pop, S!Top

\* IInv holds in every reachable state of every instance.
LEMMA StackInvariance == ASSUME S!StackAssumption PROVE S!Spec => []StackInv
<1>1. S!Spec => S!Init /\ [][S!Next]_(S!vars) BY DEF S!Spec
<1>2. S!Init => StackInv BY InitStackInv
<1>3. StackInv /\ [S!Next]_(S!vars) => StackInv' BY StepStackInv
<1> QED BY <1>1, <1>2, <1>3, PTL

\* Type correctness: no field of the stack, and no local of a call, holds a node that
\* does not exist, and nodecount stays inside its width.
THEOREM StackTypeCorrect == ASSUME S!StackAssumption PROVE S!Spec => []S!TypeOK
<1>1. StackInv => S!TypeOK BY DEF StackInv
<1> QED BY <1>1, StackInvariance, PTL

\* Whatever the interleaving of pushes and pops, the links from head spell the
\* nodes pushed and not popped, newest first, and end.
THEOREM ChainIsStack == ASSUME S!StackAssumption PROVE S!Spec => []S!ChainSpellsStack
<1>1. StackInv => S!ChainSpellsStack BY DEF StackInv
<1> QED BY <1>1, StackInvariance, PTL

LEMMA StackPlaceEach == ASSUME S!StackAssumption, StackInv PROVE S!NodesConserved
<1> DEFINE owners(n) == {t \in Threads : n \in stackHeld[t]}
           carriers(n) == {t \in Threads : stackNode[t] = n /\ stackPc[t] \in
                             {"push_lock", "push_link", "pop_load", "pop_store"}}
           places(n) == {i \in 1 .. Len(stacked) : stacked[i] = n}
<1> SUFFICES ASSUME NEW n \in Nodes
             PROVE  Cardinality(owners(n)) + Cardinality(carriers(n))
                    + Cardinality(places(n)) + Cardinality({n} \cap stackFreed) = 1
  BY DEF S!NodesConserved, S!Cardinality, Cardinality
<1>1. carriers(n) = {t \in Threads : StackCarries(t) /\ stackNode[t] = n}
  BY DEF StackCarries
<1>2. /\ \A t, u \in owners(n) : t = u
      /\ \A t, u \in carriers(n) : t = u
      /\ \A i, j \in places(n) : i = j
      /\ \A x, y \in {n} \cap stackFreed : x = y
  BY <1>1 DEF StackInv, StackApart
<1>3. /\ places(n) # {} <=> n \in Stacked
      /\ {n} \cap stackFreed # {} <=> n \in stackFreed
  BY DEF Stacked
<1>4. /\ owners(n) # {} => carriers(n) = {} /\ n \notin Stacked \cup stackFreed
      /\ carriers(n) # {} => n \notin Stacked \cup stackFreed
      /\ ~(n \in Stacked /\ n \in stackFreed)
  BY <1>1 DEF StackInv, StackApart
<1>5. owners(n) # {} \/ carriers(n) # {} \/ n \in Stacked \/ n \in stackFreed
  BY <1>1 DEF StackInv, StackEverywhere, StackHas
<1> HIDE DEF owners, carriers, places
<1>6. /\ Cardinality(owners(n)) = IF owners(n) = {} THEN 0 ELSE 1
      /\ Cardinality(carriers(n)) = IF carriers(n) = {} THEN 0 ELSE 1
      /\ Cardinality(places(n)) = IF places(n) = {} THEN 0 ELSE 1
      /\ Cardinality({n} \cap stackFreed) = IF {n} \cap stackFreed = {} THEN 0 ELSE 1
  BY <1>2, AtMostOne
<1> QED BY <1>3, <1>4, <1>5, <1>6

\* No interleaving loses a node, hands one out twice, or lets stack_init or
\* stack_free free one that a client or a call has.
THEOREM StackNodesHavePlaces == ASSUME S!StackAssumption PROVE S!Spec => []S!NodesConserved
<1>1. StackInv => S!NodesConserved BY StackPlaceEach
<1> QED BY <1>1, StackInvariance, PTL
-----------------------------------------------------------------------------
(***************************************************************************)
(* The stack implements LifoSpec.                                          *)
(***************************************************************************)

LEMMA InitLifo == ASSUME S!StackAssumption, S!Init PROVE S!Lifo!Init
<1>1. S!Status = [t \in Threads |-> "idle"] BY DEF S!Init, S!Status, S!CallStatus
<1>2. S!Carried = [t \in Threads |-> None] BY DEF S!Init, S!Carried
<1> QED BY <1>1, <1>2 DEF S!Init, S!Lifo!Init

LEMMA StepLifo == ASSUME S!StackAssumption, StackInv, [S!Next]_(S!vars)
                  PROVE  [S!Lifo!Next]_(S!Lifo!lifoVars)
<1> USE DEF S!StackAssumption, S!Goto, S!shared, S!CanLock, S!Lifo!Move
<1>0. stackPc \in [Threads -> S!Labels] /\ stackNode \in [Threads -> Nodes \cup {None}]
  BY DEF StackInv, S!TypeOK
<1> USE DEF S!Labels, S!InLock, S!Status, S!CallStatus, S!Carried
<1>1. ASSUME NEW t \in Threads, S!PushCall(t) PROVE S!Lifo!InvokePush(t)
  <2>1. PICK n \in stackHeld[t] : S!PushCall(t)!(n) BY <1>1 DEF S!PushCall
  <2>2. S!Status[t] = "idle" /\ S!Status' = [S!Status EXCEPT ![t] = "push"]
    BY <1>0, <2>1
  <2>3. S!Carried' = [S!Carried EXCEPT ![t] = n] BY <1>0, <2>1
  <2> QED BY <2>1, <2>2, <2>3 DEF S!Lifo!InvokePush
<1>2. ASSUME NEW t \in Threads, S!PopCall(t) PROVE S!Lifo!InvokePop(t)
  BY <1>0, <1>2 DEF S!PopCall, S!Lifo!InvokePop
<1>3. ASSUME NEW t \in Threads, S!TopCall(t) PROVE S!Lifo!InvokeLook(t)
  BY <1>0, <1>3 DEF S!TopCall, S!Lifo!InvokeLook
<1>4. ASSUME NEW t \in Threads, S!Lock(t) PROVE UNCHANGED S!Lifo!lifoVars
  BY <1>0, <1>4 DEF S!Lock, S!Lifo!lifoVars
<1>5. ASSUME NEW t \in Threads, S!PushLink(t) PROVE S!Lifo!Push(t)
  BY <1>0, <1>5 DEF S!PushLink, S!Lifo!Push
<1>6. ASSUME NEW t \in Threads, S!PushLoad(t) PROVE UNCHANGED S!Lifo!lifoVars
  BY <1>0, <1>6 DEF S!PushLoad, S!Lifo!lifoVars
<1>7. ASSUME NEW t \in Threads, S!PushReturn(t) PROVE S!Lifo!Return(t)
  BY <1>0, <1>7 DEF S!PushReturn, S!Lifo!Return
<1>8. ASSUME NEW t \in Threads, S!PopHead(t) PROVE UNCHANGED S!Lifo!lifoVars
  BY <1>0, <1>8 DEF S!PopHead, S!Lifo!lifoVars, StackInv, StackCalls
<1>9. ASSUME NEW t \in Threads, S!PopUnlink(t) PROVE S!Lifo!Pop(t)
  <2>1. /\ stacked \in Seq(Nodes)
        /\ stackNode[t] = IF stacked = <<>> THEN None ELSE Head(stacked)
    BY <1>9 DEF S!PopUnlink, StackInv, S!TypeOK, S!ChainSpellsStack
  <2>2. stacked # <<>> /\ stacked' = Tail(stacked)
    BY <1>9, <2>1, Rest DEF S!PopUnlink
  <2>3. S!Status[t] = "pop" /\ S!Status' = [S!Status EXCEPT ![t] = "popped"]
    BY <1>0, <1>9 DEF S!PopUnlink
  <2>4. S!Carried' = [S!Carried EXCEPT ![t] = Head(stacked)]
    BY <1>0, <1>9, <2>1, <2>2 DEF S!PopUnlink
  <2> QED BY <1>9, <2>2, <2>3, <2>4 DEF S!PopUnlink, S!Lifo!Pop
<1>10. ASSUME NEW t \in Threads, S!PopEmpty(t) PROVE UNCHANGED S!Lifo!lifoVars
  BY <1>0, <1>10 DEF S!PopEmpty, S!Lifo!lifoVars
<1>11. ASSUME NEW t \in Threads, S!PopLoad(t) PROVE UNCHANGED S!Lifo!lifoVars
  BY <1>0, <1>11 DEF S!PopLoad, S!Lifo!lifoVars
<1>12. ASSUME NEW t \in Threads, S!PopReturn(t) PROVE S!Lifo!ReturnPop(t)
  BY <1>0, <1>12 DEF S!PopReturn, S!Lifo!ReturnPop
<1>13. ASSUME NEW t \in Threads, S!TopTest(t) PROVE S!Lifo!Look(t) \/ UNCHANGED S!Lifo!lifoVars
  <2>1. CASE head = None
    BY <1>0, <1>13, <2>1, ZenonT(40) DEF S!TopTest, S!Lifo!Look
  <2>2. CASE head # None
    BY <1>0, <1>13, <2>2 DEF S!TopTest, S!Lifo!lifoVars
  <2> QED BY <2>1, <2>2
<1>14. ASSUME NEW t \in Threads, S!TopRead(t) PROVE S!Lifo!Look(t)
  <2>1. S!Status[t] = "look" /\ S!Status' = [S!Status EXCEPT ![t] = "looked"]
    BY <1>0, <1>14 DEF S!TopRead
  <2>2. S!Carried' = [S!Carried EXCEPT ![t] = head] /\ S!Carried[t] = None
    BY <1>0, <1>14 DEF S!TopRead, StackInv, StackCalls
  <2>3. head = None \/ (stacked # <<>> /\ head = Head(stacked))
    BY <1>14 DEF S!TopRead, StackInv, HeadSound
  <2>4. head = None => S!Carried' = S!Carried
    BY <1>0, <1>14 DEF S!TopRead, StackInv, StackCalls
  <2> QED BY <1>14, <2>1, <2>2, <2>3, <2>4 DEF S!TopRead, S!Lifo!Look
<1>15. ASSUME NEW t \in Threads, S!TopReturn(t) PROVE S!Lifo!Return(t)
  BY <1>0, <1>15 DEF S!TopReturn, S!Lifo!Return
<1>16. ASSUME S!StackInit PROVE S!Lifo!Clear
  BY <1>0, <1>16 DEF S!StackInit, S!Quiescent, S!Lifo!Clear
<1>17. ASSUME S!StackFree PROVE S!Lifo!Clear
  BY <1>0, <1>17 DEF S!StackFree, S!Quiescent, S!Lifo!Clear
<1>18. CASE UNCHANGED S!vars
  BY <1>18 DEF S!vars, S!Lifo!lifoVars
<1> QED
  BY <1>1, <1>2, <1>3, <1>4, <1>5, <1>6, <1>7, <1>8, <1>9, <1>10, <1>11, <1>12,
     <1>13, <1>14, <1>15, <1>16, <1>17, <1>18 DEF S!Next, S!Push, S!Pop, S!Top, S!Lifo!Next

\* Pushes and pops of any threads act as on a stack, each at one instant, though
\* stack_pop counts its node off after it unlocks and nodecount drifts.
THEOREM RefinesLifo == ASSUME S!StackAssumption PROVE S!Spec => S!ImplementsLifo
<1>1. S!Spec => S!Init /\ [][S!Next]_(S!vars) BY DEF S!Spec
<1>2. S!Init => S!Lifo!Init BY InitLifo
<1>3. StackInv /\ [S!Next]_(S!vars) => [S!Lifo!Next]_(S!Lifo!lifoVars) BY StepLifo
<1> QED BY <1>1, <1>2, <1>3, StackInvariance, PTL DEF S!ImplementsLifo, S!Lifo!Spec
-----------------------------------------------------------------------------
\* Beside the queue the stack still behaves as module Stack says: a step of the
\* composition is one of the stack or leaves it alone.
LEMMA ImplementsStack == MCSpec => S!Spec
<1>1. MCInit => S!Init BY DEF MCInit
<1>2. [MCNext]_<<vars, stackVars, use>> => [S!Next]_(S!vars)
  BY Zenon DEF MCNext, OnQueue, stackVars, S!vars, S!Next
<1> QED BY <1>1, <1>2, PTL DEF MCSpec, S!Spec

\* Whatever the threads do with the queue and the stack, the stack's chain from head
\* is the nodes pushed and not popped, newest first, and every node is owned,
\* carried, stacked or freed exactly once.
THEOREM StackIsKept == MCSpec => []StackKept
<1>1. S!Spec => []S!ChainSpellsStack BY CountModAssumption, ChainIsStack
<1>2. S!Spec => []S!NodesConserved BY CountModAssumption, StackNodesHavePlaces
<1> QED BY <1>1, <1>2, ImplementsStack, PTL DEF StackKept

\* Beside the queue pushes and pops still act as on a stack, each at one instant.
THEOREM StackIsLifo == MCSpec => StackImplementsLifo
BY CountModAssumption, RefinesLifo, ImplementsStack, PTL DEF StackImplementsLifo
=============================================================================
