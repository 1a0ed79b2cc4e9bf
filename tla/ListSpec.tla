------------------------------ MODULE ListSpec ------------------------------
(***************************************************************************)
(* What the library's sequence containers promise: each list holds a       *)
(* sequence, and each call changes it, and answers, as the call says.      *)
(* Modules ADList, GenericList and ArrayList implement it; each has some   *)
(* of these calls.                                                         *)
(***************************************************************************)
EXTENDS Integers, SequencesExt

CONSTANTS Lists, Items,
          None,     \* no item
          Rank      \* how the items sort

VARIABLES seqs,     \* the items of each list, first to last
          rest,     \* the items an iteration has yet to return
          call      \* the last call: its name, its arguments, what it returned

listVars == <<seqs, rest, call>>

Init == seqs = [l \in Lists |-> <<>>] /\ rest = <<>> /\ call = <<"create">>

\* Calls that change one list.  The call tells which, and the place and the item.
Changes(name) == call'[1] = name /\ call'[2] \in Lists /\ UNCHANGED rest
l == call'[2]
Becomes(s) == seqs' = [seqs EXCEPT ![l] = s]

AddHead == Changes("add head") /\ Becomes(<<call'[3]>> \o seqs[l])
AddTail == Changes("add tail") /\ Becomes(Append(seqs[l], call'[3]))
Delete == /\ Changes("delete") /\ call'[3] \in DOMAIN seqs[l]
          /\ Becomes(RemoveAt(seqs[l], call'[3]))
Replace == /\ Changes("replace") /\ call'[3] \in DOMAIN seqs[l]
           /\ Becomes([seqs[l] EXCEPT ![call'[3]] = call'[4]])
Clear == Changes("clear") /\ Becomes(<<>>)
Sort == Changes("sort") /\ Becomes(SortSeq(seqs[l], LAMBDA x, y : Rank[x] < Rank[y]))

\* Calls between two lists.  Move takes the item at a place to the head or the
\* tail of a list, which may be the same.
Move == /\ Changes("move") /\ call'[3] \in DOMAIN seqs[l]
        /\ LET x == seqs[l][call'[3]]
               without == [seqs EXCEPT ![l] = RemoveAt(@, call'[3])]
           IN  seqs' = [without EXCEPT ![call'[4]] =
                           IF call'[5] = "head" THEN <<x>> \o @ ELSE Append(@, x)]
Copy == Changes("copy") /\ seqs' = [seqs EXCEPT ![call'[3]] = seqs[l]]
HandOver == /\ Changes("hand over") /\ l # call'[3]
            /\ seqs' = [seqs EXCEPT ![call'[3]] = seqs[l], ![l] = <<>>]

\* Calls that answer, and calls that fail, change nothing.  Find answers with a
\* place, 0 if there is none; At counts from 0 and, below that, from the tail.
Answers(name) == call'[1] = name /\ call'[2] \in Lists /\ UNCHANGED <<seqs, rest>>

Find == Answers("find") /\ call'[4] = SelectInSeq(seqs[l], LAMBDA y : y = call'[3])
At == /\ Answers("at")
      /\ LET n == call'[3] + (IF call'[3] < 0 THEN Len(seqs[l]) ELSE 0) + 1
         IN  call'[4] = IF n \in DOMAIN seqs[l] THEN seqs[l][n] ELSE None
Size == Answers("size") /\ call'[3] = Len(seqs[l])
IsLast == Answers("is last") /\ call'[4] = (call'[3] = Len(seqs[l]))
Fail == call' = <<"fail">> /\ UNCHANGED <<seqs, rest>>

Begin == /\ call'[1] = "iterate" /\ call'[2] \in Lists /\ UNCHANGED seqs
         /\ rest' = IF call'[3] = "head" THEN seqs[l] ELSE Reverse(seqs[l])
Yield == /\ call'[1] = "next" /\ UNCHANGED seqs
         /\ \/ rest # <<>> /\ call'[2] = Head(rest) /\ rest' = Tail(rest)
            \/ rest = <<>> /\ call'[2] = None /\ rest' = rest

Next == \/ AddHead \/ AddTail \/ Delete \/ Replace \/ Clear \/ Sort
        \/ Move \/ Copy \/ HandOver
        \/ Find \/ At \/ Size \/ IsLast \/ Fail
        \/ Begin \/ Yield

Spec == Init /\ [][Next]_listVars
=============================================================================
