----------------------------- MODULE StringSpec -----------------------------
(***************************************************************************)
(* What a dynamic string promises: it holds a text of any bytes, and each  *)
(* call changes it, or answers, as the call says.  Module Sds implements   *)
(* it.                                                                     *)
(***************************************************************************)
EXTENDS Integers, SequencesExt

VARIABLES text,
          call      \* the last call: its name, its arguments, what it returned

stringVars == <<text, call>>

Init == text = <<>> /\ call = <<"empty">>

Assign == call'[1] = "assign" /\ text' = call'[2]
Extend == call'[1] = "append" /\ text' = text \o call'[2]
Cut == call'[1] = "cut" /\ text' = SubSeq(text, 1, call'[2])
Change == call'[1] = "change" /\ text' = [i \in DOMAIN text |-> call'[2][text[i]]]
Fail == call' = <<"fail">> /\ UNCHANGED text

\* Off both ends goes what is of the set, as far as it goes.
Trim == /\ call'[1] = "trim"
        /\ \E i, j \in 0 .. Len(text) :
              /\ text' = SubSeq(text, i + 1, j)
              /\ \A p \in DOMAIN text : p \notin i + 1 .. j => text[p] \in call'[2]
              /\ text' # <<>> => Head(text') \notin call'[2] /\ Last(text') \notin call'[2]

\* Places count from 0 and, below that, from the end; one outside stands for the
\* nearest inside.  The last place may come before the first.
Place(i) == IF i >= 0 THEN i ELSE IF Len(text) + i < 0 THEN 0 ELSE Len(text) + i
Inside(i) == IF i >= Len(text) THEN Len(text) - 1 ELSE i
Keep == /\ call'[1] = "keep"
        /\ LET from == Place(call'[2])
               to == Place(call'[3])
           IN  text' = IF text = <<>> \/ from > to THEN <<>>
                       ELSE SubSeq(text, Inside(from) + 1, Inside(to) + 1)

\* The parts between the separators, met from the left; an empty text has one,
\* which is empty, where the comment at sds.c:264 says that nothing is returned.
Occurs(sep, t) == \E i \in 0 .. Len(t) - Len(sep) : SubSeq(t, i + 1, i + Len(sep)) = sep
Joined(parts, sep) ==
    FoldLeft(LAMBDA t, i : t \o (IF i = 1 THEN <<>> ELSE sep) \o parts[i],
             <<>>, [i \in DOMAIN parts |-> i])
Split == /\ call'[1] = "split" /\ UNCHANGED text
         /\ LET sep == call'[2]
                parts == call'[3]
            IN  /\ Joined(parts, sep) = text
                /\ ~Occurs(sep, Last(parts))
                /\ \A p \in Range(Front(parts)) : ~Occurs(sep, p \o Front(sep))

Next == Assign \/ Extend \/ Cut \/ Change \/ Trim \/ Keep \/ Split \/ Fail

Spec == Init /\ [][Next]_stringVars
=============================================================================
