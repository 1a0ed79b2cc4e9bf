-------------------------------- MODULE SSort --------------------------------
(***************************************************************************)
(* src/ssort.c: bubble, insert, select and quick sort of a client's array, *)
(* here of numbers, which the client fills and has sorted by one function  *)
(* or another.  quick_sort of an empty array reads far outside it (the     *)
(* index of its last element wraps), so the client does not ask for that.  *)
(***************************************************************************)
EXTENDS Integers, SequencesExt

CONSTANTS Numbers,
          MaxLen,     \* a bound on the array
          None

VARIABLES arr, call

sortVars == <<arr, call>>

Init == arr = <<>> /\ call = <<"create">>

Swapped(s, i, j) == [s EXCEPT ![i] = s[j], ![j] = s[i]]
-----------------------------------------------------------------------------
\* One pass swaps neighbours along the first Len(s) - i elements; the loop stops
\* after the first pass that swaps nothing.
Pass(s, i) == FoldLeft(LAMBDA t, j : IF t[j] > t[j + 1] THEN Swapped(t, j, j + 1) ELSE t,
                       s, [j \in 1 .. Len(s) - i - 1 |-> j])
bubble_sort(s) ==
    LET After[i \in Nat] ==      \* the array after i passes, and whether to go on
            IF i = 0 THEN [arr |-> s, go |-> TRUE]
            ELSE LET was == After[i - 1]
                     now == Pass(was.arr, i - 1)
                 IN  IF was.go THEN [arr |-> now, go |-> now # was.arr] ELSE was
    IN  After[Len(s)].arr

\* The i-th element goes before those in front that are larger.
Inserted(s, i) ==
    LET larger == {j \in 1 .. i - 1 : \A k \in j .. i - 1 : s[k] > s[i]}
        to == i - Cardinality(larger)
    IN  [k \in DOMAIN s |-> IF k = to THEN s[i]
                            ELSE IF k \in to + 1 .. i THEN s[k - 1] ELSE s[k]]
insert_sort(s) == FoldLeft(Inserted, s, [i \in 1 .. Len(s) - 1 |-> i + 1])

\* The last of the smallest from i on goes to i.
Selected(s, i) ==
    LET smallest == {m \in i .. Len(s) : \A j \in i .. Len(s) : s[m] <= s[j]}
    IN  Swapped(s, i, CHOOSE m \in smallest : \A j \in smallest : j <= m)
select_sort(s) == FoldLeft(Selected, s, [i \in 1 .. Len(s) - 1 |-> i])
-----------------------------------------------------------------------------
\* quick_sort_partition: the element halfway is taken out and leaves a hole at p;
\* i and j close in, and what is on the wrong side is put into the hole, which
\* moves to where it was.
FromLeft(a, pivot, i, p) == CHOOSE k \in i .. p + 1 :
    /\ k > p \/ pivot < a[k]
    /\ \A h \in i .. k - 1 : h <= p /\ pivot >= a[h]
FromRight(a, pivot, j, p) == CHOOSE k \in 0 .. j :
    /\ k <= p \/ a[k] < pivot
    /\ \A h \in k + 1 .. j : h > p /\ a[h] >= pivot

CloseIn(r, pivot) ==
    LET i == IF r.i > r.p THEN r.i ELSE FromLeft(r.a, pivot, r.i, r.p)
        left == i < r.p
        p1 == IF left THEN i ELSE r.p
        a1 == IF left THEN [r.a EXCEPT ![r.p] = r.a[i]] ELSE r.a
        j == IF r.j <= p1 THEN r.j ELSE FromRight(a1, pivot, r.j, p1)
        right == p1 < j
    IN  [i |-> i, j |-> j, p |-> IF right THEN j ELSE p1,
         a |-> IF right THEN [a1 EXCEPT ![p1] = a1[j]] ELSE a1]

Partition(s) ==
    LET middle == (Len(s) + 1) \div 2
        pivot == s[middle]
        Loop[k \in Nat] ==
            IF k = 0 THEN [i |-> 1, j |-> Len(s), p |-> middle, a |-> s]
            ELSE LET r == Loop[k - 1]
                 IN  IF r.i < r.j THEN CloseIn(r, pivot) ELSE r
        end == Loop[Len(s)]
    IN  [p |-> end.p, a |-> [end.a EXCEPT ![end.p] = pivot]]

\* Sides of one element are left alone.
quick_sort[s \in Seq(Int)] ==
    LET r == Partition(s)
        low == SubSeq(r.a, 1, r.p - 1)
        high == SubSeq(r.a, r.p + 1, Len(s))
    IN  (IF Len(low) > 1 THEN quick_sort[low] ELSE low) \o <<r.a[r.p]>>
        \o (IF Len(high) > 1 THEN quick_sort[high] ELSE high)
-----------------------------------------------------------------------------
\* The client's own steps.
Fill(x) == /\ Len(arr) < MaxLen
           /\ arr' = Append(arr, x) /\ call' = <<"add tail", "array", x>>
Empty == arr' = <<>> /\ call' = <<"clear", "array">>

Sorts(s) == {bubble_sort(s), insert_sort(s), select_sort(s)}
            \cup (IF s = <<>> THEN {} ELSE {quick_sort[s]})
Sort == arr' \in Sorts(arr) /\ call' = <<"sort", "array">>

Next == Sort \/ Empty \/ \E x \in Numbers : Fill(x)

Spec == Init /\ [][Next]_sortVars
-----------------------------------------------------------------------------
\* Each of the four leaves the array's own elements, from small to large.
List == INSTANCE ListSpec WITH
    Lists <- {"array"}, Items <- Numbers, rest <- <<>>, Rank <- [x \in Numbers |-> x],
    seqs <- [l \in {"array"} |-> arr]
ImplementsLists == List!Spec
=============================================================================
