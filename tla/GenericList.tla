----------------------------- MODULE GenericList -----------------------------
(***************************************************************************)
(* src/generic_list.h: circular lists of entries that their users embed in *)
(* their own structures, with the list's head as one more member of the    *)
(* ring.  A list knows neither its length nor its entries' state, so what  *)
(* its user must keep to is in the guards: an entry is added when it is in *)
(* no list, deleted, moved and replaced when it is in one, and a head that *)
(* was replaced is not used before it is initialised again.                *)
(*                                                                         *)
(* A definition named X_Y is a slip one could make in X; the specification *)
(* does not use it.                                                        *)
(***************************************************************************)
EXTENDS Integers, SequencesExt

CONSTANTS Heads, Entries, None

VARIABLES next, prev,   \* the struct list_head of each head and entry
          fit,          \* the heads that are initialised and not replaced
          pos,          \* list_for_each_entry_safe: its cursor,
          n,            \*    the entry after it,
          over,         \*    and the head of the list it walks, None outside
          due,          \* history: the entries the walk has yet to reach
          call          \* the last call, its arguments and what it returned

vars == <<next, prev, fit, pos, n, over, due, call>>
links == <<next, prev, fit>>
walk == <<pos, n, over, due>>

Links == Heads \cup Entries

\* The members of the ring between a head and itself.
Ring(link, head) ==
    LET From[b \in Links \cup {None}, k \in Nat] ==
            IF b \in {head, None} \/ k = 0 THEN <<>> ELSE <<b>> \o From[link[b], k - 1]
    IN  IF head \in fit THEN From[link[head], Cardinality(Links) + 1] ELSE <<>>
List(head) == Ring(next, head)
In(e, head) == e \in Range(List(head))
Loose(e) == \A h \in Heads : ~In(e, h)
Place(e, head) == SelectInSeq(List(head), LAMBDA x : x = e)
Idle == over = None

\* Every head is initialised and every entry's pointers are NULL.
Init == /\ next = [x \in Links |-> IF x \in Heads THEN x ELSE None]
        /\ prev = next
        /\ fit = Heads
        /\ pos = None /\ n = None /\ over = None /\ due = <<>>
        /\ call = <<"create">>
-----------------------------------------------------------------------------
\* What _list_add and _list_del store, in their order, on top of given links.
_list_add(nx, pv, new, before, after) ==
    << [nx EXCEPT ![new] = after, ![before] = new],
       [pv EXCEPT ![after] = new, ![new] = before] >>
_list_del(nx, pv, before, after) ==
    << [nx EXCEPT ![before] = after], [pv EXCEPT ![after] = before] >>

\* list_add and list_add_tail; _list_add_origin stores what list_add stores.
Added(nx, pv, new, head, end) ==
    IF end = "head" THEN _list_add(nx, pv, new, head, nx[head])
                    ELSE _list_add(nx, pv, new, pv[head], head)
Store(r) == next' = r[1] /\ prev' = r[2]

list_add(new, head) ==
    /\ Idle /\ head \in fit /\ Loose(new)
    /\ Store(Added(next, prev, new, head, "head"))
    /\ call' = <<"add head", head, new>>
    /\ UNCHANGED <<fit, walk>>

list_add_tail(new, head) ==
    /\ Idle /\ head \in fit /\ Loose(new)
    /\ Store(Added(next, prev, new, head, "tail"))
    /\ call' = <<"add tail", head, new>>
    /\ UNCHANGED <<fit, walk>>

\* What a walk allows: anything outside one, and inside the entry it is at may
\* leave the list.
MayLeave(e, head) == In(e, head) /\ (Idle \/ (over = head /\ e = pos))

\* The entry keeps its own pointers.
list_del(e, head) ==
    /\ MayLeave(e, head)
    /\ Store(_list_del(next, prev, prev[e], next[e]))
    /\ call' = <<"delete", head, Place(e, head)>>
    /\ UNCHANGED <<fit, walk>>

list_move(e, head, to, end) ==
    /\ MayLeave(e, head) /\ to \in fit
    /\ Idle \/ to # over
    /\ LET r == _list_del(next, prev, prev[e], next[e])
       IN  Store(Added(r[1], r[2], e, to, end))
    /\ call' = <<"move", head, Place(e, head), to, end>>
    /\ UNCHANGED <<fit, walk>>

\* Each store reads what the one before it wrote: an empty head that is replaced
\* leaves the new one empty.
Replaced(old, new) ==
    LET nx == [next EXCEPT ![new] = next[old]]
        pv == [prev EXCEPT ![nx[new]] = new]
        before == pv[old]
    IN  <<[nx EXCEPT ![before] = new], [pv EXCEPT ![new] = before]>>

list_replace(old, new, head) ==
    /\ Idle /\ In(old, head) /\ Loose(new)
    /\ Store(Replaced(old, new))
    /\ call' = <<"replace", head, Place(old, head), new>>
    /\ UNCHANGED <<fit, walk>>

\* The entries get another head, which held none; the old one's pointers stay.
ReplaceHead(old, new) ==
    /\ Idle /\ old \in fit /\ List(new) = <<>> /\ old # new
    /\ Store(Replaced(old, new))
    /\ fit' = (fit \cup {new}) \ {old}
    /\ call' = <<"hand over", old, new>>
    /\ UNCHANGED walk

\* Of a replaced head, or of one whose entries its user gives up.
init_list_head(head) ==
    /\ Idle
    /\ next' = [next EXCEPT ![head] = head]
    /\ prev' = [prev EXCEPT ![head] = head]
    /\ fit' = fit \cup {head}
    /\ call' = <<"clear", head>>
    /\ UNCHANGED walk
-----------------------------------------------------------------------------
list_empty(head) ==
    /\ Idle /\ head \in fit
    /\ next[head] = head /\ call' = <<"size", head, 0>>
    /\ UNCHANGED <<links, walk>>

list_is_last(e, head) ==
    /\ Idle /\ In(e, head)
    /\ call' = <<"is last", head, Place(e, head), next[e] = head>>
    /\ UNCHANGED <<links, walk>>

\* list_for_each_entry_safe: the entry after the cursor is read before the body
\* runs, and the entry after that when the body is done.
WalkBegins(head) ==
    /\ Idle /\ head \in fit
    /\ over' = head /\ pos' = None /\ n' = next[head]
    /\ due' = List(head)
    /\ call' = <<"iterate", head, "head">>
    /\ UNCHANGED links

AfterCursor_TooLate == IF pos = None THEN n ELSE next[pos]
AfterCursor == n

WalkNext ==
    /\ ~Idle /\ AfterCursor # over
    /\ pos' = AfterCursor /\ n' = next[AfterCursor]
    /\ due' = IF due = <<>> THEN due ELSE Tail(due)
    /\ call' = <<"next", AfterCursor>>
    /\ UNCHANGED <<links, over>>

WalkEnds ==
    /\ ~Idle /\ AfterCursor = over
    /\ pos' = None /\ n' = None /\ over' = None
    /\ call' = <<"next", None>>
    /\ UNCHANGED <<links, due>>

Next == \/ \E e \in Entries, h \in Heads : list_add(e, h) \/ list_add_tail(e, h)
                                           \/ list_del(e, h) \/ list_is_last(e, h)
        \/ \E e \in Entries, h, to \in Heads, end \in {"head", "tail"} : list_move(e, h, to, end)
        \/ \E e, new \in Entries, h \in Heads : list_replace(e, new, h)
        \/ \E h, new \in Heads : ReplaceHead(h, new)
        \/ \E h \in Heads : init_list_head(h) \/ list_empty(h) \/ WalkBegins(h)
        \/ WalkNext \/ WalkEnds

Spec == Init /\ [][Next]_vars
-----------------------------------------------------------------------------
\* Seen from its head, a list reads the same forward and backward.
WellLinked == \A h \in Heads : List(h) = Reverse(Ring(prev, h))

\* The calls are those of sequences: moves and replacements, of a whole list
\* too, lose no entry and keep the order, and a walk reaches every entry though
\* its body takes out the entry it is at.
Lists == INSTANCE ListSpec WITH
    Lists <- Heads, Items <- Entries, rest <- due, Rank <- [e \in Entries |-> 0],
    seqs <- [h \in Heads |-> List(h)]
ImplementsLists == Lists!Spec
=============================================================================
