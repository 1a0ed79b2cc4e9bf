------------------------------ MODULE ItemSpec ------------------------------
(***************************************************************************)
(* What cJSON promises of the items a program builds: trees whose members  *)
(* keep their order and which grow and shrink by the calls alone.  A call  *)
(* acts on the items it names; one that has no item to return leaves       *)
(* nothing behind.  Module CJson implements it.                            *)
(***************************************************************************)
EXTENDS Naturals, Sequences, SequencesExt

CONSTANTS Nodes, None

VARIABLES alive,       \* the items allocated
          kids,        \* the members each item owns, in order
          parsing,     \* the item that the text being parsed becomes, None if none is
          made,        \* the items the parse in progress has allocated
          call         \* the last call: its name, what it was given and returned

itemVars == <<alive, kids, parsing, made, call>>

Call(op, arg, ret) == [op |-> op, arg |-> arg, ret |-> ret]

Init == /\ alive = {} /\ kids = [n \in Nodes |-> <<>>]
        /\ parsing = None /\ made = {}
        /\ call = Call("start", None, "ok")

\* A call that is done at once.
Calls(op, arg, ret) == /\ call' = Call(op, arg, ret)
                       /\ parsing = None /\ UNCHANGED <<parsing, made>>
Fails(op, arg) == Calls(op, arg, None) /\ UNCHANGED <<alive, kids>>

Without(n) == [m \in Nodes |-> SelectSeq(kids[m], LAMBDA k : k # n)]
Root(n) == n \in alive /\ \A m \in alive : n \notin Range(kids[m])

Below(k, n) ==
    LET Reach[i \in Nat] == IF i = 0 THEN {n}
                            ELSE UNION {{m} \cup Range(k[m]) : m \in Reach[i - 1]}
    IN  Reach[Cardinality(Nodes)]

\* A tree of its own below r, of items not there before.
Build(r) ==
    /\ r \in alive' \ alive /\ alive \subseteq alive'
    /\ \A n \in alive : kids'[n] = kids[n]
    /\ Below(kids', r) = alive' \ alive
    /\ \A n \in alive' : r \notin Range(kids'[n])
    /\ \A n, m \in alive' \ alive : IsInjective(kids'[n])
          /\ (n # m => Range(kids'[n]) \cap Range(kids'[m]) = {})

Create == \/ Fails("create", None)
          \/ \E r \in Nodes : Calls("create", None, r) /\ Build(r) /\ kids'[r] = <<>>

CreateArray(len) ==
    \/ Fails("array", len)
    \/ \E r \in Nodes : Calls("array", len, r) /\ Build(r) /\ Len(kids'[r]) = len

\* What the copy of a tree holds depends on the references in it.
Duplicate(n, recurse) ==
    \/ Fails("duplicate", <<n, recurse>>)
    \/ \E r \in Nodes : /\ Calls("duplicate", <<n, recurse>>, r) /\ Build(r)
                        /\ ~recurse => kids'[r] = <<>>

\* A root becomes the last member of p.
Add(p, n) == /\ Calls("add", <<p, n>>, "ok") /\ UNCHANGED alive
             /\ Root(n) /\ p \notin Below(kids, n)
             /\ kids' = [kids EXCEPT ![p] = Append(@, n)]

\* A root comes before the member c of p.
Insert(p, c, n) ==
    /\ Calls("insert", <<p, c, n>>, "ok") /\ UNCHANGED alive
    /\ Root(n) /\ p \notin Below(kids, n)
    /\ \E i \in DOMAIN kids[p] : /\ kids[p][i] = c
                                 /\ kids' = [kids EXCEPT ![p] = InsertAt(@, i, n)]

\* An item without members of its own, for n, becomes the last member of p.  The call
\* returns nothing: a client does not learn that there was no memory.
Refer(p, n) ==
    /\ Calls("refer", <<p, n>>, "ok")
    /\ \/ UNCHANGED <<alive, kids>>
       \/ \E r \in Nodes \ alive : /\ alive' = alive \cup {r}
                                   /\ kids' = [kids EXCEPT ![p] = Append(@, r)]

Detach(p, c) == /\ Calls("detach", <<p, c>>, c) /\ UNCHANGED alive
                /\ c \in Range(kids[p]) /\ kids' = Without(c)

Erase(gone, k) == /\ alive' = alive \ gone
                  /\ kids' = [m \in Nodes |-> IF m \in gone THEN <<>> ELSE k[m]]

DeleteMember(p, c) == /\ Calls("remove", <<p, c>>, "ok")
                /\ c \in Range(kids[p]) /\ Erase(Below(kids, c), Without(c))

Delete(n) == Calls("delete", n, "ok") /\ Root(n) /\ Erase(Below(kids, n), kids)

\* The root n takes the place of the member c, which is deleted.
Replace(p, c, n) ==
    /\ Calls("replace", <<p, c, n>>, "ok")
    /\ Root(n) /\ c \in Range(kids[p]) /\ c \notin Below(kids, n)
    /\ Erase(Below(kids, c),
             [kids EXCEPT ![p] = [i \in DOMAIN @ |-> IF @[i] = c THEN n ELSE @[i]]])
-----------------------------------------------------------------------------
ParseBegin(n) == /\ parsing = None /\ parsing' = n
                 /\ made' = {n} /\ alive' = alive \cup {n}
                 /\ UNCHANGED <<kids, call>>

ParseGrow(n) == /\ parsing # None /\ UNCHANGED <<parsing, call>>
                /\ made' = made \cup {n} /\ alive' = alive \cup {n}
                /\ \E p \in made : kids' = [kids EXCEPT ![p] = Append(@, n)]

\* A text that is no JSON, or too large for the memory, leaves nothing behind.
ParseFail == /\ call' = Call("parse", None, None)
             /\ parsing' = None /\ made' = {}
             /\ Erase(made, kids)

ParseEnd == /\ parsing # None /\ call' = Call("parse", None, parsing)
            /\ parsing' = None /\ made' = {}
            /\ UNCHANGED <<alive, kids>>

Next == \/ Create \/ ParseFail \/ ParseEnd
        \/ \E len \in 1 .. Cardinality(Nodes) : CreateArray(len)
        \/ \E n \in Nodes \ alive : ParseBegin(n) \/ ParseGrow(n)
        \/ \E n \in alive : Delete(n) \/ \E recurse \in BOOLEAN : Duplicate(n, recurse)
        \/ \E p, n \in alive : Add(p, n) \/ Refer(p, n) \/ Detach(p, n) \/ DeleteMember(p, n)
        \/ \E p, c, n \in alive : Insert(p, c, n) \/ Replace(p, c, n)

Spec == Init /\ [][Next]_itemVars
=============================================================================
