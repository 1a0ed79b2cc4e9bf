------------------------------- MODULE CJson -------------------------------
(***************************************************************************)
(* src/cJSON.c: the items a program builds, links, copies and deletes, the *)
(* parser, one token a step, and the sizes the printer asks for.  One      *)
(* thread.  malloc may fail wherever it is called.  An item's strings are  *)
(* blocks of their own: its text (valuestring), named by the item that     *)
(* allocated it, and its name (string), the library's or a literal of the  *)
(* client's.  A client links an item it holds at one place at a time, makes *)
(* no cycle, and deletes nothing a reference still shows.                  *)
(*                                                                         *)
(* A definition named X_Y is a slip one could make in X; the specification *)
(* does not use it.                                                        *)
(***************************************************************************)
EXTENDS Integers, FiniteSets, SequencesExt

CONSTANTS Items, None,
          Names,       \* the names of members
          Width,       \* the characters of each name, and of "text", as printed
          MaxLen,      \* bounds the arrays made in one call
          MaxRefs,     \* bounds the references
          MaxLiterals, \* bounds the names given as literals
          Literal,     \* the kinds of the items given such a name
          MaxBeside,   \* bounds the items there are when a parse begins
          Values,      \* the values made and parsed: "scalar", "string"
          Careful      \* do clients keep names given as literals apart (see Plain)?

CJsonAssumption == /\ IsFiniteSet(Items) /\ None \notin Items \cup Names
                   /\ Width \in [Names \cup {"text"} -> Nat]

VARIABLES item,        \* what each item holds, None where none is allocated
          lost,        \* has a block been dropped without being freed?
          misfreed,    \* has something been freed that is no block of the library's?
          parse,       \* the item a parse began with, the containers open, what is next
          read,        \* history: the tokens it has read
          mine,        \* history: the items given to the client and not handed on
          served       \* the last call served: its name, what it was given and returned

vars == <<item, lost, misfreed, parse, read, mine, served>>

Call(op, arg, ret) == [op |-> op, arg |-> arg, ret |-> ret]

Kinds == {"none", "scalar", "string", "array", "object"}
Blank(k) == [kind |-> k, next |-> None, prev |-> None, child |-> None,
             ref |-> FALSE, const |-> FALSE,     \* IsReference, StringIsConst
             name |-> None, own |-> FALSE,       \* string, and whether it is a block
             text |-> None]                      \* valuestring

NoParse == [root |-> None, open |-> <<>>, at |-> "idle"]
Idle == parse.at = "idle"

Init == /\ item = [n \in Items |-> None]
        /\ lost = FALSE /\ misfreed = FALSE
        /\ parse = NoParse /\ read = <<>>
        /\ mine = {} /\ served = Call("start", None, "ok")

Live == {n \in Items : item[n] # None}
-----------------------------------------------------------------------------
(* Reading and changing the items it. *)

\* The free items are alike: which of them malloc returns makes no difference.
Free(it) == SetToSeq({n \in Items : it[n] = None})
Room(it) == \E n \in Items : it[n] = None
Fresh(it) == CHOOSE n \in Items : it[n] = None

Kids(it, p) ==
    LET from[n \in Items \cup {None}, d \in 0 .. Cardinality(Items)] ==
            IF n = None \/ d = 0 THEN <<>> ELSE <<n>> \o from[it[n].next, d - 1]
    IN  from[it[p].child, Cardinality(Items)]

\* The items that the links next, and child from those in through, lead to from s.
Reach(it, s, through) ==
    LET by[i \in Nat] ==
            IF i = 0 THEN s \ {None}
            ELSE LET r == by[i - 1]
                 IN  (r \cup {it[n].next : n \in r} \cup {it[n].child : n \in r \cap through})
                     \ {None}
    IN  by[Cardinality(Items)]

\* What cJSON_Delete frees: n, what follows it, and below what is no reference.
Doomed(it, n) == Reach(it, {n}, {m \in Items : it[m] # None /\ ~it[m].ref})

Delete(it, n) == [m \in Items |-> IF m \in Doomed(it, n) THEN None ELSE it[m]]

\* The name of an item deleted is freed unless the item says it is a literal, and
\* its text unless it is a reference.
Spills(it, gone) == \E m \in gone : it[m].own /\ it[m].const
FreesName(x) == x.name # None /\ ~x.const
Misfrees(it, gone) == \E m \in gone : \/ FreesName(it[m]) /\ ~it[m].own
                                      \/ ~it[m].ref /\ it[m].text \notin {None, m}
Gone(it, gone) == /\ lost' = (lost \/ Spills(it, gone))
                  /\ misfreed' = (misfreed \/ Misfrees(it, gone))

SetLink(it, n, f, v) == IF n = None THEN it ELSE [it EXCEPT ![n][f] = v]

\* cJSON_AddItemToArray.
Append1(it, a, n) ==
    IF it[a].child = None THEN [it EXCEPT ![a].child = n]
    ELSE LET c == Last(Kids(it, a)) IN [it EXCEPT ![c].next = n, ![n].prev = c]

\* cJSON_DetachItemFromArray of its member c.
Detached(it, a, c) ==
    LET i1 == SetLink(it, it[c].prev, "next", it[c].next)
        i2 == SetLink(i1, it[c].next, "prev", it[c].prev)
        i3 == IF c = it[a].child THEN [i2 EXCEPT ![a].child = it[c].next] ELSE i2
    IN  [i3 EXCEPT ![c].prev = None, ![c].next = None]

\* cJSON_InsertItemInArray of n before its member c.
Inserted(it, a, c, n) ==
    LET i1 == [it EXCEPT ![n].next = c, ![n].prev = it[c].prev, ![c].prev = n]
    IN  IF c = it[a].child THEN [i1 EXCEPT ![a].child = n]
        ELSE SetLink(i1, it[c].prev, "next", n)

\* cJSON_ReplaceItemInArray of its member c by n, but for the deletion of c.
Replaced(it, a, c, n) ==
    LET i1 == [it EXCEPT ![n].next = it[c].next, ![n].prev = it[c].prev]
        i2 == SetLink(i1, it[c].next, "prev", n)
        i3 == IF c = it[a].child THEN [i2 EXCEPT ![a].child = n]
              ELSE SetLink(i2, it[c].prev, "next", n)
    IN  [i3 EXCEPT ![c].next = None, ![c].prev = None]

Named(it, n, s) == [it EXCEPT ![n].name = s, ![n].own = s # None]

\* cJSON_GetObjectItem: the first member with the name.
First(o, s) == LET named == SelectSeq(Kids(item, o), LAMBDA c : item[c].name = s)
               IN  IF named = <<>> THEN None ELSE Head(named)
-----------------------------------------------------------------------------
(* What a client must see to, and nothing in the code does. *)

Owner(n) == {p \in Live : ~item[p].ref /\ n \in Range(Kids(item, p))}
Root(n) == n \in mine
Owned(p, k) == item[p] # None /\ ~item[p].ref /\ item[p].kind = k

\* No item leads to itself, through references or not.
NoCycle(it) == \A n \in Items : it[n] # None => n \notin Reach(it, {it[n].child}, Items)

\* What is deleted is shown by no reference that stays.
Unshown(gone) == \A m \in Live \ gone : item[m].ref => {item[m].child, item[m].text} \cap gone = {}

\* A client that does not hand an item named by a literal to a call that frees or
\* copies the name, and replaces a member only by one without a name.
Plain(gone) == Careful => \A m \in gone : ~item[m].const

Becomes(it) == item' = it /\ NoCycle(it) /\ UNCHANGED <<lost, misfreed, parse, read>>
Deletes(it, n) == /\ Unshown(Doomed(it, n))
                  /\ item' = Delete(it, n)
                  /\ Gone(it, Doomed(it, n))
                  /\ UNCHANGED <<parse, read>>

\* How a call ends: with an item for the client, with one of the client's linked or
\* freed, with none to return, or with nothing to say.
Gives(op, arg, n) == served' = Call(op, arg, n) /\ mine' = mine \cup {n}
Takes(op, arg, n) == served' = Call(op, arg, "ok") /\ mine' = mine \ {n}
Fails(op, arg) == served' = Call(op, arg, None) /\ UNCHANGED mine
Ends(op, arg) == served' = Call(op, arg, "ok") /\ UNCHANGED mine
-----------------------------------------------------------------------------
New(it, n, k) == [it EXCEPT ![n] = [Blank(k) EXCEPT !.text = IF k = "string" THEN n ELSE None]]

\* cJSON_CreateNull and the like, cJSON_CreateString, cJSON_CreateArray, _CreateObject.
Create(k) ==
    /\ Idle
    /\ \/ Becomes(item) /\ Fails("create", None)
       \/ /\ Room(item)
          /\ LET n == Fresh(item)
             IN  \/ Becomes(New(item, n, k)) /\ Gives("create", None, n)
                 \/ /\ k = "string" /\ Deletes([item EXCEPT ![n] = Blank(k)], n)  \* no strdup
                    /\ Fails("create", None)

\* cJSON_CreateIntArray and the like: an array of len values; if the value after j
\* of them cannot be made, what was made goes.
CreateArrayOf(k, len) ==
    /\ Idle
    /\ \/ Becomes(item) /\ Fails("array", len)
       \/ \E j \in 0 .. len :
          LET fresh == Free(item)
              made == FoldLeft(LAMBDA it, i : Append1(New(it, fresh[i], k), fresh[1], fresh[i]),
                               New(item, fresh[1], "array"), [i \in 1 .. j |-> i + 1])
          IN  /\ j < Len(fresh)
              /\ IF j = len THEN Becomes(made) /\ Gives("array", len, fresh[1])
                 ELSE Deletes(made, fresh[1]) /\ Fails("array", len)

AddItemToArray(a, n) ==
    /\ Idle /\ Owned(a, "array") /\ Root(n)
    /\ Becomes(Append1(item, a, n)) /\ Takes("add", <<a, n>>, n)

\* The item's former name is freed; its new one is s, or None if strdup fails.
AddItemToObject(o, n, s) ==
    /\ Idle /\ Owned(o, "object") /\ Root(n) /\ Plain({n})
    /\ item' = Append1(Named(item, n, s), o, n)
    /\ NoCycle(item')
    /\ misfreed' = (misfreed \/ (item[n].name # None /\ ~item[n].own))
    /\ Takes("add", <<o, n>>, n)
    /\ UNCHANGED <<lost, parse, read>>

\* The name is a literal: it is not copied.
AddItemToObjectCS(o, n, s) ==
    /\ Idle /\ Owned(o, "object") /\ Root(n) /\ item[n].kind \in Literal
    /\ item' = Append1([item EXCEPT ![n].name = s, ![n].own = FALSE, ![n].const = TRUE], o, n)
    /\ NoCycle(item') /\ Cardinality({m \in Live : item'[m].const}) <= MaxLiterals
    /\ lost' = (lost \/ (item[n].own /\ item[n].const))
    /\ Takes("add", <<o, n>>, n)
    /\ UNCHANGED <<misfreed, parse, read>>

\* create_reference: a copy that shares what n shows.
Referring(it, n) ==
    [it EXCEPT ![Fresh(it)] = [it[n] EXCEPT !.name = None, !.own = FALSE, !.ref = TRUE,
                                            !.next = None, !.prev = None]]

MayRefer == Room(item) /\ Cardinality({m \in Live : item[m].ref}) < MaxRefs

\* Without memory for the reference there is none to add.
AddItemReferenceToArray(a, n) ==
    /\ Idle /\ Owned(a, "array") /\ n \in Live
    /\ \/ MayRefer /\ Becomes(Append1(Referring(item, n), a, Fresh(item)))
       \/ Becomes(item)
    /\ Ends("refer", <<a, n>>)

AddItemReferenceToObject(o, n, s) ==
    /\ Idle /\ Owned(o, "object") /\ n \in Live /\ MayRefer /\ Plain({n})
    /\ Becomes(Append1(Named(Referring(item, n), Fresh(item), s), o, Fresh(item)))
    /\ Ends("refer", <<o, n>>)

\* c as the member of a that a call finds: by its place, or the first of its name.
Member(a, c) ==
    \/ Owned(a, "array") /\ c \in Range(Kids(item, a))
    \/ /\ Owned(a, "object") /\ c \in Range(Kids(item, a))
       /\ item[c].name # None /\ c = First(a, item[c].name)

DetachItem(a, c) == /\ Idle /\ Member(a, c)
                    /\ Becomes(Detached(item, a, c)) /\ Gives("detach", <<a, c>>, c)

DeleteItem(a, c) == /\ Idle /\ Member(a, c)
                    /\ Deletes(Detached(item, a, c), c) /\ Ends("remove", <<a, c>>)

cJSON_Delete(n) == Idle /\ Root(n) /\ Deletes(item, n) /\ Takes("delete", n, n)

InsertItemInArray(a, c, n) ==
    /\ Idle /\ Owned(a, "array") /\ Member(a, c) /\ Root(n)
    /\ Becomes(Inserted(item, a, c, n)) /\ Takes("insert", <<a, c, n>>, n)

ReplaceItemInArray(a, c, n) ==
    /\ Idle /\ Owned(a, "array") /\ Member(a, c) /\ Root(n)
    /\ NoCycle(Replaced(item, a, c, n))
    /\ Deletes(Replaced(item, a, c, n), c) /\ Takes("replace", <<a, c, n>>, n)

\* The new item's former name is overwritten; its name is s, or None.
ReplaceItemInObject(o, c, n, s) ==
    /\ Idle /\ Owned(o, "object") /\ Member(o, c) /\ Root(n)
    /\ s \in {item[c].name, None}
    /\ Plain({n}) /\ (Careful => item[n].name = None)
    /\ LET it == Replaced(Named(item, n, s), o, c, n)
       IN  /\ NoCycle(it) /\ Unshown(Doomed(it, c))
           /\ item' = Delete(it, c)
           /\ lost' = (lost \/ item[n].own \/ Spills(it, Doomed(it, c)))
           /\ misfreed' = (misfreed \/ Misfrees(it, Doomed(it, c)))
    /\ Takes("replace", <<o, c, n>>, n)
    /\ UNCHANGED <<parse, read>>
-----------------------------------------------------------------------------
(* cJSON_Duplicate: the items shown by n in the order they are copied, and how deep. *)
Preorder(n) ==
    LET of[m \in Items, d \in Nat] ==
            <<[of |-> m, depth |-> d]>> \o FlattenSeq([i \in DOMAIN Kids(item, m) |->
                                                       of[Kids(item, m)[i], d + 1]])
    IN  of[n, 0]

CopyType(x) == [x EXCEPT !.ref = FALSE]
Copy_Nameless(n, f) == [CopyType(item[n]) EXCEPT !.next = None, !.prev = None, !.child = None,
                                                 !.name = None, !.own = FALSE,
                                                 !.text = IF item[n].text = None THEN None ELSE f]
Copy(n, f) == [CopyType(item[n]) EXCEPT !.next = None, !.prev = None, !.child = None,
                                        !.own = item[n].name # None,
                                        !.text = IF item[n].text = None THEN None ELSE f]

\* The copies around position j of the order, and the one right above position i.
Around(order, j) == {i \in 1 .. j - 1 : \A k \in i + 1 .. j : order[k].depth > order[i].depth}
Above(order, i) == CHOOSE k \in Around(order, i) : order[k].depth = order[i].depth - 1

\* The first j of the order are copied to the items of fresh; those in around are
\* not yet linked to the copy above.
Copied(order, fresh, j, around) ==
    FoldLeft(LAMBDA it, i : IF i \in around THEN it
                            ELSE Append1(it, fresh[Above(order, i)], fresh[i]),
             FoldLeft(LAMBDA it, i : [it EXCEPT ![fresh[i]] = Copy(order[i].of, fresh[i])],
                      item, [i \in 1 .. j |-> i]),
             [i \in 1 .. j - 1 |-> i + 1])

\* For want of memory there is no copy at position j, or one without its text or
\* without its name: every level of the recursion deletes its copy.
CopyFails_KeepsOuter(order, fresh, j, got) ==
    LET last == IF got = "nothing" THEN j - 1 ELSE j
        around == Around(order, j) \cup (1 .. last \ 1 .. j - 1)
        all == Copied(order, fresh, last, around)
    IN  /\ last <= Len(fresh)
        /\ item' = FoldLeft(Delete, all, SetToSeq({fresh[i] : i \in around \ {1}}))
        /\ UNCHANGED <<lost, misfreed>>
CopyFails(order, fresh, j, got) ==
    LET last == IF got = "nothing" THEN j - 1 ELSE j
        around == Around(order, j) \cup (1 .. last \ 1 .. j - 1)
        all == Copied(order, fresh, last, around)
        bare == [all EXCEPT ![fresh[j]].name = None, ![fresh[j]].own = FALSE]
        it == CASE got = "nothing" -> all
                [] got = "item" -> [bare EXCEPT ![fresh[j]].text = None]
                [] got = "text" -> bare
    IN  /\ last <= Len(fresh)
        /\ got = "item" => item[order[j].of].text # None
        /\ got = "text" => item[order[j].of].name # None
        /\ item' = FoldLeft(Delete, it, SetToSeq({fresh[i] : i \in around}))
        /\ Gone(it, {fresh[i] : i \in 1 .. last})

\* Without members recurse makes no difference.
Duplicate(n, recurse) ==
    /\ Idle /\ item[n] # None /\ (recurse => item[n].child # None)
    /\ LET order == IF recurse THEN Preorder(n) ELSE <<[of |-> n, depth |-> 0]>>
           fresh == Free(item)
       IN  /\ Plain({order[i].of : i \in DOMAIN order})
           /\ \/ /\ Len(order) <= Len(fresh)
                 /\ Becomes(Copied(order, fresh, Len(order), {}))
                 /\ Gives("duplicate", <<n, recurse>>, fresh[1])
              \/ /\ \E j \in 1 .. Len(order), got \in {"nothing", "item", "text"} :
                       CopyFails(order, fresh, j, got)
                 /\ Fails("duplicate", <<n, recurse>>)
    /\ UNCHANGED <<parse, read>>
-----------------------------------------------------------------------------
(* cJSON_ParseWithOpts.  A string is one token: a name where the text has one for a *)
(* name, "text" where it has one for a value. *)

Innermost == Last(parse.open)
InArray == item[Innermost].kind = "array"
\* The item parse_value or parse_string is called for.
Target == IF parse.open = <<>> THEN parse.root ELSE Last(Kids(item, Innermost))
After(open) == IF open = <<>> THEN "done" ELSE "after"

ParseBegin ==
    /\ Idle
    /\ \/ Becomes(item) /\ Fails("parse", None)
       \/ /\ Room(item) /\ Cardinality(Live) <= MaxBeside
          /\ item' = New(item, Fresh(item), "none")
          /\ parse' = [root |-> Fresh(item), open |-> <<>>, at |-> "value"]
          /\ UNCHANGED <<lost, misfreed, read, mine, served>>

ParseValue(k) ==
    /\ parse.at = "value"
    /\ item' = [item EXCEPT ![Target].kind = k,
                            ![Target].text = IF k = "string" THEN Target ELSE None]
    /\ IF k \in {"array", "object"}
       THEN parse' = [parse EXCEPT !.open = Append(@, Target), !.at = "first"]
       ELSE parse' = [parse EXCEPT !.at = After(parse.open)]
    /\ read' = Append(read, CASE k = "scalar" -> "scalar" [] k = "string" -> "text"
                              [] k = "array" -> "[" [] k = "object" -> "{")
    /\ UNCHANGED <<lost, misfreed, mine, served>>

\* The item of a new member: after a comma, or of the first if the container is
\* not closed at once.
ParseItem ==
    /\ parse.at \in {"first", "after"} /\ Room(item)
    /\ item' = Append1(New(item, Fresh(item), "none"), Innermost, Fresh(item))
    /\ parse' = [parse EXCEPT !.at = IF InArray THEN "value" ELSE "name"]
    /\ read' = IF parse.at = "first" THEN read ELSE Append(read, ",")
    /\ UNCHANGED <<lost, misfreed, mine, served>>

\* parse_string makes a text of it, which becomes the name.
ParseName(s) ==
    /\ parse.at = "name"
    /\ item' = [Named(item, Target, s) EXCEPT ![Target].kind = "string"]
    /\ parse' = [parse EXCEPT !.at = "colon"]
    /\ read' = Append(read, s)
    /\ UNCHANGED <<lost, misfreed, mine, served>>

ParseColon ==
    /\ parse.at = "colon"
    /\ parse' = [parse EXCEPT !.at = "value"]
    /\ read' = Append(read, ":")
    /\ UNCHANGED <<item, lost, misfreed, mine, served>>

ParseClose ==
    /\ parse.at \in {"first", "after"}
    /\ parse' = [parse EXCEPT !.open = Front(@), !.at = After(Front(parse.open))]
    /\ read' = Append(read, IF InArray THEN "]" ELSE "}")
    /\ UNCHANGED <<item, lost, misfreed, mine, served>>

ParseFails_KeepsTree ==
    /\ ~Idle /\ Fails("parse", None)
    /\ parse' = NoParse /\ read' = <<>>
    /\ UNCHANGED <<item, lost, misfreed>>
\* A token that does not fit, text after the value if none is allowed, or no
\* memory: all levels return, and what was made goes.  A string that breaks off
\* has its block already.
ParseFails ==
    /\ ~Idle
    /\ \E broken \in BOOLEAN :
          /\ broken => parse.at \in {"value", "name"}
          /\ LET it == IF broken THEN [item EXCEPT ![Target].text = Target, ![Target].kind = "string"]
                       ELSE item
             IN  /\ item' = Delete(it, parse.root)
                 /\ Gone(it, Doomed(it, parse.root))
    /\ parse' = NoParse /\ read' = <<>>
    /\ Fails("parse", None)

ParseReturns ==
    /\ parse.at = "done"
    /\ parse' = NoParse /\ read' = <<>>
    /\ Gives("parse", None, parse.root)
    /\ UNCHANGED <<item, lost, misfreed>>

Next ==
    \/ \E k \in Values \cup {"array", "object"} : Create(k) \/ ParseValue(k)
    \/ \E k \in Values, len \in 1 .. MaxLen : CreateArrayOf(k, len)
    \/ \E n \in Items, recurse \in BOOLEAN : Duplicate(n, recurse)
    \/ \E n \in Items : cJSON_Delete(n)
    \/ \E a, n \in Items :
          AddItemToArray(a, n) \/ AddItemReferenceToArray(a, n) \/ DetachItem(a, n) \/ DeleteItem(a, n)
    \/ \E o, n \in Items, s \in Names \cup {None} :
          AddItemToObject(o, n, s) \/ AddItemReferenceToObject(o, n, s)
    \/ \E o, n \in Items, s \in Names : AddItemToObjectCS(o, n, s)
    \/ \E a, c, n \in Items : InsertItemInArray(a, c, n) \/ ReplaceItemInArray(a, c, n)
    \/ \E o, c, n \in Items, s \in Names \cup {None} : ReplaceItemInObject(o, c, n, s)
    \/ \E s \in Names : ParseName(s)
    \/ ParseBegin \/ ParseItem \/ ParseColon \/ ParseClose \/ ParseFails \/ ParseReturns

Spec == Init /\ [][Next]_vars
-----------------------------------------------------------------------------
(* Printing.  The text of an item as tokens, and its characters. *)

Join(seqs, sep) == FoldLeft(LAMBDA s, i : s \o (IF i = 1 THEN <<>> ELSE sep) \o seqs[i],
                            <<>>, [i \in DOMAIN seqs |-> i])
Tokens(it, n) ==
    LET of[m \in Items, d \in 0 .. Cardinality(Items)] ==
            LET kids == Kids(it, m)
                texts == [i \in DOMAIN kids |-> IF d = 0 THEN <<>> ELSE of[kids[i], d - 1]]
            IN  CASE it[m].kind = "scalar" -> <<"scalar">>
                  [] it[m].kind = "string" -> <<"text">>
                  [] it[m].kind = "array" -> <<"[">> \o Join(texts, <<",">>) \o <<"]">>
                  [] it[m].kind = "object" ->
                       <<"{">> \o Join([i \in DOMAIN kids |-> <<it[kids[i]].name, ":">> \o texts[i]],
                                       <<",">>) \o <<"}">>
    IN  of[n, Cardinality(Items)]

If(b, k) == IF b THEN k ELSE 0
Sum0(s) == FoldLeft(LAMBDA x, y : x + y, 0, s)
Quoted(s) == IF s = None THEN 2 ELSE Width[s] + 2

\* The characters of an item printed at a depth, without the terminating zero.
TextLen(n, depth, fmt) ==
    LET of[m \in Items, d \in Nat] ==
            LET kids == Kids(item, m)
                texts == [i \in DOMAIN kids |-> of[kids[i], d + 1]]
                k == Len(kids)
            IN  CASE item[m].kind = "scalar" -> 4      \* null
                  [] item[m].kind = "string" -> Quoted("text")
                  [] item[m].kind = "array" ->
                       2 + Sum0(texts) + If(k > 0, (k - 1) * (1 + If(fmt, 1)))
                  [] item[m].kind = "object" ->
                       2 + If(fmt, 1 + d) + Sum0(texts) + If(k > 0, k - 1)
                         + Sum0([i \in DOMAIN kids |-> Quoted(item[kids[i]].name) + 1
                                                       + If(fmt, d + 3)])
    IN  of[n, depth]

\* What print_array and print_object allocate when there is no buffer.
Estimate(n, depth, fmt) ==
    LET kids == Kids(item, n)
        values == Sum0([i \in DOMAIN kids |-> TextLen(kids[i], depth + 1, fmt)])
        names == Sum0([i \in DOMAIN kids |-> Quoted(item[kids[i]].name)])
    IN  CASE item[n].kind = "array" -> IF kids = <<>> THEN 3
                                       ELSE 5 + values + Len(kids) * (2 + If(fmt, 1))
          [] item[n].kind = "object" -> IF kids = <<>> THEN IF fmt THEN depth + 4 ELSE 3
                                        ELSE 7 + If(fmt, depth + 1) + values + names
                                               + Len(kids) * (2 + If(fmt, 3 + depth))
          [] OTHER -> TextLen(n, depth, fmt) + 1

\* The printer with a buffer: what it asks ensure for, the characters it then writes,
\* whether a zero ends them, and how far it moves offset; update moves it to the zero.
Put(need, chars, zero, moves) == [need |-> need, chars |-> chars, zero |-> zero, moves |-> moves]
PutText(chars) == Put(chars + 1, chars, TRUE, 0)
update == Put(0, 0, FALSE, 0)

Pieces(n, fmt) ==
    LET of[m \in Items, d \in Nat] ==
            LET kids == Kids(item, m)
                more(i) == If(i < Len(kids), 1)
                inside == [i \in DOMAIN kids |-> of[kids[i], d + 1]]
            IN  CASE item[m].kind = "scalar" -> <<PutText(4)>>
                  [] item[m].kind = "string" -> <<PutText(Quoted("text"))>>
                  [] item[m].kind = "array" /\ kids = <<>> -> <<PutText(2)>>
                  [] item[m].kind = "object" /\ kids = <<>> -> <<PutText(2 + If(fmt, d + 1))>>
                  [] item[m].kind = "array" /\ kids # <<>> ->
                       LET comma == 1 + If(fmt, 1)
                       IN  <<Put(1, 1, FALSE, 1)>>
                           \o Join([i \in DOMAIN kids |-> inside[i] \o <<update>>],
                                   <<Put(comma + 1, comma, TRUE, comma)>>)
                           \o <<Put(2, 1, TRUE, 0)>>
                  [] item[m].kind = "object" /\ kids # <<>> ->
                       LET brace == 1 + If(fmt, 1)
                           end(i) == If(fmt, 1) + more(i)
                           member(i) ==
                               (IF fmt THEN <<Put(d + 1, d + 1, FALSE, d + 1)>> ELSE <<>>)
                               \o <<PutText(Quoted(item[kids[i]].name)), update,
                                    Put(brace, brace, FALSE, brace)>>
                               \o inside[i] \o <<update, Put(end(i) + 1, end(i), TRUE, end(i))>>
                       IN  <<Put(brace + 1, brace, TRUE, brace)>>
                           \o FlattenSeq([i \in DOMAIN kids |-> member(i)])
                           \o <<Put(2 + If(fmt, d), 1 + If(fmt, d), TRUE, 0)>>
    IN  of[n, 0]

\* The least power of two not below x.
pow2gt(x) == 2 ^ (CHOOSE e \in 0 .. 30 : 2 ^ e >= x /\ (e > 0 => 2 ^ (e - 1) < x))

\* The length of the buffer once there is room.
ensure_NoOffset(p, need) == IF need <= p.length THEN p.length ELSE pow2gt(need + p.offset)
ensure(p, need) ==
    IF need + p.offset <= p.length THEN p.length ELSE pow2gt(need + p.offset)

\* zero is where the last zero written is, -1 where there is none yet.
Written(p, x) ==
    IF x = update THEN [p EXCEPT !.fits = @ /\ p.zero >= p.offset, !.offset = p.zero]
    ELSE LET length == ensure(p, x.need)
             end == p.offset + x.chars
         IN  [length |-> length,
              offset |-> p.offset + x.moves,
              zero |-> IF x.zero THEN end ELSE -1,
              fits |-> p.fits /\ end + If(x.zero, 1) <= length]

\* cJSON_PrintBuffered of what the pieces make up.
PrintBuffered(pieces, prebuffer) ==
    FoldLeft(Written, [length |-> prebuffer, offset |-> 0, zero |-> -1, fits |-> TRUE], pieces)
-----------------------------------------------------------------------------
ItemType == [kind : Kinds, next : Items \cup {None}, prev : Items \cup {None},
             child : Items \cup {None}, ref : BOOLEAN, const : BOOLEAN,
             name : Names \cup {None}, own : BOOLEAN, text : Items \cup {None}]

TypeOK ==
    /\ item \in [Items -> ItemType \cup {None}]
    /\ lost \in BOOLEAN /\ misfreed \in BOOLEAN
    /\ parse.at \in {"idle", "value", "first", "name", "colon", "after", "done"}
    /\ mine \subseteq Live /\ served.ret \in Items \cup {"ok", None}
    /\ parse.root \in Live \cup {None} /\ Range(parse.open) \subseteq Live

\* No link is to a freed item, each item has one owner at most and its siblings
\* are doubly linked; a root has no siblings, which is what cJSON_Delete, and
\* cJSON.h of a copy, rely on.
WellLinked ==
    /\ TypeOK
    /\ \A n \in Live : LET x == item[n] IN
          /\ {x.next, x.prev, x.child, x.text} \subseteq Live \cup {None}
          /\ x.next # None => item[x.next].prev = n
          /\ x.prev # None => item[x.prev].next = n
          /\ x.child # None /\ ~x.ref => item[x.child].prev = None
          /\ Cardinality(Owner(n)) <= 1
          /\ Owner(n) = {} => x.next = None /\ x.prev = None

\* The links hold; every item without an owner is one the client was given and still
\* has, or that of the parse in progress, so that no call, and none that fails half
\* way in a copy, an array or a parse, leaves an item nobody can free; and as long as
\* clients are plain every string is freed once, and no other memory is.
NothingLost ==
    /\ WellLinked /\ ~lost /\ ~misfreed
    /\ {n \in Live : Owner(n) = {}} = IF Idle THEN mine ELSE mine \cup {parse.root}

\* A parse returns the tree that prints as the tokens it read, a copy with what is
\* below prints as what it copies.
TextKept ==
    [][/\ ParseReturns => Tokens(item, parse.root) = read
       /\ \A n \in Items : Live' # Live /\ Duplicate(n, TRUE) =>
             \E r \in Live' \ Live : Tokens(item', r) = Tokens(item, n)]_vars

\* With a buffer of whatever first size nothing is written past its end, and what
\* it holds is the whole text; so do the sizes print_array and print_object add up.
PrintFits == Idle => \A n \in Live, fmt \in BOOLEAN : item[n].child # None =>
    /\ \A depth \in 0 .. 1 : TextLen(n, depth, fmt) + 1 <= Estimate(n, depth, fmt)
    /\ Owner(n) = {} =>
          LET pieces == Pieces(n, fmt)
              length == TextLen(n, 0, fmt)
          IN  \A prebuffer \in {0, 5} :
                 LET p == PrintBuffered(pieces, prebuffer) IN p.fits /\ p.zero = length

\* The calls build, copy, link and delete trees of items: each acts on the items it
\* names and no others, and one that returns no item has changed none; a reference
\* owns nothing.
ItemForest == INSTANCE ItemSpec WITH
    Nodes <- Items, call <- served,
    alive <- Live,
    kids <- [n \in Items |-> IF item[n] = None THEN <<>>
                             ELSE IF item[n].ref THEN <<>> ELSE Kids(item, n)],
    parsing <- parse.root,
    made <- IF Idle THEN {} ELSE Doomed(item, parse.root)
ImplementsItems == ItemForest!Spec
=============================================================================
