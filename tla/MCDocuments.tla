----------------------------- MODULE MCDocuments -----------------------------
(***************************************************************************)
(* Small instances, for TLC, of the two documents a program reads: the     *)
(* settings of Conf, with HTab below it, and the JSON text of CJson.  They *)
(* share nothing: a client uses the table, the file or the items.          *)
(***************************************************************************)
EXTENDS MCConf

CONSTANTS j1, j2, j3, j4

VARIABLES item, lost, misfreed, parse, read, mine, itemCall   \* of CJson

confAll == <<vars, confVars, use>>
jsonVars == <<item, lost, misfreed, parse, read, mine, itemCall>>

MCItems == {j1, j2, j3, j4}
MCSymmetry == Permutations(MCItems)
MCKinds == {"string", "array", "object"}

J == INSTANCE CJson WITH Items <- MCItems, Names <- {"a"}, Width <- "a" :> 1 @@ "text" :> 1,
                         MaxLen <- 2, MaxRefs <- 1, MaxLiterals <- 1, Literal <- {"string"},
                         MaxBeside <- 1, Values <- {"string"}, Careful <- TRUE,
                         served <- itemCall

\* No step reads itemCall.
DocumentsView == <<MCView, item, lost, misfreed, parse, read, mine>>

ASSUME J!CJsonAssumption

\* The client of the items leaves the table and the file as they were created.
DocumentsInit == J!Init /\ (MCInit \/ (Init /\ ConfInit /\ use = "items"))
OnItems == use = "items" /\ UNCHANGED confAll

DocumentsNext ==
    \/ MCNext /\ UNCHANGED jsonVars
    \/ \E k \in MCKinds : J!Create(k) /\ OnItems
    \/ \E len \in 1 .. 2 : J!CreateArrayOf("string", len) /\ OnItems
    \/ \E n \in MCItems, recurse \in BOOLEAN : J!Duplicate(n, recurse) /\ OnItems
    \/ \E n \in MCItems : J!cJSON_Delete(n) /\ OnItems
    \/ \E a, n \in MCItems : J!AddItemToArray(a, n) /\ OnItems
    \/ \E a, n \in MCItems : J!AddItemReferenceToArray(a, n) /\ OnItems
    \/ \E a, c \in MCItems : J!DetachItem(a, c) /\ OnItems
    \/ \E a, c \in MCItems : J!DeleteItem(a, c) /\ OnItems
    \/ \E o, n \in MCItems, s \in {"a", None} : J!AddItemToObject(o, n, s) /\ OnItems
    \/ \E o, n \in MCItems : J!AddItemToObjectCS(o, n, "a") /\ OnItems
    \/ \E o, n \in MCItems, s \in {"a", None} : J!AddItemReferenceToObject(o, n, s) /\ OnItems
    \/ \E a, c, n \in MCItems : J!InsertItemInArray(a, c, n) /\ OnItems
    \/ \E a, c, n \in MCItems : J!ReplaceItemInArray(a, c, n) /\ OnItems
    \/ \E o, c, n \in MCItems, s \in {"a", None} : J!ReplaceItemInObject(o, c, n, s) /\ OnItems
    \/ J!ParseBegin /\ OnItems
    \/ \E k \in MCKinds : J!ParseValue(k) /\ OnItems
    \/ J!ParseItem /\ OnItems
    \/ J!ParseName("a") /\ OnItems
    \/ J!ParseColon /\ OnItems
    \/ J!ParseClose /\ OnItems
    \/ J!ParseFails /\ OnItems
    \/ J!ParseReturns /\ OnItems
DocumentsSpec == DocumentsInit /\ [][DocumentsNext]_<<confAll, jsonVars>>
-----------------------------------------------------------------------------
\* CJson: no call, and none that fails half way, leaves an item nobody can free, or
\* frees a string twice.
NothingLost == J!NothingLost

\* CJson: what is printed stays within the buffer, and is the whole text.
PrintFits == J!PrintFits

\* CJson: what is parsed prints as what was read, a copy as what is copied.
TextKept == J!TextKept

\* CJson: a call acts on the items it names and no others, and one that returns no
\* item has changed none.
ImplementsItems == J!ImplementsItems
=============================================================================
