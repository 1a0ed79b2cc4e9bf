----------------------------- MODULE MCSequences -----------------------------
(***************************************************************************)
(* Small instances, for TLC, of the modules of one thread that keep things *)
(* in order: the trees of Mxml, the containers ADList, GenericList,        *)
(* ArrayList and SSort, the strings of Sds, the messages of Digest.  They  *)
(* share nothing: the client uses one of them.                             *)
(***************************************************************************)
EXTENDS MCMxml

VARIABLES use,                                               \* what the client uses
          ended,                                             \* of ADList, ArrayList, Sds
          mem, iter, given, adDue, adCall,                   \* of ADList
          nextOf, prevOf, fit, pos, num, over, glDue, glCall,   \* of GenericList
          data, size, current_capacity, arCall,              \* of ArrayList
          arr, soCall,                                       \* of SSort
          sh, sdsCall,                                       \* of Sds
          alg, buf, i, datalen, bitlen, blocks, msg, done    \* of Digest

adVars == <<mem, iter, given, adDue, adCall>>
glVars == <<nextOf, prevOf, fit, pos, num, over, glDue, glCall>>
arVars == <<data, size, current_capacity, arCall>>
soVars == <<arr, soCall>>
sdsVars == <<sh, sdsCall>>
digestVars == <<alg, buf, i, datalen, bitlen, blocks, msg, done>>

MCHeads == {"h", "i"}
MCAddresses == 1 .. 4
MCEntries == {"e", "f", "g"}
MCObjects == {"x", "y", "z"}
MCOrder == "x" :> 1 @@ "y" :> 2 @@ "z" :> 3
MCTexts == {<<>>, <<1>>, <<2>>, <<1, 2>>, <<2, 1, 1>>, <<2, 2, 2, 1, 2>>}
MCMaps == {0 :> 0 @@ 1 :> 2 @@ 2 :> 2}
MCPieces == {<<>>, <<1>>, <<2>>, <<1, 2>>, <<2, 1, 1, 2, 1>>}

AD == INSTANCE ADList WITH Addresses <- MCAddresses, Data <- {"v", "w"},
                           due <- adDue, call <- adCall
GL == INSTANCE GenericList WITH Heads <- MCHeads, Entries <- MCEntries,
                                next <- nextOf, prev <- prevOf, n <- num,
                                due <- glDue, call <- glCall
AR == INSTANCE ArrayList WITH Objects <- MCObjects, Order <- MCOrder, InitialCapacity <- 2,
                              CapacityDelta <- 2, MaxSize <- 6, call <- arCall
SO == INSTANCE SSort WITH Numbers <- 1 .. 4, MaxLen <- 5, call <- soCall
ST == INSTANCE Sds WITH Texts <- MCTexts, Maps <- MCMaps, MaxLen <- 5, call <- sdsCall
DI == INSTANCE Digest WITH Block <- 4, Low <- 64, Word <- 64, Bytes <- {1, 2}, Pieces <- MCPieces,
                           MaxMsg <- 9

ASSUME AR!ArrayListAssumption /\ DI!DigestAssumption

allVars == <<use, ended, vars, adVars, glVars, arVars, soVars, sdsVars, digestVars>>

\* Calls on one of them, the others being left as they were created.
MCInit == /\ Init /\ AD!Init /\ GL!Init /\ AR!Init /\ SO!Init /\ ST!Init /\ DI!Init
          /\ \/ use = "digest"
             \/ /\ use \in {"mxml", "adlist", "generic_list", "arraylist", "ssort", "sds"}
                /\ alg = "md5" /\ buf = [k \in 1 .. 4 |-> 1]
OnTree == /\ use = "mxml" /\ UNCHANGED <<use, ended>>
          /\ UNCHANGED <<adVars, glVars, arVars, soVars, sdsVars, digestVars>>
BesideADList == /\ use = "adlist" /\ ~ended /\ UNCHANGED use
                /\ UNCHANGED <<vars, glVars, arVars, soVars, sdsVars, digestVars>>
OnADList == BesideADList /\ UNCHANGED ended
OnRing == /\ use = "generic_list" /\ UNCHANGED <<use, ended>>
          /\ UNCHANGED <<vars, adVars, arVars, soVars, sdsVars, digestVars>>
BesideArray == /\ use = "arraylist" /\ ~ended /\ UNCHANGED use
               /\ UNCHANGED <<vars, adVars, glVars, soVars, sdsVars, digestVars>>
OnArray == BesideArray /\ UNCHANGED ended
OnSort == /\ use = "ssort" /\ UNCHANGED <<use, ended>>
          /\ UNCHANGED <<vars, adVars, glVars, arVars, sdsVars, digestVars>>
BesideString == /\ use = "sds" /\ ~ended /\ UNCHANGED use
                /\ UNCHANGED <<vars, adVars, glVars, arVars, soVars, digestVars>>
OnString == BesideString /\ UNCHANGED ended
OnMessage == /\ use = "digest" /\ UNCHANGED <<use, ended>>
             /\ UNCHANGED <<vars, adVars, glVars, arVars, soVars, sdsVars>>
ListNames == {"orig", "copy"}
Ends2 == {"head", "tail"}

MCNext ==
    \/ \E n \in Nodes \ alive : \E u \in Elements \cup {None} : MxmlNew(n, u) /\ OnTree
    \/ \E n \in Nodes \ alive : LoadLeaf(n) /\ OnTree
    \/ \E n \in Nodes \ alive : LoadOpen(n) /\ OnTree
    \/ \E n \in alive, u \in Elements, c \in alive \cup {None}, w \in {"before", "after"} :
          MxmlAdd(u, w, c, n) /\ OnTree
    \/ \E n \in alive : MxmlRemove(n) /\ OnTree
    \/ \E n \in alive : MxmlDelete(n) /\ OnTree
    \/ \E u \in Elements \cup {None} : LoadBegin(u) /\ OnTree
    \/ LoadClose /\ OnTree
    \/ LoadEnd /\ OnTree
    \/ LoadCrash /\ OnTree
    \/ \E l \in ListNames, v \in {"v", "w"} : AD!listAddNodeHead(l, v) /\ OnADList
    \/ \E l \in ListNames, v \in {"v", "w"} : AD!listAddNodeTail(l, v) /\ OnADList
    \/ \E l \in ListNames, v \in {"v", "w"} : AD!listSearchKey(l, v) /\ OnADList
    \/ \E l \in ListNames : AD!listRelease(l) /\ OnADList
    \/ \E l \in ListNames, k \in 1 .. 4 : AD!listDelNode(l, k) /\ OnADList
    \/ \E l \in ListNames, end \in Ends2 : AD!listGetIterator(l, end) /\ OnADList
    \/ \E l \in ListNames, k \in {-2, -1, 0, 1} : AD!listIndex(l, k) /\ OnADList
    \/ AD!listDup /\ OnADList
    \/ AD!listNextElement /\ OnADList
    \/ \E k \in 0 .. 4 : AD!DupFails(k) /\ OnADList
    \/ AD!OutOfMemory /\ OnADList
    \/ AD!NoIterator /\ BesideADList
    \/ \E e \in MCEntries, h \in MCHeads : GL!list_add(e, h) /\ OnRing
    \/ \E e \in MCEntries, h \in MCHeads : GL!list_add_tail(e, h) /\ OnRing
    \/ \E e \in MCEntries, h \in MCHeads : GL!list_del(e, h) /\ OnRing
    \/ \E e \in MCEntries, h \in MCHeads : GL!list_is_last(e, h) /\ OnRing
    \/ \E e \in MCEntries, h, to \in MCHeads, end \in Ends2 : GL!list_move(e, h, to, end) /\ OnRing
    \/ \E e, new \in MCEntries, h \in MCHeads : GL!list_replace(e, new, h) /\ OnRing
    \/ \E h, new \in MCHeads : GL!ReplaceHead(h, new) /\ OnRing
    \/ \E h \in MCHeads : GL!init_list_head(h) /\ OnRing
    \/ \E h \in MCHeads : GL!list_empty(h) /\ OnRing
    \/ \E h \in MCHeads : GL!WalkBegins(h) /\ OnRing
    \/ GL!WalkNext /\ OnRing
    \/ GL!WalkEnds /\ OnRing
    \/ \E o \in MCObjects : AR!arraylist_add(o) /\ OnArray
    \/ \E o \in MCObjects : AR!arraylist_remove(o) /\ OnArray
    \/ \E o \in MCObjects : AR!Looked(o) /\ OnArray
    \/ \E k \in 0 .. 5 : AR!arraylist_get(k) /\ OnArray
    \/ AR!arraylist_size /\ OnArray
    \/ AR!arraylist_clear /\ OnArray
    \/ AR!arraylist_sort /\ OnArray
    \/ AR!Ends /\ BesideArray
    \/ SO!Sort /\ OnSort
    \/ SO!Empty /\ OnSort
    \/ \E x \in 1 .. 4 : SO!Fill(x) /\ OnSort
    \/ \E t \in MCTexts : ST!sdsnew(t) /\ OnString
    \/ \E t \in MCTexts : ST!sdscatlen(t) /\ OnString
    \/ \E t \in MCTexts : ST!sdscpylen(t) /\ OnString
    \/ \E c \in ST!Sets : ST!sdstrim(c) /\ OnString
    \/ \E start, end \in ST!Places : ST!sdsrange(start, end) /\ OnString
    \/ \E at \in 0 .. 4 : ST!sdsupdatelen(at) /\ OnString
    \/ \E map \in MCMaps : ST!Cased(map) /\ OnString
    \/ \E sep \in ST!Seps : ST!sdssplitlen(sep) /\ OnString
    \/ ST!sdsdup /\ OnString
    \/ ST!OutOfMemory /\ OnString
    \/ \E t \in MCTexts : ST!Overrun(t) /\ BesideString
    \/ \E p \in MCPieces : DI!MD5Update(p) /\ OnMessage
    \/ \E p \in MCPieces : DI!sha_update(p) /\ OnMessage
    \/ DI!MD5Final /\ OnMessage
    \/ DI!sha_final /\ OnMessage
MCSpec == MCInit /\ [][MCNext]_allVars

\* The answers are left out of what makes a state: no step reads the one before,
\* and a step is checked when it is generated, whichever state it leads to.
MCView == <<use, ended, vars, mem, iter, given, adDue, nextOf, prevOf, fit, pos, num, over, glDue,
            data, size, current_capacity, arr, sh, digestVars>>
-----------------------------------------------------------------------------
\* ADList and GenericList: both directions tell of the same nodes, and the nodes
\* in use are those of the lists.  ArrayList and Sds: what is used is allocated,
\* and the length and the room left say so.
ContainersIntact == AD!WellLinked /\ GL!WellLinked /\ AR!InBounds /\ ST!RoomExact

\* The calls of ADList, GenericList, ArrayList and SSort are those of sequences,
\* the calls of Sds those of a string.
ContainersAreSequences == /\ AD!ImplementsLists /\ GL!ImplementsLists
                          /\ AR!ImplementsLists /\ SO!ImplementsLists
                          /\ ST!ImplementsString

\* Digest: the blocks are those of the message padded, whatever its pieces.
BlocksSpellMessage == DI!BlocksSpellMessage
=============================================================================
