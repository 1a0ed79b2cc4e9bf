--------------------------------- MODULE Sds ---------------------------------
(***************************************************************************)
(* src/sds.c: a string with its length and spare room in front of it.  One *)
(* client, which frees a string before it makes another.  sdscpylen asks   *)
(* for less room than a long text needs when some is spare already, and    *)
(* writes past the buffer (~Fits): nothing the program does after that is  *)
(* defined.  sdscatprintf is sdscat as long as what it prints fits its     *)
(* first buffer: the next try would use its arguments again.               *)
(***************************************************************************)
EXTENDS Integers, SequencesExt

CONSTANTS Texts,      \* what the client assigns and appends; a 0 ends a string in memory
          MaxLen,     \* a bound on the string
          Maps,       \* what tolower and toupper do to the bytes
          None        \* what no one has written yet

VARIABLES sh,         \* the struct sdshdr, and its buf as far as it is allocated
          ended,      \* memory past the buffer was written: anything may follow
          call        \* the last call, its arguments, what it returned

sdsVars == <<sh, ended, call>>

Content == [i \in 1 .. sh.len |-> sh.buf[i - 1]]

\* malloc and realloc of a buffer, and memcpy into it.
Sized(buf, n) == [i \in 0 .. n |-> IF i \in DOMAIN buf THEN buf[i] ELSE None]
Put(buf, at, t) ==
    [i \in DOMAIN buf |-> IF i - at + 1 \in DOMAIN t THEN t[i - at + 1] ELSE buf[i]]

sdsnewlen(t) == [len |-> Len(t), free |-> 0, buf |-> Put(Sized(<<>>, Len(t)), 0, t \o <<0>>)]

\* sdsempty.
Init == sh = sdsnewlen(<<>>) /\ ended = FALSE /\ call = <<"empty">>

sdsnew(t) == sh' = sdsnewlen(t) /\ call' = <<"assign", t>>

\* The original is freed.
sdsdup == sh' = sdsnewlen(Content) /\ call' = <<"assign", Content>>

sdsMakeRoomFor(h, addlen) ==
    LET newlen == (h.len + addlen) * 2
    IN  IF h.free >= addlen THEN h
        ELSE [h EXCEPT !.buf = Sized(h.buf, newlen), !.free = newlen - h.len]

sdscatlen(t) ==
    /\ sh.len + Len(t) <= MaxLen
    /\ LET h == sdsMakeRoomFor(sh, Len(t))
       IN  sh' = [len |-> sh.len + Len(t), free |-> h.free - Len(t),
                  buf |-> Put(h.buf, sh.len, t \o <<0>>)]
    /\ call' = <<"append", t>>

\* The header after sdscpylen has asked for the room it thinks is missing.
Widened(t) == LET totlen == sh.free + sh.len
              IN  IF totlen < Len(t) THEN sdsMakeRoomFor(sh, Len(t) - totlen) ELSE sh
Fits(t) == Len(t) \in DOMAIN Widened(t).buf

sdscpylen(t) ==
    /\ Fits(t)
    /\ LET h == Widened(t)
       IN  sh' = [len |-> Len(t), free |-> h.free + h.len - Len(t),
                  buf |-> Put(h.buf, 0, t \o <<0>>)]
    /\ call' = <<"assign", t>>

Overrun(t) == ~Fits(t) /\ ended' = TRUE /\ UNCHANGED <<sh, call>>

\* No memory: the string is as it was.
OutOfMemory == call' = <<"fail">> /\ UNCHANGED sh
-----------------------------------------------------------------------------
\* memmove of len bytes from a place to the front, with the room they leave.
Kept(from, len) ==
    [sh EXCEPT !.buf = Put(sh.buf, 0, [i \in 1 .. len |-> sh.buf[from + i - 1]] \o <<0>>),
               !.free = @ + (sh.len - len), !.len = len]

\* sp goes up to one past the end, ep down to the start.
sdstrim(cset) ==
    LET sp == CHOOSE i \in 0 .. sh.len : /\ i = sh.len \/ sh.buf[i] \notin cset
                                         /\ \A j \in 0 .. i - 1 : sh.buf[j] \in cset
        ep == CHOOSE i \in -1 .. sh.len - 1 :
                 /\ i <= 0 \/ sh.buf[i] \notin cset
                 /\ \A j \in i + 1 .. sh.len - 1 : j > 0 /\ sh.buf[j] \in cset
    IN  /\ sh' = Kept(sp, IF sp > ep THEN 0 ELSE ep - sp + 1)
        /\ call' = <<"trim", cset>>

sdsrange(start, end) ==
    LET len == sh.len
        FromEnd(i) == IF i >= 0 THEN i ELSE IF len + i < 0 THEN 0 ELSE len + i
        AtMost(i) == IF i >= len THEN len - 1 ELSE i
        s == FromEnd(start)
        e == FromEnd(end)
    IN  /\ sh' = IF len = 0 THEN sh
                 ELSE IF s > e THEN Kept(0, 0)
                 ELSE Kept(AtMost(s), AtMost(e) - AtMost(s) + 1)
        /\ call' = <<"keep", start, end>>

\* The client stores a 0, and sdsupdatelen finds it.
sdsupdatelen(reallen) ==
    /\ reallen < sh.len /\ \A i \in 0 .. reallen - 1 : sh.buf[i] # 0
    /\ sh' = [sh EXCEPT !.buf[reallen] = 0, !.free = @ + (sh.len - reallen), !.len = reallen]
    /\ call' = <<"cut", reallen>>

\* sdstolower and sdstoupper.
Cased(map) ==
    /\ sh' = [sh EXCEPT !.buf = [i \in DOMAIN @ |-> IF i < sh.len THEN map[@[i]] ELSE @[i]]]
    /\ call' = <<"change", map>>

\* sdssplitlen: at j the string so far is split and its last part began at start.
Parts(t, sep) ==
    LET n == Len(t)
        From[start \in Nat, j \in Nat] ==
            IF j >= n - (Len(sep) - 1) THEN <<SubSeq(t, start + 1, n)>>
            ELSE LET met == SubSeq(t, j + 1, j + Len(sep)) = sep
                     next == IF met THEN j + Len(sep) ELSE j + 1
                 IN  (IF met THEN <<SubSeq(t, start + 1, j)>> ELSE <<>>)
                     \o From[IF met THEN next ELSE start, next]
    IN  From[0, 0]
sdssplitlen(sep) ==
    /\ call' = IF sep = <<>> THEN <<"fail">> ELSE <<"split", sep, Parts(Content, sep)>>
    /\ UNCHANGED sh

Sets == {{}, {1}, {1, 2}}
Seps == {<<>>, <<1>>, <<1, 1>>, <<1, 2>>}
Places == {-3, -1, 0, 1, 4}
Calls == \/ \E t \in Texts : sdsnew(t) \/ sdscatlen(t) \/ sdscpylen(t)
         \/ \E c \in Sets : sdstrim(c)
         \/ \E start, end \in Places : sdsrange(start, end)
         \/ \E i \in 0 .. MaxLen - 1 : sdsupdatelen(i)
         \/ \E map \in Maps : Cased(map)
         \/ \E sep \in Seps : sdssplitlen(sep)
         \/ sdsdup \/ OutOfMemory
Next == ~ended /\ ((Calls /\ UNCHANGED ended) \/ \E t \in Texts : Overrun(t))

Spec == Init /\ [][Next]_sdsVars
-----------------------------------------------------------------------------
\* The length and the room left are those of the memory allocated, exactly, and
\* behind the string stands a 0.
RoomExact == /\ sh.free >= 0 /\ DOMAIN sh.buf = 0 .. sh.len + sh.free
             /\ sh.buf[sh.len] = 0 /\ None \notin Range(Content)

\* The calls are those of a string, as long as none has written past its buffer.
String == INSTANCE StringSpec WITH text <- Content
ImplementsString == String!Spec
=============================================================================
