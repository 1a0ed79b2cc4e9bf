----------------------------- MODULE ConnProofs -----------------------------
(***************************************************************************)
(* Proofs about Conn, for every set of lengths and timeouts, every         *)
(* capacity and however many bytes, calls and signals there may be.  IInv  *)
(* is inductive; the properties the run checks follow from it.             *)
(***************************************************************************)
EXTENDS Conn, SequenceTheorems, TLAPS

Errnos == {"none", "ETIMEDOUT", "EIO", "ENOMEM", "EINTR", "ECONNRESET"}
Calls == [pc : {"idle", "loop", "transfer"}, len : Nat, left : Nat, msec : Int, tv : Int,
          waited : Nat, from : Nat, buf : Seq(Nat \X Nat), errno : Errnos,
          by : {"before", "timer", "system"}, ret : Codes("reader") \cup Codes("writer")]

Typed ==
    /\ wire \in Seq(Nat \X Nat) /\ taken \in 0 .. Len(wire) /\ Buffered <= Capacity
    /\ ends \in {"open", "closed", "reset"} /\ {nonblock, blocking} \subseteq BOOLEAN
    /\ message \in Lens \cup {Unset, Mixed}
    /\ calls \in Nat /\ signals \in 0 .. MaxSignals
    /\ call \in [Procs -> Calls]
    /\ \A p \in Procs : call[p].left <= call[p].len /\ call[p].ret \in Codes(p)

\* The timeout and what has been waited of it make up what the caller asked for.
TimedOut(c, e) == \/ c.by = "timer" /\ c.waited = c.msec
                  \/ c.by = "system" /\ c.errno = "ETIMEDOUT" /\ e = "reset"
TimeSound == \A p \in Procs : LET c == call[p] IN
    /\ c.tv + c.waited = c.msec
    /\ c.msec >= 0 => c.tv >= 0
    /\ c.pc = "idle" /\ c.ret = "ETIMEDOUT" /\ c.len <= MaxInt =>
          TimedOut(c, ends)

ModeSound == nonblock = (At("writer", "idle") => ~blocking)

\* Only a call that has nothing left succeeds, if int holds its length.
DoneSound == \A p \in Procs :
    call[p].pc = "idle" /\ call[p].ret = "SUCCESS" /\ call[p].len <= MaxInt =>
        call[p].left = 0

\* What the reader has is what it took from the stream since its call began; the
\* end of the stream is what the writer's call has sent.
Sent == call["writer"].len - call["writer"].left
StreamSound ==
    /\ LET c == call["reader"] IN
          /\ taken = c.from + (c.len - c.left)
          /\ c.buf = SubSeq(wire, c.from + 1, taken)
    /\ call["writer"].buf = <<>>
    /\ Sent <= Len(wire)
    /\ \A i \in 1 .. Sent : wire[Len(wire) - Sent + i] = <<calls, i>>

\* Is there a boundary between messages of length n after j bytes?
Boundary(j, n) == j = 0 \/ wire[j][2] = n

\* Clients that agree on the length n and stop at a failure make a stream of whole
\* messages but for the last, and a read begins at a boundary.
FrameSound ==
    /\ message = Unset => wire = <<>> /\ \A p \in Procs : call[p].len = 0 /\ call[p].pc = "idle"
    /\ message \in Lens =>
          /\ message <= MaxInt
          /\ \A p \in Procs : call[p].len = message \/ (call[p].len = 0 /\ call[p].pc = "idle")
          /\ call["writer"].len # message => wire = <<>>
          /\ call["reader"].len # message => taken = 0
          /\ \A j \in 1 .. Len(wire) : wire[j][2] \in 1 .. message
          /\ \A j \in 1 .. Len(wire), d \in Nat :
                j + d <= Len(wire) /\ wire[j][2] + d <= message =>
                    wire[j + d][2] = wire[j][2] + d
          /\ \A j \in 0 .. Len(wire) - 1 : Boundary(j, message) => wire[j + 1][2] = 1
          /\ Boundary(Len(wire) - Sent, message)
          /\ Boundary(call["reader"].from, message)

IInv == Typed /\ TimeSound /\ ModeSound /\ DoneSound /\ StreamSound /\ FrameSound
-----------------------------------------------------------------------------
\* Bytes appended to a stream come after those that were there.
LEMMA Extended ==
  ASSUME NEW S, NEW s \in Seq(S), NEW k \in Nat, NEW e \in [1 .. k -> S]
  PROVE  /\ s \o e \in Seq(S)
         /\ Len(s \o e) = Len(s) + k
         /\ \A j \in 1 .. Len(s) : (s \o e)[j] = s[j]
         /\ \A i \in 1 .. k : (s \o e)[Len(s) + i] = e[i]
<1>1. e \in Seq(S) /\ Len(e) = k OBVIOUS
<1>2. Len(s) \in Nat BY LenProperties
<1>3. /\ s \o e \in Seq(S)
      /\ Len(s \o e) = Len(s) + k
      /\ \A i \in 1 .. Len(s) + k : (s \o e)[i] = IF i <= Len(s) THEN s[i] ELSE e[i - Len(s)]
  BY <1>1, ConcatProperties
<1>4. \A i \in 1 .. k : (Len(s) + i) - Len(s) = i /\ Len(s) + i \in 1 .. Len(s) + k
                        /\ ~(Len(s) + i <= Len(s))
  BY <1>2
<1> QED BY <1>2, <1>3, <1>4

\* What lies between two positions of a stream.
LEMMA Between ==
  ASSUME NEW S, NEW s \in Seq(S), NEW a \in Nat, NEW b \in a .. Len(s)
  PROVE  /\ SubSeq(s, a + 1, b) \in Seq(S)
         /\ Len(SubSeq(s, a + 1, b)) = b - a
         /\ \A i \in 1 .. b - a : SubSeq(s, a + 1, b)[i] = s[a + i]
<1>1. Len(s) \in Nat BY LenProperties
<1>2. \A i \in a + 1 .. b : s[i] \in S BY <1>1, ElementOfSeq
<1>3. /\ SubSeq(s, a + 1, b) \in Seq(S)
      /\ Len(SubSeq(s, a + 1, b)) = IF a + 1 <= b THEN b - (a + 1) + 1 ELSE 0
      /\ \A i \in 1 .. b - (a + 1) + 1 : SubSeq(s, a + 1, b)[i] = s[(a + 1) + i - 1]
  BY <1>1, <1>2, SubSeqProperties
<1>4. b - (a + 1) + 1 = b - a /\ (a + 1 <= b \/ b - a = 0)
      /\ \A i \in Nat : (a + 1) + i - 1 = a + i
  BY <1>1
<1> HIDE DEF SubSeq
<1> QED BY <1>1, <1>3, <1>4
\* Positions f of the bytes of a stream of messages of length n: each message is
\* numbered from 1, and the next begins where it ends.
Whole(f, L, n) ==
    /\ \A j \in 1 .. L : f[j] \in 1 .. n
    /\ \A j \in 1 .. L, d \in Nat : j + d <= L /\ f[j] + d <= n => f[j + d] = f[j] + d
    /\ \A j \in 0 .. L - 1 : j = 0 \/ f[j] = n => f[j + 1] = 1

\* A stream stays whole as its last message, which begins at b, grows.
LEMMA WholeGrows ==
  ASSUME NEW n \in Nat, NEW L \in Nat, NEW M \in Nat, NEW b \in 0 .. L, NEW f, NEW g,
         L <= M, M - b <= n, Whole(f, L, n), b = 0 \/ f[b] = n,
         \A j \in 1 .. b : g[j] = f[j], \A j \in b + 1 .. M : g[j] = j - b
  PROVE  Whole(g, M, n)
<1>1. \A j \in 1 .. b : f[j] \in 1 .. n /\ g[j] \in 1 .. n
  <2> SUFFICES ASSUME NEW j \in 1 .. b PROVE f[j] \in 1 .. n /\ g[j] \in 1 .. n
    OBVIOUS
  <2>1. j \in 1 .. L OBVIOUS
  <2> QED BY <2>1 DEF Whole
<1>2. \A j \in b + 1 .. M : g[j] \in 1 .. n OBVIOUS
<1>3. \A j \in 1 .. M : g[j] \in 1 .. n
  <2> SUFFICES ASSUME NEW j \in 1 .. M PROVE g[j] \in 1 .. n
    OBVIOUS
  <2>1. j \in 1 .. b \/ j \in b + 1 .. M OBVIOUS
  <2> QED BY <1>1, <1>2, <2>1
<1>4. ASSUME NEW j \in 1 .. M, NEW d \in Nat, j + d <= M, g[j] + d <= n
      PROVE  g[j + d] = g[j] + d
  <2>1. CASE j > b
    <3>1. j \in b + 1 .. M /\ j + d \in b + 1 .. M BY <1>4, <2>1
    <3>2. g[j] = j - b /\ g[j + d] = (j + d) - b BY <3>1
    <3> QED BY <3>2
  <2>2. CASE j + d <= b
    <3>1. j \in 1 .. b /\ j + d \in 1 .. b /\ j \in 1 .. L /\ j + d <= L BY <2>2
    <3>2. g[j] = f[j] /\ g[j + d] = f[j + d] BY <3>1
    <3>3. f[j] + d <= n BY <1>4, <3>2
    <3>4. f[j + d] = f[j] + d BY <3>1, <3>3 DEF Whole
    <3> QED BY <3>2, <3>4
  <2>3. CASE j <= b /\ j + d > b
    <3> DEFINE h == b - j
    <3>1. j \in 1 .. b /\ j \in 1 .. L /\ h \in Nat /\ h < d /\ j + h = b /\ b # 0
          /\ j + h <= L
      BY <2>3
    <3>2. f[j] \in 1 .. n /\ g[j] = f[j] BY <1>1, <3>1
    <3> HIDE DEF h
    <3>3. f[j] + h <= n BY <1>4, <3>1, <3>2
    <3>4. f[j + h] = f[j] + h BY <3>1, <3>3 DEF Whole
    <3>5. f[j] + h = n BY <3>1, <3>4
    <3> QED BY <1>4, <3>1, <3>2, <3>5
  <2> QED BY <2>1, <2>2, <2>3
<1>5. ASSUME NEW j \in 0 .. M - 1, j = 0 \/ g[j] = n
      PROVE  g[j + 1] = 1
  <2>1. CASE j < b
    <3>1. j \in 0 .. L - 1 /\ j + 1 \in 1 .. b /\ (j = 0 \/ j \in 1 .. b) BY <2>1
    <3>2. j = 0 \/ f[j] = n BY <1>5, <3>1
    <3>3. f[j + 1] = 1 BY <3>1, <3>2 DEF Whole
    <3> QED BY <3>1, <3>3
  <2>2. CASE j = b
    <3>1. j + 1 \in b + 1 .. M /\ (j + 1) - b = 1 BY <2>2
    <3> QED BY <3>1
  <2>3. CASE j > b
    <3>1. j \in b + 1 .. M /\ j # 0 /\ j - b < n BY <2>3
    <3>2. g[j] = j - b BY <3>1
    <3> QED BY <1>5, <3>1, <3>2
  <2> QED BY <2>1, <2>2, <2>3
<1> QED BY <1>3, <1>4, <1>5 DEF Whole

\* The last m of L bytes are the first that call a wrote.
Ending(s, L, m, a) == \A i \in 1 .. m : s[L - m + i] = <<a, i>>

\* The end of a stream that one call wrote, when it writes k bytes more.
LEMMA TailGrows ==
  ASSUME NEW a, NEW L \in Nat, NEW m \in 0 .. L, NEW k \in Nat, NEW s, NEW t,
         Ending(s, L, m, a),
         \A j \in 1 .. L : t[j] = s[j], \A i \in 1 .. k : t[L + i] = <<a, m + i>>
  PROVE  Ending(t, L + k, m + k, a)
<1> USE DEF Ending
<1>0. (L + k) - (m + k) = L - m OBVIOUS
<1> SUFFICES ASSUME NEW i \in 1 .. m + k PROVE t[L - m + i] = <<a, i>>
  BY <1>0
<1>1. CASE i <= m
  <2>1. i \in 1 .. m /\ L - m + i \in 1 .. L BY <1>1
  <2> QED BY <2>1
<1>2. CASE i > m
  <2> DEFINE h == i - m
  <2>1. h \in 1 .. k /\ L - m + i = L + h /\ m + h = i BY <1>2
  <2> HIDE DEF h
  <2>2. t[L + h] = <<a, m + h>> BY <2>1
  <2> QED BY <2>1, <2>2
<1> QED BY <1>1, <1>2

\* A part of a stream is the same in a longer one.
LEMMA PartStays ==
  ASSUME NEW S, NEW s \in Seq(S), NEW t \in Seq(S), NEW a \in Nat, NEW b \in a .. Len(s),
         Len(s) <= Len(t), \A j \in 1 .. Len(s) : t[j] = s[j]
  PROVE  SubSeq(t, a + 1, b) = SubSeq(s, a + 1, b)
<1> DEFINE u == SubSeq(s, a + 1, b)
           v == SubSeq(t, a + 1, b)
<1>0. Len(s) \in Nat /\ Len(t) \in Nat BY LenProperties
<1>1. u \in Seq(S) /\ Len(u) = b - a /\ \A i \in 1 .. b - a : u[i] = s[a + i]
  BY Between
<1>2. v \in Seq(S) /\ Len(v) = b - a /\ \A i \in 1 .. b - a : v[i] = t[a + i]
  <2>1. b \in a .. Len(t) BY <1>0
  <2> QED BY <2>1, Between
<1>3. \A i \in 1 .. b - a : a + i \in 1 .. Len(s) BY <1>0
<1> HIDE DEF u, v
<1>4. \A i \in 1 .. Len(v) : v[i] = u[i] BY <1>1, <1>2, <1>3
<1>5. u = v BY <1>1, <1>2, <1>4, SeqEqual
<1> QED BY <1>5 DEF u, v
-----------------------------------------------------------------------------
LEMMA InitIInv == Init => IInv
<1> SUFFICES ASSUME Init PROVE IInv
  OBVIOUS
<1> USE LensAssumption, BoundAssumption DEF Init, NoCall
<1>1. NoCall \in Calls BY DEF Calls, Errnos, Codes
<1>2. Typed
  BY <1>1 DEF Typed, Buffered, Codes
<1>3. TimeSound /\ DoneSound
  BY DEF TimeSound, DoneSound
<1>4. ModeSound
  BY DEF ModeSound, At, Procs
<1>5. StreamSound
  <2>1. SubSeq(wire, 0 + 1, 0) = <<>> BY SubSeqEmpty
  <2>2. Sent = 0 BY DEF Sent, Procs
  <2>3. call["reader"].from = 0 /\ call["reader"].buf = <<>> /\ taken = 0
        /\ call["reader"].len = 0 /\ call["reader"].left = 0 /\ Len(wire) = 0
    BY DEF Procs
  <2> HIDE DEF Init, NoCall
  <2>4. call["reader"].buf = SubSeq(wire, call["reader"].from + 1, taken)
    BY <2>1, <2>3, Zenon
  <2>5. call["writer"].buf = <<>> BY DEF Init, NoCall, Procs
  <2> QED BY <2>2, <2>3, <2>4, <2>5 DEF StreamSound
<1>6. FrameSound
  BY DEF FrameSound, Unset, Procs
<1> QED BY <1>2, <1>3, <1>4, <1>5, <1>6 DEF IInv

\* A step of a call that moves no byte.
LEMMA Bookkeeping ==
  ASSUME IInv, NEW p \in Procs, call[p].pc # "idle", NEW c \in Calls,
         call' = [call EXCEPT ![p] = c],
         c.len = call[p].len, c.left = call[p].left, c.from = call[p].from,
         c.buf = call[p].buf, c.msec = call[p].msec, c.ret \in Codes(p),
         UNCHANGED <<wire, taken, ends, calls, message, blocking>>,
         signals' \in 0 .. MaxSignals,
         nonblock' = IF p = "writer" THEN (c.pc = "idle" => ~blocking) ELSE nonblock,
         c.tv + c.waited = c.msec, c.msec >= 0 => c.tv >= 0,
         c.pc = "idle" /\ c.ret = "ETIMEDOUT" /\ c.len <= MaxInt => TimedOut(c, ends),
         c.pc = "idle" /\ c.ret = "SUCCESS" /\ c.len <= MaxInt => c.left = 0
  PROVE  IInv'
<1>1. call \in [Procs -> Calls] BY DEF IInv, Typed
<1>2. call'[p] = c /\ \A q \in Procs : q # p => call'[q] = call[q] BY <1>1
<1>3. Typed' BY <1>1, <1>2, Zenon DEF IInv, Typed, Buffered
<1>4. TimeSound' BY <1>2 DEF IInv, TimeSound
<1>5. ModeSound' BY <1>2 DEF IInv, ModeSound, At, Procs
<1>6. DoneSound' BY <1>2 DEF IInv, DoneSound
<1>7. Sent' = Sent BY <1>2 DEF Sent, Procs
<1>8. \A q \in Procs : /\ call'[q].len = call[q].len /\ call'[q].left = call[q].left
                       /\ call'[q].from = call[q].from /\ call'[q].buf = call[q].buf
                       /\ call[q].pc = "idle" => call'[q].pc = "idle"
  BY <1>2
<1>9. StreamSound' BY <1>7, <1>8 DEF IInv, StreamSound, Procs
<1>10. FrameSound' BY <1>7, <1>8 DEF IInv, FrameSound, Boundary, Procs
<1> QED BY <1>3, <1>4, <1>5, <1>6, <1>9, <1>10 DEF IInv

\* What a call has transferred and what it has left.
LEMMA Fields == ASSUME IInv, NEW p \in Procs
                PROVE  /\ call[p].len \in Nat /\ call[p].left \in Nat /\ call[p].from \in Nat
                       /\ call[p].left <= call[p].len
<1>1. call[p] \in Calls /\ call[p].left <= call[p].len BY DEF IInv, Typed
<1> QED BY <1>1 DEF Calls

\* A call that succeeds when messages have length n ends at a boundary.
LEMMA EndsAtBoundary ==
  ASSUME IInv, message \in Lens
  PROVE  /\ call["writer"].pc = "idle" /\ call["writer"].ret = "SUCCESS"
               => Boundary(Len(wire), message)
         /\ call["reader"].pc = "idle" /\ call["reader"].ret = "SUCCESS"
               => Boundary(taken, message)
<1> DEFINE n == message
<1>0. n \in Nat /\ Len(wire) \in Nat /\ taken \in 0 .. Len(wire)
  BY LensAssumption, LenProperties DEF IInv, Typed
<1>. \A p \in Procs : call[p].len <= MaxInt BY BoundAssumption DEF IInv, FrameSound
<1>1. ASSUME call["writer"].pc = "idle", call["writer"].ret = "SUCCESS"
      PROVE  Boundary(Len(wire), n)
  <2>1. call["writer"].left = 0 BY <1>1 DEF IInv, DoneSound, Procs
  <2>2. CASE call["writer"].len # n
    BY <2>2 DEF IInv, FrameSound, Boundary
  <2>3. CASE call["writer"].len = n /\ n = 0
    <3>1. \A j \in 1 .. Len(wire) : FALSE BY <2>3 DEF IInv, FrameSound
    <3> QED BY <1>0, <3>1 DEF Boundary
  <2>4. CASE call["writer"].len = n /\ n > 0
    <3>1. Sent = n BY <1>0, <2>1, <2>4 DEF Sent
    <3>2. n <= Len(wire) /\ wire[Len(wire) - n + n] = <<calls, n>>
      BY <1>0, <2>4, <3>1 DEF IInv, StreamSound
    <3>3. Len(wire) - n + n = Len(wire) BY <1>0
    <3> QED BY <3>2, <3>3 DEF Boundary
  <2> QED BY <1>0, <2>2, <2>3, <2>4
<1>2. ASSUME call["reader"].pc = "idle", call["reader"].ret = "SUCCESS"
      PROVE  Boundary(taken, n)
  <2> DEFINE from == call["reader"].from
  <2>1. /\ call["reader"].left = 0 /\ from \in Nat /\ call["reader"].len \in Nat
        /\ taken = from + call["reader"].len
    <3>1. call["reader"].left = 0 BY <1>2, Zenon DEF IInv, DoneSound, Procs
    <3>2. from \in Nat /\ call["reader"].len \in Nat
      BY Fields DEF Procs
    <3>3. taken = from + (call["reader"].len - call["reader"].left)
      BY DEF IInv, StreamSound
    <3> QED BY <3>1, <3>2, <3>3
  <2>2. CASE call["reader"].len # n
    BY <2>2 DEF IInv, FrameSound, Boundary
  <2>3. CASE call["reader"].len = n /\ n = 0
    BY <2>1, <2>3 DEF IInv, FrameSound
  <2>4. CASE call["reader"].len = n /\ n > 0
    <3>1. Boundary(from, n) /\ from \in 0 .. Len(wire) - 1
      BY <1>0, <2>1, <2>4 DEF IInv, FrameSound
    <3>2. wire[from + 1][2] = 1 BY <3>1 DEF IInv, FrameSound
    <3>3. (from + 1) + (n - 1) = from + n /\ n - 1 \in Nat /\ from + 1 \in 1 .. Len(wire)
          /\ from + n <= Len(wire) /\ 1 + (n - 1) = n
      BY <1>0, <2>1, <2>4, <3>1, SMTT(20)
    <3>4. \A j \in 1 .. Len(wire), d \in Nat :
             j + d <= Len(wire) /\ wire[j][2] + d <= n => wire[j + d][2] = wire[j][2] + d
      BY DEF IInv, FrameSound
    <3>5. wire[(from + 1) + (n - 1)][2] = wire[from + 1][2] + (n - 1)
      <4> DEFINE j == from + 1
                 d == n - 1
      <4>1. j \in 1 .. Len(wire) /\ d \in Nat /\ j + d <= Len(wire) /\ wire[j][2] + d <= n
        BY <1>0, <3>2, <3>3
      <4> HIDE DEF j, d
      <4>2. wire[j + d][2] = wire[j][2] + d BY <3>4, <4>1
      <4> QED BY <4>2 DEF j, d
    <3> QED BY <2>1, <2>4, <3>2, <3>3, <3>5 DEF Boundary
  <2> QED BY <1>0, <2>1, <2>2, <2>3, <2>4
<1> QED BY <1>1, <1>2

\* conn_read and conn_write begin.
LEMMA StepBegin ==
  ASSUME IInv, NEW p \in Procs, NEW n \in Lens, NEW t \in Timeouts \cup {-1}, Begin(p, n, t),
         UNCHANGED <<wire, taken, ends, blocking, signals>>,
         calls' = IF p = "writer" THEN calls + 1 ELSE calls,
         nonblock' = IF p = "writer" THEN TRUE ELSE nonblock
  PROVE  IInv'
<1> DEFINE c == [NoCall EXCEPT !.pc = "loop", !.len = n, !.left = n, !.msec = t, !.tv = t,
                               !.from = taken, !.errno = call[p].errno]
<1> USE LensAssumption
<1>0. /\ call \in [Procs -> Calls] /\ n \in Nat /\ t \in Int /\ taken \in 0 .. Len(wire)
      /\ Len(wire) \in Nat /\ wire \in Seq(Nat \X Nat) /\ call[p].pc = "idle"
  BY LenProperties DEF IInv, Typed, Begin, At
<1>1. /\ c \in Calls /\ c.pc = "loop" /\ c.len = n /\ c.left = n /\ c.msec = t /\ c.tv = t
      /\ c.waited = 0 /\ c.from = taken /\ c.buf = <<>> /\ c.ret = "SUCCESS"
  <2>1. call[p].errno \in Errnos BY <1>0 DEF Calls
  <2>2. NoCall \in Calls BY DEF NoCall, Calls, Errnos, Codes
  <2>3. c \in Calls
    <3> DEFINE d == [NoCall EXCEPT !.pc = "loop", !.len = n, !.left = n, !.msec = t]
    <3>1. taken \in Nat /\ n \in Nat /\ t \in Int BY <1>0
    <3>2. d \in Calls BY <2>2, <3>1 DEF Calls
    <3>3. c = [d EXCEPT !.tv = t, !.from = taken, !.errno = call[p].errno]
      OBVIOUS
    <3> HIDE DEF c, d
    <3> QED BY <2>1, <3>1, <3>2, <3>3 DEF Calls
  <2>4. /\ c.pc = "loop" /\ c.len = n /\ c.left = n /\ c.msec = t /\ c.tv = t
        /\ c.from = taken
    BY DEF NoCall
  <2>5. c.waited = 0 /\ c.buf = <<>> /\ c.ret = "SUCCESS"
    BY DEF NoCall
  <2> QED BY <2>3, <2>4, <2>5
<1>2. call' = [call EXCEPT ![p] = c] BY Zenon DEF Begin
<1> HIDE DEF c
<1>3. /\ call'[p].pc = "loop" /\ call'[p].len = n /\ call'[p].left = n
      /\ call'[p].msec = t /\ call'[p].tv = t /\ call'[p].waited = 0
      /\ call'[p].from = taken /\ call'[p].buf = <<>> /\ call'[p].ret = "SUCCESS"
      /\ \A q \in Procs : q # p => call'[q] = call[q]
      /\ call' \in [Procs -> Calls]
  BY <1>0, <1>1, <1>2
<1>4. message' \in Lens \cup {Mixed}
      /\ (message' # Mixed => /\ message' = n /\ message \in {Unset, n} /\ n <= MaxInt
                             /\ call[p].ret = "SUCCESS")
  BY DEF Begin
<1>5. Typed'
  <2>1. \A q \in Procs : call'[q].left <= call'[q].len /\ call'[q].ret \in Codes(q)
    BY <1>0, <1>3 DEF IInv, Typed, Codes
  <2>2. calls' \in Nat BY DEF IInv, Typed
  <2>4. nonblock' \in BOOLEAN
    <3>1. nonblock \in BOOLEAN BY Zenon DEF IInv, Typed
    <3> QED BY <3>1, Zenon
  <2>3. message' \in Lens \cup {Unset, Mixed} BY <1>4
  <2> QED BY <1>0, <1>3, <2>1, <2>2, <2>3, <2>4, Zenon DEF IInv, Typed, Buffered
<1>6. TimeSound' /\ DoneSound'
  <2>1. /\ call'[p].tv + call'[p].waited = call'[p].msec
        /\ call'[p].msec >= 0 => call'[p].tv >= 0
        /\ call'[p].pc # "idle"
    BY <1>0, <1>3
  <2>2. ASSUME NEW q \in Procs, q # p
        PROVE  LET d == call'[q] IN
               /\ d.tv + d.waited = d.msec /\ (d.msec >= 0 => d.tv >= 0)
               /\ (d.pc = "idle" /\ d.ret = "ETIMEDOUT" /\
                      d.len <= MaxInt => TimedOut(d, ends'))
               /\ (d.pc = "idle" /\ d.ret = "SUCCESS" /\ d.len <= MaxInt => d.left = 0)
    <3>1. call'[q] = call[q] BY <1>3, <2>2
    <3> QED BY <3>1, Zenon DEF IInv, TimeSound, DoneSound
  <2>3. TimeSound' BY <2>1, <2>2, Zenon DEF TimeSound
  <2>4. DoneSound' BY <2>1, <2>2, Zenon DEF DoneSound
  <2> QED BY <2>3, <2>4
<1>7. ModeSound'
  BY <1>0, <1>3 DEF IInv, ModeSound, At, Procs
<1>8. CASE p = "writer"
  <2>1. Sent' = 0 BY <1>0, <1>3, <1>8 DEF Sent
  <2>2. call'["reader"] = call["reader"] BY <1>3, <1>8 DEF Procs
  <2>3. StreamSound' BY <1>0, <1>3, <1>8, <2>1, <2>2 DEF IInv, StreamSound
  <2>4. FrameSound'
    <3> SUFFICES ASSUME message' # Mixed PROVE FrameSound'
      BY <1>4 DEF FrameSound, Mixed, Unset
    <3>1. /\ message' = n /\ message' \in Lens /\ message' # Unset /\ call[p].ret = "SUCCESS"
          /\ message' <= MaxInt
      BY <1>0, <1>4 DEF Unset
    <3>2. CASE message = Unset
      <4>1. /\ wire = <<>> /\ Len(wire) = 0 /\ taken = 0 /\ call["reader"].len = 0
            /\ call["reader"].pc = "idle" /\ call["reader"].from = 0
        <5>1. call["reader"] \in Calls /\ call["reader"].left <= call["reader"].len
          BY <1>0 DEF IInv, Typed, Procs
        <5>2. wire = <<>> /\ call["reader"].len = 0 /\ call["reader"].pc = "idle"
          BY <3>2 DEF IInv, FrameSound, Procs
        <5>3. taken = call["reader"].from + (call["reader"].len - call["reader"].left)
          BY DEF IInv, StreamSound
        <5>4. Len(wire) = 0 BY <5>2, EmptySeq
        <5>5. call["reader"].left = 0 BY <5>1, <5>2 DEF Calls
        <5>6. taken = 0
          <6>1. taken \in 0 .. 0 BY <1>0, <5>4
          <6> QED BY <6>1
        <5>7. call["reader"].from = 0
          <6>1. call["reader"].from \in Nat BY Fields DEF Procs
          <6> QED BY <5>2, <5>3, <5>5, <5>6, <6>1
        <5> QED BY <5>2, <5>4, <5>6, <5>7
      <4> QED BY <1>0, <1>3, <1>8, <2>1, <2>2, <3>1, <4>1 DEF FrameSound, Boundary, Procs
    <3>3. CASE message = n
      <4>1. Boundary(Len(wire), n) BY <1>0, <1>8, <3>1, <3>3, EndsAtBoundary
      <4>2. message \in Lens /\ message' = message /\ wire' = wire /\ taken' = taken
        BY <3>1, <3>3
      <4>3. ASSUME NEW q \in Procs
            PROVE  call'[q].len = n \/ (call'[q].len = 0 /\ call'[q].pc = "idle")
        <5>1. call[q].len = n \/ (call[q].len = 0 /\ call[q].pc = "idle")
          BY <3>3, <4>2 DEF IInv, FrameSound
        <5> QED BY <1>3, <5>1
      <4>4. /\ call'["writer"].len # n => wire = <<>>
            /\ call'["reader"].len # n => taken = 0
        <5>1. /\ call["writer"].len # n => wire = <<>>
              /\ call["reader"].len # n => taken = 0
          BY <3>3, <4>2 DEF IInv, FrameSound
        <5> QED BY <1>3, <1>8, <2>2, <5>1
      <4>5. Boundary(Len(wire') - Sent', n) /\ Boundary(call'["reader"].from, n)
        BY <1>0, <1>3, <1>8, <2>1, <2>2, <3>3, <4>1, <4>2 DEF IInv, FrameSound, Boundary, Procs
      <4> QED BY <3>1, <3>3, <4>2, <4>3, <4>4, <4>5, Zenon
              DEF IInv, FrameSound, Boundary
    <3> QED BY <1>4, <3>2, <3>3
  <2> QED BY <1>5, <1>6, <1>7, <2>3, <2>4 DEF IInv
<1>9. CASE p = "reader"
  <2>1. call'["writer"] = call["writer"] BY <1>3, <1>9 DEF Procs
  <2>2. Sent' = Sent /\ calls' = calls BY <1>9, <2>1 DEF Sent
  <2>3. SubSeq(wire, taken + 1, taken) = <<>> BY <1>0, SubSeqEmpty
  <2>4. StreamSound'
    <3> DEFINE r == call'["reader"]
    <3>1. r.from = taken /\ r.len = n /\ r.left = n /\ r.buf = <<>> BY <1>3, <1>9
    <3> HIDE DEF r
    <3>2. taken' = r.from + (r.len - r.left) BY <1>0, <3>1
    <3>3. r.buf = SubSeq(wire', r.from + 1, taken') BY <2>3, <3>1, Zenon
    <3> USE DEF r
    <3> QED BY <2>1, <2>2, <3>2, <3>3 DEF IInv, StreamSound
  <2>5. FrameSound'
    <3> SUFFICES ASSUME message' # Mixed PROVE FrameSound'
      BY <1>4 DEF FrameSound, Mixed, Unset
    <3>1. /\ message' = n /\ message' \in Lens /\ message' # Unset /\ call[p].ret = "SUCCESS"
          /\ message' <= MaxInt
      BY <1>0, <1>4 DEF Unset
    <3>2. CASE message = Unset
      <4>1. /\ wire = <<>> /\ Len(wire) = 0 /\ taken = 0 /\ call["writer"].len = 0
            /\ call["writer"].pc = "idle" /\ Sent = 0
        <5>1. wire = <<>> /\ call["writer"].len = 0 /\ call["writer"].pc = "idle"
          BY <3>2 DEF IInv, FrameSound, Procs
        <5>2. Len(wire) = 0 BY <5>1, EmptySeq
        <5>3. taken = 0
          <6>1. taken \in 0 .. 0 BY <1>0, <5>2
          <6> QED BY <6>1
        <5>4. Sent = 0
          <6>1. call["writer"].left \in Nat /\ call["writer"].left <= call["writer"].len
            BY Fields DEF Procs
          <6> QED BY <5>1, <6>1 DEF Sent
        <5> QED BY <5>1, <5>2, <5>3, <5>4
      <4> QED BY <1>0, <1>3, <1>9, <2>1, <2>2, <3>1, <4>1 DEF FrameSound, Boundary, Procs
    <3>3. CASE message = n
      <4>1. Boundary(taken, n) BY <1>0, <1>9, <3>1, <3>3, EndsAtBoundary
      <4>2. message \in Lens /\ message' = message /\ wire' = wire /\ taken' = taken
        BY <3>1, <3>3
      <4>3. ASSUME NEW q \in Procs
            PROVE  call'[q].len = n \/ (call'[q].len = 0 /\ call'[q].pc = "idle")
        <5>1. call[q].len = n \/ (call[q].len = 0 /\ call[q].pc = "idle")
          BY <3>3, <4>2 DEF IInv, FrameSound
        <5> QED BY <1>3, <5>1
      <4>4. /\ call'["writer"].len # n => wire = <<>>
            /\ call'["reader"].len # n => taken = 0
        <5>1. /\ call["writer"].len # n => wire = <<>>
              /\ call["reader"].len # n => taken = 0
          BY <3>3, <4>2 DEF IInv, FrameSound
        <5> QED BY <1>3, <1>9, <2>1, <5>1
      <4>5. Boundary(Len(wire') - Sent', n) /\ Boundary(call'["reader"].from, n)
        BY <1>0, <1>3, <1>9, <2>1, <2>2, <3>3, <4>1, <4>2 DEF IInv, FrameSound, Boundary, Procs
      <4> QED BY <3>1, <3>3, <4>2, <4>3, <4>4, <4>5, Zenon
              DEF IInv, FrameSound, Boundary
    <3> QED BY <1>4, <3>2, <3>3
  <2> QED BY <1>5, <1>6, <1>7, <2>4, <2>5 DEF IInv
<1> QED BY <1>8, <1>9 DEF Procs

\* write moves k bytes.
LEMMA StepWrite == ASSUME IInv, NEW k \in Nat, WriteSome(k) PROVE IInv'
<1> DEFINE w == call["writer"]
           r == call["reader"]
           L == Len(wire)
           m == Sent
           c == [w EXCEPT !.pc = "loop", !.left = @ - k]
           e == [i \in 1 .. k |-> <<calls, m + i>>]
<1>1. /\ call \in [Procs -> Calls] /\ w \in Calls /\ r \in Calls
      /\ wire \in Seq(Nat \X Nat) /\ L \in Nat /\ taken \in 0 .. L /\ calls \in Nat
      /\ Capacity \in Nat
  BY LenProperties, BoundAssumption DEF IInv, Typed, Procs
<1>2. w.pc = "transfer" BY DEF WriteSome, At
<1>3. w.len \in Nat /\ w.left \in Nat /\ w.left <= w.len
  BY <1>1 DEF IInv, Typed, Calls, Procs
<1>4. k \in 1 .. w.left /\ k <= Capacity - (L - taken)
  <2>1. k \in 1 .. MinOf(w.left, Capacity - (L - taken)) BY DEF WriteSome, Buffered
  <2>2. Capacity - (L - taken) \in Int BY <1>1
  <2> QED BY <1>3, <2>1, <2>2 DEF MinOf
<1>5. m = w.len - w.left BY DEF Sent
<1>6. m \in 0 .. L
  <2>1. m <= L BY DEF IInv, StreamSound
  <2> QED BY <1>1, <1>3, <1>5, <2>1
<1>7. m + k <= w.len BY <1>3, <1>4, <1>5
<1>8. call' = [call EXCEPT !["writer"] = c]
  <2>1. Moved("writer", k) = [w EXCEPT !.pc = "loop", !.left = @ - k, !.tv = w.tv]
    BY Zenon DEF Moved, TimeoutLeft
  <2>2. [w EXCEPT !.pc = "loop", !.left = @ - k, !.tv = w.tv] = c BY <1>1 DEF Calls
  <2> QED BY <2>1, <2>2, Zenon DEF WriteSome
<1>9. wire' = wire \o e
  BY <1>5, Zenon DEF WriteSome, Position
<1>10. UNCHANGED <<taken, ends, nonblock, calls, signals, blocking, message>>
  BY DEF WriteSome, rigid
<1>11. c \in Calls /\ c.len = w.len /\ c.left = w.left - k /\ c.pc = "loop"
       /\ c.tv = w.tv /\ c.msec = w.msec /\ c.waited = w.waited /\ c.ret = w.ret
       /\ c.buf = w.buf
  <2>1. w.left - k \in Nat BY <1>3, <1>4
  <2> QED BY <1>1, <2>1 DEF Calls
<1> HIDE DEF c
<1>12. /\ call' \in [Procs -> Calls] /\ call'["reader"] = r /\ call'["writer"] = c
  BY <1>1, <1>8, <1>11 DEF Procs
<1>13. /\ wire' \in Seq(Nat \X Nat) /\ Len(wire') = L + k
       /\ \A j \in 1 .. L : wire'[j] = wire[j]
       /\ \A i \in 1 .. k : wire'[L + i] = <<calls, m + i>>
  <2>1. e \in [1 .. k -> Nat \X Nat]
    <3>1. \A i \in 1 .. k : m + i \in Nat BY <1>1, <1>6
    <3> QED BY <1>1, <3>1
  <2>2. \A i \in 1 .. k : e[i] = <<calls, m + i>> OBVIOUS
  <2> HIDE DEF e
  <2>3. /\ wire \o e \in Seq(Nat \X Nat) /\ Len(wire \o e) = L + k
        /\ \A j \in 1 .. L : (wire \o e)[j] = wire[j]
        /\ \A i \in 1 .. k : (wire \o e)[L + i] = e[i]
    BY <1>1, <2>1, Extended
  <2> QED BY <1>9, <2>2, <2>3
<1> HIDE DEF e
<1>14. Sent' = m + k
  <2>1. Sent' = c.len - c.left BY <1>12 DEF Sent
  <2> QED BY <1>3, <1>4, <1>5, <1>11, <2>1
<1>15. Typed'
  <2>1. taken' \in 0 .. Len(wire') /\ Buffered' <= Capacity
    <3>1. /\ taken' = taken /\ taken \in 0 .. L /\ Len(wire') = L + k
          /\ L \in Nat /\ k \in Nat
      BY <1>1, <1>4, <1>10, <1>13
    <3>2. k <= Capacity - Buffered /\ Buffered = L - taken BY <1>4 DEF Buffered
    <3> HIDE DEF L
    <3>3. taken' \in 0 .. Len(wire') BY <3>1
    <3>4. Buffered' = (L - taken) + k BY <3>1 DEF Buffered
    <3> QED BY <3>1, <3>2, <3>3, <3>4, BoundAssumption
  <2>2. c.left <= c.len BY <1>3, <1>4, <1>11
  <2>3. \A p \in Procs : call'[p].left <= call'[p].len /\ call'[p].ret \in Codes(p)
    BY <1>11, <1>12, <2>2 DEF IInv, Typed, Procs
  <2> QED BY <1>10, <1>12, <1>13, <2>1, <2>3, Zenon DEF IInv, Typed
<1>16. TimeSound' /\ DoneSound'
  <2>1. ends' = ends BY <1>10
  <2> QED BY <1>11, <1>12, <2>1 DEF IInv, TimeSound, DoneSound, Procs
<1>17. ModeSound'
  BY <1>2, <1>10, <1>11, <1>12 DEF IInv, ModeSound, At
<1>18. \A i \in 1 .. m + k : wire'[L - m + i] = <<calls, i>>
  <2>1. Ending(wire, L, m, calls) BY DEF IInv, StreamSound, Ending
  <2>2. /\ \A j \in 1 .. L : wire'[j] = wire[j]
        /\ \A i \in 1 .. k : wire'[L + i] = <<calls, m + i>>
    BY <1>13
  <2>3. L \in Nat BY <1>1
  <2>4. Ending(wire', L + k, m + k, calls)
    <3> HIDE DEF m, L
    <3> QED BY <1>6, <2>1, <2>2, <2>3, TailGrows
  <2>5. (L + k) - (m + k) = L - m BY <1>1, <1>6
  <2> QED BY <2>4, <2>5 DEF Ending
<1>19. (L + k) - (m + k) = L - m /\ m + k <= L + k BY <1>1, <1>6
<1>20. r.from \in Nat /\ r.from <= taken
  <2>1. r.from \in Nat /\ r.len \in Nat /\ r.left \in Nat BY <1>1 DEF Calls
  <2>2. r.left <= r.len BY DEF IInv, Typed, Procs
  <2>3. taken = r.from + (r.len - r.left) BY DEF IInv, StreamSound
  <2> QED BY <2>1, <2>2, <2>3
<1>21. StreamSound'
  <2>1. SubSeq(wire', r.from + 1, taken) = SubSeq(wire, r.from + 1, taken)
    <3>1. taken \in r.from .. Len(wire) /\ Len(wire) <= Len(wire') BY <1>1, <1>13, <1>20
    <3>2. /\ wire \in Seq(Nat \X Nat) /\ wire' \in Seq(Nat \X Nat) /\ r.from \in Nat
          /\ \A j \in 1 .. Len(wire) : wire'[j] = wire[j]
      BY <1>1, <1>13, <1>20
    <3> HIDE DEF r
    <3> QED BY <3>1, <3>2, PartStays
  <2>2. taken = r.from + (r.len - r.left) /\ r.buf = SubSeq(wire, r.from + 1, taken)
    BY DEF IInv, StreamSound
  <2>3. Sent' <= Len(wire') BY <1>13, <1>14, <1>19
  <2>4. Len(wire') - Sent' = L - m BY <1>13, <1>14, <1>19
  <2>5. \A i \in 1 .. Sent' : wire'[Len(wire') - Sent' + i] = <<calls', i>>
    BY <1>10, <1>14, <1>18, <2>4
  <2>6. c.buf = <<>> BY <1>11 DEF IInv, StreamSound
  <2> HIDE DEF r
  <2> QED BY <1>10, <1>12, <2>1, <2>2, <2>3, <2>5, <2>6, Zenon DEF StreamSound
<1>22. FrameSound'
  <2>1. message # Unset BY <1>2 DEF IInv, FrameSound, Procs
  <2> SUFFICES ASSUME message \in Lens PROVE FrameSound'
    BY <1>10, <2>1 DEF FrameSound
  <2> DEFINE n == message
             b == L - m
             f == [j \in 1 .. L |-> wire[j][2]]
             g == [j \in 1 .. L + k |-> wire'[j][2]]
  <2>2. n \in Nat /\ b \in 0 .. L BY <1>1, <1>6, LensAssumption
  <2>3. w.len = n BY <1>2 DEF IInv, FrameSound, Procs
  <2>4. Whole(f, L, n) /\ (b = 0 \/ f[b] = n)
    <3>1. /\ \A j \in 1 .. L : wire[j][2] \in 1 .. n
          /\ \A j \in 1 .. L, d \in Nat :
                j + d <= L /\ wire[j][2] + d <= n => wire[j + d][2] = wire[j][2] + d
          /\ \A j \in 0 .. L - 1 : (j = 0 \/ wire[j][2] = n) => wire[j + 1][2] = 1
          /\ b = 0 \/ wire[b][2] = n
      BY DEF IInv, FrameSound, Boundary
    <3>2. \A j \in 1 .. L : f[j] = wire[j][2] OBVIOUS
    <3> HIDE DEF f, n, L, m, b
    <3>3. \A j \in 1 .. L, d \in Nat : j + d <= L => j + d \in 1 .. L BY <1>1
    <3>4. \A j \in 0 .. L - 1 : j + 1 \in 1 .. L /\ (j = 0 \/ j \in 1 .. L) BY <1>1
    <3>5. b = 0 \/ b \in 1 .. L BY <1>1, <2>2
    <3> QED BY <3>1, <3>2, <3>3, <3>4, <3>5 DEF Whole
  <2>5. \A j \in 1 .. L + k : g[j] = wire'[j][2] OBVIOUS
  <2>6. \A x \in b + 1 .. L + k : g[x] = x - b
    <3> SUFFICES ASSUME NEW x \in b + 1 .. L + k PROVE g[x] = x - b
      OBVIOUS
    <3> DEFINE i == x - b
    <3>1. i \in 1 .. m + k /\ L - m + i = x /\ x \in 1 .. L + k BY <1>1, <1>6, <2>2
    <3> HIDE DEF i, m, L, b, g
    <3>2. wire'[L - m + i] = <<calls, i>> BY <1>18, <3>1
    <3> QED BY <2>5, <3>1, <3>2 DEF i
  <2>7. \A x \in 1 .. b : g[x] = f[x]
    <3>1. \A x \in 1 .. b : x \in 1 .. L /\ x \in 1 .. L + k BY <1>1, <2>2
    <3> QED BY <1>13, <3>1
  <2>8. L + k \in Nat /\ L <= L + k /\ (L + k) - b <= n BY <1>1, <1>6, <1>7, <2>3
  <2> HIDE DEF f, g, b
  <2>9. Whole(g, L + k, n)
    <3> HIDE DEF L, n
    <3> QED BY <1>1, <2>2, <2>4, <2>6, <2>7, <2>8, WholeGrows
  <2>10. /\ \A j \in 1 .. L + k : wire'[j][2] \in 1 .. n
         /\ \A j \in 1 .. L + k, d \in Nat :
               j + d <= L + k /\ wire'[j][2] + d <= n => wire'[j + d][2] = wire'[j][2] + d
         /\ \A j \in 0 .. (L + k) - 1 : (j = 0 \/ wire'[j][2] = n) => wire'[j + 1][2] = 1
    <3> HIDE DEF n, L
    <3>1. \A j \in 1 .. L + k, d \in Nat : j + d <= L + k => j + d \in 1 .. L + k BY <1>1
    <3>2. \A j \in 0 .. (L + k) - 1 : j + 1 \in 1 .. L + k /\ (j = 0 \/ j \in 1 .. L + k)
      BY <1>1
    <3>3. \A j \in 1 .. L + k : wire'[j][2] \in 1 .. n BY <2>5, <2>9 DEF Whole
    <3>4. \A j \in 1 .. L + k, d \in Nat :
             j + d <= L + k /\ wire'[j][2] + d <= n => wire'[j + d][2] = wire'[j][2] + d
      <4> SUFFICES ASSUME NEW j \in 1 .. L + k, NEW d \in Nat, j + d <= L + k,
                          wire'[j][2] + d <= n
                   PROVE  wire'[j + d][2] = wire'[j][2] + d
        OBVIOUS
      <4>1. g[j] = wire'[j][2] /\ g[j + d] = wire'[j + d][2] BY <2>5, <3>1
      <4>2. g[j] + d <= n BY <4>1
      <4>3. g[j + d] = g[j] + d BY <2>9, <4>2 DEF Whole
      <4> QED BY <4>1, <4>3
    <3>5. \A j \in 0 .. (L + k) - 1 : (j = 0 \/ wire'[j][2] = n) => wire'[j + 1][2] = 1
      <4> SUFFICES ASSUME NEW j \in 0 .. (L + k) - 1, j = 0 \/ wire'[j][2] = n
                   PROVE  wire'[j + 1][2] = 1
        OBVIOUS
      <4>1. j = 0 \/ g[j] = n BY <2>5, <3>2
      <4>2. g[j + 1] = 1 BY <2>9, <4>1 DEF Whole
      <4> QED BY <2>5, <3>2, <4>2
    <3> QED BY <3>3, <3>4, <3>5
  <2>11. \A j \in 0 .. L : Boundary(j, n) => j = 0 \/ wire'[j][2] = n
    <3>1. \A j \in 0 .. L : j = 0 \/ j \in 1 .. L BY <1>1
    <3> QED BY <1>13, <3>1 DEF Boundary
  <2>12. b = 0 \/ wire'[b][2] = n
    <3>1. Boundary(b, n) BY DEF IInv, FrameSound, b
    <3> QED BY <2>2, <2>11, <3>1
  <2>13. r.from = 0 \/ wire'[r.from][2] = n
    <3>1. Boundary(r.from, n) BY DEF IInv, FrameSound
    <3>2. r.from \in 0 .. L BY <1>1, <1>20
    <3> QED BY <2>11, <3>1, <3>2
  <2>14. \A p \in Procs : call'[p].len = n \/ (call'[p].len = 0 /\ call'[p].pc = "idle")
    <3>1. r.len = n \/ (r.len = 0 /\ r.pc = "idle") BY DEF IInv, FrameSound, Procs
    <3> QED BY <1>11, <1>12, <2>3, <3>1 DEF Procs
  <2>15. r.len # n => taken = 0 BY DEF IInv, FrameSound
  <2>16. Len(wire') - Sent' = b BY <1>13, <1>14, <1>19 DEF b
  <2>17. c.len = n BY <1>11, <2>3
  <2>18. message' = n /\ taken' = taken BY <1>10
  <2>19. Len(wire') = L + k BY <1>13
  <2>20. Boundary(Len(wire) - Sent, message)' /\ Boundary(call["reader"].from, message)'
    <3> HIDE DEF n
    <3>1. Boundary(Len(wire) - Sent, message)' BY <2>12, <2>16, <2>18, Zenon DEF Boundary
    <3>2. Boundary(call["reader"].from, message)'
      BY <1>12, <2>13, <2>18, Zenon DEF Boundary
    <3> QED BY <3>1, <3>2
  <2>21. \A j \in 0 .. Len(wire') - 1 : j = 0 \/ wire'[j][2] = message' => wire'[j + 1][2] = 1
    BY <2>10, <2>18, <2>19
  <2> HIDE DEF r, L, m, w, n
  <2>22. /\ \A j \in 1 .. Len(wire') : wire'[j][2] \in 1 .. message'
         /\ \A j \in 1 .. Len(wire'), d \in Nat :
               j + d <= Len(wire') /\ wire'[j][2] + d <= message' =>
                   wire'[j + d][2] = wire'[j][2] + d
    BY <2>10, <2>18, <2>19
  <2>23. call'["writer"].len = message' /\ (call'["reader"].len # message' => taken' = 0)
    BY <1>12, <2>15, <2>17, <2>18
  <2>24. /\ \A p \in Procs : call'[p].len = message' \/ (call'[p].len = 0 /\ call'[p].pc = "idle")
         /\ message' # Unset /\ message' <= MaxInt
    <3>1. message <= MaxInt BY DEF IInv, FrameSound
    <3> QED BY <2>1, <2>14, <2>18, <3>1 DEF n
  <2> HIDE DEF r, L, m, w, n
  <2> QED BY ONLY <2>20, <2>21, <2>22, <2>23, <2>24, Zenon DEF FrameSound, Boundary
<1> QED BY <1>15, <1>16, <1>17, <1>21, <1>22 DEF IInv

\* read moves k bytes.
LEMMA StepRead == ASSUME IInv, NEW k \in Nat, ReadSome(k) PROVE IInv'
<1> DEFINE r == call["reader"]
           L == Len(wire)
           m == r.len - r.left
           new == SubSeq(r.buf, 1, m) \o SubSeq(wire, taken + 1, taken + k)
           c == [r EXCEPT !.pc = "loop", !.left = @ - k, !.buf = new]
<1>1. /\ call \in [Procs -> Calls] /\ r \in Calls /\ wire \in Seq(Nat \X Nat) /\ L \in Nat
      /\ taken \in 0 .. L /\ Capacity \in Nat
  BY LenProperties, BoundAssumption DEF IInv, Typed, Procs
<1>2. r.pc = "transfer" BY DEF ReadSome, At
<1>3. r.len \in Nat /\ r.left \in Nat /\ r.left <= r.len /\ r.from \in Nat
  BY <1>1 DEF IInv, Typed, Calls, Procs
<1>4. k \in 1 .. r.left /\ taken + k <= L
  <2>1. k \in 1 .. MinOf(r.left, L - taken) BY DEF ReadSome, Buffered
  <2>2. taken \in Nat /\ L - taken \in Int BY <1>1
  <2>3. r.left \in Nat BY <1>3
  <2> HIDE DEF r, L
  <2>4. k <= r.left /\ k <= L - taken /\ k >= 1 BY <2>1, <2>2, <2>3 DEF MinOf
  <2> QED BY <1>1, <2>2, <2>3, <2>4
<1>5. taken = r.from + m /\ r.buf = SubSeq(wire, r.from + 1, taken)
  BY DEF IInv, StreamSound
<1>6. /\ m \in Nat /\ r.from \in Nat /\ taken \in Nat /\ L \in Nat /\ r.from <= taken
      /\ taken <= L /\ m = taken - r.from
  <2>1. m \in Nat BY <1>3
  <2>2. taken \in Nat /\ L \in Nat /\ taken <= L BY <1>1
  <2>3. r.from \in Nat /\ taken = r.from + m BY <1>3, <1>5
  <2> HIDE DEF m, r, L
  <2>4. r.from <= taken /\ m = taken - r.from BY <2>1, <2>2, <2>3
  <2> QED BY <2>1, <2>2, <2>3, <2>4
<1>7. new = SubSeq(wire, r.from + 1, taken + k)
  <2>1. taken \in r.from .. L BY <1>6
  <2>2. r.buf \in Seq(Nat \X Nat) /\ Len(r.buf) = taken - r.from
    <3>1. SubSeq(wire, r.from + 1, taken) \in Seq(Nat \X Nat)
          /\ Len(SubSeq(wire, r.from + 1, taken)) = taken - r.from
      <4>1. wire \in Seq(Nat \X Nat) /\ r.from \in Nat /\ taken \in r.from .. Len(wire)
        BY <1>1, <1>6, <2>1
      <4> HIDE DEF r
      <4> QED BY <4>1, Between
    <3> HIDE DEF r
    <3> QED BY <1>5, <3>1, Zenon
  <2>3. SubSeq(r.buf, 1, m) = r.buf
    <3>1. Len(r.buf) = m BY <1>6, <2>2, Zenon
    <3> QED BY <2>2, <3>1, SubSeqFull
  <2>4. SubSeq(wire, r.from + 1, taken) \o SubSeq(wire, taken + 1, taken + k)
        = SubSeq(wire, r.from + 1, taken + k)
    <3> DEFINE a == r.from + 1
               b == taken
               d == taken + k
    <3>1. a \in 1 .. Len(wire) + 1 /\ b \in a - 1 .. Len(wire) /\ d \in b .. Len(wire)
      <4> HIDE DEF r, m
      <4> QED BY <1>4, <1>6
    <3> HIDE DEF a, b, d
    <3>2. SubSeq(wire, a, b) \o SubSeq(wire, b + 1, d) = SubSeq(wire, a, d)
      BY <1>1, <3>1, ConcatAdjacentSubSeq
    <3> QED BY <3>2 DEF a, b, d
  <2> HIDE DEF r
  <2> QED BY <1>5, <2>3, <2>4, Zenon
<1>8. new \in Seq(Nat \X Nat)
  <2>1. taken + k \in r.from .. L
    <3> HIDE DEF r, m
    <3> QED BY <1>4, <1>6
  <2> HIDE DEF new
  <2> QED BY <1>1, <1>6, <1>7, <2>1, Between
<1>9. call' = [call EXCEPT !["reader"] = c]
  <2>1. call' = [call EXCEPT !["reader"] = [Moved("reader", k) EXCEPT !.buf =
                     SubSeq(@, 1, m) \o SubSeq(wire, taken + 1, taken + k)]]
    BY Zenon DEF ReadSome, Position
  <2>2. Moved("reader", k) = [r EXCEPT !.pc = "loop", !.left = @ - k, !.tv = r.tv]
    BY Zenon DEF Moved, TimeoutLeft
  <2>3. [r EXCEPT !.pc = "loop", !.left = @ - k, !.tv = r.tv]
        = [r EXCEPT !.pc = "loop", !.left = @ - k]
    BY <1>1 DEF Calls
  <2>4. [[r EXCEPT !.pc = "loop", !.left = @ - k] EXCEPT !.buf =
             SubSeq(@, 1, m) \o SubSeq(wire, taken + 1, taken + k)] = c
    BY <1>1 DEF Calls
  <2> QED BY <2>1, <2>2, <2>3, <2>4, Zenon
<1>10. UNCHANGED <<wire, ends, nonblock, calls, signals, blocking, message>> /\ taken' = taken + k
  BY DEF ReadSome, rigid
<1> HIDE DEF new
<1>11. /\ c \in Calls /\ c.len = r.len /\ c.left = r.left - k /\ c.pc = "loop" /\ c.tv = r.tv
       /\ c.msec = r.msec /\ c.waited = r.waited /\ c.ret = r.ret /\ c.from = r.from
       /\ c.buf = new
  <2>1. r.left - k \in Nat BY <1>3, <1>4
  <2> QED BY <1>1, <1>8, <2>1 DEF Calls
<1> HIDE DEF c
<1>12. /\ call' \in [Procs -> Calls] /\ call'["writer"] = call["writer"] /\ call'["reader"] = c
  BY <1>1, <1>9, <1>11 DEF Procs
<1>13. Typed'
  <2>1. taken' \in 0 .. Len(wire') BY <1>1, <1>4, <1>10
  <2>2. Buffered' <= Capacity
    <3>1. L - taken <= Capacity BY DEF IInv, Typed, Buffered
    <3> QED BY <1>1, <1>4, <1>10, <3>1 DEF Buffered
  <2>3. c.left <= c.len BY <1>3, <1>4, <1>11
  <2>4. \A p \in Procs : call'[p].left <= call'[p].len /\ call'[p].ret \in Codes(p)
    BY <1>11, <1>12, <2>3 DEF IInv, Typed, Procs
  <2> QED BY <1>10, <1>12, <2>1, <2>2, <2>4, Zenon DEF IInv, Typed
<1>14. TimeSound' /\ DoneSound'
  <2>1. ends' = ends BY <1>10
  <2> QED BY <1>11, <1>12, <2>1 DEF IInv, TimeSound, DoneSound, Procs
<1>15. ModeSound'
  BY <1>10, <1>12 DEF IInv, ModeSound, At
<1>16. Sent' = Sent BY <1>12 DEF Sent
<1>17. StreamSound'
  <2>1. taken' = c.from + (c.len - c.left)
    <3>1. taken' = taken + k /\ c.from = r.from /\ c.len = r.len /\ c.left = r.left - k
      BY <1>10, <1>11
    <3>2. taken = r.from + (r.len - r.left) BY <1>5
    <3>3. k \in Nat BY <1>4
    <3> HIDE DEF r
    <3> QED BY <1>3, <3>1, <3>2, <3>3
  <2>2. c.buf = SubSeq(wire', c.from + 1, taken') BY <1>7, <1>10, <1>11, Zenon
  <2>3. Sent' <= Len(wire') /\ \A i \in 1 .. Sent' : wire'[Len(wire') - Sent' + i] = <<calls', i>>
    BY <1>10, <1>16 DEF IInv, StreamSound
  <2>4. call["writer"].buf = <<>> BY DEF IInv, StreamSound
  <2> QED BY <1>12, <2>1, <2>2, <2>3, <2>4, Zenon DEF StreamSound
<1>18. FrameSound'
  <2>1. message # Unset BY <1>2 DEF IInv, FrameSound, Procs
  <2> SUFFICES ASSUME message \in Lens PROVE FrameSound'
    BY <1>10, <2>1 DEF FrameSound
  <2>2. r.len = message BY <1>2 DEF IInv, FrameSound, Procs
  <2>3. c.len = message /\ c.from = r.from BY <1>11, <2>2
  <2> HIDE DEF r
  <2> QED BY <1>10, <1>12, <1>16, <2>1, <2>3 DEF IInv, FrameSound, Boundary, Procs, r
<1> QED BY <1>13, <1>14, <1>15, <1>17, <1>18 DEF IInv

\* A number that int holds is what int makes of it.
LEMMA NarrowFits == ASSUME NEW n \in Int, -1 <= n, n <= MaxInt PROVE Narrow(n) = n
BY BoundAssumption DEF Narrow

\* If errno of a call that fails says the time is over, that is so, or the system says it.
MayTimeOut(c, e) == c.errno = "ETIMEDOUT" => \/ c.by = "timer" /\ c.tv = 0
                                             \/ c.by = "system" /\ e = "reset"

\* A call returns; it is done, or has waited all its timeout, or has failed.
LEMMA StepReturn ==
  ASSUME IInv, NEW p \in Procs, call[p].pc # "idle", NEW n \in Int, NEW b \in Calls,
         Return(p, n, b), UNCHANGED <<wire, taken, ends, calls, signals, rigid>>,
         b.len = call[p].len, b.left = call[p].left, b.from = call[p].from,
         b.buf = call[p].buf, b.msec = call[p].msec, b.tv = call[p].tv,
         b.waited = call[p].waited,
         n \in -1 .. b.len, n = b.len => b.left = 0,
         n = -1 => MayTimeOut(b, ends)
  PROVE  IInv'
<1> DEFINE ret == Result(p, b.len, n, b.errno)
           c == [b EXCEPT !.pc = "idle", !.ret = ret]
<1>1. call \in [Procs -> Calls] /\ call[p] \in Calls BY DEF IInv, Typed
<1>2. call' = [call EXCEPT ![p] = c] BY Zenon DEF Return
<1>3. b.len \in Nat BY DEF Calls
<1>4. ret \in Codes(p) BY DEF Result, Codes, Procs
<1>5. b.len <= MaxInt => Narrow(n) = n /\ Narrow(b.len) = b.len
  <2>1. MaxInt \in Nat BY BoundAssumption
  <2> QED BY <1>3, <2>1, NarrowFits
<1>6. ret = "SUCCESS" /\ b.len <= MaxInt => b.left = 0 BY <1>5 DEF Result, Procs
<1>7. ret = "ETIMEDOUT" /\ b.len <= MaxInt => n = -1 /\ b.errno = "ETIMEDOUT"
  BY <1>5 DEF Result, Procs
<1> HIDE DEF ret
<1>8. /\ c.pc = "idle" /\ c.errno = b.errno /\ c.by = b.by /\ c.ret = ret
      /\ c.len = call[p].len
      /\ c.left = call[p].left /\ c.from = call[p].from /\ c.buf = call[p].buf
      /\ c.msec = call[p].msec /\ c.tv = call[p].tv /\ c.waited = call[p].waited
  BY DEF Calls
<1>9. c \in Calls
  <2>1. ret \in Codes("reader") \cup Codes("writer") BY <1>4 DEF Procs
  <2> QED BY <2>1 DEF Calls
<1> HIDE DEF c
<1>10. UNCHANGED <<wire, taken, ends, calls, message, blocking, signals>> BY DEF rigid
<1>11. nonblock' = IF p = "writer" THEN (c.pc = "idle" => ~blocking) ELSE nonblock
  BY <1>8, Zenon DEF Return, Restored
<1>12. c.tv + c.waited = c.msec /\ (c.msec >= 0 => c.tv >= 0)
  BY <1>8 DEF IInv, TimeSound
<1>13. c.ret = "ETIMEDOUT" /\ c.len <= MaxInt => TimedOut(c, ends)
  <2> SUFFICES ASSUME ret = "ETIMEDOUT", b.len <= MaxInt PROVE TimedOut(c, ends)
    BY <1>8
  <2>1. n = -1 /\ b.errno = "ETIMEDOUT" BY <1>7
  <2>0. \/ b.by = "timer" /\ b.tv = 0
        \/ b.by = "system" /\ ends = "reset"
    BY <2>1 DEF MayTimeOut
  <2>2. CASE b.by = "timer" /\ b.tv = 0
    <3>1. c.tv = 0 /\ c.by = "timer" BY <1>8, <2>2
    <3>2. c.waited = c.msec BY <1>9, <1>12, <3>1 DEF Calls
    <3> QED BY <3>1, <3>2 DEF TimedOut
  <2>3. CASE b.by = "system" /\ ends = "reset"
    BY <1>8, <2>1, <2>3 DEF TimedOut
  <2> QED BY <2>0, <2>2, <2>3
<1>14. c.ret = "SUCCESS" /\ c.len <= MaxInt => c.left = 0 BY <1>6, <1>8
<1>15. c.ret \in Codes(p) BY <1>4, <1>8
<1>16. signals' \in 0 .. MaxSignals BY <1>10 DEF IInv, Typed
<1> QED BY <1>2, <1>8, <1>9, <1>10, <1>11, <1>12, <1>13, <1>14, <1>15, <1>16, Bookkeeping

\* The call, when errno has been set.
LEMMA SetsIs ==
  ASSUME IInv, NEW p \in Procs, NEW err \in Errnos, NEW by \in {"timer", "system"}
  PROVE  LET b == Sets(p, err, by) IN
         /\ b \in Calls /\ b.pc = call[p].pc /\ b.len = call[p].len /\ b.left = call[p].left
         /\ b.from = call[p].from /\ b.buf = call[p].buf /\ b.msec = call[p].msec
         /\ b.tv = call[p].tv /\ b.waited = call[p].waited /\ b.ret = call[p].ret
         /\ b.errno = err /\ b.by = by
<1>1. call[p] \in Calls BY DEF IInv, Typed
<1> QED BY <1>1 DEF Sets, Calls

\* A step of select or a signal: only the position in the loop, the time and errno change.
LEMMA StepWaits ==
  ASSUME IInv, NEW p \in Procs, call[p].pc # "idle", NEW c \in Calls,
         call' = [call EXCEPT ![p] = c], c.pc # "idle",
         c.len = call[p].len, c.left = call[p].left, c.from = call[p].from,
         c.buf = call[p].buf, c.msec = call[p].msec, c.ret = call[p].ret,
         c.tv + c.waited = c.msec, c.msec >= 0 => c.tv >= 0,
         signals' \in 0 .. MaxSignals,
         UNCHANGED <<wire, taken, ends, nonblock, calls, rigid>>
  PROVE  IInv'
<1>1. c.ret \in Codes(p) BY DEF IInv, Typed
<1>2. UNCHANGED <<wire, taken, ends, calls, message, blocking>> BY DEF rigid
<1>3. nonblock' = IF p = "writer" THEN (c.pc = "idle" => ~blocking) ELSE nonblock
  <2>1. nonblock' = nonblock OBVIOUS
  <2>2. p = "writer" => nonblock = TRUE BY Zenon DEF IInv, ModeSound, At
  <2> QED BY <2>1, <2>2, Zenon
<1> QED BY <1>1, <1>2, <1>3, Bookkeeping

LEMMA StepIInv == IInv /\ [Next]_vars => IInv'
<1> SUFFICES ASSUME IInv, [Next]_vars PROVE IInv'
  OBVIOUS
<1> USE BoundAssumption
<1>0. call \in [Procs -> Calls] /\ \A p \in Procs : call[p] \in Calls BY DEF IInv, Typed
<1>1. ASSUME NEW n \in Lens, NEW t \in Timeouts \cup {-1}, conn_read(n, t) PROVE IInv'
  BY <1>1, StepBegin DEF conn_read, Procs
<1>2. ASSUME NEW n \in Lens, NEW t \in Timeouts \cup {-1}, conn_write(n, t) PROVE IInv'
  BY <1>2, StepBegin DEF conn_write, Procs
<1>3. ASSUME NEW p \in Procs, LoopEnds(p) PROVE IInv'
  <2>1. /\ call[p].pc # "idle" /\ call[p] \in Calls /\ call[p].left = 0
        /\ call[p].len \in Int /\ call[p].len \in -1 .. call[p].len /\ call[p].len # -1
    BY <1>0, <1>3 DEF LoopEnds, At, Calls
  <2> QED BY <1>3, <2>1, StepReturn DEF LoopEnds
<1>4. ASSUME NEW p \in Procs, SelectReady(p) PROVE IInv'
  <2> DEFINE c == [call[p] EXCEPT !.pc = "transfer"]
  <2>1. call' = [call EXCEPT ![p] = c] BY <1>0, <1>4 DEF SelectReady
  <2>2. c \in Calls /\ c.pc # "idle" /\ c.len = call[p].len /\ c.left = call[p].left
        /\ c.from = call[p].from /\ c.buf = call[p].buf /\ c.msec = call[p].msec
        /\ c.ret = call[p].ret /\ c.tv = call[p].tv /\ c.waited = call[p].waited
    BY <1>0 DEF Calls
  <2> HIDE DEF c
  <2>3. c.tv + c.waited = c.msec /\ (c.msec >= 0 => c.tv >= 0) BY <2>2 DEF IInv, TimeSound
  <2>4. call[p].pc # "idle" BY <1>4 DEF SelectReady, Selects, At
  <2>5. signals' \in 0 .. MaxSignals BY <1>4 DEF SelectReady, IInv, Typed
  <2>6. UNCHANGED <<wire, taken, ends, nonblock, calls, rigid>> BY <1>4 DEF SelectReady
  <2> QED BY <2>1, <2>2, <2>3, <2>4, <2>5, <2>6, StepWaits
<1>5. ASSUME NEW p \in Procs, Wait(p) PROVE IInv'
  <2> DEFINE c == [call[p] EXCEPT !.tv = @ - 1, !.waited = @ + 1]
  <2>1. call' = [call EXCEPT ![p] = c]
    <3>1. call' = [call EXCEPT ![p].tv = @ - 1, ![p].waited = @ + 1] BY <1>5 DEF Wait
    <3> QED BY <1>0, <3>1 DEF Calls
  <2>2. call[p].tv \in Int /\ call[p].waited \in Nat /\ call[p].msec \in Int
        /\ call[p].tv # 0
    BY <1>0, <1>5 DEF Calls, Wait
  <2>3. /\ c \in Calls /\ c.pc = call[p].pc /\ c.len = call[p].len /\ c.left = call[p].left
        /\ c.from = call[p].from /\ c.buf = call[p].buf /\ c.msec = call[p].msec
        /\ c.ret = call[p].ret /\ c.tv = call[p].tv - 1 /\ c.waited = call[p].waited + 1
    <3>1. call[p].tv - 1 \in Int /\ call[p].waited + 1 \in Nat BY <2>2
    <3>2. call[p] \in Calls BY <1>0
    <3> QED BY <3>1, <3>2 DEF Calls
  <2> HIDE DEF c
  <2>4. c.tv + c.waited = c.msec /\ (c.msec >= 0 => c.tv >= 0)
    BY <2>2, <2>3 DEF IInv, TimeSound
  <2>5. call[p].pc # "idle" BY <1>5 DEF Wait, Selects, At
  <2>6. signals' \in 0 .. MaxSignals BY <1>5 DEF Wait, IInv, Typed
  <2>7. UNCHANGED <<wire, taken, ends, nonblock, calls, rigid>> BY <1>5 DEF Wait
  <2> QED BY <2>1, <2>3, <2>4, <2>5, <2>6, <2>7, StepWaits
<1>6. ASSUME NEW p \in Procs, SelectTimesOut(p) PROVE IInv'
  <2> DEFINE err == "ETIMEDOUT"
  <2> DEFINE b == Sets(p, err, "timer")
  <2>1. err \in Errnos BY DEF Errnos
  <2>2. Return(p, -1, b) BY <1>6 DEF SelectTimesOut
  <2> HIDE DEF err
  <2>3. call[p].pc # "idle" /\ call[p].len \in Nat /\ call[p].tv = 0
    BY <1>0, <1>6 DEF SelectTimesOut, Selects, At, Calls
  <2>4. UNCHANGED <<wire, taken, ends, calls, signals, rigid>> BY <1>6 DEF SelectTimesOut
  <2>5. /\ b \in Calls /\ b.len = call[p].len /\ b.left = call[p].left
        /\ b.from = call[p].from /\ b.buf = call[p].buf /\ b.msec = call[p].msec
        /\ b.tv = call[p].tv /\ b.waited = call[p].waited /\ b.by = "timer"
    BY <2>1, SetsIs
  <2> HIDE DEF b
  <2>6. -1 \in -1 .. b.len /\ -1 # b.len /\ MayTimeOut(b, ends) BY <2>3, <2>5 DEF MayTimeOut
  <2> QED BY <2>2, <2>3, <2>4, <2>5, <2>6, StepReturn
<1>7. ASSUME NEW p \in Procs, SelectFails(p) PROVE IInv'
  <2> DEFINE err == IF p = "reader" THEN "EIO" ELSE "ENOMEM"
  <2>1. err \in Errnos /\ err # "none" /\ err # "ETIMEDOUT" BY DEF Errnos
  <2> DEFINE b == Sets(p, err, "system")
  <2>2. Return(p, -1, b) BY <1>7 DEF SelectFails
  <2> HIDE DEF err
  <2>3. call[p].pc # "idle" /\ call[p].len \in Nat
    BY <1>0, <1>7 DEF SelectFails, Selects, At, Calls
  <2>4. UNCHANGED <<wire, taken, ends, calls, signals, rigid>> BY <1>7 DEF SelectFails
  <2>5. /\ b \in Calls /\ b.len = call[p].len /\ b.left = call[p].left
        /\ b.from = call[p].from /\ b.buf = call[p].buf /\ b.msec = call[p].msec
        /\ b.tv = call[p].tv /\ b.waited = call[p].waited /\ b.errno = err
    BY <2>1, SetsIs
  <2> HIDE DEF b
  <2>6. -1 \in -1 .. b.len /\ -1 # b.len /\ MayTimeOut(b, ends)
    BY <2>1, <2>3, <2>5 DEF MayTimeOut
  <2> QED BY <2>1, <2>2, <2>3, <2>4, <2>5, <2>6, StepReturn
<1>8. ASSUME NEW p \in Procs, Interrupted(p) PROVE IInv'
  <2> DEFINE b == Sets(p, "EINTR", "system")
             c == [b EXCEPT !.pc = "loop", !.tv = TimeoutLeft(call[p])]
  <2>1. call' = [call EXCEPT ![p] = c] BY <1>8, Zenon DEF Interrupted
  <2>0. /\ b \in Calls /\ b.len = call[p].len /\ b.left = call[p].left
        /\ b.from = call[p].from /\ b.buf = call[p].buf /\ b.msec = call[p].msec
        /\ b.waited = call[p].waited /\ b.ret = call[p].ret
    BY SetsIs DEF Errnos
  <2> HIDE DEF b
  <2>2. /\ c \in Calls /\ c.pc # "idle" /\ c.len = call[p].len /\ c.left = call[p].left
        /\ c.from = call[p].from /\ c.buf = call[p].buf /\ c.msec = call[p].msec
        /\ c.ret = call[p].ret /\ c.tv = call[p].tv /\ c.waited = call[p].waited
    BY <1>0, <2>0 DEF Calls, TimeoutLeft
  <2> HIDE DEF c
  <2>3. c.tv + c.waited = c.msec /\ (c.msec >= 0 => c.tv >= 0) BY <2>2 DEF IInv, TimeSound
  <2>4. call[p].pc # "idle" BY <1>8 DEF Interrupted, Selects, At
  <2>5. signals' \in 0 .. MaxSignals BY <1>8 DEF Interrupted, IInv, Typed
  <2>6. UNCHANGED <<wire, taken, ends, nonblock, calls, rigid>> BY <1>8 DEF Interrupted
  <2> QED BY <2>1, <2>2, <2>3, <2>4, <2>5, <2>6, StepWaits
<1>9. ASSUME ReadEnds PROVE IInv'
  <2> DEFINE n == Position(call["reader"])
  <2>1. call["reader"].pc # "idle" /\ call["reader"] \in Calls /\ "reader" \in Procs
    BY <1>0, <1>9 DEF ReadEnds, At, Procs
  <2>2. /\ n \in Int /\ n # -1 /\ n \in -1 .. call["reader"].len
        /\ (n = call["reader"].len => call["reader"].left = 0)
    <3>1. call["reader"].len \in Nat /\ call["reader"].left \in Nat
      BY <1>0, <2>1 DEF Calls
    <3>2. call["reader"].left <= call["reader"].len BY <2>1 DEF IInv, Typed
    <3> QED BY <3>1, <3>2 DEF Position
  <2>3. Return("reader", n, call["reader"]) /\ UNCHANGED <<wire, taken, ends, calls, signals, rigid>>
    BY <1>9 DEF ReadEnds
  <2> HIDE DEF n
  <2> QED BY <2>1, <2>2, <2>3, StepReturn
<1>10. ASSUME NEW p \in Procs, TransferFails(p) PROVE IInv'
  <2>1. call[p].pc # "idle" /\ call[p].len \in Nat /\ ends = "reset"
    BY <1>0, <1>10 DEF TransferFails, At, Calls
  <2>2. PICK err \in {"ECONNRESET", "ETIMEDOUT"} : Return(p, -1, Sets(p, err, "system"))
    BY <1>10 DEF TransferFails
  <2>3. UNCHANGED <<wire, taken, ends, calls, signals, rigid>> BY <1>10 DEF TransferFails
  <2> DEFINE b == Sets(p, err, "system")
  <2>4. /\ b \in Calls /\ b.len = call[p].len /\ b.left = call[p].left
        /\ b.from = call[p].from /\ b.buf = call[p].buf /\ b.msec = call[p].msec
        /\ b.tv = call[p].tv /\ b.waited = call[p].waited /\ b.by = "system"
    BY SetsIs DEF Errnos
  <2>5. Return(p, -1, b) BY <2>2
  <2> HIDE DEF b
  <2>6. -1 \in -1 .. b.len /\ -1 # b.len /\ MayTimeOut(b, ends)
    BY <2>1, <2>4 DEF MayTimeOut
  <2> QED BY <2>1, <2>3, <2>4, <2>5, <2>6, StepReturn
<1>11. ASSUME NEW k \in 1 .. MaxBytes, WriteSome(k) PROVE IInv'
  BY <1>11, StepWrite
<1>12. ASSUME NEW k \in 1 .. MaxBytes, ReadSome(k) PROVE IInv'
  BY <1>12, StepRead
<1>13. ASSUME UNCHANGED <<wire, taken, nonblock, calls, signals, call, rigid>>,
              ends' \in {"open", "closed", "reset"}, ends = "reset" => ends' = ends
       PROVE  IInv'
  <2>1. UNCHANGED <<wire, taken, nonblock, calls, signals, call, message, blocking>>
    BY <1>13 DEF rigid
  <2>2. Typed' BY <1>13, <2>1, Zenon DEF IInv, Typed, Buffered
  <2>3. TimeSound' /\ DoneSound'
    BY <1>13, <2>1, Zenon DEF IInv, TimeSound, DoneSound, TimedOut
  <2>4. ModeSound' BY <2>1, Zenon DEF IInv, ModeSound, At
  <2>5. StreamSound' BY <2>1, Zenon DEF IInv, StreamSound, Sent
  <2>6. FrameSound' BY <2>1, Zenon DEF IInv, FrameSound, Boundary, Sent
  <2> QED BY <2>2, <2>3, <2>4, <2>5, <2>6 DEF IInv
<1>14. CASE Close BY <1>13, <1>14 DEF Close
<1>15. CASE Reset BY <1>13, <1>15 DEF Reset
<1>16. CASE UNCHANGED vars
  <2>1. ends \in {"open", "closed", "reset"} BY DEF IInv, Typed
  <2> QED BY <1>13, <1>16, <2>1 DEF vars, rigid
<1>17. ASSUME NEW p \in Procs, Loop(p) PROVE IInv'
  BY <1>3, <1>4, <1>5, <1>6, <1>9, <1>10, <1>11, <1>12, <1>17, Zenon DEF Loop
<1> QED BY <1>1, <1>2, <1>7, <1>8, <1>14, <1>15, <1>16, <1>17, Zenon DEF Next

\* IInv always holds.
LEMMA Invariance == Spec => []IInv
BY InitIInv, StepIInv, PTL DEF Spec
-----------------------------------------------------------------------------
\* What a reader has is what it took since its call began, and fits.
LEMMA BufferFits == ASSUME IInv, NEW p \in Procs PROVE Len(call[p].buf) <= call[p].len
<1>1. call \in [Procs -> Calls] BY DEF IInv, Typed
<1>2. CASE p = "writer"
  <2>1. call[p].len \in Nat BY <1>1 DEF Calls
  <2> QED BY <1>2, <2>1, EmptySeq DEF IInv, StreamSound
<1>3. CASE p = "reader"
  <2> DEFINE r == call["reader"]
  <2>1. r.len \in Nat /\ r.left \in Nat /\ r.from \in Nat BY <1>1 DEF Calls, Procs
  <2>2. r.left <= r.len BY DEF IInv, Typed, Procs
  <2>3. taken = r.from + (r.len - r.left) BY DEF IInv, StreamSound
  <2>4. r.buf = SubSeq(wire, r.from + 1, taken) BY DEF IInv, StreamSound
  <2>5. taken \in 0 .. Len(wire) /\ Len(wire) \in Nat /\ wire \in Seq(Nat \X Nat)
    BY LenProperties DEF IInv, Typed
  <2> HIDE DEF r
  <2>6. taken \in r.from .. Len(wire) /\ taken - r.from <= r.len BY <2>1, <2>2, <2>3, <2>5
  <2>7. Len(r.buf) = taken - r.from BY <2>1, <2>4, <2>5, <2>6, Between
  <2> QED BY <1>3, <2>6, <2>7 DEF r
<1> QED BY <1>2, <1>3 DEF Procs

\* The stream never holds more than the buffers, what is read was written, and every call
\* is in one of its states with a result that conn_read or conn_write has.
THEOREM ConnTypeCorrect == Spec => []TypeOK
<1>1. IInv => TypeOK
  <2> SUFFICES ASSUME IInv PROVE TypeOK
    OBVIOUS
  <2>1. call \in [Procs -> Calls] BY DEF IInv, Typed
  <2>2. ASSUME NEW p \in Procs
        PROVE  LET c == call[p] IN
               /\ c.pc \in {"idle", "loop", "transfer"} /\ c.ret \in Codes(p)
               /\ c.left \in 0 .. c.len /\ Len(c.buf) <= c.len
               /\ {c.len, c.waited, c.from} \subseteq Nat
    <3> DEFINE c == call[p]
    <3>1. /\ c.pc \in {"idle", "loop", "transfer"} /\ c.len \in Nat /\ c.left \in Nat
          /\ c.waited \in Nat /\ c.from \in Nat
      BY <2>1 DEF Calls
    <3>2. c.left <= c.len /\ c.ret \in Codes(p) BY DEF IInv, Typed
    <3>3. Len(c.buf) <= c.len BY <2>1, BufferFits
    <3>4. c.left \in 0 .. c.len BY <3>1, <3>2
    <3> QED BY <3>1, <3>2, <3>3, <3>4
  <2> QED BY <2>2, Zenon DEF IInv, Typed, TypeOK
<1> QED BY <1>1, Invariance, PTL

\* A call of conn_read or conn_write waits no longer than its timeout, however often
\* signals and partial transfers take it round the loop; one whose length int holds
\* tells a timeout only when it has waited all of it or the system gave the peer up
\* during the call; conn_write leaves the socket in the client's mode.
THEOREM WaitsWithinTimeout == Spec => []WaitBounded
<1>1. IInv => WaitBounded
  <2> SUFFICES ASSUME IInv PROVE WaitBounded
    OBVIOUS
  <2>1. ASSUME NEW p \in Procs, call[p].msec >= 0 PROVE call[p].waited <= call[p].msec
    <3>1. call[p].tv \in Int /\ call[p].waited \in Nat /\ call[p].msec \in Int
      BY DEF IInv, Typed, Calls
    <3>2. call[p].tv + call[p].waited = call[p].msec /\ call[p].tv >= 0
      BY <2>1 DEF IInv, TimeSound
    <3> QED BY <3>1, <3>2
  <2>2. ASSUME NEW p \in Procs, call[p].pc = "idle", call[p].ret = "ETIMEDOUT",
               call[p].len <= MaxInt
        PROVE  LET c == call[p] IN
               \/ c.by = "timer" /\ c.waited = c.msec
               \/ c.by = "system" /\ c.errno = "ETIMEDOUT" /\ ends = "reset"
    BY <2>2, Zenon DEF IInv, TimeSound, TimedOut
  <2>3. nonblock = (At("writer", "idle") => ~blocking) BY DEF IInv, ModeSound
  <2> QED BY <2>1, <2>2, <2>3, Zenon DEF WaitBounded, At
<1> QED BY <1>1, Invariance, PTL

\* For lengths that int holds: a read that succeeds has the next bytes of the stream, as
\* many as were asked for; a write that succeeds has sent its buffer once and in order.
THEOREM SuccessIsComplete == Spec => []SuccessMeansAll
<1>1. IInv => SuccessMeansAll
  <2> SUFFICES ASSUME IInv PROVE SuccessMeansAll
    OBVIOUS
  <2> DEFINE r == call["reader"]
             w == call["writer"]
             L == Len(wire)
  <2>0. /\ r \in Calls /\ w \in Calls /\ wire \in Seq(Nat \X Nat) /\ L \in Nat
        /\ taken \in 0 .. L /\ calls \in Nat
    BY LenProperties DEF IInv, Typed, Procs
  <2>1. ASSUME At("reader", "idle"), r.ret = "SUCCESS", r.len <= MaxInt
        PROVE  r.buf = SubSeq(wire, r.from + 1, r.from + r.len) /\ Len(r.buf) = r.len
    <3>1. r.len \in Nat /\ r.from \in Nat BY <2>0 DEF Calls
    <3>2. r.left = 0 BY <2>1 DEF IInv, DoneSound, At, Procs
    <3>3. taken = r.from + r.len
      <4>1. taken = r.from + (r.len - r.left) BY DEF IInv, StreamSound
      <4> QED BY <3>1, <3>2, <4>1
    <3>4. r.buf = SubSeq(wire, r.from + 1, taken) BY DEF IInv, StreamSound
    <3>5. taken \in r.from .. L /\ taken - r.from = r.len BY <2>0, <3>1, <3>3
    <3>6. Len(SubSeq(wire, r.from + 1, taken)) = taken - r.from
      <4> HIDE DEF r
      <4> QED BY <2>0, <3>1, <3>5, Between
    <3> HIDE DEF r
    <3> QED BY <3>3, <3>4, <3>5, <3>6, Zenon
  <2>2. ASSUME w.ret = "SUCCESS", At("writer", "idle"), w.len <= MaxInt
        PROVE  SubSeq(wire, L - w.len + 1, L) = [i \in 1 .. w.len |-> <<calls, i>>]
    <3> DEFINE s == SubSeq(wire, L - w.len + 1, L)
               e == [i \in 1 .. w.len |-> <<calls, i>>]
               a == L - w.len
    <3>1. w.len \in Nat BY <2>0 DEF Calls
    <3>2. w.left = 0 BY <2>2 DEF IInv, DoneSound, At, Procs
    <3>3. Sent = w.len BY <3>1, <3>2 DEF Sent
    <3>4. w.len <= L /\ \A i \in 1 .. w.len : wire[a + i] = <<calls, i>>
      BY <3>3 DEF IInv, StreamSound
    <3>5. a \in Nat /\ L \in a .. L /\ L - a = w.len BY <2>0, <3>1, <3>4
    <3>6. /\ s \in Seq(Nat \X Nat) /\ Len(s) = w.len
          /\ \A i \in 1 .. w.len : s[i] = wire[a + i]
      <4> HIDE DEF a
      <4>1. /\ SubSeq(wire, a + 1, L) \in Seq(Nat \X Nat)
            /\ Len(SubSeq(wire, a + 1, L)) = L - a
            /\ \A i \in 1 .. L - a : SubSeq(wire, a + 1, L)[i] = wire[a + i]
        BY <2>0, <3>5, Between, SMTT(20)
      <4>2. s = SubSeq(wire, a + 1, L) BY DEF a
      <4> HIDE DEF s
      <4> QED BY <3>5, <4>1, <4>2
    <3>7. e \in Seq(Nat \X Nat) /\ Len(e) = w.len /\ \A i \in 1 .. w.len : e[i] = <<calls, i>>
      <4> DEFINE l == w.len
      <4>1. l \in Nat BY <3>1
      <4> HIDE DEF l
      <4>2. [i \in 1 .. l |-> <<calls, i>>] \in [1 .. l -> Nat \X Nat] BY <2>0, <4>1
      <4>3. /\ [i \in 1 .. l |-> <<calls, i>>] \in Seq(Nat \X Nat)
            /\ Len([i \in 1 .. l |-> <<calls, i>>]) = l
        <5> DEFINE f == [i \in 1 .. l |-> <<calls, i>>]
        <5>1. f \in [1 .. l -> Nat \X Nat] BY <4>2
        <5> HIDE DEF f
        <5>2. f \in Seq(Nat \X Nat) /\ Len(f) = l BY <4>1, <5>1
        <5> QED BY <5>2 DEF f
      <4> QED BY <4>3 DEF l
    <3> HIDE DEF s, e, w, a
    <3>8. \A i \in 1 .. Len(s) : s[i] = e[i] BY <3>4, <3>6, <3>7
    <3>9. s = e BY <3>6, <3>7, <3>8, SeqEqual
    <3> QED BY <3>9 DEF s, e
  <2> QED BY <2>1, <2>2, Zenon DEF SuccessMeansAll, Returned
<1> QED BY <1>1, Invariance, PTL

\* Clients that agree on a length int holds and stop at a failure read whole messages.
THEOREM ReadsAreFramed == Spec => []Framed
<1>1. IInv => Framed
  <2> DEFINE r == call["reader"]
             n == message
             from == r.from
  <2> SUFFICES ASSUME IInv, message # Mixed, At("reader", "idle"), r.ret = "SUCCESS",
                      NEW i \in 1 .. Len(r.buf)
               PROVE  r.buf[i][2] = i
    BY Zenon DEF Framed
  <2>0. /\ r \in Calls /\ wire \in Seq(Nat \X Nat) /\ Len(wire) \in Nat
        /\ taken \in 0 .. Len(wire)
    BY LenProperties DEF IInv, Typed, Procs
  <2>1. r.len \in Nat /\ from \in Nat BY <2>0 DEF Calls
  <2>2. r.left = 0
    <3>1. message = Unset => r.len = 0 BY DEF IInv, FrameSound, Procs
    <3>2. message \in Lens => r.len <= MaxInt BY BoundAssumption DEF IInv, FrameSound, Procs
    <3>3. r.len <= MaxInt BY <3>1, <3>2, BoundAssumption DEF IInv, Typed
    <3> QED BY <3>3 DEF IInv, DoneSound, At, Procs
  <2>3. taken = from + r.len
    <3>1. taken = from + (r.len - r.left) BY DEF IInv, StreamSound
    <3> QED BY <2>1, <2>2, <3>1
  <2>4. taken \in from .. Len(wire) /\ taken - from = r.len BY <2>0, <2>1, <2>3
  <2>5. r.buf = SubSeq(wire, from + 1, taken) BY DEF IInv, StreamSound
  <2>6. Len(r.buf) = r.len /\ \A j \in 1 .. r.len : r.buf[j] = wire[from + j]
    <3>1. /\ Len(SubSeq(wire, from + 1, taken)) = taken - from
          /\ \A j \in 1 .. taken - from : SubSeq(wire, from + 1, taken)[j] = wire[from + j]
      <4> HIDE DEF from
      <4> QED BY <2>0, <2>1, <2>4, Between
    <3> HIDE DEF r, from
    <3> QED BY <2>4, <2>5, <3>1
  <2>7. i \in 1 .. r.len /\ r.buf[i] = wire[from + i] BY <2>6
  <2>8. r.len # 0 BY <2>1, <2>7
  <2>9. n \in Lens /\ n \in Nat /\ r.len = n
    <3>1. n # Unset BY <2>8 DEF IInv, FrameSound, Procs
    <3>2. n \in Lens BY <3>1 DEF IInv, Typed
    <3>3. r.len = n BY <2>8, <3>2 DEF IInv, FrameSound, Procs
    <3> QED BY <3>2, <3>3, LensAssumption
  <2>10. from \in 0 .. Len(wire) - 1 /\ Boundary(from, n)
    <3>1. from \in 0 .. Len(wire) - 1 BY <2>0, <2>1, <2>4, <2>8, SMTT(20)
    <3> QED BY <2>9, <3>1 DEF IInv, FrameSound
  <2>11. wire[from + 1][2] = 1 BY <2>9, <2>10 DEF IInv, FrameSound
  <2>12. \A j \in 1 .. Len(wire), d \in Nat :
            j + d <= Len(wire) /\ wire[j][2] + d <= n => wire[j + d][2] = wire[j][2] + d
    BY <2>9 DEF IInv, FrameSound
  <2> DEFINE j == from + 1
             d == i - 1
  <2>13. j \in 1 .. Len(wire) /\ d \in Nat /\ j + d = from + i /\ 1 + d = i
    <3> HIDE DEF from
    <3> QED BY <2>0, <2>1, <2>7, <2>10
  <2>14. j + d <= Len(wire) /\ wire[j][2] + d <= n
    <3>0. /\ i \in 1 .. r.len /\ from + r.len <= Len(wire) /\ 1 + d = i /\ j + d = from + i
          /\ r.len = n /\ r.len \in Nat /\ from \in Nat /\ Len(wire) \in Nat
      BY <2>0, <2>1, <2>3, <2>4, <2>7, <2>9, <2>13
    <3>1. 1 + d <= n /\ from + i <= Len(wire)
      <4> HIDE DEF from, d, r, n, j
      <4> QED BY <3>0
    <3> QED BY <2>11, <2>13, <3>1
  <2> HIDE DEF d, n
  <2>15. wire[j + d][2] = wire[j][2] + d
    <3> HIDE DEF j
    <3> QED BY <2>12, <2>13, <2>14
  <2> QED BY <2>7, <2>11, <2>13, <2>15
<1> QED BY <1>1, Invariance, PTL
=============================================================================
