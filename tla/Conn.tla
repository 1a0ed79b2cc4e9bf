-------------------------------- MODULE Conn --------------------------------
(***************************************************************************)
(* src/conn.c, reading and writing: one process calls conn_write on a      *)
(* socket, another conn_read on its peer.  select, partial transfers,      *)
(* signals, the timer and the ends of the connection are the system's and  *)
(* come in any order.  select takes the time it waits off the timeout it   *)
(* is given, as it does on Linux, the only system the library builds on    *)
(* (TCP_DEFER_ACCEPT, sched_setaffinity).  SIGPIPE is taken to be ignored. *)
(*                                                                         *)
(* A definition named X_Y is a slip one could make in X; the specification *)
(* does not use it.                                                        *)
(***************************************************************************)
EXTENDS Integers, Sequences

CONSTANTS Lens,         \* lengths clients pass
          Timeouts,     \* in ticks, beside the -1 for none
          MaxInt,       \* the largest value of int
          Capacity,     \* of the socket buffers between the two
          MaxBytes,     \* bounds the bytes written in all
          MaxCalls,     \* bounds the calls of conn_write
          MaxSignals    \* bounds the signals that interrupt a call

ASSUME LensAssumption == Lens \subseteq Nat /\ Timeouts \subseteq Int
ASSUME BoundAssumption ==
    /\ {Capacity, MaxInt} \subseteq Nat \ {0}
    /\ {MaxBytes, MaxCalls, MaxSignals} \subseteq Nat

VARIABLES wire,      \* history: the bytes sent, as <<call, position>>
          taken,     \* how many of them have been read
          ends,      \* "open", "closed" by the writer, or "reset": torn down, or the
                     \* peer does not answer any more
          nonblock,  \* O_NONBLOCK of the writer's socket
          blocking,  \* does the client keep that socket in blocking mode?
          message,   \* history: the length of all calls so far, Mixed if they differ,
                     \* int does not hold it or one came after a failure in its process
          calls,     \* history: the writer's calls so far
          signals,   \* signals so far
          call       \* what each process is doing

vars == <<wire, taken, ends, nonblock, blocking, message, calls, signals, call>>
rigid == <<blocking, message>>

Procs == {"writer", "reader"}
Unset == -2
Mixed == -1
NoCall == [pc |-> "idle", len |-> 0, left |-> 0, msec |-> 0, tv |-> 0, waited |-> 0,
           from |-> 0, buf |-> <<>>, errno |-> "none", by |-> "before", ret |-> "SUCCESS"]

Init == /\ wire = <<>> /\ taken = 0 /\ ends = "open"
        /\ blocking \in BOOLEAN /\ nonblock = ~blocking
        /\ message = Unset
        /\ calls = 0 /\ signals = 0
        /\ call = [p \in Procs |-> NoCall]

Buffered == Len(wire) - taken
At(p, pc) == call[p].pc = pc
MinOf(a, b) == IF a < b THEN a ELSE b

\* What a call leaves of the call before it is errno.  by is a history: what set it
\* in this call, the timer of select or the system, or "before".
Begin(p, n, t) ==
    /\ At(p, "idle")
    /\ message' = IF call[p].ret = "SUCCESS" /\ message \in {Unset, n} /\ n <= MaxInt
                  THEN n ELSE Mixed
    /\ call' = [call EXCEPT ![p] =
          [NoCall EXCEPT !.pc = "loop", !.len = n, !.left = n, !.msec = t, !.tv = t,
                         !.from = taken, !.errno = call[p].errno]]

conn_read(n, t) ==
    /\ Begin("reader", n, t)
    /\ UNCHANGED <<wire, taken, ends, nonblock, blocking, calls, signals>>

\* conn_write makes the socket non-blocking, so that no write waits; fcntl does
\* not fail on an open socket.
conn_write(n, t) ==
    /\ ends # "closed"
    /\ Len(wire) + n <= MaxBytes /\ calls < MaxCalls
    /\ Begin("writer", n, t)
    /\ nonblock' = TRUE
    /\ calls' = calls + 1
    /\ UNCHANGED <<wire, taken, ends, blocking, signals>>

Restored == ~blocking

\* The value of a ssize_t or a size_t as int has it.
Narrow(n) == IF n \in -1 .. MaxInt THEN n
             ELSE ((n + MaxInt + 1) % (2 * (MaxInt + 1))) - MaxInt - 1

\* How the result rlen or wlen of the inner loop becomes the call's: both it and the
\* length are made int.
Result_Unchecked(p, len, n, errno) ==
    IF Narrow(n) = 0 THEN "PEERCLOSE"
    ELSE IF Narrow(n) = -1 /\ errno = "ETIMEDOUT" THEN "ETIMEDOUT"
    ELSE "SUCCESS"
Result(p, len, n, errno) ==
    IF Narrow(n) = 0 THEN "PEERCLOSE"
    ELSE IF Narrow(n) = -1 /\ errno = "ETIMEDOUT" THEN "ETIMEDOUT"
    ELSE IF Narrow(n) # Narrow(len) THEN (IF p = "reader" THEN "READ" ELSE "WRITE")
    ELSE "SUCCESS"

\* The call, when errno has been set.
Sets(p, err, by) == [call[p] EXCEPT !.errno = err, !.by = by]

\* The call, which is c by now, returns n.
Return(p, n, c) ==
    /\ call' = [call EXCEPT ![p] = [c EXCEPT !.pc = "idle",
                                            !.ret = Result(p, c.len, n, c.errno)]]
    /\ nonblock' = IF p = "writer" THEN Restored ELSE nonblock
-----------------------------------------------------------------------------
Ready(p) == \/ ends # "open"
            \/ p = "reader" /\ Buffered > 0
            \/ p = "writer" /\ Buffered < Capacity

\* The head of the loop: select, unless nothing is left.
LoopEnds(p) ==
    /\ At(p, "loop") /\ call[p].left = 0
    /\ Return(p, call[p].len, call[p])
    /\ UNCHANGED <<wire, taken, ends, calls, signals, rigid>>

Selects(p) == At(p, "loop") /\ call[p].left > 0

SelectReady(p) ==
    /\ Selects(p) /\ Ready(p)
    /\ call' = [call EXCEPT ![p].pc = "transfer"]
    /\ UNCHANGED <<wire, taken, ends, nonblock, calls, signals, rigid>>

\* Time passes for a process that waits in select.
Wait(p) ==
    /\ Selects(p) /\ ~Ready(p) /\ call[p].tv # 0 /\ call[p].waited <= call[p].msec
    /\ call' = [call EXCEPT ![p].tv = @ - 1, ![p].waited = @ + 1]
    /\ UNCHANGED <<wire, taken, ends, nonblock, calls, signals, rigid>>

SelectTimesOut_Retries(p) == Selects(p) /\ ~Ready(p) /\ call[p].tv = 0 /\ UNCHANGED vars
SelectTimesOut(p) ==
    /\ Selects(p) /\ ~Ready(p) /\ call[p].tv = 0
    /\ Return(p, -1, Sets(p, "ETIMEDOUT", "timer"))
    /\ UNCHANGED <<wire, taken, ends, calls, signals, rigid>>

SelectFails(p) ==
    /\ Selects(p)
    /\ Return(p, -1, Sets(p, IF p = "reader" THEN "EIO" ELSE "ENOMEM", "system"))
    /\ UNCHANGED <<wire, taken, ends, calls, signals, rigid>>

\* The timeout left over is what select goes on with.
TimeoutLeft_Rearmed(c) == c.msec
TimeoutLeft(c) == c.tv

\* EINTR, in conn_select or from read and write: the loop goes on.
Interrupted(p) ==
    /\ \/ Selects(p) /\ ~Ready(p)
       \/ At(p, "transfer")
    /\ signals < MaxSignals
    /\ signals' = signals + 1
    /\ call' = [call EXCEPT ![p] = [Sets(p, "EINTR", "system") EXCEPT
                                      !.pc = "loop", !.tv = TimeoutLeft(call[p])]]
    /\ UNCHANGED <<wire, taken, ends, nonblock, calls, rigid>>

\* k bytes go on at position len - left of the buffer.
Position_FromStart(c) == 0
Position(c) == c.len - c.left
Moved(p, k) == [call[p] EXCEPT !.pc = "loop", !.left = @ - k, !.tv = TimeoutLeft(call[p])]

WriteSome(k) ==
    /\ At("writer", "transfer") /\ ends = "open"
    /\ k \in 1 .. MinOf(call["writer"].left, Capacity - Buffered)
    /\ wire' = wire \o [i \in 1 .. k |-> <<calls, Position(call["writer"]) + i>>]
    /\ call' = [call EXCEPT !["writer"] = Moved("writer", k)]
    /\ UNCHANGED <<taken, ends, nonblock, calls, signals, rigid>>

ReadSome(k) ==
    /\ At("reader", "transfer") /\ ends # "reset"
    /\ k \in 1 .. MinOf(call["reader"].left, Buffered)
    /\ taken' = taken + k
    /\ LET c == call["reader"]
       IN  call' = [call EXCEPT !["reader"] =
                       [Moved("reader", k) EXCEPT
                           !.buf = SubSeq(@, 1, Position(c)) \o SubSeq(wire, taken + 1, taken + k)]]
    /\ UNCHANGED <<wire, ends, nonblock, calls, signals, rigid>>

\* read returns 0: the loop breaks with what it has.  A connection that was reset
\* tells its error once and then ends like one that was closed.
ReadEnds ==
    /\ At("reader", "transfer")
    /\ ends = "reset" \/ (ends = "closed" /\ Buffered = 0)
    /\ Return("reader", Position(call["reader"]), call["reader"])
    /\ UNCHANGED <<wire, taken, ends, calls, signals, rigid>>

\* read or write fail: with ETIMEDOUT where the system gave the peer up.
TransferFails(p) ==
    /\ At(p, "transfer") /\ ends = "reset"
    /\ \E err \in {"ECONNRESET", "ETIMEDOUT"} : Return(p, -1, Sets(p, err, "system"))
    /\ UNCHANGED <<wire, taken, ends, calls, signals, rigid>>
-----------------------------------------------------------------------------
Close ==
    /\ At("writer", "idle") /\ ends = "open"
    /\ ends' = "closed"
    /\ UNCHANGED <<wire, taken, nonblock, calls, signals, call, rigid>>

Reset ==
    /\ ends # "reset"
    /\ ends' = "reset"
    /\ UNCHANGED <<wire, taken, nonblock, calls, signals, call, rigid>>

Loop(p) == \/ LoopEnds(p) \/ SelectReady(p) \/ Wait(p) \/ SelectTimesOut(p)
           \/ TransferFails(p)
           \/ \E k \in 1 .. MaxBytes : (p = "writer" /\ WriteSome(k)) \/ (p = "reader" /\ ReadSome(k))
           \/ p = "reader" /\ ReadEnds

Next == \/ \E n \in Lens, t \in Timeouts \cup {-1} : conn_read(n, t) \/ conn_write(n, t)
        \/ \E p \in Procs : Loop(p) \/ SelectFails(p) \/ Interrupted(p)
        \/ Close \/ Reset

\* A process that can run runs, and time passes.
Fairness == \A p \in Procs : WF_vars(Loop(p))
Spec == Init /\ [][Next]_vars /\ Fairness
-----------------------------------------------------------------------------
Codes(p) == {"SUCCESS", "PEERCLOSE", "ETIMEDOUT", IF p = "reader" THEN "READ" ELSE "WRITE"}
TypeOK ==
    /\ wire \in Seq(Nat \X Nat) /\ taken \in 0 .. Len(wire) /\ Buffered <= Capacity
    /\ ends \in {"open", "closed", "reset"} /\ {nonblock, blocking} \subseteq BOOLEAN
    /\ message \in Lens \cup {Unset, Mixed}
    /\ calls \in Nat /\ signals \in 0 .. MaxSignals
    /\ \A p \in Procs : LET c == call[p] IN
          /\ c.pc \in {"idle", "loop", "transfer"} /\ c.ret \in Codes(p)
          /\ c.left \in 0 .. c.len /\ Len(c.buf) <= c.len
          /\ {c.len, c.waited, c.from} \subseteq Nat

Returned(p) == calls > 0 /\ At(p, "idle")

\* A read of a length that int holds fills its buffer, if it succeeds, with the bytes
\* that came next on the connection, however they arrived; a write of such a length
\* that succeeds has sent its whole buffer once and in order.
SuccessMeansAll ==
    /\ LET c == call["reader"] IN
          At("reader", "idle") /\ c.ret = "SUCCESS" /\ c.len <= MaxInt =>
              c.buf = SubSeq(wire, c.from + 1, c.from + c.len) /\ Len(c.buf) = c.len
    /\ LET c == call["writer"] IN
          Returned("writer") /\ c.ret = "SUCCESS" /\ c.len <= MaxInt =>
              SubSeq(wire, Len(wire) - c.len + 1, Len(wire)) = [i \in 1 .. c.len |-> <<calls, i>>]

\* No call waits longer than it was asked to, for interruptions and partial transfers
\* use up one timeout; one of a length that int holds reports a timeout only when it
\* has waited all of it, or when the system gave the peer up during this very call,
\* whatever errno was left over; and conn_write, on whatever path it returns, gives
\* the socket back the client's mode.
WaitBounded ==
    /\ \A p \in Procs : LET c == call[p] IN
          /\ c.msec >= 0 => c.waited <= c.msec
          /\ At(p, "idle") /\ c.ret = "ETIMEDOUT" /\ c.len <= MaxInt =>
                \/ c.by = "timer" /\ c.waited = c.msec
                \/ c.by = "system" /\ c.errno = "ETIMEDOUT" /\ ends = "reset"
    /\ nonblock = (At("writer", "idle") => ~blocking)

\* Clients that agree on a length int holds and stop at a failure read whole messages,
\* though a write may fail half way.
Framed == LET c == call["reader"] IN
    message # Mixed /\ At("reader", "idle") /\ c.ret = "SUCCESS" =>
        \A i \in 1 .. Len(c.buf) : c.buf[i][2] = i

\* A call with a timeout returns.
CallReturns == \A p \in Procs : (~At(p, "idle") /\ call[p].msec >= 0) ~> At(p, "idle")
=============================================================================
