------------------------------ MODULE ConnOpen ------------------------------
(***************************************************************************)
(* src/conn.c, opening connections: one thread calls conn_open, conn_peer  *)
(* or conn_cycle, which tries conn_peer until it succeeds; another uses    *)
(* and closes what they return.  System calls fail as they can; a connect  *)
(* that waits is decided by the other side, or interrupted by a signal.    *)
(* The options are set on an open socket, where fcntl does not fail, and   *)
(* no outcome of the others is looked at.                                  *)
(*                                                                         *)
(* A definition named X_Y is a slip one could make in X; the specification *)
(* does not use it.                                                        *)
(***************************************************************************)
EXTENDS Naturals, FiniteSets

CONSTANTS Fds,       \* the descriptors the process may have open
          None

States == {"new", "listening", "connecting", "connected", "failed"}
Sockets == [state : States, nonblock : BOOLEAN, error : BOOLEAN]

FdsAssumption == IsFiniteSet(Fds) /\ None \notin Fds \cup Sockets

VARIABLES socket,    \* what each descriptor is, None if it is not open
          held,      \* history: descriptors returned by calls and not closed since
          open,      \* the call in progress
          up         \* does the other side accept connections?

openVars == <<socket, held, open, up>>

Resting == [pc |-> "idle", op |-> "none", nonblock |-> FALSE, fd |-> None]

Init == /\ socket = [f \in Fds |-> None] /\ held = {}
        /\ open = Resting
        /\ up \in BOOLEAN

At(pc) == open.pc = pc
Mine == socket[open.fd]

Begin(op, nonblock) ==
    /\ At("idle")
    /\ open' = [Resting EXCEPT !.pc = "socket", !.op = op, !.nonblock = nonblock]
    /\ UNCHANGED <<socket, held, up>>

\* Of the mask CONN_NONBLOCK alone tells later steps apart.
conn_open(nonblock) == Begin("conn_open", nonblock)
conn_peer(nonblock) == Begin("conn_peer", nonblock)
conn_cycle == Begin("conn_cycle", FALSE)

Returns(state) == /\ socket' = [socket EXCEPT ![open.fd].state = state]
                  /\ held' = held \cup {open.fd}
                  /\ open' = Resting
                  /\ UNCHANGED up

\* -1 is returned, with the socket closed; conn_cycle sleeps and tries again.
Closes_Forgotten(f) == socket
Closes(f) == IF f = None THEN socket ELSE [socket EXCEPT ![f] = None]
ReturnsError ==
    /\ socket' = Closes(open.fd)
    /\ open' = IF open.op = "conn_cycle" THEN [open EXCEPT !.pc = "sleep", !.fd = None] ELSE Resting
    /\ UNCHANGED <<held, up>>

\* socket, and the options the mask asks for.
Socket ==
    /\ At("socket")
    /\ \E f \in Fds :
          /\ socket[f] = None
          /\ socket' = [socket EXCEPT ![f] = [state |-> "new", nonblock |-> open.nonblock, error |-> FALSE]]
          /\ open' = [open EXCEPT !.fd = f, !.pc = IF open.op = "conn_open" THEN "bind" ELSE "connect"]
    /\ UNCHANGED <<held, up>>

\* No descriptor is left, or the system has no memory or no file to spare.
SocketFails == At("socket") /\ ReturnsError

Bind == At("bind") /\ open' = [open EXCEPT !.pc = "listen"] /\ UNCHANGED <<socket, held, up>>
Listen == At("listen") /\ Returns("listening")
BindOrListenFails == (At("bind") \/ At("listen")) /\ ReturnsError

\* A connect that waits.
ConnectBlocks ==
    /\ At("connect") /\ ~open.nonblock
    /\ socket' = [socket EXCEPT ![open.fd].state = "connecting"]
    /\ open' = [open EXCEPT !.pc = "wait"]
    /\ UNCHANGED <<held, up>>
ConnectReturns == At("wait") /\ Mine.state = "connected" /\ Returns("connected")
ConnectFails == At("wait") /\ Mine.state = "failed" /\ ReturnsError
ConnectInterrupted == At("wait") /\ Mine.state = "connecting" /\ ReturnsError

\* One that does not, EINPROGRESS being no error.
ConnectAtOnce_NotClosed ==
    /\ At("connect") /\ open.nonblock
    /\ \/ up /\ Returns("connected")
       \/ Returns("connecting")
       \/ ~up /\ open' = Resting /\ UNCHANGED <<socket, held, up>>
ConnectAtOnce ==
    /\ At("connect") /\ open.nonblock
    /\ \/ up /\ Returns("connected")
       \/ Returns("connecting")
       \/ ~up /\ ReturnsError

Wakes == At("sleep") /\ open' = [open EXCEPT !.pc = "socket"] /\ UNCHANGED <<socket, held, up>>

\* getsockopt tells a pending error once, and 0 before there is one.
conn_check(f) ==
    /\ f \in held
    /\ socket' = [socket EXCEPT ![f].error = FALSE]
    /\ UNCHANGED <<held, open, up>>
-----------------------------------------------------------------------------
Accepted(f) ==
    /\ socket[f] # None /\ socket[f].state = "connecting" /\ up
    /\ socket' = [socket EXCEPT ![f].state = "connected"]
    /\ UNCHANGED <<held, open, up>>

Refused(f) ==
    /\ socket[f] # None /\ socket[f].state = "connecting" /\ ~up
    /\ socket' = [socket EXCEPT ![f].state = "failed", ![f].error = TRUE]
    /\ UNCHANGED <<held, open, up>>

GoesUpOrDown == up' = ~up /\ UNCHANGED <<socket, held, open>>

close(f) ==
    /\ f \in held
    /\ held' = held \ {f} /\ socket' = [socket EXCEPT ![f] = None]
    /\ UNCHANGED <<open, up>>

\* The steps of the calls that wait for nobody.
Runs == \/ Socket \/ SocketFails \/ Bind \/ Listen \/ BindOrListenFails \/ Wakes
        \/ ConnectBlocks \/ ConnectReturns \/ ConnectFails \/ ConnectAtOnce

Next == \/ \E nonblock \in BOOLEAN : conn_open(nonblock) \/ conn_peer(nonblock)
        \/ conn_cycle \/ Runs \/ ConnectInterrupted \/ GoesUpOrDown
        \/ \E f \in Fds : conn_check(f) \/ close(f) \/ Accepted(f) \/ Refused(f)

\* The thread runs, the system does not refuse every socket for ever where it has
\* descriptors, and of the tries an other side that is there hears one: signals do not
\* interrupt each of them for ever.
Fairness == /\ WF_openVars(Runs) /\ SF_openVars(Socket)
            /\ \A f \in Fds : SF_openVars(Accepted(f)) /\ WF_openVars(Refused(f))
Spec == Init /\ [][Next]_openVars /\ Fairness
-----------------------------------------------------------------------------
TypeOK ==
    /\ socket \in [Fds -> Sockets \cup {None}]
    /\ held \subseteq Fds /\ up \in BOOLEAN
    /\ open.pc \in {"idle", "socket", "bind", "listen", "connect", "wait", "sleep"}
    /\ open.op \in {"none", "conn_open", "conn_peer", "conn_cycle"} /\ open.fd \in Fds \cup {None}

\* Whichever calls failed, and where, the open descriptors are those the client was
\* given and the one of the call in progress; what it was given listens or is
\* connected, unless the client asked for a connection not to be waited for.
DescriptorsKept ==
    /\ TypeOK
    /\ {f \in Fds : socket[f] # None} = held \cup ({open.fd} \ {None})
    /\ open.fd \notin held
    /\ \A f \in held : \/ socket[f].state \in {"listening", "connected"}
                       \/ socket[f].nonblock /\ socket[f].state \in {"connecting", "failed"}

\* conn_cycle returns when the other side is up for good and the client leaves it a
\* descriptor: its tries take none for themselves.
CycleReturns == <>[](up /\ held # Fds) => [](open.op = "conn_cycle" => <>At("idle"))
=============================================================================
