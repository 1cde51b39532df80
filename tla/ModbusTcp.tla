----------------------------- MODULE ModbusTcp -----------------------------
(***************************************************************************)
(* The TCP side of libmodbus: one program with several client contexts,    *)
(* each for a server of its own, and the error recovery of modbus.c that   *)
(* reconnects and flushes.  Calls of the program follow each other (one    *)
(* thread); the servers, the network and the timeouts run beside it.       *)
(*                                                                         *)
(* A context keeps the number of its socket.  The numbers are the          *)
(* process's: a closed one is given out again, also to another context.    *)
(* The transaction identifier is one static counter for all contexts.      *)
(* Requests are alike in function and length, replies arrive whole.        *)
(***************************************************************************)
EXTENDS Integers, Sequences

CONSTANTS
    Clients,     \* contexts of the program, also the names of their servers
    Pi,          \* those made by modbus_new_tcp_pi
    Link,        \* those with MODBUS_ERROR_RECOVERY_LINK
    Protocol,    \* those with MODBUS_ERROR_RECOVERY_PROTOCOL
    Fds,         \* socket numbers of the process
    None,        \* a socket number that is not in use
    TidSpace,    \* values of the transaction identifier (65536 in the code)
    MaxCalls,    \* bound: calls in a behaviour
    MaxBreaks    \* bound: connections broken and servers gone

ASSUME TcpAssumption ==
    /\ Pi \subseteq Clients /\ Link \subseteq Clients /\ Protocol \subseteq Clients
    /\ Fds \subseteq Nat
    /\ TidSpace \in Nat /\ TidSpace >= 1
    /\ MaxCalls \in Nat /\ MaxBreaks \in Nat

\* ctx->s before the first connect.
NoSocket == -1

\* A request, and the header of the reply copied from it; n is its number among the
\* program's requests and by the context that sent it.
Message == [tid: 0 .. TidSpace - 1, n: Nat, by: Clients]

\* A connection, seen from the client's socket: the server at its other end, whether
\* that end has accepted it and still stands, and what is under way in both directions.
Conn == [server: Clients, accepted: BOOLEAN, up: BOOLEAN,
         req: Seq(Message), rsp: Seq(Message)]

ASSUME NoneAssumption == None \notin Conn

Errnos == {"none", "EBADF", "ECONNRESET", "ETIMEDOUT", "EMBBADDATA"}

VARIABLES
    posix,       \* do failing socket calls set errno?  Winsock's do not
    sock,        \* ctx->s of every context
    sockets,     \* the process's sockets: connections by number
    listening,   \* the servers that listen
    open,        \* contexts the program has connected and not closed
    tid, calls,  \* t_id, and the requests built so far
    pc, ctx, msg,\* the call under way: where it is, its context and its request
    errno,
    breaks,      \* connections broken so far
    stale,       \* history: contexts left with the number of a closed socket
    owed,        \* history: timeouts of each context
    got          \* history: the last reply accepted, and what had been asked

callVars   == <<tid, calls, ctx, msg>>
serverVars == <<listening, breaks>>
histVars   == <<stale, owed, got>>
vars == <<posix, sock, sockets, listening, open, tid, calls, pc, ctx, msg, errno,
          breaks, stale, owed, got>>

----------------------------------------------------------------------------
(* Sockets. *)

Fresh(c) == [server |-> c, accepted |-> FALSE, up |-> TRUE, req |-> <<>>, rsp |-> <<>>]

Unused(table) == {f \in Fds : table[f] = None}

\* The connection behind a context, if its number is one of an open socket.
Live(c) == sock[c] \in Fds /\ sockets[sock[c]] # None

\* shutdown and close of whatever the number stands for; ctx->s keeps it.
Closed(table, s) == IF s \in Fds THEN [table EXCEPT ![s] = None] ELSE table

\* What a connect of c, done on a table of sockets, leaves behind: the table, ctx->s and
\* whether there is a connection.  A failing tcp_connect leaves the number of the socket
\* it has closed again, a failing pi_connect what was there before.
Connected(c, table) ==
    {[table |-> [table EXCEPT ![f] = Fresh(c)], s |-> f, ok |-> TRUE] :
        f \in IF listening[c] THEN Unused(table) ELSE {}}

Refused(c, table) ==
    {[table |-> table, s |-> s, ok |-> FALSE] :
        s \in CASE c \in Pi             -> IF listening[c] /\ Unused(table) # {}
                                           THEN {} ELSE {sock[c]}
                [] Unused(table) = {}   -> {NoSocket}
                [] OTHER                -> IF listening[c] THEN {} ELSE Unused(table)}

\* Mutated form: the new socket is not stored in the context.
ConnectNotStored(c, table) ==
    \E o \in Connected(c, table) \cup Refused(c, table) :
        /\ sockets' = o.table
        /\ sock' = [sock EXCEPT ![c] = IF o.ok THEN @ ELSE o.s]
        /\ stale' = IF o.ok THEN stale ELSE stale \cup {c}

ConnectOn(c, table) ==
    \E o \in Connected(c, table) \cup Refused(c, table) :
        /\ sockets' = o.table
        /\ sock' = [sock EXCEPT ![c] = o.s]
        /\ stale' = IF o.ok THEN stale ELSE stale \cup {c}

\* The recovery's modbus_close and modbus_connect; the result is not looked at.
Reconnect(c) == ConnectOn(c, Closed(sockets, sock[c]))

\* The replies that have arrived on the context's socket are thrown away.
Flushed(c) == IF Live(c) THEN [sockets EXCEPT ![sock[c]].rsp = <<>>] ELSE sockets

----------------------------------------------------------------------------
(* The program. *)

\* modbus_connect; the program goes on whatever it returns (on_tcpBtn_clicked).
Connect(c) ==
    /\ pc = "idle" /\ c \notin open
    /\ ConnectOn(c, sockets)
    /\ open' = open \cup {c}
    /\ UNCHANGED <<posix, serverVars, callVars, pc, errno, owed, got>>

Close(c) ==
    /\ pc = "idle" /\ c \in open
    /\ sockets' = Closed(sockets, sock[c])
    /\ open' = open \ {c}
    /\ UNCHANGED <<posix, sock, serverVars, callVars, pc, errno, histVars>>

\* Mutated form: the counter starts again one value early.
WrapsEarly == IF tid + 2 < TidSpace THEN tid + 1 ELSE 0

NextTid == IF tid < TidSpace - 1 THEN tid + 1 ELSE 0

Ask(c) ==
    /\ pc = "idle" /\ c \in open
    /\ calls < MaxCalls
    /\ tid' = NextTid /\ calls' = calls + 1
    /\ msg' = [tid |-> NextTid, n |-> calls + 1, by |-> c]
    /\ ctx' = c /\ pc' = "send"
    /\ UNCHANGED <<posix, sock, sockets, serverVars, open, errno, histVars>>

\* Mutated form: the write is issued again although it was successful.
DeliveredTwice(queue) == queue \o <<msg, msg>>

Delivered(queue) == Append(queue, msg)

\* The request goes out.  The first one after the peer has gone is lost.
SendWorks ==
    /\ pc = "send" /\ Live(ctx)
    /\ sockets' = IF sockets[sock[ctx]].up
                  THEN [sockets EXCEPT ![sock[ctx]].req = Delivered(@)]
                  ELSE sockets
    /\ pc' = "recv"
    /\ UNCHANGED <<posix, sock, serverVars, open, callVars, errno, histVars>>

SendMayFail == Live(ctx) => ~sockets[sock[ctx]].up
SendErrno == IF ~posix THEN errno ELSE IF Live(ctx) THEN "ECONNRESET" ELSE "EBADF"

\* Mutated form: a number that is not open is taken for a passing error.
OnlyReset == {"ECONNRESET"}

\* The errors after which the recovery connects anew.
Reconnectable == {"EBADF", "ECONNRESET"}

\* Without link recovery the call returns -1.
SendFails ==
    /\ pc = "send" /\ ctx \notin Link /\ SendMayFail
    /\ errno' = SendErrno
    /\ pc' = "idle"
    /\ UNCHANGED <<posix, sock, sockets, serverVars, open, callVars, histVars>>

\* With it the write is issued again, until it is successful: on a new connection, or
\* after a sleep and a flush of the old one.
SendAgain ==
    /\ pc = "send" /\ ctx \in Link /\ SendMayFail
    /\ errno' = SendErrno
    /\ \/ errno' \in Reconnectable /\ Reconnect(ctx)
       \/ errno' \notin Reconnectable /\ sockets' = Flushed(ctx) /\ UNCHANGED <<sock, stale>>
    /\ UNCHANGED <<posix, serverVars, open, callVars, pc, owed, got>>

\* pre_check_confirmation.
Confirms(r) == r.tid = msg.tid

\* The next reply on the socket: accepted, or refused, and then flushed with the rest
\* under protocol recovery.
ReceiveReply ==
    /\ pc = "recv" /\ sockets[sock[ctx]].rsp # <<>>
    /\ LET r == Head(sockets[sock[ctx]].rsp)
       IN IF Confirms(r)
          THEN /\ got' = [asked |-> msg, answered |-> r, server |-> sockets[sock[ctx]].server]
               /\ pc' = "idle"
               /\ UNCHANGED errno
          ELSE /\ errno' = "EMBBADDATA"
               /\ pc' = IF ctx \in Protocol THEN "flush" ELSE "idle"
               /\ UNCHANGED got
    /\ sockets' = [sockets EXCEPT ![sock[ctx]].rsp = Tail(@)]
    /\ UNCHANGED <<posix, sock, serverVars, open, callVars, stale, owed>>

\* The response timeout; what is still to come stays on its way.
TimeOut ==
    /\ pc = "recv" /\ sockets[sock[ctx]].rsp = <<>> /\ sockets[sock[ctx]].up
    /\ errno' = "ETIMEDOUT"
    /\ pc' = IF ctx \in Link THEN "flush" ELSE "idle"
    /\ owed' = [owed EXCEPT ![ctx] = @ + 1]
    /\ UNCHANGED <<posix, sock, sockets, serverVars, open, callVars, stale, got>>

\* The peer has gone: recv returns 0, which the library turns into ECONNRESET, or
\* fails, which Winsock does not tell in errno.
PeerGone ==
    /\ pc = "recv" /\ sockets[sock[ctx]].rsp = <<>> /\ ~sockets[sock[ctx]].up
    /\ errno' \in {"ECONNRESET", IF posix THEN "ECONNRESET" ELSE errno}
    /\ IF ctx \in Link /\ errno' \in Reconnectable
       THEN Reconnect(ctx)
       ELSE UNCHANGED <<sock, sockets, stale>>
    /\ pc' = "idle"
    /\ UNCHANGED <<posix, serverVars, open, callVars, owed, got>>

\* sleep_and_flush has slept.
Flush ==
    /\ pc = "flush"
    /\ sockets' = Flushed(ctx)
    /\ pc' = "idle"
    /\ UNCHANGED <<posix, sock, serverVars, open, callVars, errno, histVars>>

CallStep == SendWorks \/ SendFails \/ SendAgain \/ ReceiveReply \/ TimeOut \/ PeerGone \/ Flush

----------------------------------------------------------------------------
(* The servers. *)

\* modbus_tcp_listen.
Listen(c) ==
    /\ ~listening[c]
    /\ listening' = [listening EXCEPT ![c] = TRUE]
    /\ UNCHANGED <<posix, sock, sockets, open, callVars, pc, errno, breaks, histVars>>

\* modbus_tcp_accept.
Accept(f) ==
    /\ sockets[f] # None /\ sockets[f].up /\ ~sockets[f].accepted
    /\ sockets' = [sockets EXCEPT ![f].accepted = TRUE]
    /\ UNCHANGED <<posix, sock, serverVars, open, callVars, pc, errno, histVars>>

\* The connections of a server that satisfy P lose their peer, and what it has sent.
Reset(c, waitingOnly) ==
    [f \in Fds |->
        IF sockets[f] = None THEN None
        ELSE IF sockets[f].server = c /\ (waitingOnly => ~sockets[f].accepted)
             THEN [sockets[f] EXCEPT !.up = FALSE, !.req = <<>>, !.rsp = <<>>]
             ELSE sockets[f]]

\* An accept that fails closes the socket the server listens on, and with it the
\* connections that wait.
AcceptFails(c) ==
    /\ listening[c] /\ breaks < MaxBreaks
    /\ listening' = [listening EXCEPT ![c] = FALSE]
    /\ breaks' = breaks + 1
    /\ sockets' = Reset(c, TRUE)
    /\ UNCHANGED <<posix, sock, open, callVars, pc, errno, histVars>>

\* The server's process ends.
Crash(c) ==
    /\ breaks < MaxBreaks
    /\ listening' = [listening EXCEPT ![c] = FALSE]
    /\ breaks' = breaks + 1
    /\ sockets' = Reset(c, FALSE)
    /\ UNCHANGED <<posix, sock, open, callVars, pc, errno, histVars>>

\* The server closes one connection; replies it has sent still arrive.
Drop(f) ==
    /\ sockets[f] # None /\ sockets[f].up /\ sockets[f].accepted
    /\ breaks < MaxBreaks
    /\ sockets' = [sockets EXCEPT ![f].up = FALSE, ![f].req = <<>>]
    /\ breaks' = breaks + 1
    /\ UNCHANGED <<posix, sock, listening, open, callVars, pc, errno, histVars>>

\* modbus_receive and modbus_reply: the reply carries the identifier of the request.
Answer(f) ==
    /\ sockets[f] # None /\ sockets[f].accepted /\ sockets[f].req # <<>>
    /\ sockets' = [sockets EXCEPT ![f].req = Tail(@),
                                  ![f].rsp = Append(@, Head(sockets[f].req))]
    /\ UNCHANGED <<posix, sock, serverVars, open, callVars, pc, errno, histVars>>

----------------------------------------------------------------------------
Init ==
    /\ posix \in BOOLEAN
    /\ sock = [c \in Clients |-> NoSocket]
    /\ sockets = [f \in Fds |-> None]
    /\ listening \in [Clients -> BOOLEAN]
    /\ open = {}
    /\ tid = 0 /\ calls = 0
    /\ pc = "idle"
    /\ ctx \in Clients /\ msg = [tid |-> 0, n |-> 0, by |-> ctx]
    /\ errno = "none"
    /\ breaks = 0
    /\ stale = {} /\ owed = [c \in Clients |-> 0] /\ got = None

ServerStep ==
    \/ \E c \in Clients : Listen(c) \/ AcceptFails(c) \/ Crash(c)
    \/ \E f \in Fds : Accept(f) \/ Drop(f) \/ Answer(f)

Next ==
    \/ \E c \in Clients : Connect(c) \/ Close(c) \/ Ask(c)
    \/ CallStep
    \/ ServerStep

Spec == Init /\ [][Next]_vars

\* The thread runs, select returns at the timeout, and a server that is down is
\* started again.
Fairness == WF_vars(CallStep) /\ \A c \in Clients : WF_vars(Listen(c))

FairSpec == Spec /\ Fairness

----------------------------------------------------------------------------
(* Properties. *)

\* Every variable has its type.
TypeOK ==
    /\ posix \in BOOLEAN
    /\ sock \in [Clients -> Fds \cup {NoSocket}]
    /\ sockets \in [Fds -> Conn \cup {None}]
    /\ listening \in [Clients -> BOOLEAN]
    /\ open \subseteq Clients
    /\ tid \in 0 .. TidSpace - 1 /\ calls \in Nat
    /\ pc \in {"idle", "send", "recv", "flush"}
    /\ ctx \in Clients /\ msg \in Message
    /\ errno \in Errnos
    /\ breaks \in Nat
    /\ stale \subseteq Clients
    /\ owed \in [Clients -> Nat]
    /\ got \in [asked: Message, answered: Message, server: Clients] \cup {None}

\* A call takes the reply to another request for its own only when the identifier has
\* gone round in between, also when contexts have come to share a socket: the counter
\* is one for all of them (_modbus_tcp_build_request_basis, pre_check_confirmation).
RepliesMatched ==
    got # None => \/ got.answered = got.asked
                  \/ got.asked.n - got.answered.n >= TidSpace

\* As long as no connect has failed, every context of the program talks to its own
\* server, whichever numbers were closed and given out again; a failed one leaves a
\* number behind that may become another context's (_modbus_tcp_connect,
\* _modbus_tcp_close, and the recovery that does not look at modbus_connect's result).
OwnConnection ==
    stale = {} =>
        /\ \A c \in open : Live(c) /\ sockets[sock[c]].server = c
        /\ got # None => got.server = got.asked.by

\* A context never has more replies to come than calls that timed out: neither the
\* recovery's repeated writes nor a refused reply leave another one behind, so that
\* without a timeout no call meets the reply to an earlier one.
StaleOnlyAfterTimeouts ==
    (stale = {} /\ pc = "idle") =>
        \A c \in open : Len(sockets[sock[c]].req) + Len(sockets[sock[c]].rsp) <= owed[c]

\* modbus.c:176, "the write command will be issued until to be successful": every call
\* returns, also one that repeats its write until the server is back.  Under Winsock
\* this needs an errno left over from an earlier error that names a lost connection;
\* with any other the loop sleeps and flushes for ever.
CallsReturn ==
    (pc # "idle" /\ (pc = "send" => posix \/ errno \in Reconnectable)) ~> (pc = "idle")

=============================================================================
