-------------------------- MODULE ModbusTcp_proofs --------------------------
(***************************************************************************)
(* Proofs about ModbusTcp, for any contexts, recoveries, socket numbers,   *)
(* servers and size of the transaction identifier.                         *)
(***************************************************************************)
EXTENDS ModbusTcp, TLAPS

Tables == [Fds -> Conn \cup {None}]

\* A call that waits for its reply has a connection: it has sent something.
WaitsOnSocket == pc = "recv" => Live(ctx)

\* Changing what is under way leaves a connection.
LEMMA ConnChange ==
  ASSUME NEW k \in Conn, NEW q \in Seq(Message), NEW r \in Seq(Message), NEW b \in BOOLEAN
  PROVE  /\ [k EXCEPT !.rsp = r] \in Conn
         /\ [k EXCEPT !.req = q] \in Conn
         /\ [k EXCEPT !.accepted = TRUE] \in Conn
         /\ [k EXCEPT !.up = FALSE, !.req = q] \in Conn
         /\ [k EXCEPT !.up = FALSE, !.req = q, !.rsp = r] \in Conn
         /\ [k EXCEPT !.req = q, !.rsp = r] \in Conn
  BY DEF Conn

LEMMA NoMessage == <<>> \in Seq(Message)
  OBVIOUS

----------------------------------------------------------------------------
(* Type correctness. *)

\* No number is open, no call has been made: the initial state has its types.
LEMMA InitTypeOK == Init => TypeOK /\ WaitsOnSocket
<1> SUFFICES ASSUME Init PROVE TypeOK /\ WaitsOnSocket
  OBVIOUS
<1>1. /\ sock \in [Clients -> Fds \cup {NoSocket}] /\ sockets \in Tables
      /\ open \subseteq Clients /\ stale \subseteq Clients
      /\ owed \in [Clients -> Nat]
  BY DEF Init, Tables
<1>2. tid \in 0 .. TidSpace - 1 /\ ctx \in Clients /\ msg \in Message
  BY TcpAssumption DEF Init, Message
<1>3. posix \in BOOLEAN /\ listening \in [Clients -> BOOLEAN]
  BY Zenon DEF Init
<1>4. pc = "idle" /\ errno \in Errnos /\ breaks \in Nat /\ calls \in Nat /\ got = None
  BY DEF Init, Errnos
<1> QED BY <1>1, <1>2, <1>3, <1>4 DEF TypeOK, WaitsOnSocket, Tables

\* Closing a number leaves a table of sockets.
LEMMA ClosedType ==
  ASSUME NEW table \in Tables, NEW s
  PROVE  Closed(table, s) \in Tables
  BY DEF Closed, Tables

\* A connect leaves a table, a number and a set of contexts.
LEMMA ConnectType ==
  ASSUME TypeOK, NEW c \in Clients, NEW table \in Tables, ConnectOn(c, table)
  PROVE  /\ sockets' \in Tables
         /\ sock' \in [Clients -> Fds \cup {NoSocket}]
         /\ stale' \subseteq Clients
<1>1. PICK o \in Connected(c, table) \cup Refused(c, table) :
          /\ sockets' = o.table
          /\ sock' = [sock EXCEPT ![c] = o.s]
          /\ stale' = IF o.ok THEN stale ELSE stale \cup {c}
  BY DEF ConnectOn
<1>2. Fresh(c) \in Conn
  BY DEF Fresh, Conn
<1>3. CASE o \in Connected(c, table)
  <2>1. PICK f \in IF listening[c] THEN Unused(table) ELSE {} :
            o = [table |-> [table EXCEPT ![f] = Fresh(c)], s |-> f, ok |-> TRUE]
    BY <1>3, Zenon DEF Connected
  <2>2. f \in Unused(table)
    BY <2>1, Zenon
  <2>3. o.table = [table EXCEPT ![f] = Fresh(c)] /\ o.s = f
    BY <2>1
  <2> QED BY <1>1, <1>2, <2>2, <2>3 DEF Unused, Tables, TypeOK
<1>4. CASE o \in Refused(c, table)
  <2>1. o.table = table
    BY <1>4 DEF Refused
  <2>2. o.s \in Fds \cup {NoSocket}
    <3>1. CASE c \in Pi
      BY <1>4, <3>1 DEF Refused, TypeOK
    <3>2. CASE c \notin Pi
      BY <1>4, <3>2 DEF Refused, Unused
    <3> QED BY <3>1, <3>2
  <2> QED BY <1>1, <2>1, <2>2 DEF TypeOK
<1> QED BY <1>1, <1>3, <1>4

\* So does the recovery's.
LEMMA ReconnectType ==
  ASSUME TypeOK, Reconnect(ctx)
  PROVE  /\ sockets' \in Tables
         /\ sock' \in [Clients -> Fds \cup {NoSocket}]
         /\ stale' \subseteq Clients
<1>1. Closed(sockets, sock[ctx]) \in Tables
  BY ClosedType DEF TypeOK, Tables
<1> QED BY <1>1, ConnectType DEF Reconnect, TypeOK

\* The connection behind a live context is one.
LEMMA LiveConn ==
  ASSUME TypeOK, NEW c \in Clients, Live(c)
  PROVE  sock[c] \in Fds /\ sockets[sock[c]] \in Conn
  BY DEF TypeOK, Live

\* A flush leaves a table of sockets, with the same numbers open.
LEMMA FlushedType ==
  ASSUME TypeOK
  PROVE  /\ Flushed(ctx) \in Tables
         /\ \A f \in Fds : Flushed(ctx)[f] = None <=> sockets[f] = None
<1>1. CASE Live(ctx)
  <2>1. sock[ctx] \in Fds /\ sockets[sock[ctx]] \in Conn
    BY <1>1, LiveConn DEF TypeOK
  <2>2. [sockets[sock[ctx]] EXCEPT !.rsp = <<>>] \in Conn
    BY <2>1, NoMessage, ConnChange
  <2>3. Flushed(ctx) = [sockets EXCEPT ![sock[ctx]] = [sockets[sock[ctx]] EXCEPT !.rsp = <<>>]]
    BY <1>1 DEF Flushed
  <2> QED BY <2>1, <2>2, <2>3, NoneAssumption, ZenonT(60) DEF TypeOK, Tables
<1>2. CASE ~Live(ctx)
  BY <1>2 DEF Flushed, TypeOK, Tables
<1> QED BY <1>1, <1>2

\* What the peer's loss leaves is a table of sockets, with the same numbers open.
LEMMA ResetType ==
  ASSUME sockets \in Tables, NEW c, NEW w
  PROVE  /\ Reset(c, w) \in Tables
         /\ \A f \in Fds : Reset(c, w)[f] = None <=> sockets[f] = None
<1>1. ASSUME NEW f \in Fds, sockets[f] # None
      PROVE  /\ sockets[f] \in Conn
             /\ [sockets[f] EXCEPT !.up = FALSE, !.req = <<>>, !.rsp = <<>>] \in Conn
  <2>1. sockets[f] \in Conn
    BY <1>1 DEF Tables
  <2> QED BY <2>1, NoMessage, ConnChange
<1>2. ASSUME NEW f \in Fds
      PROVE  Reset(c, w)[f] \in Conn \cup {None} /\ (Reset(c, w)[f] = None <=> sockets[f] = None)
  BY <1>1, <1>2, NoneAssumption DEF Reset
<1>3. Reset(c, w) \in [Fds -> Conn \cup {None}]
  BY <1>2 DEF Reset
<1> QED BY <1>2, <1>3 DEF Tables

\* Replacing an open connection by another leaves a table, with the same numbers open.
LEMMA ReplaceType ==
  ASSUME sockets \in Tables, NEW f \in Fds, sockets[f] # None, NEW k \in Conn,
         sockets' = [sockets EXCEPT ![f] = k]
  PROVE  /\ sockets' \in Tables
         /\ \A g \in Fds : sockets'[g] = None <=> sockets[g] = None
  BY NoneAssumption DEF Tables

\* What a server does to a connection leaves a connection.
LEMMA PeerConn ==
  ASSUME TypeOK, NEW f \in Fds, Accept(f) \/ Drop(f) \/ Answer(f)
  PROVE  \E k \in Conn : sockets' = [sockets EXCEPT ![f] = k]
<1>0. sockets \in Tables
  BY DEF TypeOK, Tables
<1>1. sockets[f] # None /\ sockets[f] \in Conn
  BY <1>0 DEF Accept, Drop, Answer, Tables
<1>2. CASE Accept(f)
  <2>1. [sockets[f] EXCEPT !.accepted = TRUE] \in Conn
    BY <1>1, ConnChange, NoMessage
  <2> QED BY <1>2, <2>1 DEF Accept
<1>3. CASE Drop(f)
  <2>1. [sockets[f] EXCEPT !.up = FALSE, !.req = <<>>] \in Conn
    BY <1>1, ConnChange, NoMessage
  <2>2. sockets' = [sockets EXCEPT ![f] = [sockets[f] EXCEPT !.up = FALSE, !.req = <<>>]]
    BY <1>0, <1>3 DEF Drop, Tables
  <2> QED BY <2>1, <2>2
<1>4. CASE Answer(f)
  <2>1. sockets[f].req \in Seq(Message) /\ sockets[f].rsp \in Seq(Message) /\ sockets[f].req # <<>>
    BY <1>1, <1>4 DEF Answer, Conn
  <2>2. Tail(sockets[f].req) \in Seq(Message) /\ Append(sockets[f].rsp, Head(sockets[f].req)) \in Seq(Message)
    BY <2>1
  <2>3. [sockets[f] EXCEPT !.req = Tail(@), !.rsp = Append(@, Head(sockets[f].req))] \in Conn
    BY <1>1, <2>2, ConnChange
  <2>4. sockets' = [sockets EXCEPT ![f] = [sockets[f] EXCEPT
                        !.req = Tail(@), !.rsp = Append(@, Head(sockets[f].req))]]
    BY <1>0, <1>4 DEF Answer, Tables
  <2> QED BY <2>3, <2>4
<1> QED BY <1>2, <1>3, <1>4

\* Every step of the program, of a call and of the servers keeps the types.
LEMMA NextTypeOK == TypeOK /\ WaitsOnSocket /\ [Next]_vars => TypeOK' /\ WaitsOnSocket'
<1> SUFFICES ASSUME TypeOK, WaitsOnSocket, [Next]_vars PROVE TypeOK' /\ WaitsOnSocket'
  OBVIOUS
<1>0. sockets \in Tables
  BY DEF TypeOK, Tables
<1>1. ASSUME NEW c \in Clients, Connect(c) PROVE TypeOK' /\ WaitsOnSocket'
  <2>1. /\ sockets' \in Tables /\ sock' \in [Clients -> Fds \cup {NoSocket}]
        /\ stale' \subseteq Clients
    BY <1>0, <1>1, ConnectType DEF Connect
  <2> QED BY <1>1, <2>1 DEF Connect, serverVars, callVars, TypeOK, WaitsOnSocket, Tables
<1>2. ASSUME NEW c \in Clients, Close(c) PROVE TypeOK' /\ WaitsOnSocket'
  BY <1>0, <1>2, ClosedType DEF Close, serverVars, callVars, histVars, TypeOK, WaitsOnSocket, Tables
<1>3. ASSUME NEW c \in Clients, Ask(c) PROVE TypeOK' /\ WaitsOnSocket'
  <2>1. NextTid \in 0 .. TidSpace - 1
    BY TcpAssumption DEF NextTid, TypeOK
  <2>2. msg' \in Message
    BY <1>3, <2>1 DEF Ask, Message, TypeOK
  <2> QED BY <1>3, <2>1, <2>2 DEF Ask, serverVars, histVars, TypeOK, WaitsOnSocket
<1>4. CASE SendWorks
  <2>1. sock[ctx] \in Fds /\ sockets[sock[ctx]] \in Conn /\ sockets[sock[ctx]] # None
    BY <1>4, LiveConn DEF SendWorks, TypeOK, Live
  <2>2. [sockets[sock[ctx]] EXCEPT !.req = Delivered(@)] \in Conn
    <3>1. Delivered(sockets[sock[ctx]].req) \in Seq(Message)
      BY <2>1 DEF Delivered, Conn, TypeOK
    <3> QED BY <2>1, <3>1, ConnChange, NoMessage
  <2>3. /\ sockets' \in Tables
        /\ \A g \in Fds : sockets'[g] = None <=> sockets[g] = None
    <3>1. CASE sockets[sock[ctx]].up
      <4>1. sockets' = [sockets EXCEPT ![sock[ctx]] = [sockets[sock[ctx]] EXCEPT !.req = Delivered(@)]]
        BY <1>4, <3>1 DEF SendWorks
      <4> QED BY <1>0, <2>1, <2>2, <4>1, ReplaceType
    <3>2. CASE ~sockets[sock[ctx]].up
      BY <1>0, <1>4, <3>2 DEF SendWorks
    <3> QED BY <3>1, <3>2
  <2>4. Live(ctx)'
    BY <1>4, <2>1, <2>3 DEF SendWorks, Live, callVars
  <2> QED BY <1>4, <2>3, <2>4 DEF SendWorks, serverVars, callVars, histVars, TypeOK, WaitsOnSocket, Tables
<1>5. CASE SendFails
  <2>1. errno' \in Errnos
    BY <1>5 DEF SendFails, SendErrno, Errnos, TypeOK
  <2> QED BY <1>5, <2>1 DEF SendFails, serverVars, callVars, histVars, TypeOK, WaitsOnSocket
<1>6. CASE SendAgain
  <2>1. errno' \in Errnos
    BY <1>6 DEF SendAgain, SendErrno, Errnos, TypeOK
  <2>2. /\ sockets' \in Tables /\ sock' \in [Clients -> Fds \cup {NoSocket}]
        /\ stale' \subseteq Clients
    <3>1. CASE Reconnect(ctx)
      BY <3>1, ReconnectType
    <3>2. CASE sockets' = Flushed(ctx) /\ UNCHANGED <<sock, stale>>
      BY <3>2, FlushedType DEF TypeOK
    <3> QED BY <1>6, <3>1, <3>2 DEF SendAgain
  <2> QED BY <1>6, <2>1, <2>2 DEF SendAgain, serverVars, callVars, TypeOK, WaitsOnSocket, Tables
<1>7. CASE ReceiveReply
  <2>1. sock[ctx] \in Fds /\ sockets[sock[ctx]] \in Conn /\ sockets[sock[ctx]] # None
    BY <1>7, LiveConn DEF ReceiveReply, TypeOK, Live, WaitsOnSocket
  <2>2. /\ sockets[sock[ctx]].rsp \in Seq(Message) /\ sockets[sock[ctx]].rsp # <<>>
        /\ sockets[sock[ctx]].server \in Clients
    BY <1>7, <2>1 DEF ReceiveReply, Conn
  <2>3. Head(sockets[sock[ctx]].rsp) \in Message /\ Tail(sockets[sock[ctx]].rsp) \in Seq(Message)
    BY <2>2
  <2>4. [sockets[sock[ctx]] EXCEPT !.rsp = Tail(@)] \in Conn
    BY <2>1, <2>3, ConnChange, NoMessage
  <2>5. sockets' = [sockets EXCEPT ![sock[ctx]] = [sockets[sock[ctx]] EXCEPT !.rsp = Tail(@)]]
    BY <1>7 DEF ReceiveReply
  <2>6. sockets' \in Tables
    BY <1>0, <2>1, <2>4, <2>5, ReplaceType
  <2>7. /\ got' \in [asked: Message, answered: Message, server: Clients] \cup {None}
        /\ pc' \in {"idle", "flush"} /\ errno' \in Errnos
    BY <1>7, <2>2, <2>3 DEF ReceiveReply, TypeOK, Errnos
  <2> QED BY <1>7, <2>6, <2>7 DEF ReceiveReply, serverVars, callVars, TypeOK, WaitsOnSocket, Tables
<1>8. CASE TimeOut
  BY <1>8 DEF TimeOut, serverVars, callVars, TypeOK, WaitsOnSocket, Errnos
<1>9. CASE PeerGone
  <2>1. errno' \in Errnos
    BY <1>9 DEF PeerGone, Errnos, TypeOK
  <2>2. /\ sockets' \in Tables /\ sock' \in [Clients -> Fds \cup {NoSocket}]
        /\ stale' \subseteq Clients
    <3>1. CASE Reconnect(ctx)
      BY <3>1, ReconnectType
    <3>2. CASE UNCHANGED <<sock, sockets, stale>>
      BY <1>0, <3>2 DEF TypeOK
    <3> QED BY <1>9, <3>1, <3>2 DEF PeerGone
  <2> QED BY <1>9, <2>1, <2>2 DEF PeerGone, serverVars, callVars, TypeOK, WaitsOnSocket, Tables
<1>10. CASE Flush
  BY <1>10, FlushedType DEF Flush, serverVars, callVars, histVars, TypeOK, WaitsOnSocket, Tables
<1>11. ASSUME NEW c \in Clients, Listen(c) PROVE TypeOK' /\ WaitsOnSocket'
  BY <1>11 DEF Listen, callVars, histVars, TypeOK, WaitsOnSocket, Live
<1>12. ASSUME NEW c \in Clients, AcceptFails(c) \/ Crash(c) PROVE TypeOK' /\ WaitsOnSocket'
  <2>1. PICK w \in BOOLEAN : sockets' = Reset(c, w)
    BY <1>12 DEF AcceptFails, Crash
  <2>2. sockets' \in Tables /\ \A f \in Fds : sockets'[f] = None <=> sockets[f] = None
    BY <1>0, <2>1, ResetType
  <2>3. UNCHANGED <<posix, sock, open, callVars, pc, errno, histVars>>
    BY <1>12 DEF AcceptFails, Crash
  <2>4. listening' \in [Clients -> BOOLEAN]
    <3>1. listening' = [listening EXCEPT ![c] = FALSE]
      BY <1>12, Zenon DEF AcceptFails, Crash
    <3> QED BY <3>1 DEF TypeOK
  <2>5. breaks' \in Nat
    <3>1. breaks' = breaks + 1
      BY <1>12, Zenon DEF AcceptFails, Crash
    <3> QED BY <3>1 DEF TypeOK
  <2> QED BY <2>2, <2>3, <2>4, <2>5 DEF callVars, histVars, TypeOK, WaitsOnSocket, Tables, Live
<1>13. ASSUME NEW f \in Fds, Accept(f) \/ Drop(f) \/ Answer(f) PROVE TypeOK' /\ WaitsOnSocket'
  <2>1. sockets[f] # None /\ sockets[f] \in Conn
    BY <1>0, <1>13 DEF Accept, Drop, Answer, Tables
  <2>2. PICK k \in Conn : sockets' = [sockets EXCEPT ![f] = k]
    BY <1>13, PeerConn
  <2>3. sockets' \in Tables /\ \A g \in Fds : sockets'[g] = None <=> sockets[g] = None
    BY <1>0, <2>1, <2>2, ReplaceType
  <2>4. UNCHANGED <<posix, sock, listening, open, callVars, pc, errno, histVars>> /\ breaks' \in Nat
    BY <1>13 DEF Accept, Drop, Answer, serverVars, TypeOK
  <2> QED BY <2>3, <2>4 DEF callVars, histVars, TypeOK, WaitsOnSocket, Tables, Live
<1>14. CASE UNCHANGED vars
  BY <1>14 DEF vars, TypeOK, WaitsOnSocket, Live
<1> QED BY <1>1, <1>2, <1>3, <1>4, <1>5, <1>6, <1>7, <1>8, <1>9, <1>10, <1>11, <1>12,
           <1>13, <1>14 DEF Next, CallStep, ServerStep

\* Every variable keeps its type, and a call that waits has a socket to wait on, for
\* every value of the constants.
THEOREM TypeCorrect == Spec => [](TypeOK /\ WaitsOnSocket)
<1>1. Init => TypeOK /\ WaitsOnSocket
  BY InitTypeOK
<1>2. TypeOK /\ WaitsOnSocket /\ [Next]_vars => TypeOK' /\ WaitsOnSocket'
  BY NextTypeOK
<1> QED BY <1>1, <1>2, PTL DEF Spec

----------------------------------------------------------------------------
(* Replies and requests match. *)

\* What the identifier of a message says of its age: within one round of the counter it
\* lies as many values behind t_id as requests have been built since.
Recent(m) ==
    /\ m.n <= calls
    /\ m.n = calls => m = msg
    /\ calls - m.n < TidSpace =>
          m.tid = IF tid >= calls - m.n THEN tid - (calls - m.n)
                                        ELSE tid - (calls - m.n) + TidSpace

AllRecent(queue) == \A k \in 1 .. Len(queue) : Recent(queue[k])
GoodConn(k) == AllRecent(k.req) /\ AllRecent(k.rsp)
Good(table) == \A f \in Fds : table[f] # None => GoodConn(table[f])

\* The inductive invariant: every message under way is as old as its identifier says.
TidInv ==
    /\ msg.n = calls /\ msg.tid = tid
    /\ Good(sockets)
    /\ RepliesMatched

LEMMA InitTid == Init => TidInv
  BY NoneAssumption DEF Init, TidInv, Good, RepliesMatched

\* An empty queue, the rest of a queue and a queue with one more message.
LEMMA QueueRecent ==
  ASSUME NEW q \in Seq(Message), AllRecent(q), NEW m \in Message, Recent(m)
  PROVE  /\ AllRecent(<<>>)
         /\ AllRecent(Append(q, m))
         /\ q # <<>> => AllRecent(Tail(q)) /\ Recent(Head(q))
<1>1. AllRecent(<<>>)
  BY DEF AllRecent
<1>2. AllRecent(Append(q, m))
  <2>1. ASSUME NEW k \in 1 .. Len(Append(q, m)) PROVE Recent(Append(q, m)[k])
    <3>1. CASE k = Len(q) + 1
      <4>1. Append(q, m)[k] = m
        BY <3>1
      <4> QED BY <4>1
    <3>2. CASE k # Len(q) + 1
      <4>1. k \in 1 .. Len(q) /\ Append(q, m)[k] = q[k]
        BY <3>2
      <4> QED BY <4>1 DEF AllRecent
    <3> QED BY <3>1, <3>2
  <2> QED BY <2>1 DEF AllRecent
<1>3. ASSUME q # <<>> PROVE AllRecent(Tail(q)) /\ Recent(Head(q))
  <2>1. Head(q) = q[1] /\ 1 \in 1 .. Len(q)
    BY <1>3
  <2>2. ASSUME NEW k \in 1 .. Len(Tail(q)) PROVE Tail(q)[k] = q[k + 1] /\ k + 1 \in 1 .. Len(q)
    BY <1>3
  <2>3. AllRecent(Tail(q))
    BY <2>2 DEF AllRecent
  <2>4. Recent(Head(q))
    BY <2>1 DEF AllRecent
  <2> QED BY <2>3, <2>4
<1> QED BY <1>1, <1>2, <1>3

LEMMA EmptyRecent == AllRecent(<<>>)
  BY DEF AllRecent

\* A new connection has nothing under way; a closed one is gone.
LEMMA ConnectGood ==
  ASSUME NEW c \in Clients, NEW table \in Tables, Good(table), ConnectOn(c, table)
  PROVE  Good(sockets')
<1>1. PICK o \in Connected(c, table) \cup Refused(c, table) : sockets' = o.table
  BY DEF ConnectOn
<1>2. CASE o \in Connected(c, table)
  <2>1. PICK f \in IF listening[c] THEN Unused(table) ELSE {} :
            o = [table |-> [table EXCEPT ![f] = Fresh(c)], s |-> f, ok |-> TRUE]
    BY <1>2, Zenon DEF Connected
  <2>2. sockets' = [table EXCEPT ![f] = Fresh(c)]
    BY <1>1, <2>1
  <2>3. GoodConn(Fresh(c))
    BY EmptyRecent DEF GoodConn, Fresh
  <2> QED BY <2>2, <2>3 DEF Good, Tables
<1>3. CASE o \in Refused(c, table)
  <2>1. sockets' = table
    BY <1>1, <1>3 DEF Refused
  <2> QED BY <2>1
<1> QED BY <1>1, <1>2, <1>3

LEMMA ClosedGood ==
  ASSUME NEW table \in Tables, Good(table), NEW s
  PROVE  Good(Closed(table, s))
  BY DEF Closed, Good, Tables

LEMMA ReconnectGood ==
  ASSUME TypeOK, Good(sockets), Reconnect(ctx)
  PROVE  Good(sockets')
<1>1. Closed(sockets, sock[ctx]) \in Tables /\ Good(Closed(sockets, sock[ctx]))
  BY ClosedType, ClosedGood DEF TypeOK, Tables
<1> QED BY <1>1, ConnectGood DEF Reconnect, TypeOK

\* Replacing one connection by a good one leaves a good table.
LEMMA ReplaceGood ==
  ASSUME sockets \in Tables, Good(sockets), NEW f \in Fds, NEW k, GoodConn(k)
  PROVE  Good([sockets EXCEPT ![f] = k])
  BY DEF Good, Tables

LEMMA FlushedGood ==
  ASSUME TypeOK, Good(sockets)
  PROVE  Good(Flushed(ctx))
<1>1. CASE Live(ctx)
  <2>1. sock[ctx] \in Fds /\ sockets[sock[ctx]] \in Conn /\ sockets[sock[ctx]] # None
    BY <1>1, LiveConn DEF TypeOK, Live
  <2>2. GoodConn([sockets[sock[ctx]] EXCEPT !.rsp = <<>>])
    BY <2>1, EmptyRecent DEF GoodConn, Good, Conn
  <2>3. Flushed(ctx) = [sockets EXCEPT ![sock[ctx]] = [sockets[sock[ctx]] EXCEPT !.rsp = <<>>]]
    BY <1>1 DEF Flushed
  <2>4. sockets \in Tables
    BY DEF TypeOK, Tables
  <2> QED BY <2>1, <2>2, <2>3, <2>4, ReplaceGood
<1>2. CASE ~Live(ctx)
  BY <1>2 DEF Flushed
<1> QED BY <1>1, <1>2

\* A step that builds no request leaves the messages as old as they were.
LEMMA SameAge ==
  ASSUME TidInv, UNCHANGED callVars, Good(sockets'), RepliesMatched'
  PROVE  TidInv'
<1>1. \A m : Recent(m)' <=> Recent(m)
  BY DEF Recent, callVars
<1>2. Good(sockets)'
  BY <1>1 DEF Good, GoodConn, AllRecent, Recent, callVars
<1> QED BY <1>2 DEF TidInv, callVars

\* Building a request makes every message one older.
LEMMA AskAges ==
  ASSUME TypeOK, TidInv, NEW c \in Clients, Ask(c), NEW m \in Message, Recent(m)
  PROVE  Recent(m)'
<1>1. /\ calls \in Nat /\ tid \in 0 .. TidSpace - 1 /\ TidSpace \in Nat /\ TidSpace >= 1
      /\ m.n \in Nat /\ m.tid \in 0 .. TidSpace - 1
  BY TcpAssumption DEF TypeOK, Message
<1>2. calls' = calls + 1 /\ tid' = IF tid < TidSpace - 1 THEN tid + 1 ELSE 0
  BY DEF Ask, NextTid
<1>3. m.n <= calls
  BY DEF Recent
<1>4. ASSUME calls' - m.n < TidSpace
      PROVE  m.tid = IF tid' >= calls' - m.n THEN tid' - (calls' - m.n)
                                             ELSE tid' - (calls' - m.n) + TidSpace
  <2>1. m.tid = IF tid >= calls - m.n THEN tid - (calls - m.n)
                                      ELSE tid - (calls - m.n) + TidSpace
    BY <1>1, <1>2, <1>4 DEF Recent
  <2> QED BY <1>1, <1>2, <1>3, <1>4, <2>1
<1> QED BY <1>1, <1>2, <1>3, <1>4 DEF Recent

LEMMA AskGood ==
  ASSUME TypeOK, TidInv, NEW c \in Clients, Ask(c)
  PROVE  Good(sockets)'
<1>1. ASSUME NEW q \in Seq(Message), AllRecent(q) PROVE AllRecent(q)'
  BY <1>1, AskAges DEF AllRecent
<1>2. sockets' = sockets
  BY DEF Ask
<1>3. ASSUME NEW f \in Fds, sockets[f] # None PROVE GoodConn(sockets[f])'
  <2>1. sockets[f].req \in Seq(Message) /\ sockets[f].rsp \in Seq(Message)
    BY <1>3 DEF TypeOK, Conn
  <2>2. AllRecent(sockets[f].req) /\ AllRecent(sockets[f].rsp)
    BY <1>3 DEF TidInv, Good, GoodConn
  <2>3. AllRecent(sockets[f].req)' /\ AllRecent(sockets[f].rsp)'
    BY <1>1, <1>2, <2>1, <2>2 DEF AllRecent
  <2> QED BY <2>3 DEF GoodConn
<1> QED BY <1>2, <1>3 DEF Good

\* A reply that carries the identifier of the request is the reply to it, or a whole
\* round of the counter old.
LEMMA SameTid ==
  ASSUME TypeOK, TidInv, NEW r \in Message, Recent(r), Confirms(r)
  PROVE  r = msg \/ msg.n - r.n >= TidSpace
<1>1. /\ calls \in Nat /\ tid \in 0 .. TidSpace - 1 /\ TidSpace \in Nat
      /\ r.n \in Nat /\ r.n <= calls /\ msg.n = calls /\ r.tid = tid
  BY TcpAssumption DEF TypeOK, Message, Recent, TidInv, Confirms
<1>2. CASE calls - r.n < TidSpace
  <2>1. r.n = calls
    BY <1>1, <1>2 DEF Recent
  <2> QED BY <2>1 DEF Recent
<1>3. CASE ~(calls - r.n < TidSpace)
  BY <1>1, <1>3
<1> QED BY <1>2, <1>3

\* Every step keeps the messages as old as their identifiers say.
LEMMA NextTidInv == TypeOK /\ WaitsOnSocket /\ TidInv /\ [Next]_vars => TidInv'
<1> SUFFICES ASSUME TypeOK, WaitsOnSocket, TidInv, [Next]_vars PROVE TidInv'
  OBVIOUS
<1>0. sockets \in Tables /\ Good(sockets) /\ RepliesMatched
  BY DEF TypeOK, Tables, TidInv
<1>1. ASSUME NEW c \in Clients, Connect(c) PROVE TidInv'
  <2>1. Good(sockets')
    BY <1>0, <1>1, ConnectGood DEF Connect
  <2>2. UNCHANGED <<callVars, got>>
    BY <1>1 DEF Connect
  <2> QED BY <1>0, <2>1, <2>2, SameAge DEF RepliesMatched
<1>2. ASSUME NEW c \in Clients, Close(c) PROVE TidInv'
  <2>1. Good(sockets')
    BY <1>0, <1>2, ClosedGood DEF Close
  <2>2. UNCHANGED <<callVars, got>>
    BY <1>2 DEF Close, histVars
  <2> QED BY <1>0, <2>1, <2>2, SameAge DEF RepliesMatched
<1>3. ASSUME NEW c \in Clients, Ask(c) PROVE TidInv'
  <2>1. Good(sockets)'
    BY <1>3, AskGood
  <2>2. msg'.n = calls' /\ msg'.tid = tid' /\ got' = got
    BY <1>3 DEF Ask, histVars
  <2> QED BY <1>0, <2>1, <2>2 DEF TidInv, RepliesMatched
<1>4. CASE SendWorks
  <2>1. sock[ctx] \in Fds /\ sockets[sock[ctx]] \in Conn /\ sockets[sock[ctx]] # None
    BY <1>4, LiveConn DEF SendWorks, TypeOK, Live
  <2>2. Recent(msg)
    BY TcpAssumption DEF Recent, TidInv, TypeOK, Message
  <2>3. CASE sockets[sock[ctx]].up
    <3>1. sockets' = [sockets EXCEPT ![sock[ctx]] = [sockets[sock[ctx]] EXCEPT !.req = Append(@, msg)]]
      BY <1>4, <2>3 DEF SendWorks, Delivered
    <3>2. AllRecent(sockets[sock[ctx]].req) /\ AllRecent(sockets[sock[ctx]].rsp)
          /\ sockets[sock[ctx]].req \in Seq(Message)
      BY <1>0, <2>1 DEF Good, GoodConn, Conn
    <3>3. AllRecent(Append(sockets[sock[ctx]].req, msg))
      BY <2>2, <3>2, QueueRecent DEF TypeOK
    <3>4. GoodConn([sockets[sock[ctx]] EXCEPT !.req = Append(@, msg)])
      BY <2>1, <3>2, <3>3 DEF GoodConn, Conn
    <3>5. Good(sockets')
      BY <1>0, <2>1, <3>1, <3>4, ReplaceGood
    <3>6. UNCHANGED <<callVars, got>>
      BY <1>4 DEF SendWorks, histVars
    <3> QED BY <1>0, <3>5, <3>6, SameAge DEF RepliesMatched
  <2>4. CASE ~sockets[sock[ctx]].up
    BY <1>0, <1>4, <2>4, SameAge DEF SendWorks, histVars, RepliesMatched
  <2> QED BY <2>3, <2>4
<1>5. CASE SendFails
  BY <1>0, <1>5, SameAge DEF SendFails, histVars, RepliesMatched
<1>6. CASE SendAgain
  <2>1. Good(sockets')
    BY <1>0, <1>6, ReconnectGood, FlushedGood DEF SendAgain
  <2> QED BY <1>0, <1>6, <2>1, SameAge DEF SendAgain, RepliesMatched
<1>7. CASE ReceiveReply
  <2> DEFINE r == Head(sockets[sock[ctx]].rsp)
  <2>1. sock[ctx] \in Fds /\ sockets[sock[ctx]] \in Conn /\ sockets[sock[ctx]] # None
    BY <1>7, LiveConn DEF ReceiveReply, TypeOK, Live, WaitsOnSocket
  <2>2. /\ sockets[sock[ctx]].rsp \in Seq(Message) /\ sockets[sock[ctx]].rsp # <<>>
        /\ AllRecent(sockets[sock[ctx]].rsp) /\ AllRecent(sockets[sock[ctx]].req)
    BY <1>0, <1>7, <2>1 DEF ReceiveReply, Conn, Good, GoodConn
  <2>3. AllRecent(Tail(sockets[sock[ctx]].rsp)) /\ Recent(r) /\ r \in Message
    <3>1. Recent(msg) /\ msg \in Message
      BY TcpAssumption DEF Recent, TidInv, TypeOK, Message
    <3>2. r \in Message
      BY <2>2
    <3> QED BY <2>2, <3>1, <3>2, QueueRecent
  <2>4. GoodConn([sockets[sock[ctx]] EXCEPT !.rsp = Tail(@)])
    BY <2>1, <2>2, <2>3 DEF GoodConn, Conn
  <2>5. sockets' = [sockets EXCEPT ![sock[ctx]] = [sockets[sock[ctx]] EXCEPT !.rsp = Tail(@)]]
    BY <1>7 DEF ReceiveReply
  <2>6. Good(sockets')
    BY <1>0, <2>1, <2>4, <2>5, ReplaceGood
  <2>7. RepliesMatched'
    <3>1. CASE Confirms(r)
      <4>1. got' = [asked |-> msg, answered |-> r, server |-> sockets[sock[ctx]].server]
        BY <1>7, <3>1 DEF ReceiveReply
      <4>2. r = msg \/ msg.n - r.n >= TidSpace
        BY <2>3, <3>1, SameTid
      <4> QED BY <4>1, <4>2 DEF RepliesMatched
    <3>2. CASE ~Confirms(r)
      BY <1>0, <1>7, <3>2 DEF ReceiveReply, RepliesMatched
    <3> QED BY <3>1, <3>2
  <2>8. UNCHANGED callVars
    BY <1>7 DEF ReceiveReply
  <2> QED BY <2>6, <2>7, <2>8, SameAge
<1>8. CASE TimeOut
  BY <1>0, <1>8, SameAge DEF TimeOut, RepliesMatched
<1>9. CASE PeerGone
  <2>1. Good(sockets')
    BY <1>0, <1>9, ReconnectGood DEF PeerGone
  <2> QED BY <1>0, <1>9, <2>1, SameAge DEF PeerGone, RepliesMatched
<1>10. CASE Flush
  <2>1. Good(sockets')
    BY <1>0, <1>10, FlushedGood DEF Flush
  <2> QED BY <1>0, <1>10, <2>1, SameAge DEF Flush, histVars, RepliesMatched
<1>11. ASSUME NEW c \in Clients, Listen(c) PROVE TidInv'
  BY <1>0, <1>11, SameAge DEF Listen, histVars, RepliesMatched
<1>12. ASSUME NEW c \in Clients, AcceptFails(c) \/ Crash(c) PROVE TidInv'
  <2>1. PICK w \in BOOLEAN : sockets' = Reset(c, w)
    BY <1>12 DEF AcceptFails, Crash
  <2>2. ASSUME NEW f \in Fds, sockets'[f] # None PROVE GoodConn(sockets'[f])
    <3>1. sockets[f] # None /\ GoodConn(sockets[f]) /\ sockets[f] \in Conn
      BY <1>0, <2>1, <2>2 DEF Reset, Good, Tables
    <3>2. GoodConn([sockets[f] EXCEPT !.up = FALSE, !.req = <<>>, !.rsp = <<>>])
      BY <3>1, EmptyRecent DEF GoodConn, Conn
    <3> QED BY <2>1, <3>1, <3>2 DEF Reset
  <2>3. Good(sockets')
    BY <2>2 DEF Good
  <2>4. UNCHANGED <<callVars, got>>
    BY <1>12 DEF AcceptFails, Crash, histVars
  <2> QED BY <1>0, <2>3, <2>4, SameAge DEF RepliesMatched
<1>13. ASSUME NEW f \in Fds, Accept(f) \/ Drop(f) \/ Answer(f) PROVE TidInv'
  <2>1. sockets[f] # None /\ sockets[f] \in Conn
    BY <1>0, <1>13 DEF Accept, Drop, Answer, Tables
  <2>2. AllRecent(sockets[f].req) /\ AllRecent(sockets[f].rsp)
        /\ sockets[f].req \in Seq(Message) /\ sockets[f].rsp \in Seq(Message)
    BY <1>0, <2>1 DEF Good, GoodConn, Conn
  <2>3. PICK k : GoodConn(k) /\ sockets' = [sockets EXCEPT ![f] = k]
    <3>1. CASE Accept(f)
      <4>1. GoodConn([sockets[f] EXCEPT !.accepted = TRUE])
        BY <2>1, <2>2 DEF GoodConn, Conn
      <4>2. sockets' = [sockets EXCEPT ![f] = [sockets[f] EXCEPT !.accepted = TRUE]]
        BY <3>1 DEF Accept
      <4> QED BY <4>1, <4>2
    <3>2. CASE Drop(f)
      <4>1. GoodConn([sockets[f] EXCEPT !.up = FALSE, !.req = <<>>])
        BY <2>1, <2>2, EmptyRecent DEF GoodConn, Conn
      <4>2. sockets' = [sockets EXCEPT ![f] = [sockets[f] EXCEPT !.up = FALSE, !.req = <<>>]]
        BY <1>0, <3>2 DEF Drop, Tables
      <4> QED BY <4>1, <4>2
    <3>3. CASE Answer(f)
      <4>1. sockets[f].req # <<>>
        BY <3>3 DEF Answer
      <4>2. Recent(Head(sockets[f].req)) /\ Head(sockets[f].req) \in Message
            /\ AllRecent(Tail(sockets[f].req))
        <5>1. Recent(msg) /\ msg \in Message
          BY TcpAssumption DEF Recent, TidInv, TypeOK, Message
        <5>2. Head(sockets[f].req) \in Message
          BY <2>2, <4>1
        <5> QED BY <2>2, <4>1, <5>1, <5>2, QueueRecent
      <4>3. AllRecent(Append(sockets[f].rsp, Head(sockets[f].req)))
        BY <2>2, <4>2, QueueRecent
      <4>4. GoodConn([sockets[f] EXCEPT !.req = Tail(@), !.rsp = Append(@, Head(sockets[f].req))])
        BY <2>1, <4>2, <4>3 DEF GoodConn, Conn
      <4>5. sockets' = [sockets EXCEPT ![f] = [sockets[f] EXCEPT
                            !.req = Tail(@), !.rsp = Append(@, Head(sockets[f].req))]]
        BY <1>0, <3>3 DEF Answer, Tables
      <4> QED BY <4>4, <4>5
    <3> QED BY <1>13, <3>1, <3>2, <3>3
  <2>4. Good(sockets')
    BY <1>0, <2>3, ReplaceGood
  <2>5. UNCHANGED <<callVars, got>>
    BY <1>13 DEF Accept, Drop, Answer, histVars
  <2> QED BY <1>0, <2>4, <2>5, SameAge DEF RepliesMatched
<1>14. CASE UNCHANGED vars
  <2>1. UNCHANGED callVars /\ sockets' = sockets /\ got' = got
    BY <1>14 DEF vars, callVars
  <2> QED BY <1>0, <2>1, SameAge DEF RepliesMatched
<1> QED BY <1>1, <1>2, <1>3, <1>4, <1>5, <1>6, <1>7, <1>8, <1>9, <1>10, <1>11, <1>12,
           <1>13, <1>14 DEF Next, CallStep, ServerStep

\* No call takes the reply to another request, unless 65536 requests (TidSpace) lie
\* between them, whatever is lost, closed, reconnected or mixed up between contexts.
THEOREM RepliesAreMatched == Spec => []RepliesMatched
<1>1. TidInv => RepliesMatched
  BY DEF TidInv
<1> QED BY <1>1, InitTypeOK, NextTypeOK, InitTid, NextTidInv, PTL DEF Spec

----------------------------------------------------------------------------
(* Every context talks to its own server. *)

\* The inductive invariant: the call under way is one of a connected context's, and
\* unless a connect has failed every connected context has a socket to its server.
OwnInv ==
    /\ msg.by = ctx
    /\ pc # "idle" => ctx \in open
    /\ OwnConnection

\* The contexts cs have a socket of the table, to their own server.
Own(cs, table) ==
    \A c \in cs : sock[c] \in Fds /\ table[sock[c]] # None /\ table[sock[c]].server = c

LEMMA OwnIsOwn == OwnConnection =>
    (stale = {} => Own(open, sockets) /\ (got # None => got.server = got.asked.by))
  BY DEF OwnConnection, Own, Live

\* A step that keeps numbers, contexts and servers keeps the connections.
LEMMA SameServers ==
  ASSUME OwnInv, UNCHANGED <<sock, open, stale, got, ctx, msg>>,
         pc' # "idle" => pc # "idle",
         \A f \in Fds : sockets[f] # None =>
             sockets'[f] # None /\ sockets'[f].server = sockets[f].server
  PROVE  OwnInv'
  BY DEF OwnInv, OwnConnection, Live

\* Closing a context's socket takes nothing from the others: theirs have other servers.
LEMMA CloseOthers ==
  ASSUME sockets \in Tables, NEW c \in Clients, NEW cs, c \in cs, Own(cs, sockets)
  PROVE  Own(cs \ {c}, Closed(sockets, sock[c]))
<1>1. sock[c] \in Fds /\ sockets[sock[c]].server = c
  BY DEF Own
<1>2. ASSUME NEW d \in cs \ {c}
      PROVE  /\ sock[d] \in Fds /\ sock[d] # sock[c]
             /\ sockets[sock[d]] # None /\ sockets[sock[d]].server = d
  BY <1>1 DEF Own
<1>3. Closed(sockets, sock[c]) = [sockets EXCEPT ![sock[c]] = None]
  BY <1>1 DEF Closed
<1> QED BY <1>1, <1>2, <1>3 DEF Own, Tables

\* A connect that works leaves the others their sockets and gives the context its own.
LEMMA ConnectOwn ==
  ASSUME TypeOK, NEW c \in Clients, NEW table \in Tables, ConnectOn(c, table),
         stale' = {}, NEW cs, cs \subseteq Clients, Own(cs \ {c}, table)
  PROVE  stale = {} /\ Own(cs \cup {c}, sockets)'
<1>1. PICK o \in Connected(c, table) \cup Refused(c, table) :
          /\ sockets' = o.table
          /\ sock' = [sock EXCEPT ![c] = o.s]
          /\ stale' = IF o.ok THEN stale ELSE stale \cup {c}
  BY DEF ConnectOn
<1>2. o.ok /\ stale = {}
  <2>1. CASE o.ok
    BY <1>1, <2>1
  <2>2. CASE ~o.ok
    BY <1>1, <2>2
  <2> QED BY <2>1, <2>2
<1>3. o \in Connected(c, table)
  <2>1. o \in Refused(c, table) => o.ok = FALSE
    BY DEF Refused
  <2> QED BY <1>1, <1>2, <2>1
<1>4. PICK f \in IF listening[c] THEN Unused(table) ELSE {} :
          o = [table |-> [table EXCEPT ![f] = Fresh(c)], s |-> f, ok |-> TRUE]
  BY <1>3, Zenon DEF Connected
<1>5. f \in Fds /\ table[f] = None
  <2>1. f \in Unused(table)
    BY <1>4, Zenon
  <2> QED BY <2>1 DEF Unused
<1>6. sockets' = [table EXCEPT ![f] = Fresh(c)] /\ sock' = [sock EXCEPT ![c] = f]
  BY <1>1, <1>4
<1>7. Fresh(c) # None /\ Fresh(c).server = c
  <2>1. Fresh(c) \in Conn
    BY DEF Fresh, Conn
  <2> QED BY <2>1, NoneAssumption DEF Fresh
<1>8. ASSUME NEW d \in cs \cup {c}
      PROVE  sock'[d] \in Fds /\ sockets'[sock'[d]] # None /\ sockets'[sock'[d]].server = d
  <2>1. CASE d = c
    BY <1>5, <1>6, <1>7, <2>1 DEF Tables, TypeOK
  <2>2. CASE d # c
    <3>1. sock'[d] = sock[d] /\ sock[d] \in Fds /\ table[sock[d]] # None /\ table[sock[d]].server = d
      BY <1>6, <2>2 DEF Own, TypeOK
    <3>2. sock[d] # f
      BY <1>5, <3>1
    <3> QED BY <1>5, <1>6, <3>1, <3>2 DEF Tables
  <2> QED BY <2>1, <2>2
<1> QED BY <1>2, <1>8 DEF Own

\* So does the recovery's.
LEMMA ReconnectOwn ==
  ASSUME TypeOK, OwnInv, ctx \in open, Reconnect(ctx), open' = open, got' = got
  PROVE  OwnConnection'
<1> SUFFICES ASSUME stale' = {}
             PROVE  Own(open, sockets)' /\ (got # None => got.server = got.asked.by)
  BY DEF OwnConnection, Own, Live
<1>0. sockets \in Tables /\ ctx \in Clients /\ open \subseteq Clients
  BY DEF TypeOK, Tables
<1>1. Closed(sockets, sock[ctx]) \in Tables
  BY <1>0, ClosedType
<1>2. stale = {}
  BY DEF Reconnect, ConnectOn
<1>3. Own(open, sockets) /\ (got # None => got.server = got.asked.by)
  BY <1>2, OwnIsOwn DEF OwnInv
<1>4. Own(open \ {ctx}, Closed(sockets, sock[ctx]))
  BY <1>0, <1>3, CloseOthers
<1>5. \A c \in open \cup {ctx} : /\ sock'[c] \in Fds /\ sockets'[sock'[c]] # None
                                 /\ sockets'[sock'[c]].server = c
  <2>1. ConnectOn(ctx, Closed(sockets, sock[ctx]))
    BY DEF Reconnect
  <2> QED BY <1>0, <1>1, <1>4, <2>1, ConnectOwn DEF Own
<1> QED BY <1>3, <1>5 DEF Own

\* A flush keeps every connection's server.
LEMMA FlushedServers ==
  ASSUME TypeOK, sockets' = Flushed(ctx), NEW f \in Fds, sockets[f] # None
  PROVE  sockets'[f] # None /\ sockets'[f].server = sockets[f].server
<1>1. sockets'[f] # None
  BY FlushedType
<1>2. CASE Live(ctx) /\ f = sock[ctx]
  <2>1. sockets[f] \in Conn
    BY DEF TypeOK
  <2> QED BY <1>1, <1>2, <2>1 DEF Flushed, TypeOK, Conn
<1>3. CASE ~(Live(ctx) /\ f = sock[ctx])
  BY <1>1, <1>3 DEF Flushed, TypeOK
<1> QED BY <1>2, <1>3

LEMMA InitOwn == Init => OwnInv
  BY DEF Init, OwnInv, OwnConnection

\* Every step keeps the contexts on their own connections.
LEMMA NextOwn == TypeOK /\ WaitsOnSocket /\ OwnInv /\ [Next]_vars => OwnInv'
<1> SUFFICES ASSUME TypeOK, WaitsOnSocket, OwnInv, [Next]_vars PROVE OwnInv'
  OBVIOUS
<1>0. sockets \in Tables /\ open \subseteq Clients /\ ctx \in Clients
  BY DEF TypeOK, Tables
<1>1. ASSUME NEW c \in Clients, Connect(c) PROVE OwnInv'
  <2>1. /\ ConnectOn(c, sockets) /\ open' = open \cup {c} /\ c \notin open
        /\ UNCHANGED <<callVars, pc, got>>
    BY <1>1 DEF Connect
  <2>2. ASSUME stale' = {}
        PROVE  /\ \A d \in open \cup {c} : /\ sock'[d] \in Fds /\ sockets'[sock'[d]] # None
                                           /\ sockets'[sock'[d]].server = d
               /\ got # None => got.server = got.asked.by
    <3>1. stale = {}
      BY <2>1, <2>2 DEF ConnectOn
    <3>2. Own(open, sockets) /\ (got # None => got.server = got.asked.by)
      BY <3>1, OwnIsOwn DEF OwnInv
    <3>3. Own(open \ {c}, sockets)
      BY <3>2 DEF Own
    <3>4. /\ \A d \in open \cup {c} : sock'[d] \in Fds /\ sockets'[sock'[d]] # None
                                      /\ sockets'[sock'[d]].server = d
      BY <1>0, <2>1, <2>2, <3>3, ConnectOwn DEF Own
    <3> QED BY <3>2, <3>4
  <2>3. OwnConnection'
    BY <2>1, <2>2 DEF OwnConnection, Own, Live
  <2> QED BY <2>1, <2>3 DEF OwnInv, callVars
<1>2. ASSUME NEW c \in Clients, Close(c) PROVE OwnInv'
  <2>1. /\ c \in open /\ pc = "idle" /\ open' = open \ {c}
        /\ sockets' = Closed(sockets, sock[c])
        /\ UNCHANGED <<sock, ctx, msg, pc, stale, got>>
    BY <1>2 DEF Close, callVars, histVars
  <2>2. ASSUME stale = {}
        PROVE  Own(open \ {c}, sockets') /\ (got # None => got.server = got.asked.by)
    BY <1>0, <2>1, <2>2, OwnIsOwn, CloseOthers DEF OwnInv
  <2>3. OwnConnection'
    BY <2>1, <2>2 DEF OwnConnection, Own, Live
  <2> QED BY <2>1, <2>3 DEF OwnInv
<1>3. ASSUME NEW c \in Clients, Ask(c) PROVE OwnInv'
  BY <1>3 DEF Ask, histVars, OwnInv, OwnConnection, Live
<1>4. CASE SendWorks
  <2>1. sock[ctx] \in Fds /\ sockets[sock[ctx]] \in Conn /\ sockets[sock[ctx]] # None
    BY <1>4, LiveConn DEF SendWorks, TypeOK, Live
  <2>2. CASE sockets[sock[ctx]].up
    <3>1. Delivered(sockets[sock[ctx]].req) \in Seq(Message)
      BY <2>1 DEF Delivered, Conn, TypeOK
    <3>2. [sockets[sock[ctx]] EXCEPT !.req = Delivered(@)] \in Conn
      BY <2>1, <3>1, ConnChange, NoMessage
    <3>3. [sockets[sock[ctx]] EXCEPT !.req = Delivered(@)].server = sockets[sock[ctx]].server
      BY <2>1 DEF Conn
    <3>4. sockets' = [sockets EXCEPT ![sock[ctx]] = [sockets[sock[ctx]] EXCEPT !.req = Delivered(@)]]
      BY <1>4, <2>2 DEF SendWorks
    <3>5. \A f \in Fds : sockets[f] # None =>
              sockets'[f] # None /\ sockets'[f].server = sockets[f].server
      BY <1>0, <2>1, <3>2, <3>3, <3>4, NoneAssumption DEF Tables
    <3> QED BY <1>4, <3>5, SameServers DEF SendWorks, callVars, histVars
  <2>3. CASE ~sockets[sock[ctx]].up
    BY <1>4, <2>3, SameServers DEF SendWorks, callVars, histVars
  <2> QED BY <2>2, <2>3
<1>5. CASE SendFails
  BY <1>5, SameServers DEF SendFails, callVars, histVars
<1>6. CASE SendAgain
  <2>1. CASE Reconnect(ctx)
    BY <1>6, <2>1, ReconnectOwn DEF SendAgain, OwnInv, callVars
  <2>2. CASE sockets' = Flushed(ctx) /\ UNCHANGED <<sock, stale>>
    BY <1>6, <2>2, FlushedServers, SameServers DEF SendAgain, callVars
  <2> QED BY <1>6, <2>1, <2>2 DEF SendAgain
<1>7. CASE ReceiveReply
  <2>1. sock[ctx] \in Fds /\ sockets[sock[ctx]] \in Conn /\ sockets[sock[ctx]] # None
    BY <1>7, LiveConn DEF ReceiveReply, TypeOK, Live, WaitsOnSocket
  <2>2. /\ sockets' = [sockets EXCEPT ![sock[ctx]] =
                          [sockets[sock[ctx]] EXCEPT !.rsp = Tail(@)]]
        /\ UNCHANGED <<sock, open, ctx, msg, stale>> /\ pc = "recv"
    BY <1>7 DEF ReceiveReply, callVars
  <2>3. \A f \in Fds : sockets[f] # None =>
            sockets'[f] # None /\ sockets'[f].server = sockets[f].server
    <3>1. /\ sockets[sock[ctx]].rsp \in Seq(Message) /\ sockets[sock[ctx]].rsp # <<>>
      BY <1>7, <2>1 DEF ReceiveReply, Conn
    <3>2. [sockets[sock[ctx]] EXCEPT !.rsp = Tail(@)] \in Conn
      <4>1. Tail(sockets[sock[ctx]].rsp) \in Seq(Message)
        BY <3>1
      <4> QED BY <2>1, <4>1, ConnChange, NoMessage
    <3>3. [sockets[sock[ctx]] EXCEPT !.rsp = Tail(@)].server = sockets[sock[ctx]].server
      BY <2>1 DEF Conn
    <3> QED BY <1>0, <2>1, <2>2, <3>2, <3>3, NoneAssumption DEF Tables
  <2>4. got' = got \/ (got'.asked = msg /\ got'.server = sockets[sock[ctx]].server)
    BY <1>7 DEF ReceiveReply
  <2>5. stale = {} => sockets[sock[ctx]].server = msg.by
    BY <2>2, OwnIsOwn DEF OwnInv, Own
  <2> QED BY <2>2, <2>3, <2>4, <2>5 DEF OwnInv, OwnConnection, Live
<1>8. CASE TimeOut
  BY <1>8 DEF TimeOut, callVars, OwnInv, OwnConnection, Live
<1>9. CASE PeerGone
  <2>1. CASE Reconnect(ctx)
    BY <1>9, <2>1, ReconnectOwn DEF PeerGone, OwnInv, callVars
  <2>2. CASE UNCHANGED <<sock, sockets, stale>>
    BY <1>9, <2>2, SameServers DEF PeerGone, callVars
  <2> QED BY <1>9, <2>1, <2>2 DEF PeerGone
<1>10. CASE Flush
  BY <1>10, FlushedServers, SameServers DEF Flush, callVars, histVars
<1>11. ASSUME NEW c \in Clients, Listen(c) PROVE OwnInv'
  BY <1>11, SameServers DEF Listen, callVars, histVars
<1>12. ASSUME NEW c \in Clients, AcceptFails(c) \/ Crash(c) PROVE OwnInv'
  <2>1. PICK w \in BOOLEAN : sockets' = Reset(c, w)
    BY <1>12 DEF AcceptFails, Crash
  <2>2. ASSUME NEW f \in Fds, sockets[f] # None
        PROVE  sockets'[f] # None /\ sockets'[f].server = sockets[f].server
    <3>1. sockets[f] \in Conn
      BY <1>0, <2>2 DEF Tables
    <3>2. [sockets[f] EXCEPT !.up = FALSE, !.req = <<>>, !.rsp = <<>>] # None
      <4>1. [sockets[f] EXCEPT !.up = FALSE, !.req = <<>>, !.rsp = <<>>] \in Conn
        BY <3>1, NoMessage, ConnChange
      <4> QED BY <4>1, NoneAssumption
    <3> QED BY <2>1, <2>2, <3>1, <3>2 DEF Reset, Conn
  <2>3. UNCHANGED <<sock, open, callVars, pc, histVars>>
    BY <1>12 DEF AcceptFails, Crash
  <2> QED BY <2>2, <2>3, SameServers DEF callVars, histVars
<1>13. ASSUME NEW f \in Fds, Accept(f) \/ Drop(f) \/ Answer(f) PROVE OwnInv'
  <2>1. sockets[f] # None /\ sockets[f] \in Conn
    BY <1>0, <1>13 DEF Accept, Drop, Answer, Tables
  <2>2. UNCHANGED <<sock, open, callVars, pc, histVars>>
    BY <1>13 DEF Accept, Drop, Answer, serverVars
  <2>3. sockets'[f].server = sockets[f].server
    BY <1>0, <1>13, <2>1 DEF Accept, Drop, Answer, Tables, Conn
  <2>4. \A g \in Fds \ {f} : sockets'[g] = sockets[g]
    BY <1>0, <1>13 DEF Accept, Drop, Answer, Tables
  <2>5. sockets'[f] # None
    <3>1. PICK k \in Conn : sockets' = [sockets EXCEPT ![f] = k]
      BY <1>13, PeerConn
    <3> QED BY <1>0, <3>1, NoneAssumption DEF Tables
  <2> QED BY <2>2, <2>3, <2>4, <2>5, SameServers DEF callVars, histVars
<1>14. CASE UNCHANGED vars
  BY <1>14, SameServers DEF vars
<1> QED BY <1>1, <1>2, <1>3, <1>4, <1>5, <1>6, <1>7, <1>8, <1>9, <1>10, <1>11, <1>12,
           <1>13, <1>14 DEF Next, CallStep, ServerStep

\* Until a connect fails, every context of the program has a connection to its own
\* server and takes replies from no other, whatever numbers are given out again.
THEOREM ConnectionsAreOwn == Spec => []OwnConnection
<1>1. OwnInv => OwnConnection
  BY DEF OwnInv
<1> QED BY <1>1, InitTypeOK, NextTypeOK, InitOwn, NextOwn, PTL DEF Spec

----------------------------------------------------------------------------
(* Replies still to come. *)

Load(k) == Len(k.req) + Len(k.rsp)

\* What may be under way on a context's connection: one message for every timeout, and
\* one for the call that waits.
Allowed(c) == owed[c] + (IF pc = "recv" /\ c = ctx THEN 1 ELSE 0)

\* A connection that has lost its peer takes no requests there.
DownIsEmpty(table) == \A f \in Fds : table[f] # None /\ ~table[f].up => table[f].req = <<>>

\* The inductive invariant.
OwedInv ==
    /\ DownIsEmpty(sockets)
    /\ stale = {} => \A c \in open : Load(sockets[sock[c]]) <= Allowed(c)

LEMMA LoadType ==
  ASSUME NEW k \in Conn
  PROVE  Load(k) \in Nat /\ k.req \in Seq(Message) /\ k.rsp \in Seq(Message)
  BY DEF Conn, Load

\* How a load changes with what is under way.
LEMMA LoadChange ==
  ASSUME NEW k \in Conn, NEW n \in Conn
  PROVE  /\ (n.req = k.req /\ n.rsp = k.rsp) => Load(n) = Load(k)
         /\ (n.req = k.req /\ n.rsp = <<>>) => Load(n) <= Load(k)
         /\ (n.req = <<>> /\ n.rsp = k.rsp) => Load(n) <= Load(k)
         /\ (n.req = <<>> /\ n.rsp = <<>>) => Load(n) = 0
         /\ \A m \in Message :
                (n.req = Append(k.req, m) /\ n.rsp = k.rsp) => Load(n) = Load(k) + 1
         /\ (k.rsp # <<>> /\ n.req = k.req /\ n.rsp = Tail(k.rsp)) => Load(n) + 1 = Load(k)
         /\ (k.req # <<>> /\ n.req = Tail(k.req) /\ n.rsp = Append(k.rsp, Head(k.req)))
                => Load(n) = Load(k)
<1> DEFINE q == k.req
           r == k.rsp
<1>1. q \in Seq(Message) /\ r \in Seq(Message)
  BY LoadType
<1>2. Load(k) = Len(q) + Len(r) /\ Load(n) = Len(n.req) + Len(n.rsp)
  BY DEF Load
<1>3. Len(q) \in Nat /\ Len(r) \in Nat /\ Len(<<>>) = 0
  BY <1>1
<1>4. \A m \in Message : Len(Append(q, m)) = Len(q) + 1
  BY <1>1
<1>5. r # <<>> => Len(Tail(r)) = Len(r) - 1
  BY <1>1
<1>6. q # <<>> => Len(Tail(q)) = Len(q) - 1 /\ Len(Append(r, Head(q))) = Len(r) + 1
  BY <1>1
<1>8. /\ (n.req = q /\ n.rsp = r) => Load(n) = Load(k)
      /\ (n.req = q /\ n.rsp = <<>>) => Load(n) <= Load(k)
      /\ (n.req = <<>> /\ n.rsp = r) => Load(n) <= Load(k)
      /\ (n.req = <<>> /\ n.rsp = <<>>) => Load(n) = 0
  <2>1. \A i, j \in Nat : i + 0 <= i + j /\ 0 + j <= i + j
    OBVIOUS
  <2>2. 0 + 0 = 0
    OBVIOUS
  <2> HIDE DEF q, r
  <2>3. (n.req = q /\ n.rsp = r) => Load(n) = Load(k)
    BY <1>2
  <2>4. (n.req = q /\ n.rsp = <<>>) => Load(n) <= Load(k)
    BY <1>2, <1>3, <2>1, Zenon
  <2>5. (n.req = <<>> /\ n.rsp = r) => Load(n) <= Load(k)
    BY <1>2, <1>3, <2>1, Zenon
  <2>6. (n.req = <<>> /\ n.rsp = <<>>) => Load(n) = 0
    BY <1>2, <1>3, <2>2, Zenon
  <2> QED BY <2>3, <2>4, <2>5, <2>6
<1>9. ASSUME NEW m \in Message, n.req = Append(q, m), n.rsp = r
      PROVE  Load(n) = Load(k) + 1
  <2> HIDE DEF q, r
  <2> QED BY <1>2, <1>3, <1>4, <1>9
<1>10. ASSUME r # <<>>, n.req = q, n.rsp = Tail(r)
       PROVE  Load(n) + 1 = Load(k)
  <2> HIDE DEF q, r
  <2> QED BY <1>2, <1>3, <1>5, <1>10
<1>11. ASSUME q # <<>>, n.req = Tail(q), n.rsp = Append(r, Head(q))
       PROVE  Load(n) = Load(k)
  <2>1. \A i, j \in Nat : (i - 1) + (j + 1) = i + j
    OBVIOUS
  <2> HIDE DEF q, r
  <2>2. Load(n) = Len(Tail(q)) + Len(Append(r, Head(q)))
    BY <1>2, <1>11, Zenon
  <2>3. Load(n) = (Len(q) - 1) + (Len(r) + 1)
    BY <1>6, <1>11, <2>2, Zenon
  <2> QED BY <1>2, <1>3, <2>1, <2>3, Zenon
<1> QED BY <1>8, <1>9, <1>10, <1>11

LEMMA AllowedType ==
  ASSUME TypeOK, NEW c \in Clients
  PROVE  Allowed(c) \in Nat /\ owed[c] \in Nat
  BY DEF TypeOK, Allowed

\* A step that puts nothing under way, and takes no allowance away, keeps the invariant.
LEMMA Lighter ==
  ASSUME TypeOK, TypeOK', OwnInv, OwedInv, UNCHANGED <<sock, open, stale>>,
         \A c \in Clients : Allowed(c) <= Allowed(c)',
         \A f \in Fds : sockets[f] # None =>
             Load(sockets'[f]) <= Load(sockets[f]) /\ sockets'[f] # None,
         DownIsEmpty(sockets')
  PROVE  OwedInv'
<1>1. ASSUME stale' = {}, NEW c \in open
      PROVE  Load(sockets'[sock[c]]) <= Allowed(c)'
  <2>1. c \in Clients /\ sock[c] \in Fds /\ sockets[sock[c]] # None
    BY <1>1 DEF TypeOK, OwnInv, OwnConnection, Live
  <2>2. sockets[sock[c]] \in Conn /\ sockets'[sock[c]] \in Conn
    BY <2>1 DEF TypeOK
  <2>3. Load(sockets[sock[c]]) \in Nat /\ Load(sockets'[sock[c]]) \in Nat
    BY <2>2, LoadType
  <2>4. Allowed(c) \in Nat
    BY <2>1, AllowedType
  <2>5. Allowed(c)' \in Nat
    BY <2>1 DEF TypeOK, Allowed
  <2>6. Load(sockets'[sock[c]]) <= Load(sockets[sock[c]]) /\ Load(sockets[sock[c]]) <= Allowed(c)
        /\ Allowed(c) <= Allowed(c)'
    BY <1>1, <2>1 DEF OwedInv
  <2> QED BY <2>3, <2>4, <2>5, <2>6
<1>2. ASSUME stale' = {}, NEW c \in open'
      PROVE  Load(sockets'[sock'[c]]) <= Allowed(c)'
  BY <1>1, <1>2
<1> QED BY <1>2 DEF OwedInv, DownIsEmpty

\* Where a connect that works puts the new connection.
LEMMA ConnectPlace ==
  ASSUME NEW c \in Clients, NEW table \in Tables, ConnectOn(c, table)
  PROVE  \/ sockets' = table /\ stale' = stale \cup {c}
         \/ \E f \in Fds : /\ table[f] = None
                           /\ sockets' = [table EXCEPT ![f] = Fresh(c)]
                           /\ sock' = [sock EXCEPT ![c] = f]
<1>1. PICK o \in Connected(c, table) \cup Refused(c, table) :
          /\ sockets' = o.table
          /\ sock' = [sock EXCEPT ![c] = o.s]
          /\ stale' = IF o.ok THEN stale ELSE stale \cup {c}
  BY DEF ConnectOn
<1>2. CASE o \in Refused(c, table)
  <2>1. o.table = table /\ o.ok = FALSE
    BY <1>2 DEF Refused
  <2> QED BY <1>1, <2>1
<1>3. CASE o \in Connected(c, table)
  <2>1. PICK f \in IF listening[c] THEN Unused(table) ELSE {} :
            o = [table |-> [table EXCEPT ![f] = Fresh(c)], s |-> f, ok |-> TRUE]
    BY <1>3, Zenon DEF Connected
  <2>2. f \in Unused(table)
    BY <2>1, Zenon
  <2>3. f \in Fds /\ table[f] = None
    BY <2>2 DEF Unused
  <2>4. sockets' = [table EXCEPT ![f] = Fresh(c)] /\ sock' = [sock EXCEPT ![c] = f]
    BY <1>1, <2>1
  <2> QED BY <2>3, <2>4
<1> QED BY <1>1, <1>2, <1>3

LEMMA ConnectDown ==
  ASSUME NEW c \in Clients, NEW table \in Tables, ConnectOn(c, table), DownIsEmpty(table)
  PROVE  DownIsEmpty(sockets')
<1>1. CASE sockets' = table
  BY <1>1
<1>2. CASE \E f \in Fds : sockets' = [table EXCEPT ![f] = Fresh(c)]
  <2>1. PICK f \in Fds : sockets' = [table EXCEPT ![f] = Fresh(c)]
    BY <1>2
  <2>2. Fresh(c).up
    BY DEF Fresh
  <2> QED BY <2>1, <2>2 DEF DownIsEmpty, Tables
<1> QED BY <1>1, <1>2, ConnectPlace

LEMMA ClosedDown ==
  ASSUME NEW table \in Tables, NEW s, DownIsEmpty(table)
  PROVE  DownIsEmpty(Closed(table, s))
  BY DEF Closed, Tables, DownIsEmpty

\* A connect that works starts with nothing under way and leaves the others' loads.
LEMMA ConnectLoad ==
  ASSUME TypeOK, NEW c \in Clients, NEW table \in Tables, ConnectOn(c, table),
         stale' = {}, NEW d \in Clients,
         d # c => sock[d] \in Fds /\ table[sock[d]] # None
  PROVE  IF d = c THEN Load(sockets'[sock'[d]]) = 0
                  ELSE sockets'[sock'[d]] = table[sock[d]]
<1>1. PICK f \in Fds : /\ table[f] = None
                       /\ sockets' = [table EXCEPT ![f] = Fresh(c)]
                       /\ sock' = [sock EXCEPT ![c] = f]
  BY ConnectPlace
<1>2. CASE d = c
  <2>1. sockets'[sock'[d]] = Fresh(c)
    BY <1>1, <1>2 DEF TypeOK, Tables
  <2> QED BY <1>2, <2>1 DEF Load, Fresh
<1>3. CASE d # c
  <2>1. sock'[d] = sock[d] /\ sock[d] # f
    BY <1>1, <1>3 DEF TypeOK
  <2> QED BY <1>1, <1>3, <2>1 DEF Tables
<1> QED BY <1>2, <1>3

\* The recovery's connect leaves nothing of the old connection's messages.
LEMMA ReconnectOwed ==
  ASSUME TypeOK, TypeOK', OwnInv, OwedInv, ctx \in open, Reconnect(ctx), open' = open,
         UNCHANGED <<owed, ctx>>, pc' = "recv" => pc = "recv"
  PROVE  OwedInv'
<1>0. sockets \in Tables /\ ctx \in Clients /\ open \subseteq Clients
  BY DEF TypeOK, Tables
<1>1. Closed(sockets, sock[ctx]) \in Tables /\ DownIsEmpty(Closed(sockets, sock[ctx]))
  BY <1>0, ClosedType, ClosedDown DEF OwedInv
<1>2. ConnectOn(ctx, Closed(sockets, sock[ctx]))
  BY DEF Reconnect
<1>3. DownIsEmpty(sockets')
  BY <1>0, <1>1, <1>2, ConnectDown
<1>4. ASSUME stale' = {}, NEW c \in open
      PROVE  Load(sockets'[sock'[c]]) <= Allowed(c)'
  <2>1. stale = {} /\ c \in Clients
    BY <1>0, <1>2, <1>4 DEF ConnectOn
  <2>2. Own(open, sockets)
    BY <2>1, OwnIsOwn DEF OwnInv
  <2>3. Own(open \ {ctx}, Closed(sockets, sock[ctx]))
    BY <1>0, <2>2, CloseOthers
  <2>4. Allowed(c)' \in Nat
    BY <2>1 DEF TypeOK, Allowed
  <2>5. CASE c = ctx
    <3>1. Load(sockets'[sock'[c]]) = 0
      BY <1>0, <1>1, <1>2, <1>4, <2>1, <2>5, ConnectLoad
    <3> QED BY <2>4, <3>1
  <2>6. CASE c # ctx
    <3>1. sock[c] \in Fds /\ Closed(sockets, sock[ctx])[sock[c]] # None
      BY <1>4, <2>3, <2>6 DEF Own
    <3>2. sockets'[sock'[c]] = Closed(sockets, sock[ctx])[sock[c]]
      BY <1>0, <1>1, <1>2, <1>4, <2>1, <2>6, <3>1, ConnectLoad
    <3>3. Closed(sockets, sock[ctx])[sock[c]] = sockets[sock[c]]
      BY <1>0, <3>1 DEF Closed, Tables
    <3>4. Allowed(c)' = Allowed(c)
      BY <2>6 DEF Allowed
    <3> QED BY <1>4, <2>1, <3>2, <3>3, <3>4 DEF OwedInv
  <2> QED BY <2>5, <2>6
<1>5. ASSUME stale' = {}, NEW c \in open' PROVE Load(sockets'[sock'[c]]) <= Allowed(c)'
  BY <1>4, <1>5
<1> QED BY <1>3, <1>5 DEF OwedInv, DownIsEmpty

\* A flush only takes replies away.
LEMMA FlushedLoad ==
  ASSUME TypeOK, DownIsEmpty(sockets), sockets' = Flushed(ctx)
  PROVE  /\ DownIsEmpty(sockets')
         /\ \A f \in Fds : sockets[f] # None =>
                Load(sockets'[f]) <= Load(sockets[f]) /\ sockets'[f] # None
<1>0. sockets \in Tables /\ ctx \in Clients
  BY DEF TypeOK, Tables
<1>1. CASE Live(ctx)
  <2>1. sock[ctx] \in Fds /\ sockets[sock[ctx]] \in Conn /\ sockets[sock[ctx]] # None
    BY <1>0, <1>1, LiveConn DEF Live
  <2>2. sockets' = [sockets EXCEPT ![sock[ctx]] = [sockets[sock[ctx]] EXCEPT !.rsp = <<>>]]
    BY <1>1 DEF Flushed
  <2>3. /\ [sockets[sock[ctx]] EXCEPT !.rsp = <<>>].req = sockets[sock[ctx]].req
        /\ [sockets[sock[ctx]] EXCEPT !.rsp = <<>>].rsp = <<>>
        /\ [sockets[sock[ctx]] EXCEPT !.rsp = <<>>].up = sockets[sock[ctx]].up
    BY <2>1 DEF Conn
  <2>4. Load([sockets[sock[ctx]] EXCEPT !.rsp = <<>>]) <= Load(sockets[sock[ctx]])
    <3>1. [sockets[sock[ctx]] EXCEPT !.rsp = <<>>] \in Conn
      BY <2>1, ConnChange, NoMessage
    <3> QED BY <2>1, <2>3, <3>1, LoadChange
  <2>5. ASSUME NEW f \in Fds, sockets[f] # None
        PROVE  /\ Load(sockets'[f]) <= Load(sockets[f]) /\ sockets'[f] # None
               /\ ~sockets'[f].up => sockets'[f].req = <<>>
    <3>1. Load(sockets[f]) \in Nat
      BY <1>0, <2>5, LoadType DEF Tables
    <3>2. sockets'[f] # None
      BY <2>5, FlushedType
    <3>3. CASE f = sock[ctx]
      <4>1. sockets'[f] = [sockets[sock[ctx]] EXCEPT !.rsp = <<>>]
        BY <1>0, <2>1, <2>2, <3>3 DEF Tables
      <4> QED BY <2>1, <2>3, <2>4, <3>2, <3>3, <4>1 DEF DownIsEmpty
    <3>4. CASE f # sock[ctx]
      BY <1>0, <2>2, <2>5, <3>1, <3>4 DEF Tables, DownIsEmpty
    <3> QED BY <3>3, <3>4
  <2>6. ASSUME NEW f \in Fds, sockets'[f] # None PROVE sockets[f] # None
    BY <2>6, FlushedType
  <2> QED BY <2>5, <2>6 DEF DownIsEmpty
<1>2. CASE ~Live(ctx)
  <2>1. sockets' = sockets
    BY <1>2 DEF Flushed
  <2>2. \A f \in Fds : sockets[f] # None => Load(sockets[f]) \in Nat
    BY <1>0, LoadType DEF Tables
  <2> QED BY <2>1, <2>2
<1> QED BY <1>1, <1>2

LEMMA InitOwed == Init => OwedInv
  BY DEF Init, OwedInv, DownIsEmpty

\* Every step keeps the count of what is under way: a request is one more only while
\* its call waits, and a call that stops waiting has had its reply, a timeout, or a
\* peer that will not send any.
LEMMA NextOwed ==
  TypeOK /\ TypeOK' /\ WaitsOnSocket /\ OwnInv /\ OwedInv /\ [Next]_vars => OwedInv'
<1> SUFFICES ASSUME TypeOK, TypeOK', WaitsOnSocket, OwnInv, OwedInv, [Next]_vars PROVE OwedInv'
  OBVIOUS
<1>0. /\ sockets \in Tables /\ open \subseteq Clients /\ ctx \in Clients
      /\ DownIsEmpty(sockets)
      /\ \A c \in Clients : Allowed(c) \in Nat /\ owed[c] \in Nat
      /\ \A f \in Fds : sockets[f] # None => Load(sockets[f]) \in Nat
  <2>1. sockets \in Tables /\ open \subseteq Clients /\ ctx \in Clients
    BY DEF TypeOK, Tables
  <2>2. \A f \in Fds : sockets[f] # None => Load(sockets[f]) \in Nat
    BY <2>1, LoadType DEF Tables
  <2> QED BY <2>1, <2>2, AllowedType DEF OwedInv
\* A step of the program or a server that leaves the sockets alone.
<1>a. ASSUME UNCHANGED <<sock, sockets, open, stale, owed, ctx>>, pc = "recv" => pc' = "recv"
      PROVE  OwedInv'
  <2>1. \A c \in Clients : Allowed(c) <= Allowed(c)'
    BY <1>0, <1>a DEF Allowed
  <2> QED BY <1>0, <1>a, <2>1, Lighter
<1>1. ASSUME NEW c \in Clients, Connect(c) PROVE OwedInv'
  <2>1. /\ ConnectOn(c, sockets) /\ open' = open \cup {c} /\ c \notin open
        /\ UNCHANGED <<ctx, pc, owed>>
    BY <1>1 DEF Connect, callVars
  <2>2. DownIsEmpty(sockets')
    BY <1>0, <2>1, ConnectDown
  <2>3. ASSUME stale' = {}, NEW d \in open \cup {c}
        PROVE  Load(sockets'[sock'[d]]) <= Allowed(d)'
    <3>1. stale = {} /\ d \in Clients
      BY <1>0, <2>1, <2>3 DEF ConnectOn
    <3>2. d # c => sock[d] \in Fds /\ sockets[sock[d]] # None
      BY <2>3, <3>1, OwnIsOwn DEF OwnInv, Own
    <3>3. Allowed(d)' = Allowed(d) /\ Allowed(d) \in Nat
      BY <1>0, <2>1, <3>1 DEF Allowed
    <3>4. IF d = c THEN Load(sockets'[sock'[d]]) = 0 ELSE sockets'[sock'[d]] = sockets[sock[d]]
      BY <1>0, <2>1, <2>3, <3>1, <3>2, ConnectLoad
    <3>5. CASE d = c
      BY <3>3, <3>4, <3>5
    <3>6. CASE d # c
      BY <2>3, <3>1, <3>3, <3>4, <3>6 DEF OwedInv
    <3> QED BY <3>5, <3>6
  <2> QED BY <2>1, <2>2, <2>3 DEF OwedInv, DownIsEmpty
<1>2. ASSUME NEW c \in Clients, Close(c) PROVE OwedInv'
  <2>1. /\ c \in open /\ open' = open \ {c} /\ sockets' = Closed(sockets, sock[c])
        /\ UNCHANGED <<sock, ctx, pc, stale, owed>>
    BY <1>2 DEF Close, callVars, histVars
  <2>2. DownIsEmpty(sockets')
    BY <1>0, <2>1, ClosedDown
  <2>3. ASSUME stale' = {}, NEW d \in open \ {c}
        PROVE  Load(sockets'[sock'[d]]) <= Allowed(d)'
    <3>1. Own(open \ {c}, Closed(sockets, sock[c]))
      BY <1>0, <2>1, <2>3, OwnIsOwn, CloseOthers DEF OwnInv
    <3>2. sock[d] \in Fds /\ Closed(sockets, sock[c])[sock[d]] # None
      BY <2>3, <3>1 DEF Own
    <3>3. Closed(sockets, sock[c])[sock[d]] = sockets[sock[d]]
      BY <1>0, <3>2 DEF Closed, Tables
    <3> QED BY <2>1, <2>3, <3>3 DEF OwedInv, Allowed
  <2> QED BY <2>1, <2>2, <2>3 DEF OwedInv, DownIsEmpty
<1>3. ASSUME NEW c \in Clients, Ask(c) PROVE OwedInv'
  <2>1. /\ UNCHANGED <<sock, sockets, open, stale, owed>> /\ pc = "idle" /\ pc' = "send"
    BY <1>3 DEF Ask, histVars
  <2>2. \A d \in Clients : Allowed(d) <= Allowed(d)'
    BY <1>0, <2>1 DEF Allowed
  <2> QED BY <1>0, <2>1, <2>2, Lighter
<1>4. CASE SendWorks
  <2>1. sock[ctx] \in Fds /\ sockets[sock[ctx]] \in Conn /\ sockets[sock[ctx]] # None
    BY <1>4, LiveConn DEF SendWorks, TypeOK, Live
  <2>2. /\ UNCHANGED <<sock, open, stale, owed, ctx>> /\ pc = "send" /\ pc' = "recv"
    BY <1>4 DEF SendWorks, callVars, histVars
  <2>3. CASE ~sockets[sock[ctx]].up
    BY <1>4, <1>a, <2>2, <2>3 DEF SendWorks
  <2>4. CASE sockets[sock[ctx]].up
    <3> DEFINE k == sockets[sock[ctx]]
               n == [k EXCEPT !.req = Delivered(@)]
    <3>1. sockets' = [sockets EXCEPT ![sock[ctx]] = n]
      BY <1>4, <2>4 DEF SendWorks
    <3>2. n.req = Append(k.req, msg) /\ n.rsp = k.rsp /\ n.up = k.up
      BY <2>1 DEF Delivered, Conn
    <3>3. Load(n) = Load(k) + 1
      <4>1. msg \in Message /\ k \in Conn
        BY <2>1 DEF TypeOK
      <4>2. n \in Conn
        <5>1. Delivered(k.req) \in Seq(Message)
          BY <4>1, LoadType DEF Delivered
        <5> QED BY <2>1, <5>1, ConnChange, NoMessage
      <4> HIDE DEF k, n
      <4> QED BY <3>2, <4>1, <4>2, LoadChange
    <3>4. DownIsEmpty(sockets')
      <4>1. \A f \in Fds : sockets'[f] = IF f = sock[ctx] THEN n ELSE sockets[f]
        BY <1>0, <3>1 DEF Tables
      <4> HIDE DEF n
      <4> QED BY <1>0, <2>4, <3>2, <4>1 DEF DownIsEmpty
    <3>5. ASSUME stale' = {}, NEW c \in open PROVE Load(sockets'[sock[c]]) <= Allowed(c)'
      <4>1. c \in Clients /\ sock[c] \in Fds /\ sockets[sock[c]].server = c /\ k.server = ctx
            /\ sockets[sock[c]] # None
        BY <2>2, <3>5, OwnIsOwn DEF OwnInv, Own, TypeOK
      <4>2. CASE c = ctx
        <5>1. Allowed(c) = owed[c] /\ Allowed(c)' = owed[c] + 1 /\ owed[c] \in Nat
          BY <1>0, <2>2, <4>2 DEF Allowed
        <5>2. sockets'[sock[c]] = n
          BY <1>0, <2>1, <3>1, <4>2 DEF Tables
        <5>3. Load(k) <= Allowed(c)
          BY <2>2, <3>5, <4>2 DEF OwedInv
        <5>4. Load(k) \in Nat
          BY <1>0, <2>1
        <5> HIDE DEF k, n
        <5> QED BY <3>3, <5>1, <5>2, <5>3, <5>4
      <4>3. CASE c # ctx
        <5>1. sockets'[sock[c]] = sockets[sock[c]]
          BY <1>0, <3>1, <4>1, <4>3 DEF Tables
        <5>2. Allowed(c)' = Allowed(c)
          BY <2>2, <4>3 DEF Allowed
        <5> QED BY <2>2, <3>5, <5>1, <5>2 DEF OwedInv
      <4> QED BY <4>2, <4>3
    <3>6. ASSUME stale' = {}, NEW c \in open' PROVE Load(sockets'[sock'[c]]) <= Allowed(c)'
      BY <2>2, <3>5, <3>6
    <3> QED BY <3>4, <3>6 DEF OwedInv, DownIsEmpty
  <2> QED BY <2>3, <2>4
<1>5. CASE SendFails
  BY <1>5, <1>a DEF SendFails, callVars, histVars
<1>6. CASE SendAgain
  <2>1. CASE Reconnect(ctx)
    BY <1>6, <2>1, ReconnectOwed DEF SendAgain, OwnInv, callVars
  <2>2. CASE sockets' = Flushed(ctx) /\ UNCHANGED <<sock, stale>>
    <3>1. UNCHANGED <<sock, open, stale, owed, ctx, pc>>
      BY <1>6, <2>2 DEF SendAgain, callVars
    <3>2. \A c \in Clients : Allowed(c) <= Allowed(c)'
      BY <1>0, <3>1 DEF Allowed
    <3> QED BY <1>0, <2>2, <3>1, <3>2, FlushedLoad, Lighter
  <2> QED BY <1>6, <2>1, <2>2 DEF SendAgain
<1>7. CASE ReceiveReply
  <2>1. sock[ctx] \in Fds /\ sockets[sock[ctx]] \in Conn /\ sockets[sock[ctx]] # None
    BY <1>7, LiveConn DEF ReceiveReply, TypeOK, Live, WaitsOnSocket
  <2>2. /\ UNCHANGED <<sock, open, stale, owed, ctx>> /\ pc = "recv" /\ pc' # "recv"
        /\ sockets[sock[ctx]].rsp # <<>>
    BY <1>7 DEF ReceiveReply, callVars
  <2> DEFINE k == sockets[sock[ctx]]
             n == [k EXCEPT !.rsp = Tail(@)]
  <2>3. sockets' = [sockets EXCEPT ![sock[ctx]] = n]
    BY <1>7 DEF ReceiveReply
  <2>4. n.req = k.req /\ n.rsp = Tail(k.rsp) /\ n.up = k.up
    BY <2>1 DEF Conn
  <2>a. n \in Conn
    <3>1. Tail(k.rsp) \in Seq(Message)
      BY <2>1, <2>2, LoadType
    <3> QED BY <2>1, <3>1, ConnChange, NoMessage
  <2>5. Load(n) + 1 = Load(k)
    <3>1. k \in Conn /\ k.rsp # <<>>
      BY <2>1, <2>2
    <3> HIDE DEF k, n
    <3> QED BY <2>4, <2>a, <3>1, LoadChange
  <2>6. DownIsEmpty(sockets')
    <3>1. \A f \in Fds : sockets'[f] = IF f = sock[ctx] THEN n ELSE sockets[f]
      BY <1>0, <2>3 DEF Tables
    <3>2. ~k.up => k.req = <<>>
      BY <1>0, <2>1 DEF DownIsEmpty
    <3> HIDE DEF n
    <3> QED BY <1>0, <2>4, <3>1, <3>2 DEF DownIsEmpty
  <2>7. ASSUME stale' = {}, NEW c \in open PROVE Load(sockets'[sock[c]]) <= Allowed(c)'
    <3>1. c \in Clients /\ sock[c] \in Fds /\ sockets[sock[c]].server = c /\ sockets[sock[c]] # None
      BY <2>2, <2>7, OwnIsOwn DEF OwnInv, Own, TypeOK
    <3>2. CASE c = ctx
      <4>1. Allowed(c) = owed[c] + 1 /\ Allowed(c)' = owed[c] /\ owed[c] \in Nat
        BY <1>0, <2>2, <3>2 DEF Allowed
      <4>2. sockets'[sock[c]] = n
        BY <1>0, <2>1, <2>3, <3>2 DEF Tables
      <4>3. Load(k) <= Allowed(c)
        BY <2>2, <2>7, <3>2 DEF OwedInv
      <4>4. Load(k) \in Nat /\ Load(n) \in Nat
        <5> HIDE DEF n
        <5> QED BY <1>0, <2>1, <2>a, LoadType
      <4> HIDE DEF k, n
      <4> QED BY <2>5, <4>1, <4>2, <4>3, <4>4
    <3>3. CASE c # ctx
      <4>1. sock[c] # sock[ctx]
        <5>1. ctx \in open
          BY <2>2 DEF OwnInv
        <5>2. sockets[sock[ctx]].server = ctx
          BY <2>2, <2>7, <5>1, OwnIsOwn DEF OwnInv, Own
        <5> QED BY <3>1, <3>3, <5>2
      <4>2. sockets'[sock[c]] = sockets[sock[c]]
        BY <1>0, <2>3, <3>1, <4>1 DEF Tables
      <4>3. Allowed(c)' = Allowed(c)
        BY <2>2, <3>3 DEF Allowed
      <4> QED BY <2>2, <2>7, <4>2, <4>3 DEF OwedInv
    <3> QED BY <3>2, <3>3
  <2>8. ASSUME stale' = {}, NEW c \in open' PROVE Load(sockets'[sock'[c]]) <= Allowed(c)'
    BY <2>2, <2>7, <2>8
  <2> QED BY <2>6, <2>8 DEF OwedInv, DownIsEmpty
<1>8. CASE TimeOut
  <2>1. /\ UNCHANGED <<sock, sockets, open, stale, ctx>> /\ pc = "recv" /\ pc' # "recv"
        /\ owed' = [owed EXCEPT ![ctx] = @ + 1]
    BY <1>8 DEF TimeOut, callVars
  <2>2. \A c \in Clients : Allowed(c) <= Allowed(c)'
    BY <1>0, <2>1 DEF Allowed, TypeOK
  <2> QED BY <1>0, <2>1, <2>2, Lighter
<1>9. CASE PeerGone
  <2>1. CASE Reconnect(ctx)
    BY <1>9, <2>1, ReconnectOwed DEF PeerGone, OwnInv, callVars
  <2>2. CASE UNCHANGED <<sock, sockets, stale>>
    <3>1. /\ UNCHANGED <<sock, sockets, open, stale, owed, ctx>> /\ pc = "recv" /\ pc' = "idle"
          /\ sockets[sock[ctx]].rsp = <<>> /\ ~sockets[sock[ctx]].up
      BY <1>9, <2>2 DEF PeerGone, callVars
    <3>2. sock[ctx] \in Fds /\ sockets[sock[ctx]] # None
      BY <3>1 DEF WaitsOnSocket, Live
    <3>3. Load(sockets[sock[ctx]]) = 0
      <4>1. sockets[sock[ctx]].req = <<>>
        BY <1>0, <3>1, <3>2 DEF DownIsEmpty
      <4> QED BY <3>1, <4>1 DEF Load
    <3>4. ASSUME stale = {}, NEW c \in open PROVE Load(sockets[sock[c]]) <= Allowed(c)'
      <4>1. CASE c = ctx
        <5>1. Allowed(c)' = owed[c] /\ owed[c] \in Nat
          BY <1>0, <3>1, <4>1 DEF Allowed
        <5> QED BY <3>3, <4>1, <5>1
      <4>2. CASE c # ctx
        <5>1. Allowed(c)' = Allowed(c)
          BY <3>1, <4>2 DEF Allowed
        <5> QED BY <3>4, <5>1 DEF OwedInv
      <4> QED BY <4>1, <4>2
    <3> QED BY <1>0, <3>1, <3>4 DEF OwedInv, DownIsEmpty
  <2> QED BY <1>9, <2>1, <2>2 DEF PeerGone
<1>10. CASE Flush
  <2>1. /\ UNCHANGED <<sock, open, stale, owed, ctx>> /\ pc = "flush" /\ pc' = "idle"
        /\ sockets' = Flushed(ctx)
    BY <1>10 DEF Flush, callVars, histVars
  <2>2. \A c \in Clients : Allowed(c) <= Allowed(c)'
    BY <1>0, <2>1 DEF Allowed
  <2> QED BY <1>0, <2>1, <2>2, FlushedLoad, Lighter
<1>11. ASSUME NEW c \in Clients, Listen(c) PROVE OwedInv'
  BY <1>11, <1>a DEF Listen, callVars, histVars
<1>12. ASSUME NEW c \in Clients, AcceptFails(c) \/ Crash(c) PROVE OwedInv'
  <2>1. PICK w \in BOOLEAN : sockets' = Reset(c, w)
    BY <1>12 DEF AcceptFails, Crash
  <2>2. UNCHANGED <<sock, open, ctx, pc, stale, owed>>
    BY <1>12 DEF AcceptFails, Crash, callVars, histVars
  <2>3. \A f \in Fds : sockets'[f] = None <=> sockets[f] = None
    BY <1>0, <2>1, ResetType
  <2>4. ASSUME NEW f \in Fds, sockets[f] # None
        PROVE  /\ Load(sockets'[f]) <= Load(sockets[f])
               /\ ~sockets'[f].up => sockets'[f].req = <<>>
    <3>1. sockets[f] \in Conn /\ Load(sockets[f]) \in Nat
      BY <1>0, <2>4 DEF Tables
    <3>2. CASE sockets'[f] = sockets[f]
      BY <1>0, <2>4, <3>1, <3>2 DEF DownIsEmpty
    <3>3. CASE sockets'[f] = [sockets[f] EXCEPT !.up = FALSE, !.req = <<>>, !.rsp = <<>>]
      <4>1. sockets'[f].req = <<>> /\ sockets'[f].rsp = <<>>
        BY <3>1, <3>3 DEF Conn
      <4>2. Load(sockets'[f]) = 0
        BY <4>1 DEF Load
      <4> QED BY <3>1, <4>1, <4>2
    <3> QED BY <2>1, <2>4, <3>2, <3>3 DEF Reset
  <2>5. \A d \in Clients : Allowed(d) <= Allowed(d)'
    BY <1>0, <2>2 DEF Allowed
  <2>6. DownIsEmpty(sockets')
    BY <2>3, <2>4 DEF DownIsEmpty
  <2> QED BY <2>2, <2>3, <2>4, <2>5, <2>6, Lighter
<1>13. ASSUME NEW f \in Fds, Accept(f) \/ Drop(f) \/ Answer(f) PROVE OwedInv'
  <2>1. sockets[f] # None /\ sockets[f] \in Conn /\ Load(sockets[f]) \in Nat
    BY <1>0, <1>13 DEF Accept, Drop, Answer, Tables
  <2>2. UNCHANGED <<sock, open, ctx, pc, stale, owed>>
    BY <1>13 DEF Accept, Drop, Answer, serverVars, callVars, histVars
  <2>3. \A d \in Clients : Allowed(d) <= Allowed(d)'
    BY <1>0, <2>2 DEF Allowed
  <2>4. PICK n \in Conn : sockets' = [sockets EXCEPT ![f] = n]
    BY <1>13, PeerConn
  <2>5. /\ sockets'[f] = n /\ n # None
        /\ \A g \in Fds \ {f} : sockets'[g] = sockets[g]
    BY <1>0, <2>4, NoneAssumption DEF Tables
  <2>6. Load(n) <= Load(sockets[f]) /\ (~n.up => n.req = <<>>)
    <3>1. CASE Accept(f)
      <4>1. n.req = sockets[f].req /\ n.rsp = sockets[f].rsp /\ n.up = sockets[f].up
        BY <1>0, <2>1, <2>5, <3>1 DEF Accept, Tables, Conn
      <4>2. Load(n) = Load(sockets[f])
        BY <4>1 DEF Load
      <4> QED BY <1>0, <2>1, <4>1, <4>2 DEF DownIsEmpty
    <3>2. CASE Drop(f)
      <4>1. n.req = <<>> /\ n.rsp = sockets[f].rsp
        BY <1>0, <2>1, <2>5, <3>2 DEF Drop, Tables, Conn
      <4> QED BY <2>1, <4>1, LoadChange
    <3>3. CASE Answer(f)
      <4>1. /\ n.req = Tail(sockets[f].req) /\ n.up = sockets[f].up
            /\ n.rsp = Append(sockets[f].rsp, Head(sockets[f].req))
            /\ sockets[f].req # <<>>
        BY <1>0, <2>1, <2>5, <3>3 DEF Answer, Tables, Conn
      <4>6. Load(n) <= Load(sockets[f])
        <5>1. Load(n) = Load(sockets[f])
          BY <2>1, <4>1, LoadChange
        <5> QED BY <2>1, <5>1
      <4>7. n.up
        BY <1>0, <2>1, <4>1 DEF DownIsEmpty
      <4> QED BY <4>6, <4>7
    <3> QED BY <1>13, <3>1, <3>2, <3>3
  <2>7. \A g \in Fds : sockets[g] # None =>
            Load(sockets'[g]) <= Load(sockets[g]) /\ sockets'[g] # None
    BY <1>0, <2>5, <2>6
  <2>8. DownIsEmpty(sockets')
    BY <1>0, <2>5, <2>6 DEF DownIsEmpty
  <2> QED BY <2>2, <2>3, <2>7, <2>8, Lighter
<1>14. CASE UNCHANGED vars
  BY <1>14, <1>a DEF vars
<1> QED BY <1>1, <1>2, <1>3, <1>4, <1>5, <1>6, <1>7, <1>8, <1>9, <1>10, <1>11, <1>12,
           <1>13, <1>14 DEF Next, CallStep, ServerStep

\* As long as no connect fails, no context has more replies to come than calls of it
\* have timed out, so that a call after none meets only its own.
THEOREM StaleNeedsTimeout == Spec => []StaleOnlyAfterTimeouts
<1>1. TypeOK /\ OwedInv => StaleOnlyAfterTimeouts
  <2> SUFFICES ASSUME TypeOK, OwedInv, stale = {}, pc = "idle", NEW c \in open
               PROVE  Len(sockets[sock[c]].req) + Len(sockets[sock[c]].rsp) <= owed[c]
    BY DEF StaleOnlyAfterTimeouts
  <2>1. Allowed(c) = owed[c]
    <3>1. owed[c] \in Nat
      BY DEF TypeOK
    <3> QED BY <3>1 DEF Allowed
  <2>2. Load(sockets[sock[c]]) <= Allowed(c)
    BY DEF OwedInv
  <2> QED BY <2>1, <2>2 DEF Load
<1> QED BY <1>1, InitTypeOK, NextTypeOK, InitOwn, NextOwn, InitOwed, NextOwed, PTL DEF Spec

=============================================================================
