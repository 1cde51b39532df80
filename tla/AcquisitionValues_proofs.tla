---------------------- MODULE AcquisitionValues_proofs ----------------------
(***************************************************************************)
(* Proofs about what the measurement records, displays and leaves raised:  *)
(* where the values of the points and of the displays come from, that      *)
(* pulses end, and that the scan stays behind the sensor.  Most of it      *)
(* rests on two facts: the slots nest only where they sleep, and what is   *)
(* on the line belongs to a call under way.                                *)
(***************************************************************************)
EXTENDS Acquisition_proofs

----------------------------------------------------------------------------
(* The line belongs to the calls under way. *)

\* What the board may answer to request r sent to slave n; the angle is that of the time
\* of the answer.
ReplyTo(n, r, y) ==
    LET served == Serves([to |-> n, req |-> r])
    IN /\ y.kind \in {r.kind, "exception"}
       /\ served => y.kind = r.kind
       /\ y.kind = r.kind =>
             /\ y.data.from = n
             /\ y.data.kind = IF served THEN Block(r) ELSE "foreign"
             /\ r.kind # "angle" => y.data.n = IF served /\ r.kind = "wave" THEN r.arg ELSE 0

\* The line holds nothing but request r to slave n, or its reply, unless it was lost.
Under(n, r) ==
    \/ Lossy /\ rxq = <<>> /\ bus = <<>>
    \/ rxq = <<>> /\ bus = <<[to |-> n, req |-> r]>>
    \/ bus = <<>> /\ Len(rxq) = 1 /\ ReplyTo(n, r, rxq[1])

Waiters == (IF WorkerWaits THEN 1 ELSE 0) + (IF GuiWaits THEN 1 ELSE 0)

\* As long as no answer came late there is at most one frame for each waiting call; as
\* long as the line was not shared either, it is the frame of the one call under way.
LineInv ==
    /\ ~late => Len(rxq) + Len(bus) <= Waiters
    /\ ~shared => ~(WorkerWaits /\ GuiWaits)
    /\ ~shared /\ step = "send" => ctxSlave = SlaveOf(stage)
    /\ ~shared /\ ~late /\ WorkerWaits => Under(SlaveOf(stage), RequestOf(stage, seg))
    /\ ~shared /\ ~late /\ ~strayed =>
          \A r \in GuiRequests : Doing(ReceiveFor(r)) => Under(Meant(r), r)


\* The board answers what it is asked.
LEMMA AnswerIsReply ==
  ASSUME NEW m \in Message, NEW y \in Answers(m)
  PROVE  ReplyTo(m.to, m.req, y)
<1>1. m.to \in Slaves /\ m.req \in Request /\ m = [to |-> m.to, req |-> m.req]
  BY DEF Message
<1>2. CASE Serves(m)
  <2>1. y = [kind |-> m.req.kind,
             data |-> [from |-> m.to, kind |-> Block(m.req), n |-> Reading(m.req)]]
    BY <1>2 DEF Answers
  <2>2. m.req.kind # "angle" => Reading(m.req) = IF m.req.kind = "wave" THEN m.req.arg ELSE 0
    BY DEF Reading
  <2> QED BY <1>1, <1>2, <2>1, <2>2 DEF ReplyTo
<1>3. CASE ~Serves(m)
  <2>1. CASE y = [kind |-> "exception", data |-> Zero]
    <3>1. m.req.kind # "exception"
      BY <1>1 DEF Request, Kinds
    <3> QED BY <1>1, <1>3, <2>1, <3>1 DEF ReplyTo
  <2>2. CASE y # [kind |-> "exception", data |-> Zero]
    <3>1. PICK k \in IF m.req.kind = "angle" THEN Segs ELSE {0} :
             y = [kind |-> m.req.kind, data |-> [from |-> m.to, kind |-> "foreign", n |-> k]]
      BY <1>3, <2>2 DEF Answers
    <3> QED BY <1>1, <1>3, <3>1 DEF ReplyTo
  <2> QED BY <2>1, <2>2
<1> QED BY <1>2, <1>3

\* What is sent over an empty line is all that is on it.
LEMMA SendUnder ==
  ASSUME rxq = <<>>, bus = <<>>, NEW n, NEW r, bus' = Append(bus, [to |-> n, req |-> r]), rxq' = rxq
  PROVE  Under(n, r)'
  BY DEF Under

\* What the board and the line do to the frames: nothing, or the oldest request is gone,
\* handled by the board and answered unless the line lost something.
LEMMA BoardMoves ==
  ASSUME LineTypeOK, Board
  PROVE  /\ ctxSlave' = ctxSlave /\ late' = late
         /\ \/ bus' = bus /\ rxq' = rxq /\ coil' = coil
            \/ /\ bus # <<>> /\ bus' = Tail(bus)
               /\ \/ Lossy /\ rxq' = rxq
                  \/ /\ coil' = CoilsAfter(Head(bus))
                     /\ \E y : /\ ReplyTo(Head(bus).to, Head(bus).req, y)
                               /\ rxq' = Append(rxq, y) /\ y \in Reply
<1>1. CASE Deliver
  <2>1. Head(bus) \in Message /\ bus # <<>>
    BY <1>1 DEF Deliver, LineTypeOK
  <2>2. PICK y \in Answers(Head(bus)) : rxq' = Append(rxq, y)
    BY <1>1 DEF Deliver
  <2>3. ReplyTo(Head(bus).to, Head(bus).req, y)
    BY <2>1, <2>2, AnswerIsReply
  <2>4. y \in Reply
    BY <2>1, <2>2, AnswersType DEF LineTypeOK
  <2> QED BY <1>1, <2>1, <2>2, <2>3, <2>4 DEF Deliver
<1>2. CASE LoseRequest \/ LoseReply \/ Rotate
  BY <1>2 DEF LoseRequest, LoseReply, Rotate
<1> QED BY <1>1, <1>2 DEF Board

\* The board keeps the line to the call under way.
LEMMA BoardUnder ==
  ASSUME LineTypeOK, Board, NEW n, NEW r, Under(n, r)
  PROVE  Under(n, r)'
<1>1. CASE bus' = bus /\ rxq' = rxq
  BY <1>1 DEF Under
<1>2. CASE bus # <<>> /\ bus' = Tail(bus) /\ ~(bus' = bus /\ rxq' = rxq)
  <2>1. rxq = <<>> /\ bus = <<[to |-> n, req |-> r]>>
    BY <1>2 DEF Under
  <2>2. bus' = <<>> /\ Head(bus).to = n /\ Head(bus).req = r
    BY <1>2, <2>1
  <2>3. CASE Lossy /\ rxq' = rxq
    BY <2>1, <2>2, <2>3 DEF Under
  <2>4. CASE \E y : ReplyTo(n, r, y) /\ rxq' = Append(rxq, y)
    <3>1. PICK y : ReplyTo(n, r, y) /\ rxq' = <<y>>
      BY <2>1, <2>4
    <3> QED BY <2>2, <3>1 DEF Under
  <2> QED BY <1>2, <2>2, <2>3, <2>4, BoardMoves
<1> QED BY <1>1, <1>2, BoardMoves

\* A step that leaves the line and the calls under way alone.
LEMMA CalmLine ==
  ASSUME LineInv,
         bus' = bus, rxq' = rxq, late' = late, strayed' = strayed, shared => shared',
         \A r \in GuiRequests : Doing(ReceiveFor(r))' <=> Doing(ReceiveFor(r)),
         \/ stage' = stage /\ step' = step /\ seg' = seg
         \/ step # "recv" /\ step' # "recv",
         step' = "send" /\ ~shared' => ctxSlave' = SlaveOf(stage')
  PROVE  LineInv'
<1>1. WorkerWaits' = WorkerWaits /\ GuiWaits' = GuiWaits
  BY Zenon DEF WorkerWaits, GuiWaits
<1>2. Waiters' = Waiters
  BY <1>1 DEF Waiters
<1>3. (~late => Len(rxq) + Len(bus) <= Waiters)'
  BY <1>2 DEF LineInv
<1>4. (~shared => ~(WorkerWaits /\ GuiWaits))'
  BY <1>1 DEF LineInv
<1>5. (~shared /\ step = "send" => ctxSlave = SlaveOf(stage))'
  OBVIOUS
<1>6. (~shared /\ ~late /\ WorkerWaits => Under(SlaveOf(stage), RequestOf(stage, seg)))'
  BY DEF LineInv, Under, WorkerWaits
<1>7. ASSUME ~shared', ~late', ~strayed', NEW r \in GuiRequests, Doing(ReceiveFor(r))'
      PROVE  Under(Meant(r), r)'
  <2>1. Under(Meant(r), r)
    BY <1>7 DEF LineInv
  <2> QED BY <2>1 DEF Under
<1> QED BY <1>3, <1>4, <1>5, <1>6, <1>7 DEF LineInv

\* The frames are counted.
LEMMA LineCount ==
  ASSUME TypeOK
  PROVE  /\ Len(rxq) \in Nat /\ Len(bus) \in Nat /\ Waiters \in Nat
         /\ rxq # <<>> => Len(rxq) >= 1 /\ Len(Tail(rxq)) = Len(rxq) - 1
         /\ Len(rxq) + Len(bus) <= 0 => rxq = <<>> /\ bus = <<>>
         /\ ~WorkerWaits /\ ~GuiWaits => Waiters = 0
  BY DEF TypeOK, LineTypeOK, Waiters

\* The worker's request, sent over a line no slot uses, is alone on it.
LEMMA WorkerSendLine ==
  ASSUME TypeOK, LineInv, WorkerSend
  PROVE  LineInv'
<1>1. /\ step = "send" /\ step' = "recv" /\ stage' = stage /\ seg' = seg /\ stack' = stack
      /\ bus' = Append(bus, [to |-> ctxSlave, req |-> RequestOf(stage, seg)])
      /\ rxq' = rxq /\ late' = late /\ strayed' = strayed /\ shared' = (shared \/ GuiWaits)
  BY DEF WorkerSend, Send, guiVars
<1>2. ~WorkerWaits /\ WorkerWaits' /\ GuiWaits' = GuiWaits
  BY <1>1, Zenon DEF WorkerWaits, GuiWaits, Doing, Current, Top
<1>3. Waiters' = Waiters + 1 /\ Len(bus') = Len(bus) + 1
  BY <1>1, <1>2 DEF Waiters, TypeOK, LineTypeOK
<1>4. ASSUME ~shared', ~late' PROVE Under(SlaveOf(stage), RequestOf(stage, seg))'
  <2>1. ~GuiWaits /\ ctxSlave = SlaveOf(stage)
    BY <1>1, <1>4 DEF LineInv
  <2>2. rxq = <<>> /\ bus = <<>>
    BY <1>1, <1>2, <1>4, <2>1, LineCount DEF LineInv
  <2>3. Under(SlaveOf(stage), RequestOf(stage, seg))'
    BY <1>1, <2>1, <2>2 DEF Under
  <2> QED BY <2>3
<1>5. ~shared' => ~GuiWaits'
  BY <1>1, <1>2
<1>6. ~shared' => \A r \in GuiRequests : ~Doing(ReceiveFor(r))'
  BY <1>5 DEF GuiWaits
<1>7. (~late => Len(rxq) + Len(bus) <= Waiters)'
  BY <1>1, <1>3, LineCount DEF LineInv
<1> QED BY <1>1, <1>4, <1>5, <1>6, <1>7 DEF LineInv

\* So is the request of a slot, when the worker rests.
LEMMA GuiSendLine ==
  ASSUME TypeOK, StackInv, LineInv, GuiSend
  PROVE  LineInv'
<1>0. PICK r \in GuiRequests :
         /\ Doing(SendReq(r)) /\ Send(r) /\ strayed' = (strayed \/ ctxSlave # Meant(r))
  BY DEF GuiSend
<1>1. /\ stack \in Seq(Frame) /\ stack # <<>> /\ Advance
      /\ step' = step /\ stage' = stage /\ seg' = seg /\ ctxSlave' = ctxSlave
      /\ bus' = Append(bus, [to |-> ctxSlave, req |-> r])
      /\ rxq' = rxq /\ late' = late /\ shared' = (shared \/ stage # "idle")
  BY <1>0 DEF GuiSend, Send, workerVars, Doing, TypeOK
<1>2. \A q \in GuiRequests : /\ Doing(ReceiveFor(q))' <=> Doing(SendReq(q))
                             /\ Doing(SendReq(q)) <=> q = r
                             /\ ~Doing(ReceiveFor(q))
  <2>1. \A q \in GuiRequests : Doing(ReceiveFor(q))' <=> Doing(SendReq(q))
    BY <1>1, WaitsAfterAdvance
  <2>2. \A q : (SendReq(q) = SendReq(r) => q = r) /\ ReceiveFor(q) # SendReq(r)
    BY DEF SendReq, ReceiveFor
  <2> QED BY <1>0, <2>1, <2>2 DEF Doing
<1>3. ~GuiWaits /\ GuiWaits' /\ WorkerWaits' = WorkerWaits
  BY <1>1, <1>2 DEF GuiWaits, WorkerWaits
<1>4. Waiters' = Waiters + 1 /\ Len(bus') = Len(bus) + 1
  BY <1>1, <1>3 DEF Waiters, TypeOK, LineTypeOK
<1>5. ~shared' => step = "slave" /\ ~WorkerWaits /\ ~WorkerWaits'
  BY <1>1 DEF TypeOK, WorkerWaits
<1>6. ASSUME ~shared', ~late', ~strayed', NEW q \in GuiRequests, Doing(ReceiveFor(q))'
      PROVE  Under(Meant(q), q)'
  <2>1. q = r /\ ctxSlave = Meant(r)
    BY <1>0, <1>2, <1>6
  <2>2. rxq = <<>> /\ bus = <<>>
    BY <1>1, <1>3, <1>5, <1>6, LineCount DEF LineInv
  <2> QED BY <1>1, <2>1, <2>2 DEF Under
<1>7. (~late => Len(rxq) + Len(bus) <= Waiters)'
  BY <1>1, <1>4, LineCount DEF LineInv
<1> QED BY <1>1, <1>5, <1>6, <1>7 DEF LineInv

\* A slot's call takes the oldest reply or gives up, and waits no more.
LEMMA GuiReceiveLine ==
  ASSUME TypeOK, StackInv, LineInv, GuiReceive
  PROVE  LineInv'
<1>0. PICK r \in GuiRequests :
         /\ Doing(ReceiveFor(r))
         /\ \/ rxq # <<>> /\ rxq' = Tail(rxq) /\ late' = late
            \/ rxq = <<>> /\ rxq' = rxq /\ late' = (late \/ bus # <<>>)
  BY DEF GuiReceive, Confirms, Refuses, TimesOut, TakesFrame, GivesUp
<1>1. /\ stack \in Seq(Frame) /\ stack # <<>> /\ Advance
      /\ step' = step /\ stage' = stage /\ seg' = seg /\ ctxSlave' = ctxSlave
      /\ bus' = bus /\ shared' = shared /\ strayed' = strayed
  BY <1>0 DEF GuiReceive, workerVars, histVars, Doing, TypeOK
<1>2. \A q \in GuiRequests : ~Doing(ReceiveFor(q))'
  <2>1. \A q \in GuiRequests : Doing(ReceiveFor(q))' <=> Doing(SendReq(q))
    BY <1>1, WaitsAfterAdvance
  <2>2. \A q : SendReq(q) # ReceiveFor(r)
    BY DEF SendReq, ReceiveFor
  <2> QED BY <1>0, <2>1, <2>2 DEF Doing
<1>3. GuiWaits /\ ~GuiWaits' /\ WorkerWaits' = WorkerWaits
  BY <1>0, <1>1, <1>2 DEF GuiWaits, WorkerWaits
<1>4. Waiters = Waiters' + 1 /\ Waiters' \in Nat
  BY <1>3 DEF Waiters
<1>5. (~late => Len(rxq) + Len(bus) <= Waiters)'
  <2>1. CASE rxq # <<>> /\ rxq' = Tail(rxq) /\ late' = late
    BY <1>1, <1>4, <2>1, LineCount DEF LineInv
  <2>2. CASE rxq = <<>> /\ rxq' = rxq /\ late' = (late \/ bus # <<>>)
    <3>1. ~late' => rxq' = <<>> /\ bus' = <<>>
      BY <1>1, <2>2
    <3> QED BY <1>4, <3>1
  <2> QED BY <1>0, <2>1, <2>2
<1>6. ~shared' => ~WorkerWaits'
  BY <1>1, <1>3 DEF LineInv
<1> QED BY <1>1, <1>2, <1>3, <1>5, <1>6 DEF LineInv

\* What the end of the worker's call leaves it at.
LEMMA WorkerGetsStep ==
  ASSUME NEW d, WorkerGets(d)
  PROVE  step' \in {"slave", "append"}
  BY DEF WorkerGets, StatusRead, AngleRead, WaveRead, Proceed

\* The same for the worker's call.
LEMMA WorkerReceiveLine ==
  ASSUME TypeOK, LineInv, WorkerReceive
  PROVE  LineInv'
<1>0. \/ rxq # <<>> /\ rxq' = Tail(rxq) /\ late' = late
      \/ rxq = <<>> /\ rxq' = rxq /\ late' = (late \/ bus # <<>>)
  BY DEF WorkerReceive, Confirms, Refuses, TimesOut, TakesFrame, GivesUp
<1>1. /\ step = "recv" /\ bus' = bus /\ stack' = stack
      /\ shared' = shared /\ strayed' = strayed
  BY DEF WorkerReceive, WorkerWaits, guiVars, histVars
<1>2. step' \in {"slave", "append"}
  BY WorkerGetsStep DEF WorkerReceive
<1>3. WorkerWaits /\ ~WorkerWaits' /\ GuiWaits' = GuiWaits
  BY <1>1, <1>2, Zenon DEF GuiWaits, WorkerWaits, Doing, Current, Top
<1>4. Waiters = Waiters' + 1 /\ Waiters' \in Nat
  BY <1>3 DEF Waiters
<1>5. (~late => Len(rxq) + Len(bus) <= Waiters)'
  <2>1. CASE rxq # <<>> /\ rxq' = Tail(rxq) /\ late' = late
    BY <1>1, <1>4, <2>1, LineCount DEF LineInv
  <2>2. CASE rxq = <<>> /\ rxq' = rxq /\ late' = (late \/ bus # <<>>)
    <3>1. ~late' => rxq' = <<>> /\ bus' = <<>>
      BY <1>1, <2>2
    <3> QED BY <1>4, <3>1
  <2> QED BY <1>0, <2>1, <2>2
<1>6. ~shared' => ~GuiWaits'
  BY <1>1, <1>3 DEF LineInv
<1>7. ~shared' => \A r \in GuiRequests : ~Doing(ReceiveFor(r))'
  BY <1>6 DEF GuiWaits
<1> QED BY <1>2, <1>3, <1>5, <1>7 DEF LineInv

\* Both calls end together.
LEMMA TornLine ==
  ASSUME TypeOK, StackInv, LineInv, TornReceive
  PROVE  LineInv'
<1>0. PICK r \in GuiRequests : Doing(ReceiveFor(r))
  BY DEF TornReceive
<1>1. /\ stack \in Seq(Frame) /\ stack # <<>> /\ Advance /\ shared' = shared
      /\ rxq' = <<>> /\ bus' = bus /\ late' = (late \/ bus # <<>>)
  BY <1>0 DEF TornReceive, histVars, Doing, TypeOK
<1>2. \A q \in GuiRequests : ~Doing(ReceiveFor(q))'
  <2>1. \A q \in GuiRequests : Doing(ReceiveFor(q))' <=> Doing(SendReq(q))
    BY <1>1, WaitsAfterAdvance
  <2>2. \A q : SendReq(q) # ReceiveFor(r)
    BY DEF SendReq, ReceiveFor
  <2> QED BY <1>0, <2>1, <2>2 DEF Doing
<1>3. step' \in {"slave", "append"}
  BY WorkerGetsStep DEF TornReceive
<1>4. ~GuiWaits' /\ ~WorkerWaits'
  BY <1>2, <1>3 DEF GuiWaits, WorkerWaits
<1>5. (~late => Len(rxq) + Len(bus) <= Waiters)'
  <2>1. ~late' => rxq' = <<>> /\ bus' = <<>>
    BY <1>1
  <2>2. Waiters' = 0
    BY <1>4 DEF Waiters
  <2> QED BY <2>1, <2>2
<1> QED BY <1>2, <1>3, <1>4, <1>5 DEF LineInv

\* The board takes as many requests as it sends replies, or more.
LEMMA BoardLine ==
  ASSUME TypeOK, LineInv, BoardStep
  PROVE  LineInv'
<1>1. /\ LineTypeOK /\ Board /\ stack' = stack /\ stage' = stage /\ step' = step /\ seg' = seg
      /\ shared' = shared /\ strayed' = strayed /\ ctxSlave' = ctxSlave /\ late' = late
  BY BoardMoves DEF TypeOK, BoardStep, guiVars, workerVars, histVars
<1>2. WorkerWaits' = WorkerWaits /\ GuiWaits' = GuiWaits
  BY <1>1, Zenon DEF WorkerWaits, GuiWaits, Doing, Current, Top
<1>3. Waiters' = Waiters
  BY <1>2 DEF Waiters
<1>4. Len(rxq') + Len(bus') <= Len(rxq) + Len(bus)
  <2>1. rxq \in Seq(Reply) /\ bus \in Seq(Message)
    BY <1>1 DEF LineTypeOK
  <2>2. CASE bus' = bus /\ rxq' = rxq
    BY <2>1, <2>2
  <2>3. CASE bus # <<>> /\ bus' = Tail(bus) /\ rxq' = rxq
    BY <2>1, <2>3
  <2>4. CASE bus # <<>> /\ bus' = Tail(bus) /\ \E y : y \in Reply /\ rxq' = Append(rxq, y)
    BY <2>1, <2>4
  <2> QED BY <1>1, <2>2, <2>3, <2>4, BoardMoves
<1>5. (~late => Len(rxq) + Len(bus) <= Waiters)'
  BY <1>1, <1>3, <1>4, BoardType, LineCount DEF LineInv, LineTypeOK
<1>6. ASSUME ~shared', ~late', ~strayed', NEW r \in GuiRequests, Doing(ReceiveFor(r))'
      PROVE  Under(Meant(r), r)'
  <2>1. Under(Meant(r), r)
    BY <1>1, <1>6, Zenon DEF LineInv, Doing, Current, Top
  <2> QED BY <1>1, <2>1, BoardUnder
<1>7. ASSUME ~shared', ~late', WorkerWaits'
      PROVE  Under(SlaveOf(stage), RequestOf(stage, seg))'
  <2>1. Under(SlaveOf(stage), RequestOf(stage, seg))
    BY <1>1, <1>2, <1>7 DEF LineInv
  <2>2. PICK n, r : n = SlaveOf(stage) /\ r = RequestOf(stage, seg)
    OBVIOUS
  <2>3. Under(n, r)'
    BY <1>1, <2>1, <2>2, BoardUnder
  <2> QED BY <1>1, <2>2, <2>3
<1> QED BY <1>1, <1>2, <1>5, <1>6, <1>7 DEF LineInv

\* Every step of the system keeps the line to the calls under way.
LEMMA NextLine == TypeOK /\ StackInv /\ LineInv /\ [Next]_vars => LineInv'
<1> SUFFICES ASSUME TypeOK, StackInv, LineInv, [Next]_vars PROVE LineInv'
  OBVIOUS
<1>0. stack \in Seq(Frame)
  BY DEF TypeOK
<1>s. stack' = stack => \A r \in GuiRequests : Doing(ReceiveFor(r))' <=> Doing(ReceiveFor(r))
  BY Zenon DEF Doing, Current, Top
<1>a. ASSUME stack # <<>>, Advance,
             \A r \in GuiRequests : Current # SendReq(r) /\ Current # ReceiveFor(r)
      PROVE  \A r \in GuiRequests : Doing(ReceiveFor(r))' <=> Doing(ReceiveFor(r))
  BY <1>0, <1>a, WaitsAfterAdvance DEF Doing
<1>b. ASSUME EventLoop, NEW h \in Handlers, stack' = Append(stack, [handler |-> h, pc |-> 1])
      PROVE  \A r \in GuiRequests : Doing(ReceiveFor(r))' <=> Doing(ReceiveFor(r))
  BY <1>0, <1>b, EventLoopWaits, WaitsAfterStart
<1>1. CASE \/ \E b \in Buttons : Press(b)
           \/ DialogTick
  <2>1. /\ bus' = bus /\ rxq' = rxq /\ late' = late /\ strayed' = strayed /\ shared' = shared
        /\ stage' = stage /\ step' = step /\ seg' = seg /\ ctxSlave' = ctxSlave
    BY <1>1 DEF Press, DialogTick, lineVars, workerVars, histVars
  <2>2. \E h \in Handlers : stack' = Append(stack, [handler |-> h, pc |-> 1])
    <3>1. CASE DialogTick
      <4>1. "dialogRead" \in Handlers /\ "dialogTick" \in Handlers
        BY DEF Handlers
      <4> QED BY <3>1, <4>1 DEF DialogTick
    <3>2. ASSUME NEW b \in Buttons, Press(b)
          PROVE  \E h \in Handlers : stack' = Append(stack, [handler |-> h, pc |-> 1])
      <4>1. b \in AllButtons /\ flagGo \in 0 .. 2
        BY PanelAssumption DEF TypeOK
      <4>2. GoCases[flagGo] \in {"start", "stop", "wipe"}
        BY <4>1 DEF GoCases
      <4> QED BY <3>2, <4>1, <4>2 DEF Press, Slot, Handlers
    <3> QED BY <1>1, <3>1, <3>2
  <2>3. EventLoop
    BY <1>1 DEF Press, ButtonsLive, DialogTick, EventLoop
  <2>4. step' = "send" /\ ~shared' => ctxSlave' = SlaveOf(stage')
    BY <2>1 DEF LineInv
  <2> QED BY <1>b, <2>1, <2>2, <2>3, <2>4, CalmLine
<1>2. CASE \/ Wake \/ GuiWritePlc \/ GuiChart \/ GuiClearList \/ GuiAddCmd \/ DialogClose
  <2>1. /\ bus' = bus /\ rxq' = rxq /\ late' = late /\ strayed' = strayed /\ shared' = shared
        /\ stage' = stage /\ step' = step /\ seg' = seg /\ ctxSlave' = ctxSlave
    BY <1>2 DEF Wake, GuiWritePlc, GuiChart, GuiClearList, GuiAddCmd, DialogClose,
                lineVars, workerVars, histVars
  <2>2. stack # <<>> /\ Advance
    BY <1>2 DEF Wake, GuiWritePlc, GuiChart, GuiClearList, GuiAddCmd, DialogClose, Doing
  <2>3. \A r \in GuiRequests : Current # SendReq(r) /\ Current # ReceiveFor(r)
    BY <1>2, StepsDiffer
    DEF Wake, GuiWritePlc, GuiChart, GuiClearList, GuiAddCmd, DialogClose, Doing
  <2>4. step' = "send" /\ ~shared' => ctxSlave' = SlaveOf(stage')
    BY <2>1 DEF LineInv
  <2> QED BY <1>a, <2>1, <2>2, <2>3, <2>4, CalmLine
<1>3. CASE GuiSelect
  <2>1. /\ bus' = bus /\ rxq' = rxq /\ late' = late /\ strayed' = strayed
        /\ stage' = stage /\ step' = step /\ seg' = seg /\ shared' = (shared \/ stage # "idle")
        /\ stack # <<>> /\ Advance
    BY <1>3 DEF GuiSelect, workerVars, Doing
  <2>2. \A r \in GuiRequests : Current # SendReq(r) /\ Current # ReceiveFor(r)
    BY <1>3, StepsDiffer DEF GuiSelect, Doing
  <2>3. step' = "send" => shared'
    BY <2>1 DEF TypeOK
  <2> QED BY <1>a, <2>1, <2>2, <2>3, CalmLine
<1>4. CASE StatusTick \/ ChartTick \/ Poll \/ UNCHANGED vars
  <2>1. /\ bus' = bus /\ rxq' = rxq /\ late' = late /\ strayed' = strayed /\ shared' = shared
        /\ stage' = stage /\ step' = step /\ seg' = seg /\ ctxSlave' = ctxSlave /\ stack' = stack
    BY <1>4 DEF StatusTick, ChartTick, Poll, vars, lineVars, guiVars, workerVars, histVars
  <2>2. step' = "send" /\ ~shared' => ctxSlave' = SlaveOf(stage')
    BY <2>1 DEF LineInv
  <2> QED BY <1>s, <2>1, <2>2, CalmLine
<1>5. CASE Dequeue \/ WorkerSelect \/ AppendPoint
  <2>1. /\ bus' = bus /\ rxq' = rxq /\ late' = late /\ strayed' = strayed /\ shared' = shared
        /\ stack' = stack
    BY <1>5 DEF Dequeue, WorkerSelect, AppendPoint, lineVars, guiVars, histVars
  <2>2. step # "recv" /\ step' # "recv" /\ (step' = "send" => ctxSlave' = SlaveOf(stage'))
    BY <1>5 DEF Dequeue, WorkerSelect, AppendPoint, AfterPoint, EndSegment, Proceed, SetSlave,
                TypeOK
  <2> QED BY <1>s, <2>1, <2>2, CalmLine
<1> QED BY <1>1, <1>2, <1>3, <1>4, <1>5, WorkerSendLine, GuiSendLine, GuiReceiveLine,
           WorkerReceiveLine, TornLine, BoardLine
        DEF Next, GuiStep, WorkerStep

\* At most one frame for each waiting call, and the frames of the one call under way while
\* the threads keep out of each other's way.
THEOREM LineInvariant == Spec => []LineInv
<1>1. Init => LineInv
  <2> SUFFICES ASSUME Init PROVE LineInv
    OBVIOUS
  <2>1. /\ rxq = <<>> /\ bus = <<>> /\ step = "slave" /\ stack = <<>>
    BY DEF Init, LineInit
  <2>2. ~GuiWaits /\ ~WorkerWaits /\ \A r : ~Doing(ReceiveFor(r))
    BY <2>1 DEF GuiWaits, WorkerWaits, Doing
  <2> QED BY <2>1, <2>2 DEF LineInv, Waiters
<1>2. TypeOK /\ StackInv /\ LineInv /\ [Next]_vars => LineInv'
  BY NextLine
<1> QED BY <1>1, <1>2, TypeCorrect, StackInOrder, PTL DEF Spec

----------------------------------------------------------------------------
(* The values on a line that is not shared. *)

\* The histories never forget.
LEMMA HistoryGrows ==
  ASSUME TypeOK, [Next]_vars
  PROVE  (shared => shared') /\ (strayed => strayed') /\ (late => late')
<1>1. \/ shared' = shared \/ shared' = (shared \/ GuiWaits) \/ shared' = (shared \/ stage # "idle")
  <2>1. CASE \/ \E b \in Buttons : Press(b)
             \/ GuiReceive \/ WorkerReceive \/ TornReceive \/ BoardStep
             \/ StatusTick \/ ChartTick \/ DialogTick \/ DialogClose \/ Poll \/ UNCHANGED vars
    BY <2>1 DEF Press, GuiReceive, WorkerReceive, TornReceive, BoardStep, StatusTick, ChartTick,
                DialogTick, DialogClose, Poll, vars, histVars
  <2>2. CASE GuiSelect \/ GuiSend \/ WorkerSend
    BY <2>2, Zenon DEF GuiSelect, GuiSend, WorkerSend
  <2>3. CASE Wake \/ GuiWritePlc \/ GuiChart \/ GuiClearList \/ GuiAddCmd
    BY <2>3 DEF Wake, GuiWritePlc, GuiChart, GuiClearList, GuiAddCmd, histVars
  <2>4. CASE Dequeue \/ WorkerSelect \/ AppendPoint
    BY <2>4 DEF Dequeue, WorkerSelect, AppendPoint, histVars
  <2> QED BY <2>1, <2>2, <2>3, <2>4 DEF Next, GuiStep, WorkerStep
<1>2. strayed' = strayed \/ \E r \in GuiRequests : strayed' = (strayed \/ ctxSlave # Meant(r))
  <2>1. CASE \/ \E b \in Buttons : Press(b)
             \/ GuiReceive \/ WorkerReceive \/ TornReceive \/ BoardStep
             \/ StatusTick \/ ChartTick \/ DialogTick \/ DialogClose \/ Poll \/ UNCHANGED vars
    BY <2>1 DEF Press, GuiReceive, WorkerReceive, TornReceive, BoardStep, StatusTick, ChartTick,
                DialogTick, DialogClose, Poll, vars, histVars
  <2>2. CASE GuiSend
    BY <2>2, Zenon DEF GuiSend
  <2>3. CASE GuiSelect \/ Wake \/ GuiWritePlc \/ GuiChart \/ GuiClearList \/ GuiAddCmd
    BY <2>3 DEF GuiSelect, Wake, GuiWritePlc, GuiChart, GuiClearList, GuiAddCmd, histVars
  <2>4. CASE WorkerStep
    BY <2>4 DEF WorkerStep, Dequeue, WorkerSelect, WorkerSend, AppendPoint, histVars
  <2> QED BY <2>1, <2>2, <2>3, <2>4 DEF Next, GuiStep
<1>3. late' = late \/ late' = (late \/ bus # <<>>)
  <2>1. CASE \/ \E b \in Buttons : Press(b)
             \/ StatusTick \/ ChartTick \/ DialogTick \/ DialogClose \/ Poll \/ UNCHANGED vars
    BY <2>1 DEF Press, StatusTick, ChartTick, DialogTick, DialogClose, Poll, vars, lineVars
  <2>2. CASE GuiStep
    BY <2>2 DEF GuiStep, GuiSelect, GuiSend, Wake, GuiWritePlc, GuiChart, GuiClearList, GuiAddCmd,
                lineVars
  <2>3. CASE GuiReceive
    BY <2>3, Zenon DEF GuiReceive, TakesFrame, GivesUp
  <2>4. CASE WorkerReceive \/ TornReceive
    BY <2>4, Zenon DEF WorkerReceive, TornReceive, TakesFrame, GivesUp
  <2>5. CASE WorkerStep
    BY <2>5 DEF WorkerStep, Dequeue, WorkerSelect, WorkerSend, AppendPoint, lineVars
  <2>6. CASE BoardStep
    BY <2>6, BoardMoves DEF BoardStep, TypeOK
  <2> QED BY <2>1, <2>2, <2>3, <2>4, <2>5, <2>6 DEF Next
<1>4. (shared => shared') /\ (strayed => strayed') /\ (late => late')
  <2>1. shared => shared'
    BY <1>1, Zenon
  <2>2. strayed => strayed'
    BY <1>2, Zenon
  <2>3. late => late'
    BY <1>3, Zenon
  <2> QED BY <2>1, <2>2, <2>3
<1> QED BY <1>4

\* A reply that confirms the request under way is its reply.
LEMMA ConfirmedReply ==
  ASSUME TypeOK, NEW n, NEW r, Under(n, r), rxq # <<>>, Head(rxq).kind = r.kind
  PROVE  /\ bus = <<>> /\ Head(rxq).data \in Data /\ Head(rxq).data.from = n
         /\ Serves([to |-> n, req |-> r]) =>
               /\ Head(rxq).data.kind = Block(r)
               /\ r.kind = "wave" => Head(rxq).data.n = r.arg
<1>1. bus = <<>> /\ Len(rxq) = 1 /\ ReplyTo(n, r, rxq[1])
  BY DEF Under
<1>2. Head(rxq) = rxq[1] /\ Head(rxq).data \in Data
  BY ReplyType DEF TypeOK, LineTypeOK
<1> QED BY <1>1, <1>2 DEF ReplyTo

\* The reply to a read of the status holds the status.
LEMMA ConfirmedStatus ==
  ASSUME TypeOK, Under(1, Status), rxq # <<>>, Head(rxq).kind = Status.kind
  PROVE  StatusOrZero(Head(rxq).data)
<1>1. Serves([to |-> 1, req |-> Status]) /\ Block(Status) = "status"
  BY DEF Serves, Status, Ask, Block
<1> QED BY <1>1, ConfirmedReply DEF StatusOrZero

\* Every step keeps foreign values from the displays.
LEMMA NextStatus == TypeOK /\ StackInv /\ LineInv /\ StatusGenuine /\ [Next]_vars => StatusGenuine'
<1> SUFFICES ASSUME TypeOK, StackInv, LineInv, StatusGenuine, [Next]_vars,
                    ~shared', ~strayed', ~late'
             PROVE  StatusOrZero(realTime') /\ StatusOrZero(lcd')
  BY DEF StatusGenuine
<1>1. ~shared /\ ~strayed /\ ~late /\ StatusOrZero(realTime) /\ StatusOrZero(lcd)
  BY HistoryGrows DEF StatusGenuine
<1>2. StatusOrZero(Zero)
  BY DEF StatusOrZero
<1>3. CASE GuiReceive
  <2>1. PICK r \in GuiRequests :
           /\ Doing(ReceiveFor(r))
           /\ \/ Confirms(r) /\ Shows(r, Head(rxq).data)
              \/ Shows(r, Zero)
    BY <1>3 DEF GuiReceive
  <2>2. realTime' = realTime
    BY <1>3 DEF GuiReceive, dataVars
  <2>3. CASE r = Status /\ Confirms(r) /\ lcd' = Head(rxq).data
    <3>1. Under(1, Status)
      <4>1. Meant(Status) = 1
        BY DEF Meant, Status, Ask
      <4> QED BY <1>1, <2>1, <2>3, <4>1 DEF LineInv
    <3> QED BY <1>1, <2>2, <2>3, <3>1, ConfirmedStatus DEF Confirms
  <2>4. CASE lcd' = Zero \/ lcd' = lcd
    BY <1>1, <1>2, <2>2, <2>4
  <2> QED BY <2>1, <2>3, <2>4 DEF Shows
<1>4. CASE WorkerReceive
  <2>1. PICK d : /\ WorkerGets(d)
                 /\ \/ Confirms(RequestOf(stage, seg)) /\ d = Head(rxq).data
                    \/ d = Kept
    BY <1>4 DEF WorkerReceive
  <2>2. lcd' = lcd
    BY <1>4 DEF WorkerReceive, guiVars
  <2>3. CASE StatusRead(d)
    <3>1. stage = "status" /\ realTime' = d
      BY <2>3 DEF StatusRead
    <3>2. Kept = Zero /\ RequestOf(stage, seg) = Status /\ SlaveOf(stage) = 1
      BY <3>1 DEF Kept, RequestOf, Status, SlaveOf
    <3>3. Under(1, Status)
      BY <1>1, <1>4, <3>2 DEF LineInv, WorkerReceive
    <3> QED BY <1>1, <1>2, <2>1, <2>2, <3>1, <3>2, <3>3, ConfirmedStatus DEF Confirms
  <2>4. CASE AngleRead(d) \/ WaveRead(d)
    BY <1>1, <2>2, <2>4 DEF AngleRead, WaveRead, dataVars
  <2> QED BY <2>1, <2>3, <2>4 DEF WorkerGets
<1>5. CASE TornReceive
  BY <1>1, <1>5 DEF TornReceive, GuiWaits, LineInv
<1>6. CASE GuiStep
  <2>1. realTime' = realTime /\ (lcd' = lcd \/ lcd' = Zero)
    BY <1>6 DEF GuiStep, GuiSelect, GuiSend, Wake, GuiWritePlc, GuiChart, GuiClearList, GuiAddCmd,
                dataVars
  <2> QED BY <1>1, <1>2, <2>1
<1>7. CASE StatusTick
  BY <1>1, <1>7 DEF StatusTick, dataVars
<1>8. CASE WorkerStep
  BY <1>1, <1>8 DEF WorkerStep, Dequeue, WorkerSelect, WorkerSend, AppendPoint, guiVars, dataVars
<1>9. CASE \/ \E b \in Buttons : Press(b)
           \/ ChartTick \/ DialogTick \/ DialogClose \/ Poll \/ BoardStep \/ UNCHANGED vars
  BY <1>1, <1>9
  DEF Press, ChartTick, DialogTick, DialogClose, Poll, BoardStep, vars, guiVars, dataVars
<1> QED BY <1>3, <1>4, <1>5, <1>6, <1>7, <1>8, <1>9 DEF Next

\* For every set of buttons, depth of nesting and loss: while the two threads keep out of
\* each other's way and no reply is late, the displays show status registers of the MCU or
\* the zero of a failed read.
THEOREM StatusValuesGenuine == Spec => []StatusGenuine
<1>1. Init => StatusGenuine
  BY DEF Init, StatusGenuine, StatusOrZero
<1>2. TypeOK /\ StackInv /\ LineInv /\ StatusGenuine /\ [Next]_vars => StatusGenuine'
  BY NextStatus
<1> QED BY <1>1, <1>2, TypeCorrect, StackInOrder, LineInvariant, PTL DEF Spec

\* The value about to be appended is the one that was asked for, and so are the points.
WaveInv ==
    ~late /\ ~shared =>
        /\ step = "append" => FromWave(buf, SlaveOf(stage), seg)
        /\ \A k \in 1 .. Len(list1) : FromWave(list1[k].data, 2, list1[k].seg)
        /\ \A k \in 1 .. Len(list2) : FromWave(list2[k].data, 3, list2[k].seg)

\* Over a line that is neither lossy nor shared, and without a late answer, a read of a
\* waveform yields that waveform.
LEMMA WaveReadGenuine ==
  ASSUME TypeOK, LineInv, Lossy = FALSE, WorkerReceive, ~late', ~late, ~shared,
         stage \in {"wave1", "wave2"}
  PROVE  /\ step' = "append" /\ stage' = stage /\ seg' = seg
         /\ FromWave(buf', SlaveOf(stage), seg)
<1> DEFINE req == RequestOf(stage, seg)
           n == SlaveOf(stage)
<1>1. /\ Under(n, req) /\ Serves([to |-> n, req |-> req]) /\ Block(req) = "wave"
      /\ req.kind = "wave" /\ req.arg = seg
  BY DEF LineInv, WorkerReceive, Serves, SlaveOf, RequestOf, Ask, Block
<1>2. \/ rxq # <<>> /\ Head(rxq).kind = req.kind /\ WorkerGets(Head(rxq).data)
      \/ rxq # <<>> /\ Head(rxq).kind # req.kind
      \/ rxq = <<>> /\ late' = (late \/ bus # <<>>)
  BY DEF WorkerReceive, Confirms, Refuses, TimesOut, GivesUp
<1> HIDE DEF req, n
<1>3. rxq # <<>> /\ Head(rxq).kind = "wave"
  <2>1. rxq # <<>> => Len(rxq) = 1 /\ ReplyTo(n, req, rxq[1]) /\ Head(rxq) = rxq[1]
    BY <1>1 DEF Under
  <2>2. rxq # <<>>
    <3> SUFFICES ASSUME rxq = <<>> PROVE FALSE
      OBVIOUS
    <3>1. bus = <<[to |-> n, req |-> req]>>
      BY <1>1 DEF Under
    <3>2. bus # <<>> /\ late' = (late \/ bus # <<>>)
      BY <1>2, <3>1
    <3> QED BY <3>2, Zenon
  <2> QED BY <1>1, <2>1, <2>2 DEF ReplyTo
<1>4. WorkerGets(Head(rxq).data)
  BY <1>1, <1>2, <1>3
<1>5. step' = "append" /\ stage' = stage /\ seg' = seg /\ buf' = Head(rxq).data
  BY <1>4 DEF WorkerGets, StatusRead, AngleRead, WaveRead
<1>6. /\ Head(rxq).data \in Data /\ Head(rxq).data.from = n
      /\ Head(rxq).data.kind = "wave" /\ Head(rxq).data.n = seg
  BY <1>1, <1>3, ConfirmedReply
<1>7. Head(rxq).data = [from |-> n, kind |-> "wave", n |-> seg]
  BY <1>6 DEF Data
<1> QED BY <1>5, <1>7 DEF FromWave, n

\* Every step keeps the points genuine.
LEMMA NextWaves ==
  ASSUME Lossy = FALSE
  PROVE  TypeOK /\ LineInv /\ WaveInv /\ [Next]_vars => WaveInv'
<1> SUFFICES ASSUME TypeOK, LineInv, WaveInv, [Next]_vars, ~late', ~shared'
             PROVE  /\ step' = "append" => FromWave(buf', SlaveOf(stage'), seg')
                    /\ \A k \in 1 .. Len(list1') : FromWave(list1'[k].data, 2, list1'[k].seg)
                    /\ \A k \in 1 .. Len(list2') : FromWave(list2'[k].data, 3, list2'[k].seg)
  BY DEF WaveInv
<1>1. /\ ~late /\ ~shared
      /\ step = "append" => FromWave(buf, SlaveOf(stage), seg)
      /\ \A k \in 1 .. Len(list1) : FromWave(list1[k].data, 2, list1[k].seg)
      /\ \A k \in 1 .. Len(list2) : FromWave(list2[k].data, 3, list2[k].seg)
  BY HistoryGrows DEF WaveInv
<1>2. CASE AppendPoint
  <2>1. /\ step = "append" /\ stage \in {"wave1", "wave2"} /\ FromWave(buf, SlaveOf(stage), seg)
        /\ list1 \in Seq(Point) /\ list2 \in Seq(Point)
    BY <1>1, <1>2 DEF AppendPoint, TypeOK
  <2>2. NewPoint.data = buf /\ NewPoint.seg = seg
    BY DEF NewPoint
  <2>3. step' = "append" => stage' = stage /\ seg' = seg /\ buf' = buf
    BY <1>2 DEF AppendPoint, AfterPoint, EndSegment, Proceed
  <2>4. CASE stage = "wave1"
    <3>1. list1' = Append(list1, NewPoint) /\ list2' = list2 /\ FromWave(buf, 2, seg)
      BY <1>2, <2>1, <2>4 DEF AppendPoint, SlaveOf
    <3>2. ASSUME NEW k \in 1 .. Len(list1') PROVE FromWave(list1'[k].data, 2, list1'[k].seg)
      <4>1. (k \in 1 .. Len(list1) /\ list1'[k] = list1[k]) \/ list1'[k] = NewPoint
        BY <2>1, <3>1
      <4> QED BY <1>1, <2>2, <3>1, <4>1
    <3> QED BY <1>1, <2>1, <2>3, <3>1, <3>2
  <2>5. CASE stage = "wave2"
    <3>1. list2' = Append(list2, NewPoint) /\ list1' = list1 /\ FromWave(buf, 3, seg)
      BY <1>2, <2>1, <2>5 DEF AppendPoint, SlaveOf
    <3>2. ASSUME NEW k \in 1 .. Len(list2') PROVE FromWave(list2'[k].data, 3, list2'[k].seg)
      <4>1. (k \in 1 .. Len(list2) /\ list2'[k] = list2[k]) \/ list2'[k] = NewPoint
        BY <2>1, <3>1
      <4> QED BY <1>1, <2>2, <3>1, <4>1
    <3> QED BY <1>1, <2>1, <2>3, <3>1, <3>2
  <2> QED BY <2>1, <2>4, <2>5
<1>3. ASSUME ~AppendPoint
      PROVE  /\ \A k \in 1 .. Len(list1') : FromWave(list1'[k].data, 2, list1'[k].seg)
             /\ \A k \in 1 .. Len(list2') : FromWave(list2'[k].data, 3, list2'[k].seg)
  BY <1>1, <1>3, ListsOfOtherSteps
<1>4. CASE WorkerReceive
  <2>1. CASE stage \in {"wave1", "wave2"}
    <3>1. ~AppendPoint
      BY <1>4 DEF AppendPoint, WorkerReceive, WorkerWaits
    <3> QED BY <1>1, <1>3, <1>4, <2>1, <3>1, WaveReadGenuine
  <2>2. CASE stage \notin {"wave1", "wave2"}
    <3>1. step' # "append" /\ ~AppendPoint
      BY <1>4, <2>2
      DEF AppendPoint, WorkerReceive, WorkerWaits, WorkerGets, StatusRead, AngleRead, WaveRead, Proceed
    <3> QED BY <1>3, <3>1
  <2> QED BY <2>1, <2>2
<1>5. CASE TornReceive
  BY <1>1, <1>5 DEF TornReceive, GuiWaits, LineInv
<1>6. CASE Dequeue \/ WorkerSelect \/ WorkerSend
  <2>1. step' # "append" /\ ~AppendPoint
    BY <1>6 DEF Dequeue, WorkerSelect, WorkerSend, AppendPoint, Proceed, TypeOK
  <2> QED BY <1>3, <2>1
<1>7. CASE ~AppendPoint /\ workerVars' = workerVars
  BY <1>1, <1>3, <1>7 DEF workerVars
<1>8. ASSUME ~AppendPoint, ~WorkerReceive, ~TornReceive, ~(Dequeue \/ WorkerSelect \/ WorkerSend)
      PROVE  workerVars' = workerVars
  <2>1. CASE GuiStep
    BY <2>1
    DEF GuiStep, GuiSelect, GuiSend, Wake, GuiWritePlc, GuiChart, GuiClearList, GuiAddCmd
  <2>2. CASE \/ \E b \in Buttons : Press(b)
             \/ GuiReceive \/ StatusTick \/ ChartTick \/ DialogTick \/ DialogClose \/ Poll
             \/ BoardStep \/ UNCHANGED vars
    BY <2>2
    DEF Press, GuiReceive, StatusTick, ChartTick, DialogTick, DialogClose, Poll, BoardStep, vars
  <2> QED BY <1>8, <2>1, <2>2 DEF Next, WorkerStep
<1> QED BY <1>2, <1>4, <1>5, <1>6, <1>7, <1>8

\* On a line without losses, as long as no reply is late: for every size of a scan the
\* points of each list are its own waveform's, each read for its own segment, unless a
\* slot has used the line during a scan.
THEOREM WaveformValues ==
  ASSUME Lossy = FALSE
  PROVE  Spec => [](~late => WaveformsGenuine)
<1>1. Init => WaveInv
  BY DEF Init, WaveInv
<1>2. TypeOK /\ LineInv /\ WaveInv /\ [Next]_vars => WaveInv'
  BY NextWaves
<1>3. WaveInv => (~late => WaveformsGenuine)
  BY DEF WaveInv, WaveformsGenuine
<1> QED BY <1>1, <1>2, <1>3, TypeCorrect, LineInvariant, PTL DEF Spec

\* A caller that gives up only when nothing is due any more is never late.
LEMMA NeverLate ==
  ASSUME MaxStale = 0
  PROVE  Spec => []~late
<1>1. Init => ~late
  BY DEF Init, LineInit
<1>2. ASSUME TypeOK, ~late, [Next]_vars PROVE ~late'
  <2>1. Len(bus) <= 0 => bus = <<>>
    BY <1>2 DEF TypeOK, LineTypeOK
  <2>2. CASE GuiReceive \/ WorkerReceive \/ TornReceive
    BY <1>2, <2>1, <2>2 DEF GuiReceive, WorkerReceive, TornReceive, TakesFrame, GivesUp, TimesOut
  <2>3. CASE \/ \E b \in Buttons : Press(b)
             \/ StatusTick \/ ChartTick \/ DialogTick \/ DialogClose \/ Poll \/ UNCHANGED vars
    BY <1>2, <2>3 DEF Press, StatusTick, ChartTick, DialogTick, DialogClose, Poll, vars, lineVars
  <2>4. CASE GuiStep
    BY <1>2, <2>4 DEF GuiStep, GuiSelect, GuiSend, Wake, GuiWritePlc, GuiChart, GuiClearList,
                      GuiAddCmd, lineVars
  <2>5. CASE WorkerStep
    BY <1>2, <2>5 DEF WorkerStep, Dequeue, WorkerSelect, WorkerSend, AppendPoint, lineVars
  <2>6. CASE BoardStep
    BY <1>2, <2>6, BoardMoves DEF BoardStep, TypeOK
  <2> QED BY <1>2, <2>2, <2>3, <2>4, <2>5, <2>6 DEF Next
<1> QED BY <1>1, <1>2, TypeCorrect, PTL DEF Spec

\* The line of the run scan_quiet, with any size of scan, buttons and nesting.
THEOREM WaveformValuesQuietLine ==
  ASSUME Lossy = FALSE, MaxStale = 0
  PROVE  Spec => []WaveformsGenuine
<1> QED BY WaveformValues, NeverLate, PTL

----------------------------------------------------------------------------
(* The coils. *)

\* The writes of coil c on their way to slave 1.
Writes(c) == {k \in 1 .. Len(bus) :
                 bus[k].to = 1 /\ bus[k].req.kind = "coil" /\ bus[k].req.arg = c}

\* Once the requests sent have arrived, coil c is raised.
Raised(c) ==
    \/ Writes(c) = {} /\ coil[c] = 1
    \/ \E k \in Writes(c) : bus[k].req.val = 1 /\ \A j \in Writes(c) : j <= k

\* A slot that has not returned lowers every raised coil.
CoilInv ==
    ~strayed => \A c \in Coils : Raised(c) =>
        \E k \in 1 .. Len(stack) : LowersFrom(Script(stack[k].handler), stack[k].pc, c)

\* The requests on their way after one has been sent: the old ones, and the new one last.
LEMMA SentBus ==
  ASSUME LineTypeOK, NEW m \in Message, bus' = Append(bus, m)
  PROVE  /\ Len(bus) \in Nat /\ Len(bus') = Len(bus) + 1
         /\ \A k \in 1 .. Len(bus) : bus'[k] = bus[k]
         /\ bus'[Len(bus) + 1] = m
  BY DEF LineTypeOK

\* A request that does not write the coil changes nothing about it.
LEMMA OtherRequestSent ==
  ASSUME LineTypeOK, NEW m \in Message, bus' = Append(bus, m), coil' = coil, NEW c,
         ~(m.to = 1 /\ m.req.kind = "coil" /\ m.req.arg = c),
         Raised(c)'
  PROVE  Raised(c)
<1>1. /\ Len(bus) \in Nat /\ Len(bus') = Len(bus) + 1
      /\ \A k \in 1 .. Len(bus) : bus'[k] = bus[k]
      /\ bus'[Len(bus) + 1] = m
  BY SentBus
<1>2. \A k \in 1 .. Len(bus') : k \in 1 .. Len(bus) \/ k = Len(bus) + 1
  BY <1>1
<1>3. \A k \in 1 .. Len(bus) : k \in 1 .. Len(bus')
  BY <1>1
<1>4. Writes(c)' = Writes(c)
  BY <1>1, <1>2, <1>3 DEF Writes
<1>5. \A k \in Writes(c) : bus'[k] = bus[k]
  BY <1>1 DEF Writes
<1> QED BY <1>4, <1>5 DEF Raised

\* A write of the coil decides.
LEMMA WriteSent ==
  ASSUME LineTypeOK, NEW m \in Message, bus' = Append(bus, m), NEW c,
         m.to = 1 /\ m.req.kind = "coil" /\ m.req.arg = c,
         Raised(c)'
  PROVE  m.req.val = 1
<1>1. /\ Len(bus) \in Nat /\ Len(bus') = Len(bus) + 1 /\ bus'[Len(bus) + 1] = m
  BY SentBus
<1>2. Len(bus) + 1 \in Writes(c)'
  BY <1>1 DEF Writes
<1>3. PICK k \in Writes(c)' : bus'[k].req.val = 1 /\ \A j \in Writes(c)' : j <= k
  BY <1>2 DEF Raised
<1>4. k = Len(bus) + 1
  BY <1>1, <1>2, <1>3 DEF Writes
<1> QED BY <1>1, <1>3, <1>4

\* The board does what it is told, so what is decided stays decided.
LEMMA WriteHandled ==
  ASSUME LineTypeOK, bus # <<>>, bus' = Tail(bus), coil' = CoilsAfter(Head(bus)), NEW c \in Coils,
         Raised(c)'
  PROVE  Raised(c)
<1> DEFINE m == Head(bus)
<1>1. /\ Len(bus) \in Nat /\ Len(bus) >= 1 /\ Len(bus') = Len(bus) - 1
      /\ m = bus[1] /\ m \in Message
      /\ \A k \in 1 .. Len(bus') : bus'[k] = bus[k + 1]
  BY DEF LineTypeOK
<1>2. m.req \in Request /\ coil \in [Coils -> {0, 1}]
  BY <1>1 DEF Message, LineTypeOK
<1> HIDE DEF m
<1>3. \A k \in Writes(c)' : k \in Nat /\ k + 1 \in Writes(c) /\ bus'[k] = bus[k + 1]
  BY <1>1 DEF Writes
<1>4. \A j \in Writes(c) : j \in Nat /\ (j = 1 \/ j - 1 \in Writes(c)')
  <2> SUFFICES ASSUME NEW j \in Writes(c), j # 1 PROVE j - 1 \in Writes(c)'
    BY DEF Writes
  <2>1. j \in 1 .. Len(bus) /\ j - 1 \in 1 .. Len(bus')
    BY <1>1 DEF Writes
  <2>2. bus'[j - 1] = bus[j]
    BY <1>1, <2>1
  <2> QED BY <2>1, <2>2 DEF Writes
<1>5. CASE \E k \in Writes(c)' : bus'[k].req.val = 1 /\ \A j \in Writes(c)' : j <= k
  <2>1. PICK k \in Writes(c)' : bus'[k].req.val = 1 /\ \A j \in Writes(c)' : j <= k
    BY <1>5
  <2>2. k + 1 \in Writes(c) /\ bus[k + 1].req.val = 1 /\ k \in Nat
    BY <1>3, <2>1
  <2>3. ASSUME NEW j \in Writes(c) PROVE j <= k + 1
    <3>1. CASE j = 1
      BY <2>2, <3>1
    <3>2. CASE j - 1 \in Writes(c)'
      BY <1>4, <2>1, <2>2, <3>2
    <3> QED BY <1>4, <3>1, <3>2
  <2> QED BY <2>2, <2>3 DEF Raised
<1>6. CASE Writes(c)' = {} /\ coil'[c] = 1
  <2>1. CASE m.to = 1 /\ m.req.kind = "coil" /\ m.req.arg = c
    <3>1. 1 \in Writes(c)
      BY <1>1, <2>1 DEF Writes
    <3>3. \A j \in Writes(c) : j <= 1
      BY <1>4, <1>6
    <3>2. m.req.val = 1
      BY <1>2, <1>6, <2>1 DEF CoilsAfter, m
    <3> QED BY <1>1, <3>1, <3>2, <3>3 DEF Raised
  <2>2. CASE ~(m.to = 1 /\ m.req.kind = "coil" /\ m.req.arg = c)
    <3>1. Writes(c) = {}
      <4>1. 1 \notin Writes(c)
        BY <1>1, <2>2 DEF Writes
      <4> QED BY <1>4, <1>6, <4>1
    <3>2. coil[c] = 1
      BY <1>2, <1>6, <2>2 DEF CoilsAfter, m
    <3> QED BY <3>1, <3>2 DEF Raised
  <2> QED BY <2>1, <2>2
<1> QED BY <1>5, <1>6 DEF Raised

Lowers(c) == \E k \in 1 .. Len(stack) : LowersFrom(Script(stack[k].handler), stack[k].pc, c)

\* A slot that goes on past another step still lowers the coil.
LEMMA LoweringKept ==
  ASSUME stack \in Seq(Frame), StackInv, stack # <<>>, Advance, NEW c, Current # Lower(c),
         Lowers(c)
  PROVE  Lowers(c)'
<1>1. PICK k \in 1 .. Len(stack) : LowersFrom(Script(stack[k].handler), stack[k].pc, c)
  BY DEF Lowers
<1>2. /\ Len(stack) \in Nat /\ Len(stack) >= 1
      /\ \A j \in 1 .. Len(stack) - 1 : stack'[j] = stack[j]
      /\ \/ Top.pc = Len(Script(Top.handler)) /\ Len(stack') = Len(stack) - 1
         \/ /\ Top.pc # Len(Script(Top.handler)) /\ Len(stack') = Len(stack)
            /\ stack'[Len(stack)].handler = Top.handler
            /\ stack'[Len(stack)].pc = Top.pc + 1
  BY AdvanceShape
<1>3. CASE k < Len(stack)
  <2>1. k \in 1 .. Len(stack') /\ stack'[k] = stack[k]
    BY <1>1, <1>2, <1>3
  <2> QED BY <1>1, <2>1 DEF Lowers
<1>4. CASE k = Len(stack)
  <2>1. /\ Top.pc \in 1 .. Len(Script(Top.handler)) /\ Len(Script(Top.handler)) \in Nat
        /\ Top = stack[Len(stack)] /\ Current = Script(Top.handler)[Top.pc]
    BY TopFacts
  <2>2. PICK j \in Top.pc .. Len(Script(Top.handler)) : Script(Top.handler)[j] = Lower(c)
    BY <1>1, <1>4, <2>1 DEF LowersFrom
  <2>3. j # Top.pc
    BY <2>1, <2>2
  <2>4. j \in Top.pc + 1 .. Len(Script(Top.handler)) /\ Top.pc # Len(Script(Top.handler))
    BY <2>1, <2>2, <2>3
  <2>5. /\ Len(stack) \in 1 .. Len(stack') /\ stack'[Len(stack)].handler = Top.handler
        /\ stack'[Len(stack)].pc = Top.pc + 1
    BY <1>2, <2>4
  <2>6. LowersFrom(Script(stack'[Len(stack)].handler), stack'[Len(stack)].pc, c)
    BY <2>2, <2>4, <2>5 DEF LowersFrom
  <2> QED BY <2>5, <2>6 DEF Lowers
<1> QED BY <1>1, <1>2, <1>3, <1>4

\* A slot that has just raised the coil lowers it later.
LEMMA LoweringStarts ==
  ASSUME stack \in Seq(Frame), StackInv, stack # <<>>, Advance, NEW c \in Coils, Current = Raise(c)
  PROVE  Lowers(c)'
<1>1. /\ Top.pc \in 1 .. Len(Script(Top.handler)) /\ Len(Script(Top.handler)) \in Nat
      /\ Top.handler \in Handlers /\ Current = Script(Top.handler)[Top.pc]
      /\ Len(stack) \in Nat /\ Len(stack) >= 1
  BY TopFacts
<1>2. LowersFrom(Script(Top.handler), Top.pc + 1, c)
  BY <1>1, ScriptGood DEF Good, Balanced
<1>3. Top.pc # Len(Script(Top.handler))
  BY <1>1, <1>2 DEF LowersFrom
<1>4. /\ Len(stack') = Len(stack) /\ stack'[Len(stack)].handler = Top.handler
      /\ stack'[Len(stack)].pc = Top.pc + 1
  BY <1>3, AdvanceShape
<1> QED BY <1>1, <1>2, <1>4 DEF Lowers

\* Sending a request keeps the promise: a raise is followed by its lowering, and a lowering
\* is the last word.
LEMMA GuiSendCoil ==
  ASSUME TypeOK, StackInv, CoilInv, GuiSend, ~strayed, ~strayed', NEW c \in Coils, Raised(c)'
  PROVE  Lowers(c)'
<1>0. PICK r \in GuiRequests :
         /\ Doing(SendReq(r)) /\ Send(r) /\ strayed' = (strayed \/ ctxSlave # Meant(r))
  BY DEF GuiSend
<1> DEFINE m == [to |-> ctxSlave, req |-> r]
<1>1. /\ stack \in Seq(Frame) /\ stack # <<>> /\ Advance /\ Current = SendReq(r)
      /\ bus' = Append(bus, m) /\ coil' = coil /\ LineTypeOK
  BY <1>0 DEF GuiSend, Send, Doing, TypeOK
<1>2. m \in Message /\ ctxSlave = Meant(r)
  <2>1. m \in Message
    BY <1>0, GuiRequestType DEF Message, TypeOK, LineTypeOK
  <2>2. ctxSlave = Meant(r)
    BY <1>0, Zenon
  <2> QED BY <2>1, <2>2
<1>3. m.to = ctxSlave /\ m.req = r
  OBVIOUS
<1> HIDE DEF m
<1>4. CASE r.kind = "coil" /\ r.arg = c
  <2>1. m.to = 1
    BY <1>2, <1>3, <1>4 DEF Meant
  <2>2. r.val = 1
    BY <1>1, <1>2, <1>3, <1>4, <2>1, WriteSent
  <2>3. r = Ask("coil", c, 1)
    BY <1>0, <1>4, <2>2 DEF GuiRequests, Ask
  <2> QED BY <1>1, <2>3, LoweringStarts DEF Raise
<1>5. CASE ~(r.kind = "coil" /\ r.arg = c)
  <2>1. Raised(c)
    BY <1>1, <1>2, <1>3, <1>5, OtherRequestSent
  <2>2. Lowers(c)
    BY <2>1 DEF CoilInv, Lowers
  <2>3. Current # Lower(c)
    BY <1>1, <1>5 DEF Lower, SendReq, Ask
  <2> QED BY <1>1, <2>2, <2>3, LoweringKept
<1> QED BY <1>4, <1>5

\* Every step keeps every raised coil in the care of a slot.
LEMMA NextCoil ==
  ASSUME Lossy = FALSE
  PROVE  TypeOK /\ StackInv /\ CoilInv /\ [Next]_vars => CoilInv'
<1> SUFFICES ASSUME TypeOK, StackInv, CoilInv, [Next]_vars, ~strayed', NEW c \in Coils, Raised(c)'
             PROVE  Lowers(c)'
  BY DEF CoilInv, Lowers
<1>0. /\ ~strayed /\ stack \in Seq(Frame) /\ LineTypeOK
      /\ Raised(c) => Lowers(c)
  BY HistoryGrows DEF TypeOK, CoilInv, Lowers
<1>1. CASE GuiSend
  BY <1>0, <1>1, GuiSendCoil
<1>2. CASE BoardStep
  <2>1. stack' = stack /\ Board
    BY <1>2 DEF BoardStep, guiVars
  <2>2. Raised(c)
    <3>1. CASE bus' = bus /\ coil' = coil
      BY <3>1 DEF Raised, Writes
    <3>2. CASE bus # <<>> /\ bus' = Tail(bus) /\ coil' = CoilsAfter(Head(bus))
      BY <1>0, <3>2, WriteHandled
    <3> QED BY <1>0, <2>1, <3>1, <3>2, BoardMoves
  <2> QED BY <1>0, <2>1, <2>2 DEF Lowers
<1>3. CASE WorkerSend
  <2>1. /\ bus' = Append(bus, [to |-> ctxSlave, req |-> RequestOf(stage, seg)]) /\ coil' = coil
        /\ stack' = stack /\ step = "send"
    BY <1>3 DEF WorkerSend, Send, guiVars
  <2>2. PICK m \in Message : bus' = Append(bus, m) /\ m.req.kind # "coil"
    <3>1. stage \in Stages /\ stage # "idle" /\ seg \in Segs
      BY <2>1 DEF TypeOK
    <3>2. RequestOf(stage, seg) \in Request /\ RequestOf(stage, seg).kind # "coil"
      BY <3>1, RequestOfType DEF RequestOf, Ask, Stages
    <3> QED BY <1>0, <2>1, <3>2 DEF Message, LineTypeOK
  <2>3. Raised(c)
    BY <1>0, <2>1, <2>2, OtherRequestSent
  <2> QED BY <1>0, <2>1, <2>3 DEF Lowers
<1>4. ASSUME ~GuiSend, ~BoardStep, ~WorkerSend
      PROVE  /\ bus' = bus /\ coil' = coil
             /\ stack # <<>> /\ Advance => stack' = stack \/ Current # Lower(c)
  <2>0. /\ Lower(c) \in {SendReq(r) : r \in GuiRequests}
        /\ \A q \in GuiRequests : ReceiveFor(q) # Lower(c)
    <3>1. Ask("coil", c, 0) \in GuiRequests /\ Lower(c) = SendReq(Ask("coil", c, 0))
      BY DEF GuiRequests, Lower
    <3>2. \A q : ReceiveFor(q) # Lower(c)
      BY DEF Lower, SendReq, ReceiveFor
    <3> QED BY <3>1, <3>2
  <2>1. CASE \/ \E b \in Buttons : Press(b)
             \/ StatusTick \/ ChartTick \/ DialogTick \/ DialogClose \/ Poll \/ UNCHANGED vars
    <3>1. bus' = bus /\ coil' = coil
      BY <2>1 DEF Press, StatusTick, ChartTick, DialogTick, DialogClose, Poll, vars, lineVars
    <3>2. stack # <<>> => stack' = stack \/ Current # Lower(c)
      BY <2>0, <2>1, StepsDiffer
      DEF Press, ButtonsLive, EventLoop, Doing, StatusTick, ChartTick, DialogTick, DialogClose,
          Poll, vars, guiVars
    <3> QED BY <3>1, <3>2
  <2>2. CASE GuiReceive \/ TornReceive
    <3>1. bus' = bus /\ coil' = coil
      BY <2>2 DEF GuiReceive, TornReceive
    <3>2. \E r \in GuiRequests : Doing(ReceiveFor(r))
      BY <2>2 DEF GuiReceive, TornReceive
    <3> QED BY <2>0, <3>1, <3>2 DEF Doing
  <2>3. CASE GuiSelect \/ Wake \/ GuiWritePlc \/ GuiChart \/ GuiClearList \/ GuiAddCmd
    <3>1. bus' = bus /\ coil' = coil
      BY <2>3 DEF GuiSelect, Wake, GuiWritePlc, GuiChart, GuiClearList, GuiAddCmd, lineVars
    <3>2. Current # Lower(c)
      BY <2>0, <2>3, StepsDiffer
      DEF GuiSelect, Wake, GuiWritePlc, GuiChart, GuiClearList, GuiAddCmd, Doing
    <3> QED BY <3>1, <3>2
  <2>4. CASE Dequeue \/ WorkerSelect \/ AppendPoint \/ WorkerReceive
    BY <2>4 DEF Dequeue, WorkerSelect, AppendPoint, WorkerReceive, lineVars, guiVars
  <2> QED BY <1>4, <2>1, <2>2, <2>3, <2>4 DEF Next, GuiStep, WorkerStep
<1>5. CASE ~GuiSend /\ ~BoardStep /\ ~WorkerSend
  <2>1. Lowers(c)
    BY <1>0, <1>4, <1>5 DEF Raised, Writes
  <2>2. CASE stack' = stack
    BY <2>1, <2>2 DEF Lowers
  <2>3. CASE stack # <<>> /\ Advance /\ stack' # stack
    BY <1>0, <1>4, <1>5, <2>1, <2>3, LoweringKept
  <2>4. CASE \E h \in Handlers : stack' = Append(stack, [handler |-> h, pc |-> 1])
    <3>1. Len(stack') = Len(stack) + 1 /\ \A k \in 1 .. Len(stack) : stack'[k] = stack[k]
      BY <1>0, <2>4
    <3>2. PICK k \in 1 .. Len(stack) : LowersFrom(Script(stack[k].handler), stack[k].pc, c)
      BY <2>1 DEF Lowers
    <3>3. k \in 1 .. Len(stack') /\ stack'[k] = stack[k]
      BY <1>0, <3>1, <3>2
    <3> QED BY <3>2, <3>3 DEF Lowers
  <2> QED BY <2>2, <2>3, <2>4, StackMoves
<1> QED BY <1>1, <1>2, <1>3, <1>5

\* On a line without losses: for every set of buttons and depth of nesting, and whatever
\* the worker does to the replies, no coil stays raised once all slots have returned and
\* their requests have arrived, unless a write went to the wrong slave.
THEOREM CoilsReleased ==
  ASSUME Lossy = FALSE
  PROVE  Spec => []PulsesReleased
<1>1. Init => CoilInv
  BY DEF Init, LineInit, CoilInv, Raised, Writes
<1>2. TypeOK /\ StackInv /\ CoilInv /\ [Next]_vars => CoilInv'
  BY NextCoil
<1>3. TypeOK /\ CoilInv => PulsesReleased
  <2> SUFFICES ASSUME TypeOK, CoilInv, stack = <<>>, bus = <<>>, ~strayed, NEW c \in Coils
               PROVE  coil[c] = 0
    BY DEF PulsesReleased
  <2>1. Writes(c) = {} /\ ~Raised(c)
    BY DEF CoilInv, Writes, Raised
  <2>2. coil[c] \in {0, 1}
    BY DEF TypeOK, LineTypeOK
  <2> QED BY <2>1, <2>2 DEF Raised
<1> QED BY <1>1, <1>2, <1>3, TypeCorrect, StackInOrder, PTL DEF Spec

----------------------------------------------------------------------------
(* The waveforms on a shared line.  As long as no answer is late a frame a  *)
(* waveform read left behind is consumed by the time the next segment is   *)
(* read: the angle is asked in between, and its call takes what is first.  *)

\* The slaves that may be asked, or may have answered, for a waveform of the segment.
Sources ==
    IF stage = "wave1" /\ step \in {"slave", "send"}
    THEN {}
    ELSE (IF stage = "wave1" THEN {2} ELSE {2, 3}) \cup (IF shared THEN {1} ELSE {})

WaveData(n, s) == IF n = 1 THEN [from |-> 1, kind |-> "foreign", n |-> 0]
                           ELSE [from |-> n, kind |-> "wave", n |-> s]

\* A frame of a waveform comes before every other.
OnlyFirst ==
    /\ \A k \in 1 .. Len(bus) : bus[k].req.kind = "wave" => k = 1 /\ rxq = <<>>
    /\ \A k \in 1 .. Len(rxq) : rxq[k].kind = "wave" => k = 1

\* The frames of waveforms are of segment s and slaves S.
OnlyFrom(S, s) ==
    /\ \A k \in 1 .. Len(bus) :
          bus[k].req.kind = "wave" => bus[k].req.arg = s /\ bus[k].to \in S
    /\ \A k \in 1 .. Len(rxq) :
          rxq[k].kind = "wave" => \E n \in S : rxq[k].data = WaveData(n, s)

\* Where a value of segment s comes from.
OwnValue(d, w, s) == d = Zero \/ FromSlave1(d) \/ \E n \in w : FromWave(d, n, s)

SlaveChosen == step = "send" => ctxSlave = SlaveOf(stage) \/ (shared /\ ctxSlave = 1)

OwnBuffer ==
    /\ stage = "angle" \/ (stage = "wave1" /\ step # "append") => buf = Zero
    /\ stage = "wave1" \/ (stage = "wave2" /\ step # "append") => OwnValue(buf, {2}, seg)
    /\ stage = "wave2" => OwnValue(buf, {2, 3}, seg)

OwnPoints ==
    /\ \A k \in 1 .. Len(list1) : OwnValue(list1[k].data, {2}, list1[k].seg)
    /\ \A k \in 1 .. Len(list2) : OwnValue(list2[k].data, {2, 3}, list2[k].seg)

OwnSegmentInv ==
    /\ SlaveChosen
    /\ stage = "angle" /\ step = "recv" => OnlyFirst
    /\ stage \in {"wave1", "wave2"} => OnlyFrom(Sources, seg)
    /\ OwnBuffer
    /\ OwnPoints

\* No slot on the stack reads waveforms.
LocalSlots == \A k \in 1 .. Len(stack) : stack[k].handler # "TEST1"

\* Without TEST1 on the panel none ever does.
LEMMA NextLocalSlots ==
  ASSUME "TEST1" \notin Buttons
  PROVE  TypeOK /\ LocalSlots /\ [Next]_vars => LocalSlots'
<1>1. "TEST1" \in AllButtons \ {"GOGOGO"}
  BY DEF AllButtons
<1>2. TypeOK /\ Without("TEST1") /\ [Next]_vars => Without("TEST1")'
  BY <1>1, NextWithout
<1> QED BY <1>2 DEF Without, LocalSlots

\* What such slots send and select.
LEMMA LocalStep ==
  ASSUME TypeOK, StackInv, LocalSlots, stack # <<>>
  PROVE  /\ \A r \in GuiRequests : Current = SendReq(r) => r.kind # "wave"
         /\ \A n \in Slaves : Current = Select(n) => n = 1
<1>1. /\ Top.pc \in 1 .. Len(Script(Top.handler)) /\ Current = Script(Top.handler)[Top.pc]
      /\ Top.handler \in Handlers /\ Top = stack[Len(stack)] /\ Len(stack) \in Nat /\ Len(stack) >= 1
  BY TopFacts DEF TypeOK
<1>2. Top.handler # "TEST1"
  BY <1>1 DEF LocalSlots
<1> QED BY <1>1, <1>2, ScriptGood DEF Local

\* What a call leaves on the line when it is not late: the oldest reply is gone, or
\* there is nothing.
CallTakes ==
    \/ rxq # <<>> /\ rxq' = Tail(rxq) /\ bus' = bus
    \/ rxq' = <<>> /\ bus' = <<>>

\* The frames of waveforms are gone with the first.
LEMMA FirstTaken ==
  ASSUME LineTypeOK, OnlyFirst, CallTakes, NEW s
  PROVE  OnlyFirst' /\ OnlyFrom({}, s)'
<1>1. CASE rxq # <<>> /\ rxq' = Tail(rxq) /\ bus' = bus
  <2>1. /\ Len(rxq) \in Nat /\ Len(rxq') = Len(rxq) - 1
        /\ \A k \in 1 .. Len(rxq') : rxq'[k] = rxq[k + 1]
    BY <1>1 DEF LineTypeOK
  <2>2. \A k \in 1 .. Len(rxq') : rxq'[k].kind # "wave"
    BY <2>1 DEF OnlyFirst
  <2>3. \A k \in 1 .. Len(bus') : bus'[k].req.kind # "wave"
    BY <1>1 DEF OnlyFirst
  <2> QED BY <2>2, <2>3 DEF OnlyFirst, OnlyFrom
<1>2. CASE rxq' = <<>> /\ bus' = <<>>
  BY <1>2 DEF OnlyFirst, OnlyFrom
<1> QED BY <1>1, <1>2 DEF CallTakes

\* Taking a frame adds none.
LEMMA SomeTaken ==
  ASSUME LineTypeOK, NEW S, NEW s, OnlyFrom(S, s), CallTakes
  PROVE  OnlyFrom(S, s)'
<1>1. CASE rxq # <<>> /\ rxq' = Tail(rxq) /\ bus' = bus
  <2>1. /\ Len(rxq) \in Nat /\ Len(rxq') = Len(rxq) - 1
        /\ \A k \in 1 .. Len(rxq') : rxq'[k] = rxq[k + 1]
    BY <1>1 DEF LineTypeOK
  <2>2. \A k \in 1 .. Len(rxq') :
           rxq'[k].kind = "wave" => \E n \in S : rxq'[k].data = WaveData(n, s)
    BY <2>1 DEF OnlyFrom
  <2> QED BY <1>1, <2>2 DEF OnlyFrom
<1>2. CASE rxq' = <<>> /\ bus' = <<>>
  BY <1>2 DEF OnlyFrom
<1> QED BY <1>1, <1>2 DEF CallTakes

\* Sending a request for something else adds no frame of a waveform.
LEMMA OtherSent ==
  ASSUME LineTypeOK, NEW m \in Message, m.req.kind # "wave", bus' = Append(bus, m), rxq' = rxq,
         NEW S, NEW s
  PROVE  (OnlyFirst => OnlyFirst') /\ (OnlyFrom(S, s) => OnlyFrom(S, s)')
<1>1. /\ Len(bus) \in Nat /\ Len(bus') = Len(bus) + 1
      /\ \A k \in 1 .. Len(bus) : bus'[k] = bus[k]
      /\ bus'[Len(bus) + 1] = m
  BY SentBus
<1>2. \A k \in 1 .. Len(bus') : bus'[k].req.kind = "wave" => k \in 1 .. Len(bus) /\ bus'[k] = bus[k]
  BY <1>1
<1> QED BY <1>2 DEF OnlyFirst, OnlyFrom

\* The board answers a request for a waveform with that waveform.
LEMMA WaveAnswer ==
  ASSUME NEW m \in Message, NEW y \in Reply, ReplyTo(m.to, m.req, y), y.kind = "wave"
  PROVE  m.req.kind = "wave" /\ y.data = WaveData(m.to, m.req.arg)
<1>1. m.req.kind = "wave" /\ m.to \in 1 .. 3 /\ y.data \in Data
  BY DEF ReplyTo, Message, Slaves, Reply
<1>2. CASE m.to = 1
  <2>1. ~Serves([to |-> m.to, req |-> m.req])
    BY <1>1, <1>2 DEF Serves
  <2>2. y.data.from = 1 /\ y.data.kind = "foreign" /\ y.data.n = 0
    BY <1>1, <1>2, <2>1 DEF ReplyTo
  <2> QED BY <1>1, <1>2, <2>2 DEF WaveData, Data
<1>3. CASE m.to # 1
  <2>1. Serves([to |-> m.to, req |-> m.req]) /\ Block(m.req) = "wave"
    BY <1>1, <1>3 DEF Serves, Block
  <2>2. y.data.from = m.to /\ y.data.kind = "wave" /\ y.data.n = m.req.arg
    BY <1>1, <2>1 DEF ReplyTo
  <2> QED BY <1>1, <1>3, <2>2 DEF WaveData, Data
<1> QED BY <1>2, <1>3

\* The board keeps the order of the frames, and where they come from.
LEMMA BoardWaves ==
  ASSUME LineTypeOK, Board, NEW S, NEW s
  PROVE  (OnlyFirst => OnlyFirst') /\ (OnlyFrom(S, s) => OnlyFrom(S, s)')
<1>1. CASE bus' = bus /\ rxq' = rxq
  BY <1>1 DEF OnlyFirst, OnlyFrom
<1>2. CASE bus # <<>> /\ bus' = Tail(bus)
  <2>1. /\ Len(bus) \in Nat /\ Len(bus) >= 1 /\ Len(bus') = Len(bus) - 1
        /\ Head(bus) = bus[1] /\ Head(bus) \in Message
        /\ \A k \in 1 .. Len(bus') : bus'[k] = bus[k + 1]
    BY <1>2 DEF LineTypeOK
  <2>2. \A k \in 1 .. Len(bus') : k + 1 \in 1 .. Len(bus) /\ bus'[k] = bus[k + 1] /\ k + 1 # 1
    BY <2>1
  <2>3. CASE rxq' = rxq
    BY <2>2, <2>3 DEF OnlyFirst, OnlyFrom
  <2>4. CASE \E y : /\ ReplyTo(Head(bus).to, Head(bus).req, y)
                    /\ rxq' = Append(rxq, y) /\ y \in Reply
    <3>1. PICK y \in Reply : ReplyTo(Head(bus).to, Head(bus).req, y) /\ rxq' = Append(rxq, y)
      BY <2>4
    <3>2. /\ Len(rxq) \in Nat /\ Len(rxq') = Len(rxq) + 1 /\ rxq'[Len(rxq) + 1] = y
          /\ \A k \in 1 .. Len(rxq) : rxq'[k] = rxq[k]
          /\ rxq = <<>> => Len(rxq) = 0
      BY <3>1 DEF LineTypeOK
    <3>3. y.kind = "wave" => /\ bus[1].req.kind = "wave"
                             /\ y.data = WaveData(bus[1].to, bus[1].req.arg)
      BY <2>1, <3>1, WaveAnswer
    <3>4. 1 \in 1 .. Len(bus)
      BY <2>1
    <3>5. \A k \in 1 .. Len(rxq') : \/ k \in 1 .. Len(rxq) /\ rxq'[k] = rxq[k]
                                    \/ k = Len(rxq) + 1 /\ rxq'[k] = y
      BY <3>2
    <3>6. OnlyFirst => OnlyFirst'
      BY <2>2, <3>2, <3>3, <3>4, <3>5 DEF OnlyFirst
    <3>7. ASSUME OnlyFrom(S, s)
          PROVE  OnlyFrom(S, s)'
      <4>1. \A k \in 1 .. Len(bus') :
               bus'[k].req.kind = "wave" => bus'[k].req.arg = s /\ bus'[k].to \in S
        BY <2>2, <3>7 DEF OnlyFrom
      <4>2. y.kind = "wave" => \E n \in S : y.data = WaveData(n, s)
        BY <3>3, <3>4, <3>7 DEF OnlyFrom
      <4>3. \A k \in 1 .. Len(rxq') :
               rxq'[k].kind = "wave" => \E n \in S : rxq'[k].data = WaveData(n, s)
        BY <3>5, <3>7, <4>2, Zenon DEF OnlyFrom
      <4> QED BY <4>1, <4>3 DEF OnlyFrom
    <3> QED BY <3>6, <3>7
  <2> QED BY <1>2, <2>3, <2>4, BoardMoves
<1> QED BY <1>1, <1>2, BoardMoves

\* The frames of fewer slaves are frames of more.
LEMMA MoreSources ==
  ASSUME NEW S, NEW T, NEW s, OnlyFrom(S, s), S \subseteq T
  PROVE  OnlyFrom(T, s)
  BY DEF OnlyFrom

\* A value stays where it comes from.
LEMMA OwnValueKept ==
  ASSUME NEW d, NEW v, NEW w, NEW s, OwnValue(d, v, s), v \subseteq w, shared => shared'
  PROVE  OwnValue(d, w, s)'
  BY DEF OwnValue, FromSlave1, FromWave

\* A reply to a read of a waveform is a value of its segment.
LEMMA WaveTaken ==
  ASSUME LineTypeOK, stage \in {"wave1", "wave2"}, step = "recv", OnlyFrom(Sources, seg),
         rxq # <<>>, Head(rxq).kind = "wave"
  PROVE  OwnValue(Head(rxq).data, IF stage = "wave1" THEN {2} ELSE {2, 3}, seg)
<1>1. Head(rxq) = rxq[1] /\ 1 \in 1 .. Len(rxq)
  BY DEF LineTypeOK
<1>2. PICK n \in Sources : Head(rxq).data = WaveData(n, seg)
  BY <1>1 DEF OnlyFrom
<1>3. CASE n = 1
  <2>1. shared
    BY <1>2, <1>3 DEF Sources
  <2>2. Head(rxq).data.from = 1 /\ Head(rxq).data.kind = "foreign"
    BY <1>2, <1>3 DEF WaveData
  <2> QED BY <2>1, <2>2 DEF OwnValue, FromSlave1
<1>4. CASE n # 1
  <2>1. n \in IF stage = "wave1" THEN {2} ELSE {2, 3}
    BY <1>2, <1>4 DEF Sources
  <2>2. FromWave(Head(rxq).data, n, seg)
    BY <1>2, <1>4 DEF WaveData, FromWave
  <2> QED BY <2>1, <2>2 DEF OwnValue
<1> QED BY <1>3, <1>4

\* The points stay values of their own segments when nothing is appended.
LEMMA PointsKept ==
  ASSUME TypeOK, OwnPoints, [Next]_vars, ~AppendPoint
  PROVE  OwnPoints'
<1>1. shared => shared'
  BY HistoryGrows
<1>2. \A k \in 1 .. Len(list1) : OwnValue(list1[k].data, {2}, list1[k].seg)'
                                 \/ list1' # list1
  BY <1>1, OwnValueKept DEF OwnPoints, OwnValue, FromSlave1
<1>3. \A k \in 1 .. Len(list2) : OwnValue(list2[k].data, {2, 3}, list2[k].seg)'
                                 \/ list2' # list2
  BY <1>1, OwnValueKept DEF OwnPoints, OwnValue, FromSlave1
<1> QED BY <1>2, <1>3, ListsOfOtherSteps DEF OwnPoints

\* The worker moves on when it appends.
LEMMA AppendIsWork ==
  ASSUME TypeOK, workerVars' = workerVars
  PROVE  ~AppendPoint
<1>1. stage' = stage /\ step' = step /\ idx' = idx /\ idx \in Nat
  BY PanelAssumption DEF workerVars, TypeOK
<1>2. AppendPoint => idx' = idx + 1 \/ stage' # stage \/ step' # step
  BY DEF AppendPoint, AfterPoint, EndSegment, Proceed
<1> QED BY <1>1, <1>2

\* A step of the GUI thread, the board or the motor.
LEMMA OwnOutside ==
  ASSUME TypeOK, OwnSegmentInv, [Next]_vars, workerVars' = workerVars,
         OnlyFirst => OnlyFirst',
         \A S, s : OnlyFrom(S, s) => OnlyFrom(S, s)',
         ctxSlave' = ctxSlave \/ step # "send" \/ (ctxSlave' = 1 /\ shared')
  PROVE  OwnSegmentInv'
<1>h. /\ stage' = stage /\ step' = step /\ seg' = seg /\ buf' = buf
      /\ (shared => shared')
  BY HistoryGrows DEF workerVars
<1>1. SlaveChosen'
  BY <1>h DEF OwnSegmentInv, SlaveChosen
<1>2. (stage = "angle" /\ step = "recv" => OnlyFirst)'
  BY <1>h DEF OwnSegmentInv
<1>3. (stage \in {"wave1", "wave2"} => OnlyFrom(Sources, seg))'
  <2> SUFFICES ASSUME stage' \in {"wave1", "wave2"} PROVE OnlyFrom(Sources, seg)'
    OBVIOUS
  <2>1. PICK S, s : S = Sources /\ s = seg /\ OnlyFrom(S, s)
    BY <1>h DEF OwnSegmentInv
  <2>2. S \subseteq Sources'
    BY <1>h, <2>1 DEF Sources
  <2>3. OnlyFrom(S, s)'
    BY <2>1
  <2> QED BY <1>h, <2>1, <2>2, <2>3 DEF OnlyFrom
<1>4. OwnBuffer'
  <2>1. \A w : OwnValue(buf, w, seg) => OwnValue(buf, w, seg)'
    BY <1>h DEF OwnValue, FromSlave1
  <2> QED BY <1>h, <2>1 DEF OwnSegmentInv, OwnBuffer
<1>5. OwnPoints'
  BY AppendIsWork, PointsKept DEF OwnSegmentInv
<1> QED BY <1>1, <1>2, <1>3, <1>4, <1>5 DEF OwnSegmentInv

\* The end of the worker's read, whichever it is.
LEMMA OwnWorkerGets ==
  ASSUME TypeOK, OwnSegmentInv, [Next]_vars, step = "recv", CallTakes, shared' = shared, NEW d,
         WorkerGets(d),
         d = Kept \/ (rxq # <<>> /\ Head(rxq).kind = RequestOf(stage, seg).kind /\ d = Head(rxq).data)
  PROVE  OwnSegmentInv'
<1>0. LineTypeOK /\ ~AppendPoint
  BY DEF TypeOK, AppendPoint
<1>1. OwnPoints'
  BY <1>0, PointsKept DEF OwnSegmentInv
<1>2. CASE StatusRead(d)
  <2>1. stage' = "idle" /\ step' = "slave"
    BY <1>2 DEF StatusRead, Proceed
  <2> QED BY <1>1, <2>1 DEF OwnSegmentInv, SlaveChosen, OwnBuffer
<1>3. CASE AngleRead(d)
  <2>1. stage = "angle" /\ stage' \in {"angle", "wave1"} /\ step' = "slave" /\ seg' = seg /\ buf' = buf
    BY <1>3 DEF AngleRead, Proceed
  <2>2. OnlyFrom({}, seg)'
    BY <1>0, <2>1, FirstTaken DEF OwnSegmentInv
  <2>4. stage' = "wave1" => Sources' = {}
    BY <2>1 DEF Sources
  <2>5. (stage \in {"wave1", "wave2"} => OnlyFrom(Sources, seg))'
    BY <2>1, <2>2, <2>4 DEF OnlyFrom
  <2>6. buf' = Zero /\ OwnValue(Zero, {2}, seg)'
    BY <2>1 DEF OwnSegmentInv, OwnBuffer, OwnValue
  <2> QED BY <1>1, <2>1, <2>5, <2>6 DEF OwnSegmentInv, SlaveChosen, OwnBuffer
<1>4. CASE WaveRead(d)
  <2>1. /\ stage \in {"wave1", "wave2"} /\ stage' = stage /\ step' = "append" /\ seg' = seg
        /\ buf' = d
    BY <1>4 DEF WaveRead
  <2>2. Sources' = Sources
    BY <2>1 DEF Sources
  <2>3. OnlyFrom(Sources, seg)'
    <3>1. PICK S, s : S = Sources /\ s = seg /\ OnlyFrom(S, s)
      BY <2>1 DEF OwnSegmentInv
    <3>2. OnlyFrom(S, s)'
      BY <1>0, <3>1, SomeTaken
    <3> QED BY <2>1, <2>2, <3>1, <3>2
  <2>4. OwnValue(d, IF stage = "wave1" THEN {2} ELSE {2, 3}, seg)
    <3>1. CASE d = Kept
      <4>1. d = buf
        BY <2>1, <3>1 DEF Kept
      <4>2. OwnValue(buf, {2}, seg)
        BY <2>1 DEF OwnSegmentInv, OwnBuffer
      <4> QED BY <4>1, <4>2 DEF OwnValue
    <3>2. CASE rxq # <<>> /\ Head(rxq).kind = RequestOf(stage, seg).kind /\ d = Head(rxq).data
      <4>1. Head(rxq).kind = "wave"
        BY <2>1, <3>2 DEF RequestOf, Ask
      <4> QED BY <1>0, <2>1, <3>2, <4>1, WaveTaken DEF OwnSegmentInv
    <3> QED BY <3>1, <3>2
  <2>5. OwnValue(buf, IF stage = "wave1" THEN {2} ELSE {2, 3}, seg)'
    BY <2>1, <2>4 DEF OwnValue, FromSlave1
  <2>6. OwnBuffer'
    BY <2>1, <2>5 DEF OwnBuffer, OwnValue
  <2> QED BY <1>1, <2>1, <2>3, <2>6 DEF OwnSegmentInv, SlaveChosen
<1> QED BY <1>2, <1>3, <1>4 DEF WorkerGets

\* The worker's request is for the segment it is at.
LEMMA OwnWorkerSend ==
  ASSUME TypeOK, LineInv, OwnSegmentInv, [Next]_vars, WorkerSend, ~late
  PROVE  OwnSegmentInv'
<1> DEFINE req == RequestOf(stage, seg)
           m == [to |-> ctxSlave, req |-> req]
<1>0. /\ step = "send" /\ step' = "recv" /\ stage' = stage /\ seg' = seg /\ buf' = buf
      /\ bus' = Append(bus, m) /\ rxq' = rxq /\ LineTypeOK /\ ~AppendPoint
  BY DEF WorkerSend, Send, TypeOK, AppendPoint
<1>h. shared => shared'
  BY HistoryGrows
<1>1. m \in Message /\ m.req = req /\ m.to = ctxSlave
  <2>1. req \in Request
    BY <1>0, RequestOfType DEF TypeOK
  <2> QED BY <1>0, <2>1 DEF Message, LineTypeOK
<1>2. /\ stage \in {"wave1", "wave2"} => req.kind = "wave" /\ req.arg = seg
      /\ stage \notin {"wave1", "wave2"} => req.kind # "wave"
  <2>1. stage \in Stages
    BY DEF TypeOK
  <2> QED BY <2>1 DEF RequestOf, Ask, Stages
<1> HIDE DEF m, req
<1>3. /\ Len(bus) \in Nat /\ Len(bus') = Len(bus) + 1 /\ bus'[Len(bus) + 1] = m
      /\ \A k \in 1 .. Len(bus) : bus'[k] = bus[k]
  BY <1>0, <1>1, SentBus
<1>4. OwnPoints'
  BY <1>0, PointsKept DEF OwnSegmentInv
<1>5. OwnBuffer'
  <2>1. \A w : OwnValue(buf, w, seg) => OwnValue(buf, w, seg)'
    BY <1>0, <1>h DEF OwnValue, FromSlave1
  <2> QED BY <1>0, <2>1 DEF OwnSegmentInv, OwnBuffer
<1>6. ASSUME stage = "angle" PROVE OnlyFirst'
  <2>1. Len(rxq) \in Nat /\ Len(rxq) + Len(bus) <= 1
    BY <1>0, LineCount DEF LineInv, Waiters, WorkerWaits
  <2>2. (\A k \in 1 .. Len(bus) : k = 1) /\ (\A k \in 1 .. Len(rxq) : k = 1)
    BY <1>3, <2>1
  <2>3. rxq # <<>> => Len(bus) = 0
    BY <1>0, <1>3, <2>1, LineCount
  <2>4. \A k \in 1 .. Len(bus') : bus'[k].req.kind = "wave" => k \in 1 .. Len(bus)
    BY <1>1, <1>2, <1>3, <1>6
  <2> QED BY <1>0, <2>2, <2>3, <2>4 DEF OnlyFirst
<1>7. ASSUME stage \in {"wave1", "wave2"} PROVE OnlyFrom(Sources, seg)'
  <2>1. Sources \subseteq Sources'
    BY <1>0, <1>h DEF Sources
  <2>2. ctxSlave \in Sources'
    <3>1. ctxSlave = SlaveOf(stage) \/ (shared' /\ ctxSlave = 1)
      BY <1>0, <1>h DEF OwnSegmentInv, SlaveChosen
    <3> QED BY <1>0, <1>7, <3>1 DEF Sources, SlaveOf
  <2>3. OnlyFrom(Sources, seg)
    BY <1>7 DEF OwnSegmentInv
  <2>4. \A k \in 1 .. Len(bus') :
           bus'[k].req.kind = "wave" => bus'[k].req.arg = seg /\ bus'[k].to \in Sources'
    <3>1. \A k \in 1 .. Len(bus') : k \in 1 .. Len(bus) \/ k = Len(bus) + 1
      BY <1>3
    <3> QED BY <1>1, <1>2, <1>3, <1>7, <2>1, <2>2, <2>3, <3>1 DEF OnlyFrom
  <2> QED BY <1>0, <2>1, <2>3, <2>4 DEF OnlyFrom
<1> QED BY <1>0, <1>4, <1>5, <1>6, <1>7 DEF OwnSegmentInv, SlaveChosen

\* The points appended are the value read for the segment.
LEMMA OwnAppend ==
  ASSUME TypeOK, OwnSegmentInv, AppendPoint
  PROVE  OwnSegmentInv'
<1>0. /\ step = "append" /\ stage \in {"wave1", "wave2"} /\ shared' = shared
      /\ bus' = bus /\ rxq' = rxq /\ list1 \in Seq(Point) /\ list2 \in Seq(Point)
      /\ NewPoint.data = buf /\ NewPoint.seg = seg
  BY DEF AppendPoint, TypeOK, lineVars, histVars, NewPoint
<1>1. \/ stage' = stage /\ step' = step /\ seg' = seg /\ buf' = buf
      \/ stage = "wave1" /\ stage' = "wave2" /\ step' = "slave" /\ seg' = seg /\ buf' = buf
      \/ stage' = "angle" /\ step' = "slave" /\ buf' = Zero
      \/ stage' = "idle" /\ step' = "slave"
  BY <1>0 DEF AppendPoint, AfterPoint, EndSegment, Proceed
<1>2. OwnPoints'
  <2>1. /\ \A k \in 1 .. Len(list1) : OwnValue(list1[k].data, {2}, list1[k].seg)
        /\ \A k \in 1 .. Len(list2) : OwnValue(list2[k].data, {2, 3}, list2[k].seg)
    BY DEF OwnSegmentInv, OwnPoints
  <2>2. CASE stage = "wave1"
    <3>1. list1' = Append(list1, NewPoint) /\ list2' = list2 /\ OwnValue(buf, {2}, seg)
      BY <2>2 DEF AppendPoint, OwnSegmentInv, OwnBuffer
    <3>2. \A k \in 1 .. Len(list1') : (k \in 1 .. Len(list1) /\ list1'[k] = list1[k]) \/ list1'[k] = NewPoint
      BY <1>0, <3>1
    <3>3. \A k \in 1 .. Len(list1') : OwnValue(list1'[k].data, {2}, list1'[k].seg)
      BY <1>0, <2>1, <3>1, <3>2
    <3> QED BY <1>0, <2>1, <3>1, <3>3 DEF OwnPoints, OwnValue, FromSlave1
  <2>3. CASE stage = "wave2"
    <3>1. list2' = Append(list2, NewPoint) /\ list1' = list1 /\ OwnValue(buf, {2, 3}, seg)
      BY <2>3 DEF AppendPoint, OwnSegmentInv, OwnBuffer
    <3>2. \A k \in 1 .. Len(list2') : (k \in 1 .. Len(list2) /\ list2'[k] = list2[k]) \/ list2'[k] = NewPoint
      BY <1>0, <3>1
    <3>3. \A k \in 1 .. Len(list2') : OwnValue(list2'[k].data, {2, 3}, list2'[k].seg)
      BY <1>0, <2>1, <3>1, <3>2
    <3> QED BY <1>0, <2>1, <3>1, <3>3 DEF OwnPoints, OwnValue, FromSlave1
  <2> QED BY <1>0, <2>2, <2>3
<1>3. OwnBuffer'
  <2>1. \A w : OwnValue(buf, w, seg) /\ seg' = seg /\ buf' = buf => OwnValue(buf, w, seg)'
    BY <1>0 DEF OwnValue, FromSlave1
  <2>2. CASE stage' = stage /\ step' = step /\ seg' = seg /\ buf' = buf
    BY <2>1, <2>2 DEF OwnSegmentInv, OwnBuffer
  <2>3. CASE stage = "wave1" /\ stage' = "wave2" /\ step' = "slave" /\ seg' = seg /\ buf' = buf
    <3>1. OwnValue(buf, {2}, seg)'
      BY <2>1, <2>3 DEF OwnSegmentInv, OwnBuffer
    <3> QED BY <2>3, <3>1 DEF OwnBuffer, OwnValue
  <2>4. CASE stage' \in {"angle", "idle"} /\ step' = "slave" /\ (stage' = "angle" => buf' = Zero)
    BY <2>4 DEF OwnBuffer
  <2> QED BY <1>1, <2>2, <2>3, <2>4
<1>4. (stage \in {"wave1", "wave2"} => OnlyFrom(Sources, seg))'
  <2> SUFFICES ASSUME stage' \in {"wave1", "wave2"} PROVE OnlyFrom(Sources, seg)'
    OBVIOUS
  <2>1. seg' = seg /\ OnlyFrom(Sources, seg)
    BY <1>0, <1>1 DEF OwnSegmentInv
  <2>2. Sources \subseteq Sources'
    BY <1>0, <1>1 DEF Sources
  <2> QED BY <1>0, <2>1, <2>2 DEF OnlyFrom
<1> QED BY <1>0, <1>1, <1>2, <1>3, <1>4 DEF OwnSegmentInv, SlaveChosen

\* The worker takes a command or selects a slave.
LEMMA OwnDequeueSelect ==
  ASSUME TypeOK, OwnSegmentInv, [Next]_vars, Dequeue \/ WorkerSelect
  PROVE  OwnSegmentInv'
<1>0. /\ step = "slave" /\ bus' = bus /\ rxq' = rxq /\ shared' = shared /\ ~AppendPoint
  BY DEF Dequeue, WorkerSelect, TypeOK, AppendPoint, lineVars, histVars
<1>1. OwnPoints'
  BY <1>0, PointsKept DEF OwnSegmentInv
<1>2. CASE Dequeue
  BY <1>1, <1>2 DEF Dequeue, Proceed, OwnSegmentInv, SlaveChosen, OwnBuffer
<1>3. CASE WorkerSelect
  <2>1. /\ stage' = stage /\ step' = "send" /\ seg' = seg /\ buf' = buf
        /\ ctxSlave' = SlaveOf(stage)
    BY <1>3 DEF WorkerSelect, SetSlave
  <2>2. OwnBuffer'
    <3>1. \A w : OwnValue(buf, w, seg) => OwnValue(buf, w, seg)'
      BY <1>0, <2>1 DEF OwnValue, FromSlave1
    <3> QED BY <1>0, <2>1, <3>1 DEF OwnSegmentInv, OwnBuffer
  <2>3. (stage \in {"wave1", "wave2"} => OnlyFrom(Sources, seg))'
    <3>1. Sources' = Sources
      BY <1>0, <2>1 DEF Sources
    <3> QED BY <1>0, <2>1, <3>1 DEF OwnSegmentInv, OnlyFrom
  <2> QED BY <1>1, <2>1, <2>2, <2>3 DEF OwnSegmentInv, SlaveChosen
<1> QED BY <1>2, <1>3

\* Every step keeps the values with their segments until an answer is late.
LEMMA NextOwnSegment ==
  TypeOK /\ StackInv /\ LineInv /\ LocalSlots /\ (~late => OwnSegmentInv) /\ [Next]_vars
      => (~late => OwnSegmentInv)'
<1> SUFFICES ASSUME TypeOK, StackInv, LineInv, LocalSlots, ~late => OwnSegmentInv, [Next]_vars,
                    ~late'
             PROVE  OwnSegmentInv'
  OBVIOUS
<1>0. ~late /\ OwnSegmentInv /\ LineTypeOK
  BY HistoryGrows DEF TypeOK
<1>1. CASE WorkerReceive \/ TornReceive
  <2>1. CallTakes
    <3>1. CASE rxq # <<>> /\ rxq' = Tail(rxq)
      <4>1. WorkerReceive => bus' = bus
        BY DEF WorkerReceive
      <4>2. TornReceive => rxq' = <<>> /\ bus' = bus /\ late' = (late \/ bus # <<>>)
        BY DEF TornReceive
      <4>3. TornReceive => bus' = <<>>
        BY <4>2, Zenon
      <4> QED BY <1>1, <3>1, <4>1, <4>2, <4>3 DEF CallTakes
    <3>2. CASE ~(rxq # <<>> /\ rxq' = Tail(rxq))
      <4>1. bus' = bus /\ rxq' = <<>> /\ late' = (late \/ bus # <<>>)
        BY <1>1, <3>2 DEF WorkerReceive, TornReceive, TakesFrame, GivesUp, Confirms, Refuses,
                          TimesOut
      <4>2. bus = <<>>
        BY <4>1, Zenon
      <4> QED BY <4>1, <4>2 DEF CallTakes
    <3> QED BY <3>1, <3>2
  <2>2. step = "recv" /\ shared' = shared
    BY <1>1 DEF WorkerReceive, TornReceive, WorkerWaits, histVars
  <2>3. \E d : /\ WorkerGets(d)
               /\ \/ d = Kept
                  \/ /\ rxq # <<>> /\ Head(rxq).kind = RequestOf(stage, seg).kind
                     /\ d = Head(rxq).data
    BY <1>1 DEF WorkerReceive, TornReceive, Confirms
  <2> QED BY <1>0, <2>1, <2>2, <2>3, OwnWorkerGets
<1>2. CASE WorkerSend
  BY <1>0, <1>2, OwnWorkerSend
<1>3. CASE AppendPoint
  BY <1>0, <1>3, OwnAppend
<1>4. CASE Dequeue \/ WorkerSelect
  BY <1>0, <1>4, OwnDequeueSelect
<1>5. CASE GuiSend
  <2>1. PICK r \in GuiRequests : Doing(SendReq(r)) /\ Send(r)
    BY <1>5 DEF GuiSend
  <2>2. r.kind # "wave"
    BY <2>1, LocalStep DEF Doing
  <2>3. PICK m \in Message : m.req.kind # "wave" /\ bus' = Append(bus, m)
    <3>1. [to |-> ctxSlave, req |-> r] \in Message
      BY <1>0, GuiRequestType DEF Message, LineTypeOK
    <3> QED BY <2>1, <2>2, <3>1 DEF Send
  <2>4. workerVars' = workerVars /\ ctxSlave' = ctxSlave /\ rxq' = rxq
    BY <1>5 DEF GuiSend
  <2> QED BY <1>0, <2>3, <2>4, OtherSent, OwnOutside
<1>6. CASE GuiReceive
  <2>1. workerVars' = workerVars /\ ctxSlave' = ctxSlave /\ bus' = bus
    BY <1>6 DEF GuiReceive
  <2>2. CallTakes
    <3>1. CASE rxq # <<>> /\ rxq' = Tail(rxq)
      BY <2>1, <3>1 DEF CallTakes
    <3>2. CASE ~(rxq # <<>> /\ rxq' = Tail(rxq))
      <4>1. rxq' = <<>> /\ late' = (late \/ bus # <<>>)
        BY <1>6, <3>2 DEF GuiReceive, TakesFrame, GivesUp, Confirms, Refuses, TimesOut
      <4>2. bus = <<>>
        BY <4>1, Zenon
      <4> QED BY <2>1, <4>1, <4>2 DEF CallTakes
    <3> QED BY <3>1, <3>2
  <2> QED BY <1>0, <2>1, <2>2, FirstTaken, SomeTaken, OwnOutside
<1>7. CASE BoardStep
  <2>1. workerVars' = workerVars /\ ctxSlave' = ctxSlave /\ Board
    BY <1>0, <1>7, BoardMoves DEF BoardStep
  <2> QED BY <1>0, <2>1, BoardWaves, OwnOutside
<1>8. CASE GuiSelect
  <2>1. PICK n \in Slaves : Doing(Select(n)) /\ SetSlave(n)
    BY <1>8 DEF GuiSelect
  <2>2. ctxSlave' = 1
    BY <2>1, LocalStep DEF Doing, SetSlave
  <2>3. workerVars' = workerVars /\ bus' = bus /\ rxq' = rxq /\ shared' = (shared \/ stage # "idle")
    BY <1>8 DEF GuiSelect
  <2>4. step = "send" => shared'
    <3>1. step = "send" => stage # "idle"
      BY DEF TypeOK
    <3> QED BY <2>3, <3>1, Zenon
  <2> QED BY <1>0, <2>2, <2>3, <2>4, OwnOutside DEF OnlyFirst, OnlyFrom
<1>9. CASE \/ \E b \in Buttons : Press(b)
           \/ Wake \/ GuiWritePlc \/ GuiChart \/ GuiClearList \/ GuiAddCmd
           \/ StatusTick \/ ChartTick \/ DialogTick \/ DialogClose \/ Poll \/ UNCHANGED vars
  <2>1. workerVars' = workerVars /\ bus' = bus /\ rxq' = rxq /\ ctxSlave' = ctxSlave
    BY <1>9 DEF Press, Wake, GuiWritePlc, GuiChart, GuiClearList, GuiAddCmd, StatusTick, ChartTick,
                DialogTick, DialogClose, Poll, vars, lineVars
  <2> QED BY <1>0, <2>1, OwnOutside DEF OnlyFirst, OnlyFrom
<1> QED BY <1>1, <1>2, <1>3, <1>4, <1>5, <1>6, <1>7, <1>8, <1>9 DEF Next, GuiStep, WorkerStep

\* With or without losses, for every size of a scan and depth of nesting: while no answer is
\* late and nobody presses TEST1 (which reads waveforms itself), a point holds the value of
\* its own segment, a zero, or what slave 1 answered when the dialog or a slot had selected it.
THEOREM PointsOfOwnSegment ==
  ASSUME "TEST1" \notin Buttons
  PROVE  Spec => []WaveformsOfOwnSegment
<1>1. Init => (~late => OwnSegmentInv) /\ LocalSlots
  BY DEF Init, OwnSegmentInv, SlaveChosen, OwnBuffer, OwnPoints, LocalSlots
<1>2. TypeOK /\ LocalSlots /\ [Next]_vars => LocalSlots'
  BY NextLocalSlots
<1>3. TypeOK /\ StackInv /\ LineInv /\ LocalSlots /\ (~late => OwnSegmentInv) /\ [Next]_vars
          => (~late => OwnSegmentInv)'
  BY NextOwnSegment
<1>4. (~late => OwnSegmentInv) => WaveformsOfOwnSegment
  BY DEF OwnSegmentInv, OwnPoints, OwnValue, WaveformsOfOwnSegment
<1> QED BY <1>1, <1>2, <1>3, <1>4, TypeCorrect, StackInOrder, LineInvariant, PTL DEF Spec

----------------------------------------------------------------------------
(* The scan behind the sensor. *)

\* The sensor is past n degrees, or the motor has finished its turn.
GoneBy(n) == deg >= n \/ ~turning

\* The turn is behind the segment of the waveforms; the angle that is on the line is one the
\* sensor has passed, and a zero after the first segment is that of a turn completed.
FollowInv ==
    clicks <= 3 /\ ~shared /\ ~late =>
        /\ stage \in {"wave1", "wave2"} => GoneBy(seg + 1) /\ ~MayStart
        /\ stage = "angle" => GoneBy(seg) /\ (MayStart => seg = 0)
        /\ stage = "angle" /\ step = "recv" /\ rxq # <<>> =>
              LET n == rxq[1].data.n
              IN GoneBy(n) /\ (n = 0 /\ seg > 0 => ~turning) /\ (MayStart => n = 0)

\* What the sensor has passed stays behind, until the motor is set going.
LEMMA GoneByKept ==
  ASSUME TypeOK, StackInv, MotorInv, [Next]_vars, SingleTurn = TRUE, clicks' <= 3,
         NEW n \in Nat, GoneBy(n), MayStart => n = 0
  PROVE  /\ GoneBy(n)' /\ (MayStart' => n = 0)
         /\ ~MayStart /\ ~turning => ~turning'
<1>0. /\ deg \in Nat /\ deg' \in Nat /\ MotorMoves /\ (MayStart' => MayStart) /\ clicks <= 3
      /\ stack \in Seq(Frame)
  <2>1. TypeOK' /\ \A d \in Segs : d \in Nat
    BY NextTypeOK DEF Segs
  <2> QED BY <2>1, NextMotor, NextPanel, StartSlots DEF TypeOK, LineTypeOK
<1>1. CASE turning' = turning /\ deg' = deg
  <2>1. GoneBy(n)' /\ (~turning => ~turning')
    BY <1>1, Zenon DEF GoneBy
  <2> QED BY <1>0, <2>1
<1>2. CASE Rotate
  <2>1. turning /\ turning' = ~(SingleTurn /\ deg' = 0)
        /\ deg' = IF deg = NSeg - 1 THEN 0 ELSE deg + 1
    BY <1>2 DEF Rotate
  <2>2. deg' = 0 => ~turning'
    BY <2>1, Zenon
  <2>3. deg' # 0 => deg' = deg + 1
    BY <2>1
  <2>4. deg >= n
    BY <2>1 DEF GoneBy
  <2>5. GoneBy(n)'
    BY <1>0, <2>2, <2>3, <2>4 DEF GoneBy
  <2> QED BY <1>0, <2>1, <2>5
<1>3. CASE Doing(WritePlc("ROTATE_B"))
  <2>1. /\ stack # <<>> /\ Top.handler = "start" /\ Top.pc = 5 /\ Top = stack[Len(stack)]
        /\ Len(stack) \in 1 .. Len(stack)
    BY <1>0, <1>3, OnlyStartRotates, TopFacts DEF Doing
  <2>2. MayStart
    BY <2>1 DEF MayStart
  <2> QED BY <1>0, <2>2 DEF GoneBy
<1> QED BY <1>0, <1>1, <1>2, <1>3 DEF MotorMoves

\* Over a line that is neither lossy nor shared the worker gets the angle it asked for.
LEMMA AngleTaken ==
  ASSUME TypeOK, LineInv, Lossy = FALSE, WorkerReceive, ~late', ~late, ~shared, stage = "angle"
  PROVE  rxq # <<>> /\ AngleRead(rxq[1].data) /\ rxq[1].data.n \in Nat
<1> DEFINE req == RequestOf(stage, seg)
           n == SlaveOf(stage)
<1>1. /\ Under(n, req) /\ Serves([to |-> n, req |-> req]) /\ req.kind = "angle"
  BY DEF LineInv, WorkerReceive, Serves, SlaveOf, RequestOf, Ask
<1>2. \/ rxq # <<>> /\ Head(rxq).kind = req.kind /\ WorkerGets(Head(rxq).data)
      \/ rxq # <<>> /\ Head(rxq).kind # req.kind
      \/ rxq = <<>> /\ late' = (late \/ bus # <<>>)
  BY DEF WorkerReceive, Confirms, Refuses, TimesOut, GivesUp
<1> HIDE DEF req, n
<1>3. rxq # <<>> /\ Head(rxq) = rxq[1] /\ Head(rxq).kind = "angle"
  <2>1. rxq # <<>> => Len(rxq) = 1 /\ ReplyTo(n, req, rxq[1]) /\ Head(rxq) = rxq[1]
    BY <1>1 DEF Under
  <2>2. rxq # <<>>
    <3> SUFFICES ASSUME rxq = <<>> PROVE FALSE
      OBVIOUS
    <3>1. bus = <<[to |-> n, req |-> req]>>
      BY <1>1 DEF Under
    <3>2. bus # <<>> /\ late' = (late \/ bus # <<>>)
      BY <1>2, <3>1
    <3> QED BY <3>2, Zenon
  <2> QED BY <1>1, <2>1, <2>2 DEF ReplyTo
<1>4. WorkerGets(rxq[1].data)
  BY <1>1, <1>2, <1>3
<1>5. AngleRead(rxq[1].data)
  BY <1>4 DEF WorkerGets, StatusRead, AngleRead, WaveRead
<1>6. rxq[1].data \in Data
  BY <1>3, ReplyType DEF TypeOK, LineTypeOK
<1> QED BY <1>3, <1>5, <1>6 DEF Data

\* An angle that is ready is past the segment.
LEMMA ReadyIsPast ==
  ASSUME NEW n \in Nat, NEW s \in Nat, deg \in Nat, ~NotYet(n, s), GoneBy(n),
         n = 0 /\ s > 0 => ~turning, MayStart => n = 0, MayStart => s = 0
  PROVE  GoneBy(s + 1) /\ ~MayStart
  BY DEF NotYet, GoneBy

\* A step that leaves the worker where it is.
LEMMA FollowKept ==
  ASSUME TypeOK, StackInv, MotorInv, FollowInv, [Next]_vars, SingleTurn = TRUE,
         clicks' <= 3, ~shared, ~late, stage' = stage, seg' = seg,
         stage = "angle" /\ step' = "recv" /\ rxq' # <<>> => step = "recv" /\ rxq' = rxq
  PROVE  FollowInv'
<1>0. seg \in Nat /\ seg + 1 \in Nat /\ seg + 1 # 0 /\ clicks <= 3 /\ rxq \in Seq(Reply)
      /\ MotorInv'
  BY NextMotorInv, NextPanel, StartSlots DEF TypeOK, LineTypeOK, Segs
<1>1. CASE stage \in {"wave1", "wave2"}
  <2>1. GoneBy(seg + 1) /\ ~MayStart
    BY <1>0, <1>1 DEF FollowInv
  <2>2. PICK n \in Nat : n = seg + 1
    BY <1>0
  <2>3. GoneBy(n)' /\ (MayStart' => n = 0)
    BY <2>1, <2>2, GoneByKept
  <2>4. GoneBy(seg + 1)' /\ ~MayStart'
    BY <1>0, <2>2, <2>3 DEF GoneBy
  <2> QED BY <1>1, <2>4 DEF FollowInv
<1>2. CASE stage = "angle"
  <2>1. GoneBy(seg) /\ (MayStart => seg = 0)
    BY <1>0, <1>2 DEF FollowInv
  <2>2. PICK s \in Nat : s = seg
    BY <1>0
  <2>3. GoneBy(s)' /\ (MayStart' => s = 0)
    BY <2>1, <2>2, GoneByKept
  <2>4. GoneBy(seg)' /\ (MayStart' => seg' = 0)
    BY <2>2, <2>3 DEF GoneBy
  <2>5. ASSUME step' = "recv", rxq' # <<>>
        PROVE  /\ GoneBy(rxq[1].data.n)' /\ (MayStart' => rxq'[1].data.n = 0)
               /\ (rxq'[1].data.n = 0 /\ seg' > 0 => ~turning')
    <3>1. step = "recv" /\ rxq' = rxq /\ rxq # <<>>
      BY <1>2, <2>5
    <3>2. PICK n : n = rxq[1].data.n
      OBVIOUS
    <3>3. n \in Nat
      <4>1. rxq[1] \in Reply
        BY <1>0, <3>1
      <4> QED BY <3>2, <4>1 DEF Reply, Data
    <3>4. GoneBy(n) /\ (n = 0 /\ seg > 0 => ~turning) /\ (MayStart => n = 0)
      BY <1>0, <1>2, <3>1, <3>2 DEF FollowInv
    <3>5. GoneBy(n)' /\ (MayStart' => n = 0) /\ (~MayStart /\ ~turning => ~turning')
      BY <3>3, <3>4, GoneByKept
    <3>6. n = 0 /\ seg > 0 => ~turning'
      BY <2>1, <3>4, <3>5
    <3> QED BY <3>1, <3>2, <3>5, <3>6 DEF GoneBy
  <2> QED BY <1>2, <2>4, <2>5 DEF FollowInv
<1>3. CASE stage \notin {"angle", "wave1", "wave2"}
  BY <1>3 DEF FollowInv
<1> QED BY <1>1, <1>2, <1>3

\* The board answers with the angle of the moment.
LEMMA FollowBoard ==
  ASSUME TypeOK, StackInv, LineInv, MotorInv, FollowInv, [Next]_vars, SingleTurn = TRUE,
         Lossy = FALSE, BoardStep, clicks' <= 3, ~shared, ~late
  PROVE  FollowInv'
<1>0. /\ Board /\ stage' = stage /\ seg' = seg /\ step' = step /\ seg \in Nat /\ deg \in Nat
      /\ stack' = stack /\ flagGo' = flagGo /\ clicks' = clicks
  BY DEF BoardStep, workerVars, guiVars, panelVars, TypeOK, LineTypeOK, Segs
<1>1. CASE stage = "angle" /\ step = "recv" /\ rxq' # <<>> /\ rxq' # rxq
  <2>1. Deliver
    BY <1>0, <1>1 DEF Board, LoseRequest, LoseReply, Rotate
  <2>2. rxq = <<>> /\ bus = <<[to |-> 1, req |-> Ask("angle", 0, 0)]>>
    <3>1. Under(SlaveOf(stage), RequestOf(stage, seg)) /\ bus # <<>>
      BY <1>1, <2>1 DEF LineInv, WorkerWaits, Deliver
    <3> QED BY <1>1, <3>1 DEF Under, SlaveOf, RequestOf
  <2>3. PICK y \in Answers(Head(bus)) : rxq' = Append(rxq, y)
    BY <2>1 DEF Deliver
  <2>4. Head(bus) = [to |-> 1, req |-> Ask("angle", 0, 0)]
    BY <2>2
  <2>5. y.data.n = deg
    BY <2>3, <2>4 DEF Answers, Serves, Reading, Ask
  <2>6. rxq'[1].data.n = deg
    BY <2>2, <2>3, <2>5
  <2>7. deg' = deg /\ turning' = turning
    BY <2>1 DEF Deliver
  <2>8. GoneBy(seg) /\ (MayStart => seg = 0 /\ deg = 0)
    BY <1>0, <1>1 DEF FollowInv, MotorInv
  <2>9. MayStart' = MayStart
    BY <1>0, Zenon DEF MayStart
  <2>10. deg = 0 /\ seg > 0 => ~turning
    BY <1>0, <2>8 DEF GoneBy
  <2>11. GoneBy(seg)' /\ (MayStart' => seg' = 0)
    BY <1>0, <2>7, <2>8, <2>9, Zenon DEF GoneBy
  <2>12. /\ GoneBy(rxq[1].data.n)' /\ (MayStart' => rxq'[1].data.n = 0)
         /\ (rxq'[1].data.n = 0 /\ seg' > 0 => ~turning')
    <3>1. deg >= deg
      BY <1>0
    <3>2. GoneBy(rxq[1].data.n)'
      BY <2>6, <2>7, <3>1, Zenon DEF GoneBy
    <3>3. MayStart' => rxq'[1].data.n = 0
      BY <2>6, <2>8, <2>9, Zenon
    <3>4. rxq'[1].data.n = 0 /\ seg' > 0 => ~turning'
      BY <1>0, <2>6, <2>7, <2>10, Zenon
    <3> QED BY <3>2, <3>3, <3>4
  <2> QED BY <1>0, <1>1, <2>11, <2>12 DEF FollowInv
<1>2. CASE ~(stage = "angle" /\ step = "recv" /\ rxq' # <<>> /\ rxq' # rxq)
  BY <1>0, <1>2, FollowKept
<1> QED BY <1>1, <1>2

LEMMA NextFollow ==
  ASSUME Lossy = FALSE, SingleTurn = TRUE
  PROVE  TypeOK /\ StackInv /\ LineInv /\ MotorInv /\ FollowInv /\ [Next]_vars => FollowInv'
<1> SUFFICES ASSUME TypeOK, StackInv, LineInv, MotorInv, FollowInv, [Next]_vars,
                    clicks' <= 3, ~shared', ~late'
             PROVE  FollowInv'
  BY DEF FollowInv
<1>0. /\ ~shared /\ ~late /\ clicks <= 3 /\ seg \in Nat /\ deg \in Nat /\ deg' \in Nat
      /\ (MayStart' => MayStart) /\ 0 \in Nat
  <2>1. TypeOK' /\ \A d \in Segs : d \in Nat
    BY NextTypeOK DEF Segs
  <2> QED BY <2>1, HistoryGrows, NextPanel, StartSlots DEF TypeOK, LineTypeOK
<1>1. CASE WorkerReceive
  <2>1. CASE stage = "angle"
    <3>1. rxq # <<>> /\ AngleRead(rxq[1].data) /\ rxq[1].data.n \in Nat
      BY <1>0, <1>1, <2>1, AngleTaken
    <3>2. PICK n \in Nat : n = rxq[1].data.n
      BY <3>1
    <3>3. /\ GoneBy(n) /\ (n = 0 /\ seg > 0 => ~turning) /\ (MayStart => n = 0)
          /\ GoneBy(seg) /\ (MayStart => seg = 0)
      BY <1>0, <1>1, <2>1, <3>1, <3>2 DEF FollowInv, WorkerReceive, WorkerWaits
    <3>4. /\ stage' = (IF NotYet(n, seg) THEN "angle" ELSE "wave1")
          /\ step' = "slave" /\ seg' = seg /\ deg' = deg /\ turning' = turning
      BY <1>1, <3>1, <3>2 DEF AngleRead, Proceed, WorkerReceive
    <3>5. CASE NotYet(n, seg)
      <4>1. GoneBy(seg)' /\ (MayStart' => seg' = 0)
        <5>1. GoneBy(seg)'
          BY <3>3, <3>4, Zenon DEF GoneBy
        <5> QED BY <1>0, <3>3, <3>4, <5>1
      <4> QED BY <3>4, <3>5, <4>1 DEF FollowInv
    <3>6. CASE ~NotYet(n, seg)
      <4>1. GoneBy(seg + 1) /\ ~MayStart
        BY <1>0, <3>3, <3>6, ReadyIsPast
      <4>2. GoneBy(seg + 1)'
        BY <3>4, <4>1, Zenon DEF GoneBy
      <4>3. ~MayStart' /\ stage' = "wave1"
        BY <1>0, <3>4, <3>6, <4>1
      <4> QED BY <4>2, <4>3 DEF FollowInv
    <3> QED BY <3>5, <3>6
  <2>2. CASE stage \in {"wave1", "wave2"}
    <3>1. stage' = stage /\ seg' = seg
      BY <1>1, <2>2 DEF WorkerReceive, WorkerGets, StatusRead, AngleRead, WaveRead
    <3> QED BY <1>0, <2>2, <3>1, FollowKept
  <2>3. CASE stage \notin {"angle", "wave1", "wave2"}
    <3>1. stage' = "idle"
      BY <1>1, <2>3 DEF WorkerReceive, WorkerGets, StatusRead, AngleRead, WaveRead, Proceed
    <3> QED BY <3>1 DEF FollowInv
  <2> QED BY <2>1, <2>2, <2>3
<1>2. CASE TornReceive
  BY <1>0, <1>2 DEF TornReceive, GuiWaits, LineInv
<1>3. CASE GuiReceive
  <2>1. step # "recv" /\ step' = step /\ stage' = stage /\ seg' = seg
    BY <1>0, <1>3 DEF GuiReceive, GuiWaits, WorkerWaits, LineInv, workerVars
  <2> QED BY <1>0, <2>1, FollowKept
<1>4. CASE WorkerSend
  <2>1. /\ stage' = stage /\ seg' = seg /\ rxq' = rxq /\ step = "send"
        /\ shared' = (shared \/ GuiWaits)
    BY <1>4 DEF WorkerSend
  <2>2. ~GuiWaits
    BY <2>1, Zenon
  <2>3. rxq = <<>>
    BY <1>0, <2>1, <2>2, LineCount DEF LineInv, WorkerWaits
  <2> QED BY <1>0, <2>1, <2>3, FollowKept
<1>5. CASE AppendPoint
  <2>1. /\ step = "append" /\ stage \in {"wave1", "wave2"} /\ deg' = deg /\ turning' = turning
        /\ \/ stage' \in {"wave1", "wave2"} /\ seg' = seg
           \/ stage' = "angle" /\ step' = "slave" /\ seg' = seg + 1
           \/ stage' = "idle"
    BY <1>5 DEF AppendPoint, AfterPoint, EndSegment, Proceed, TypeOK, lineVars
  <2>2. GoneBy(seg + 1) /\ ~MayStart'
    BY <1>0, <2>1 DEF FollowInv
  <2>3. seg' \in {seg, seg + 1} => GoneBy(seg + 1)' \/ seg' = seg + 1
    BY <2>1, <2>2, Zenon DEF GoneBy
  <2>4. CASE stage' \in {"wave1", "wave2"} /\ seg' = seg
    <3>1. GoneBy(seg + 1)'
      BY <2>1, <2>2, <2>4, Zenon DEF GoneBy
    <3> QED BY <2>2, <2>4, <3>1 DEF FollowInv
  <2>5. CASE stage' = "angle" /\ step' = "slave" /\ seg' = seg + 1
    <3>1. GoneBy(seg)'
      BY <2>1, <2>2, <2>5, Zenon DEF GoneBy
    <3> QED BY <2>2, <2>5, <3>1 DEF FollowInv
  <2>6. CASE stage' = "idle"
    BY <2>6 DEF FollowInv
  <2> QED BY <2>1, <2>4, <2>5, <2>6
<1>6. CASE Dequeue
  <2>1. /\ stage' \in {"angle", "status"} /\ step' = "slave" /\ (stage' = "angle" => seg' = 0)
    BY <1>6 DEF Dequeue, Proceed
  <2>2. stage' = "angle" => GoneBy(seg)' /\ (MayStart' => seg' = 0)
    BY <1>0, <2>1 DEF GoneBy
  <2> QED BY <2>1, <2>2 DEF FollowInv
<1>7. CASE WorkerSelect
  <2>1. stage' = stage /\ seg' = seg /\ step' = "send"
    BY <1>7 DEF WorkerSelect
  <2> QED BY <1>0, <2>1, FollowKept
<1>8. CASE BoardStep
  BY <1>0, <1>8, FollowBoard
<1>9. CASE \/ \E b \in Buttons : Press(b)
           \/ GuiStep \/ StatusTick \/ ChartTick \/ DialogTick \/ DialogClose \/ Poll
           \/ UNCHANGED vars
  <2>1. stage' = stage /\ seg' = seg /\ step' = step /\ rxq' = rxq
    <3>1. CASE GuiStep
      BY <3>1 DEF GuiStep, GuiSelect, GuiSend, Wake, GuiWritePlc, GuiChart, GuiClearList,
                  GuiAddCmd, workerVars, lineVars
    <3>2. CASE \/ \E b \in Buttons : Press(b)
               \/ StatusTick \/ ChartTick \/ DialogTick \/ DialogClose \/ Poll
               \/ UNCHANGED vars
      BY <3>2 DEF Press, StatusTick, ChartTick, DialogTick, DialogClose, Poll, vars, workerVars,
                  lineVars
    <3> QED BY <1>9, <3>1, <3>2
  <2> QED BY <1>0, <2>1, FollowKept
<1> QED BY <1>1, <1>2, <1>3, <1>4, <1>5, <1>6, <1>7, <1>8, <1>9 DEF Next, WorkerStep

\* On a line without losses, with a motor that stops after its turn and whatever buttons are
\* pressed: until GOGOGO may have started the motor a second time (a fourth press) or an
\* answer is late, no waveform is read before the sensor has passed its segment.
THEOREM ScanBehindSensor ==
  ASSUME Lossy = FALSE, SingleTurn = TRUE
  PROVE  Spec => [](clicks <= 3 /\ ~late => ScanFollowsSensor)
<1>1. Init => MotorInv /\ FollowInv
  <2> SUFFICES ASSUME Init PROVE MotorInv /\ FollowInv
    OBVIOUS
  <2>1. stack = <<>> /\ flagGo = 0 /\ clicks = 0 /\ ~turning /\ deg = 0 /\ stage = "idle"
    BY DEF Init, LineInit
  <2> QED BY <2>1 DEF MotorInv, FollowInv, Without
<1>2. TypeOK /\ StackInv /\ MotorInv /\ [Next]_vars => MotorInv'
  BY NextMotorInv
<1>3. TypeOK /\ StackInv /\ LineInv /\ MotorInv /\ FollowInv /\ [Next]_vars => FollowInv'
  BY NextFollow
<1>4. TypeOK /\ FollowInv => (clicks <= 3 /\ ~late => ScanFollowsSensor)
  BY DEF FollowInv, ScanFollowsSensor, GoneBy, TypeOK, LineTypeOK, Segs
<1> QED BY <1>1, <1>2, <1>3, <1>4, TypeCorrect, StackInOrder, LineInvariant, PTL DEF Spec

\* The line of the run scan_quiet, where no answer is ever late.
THEOREM ScanBehindSensorQuietLine ==
  ASSUME Lossy = FALSE, SingleTurn = TRUE, MaxStale = 0
  PROVE  Spec => [](clicks <= 3 => ScanFollowsSensor)
<1> QED BY ScanBehindSensor, NeverLate, PTL

----------------------------------------------------------------------------
(* Late and lost frames of waveforms.  In the first three presses of the   *)
(* panel there is one scan, so what its reads left behind is of a segment  *)
(* the scan has reached.                                                   *)

OnBus(m) == \E j \in 1 .. Len(bus) : bus[j] = m
Arrived(y) == \E j \in 1 .. Len(rxq) : rxq[j] = y

\* The frames of waveforms after a step: those from before, the reply to one of them, and
\* the worker's request.
WavesMove ==
    /\ \A k \in 1 .. Len(bus') : bus'[k].req.kind = "wave" =>
          \/ OnBus(bus'[k])
          \/ /\ WorkerSend /\ stage \in {"wave1", "wave2"}
             /\ bus'[k].to = ctxSlave /\ bus'[k].req.arg = seg
    /\ \A k \in 1 .. Len(rxq') : rxq'[k].kind = "wave" =>
          \/ Arrived(rxq'[k])
          \/ \E m \in Message : /\ OnBus(m) /\ m.req.kind = "wave"
                               /\ rxq'[k].data = WaveData(m.to, m.req.arg)

LEMMA NextWavesMove == TypeOK /\ StackInv /\ LocalSlots /\ [Next]_vars => WavesMove
<1> SUFFICES ASSUME TypeOK, StackInv, LocalSlots, [Next]_vars PROVE WavesMove
  OBVIOUS
<1>0. LineTypeOK /\ Len(bus) \in Nat /\ Len(rxq) \in Nat
  BY DEF TypeOK, LineTypeOK
<1>1. ASSUME bus' = bus PROVE \A k \in 1 .. Len(bus') : OnBus(bus'[k])
  BY <1>1 DEF OnBus
<1>2. ASSUME rxq' = rxq PROVE \A k \in 1 .. Len(rxq') : Arrived(rxq'[k])
  BY <1>2 DEF Arrived
<1>3. ASSUME rxq # <<>>, rxq' = Tail(rxq) PROVE \A k \in 1 .. Len(rxq') : Arrived(rxq'[k])
  <2>1. Len(rxq') = Len(rxq) - 1 /\ \A k \in 1 .. Len(rxq') : rxq'[k] = rxq[k + 1]
    BY <1>0, <1>3 DEF LineTypeOK
  <2>2. \A k \in 1 .. Len(rxq') : k + 1 \in 1 .. Len(rxq)
    BY <1>0, <2>1
  <2> QED BY <2>1, <2>2 DEF Arrived
<1>4. ASSUME bus # <<>>, bus' = Tail(bus) PROVE \A k \in 1 .. Len(bus') : OnBus(bus'[k])
  <2>1. Len(bus') = Len(bus) - 1 /\ \A k \in 1 .. Len(bus') : bus'[k] = bus[k + 1]
    BY <1>0, <1>4 DEF LineTypeOK
  <2>2. \A k \in 1 .. Len(bus') : k + 1 \in 1 .. Len(bus)
    BY <1>0, <2>1
  <2> QED BY <2>1, <2>2 DEF OnBus
<1>5. ASSUME NEW m \in Message, bus' = Append(bus, m)
      PROVE  \A k \in 1 .. Len(bus') : OnBus(bus'[k]) \/ bus'[k] = m
  <2>1. /\ Len(bus') = Len(bus) + 1 /\ \A k \in 1 .. Len(bus) : bus'[k] = bus[k]
        /\ bus'[Len(bus) + 1] = m
    BY <1>0, <1>5, SentBus
  <2>2. \A k \in 1 .. Len(bus') : k \in 1 .. Len(bus) \/ k = Len(bus) + 1
    BY <1>0, <2>1
  <2> QED BY <2>1, <2>2 DEF OnBus
<1>6. CASE GuiReceive \/ WorkerReceive
  <2>1. bus' = bus /\ (rxq' = rxq \/ (rxq # <<>> /\ rxq' = Tail(rxq)))
    BY <1>6 DEF GuiReceive, WorkerReceive, Confirms, Refuses, TakesFrame, GivesUp
  <2> QED BY <1>1, <1>2, <1>3, <2>1 DEF WavesMove
<1>7. CASE TornReceive
  <2>1. bus' = bus /\ rxq' = <<>>
    BY <1>7 DEF TornReceive
  <2> QED BY <1>1, <2>1 DEF WavesMove
<1>8. CASE BoardStep
  <2>1. \/ bus' = bus /\ rxq' = rxq
        \/ bus # <<>> /\ bus' = Tail(bus) /\ rxq' = rxq
        \/ /\ bus # <<>> /\ bus' = Tail(bus)
           /\ \E y : /\ ReplyTo(Head(bus).to, Head(bus).req, y)
                     /\ rxq' = Append(rxq, y) /\ y \in Reply
    BY <1>0, <1>8, BoardMoves DEF BoardStep
  <2>2. ASSUME bus # <<>>, bus' = Tail(bus), NEW y \in Reply,
               ReplyTo(Head(bus).to, Head(bus).req, y), rxq' = Append(rxq, y)
        PROVE  WavesMove
    <3>1. Head(bus) = bus[1] /\ 1 \in 1 .. Len(bus) /\ Head(bus) \in Message
      BY <1>0, <2>2 DEF LineTypeOK
    <3>2. OnBus(Head(bus))
      BY <3>1 DEF OnBus
    <3>3. y.kind = "wave" => /\ Head(bus).req.kind = "wave"
                             /\ y.data = WaveData(Head(bus).to, Head(bus).req.arg)
      BY <2>2, <3>1, WaveAnswer
    <3>4. \A k \in 1 .. Len(rxq') : \/ k \in 1 .. Len(rxq) /\ rxq'[k] = rxq[k]
                                    \/ rxq'[k] = y
      BY <1>0, <2>2 DEF LineTypeOK
    <3>5. \A k \in 1 .. Len(rxq') : Arrived(rxq'[k]) \/ rxq'[k] = y
      BY <3>4 DEF Arrived
    <3> QED BY <1>4, <2>2, <3>1, <3>2, <3>3, <3>5 DEF WavesMove
  <2> QED BY <1>1, <1>2, <1>4, <2>1, <2>2 DEF WavesMove
<1>9. CASE WorkerSend
  <2>1. PICK m : m = [to |-> ctxSlave, req |-> RequestOf(stage, seg)]
    OBVIOUS
  <2>2. /\ m \in Message /\ m.to = ctxSlave /\ m.req = RequestOf(stage, seg)
        /\ bus' = Append(bus, m) /\ rxq' = rxq
    <3>1. RequestOf(stage, seg) \in Request
      BY <1>9, RequestOfType DEF TypeOK, WorkerSend
    <3> QED BY <1>0, <1>9, <2>1, <3>1 DEF WorkerSend, Send, Message, LineTypeOK
  <2>3. m.req.kind = "wave" => stage \in {"wave1", "wave2"} /\ m.req.arg = seg
    BY <2>2 DEF RequestOf, Ask, TypeOK, Stages
  <2> QED BY <1>2, <1>5, <1>9, <2>2, <2>3 DEF WavesMove
<1>10. CASE GuiSend
  <2>1. PICK r \in GuiRequests : Doing(SendReq(r)) /\ Send(r)
    BY <1>10 DEF GuiSend
  <2>2. PICK m \in Message : m.req.kind # "wave" /\ bus' = Append(bus, m)
    <3>1. [to |-> ctxSlave, req |-> r] \in Message
      BY <1>0, GuiRequestType DEF Message, LineTypeOK
    <3>2. r.kind # "wave"
      BY <2>1, LocalStep DEF Doing
    <3> QED BY <2>1, <3>1, <3>2 DEF Send
  <2>3. rxq' = rxq
    BY <1>10 DEF GuiSend
  <2> QED BY <1>2, <1>5, <2>2, <2>3 DEF WavesMove
<1>11. CASE \/ \E b \in Buttons : Press(b)
            \/ GuiSelect \/ Wake \/ GuiWritePlc \/ GuiChart \/ GuiClearList \/ GuiAddCmd
            \/ StatusTick \/ ChartTick \/ DialogTick \/ DialogClose \/ Poll
            \/ Dequeue \/ WorkerSelect \/ AppendPoint \/ UNCHANGED vars
  <2>1. bus' = bus /\ rxq' = rxq
    BY <1>11 DEF Press, GuiSelect, Wake, GuiWritePlc, GuiChart, GuiClearList, GuiAddCmd, StatusTick,
                 ChartTick, DialogTick, DialogClose, Poll, Dequeue, WorkerSelect, AppendPoint, vars,
                 lineVars
  <2> QED BY <1>1, <1>2, <2>1 DEF WavesMove
<1> QED BY <1>6, <1>7, <1>8, <1>9, <1>10, <1>11 DEF Next, GuiStep, WorkerStep

\* Only GOGOGO's first slot asks for a scan, with its last step.
LEMMA OnlyStartScans ==
  ASSUME stack \in Seq(Frame), StackInv, Without("TEST0"), Doing(AddReadPoints)
  PROVE  Top.handler = "start" /\ Top.pc = Len(Script(Top.handler))
<1>1. /\ stack # <<>> /\ Current = AddReadPoints /\ Top.handler \in Handlers
      /\ Top.pc \in 1 .. Len(Script(Top.handler)) /\ Current = Script(Top.handler)[Top.pc]
      /\ Top = stack[Len(stack)] /\ Len(stack) \in 1 .. Len(stack)
  BY TopFacts DEF Doing
<1>2. CASE Top.handler \in Handlers \ {"start", "stop", "StopStart", "Continue", "TEST0"}
  BY <1>1, <1>2, ScriptTame DEF Tame
<1>3. CASE Top.handler \in {"stop", "StopStart", "Continue"}
  <2>1. \E p \in {StopChart, StartChart} : Script(Top.handler) = <<p>>
    BY <1>3 DEF Script
  <2>2. \A p \in {StopChart, StartChart} : \A j \in 1 .. Len(<<p>>) : <<p>>[j] # AddReadPoints
    BY DEF StopChart, StartChart, AddReadPoints
  <2> QED BY <1>1, <2>1, <2>2
<1>4. CASE Top.handler = "start"
  <2>1. Script(Top.handler) = Start
    BY <1>4 DEF Script
  <2>2. \A j \in 1 .. Len(Start) : Start[j] = AddReadPoints => j = Len(Start)
    BY DEF Start, WritePlc, Sleep, StartChart, AddReadPoints
  <2> QED BY <1>1, <1>4, <2>1, <2>2
<1>5. Top.handler # "TEST0"
  BY <1>1 DEF Without
<1> QED BY <1>1, <1>2, <1>3, <1>4, <1>5

\* How a step moves the queue of commands.
QueueMoves ==
    \/ queue' = queue
    \/ queue' = Append(queue, "READ_STATUS")
    \/ Dequeue
    \/ Doing(AddReadPoints) /\ Advance /\ queue' = Append(queue, "READ_POINTS")

LEMMA NextQueue == TypeOK /\ [Next]_vars => QueueMoves
<1> SUFFICES ASSUME TypeOK, [Next]_vars PROVE QueueMoves
  OBVIOUS
<1>1. CASE \/ \E b \in Buttons : Press(b)
           \/ StatusTick \/ ChartTick \/ DialogTick \/ DialogClose \/ Poll \/ UNCHANGED vars
  BY <1>1 DEF Press, StatusTick, ChartTick, DialogTick, DialogClose, Poll, vars, QueueMoves
<1>2. CASE GuiStep
  BY <1>2 DEF GuiStep, GuiSelect, GuiSend, Wake, GuiWritePlc, GuiChart, GuiClearList, GuiAddCmd,
              QueueMoves
<1>3. CASE GuiReceive \/ WorkerReceive \/ TornReceive \/ BoardStep
  BY <1>3 DEF GuiReceive, WorkerReceive, TornReceive, BoardStep, QueueMoves
<1>4. CASE WorkerStep
  BY <1>4 DEF WorkerStep, WorkerSelect, WorkerSend, AppendPoint, QueueMoves
<1> QED BY <1>1, <1>2, <1>3, <1>4 DEF Next

Queued == \E k \in 1 .. Len(queue) : queue[k] = "READ_POINTS"

\* The scan may still be asked for: GOGOGO has not been pressed yet, or its slot has not
\* returned, or the worker has not taken the command.
MayScan == (flagGo = 0 /\ clicks < 3) \/ ~Without("start") \/ Queued

NoWaves ==
    /\ \A k \in 1 .. Len(bus) : bus[k].req.kind # "wave"
    /\ \A k \in 1 .. Len(rxq) : rxq[k].kind # "wave"

\* The worker has not begun a scan while one may still be asked for, and one at most is.
ScanInv ==
    clicks <= 3 =>
        /\ MayScan => stage \in {"idle", "status"} /\ NoWaves
        /\ \A j, k \in 1 .. Len(queue) :
              queue[j] = "READ_POINTS" /\ queue[k] = "READ_POINTS" => j = k
        /\ Queued => Without("start") /\ ~(flagGo = 0 /\ clicks < 3)

LEMMA NextScan ==
  TypeOK /\ StackInv /\ MotorInv /\ LocalSlots /\ Without("TEST0") /\ ScanInv /\ [Next]_vars
      => ScanInv'
<1> SUFFICES ASSUME TypeOK, StackInv, MotorInv, LocalSlots, Without("TEST0"), ScanInv,
                    [Next]_vars, clicks' <= 3
             PROVE  /\ MayScan' => stage' \in {"idle", "status"} /\ NoWaves'
                    /\ \A j, k \in 1 .. Len(queue') :
                          queue'[j] = "READ_POINTS" /\ queue'[k] = "READ_POINTS" => j = k
                    /\ Queued' => Without("start")' /\ ~(flagGo' = 0 /\ clicks' < 3)
  BY DEF ScanInv
<1>0. /\ stack \in Seq(Frame) /\ clicks <= 3 /\ Len(stack) \in Nat
      /\ queue \in Seq({"READ_POINTS", "READ_STATUS"}) /\ Len(queue) \in Nat
      /\ flagGo' = 0 /\ clicks' < 3 => flagGo = 0 /\ clicks < 3 /\ Without("start")'
      /\ PanelMoves /\ WavesMove /\ QueueMoves
  BY NextPanel, NextWavesMove, NextQueue, StartSlots DEF TypeOK
<1>i. /\ MayScan => stage \in {"idle", "status"} /\ NoWaves
      /\ \A j, k \in 1 .. Len(queue) :
            queue[j] = "READ_POINTS" /\ queue[k] = "READ_POINTS" => j = k
      /\ Queued => Without("start") /\ ~(flagGo = 0 /\ clicks < 3)
  BY <1>0 DEF ScanInv
\* A slot that starts the measurement was there, or the first press of GOGOGO starts it.
<1>1. ~Without("start")' => ~Without("start") \/ (flagGo = 0 /\ clicks < 3)
  <2>1. CASE stack' = stack
    BY <2>1 DEF Without
  <2>2. CASE stack # <<>> /\ Advance
    BY <1>0, <2>2, HandlersKept DEF Without
  <2>3. ASSUME NEW h \in Handlers, stack' = Append(stack, [handler |-> h, pc |-> 1]), h # "start"
        PROVE  Without("start") => Without("start")'
    <3>1. /\ Len(stack') = Len(stack) + 1
          /\ \A k \in 1 .. Len(stack) : stack'[k] = stack[k]
          /\ stack'[Len(stack) + 1].handler = h
      BY <1>0, <2>3
    <3>2. \A k \in 1 .. Len(stack') : k \in 1 .. Len(stack) \/ k = Len(stack) + 1
      BY <1>0, <3>1
    <3> QED BY <2>3, <3>1, <3>2 DEF Without
  <2>4. flagGo = 0 /\ flagGo' = 1 /\ clicks' = clicks + 1 => clicks < 3
    BY <1>0 DEF TypeOK
  <2> QED BY <1>0, <2>1, <2>2, <2>3, <2>4 DEF PanelMoves
\* When the command is queued its slot returns, and it is the only one.
<1>2. ASSUME Doing(AddReadPoints), Advance
      PROVE  ~Without("start") /\ Without("start")' /\ ~Queued
  <2>1. /\ stack # <<>> /\ Top.handler = "start" /\ Top = stack[Len(stack)]
        /\ Top.pc = Len(Script(Top.handler)) /\ Len(stack) \in 1 .. Len(stack)
    BY <1>0, <1>2, OnlyStartScans, TopFacts DEF Doing
  <2>2. ~Without("start")
    BY <2>1 DEF Without
  <2>3. Len(stack') = Len(stack) - 1
    BY <1>0, <1>2, <2>1, AdvanceShape
  <2>4. \A k \in 1 .. Len(stack') : k \in 1 .. Len(stack) /\ k # Len(stack)
                                   /\ stack'[k].handler = stack[k].handler
    BY <1>0, <1>2, <2>1, <2>3, HandlersKept
  <2>5. \A k \in 1 .. Len(stack) : stack[k].handler = "start" => k = Len(stack)
    BY <1>0, <2>1 DEF MotorInv
  <2>6. Without("start")'
    BY <2>4, <2>5 DEF Without
  <2> QED BY <1>i, <2>2, <2>6
\* The commands in the queue.
<1>3. /\ \A j, k \in 1 .. Len(queue') :
            queue'[j] = "READ_POINTS" /\ queue'[k] = "READ_POINTS" => j = k
      /\ Queued' => Queued \/ (Doing(AddReadPoints) /\ Advance)
      /\ Dequeue => (Queued' => Queued /\ Head(queue) # "READ_POINTS")
  <2>1. CASE queue' = queue
    <3>1. Dequeue => queue # <<>> /\ queue' = Tail(queue)
      BY DEF Dequeue
    <3>2. queue # <<>> => Len(Tail(queue)) = Len(queue) - 1
      BY <1>0
    <3>3. ~Dequeue
      BY <1>0, <2>1, <3>1, <3>2
    <3> QED BY <1>i, <2>1, <3>3 DEF Queued
  <2>2. ASSUME NEW c \in {"READ_POINTS", "READ_STATUS"}, queue' = Append(queue, c), ~Dequeue,
               c = "READ_POINTS" => ~Queued /\ Doing(AddReadPoints) /\ Advance
        PROVE  /\ \A j, k \in 1 .. Len(queue') :
                     queue'[j] = "READ_POINTS" /\ queue'[k] = "READ_POINTS" => j = k
               /\ Queued' => Queued \/ (Doing(AddReadPoints) /\ Advance)
    <3>1. /\ Len(queue') = Len(queue) + 1 /\ queue'[Len(queue) + 1] = c
          /\ \A k \in 1 .. Len(queue) : queue'[k] = queue[k]
      BY <1>0, <2>2
    <3>2. \A k \in 1 .. Len(queue') : k \in 1 .. Len(queue) \/ k = Len(queue) + 1
      BY <1>0, <3>1
    <3> QED BY <1>i, <2>2, <3>1, <3>2 DEF Queued
  <2>3. CASE Dequeue
    <3>1. queue # <<>> /\ queue' = Tail(queue)
      BY <2>3 DEF Dequeue
    <3>2. /\ Len(queue') = Len(queue) - 1 /\ Len(queue) >= 1 /\ Head(queue) = queue[1]
          /\ \A k \in 1 .. Len(queue') : queue'[k] = queue[k + 1]
      BY <1>0, <3>1
    <3>3. \A k \in 1 .. Len(queue') : k + 1 \in 1 .. Len(queue) /\ k + 1 # 1
      BY <1>0, <3>2
    <3>4. \A j, k \in 1 .. Len(queue') : j + 1 = k + 1 => j = k
      OBVIOUS
    <3>5. Queued' => Queued
      BY <3>2, <3>3 DEF Queued
    <3>6. \A j, k \in 1 .. Len(queue') :
             queue'[j] = "READ_POINTS" /\ queue'[k] = "READ_POINTS" => j = k
      BY <1>i, <3>2, <3>3, <3>4
    <3>7. Queued' => Head(queue) # "READ_POINTS"
      <4>1. 1 \in 1 .. Len(queue)
        BY <1>0, <3>2
      <4> QED BY <1>i, <3>2, <3>3, <4>1 DEF Queued
    <3> QED BY <3>5, <3>6, <3>7
  <2>4. Dequeue \/ ~Dequeue
    OBVIOUS
  <2> QED BY <1>0, <1>2, <2>1, <2>2, <2>3, <2>4 DEF QueueMoves
<1>4. Queued' => Without("start")' /\ ~(flagGo' = 0 /\ clicks' < 3)
  <2>1. Queued => Without("start")' /\ ~(flagGo' = 0 /\ clicks' < 3)
    BY <1>0, <1>1, <1>i
  <2>2. Doing(AddReadPoints) /\ Advance => Without("start")' /\ ~(flagGo' = 0 /\ clicks' < 3)
    <3> SUFFICES ASSUME Doing(AddReadPoints), Advance, flagGo' = 0, clicks' < 3 PROVE FALSE
      BY <1>2
    <3>1. flagGo = 0 /\ clicks < 3
      BY <1>0
    <3>2. Without("start")
      BY <1>0, <3>1 DEF MotorInv
    <3> QED BY <1>2, <3>2
  <2> QED BY <1>3, <2>1, <2>2
<1>5. MayScan' => MayScan
  BY <1>0, <1>1, <1>2, <1>3 DEF MayScan
<1>6. ASSUME MayScan' PROVE stage' \in {"idle", "status"} /\ NoWaves'
  <2>1. stage \in {"idle", "status"} /\ NoWaves
    BY <1>5, <1>6, <1>i
  <2>2. stage' \in {"idle", "status"}
    <3>1. CASE Dequeue
      <4>1. Head(queue) # "READ_POINTS"
        <5> SUFFICES ASSUME Head(queue) = "READ_POINTS" PROVE FALSE
          OBVIOUS
        <5>1. Queued
          <6>1. queue # <<>>
            BY <3>1 DEF Dequeue
          <6>2. Head(queue) = queue[1] /\ 1 \in 1 .. Len(queue)
            BY <1>0, <6>1
          <6> QED BY <6>2 DEF Queued
        <5>2. ~Queued'
          BY <1>3, <3>1
        <5> QED BY <1>0, <1>1, <1>6, <1>i, <5>1, <5>2 DEF MayScan
      <4> QED BY <3>1, <4>1 DEF Dequeue, Proceed
    <3>2. CASE WorkerReceive \/ TornReceive
      <4>1. \E d : WorkerGets(d)
        BY <3>2 DEF WorkerReceive, TornReceive
      <4> QED BY <2>1, <4>1 DEF WorkerGets, StatusRead, AngleRead, WaveRead, Proceed
    <3>3. ASSUME ~Dequeue, ~WorkerReceive, ~TornReceive PROVE stage' = stage
      <4>1. ~AppendPoint
        BY <2>1 DEF AppendPoint, TypeOK
      <4>2. CASE GuiStep
        BY <4>2 DEF GuiStep, GuiSelect, GuiSend, Wake, GuiWritePlc, GuiChart, GuiClearList,
                    GuiAddCmd, workerVars
      <4>3. CASE \/ \E b \in Buttons : Press(b)
                 \/ GuiReceive \/ StatusTick \/ ChartTick \/ DialogTick \/ DialogClose \/ Poll
                 \/ BoardStep \/ UNCHANGED vars
        BY <4>3 DEF Press, GuiReceive, StatusTick, ChartTick, DialogTick, DialogClose, Poll,
                    BoardStep, vars, workerVars
      <4>4. CASE WorkerSelect \/ WorkerSend
        BY <4>4 DEF WorkerSelect, WorkerSend
      <4> QED BY <3>3, <4>1, <4>2, <4>3, <4>4 DEF Next, WorkerStep
    <3> QED BY <2>1, <3>1, <3>2, <3>3
  <2>3. NoWaves'
    BY <1>0, <2>1 DEF NoWaves, WavesMove, OnBus, Arrived
  <2> QED BY <2>2, <2>3
<1> QED BY <1>3, <1>4, <1>6

\* A waveform's value, of a segment up to s.
PastValue(d, s) == (d.kind \in {"zero", "wave"} \/ FromSlave1(d)) /\ d.n <= s

\* What is asked for, on its way, read and recorded is of a segment the scan has reached.
PastInv ==
    clicks <= 3 =>
        /\ SlaveChosen
        /\ \A k \in 1 .. Len(bus) :
              bus[k].req.kind = "wave" => bus[k].req.arg <= seg /\ (bus[k].to = 1 => shared)
        /\ \A k \in 1 .. Len(rxq) : rxq[k].kind = "wave" => PastValue(rxq[k].data, seg)
        /\ PastValue(buf, seg)
        /\ \A k \in 1 .. Len(list1) : PastValue(list1[k].data, list1[k].seg)
        /\ \A k \in 1 .. Len(list2) : PastValue(list2[k].data, list2[k].seg)

LEMMA PastValueKept ==
  ASSUME NEW d, d.n \in Nat, NEW s \in Nat, NEW t \in Nat, s <= t, PastValue(d, s),
         shared => shared'
  PROVE  PastValue(d, t)'
<1>1. FromSlave1(d) => FromSlave1(d)'
  BY DEF FromSlave1
<1>2. d.n <= t
  BY DEF PastValue
<1> QED BY <1>1, <1>2 DEF PastValue

\* The value of a wave's frame the board answers with.
LEMMA PastAnswer ==
  ASSUME NEW n \in Slaves, NEW a \in Nat, NEW s \in Nat, a <= s, n = 1 => shared
  PROVE  PastValue(WaveData(n, a), s)
<1>1. CASE n = 1
  BY <1>1 DEF PastValue, WaveData, FromSlave1
<1>2. CASE n # 1
  BY <1>2 DEF PastValue, WaveData
<1> QED BY <1>1, <1>2

\* The segment only grows, until a scan that finds nothing left of another starts.
LEMMA SegmentGrows ==
  ASSUME TypeOK, [Next]_vars
  PROVE  \/ seg' \in Nat /\ seg <= seg'
         \/ Dequeue /\ Queued /\ seg' = 0 /\ buf' = Zero
<1>0. seg \in Nat /\ queue \in Seq({"READ_POINTS", "READ_STATUS"})
  BY DEF TypeOK, Segs
<1>1. CASE Dequeue
  <2>1. CASE Head(queue) = "READ_POINTS"
    <3>1. queue # <<>> /\ seg' = 0 /\ buf' = Zero
      BY <1>1, <2>1 DEF Dequeue
    <3>2. Head(queue) = queue[1] /\ 1 \in 1 .. Len(queue)
      BY <1>0, <3>1
    <3> QED BY <1>1, <2>1, <3>1, <3>2 DEF Queued
  <2>2. CASE Head(queue) # "READ_POINTS"
    BY <1>0, <1>1, <2>2 DEF Dequeue
  <2> QED BY <2>1, <2>2
<1>2. CASE AppendPoint
  <2>1. seg' = seg \/ seg' = seg + 1
    BY <1>2 DEF AppendPoint, AfterPoint, EndSegment
  <2> QED BY <1>0, <2>1
<1>3. CASE WorkerReceive \/ TornReceive
  <2>1. \E d : WorkerGets(d)
    BY <1>3 DEF WorkerReceive, TornReceive
  <2> QED BY <1>0, <2>1 DEF WorkerGets, StatusRead, AngleRead, WaveRead
<1>4. CASE GuiStep
  <2>1. seg' = seg
    BY <1>4 DEF GuiStep, GuiSelect, GuiSend, Wake, GuiWritePlc, GuiChart, GuiClearList,
                GuiAddCmd, workerVars
  <2> QED BY <1>0, <2>1
<1>5. CASE \/ \E b \in Buttons : Press(b)
           \/ GuiReceive \/ StatusTick \/ ChartTick \/ DialogTick \/ DialogClose \/ Poll
           \/ BoardStep \/ UNCHANGED vars
  <2>1. seg' = seg
    BY <1>5 DEF Press, GuiReceive, StatusTick, ChartTick, DialogTick, DialogClose, Poll,
                BoardStep, vars, workerVars
  <2> QED BY <1>0, <2>1
<1>6. CASE WorkerSelect \/ WorkerSend
  BY <1>0, <1>6 DEF WorkerSelect, WorkerSend
<1> QED BY <1>1, <1>2, <1>3, <1>4, <1>5, <1>6 DEF Next, WorkerStep

\* The slave the worker has chosen stays, unless a slot chooses the first.
LEMMA ChosenKept ==
  ASSUME TypeOK, StackInv, LocalSlots, SlaveChosen, [Next]_vars
  PROVE  SlaveChosen'
<1>0. shared => shared'
  BY HistoryGrows
<1>1. CASE WorkerReceive \/ TornReceive
  <2>1. step' # "send"
    BY <1>1, WorkerGetsStep DEF WorkerReceive, TornReceive
  <2> QED BY <2>1 DEF SlaveChosen
<1>2. CASE WorkerStep
  <2>1. step' = "send" => WorkerSelect
    BY <1>2 DEF WorkerStep, Dequeue, WorkerSelect, WorkerSend, AppendPoint, AfterPoint, EndSegment,
                Proceed, TypeOK
  <2>2. WorkerSelect => stage' = stage /\ ctxSlave' = SlaveOf(stage)
    BY DEF WorkerSelect, SetSlave
  <2> QED BY <2>1, <2>2 DEF SlaveChosen
<1>3. CASE GuiSelect
  <2>1. PICK n \in Slaves : Doing(Select(n)) /\ SetSlave(n)
    BY <1>3 DEF GuiSelect
  <2>2. ctxSlave' = 1
    BY <2>1, LocalStep DEF Doing, SetSlave
  <2>3. step' = step /\ stage' = stage /\ shared' = (shared \/ stage # "idle")
    BY <1>3 DEF GuiSelect, workerVars
  <2>4. step = "send" => shared'
    <3>1. step = "send" => stage # "idle"
      BY DEF TypeOK
    <3> QED BY <2>3, <3>1, Zenon
  <2> QED BY <2>2, <2>3, <2>4 DEF SlaveChosen
<1>4. CASE GuiSend \/ Wake \/ GuiWritePlc \/ GuiChart \/ GuiClearList \/ GuiAddCmd
  <2>1. ctxSlave' = ctxSlave /\ step' = step /\ stage' = stage
    BY <1>4 DEF GuiSend, Wake, GuiWritePlc, GuiChart, GuiClearList, GuiAddCmd, workerVars, lineVars
  <2> QED BY <1>0, <2>1 DEF SlaveChosen
<1>5. CASE \/ \E b \in Buttons : Press(b)
           \/ GuiReceive \/ StatusTick \/ ChartTick \/ DialogTick \/ DialogClose \/ Poll
           \/ UNCHANGED vars
  <2>1. ctxSlave' = ctxSlave /\ step' = step /\ stage' = stage
    BY <1>5 DEF Press, GuiReceive, StatusTick, ChartTick, DialogTick, DialogClose, Poll, vars,
                workerVars, lineVars
  <2> QED BY <1>0, <2>1 DEF SlaveChosen
<1>6. CASE BoardStep
  <2>1. ctxSlave' = ctxSlave /\ step' = step /\ stage' = stage
    BY <1>6, BoardMoves DEF BoardStep, TypeOK, workerVars
  <2> QED BY <1>0, <2>1 DEF SlaveChosen
<1> QED BY <1>1, <1>2, <1>3, <1>4, <1>5, <1>6 DEF Next, GuiStep

\* What the worker reads into the slice of its segment.
LEMMA PastBuffer ==
  ASSUME TypeOK, PastInv, clicks <= 3, [Next]_vars
  PROVE  \/ buf' = buf
         \/ buf' = Zero
         \/ seg' = seg /\ PastValue(buf', seg)
<1>0. rxq \in Seq(Reply)
  BY DEF TypeOK, LineTypeOK
<1>1. CASE WorkerReceive \/ TornReceive
  <2>1. PICK d : /\ WorkerGets(d)
                 /\ \/ d = Kept
                    \/ /\ rxq # <<>> /\ Head(rxq).kind = RequestOf(stage, seg).kind
                       /\ d = Head(rxq).data
    BY <1>1 DEF WorkerReceive, TornReceive, Confirms
  <2>2. CASE WaveRead(d)
    <3>1. stage \in {"wave1", "wave2"} /\ buf' = d /\ seg' = seg
      BY <2>2 DEF WaveRead
    <3>2. CASE d = Kept
      BY <3>1, <3>2 DEF Kept
    <3>3. CASE rxq # <<>> /\ Head(rxq).kind = RequestOf(stage, seg).kind /\ d = Head(rxq).data
      <4>1. Head(rxq) = rxq[1] /\ 1 \in 1 .. Len(rxq)
        BY <1>0, <3>3
      <4>2. Head(rxq).kind = "wave"
        BY <3>1, <3>3 DEF RequestOf, Ask
      <4>3. PastValue(Head(rxq).data, seg)
        BY <4>1, <4>2 DEF PastInv
      <4> QED BY <3>1, <3>3, <4>3
    <3> QED BY <2>1, <3>2, <3>3
  <2>3. CASE StatusRead(d) \/ AngleRead(d)
    BY <2>3 DEF StatusRead, AngleRead
  <2> QED BY <2>1, <2>2, <2>3 DEF WorkerGets
<1>2. CASE WorkerStep
  BY <1>2 DEF WorkerStep, Dequeue, WorkerSelect, WorkerSend, AppendPoint, AfterPoint, EndSegment
<1>3. CASE GuiStep
  BY <1>3 DEF GuiStep, GuiSelect, GuiSend, Wake, GuiWritePlc, GuiChart, GuiClearList,
              GuiAddCmd, workerVars
<1>4. CASE \/ \E b \in Buttons : Press(b)
           \/ GuiReceive \/ StatusTick \/ ChartTick \/ DialogTick \/ DialogClose \/ Poll
           \/ BoardStep \/ UNCHANGED vars
  BY <1>4 DEF Press, GuiReceive, StatusTick, ChartTick, DialogTick, DialogClose, Poll,
              BoardStep, vars, workerVars
<1> QED BY <1>1, <1>2, <1>3, <1>4 DEF Next

\* Where a point of a list after a step comes from.
LEMMA PointsMove ==
  ASSUME TypeOK, [Next]_vars
  PROVE  /\ \A k \in 1 .. Len(list1') :
               (\E j \in 1 .. Len(list1) : list1'[k] = list1[j]) \/ list1'[k] = NewPoint
         /\ \A k \in 1 .. Len(list2') :
               (\E j \in 1 .. Len(list2) : list2'[k] = list2[j]) \/ list2'[k] = NewPoint
<1>0. list1 \in Seq(Point) /\ list2 \in Seq(Point)
  BY DEF TypeOK
<1>1. CASE AppendPoint
  <2>1. \/ list1' = Append(list1, NewPoint) /\ list2' = list2
        \/ list2' = Append(list2, NewPoint) /\ list1' = list1
    BY <1>1 DEF AppendPoint
  <2>2. ASSUME NEW l \in Seq(Point), NEW k \in 1 .. Len(Append(l, NewPoint))
        PROVE  (\E j \in 1 .. Len(l) : Append(l, NewPoint)[k] = l[j])
                   \/ Append(l, NewPoint)[k] = NewPoint
    <3>1. (k \in 1 .. Len(l) /\ Append(l, NewPoint)[k] = l[k]) \/ Append(l, NewPoint)[k] = NewPoint
      OBVIOUS
    <3> QED BY <3>1
  <2>3. /\ \A k \in 1 .. Len(list1) : \E j \in 1 .. Len(list1) : list1[k] = list1[j]
        /\ \A k \in 1 .. Len(list2) : \E j \in 1 .. Len(list2) : list2[k] = list2[j]
    OBVIOUS
  <2>4. CASE list1' = Append(list1, NewPoint) /\ list2' = list2
    BY <1>0, <2>2, <2>3, <2>4, Zenon
  <2>5. CASE list2' = Append(list2, NewPoint) /\ list1' = list1
    BY <1>0, <2>2, <2>3, <2>5, Zenon
  <2> QED BY <2>1, <2>4, <2>5
<1>2. CASE ~AppendPoint
  BY <1>2, ListsOfOtherSteps
<1> QED BY <1>1, <1>2

LEMMA NextPast ==
  TypeOK /\ StackInv /\ MotorInv /\ LocalSlots /\ ScanInv /\ PastInv /\ [Next]_vars => PastInv'
<1> SUFFICES ASSUME TypeOK, StackInv, MotorInv, LocalSlots, ScanInv, PastInv, [Next]_vars,
                    clicks' <= 3
             PROVE  PastInv'
  BY DEF PastInv
<1>0. /\ clicks <= 3 /\ (shared => shared') /\ WavesMove /\ TypeOK' /\ LineTypeOK /\ LineTypeOK'
      /\ seg \in Nat /\ seg' \in Nat /\ buf \in Data
  <2>1. TypeOK' /\ \A k \in Segs : k \in Nat
    BY NextTypeOK DEF Segs
  <2> QED BY <2>1, NextPanel, NextWavesMove, HistoryGrows, StartSlots DEF TypeOK
<1>i. /\ SlaveChosen
      /\ \A k \in 1 .. Len(bus) :
            bus[k].req.kind = "wave" => bus[k].req.arg <= seg /\ (bus[k].to = 1 => shared)
      /\ \A k \in 1 .. Len(rxq) : rxq[k].kind = "wave" => PastValue(rxq[k].data, seg)
      /\ PastValue(buf, seg)
      /\ \A k \in 1 .. Len(list1) : PastValue(list1[k].data, list1[k].seg)
      /\ \A k \in 1 .. Len(list2) : PastValue(list2[k].data, list2[k].seg)
  BY <1>0 DEF PastInv
<1>t. /\ \A m : OnBus(m) => m \in Message /\ m.to \in Slaves /\ m.req.arg \in Nat
      /\ \A y : Arrived(y) => y.data.n \in Nat
  <2>1. /\ \A m \in Message : m.to \in Slaves /\ m.req.arg \in Nat
        /\ \A y \in Reply : y.data.n \in Nat
    BY DEF Message, Request, Reply, Data
  <2>2. /\ \A k \in 1 .. Len(bus) : bus[k] \in Message
        /\ \A k \in 1 .. Len(rxq) : rxq[k] \in Reply
    BY <1>0 DEF LineTypeOK
  <2> QED BY <2>1, <2>2 DEF OnBus, Arrived
\* Either the segment grows or there is no frame of a waveform.
<1>1. seg <= seg' \/ (NoWaves /\ Dequeue /\ seg' = 0 /\ buf' = Zero)
  <2>1. Queued => NoWaves
    BY <1>0 DEF ScanInv, MayScan
  <2> QED BY <2>1, SegmentGrows
<1>2. SlaveChosen'
  BY <1>i, ChosenKept
<1>3. ASSUME NEW k \in 1 .. Len(bus'), bus'[k].req.kind = "wave"
      PROVE  bus'[k].req.arg <= seg' /\ (bus'[k].to = 1 => shared')
  <2>1. CASE OnBus(bus'[k])
    <3>1. PICK j \in 1 .. Len(bus) : bus[j] = bus'[k]
      BY <2>1 DEF OnBus
    <3>2. bus'[k].req.arg <= seg /\ (bus'[k].to = 1 => shared) /\ ~NoWaves
      BY <1>3, <1>i, <3>1 DEF NoWaves
    <3>3. bus'[k].req.arg \in Nat
      BY <1>t, <2>1
    <3> QED BY <1>0, <1>1, <3>2, <3>3
  <2>2. CASE /\ WorkerSend /\ stage \in {"wave1", "wave2"}
             /\ bus'[k].to = ctxSlave /\ bus'[k].req.arg = seg
    <3>1. seg' = seg /\ step = "send"
      BY <2>2 DEF WorkerSend
    <3>2. ctxSlave = 1 => shared
      BY <1>i, <2>2, <3>1 DEF SlaveChosen, SlaveOf
    <3> QED BY <1>0, <2>2, <3>1, <3>2
  <2> QED BY <1>0, <1>3, <2>1, <2>2 DEF WavesMove
<1>4. ASSUME NEW k \in 1 .. Len(rxq'), rxq'[k].kind = "wave"
      PROVE  PastValue(rxq[k].data, seg)'
  <2>1. CASE Arrived(rxq'[k])
    <3>1. PICK j \in 1 .. Len(rxq) : rxq[j] = rxq'[k]
      BY <2>1 DEF Arrived
    <3>2. PICK d : d = rxq'[k].data
      OBVIOUS
    <3>3. PastValue(d, seg) /\ ~NoWaves /\ d.n \in Nat
      BY <1>4, <1>i, <1>t, <2>1, <3>1, <3>2 DEF NoWaves
    <3> QED BY <1>0, <1>1, <3>2, <3>3 DEF PastValue, FromSlave1
  <2>2. ASSUME NEW m \in Message, OnBus(m), m.req.kind = "wave",
               rxq'[k].data = WaveData(m.to, m.req.arg)
        PROVE  PastValue(rxq[k].data, seg)'
    <3>1. PICK j \in 1 .. Len(bus) : bus[j] = m
      BY <2>2 DEF OnBus
    <3>2. m.req.arg <= seg /\ (m.to = 1 => shared) /\ ~NoWaves
      BY <1>i, <2>2, <3>1 DEF NoWaves
    <3>3. m.to \in Slaves /\ m.req.arg \in Nat
      BY <1>t, <2>2
    <3>4. PICK d : d = rxq'[k].data
      OBVIOUS
    <3>5. PastValue(d, seg)
      BY <1>0, <2>2, <3>2, <3>3, <3>4, PastAnswer
    <3>6. d.n \in Nat
      BY <2>2, <3>3, <3>4 DEF WaveData
    <3> QED BY <1>0, <1>1, <3>2, <3>4, <3>5, <3>6 DEF PastValue, FromSlave1
  <2> QED BY <1>0, <1>4, <2>1, <2>2 DEF WavesMove
<1>5. PastValue(buf, seg)'
  <2>1. CASE buf' = buf
    <3>1. seg <= seg' \/ buf' = Zero
      BY <1>1
    <3>2. CASE seg <= seg'
      <4>1. buf.n \in Nat /\ buf.n <= seg
        BY <1>0, <1>i DEF PastValue, Data
      <4>2. buf.n <= seg'
        BY <1>0, <3>2, <4>1
      <4>3. (FromSlave1(buf) => FromSlave1(buf)') /\ buf'.n <= seg'
        BY <1>0, <2>1, <4>2, Zenon DEF FromSlave1
      <4> QED BY <1>i, <2>1, <4>3, Zenon DEF PastValue
    <3>3. CASE buf' = Zero
      BY <1>0, <3>3 DEF PastValue, Zero
    <3> QED BY <3>1, <3>2, <3>3
  <2>2. CASE buf' = Zero
    BY <1>0, <2>2 DEF PastValue, Zero
  <2>3. CASE seg' = seg /\ PastValue(buf', seg)
    <3>1. FromSlave1(buf') => FromSlave1(buf)'
      BY <1>0 DEF FromSlave1
    <3> QED BY <2>3, <3>1 DEF PastValue
  <2> QED BY <1>0, <2>1, <2>2, <2>3, PastBuffer
<1>6. /\ \A k \in 1 .. Len(list1') : PastValue(list1[k].data, list1[k].seg)'
      /\ \A k \in 1 .. Len(list2') : PastValue(list2[k].data, list2[k].seg)'
  <2>1. ASSUME NEW p, PastValue(p.data, p.seg) PROVE PastValue(p.data, p.seg)'
    BY <1>0, <2>1 DEF PastValue, FromSlave1
  <2>2. PastValue(NewPoint.data, NewPoint.seg)
    BY <1>i DEF NewPoint
  <2>3. /\ \A k \in 1 .. Len(list1') : PastValue(list1'[k].data, list1'[k].seg)
        /\ \A k \in 1 .. Len(list2') : PastValue(list2'[k].data, list2'[k].seg)
    BY <1>i, <2>2, PointsMove
  <2> QED BY <1>0, <2>3 DEF PastValue, FromSlave1
<1> QED BY <1>2, <1>3, <1>4, <1>5, <1>6 DEF PastInv

\* With or without losses and late answers, whatever the slots do on the line: as long as
\* the panel has no TEST0 and TEST1 (which scan and read waveforms by themselves) and GOGOGO
\* cannot have started a second scan (a fourth press), no status, angle or parameter becomes
\* a point, nor does a segment the scan has not reached.
THEOREM NoPointFromTheFuture ==
  ASSUME "TEST0" \notin Buttons, "TEST1" \notin Buttons
  PROVE  Spec => [](clicks <= 3 => PointsNotFromTheFuture)
<1>1. Init => MotorInv /\ LocalSlots /\ Without("TEST0") /\ ScanInv /\ PastInv
  <2> SUFFICES ASSUME Init PROVE MotorInv /\ LocalSlots /\ Without("TEST0") /\ ScanInv /\ PastInv
    OBVIOUS
  <2>1. /\ stack = <<>> /\ flagGo = 0 /\ clicks = 0 /\ ~turning /\ deg = 0 /\ stage = "idle"
        /\ queue = <<>> /\ bus = <<>> /\ rxq = <<>> /\ step = "slave" /\ seg = 0 /\ buf = Zero
        /\ list1 = <<>> /\ list2 = <<>>
    BY DEF Init, LineInit
  <2>2. MotorInv /\ LocalSlots /\ Without("TEST0")
    BY <2>1 DEF MotorInv, LocalSlots, Without
  <2>3. ScanInv
    BY <2>1 DEF ScanInv, MayScan, NoWaves, Queued, Without
  <2>4. PastInv
    BY <2>1 DEF PastInv, SlaveChosen, PastValue, Zero
  <2> QED BY <2>2, <2>3, <2>4
<1>2. TypeOK /\ StackInv /\ MotorInv /\ [Next]_vars => MotorInv'
  BY NextMotorInv
<1>3. TypeOK /\ LocalSlots /\ [Next]_vars => LocalSlots'
  BY NextLocalSlots
<1>4. TypeOK /\ Without("TEST0") /\ [Next]_vars => Without("TEST0")'
  <2>1. "TEST0" \in AllButtons \ {"GOGOGO"}
    BY DEF AllButtons
  <2> QED BY <2>1, NextWithout
<1>5. TypeOK /\ StackInv /\ MotorInv /\ LocalSlots /\ Without("TEST0") /\ ScanInv /\ [Next]_vars
          => ScanInv'
  BY NextScan
<1>6. TypeOK /\ StackInv /\ MotorInv /\ LocalSlots /\ ScanInv /\ PastInv /\ [Next]_vars => PastInv'
  BY NextPast
<1>7. PastInv => (clicks <= 3 => PointsNotFromTheFuture)
  BY DEF PastInv, PastValue, PointsNotFromTheFuture
<1> QED BY <1>1, <1>2, <1>3, <1>4, <1>5, <1>6, <1>7, TypeCorrect, StackInOrder, PTL DEF Spec

=============================================================================
