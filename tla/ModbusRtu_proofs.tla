-------------------------- MODULE ModbusRtu_proofs --------------------------
(***************************************************************************)
(* What holds of ModbusRtu for every program of the client, every size of  *)
(* the server's tables, every byte out of place and any number of faults.  *)
(***************************************************************************)
EXTENDS ModbusRtu, SequenceTheorems, TLAPS

----------------------------------------------------------------------------
(* The inductive invariant: how far each step of a message may reach. *)

\* Two bytes up to the function code, at most nine more up to the byte count, and
\* then the limit of the frame; a reader always waits for something.
Reach(r) ==
    /\ r.step \in {"function", "meta", "data"} => r.want > 0
    /\ r.step = "function" => r.got + r.want = 2
    /\ r.step = "meta"     => r.got + r.want <= 11
    /\ r.step = "data"     => r.got + r.want <= MaxAdu
    /\ r.got <= MaxAdu

IInv == TypeOK /\ \A e \in Ends : Reach(rx[e])

----------------------------------------------------------------------------
(* Types grow with the number of calls. *)

\* A sequence over a set is one over any larger set.
LEMMA SeqGrows ==
    ASSUME NEW S, NEW T, S \subseteq T, NEW q \in Seq(S)
    PROVE  q \in Seq(T)
<1>1. q \in [1 .. Len(q) -> T]
  OBVIOUS
<1> QED
  BY <1>1, SeqDef

\* A later call leaves frames, pieces and receivers what they were.
LEMMA TypesGrow ==
    ASSUME NEW n \in Nat
    PROVE  /\ Frames(n) \subseteq Frames(n + 1)
           /\ Piece(n) \subseteq Piece(n + 1)
           /\ Receiver(n) \subseteq Receiver(n + 1)
BY DEF Frames, Piece, Receiver, Message

\* What both ends start a message with.
LEMMA FreshIsReceiver ==
    ASSUME NEW n \in Nat
    PROVE  /\ Fresh \in Receiver(n) /\ Off \in Receiver(n)
           /\ Reach(Fresh) /\ Reach(Off)
<1>1. Junk \in Message(n)
  BY DEF Message
<1>2. Fresh \in Receiver(n) /\ Off \in Receiver(n)
  BY <1>1 DEF Fresh, Off, Receiver, Steps
<1>3. Reach(Fresh)
  BY DEF Fresh, Reach, MaxAdu
<1>4. Reach(Off)
  BY DEF Fresh, Off, Reach, MaxAdu
<1> QED
  BY <1>2, <1>3, <1>4

----------------------------------------------------------------------------
(* Receiving: the steps of one message. *)

\* Part of IInv when everything a step asked for has arrived.
Complete(r) ==
    /\ r.want = 0
    /\ \/ r.step = "function" /\ r.got = 2
       \/ r.step = "meta" /\ r.got <= 11
       \/ r.step = "data" /\ r.got <= MaxAdu

\* A byte of a message is a byte, in its place or not.
LEMMA BytesAreBytes ==
    ASSUME NEW n \in Nat, NEW r \in Receiver(n)
    PROVE  ByteOf(r, r.msg.fn) \subseteq 0 .. 255 /\ ByteOf(r, r.msg.bytes) \subseteq 0 .. 255
<1>1. Bytes \subseteq 0 .. 255
  BY RtuAssumption
<1>2. r.msg # Junk => r.msg.fn \in 0 .. 255 /\ r.msg.bytes \in 0 .. 255
  BY DEF Receiver, Message, Frames
<1> QED
  BY <1>1, <1>2 DEF ByteOf

\* What follows the byte count, and the checksum.
LEMMA DataIsBounded ==
    ASSUME NEW n \in Nat, NEW e \in Ends, NEW r \in Receiver(n)
    PROVE  DataLengths(e, r) \subseteq 2 .. 257
<1>1. ByteOf(r, r.msg.bytes) \subseteq 0 .. 255
  BY BytesAreBytes
<1> QED
  BY <1>1 DEF DataLengths

\* The length byte decides: the rest of the frame fits, or the message is given up.
LEMMA AfterMetaReaches ==
    ASSUME NEW n \in Nat, NEW e \in Ends, NEW r \in Receiver(n), r.got <= 11,
           NEW s \in AfterMeta(e, r)
    PROVE  s \in Receiver(n) /\ Reach(s)
<1>1. PICK d \in DataLengths(e, r) :
         s = [r EXCEPT !.want = d,
                       !.step = IF r.got + d > MaxAdu THEN "error" ELSE "data"]
  BY DEF AfterMeta
<1>2. d \in 2 .. 257
  BY DataIsBounded
<1>3. s \in Receiver(n)
  <2>1. d \in Nat /\ (IF r.got + d > MaxAdu THEN "error" ELSE "data") \in Steps
    BY <1>2 DEF Steps
  <2> QED
    BY <1>1, <2>1 DEF Receiver
<1>4. s.want = d /\ s.got = r.got /\ s.step = IF r.got + d > MaxAdu THEN "error" ELSE "data"
  BY <1>1 DEF Receiver
<1>5. r.got \in Nat
  BY DEF Receiver
<1> QED
  BY <1>2, <1>3, <1>4, <1>5 DEF Reach, MaxAdu

\* The function code decides how much comes before the byte count: nine at most.
LEMMA AfterFunctionReaches ==
    ASSUME NEW n \in Nat, NEW e \in Ends, NEW r \in Receiver(n), r.got = 2,
           NEW s \in AfterFunction(e, r)
    PROVE  s \in Receiver(n) /\ Reach(s)
<1>1. PICK f \in ByteOf(r, r.msg.fn) :
         s \in IF MetaLength(e, f) = 0
               THEN AfterMeta(e, [r EXCEPT !.fn = f])
               ELSE {[[r EXCEPT !.fn = f] EXCEPT !.step = "meta", !.want = MetaLength(e, f)]}
  BY DEF AfterFunction
<1>2. f \in 0 .. 255
  <2>1. ByteOf(r, r.msg.fn) \subseteq 0 .. 255
    BY BytesAreBytes
  <2> QED
    BY <1>1, <2>1
<1>3. MetaLength(e, f) \in 0 .. 9
  BY <1>2 DEF MetaLength
<1>4. [r EXCEPT !.fn = f] \in Receiver(n) /\ [r EXCEPT !.fn = f].got = 2
  BY <1>2 DEF Receiver
<1>5. CASE MetaLength(e, f) = 0
  <2> DEFINE q == [r EXCEPT !.fn = f]
  <2>1. q \in Receiver(n) /\ q.got <= 11 /\ s \in AfterMeta(e, q)
    BY <1>1, <1>4, <1>5
  <2> HIDE DEF q
  <2> QED
    BY <2>1, AfterMetaReaches
<1>6. CASE MetaLength(e, f) # 0
  <2>1. s = [[r EXCEPT !.fn = f] EXCEPT !.step = "meta", !.want = MetaLength(e, f)]
    BY <1>1, <1>6
  <2>2. s \in Receiver(n)
    <3>1. MetaLength(e, f) \in Nat /\ "meta" \in Steps
      BY <1>3 DEF Steps
    <3> QED
      BY <1>4, <2>1, <3>1 DEF Receiver
  <2>3. s.step = "meta" /\ s.got = 2 /\ s.want = MetaLength(e, f)
    BY <1>4, <2>1 DEF Receiver
  <2> QED
    BY <1>3, <1>6, <2>2, <2>3 DEF Reach, MaxAdu
<1> QED
  BY <1>5, <1>6

\* Whatever has arrived, the next step of a message stays within its reach.
LEMMA NextStepReaches ==
    ASSUME NEW n \in Nat, NEW e \in Ends, NEW r \in Receiver(n), Complete(r),
           NEW s \in NextStep(e, r)
    PROVE  s \in Receiver(n) /\ Reach(s)
<1>1. CASE r.step = "function"
  BY <1>1, AfterFunctionReaches DEF Complete, NextStep
<1>2. CASE r.step = "meta"
  BY <1>2, AfterMetaReaches DEF Complete, NextStep
<1>3. CASE r.step = "data"
  <2>1. s = [r EXCEPT !.step = "done"]
    BY <1>3 DEF NextStep
  <2>2. s \in Receiver(n) /\ s.step = "done" /\ s.got = r.got
    BY <2>1 DEF Receiver, Steps
  <2> QED
    BY <1>3, <2>2 DEF Complete, Reach
<1> QED
  BY <1>1, <1>2, <1>3 DEF Complete

----------------------------------------------------------------------------
(* The frames both ends build. *)

\* The fields of a call.
LEMMA FieldsOfCall ==
    ASSUME NEW c \in Call
    PROVE  /\ c.fn \in {1, 2, 3, 4, 5, 6, 15, 16, 17, 23}
           /\ c.addr \in Nat /\ c.nb \in Nat /\ c.waddr \in Nat /\ c.wnb \in Nat
<1>1. /\ c.fn \in {1, 2, 3, 4, 5, 6, 15, 16, 17, 23}
      /\ c.addr \in Word /\ c.nb \in Word /\ c.waddr \in Word /\ c.wnb \in Word
  BY DEF Call
<1>2. Word \subseteq Nat
  BY DEF Word
<1> QED
  BY <1>1, <1>2

\* A frame names a call that was made.
LEMMA CallOfFrame ==
    ASSUME TypeOK, NEW id \in 1 .. Len(calls)
    PROVE  calls[id] \in Call
<1>1. calls \in Seq(Call)
  BY ProgramsAssumption, Zenon DEF TypeOK
<1> QED
  BY <1>1, ElementOfSeq

\* A request has the type of a frame and at least a slave, a function and a checksum.
LEMMA RequestIsFrame ==
    ASSUME NEW n \in Nat, NEW id \in 1 .. n, NEW c \in Call
    PROVE  /\ Request(c, id) \in Frames(n)
           /\ Request(c, id).len = RequestLength(c)
           /\ RequestLength(c) \in Nat /\ RequestLength(c) >= 4
<1>1. c.fn \in 0 .. 255 /\ c.nb \in Nat /\ c.wnb \in Nat
  BY FieldsOfCall
<1>2. ValueBytes(c) \in Nat
  BY <1>1 DEF ValueBytes, BytesFor
<1>3. RequestLength(c) \in Nat /\ RequestLength(c) >= 4
  BY <1>2 DEF RequestLength
<1>4. ValueBytes(c) % 256 \in 0 .. 255
  BY <1>2
<1> QED
  BY <1>1, <1>3, <1>4 DEF Request, Frames

\* So has a reply, and it is at least as long as an exception.
LEMMA ReplyIsFrame ==
    ASSUME NEW n \in Nat, NEW id \in 1 .. n, NEW c \in Call
    PROVE  /\ Reply(c, id) \in Frames(n)
           /\ Reply(c, id).len \in Nat /\ Reply(c, id).len >= 5
<1>1. c.fn \in 0 .. 127 /\ c.nb \in Nat
  BY FieldsOfCall
<1>2. Exception(c) \in 0 .. 255
  BY DEF Exception
<1>3. ReplyBytes(c) \in Nat
  BY <1>1 DEF ReplyBytes, BytesFor
<1>4. ReplyBytes(c) % 256 \in 0 .. 255
  BY <1>3
<1>5. c.fn \in 0 .. 255 /\ c.fn + 128 \in 0 .. 255
  BY <1>1
<1> QED
  BY <1>1, <1>2, <1>3, <1>4, <1>5 DEF Reply, Frames

\* What a served request writes.
LEMMA WritesAreCells ==
    ASSUME NEW n \in Nat, NEW id \in 1 .. n, NEW c \in Call
    PROVE  Writes(c, id) \subseteq [id: 1 .. n, cells: [tab: Tabs, from: Nat, n: Nat]]
<1>1. c.addr \in Nat /\ c.waddr \in Nat /\ c.nb \in Nat /\ c.wnb \in Nat
  BY FieldsOfCall
<1>2. TableOf(c.fn) \in Tabs
  BY DEF TableOf, Tabs
<1>3. Target(c) \in [tab: Tabs, from: Nat, n: Nat]
  <2>1. (IF c.fn = 23 THEN c.waddr ELSE c.addr) \in Nat
    BY <1>1
  <2>2. (CASE c.fn \in {5, 6} -> 1 [] c.fn = 23 -> c.wnb [] OTHER -> c.nb) \in Nat
    BY <1>1
  <2> QED
    BY <1>2, <2>1, <2>2 DEF Target
<1>4. [id |-> id, cells |-> Target(c)] \in [id: 1 .. n, cells: [tab: Tabs, from: Nat, n: Nat]]
  BY <1>3
<1> QED
  BY <1>4 DEF Writes

----------------------------------------------------------------------------
(* The steps. *)

\* What a read does: at least one byte, no more than was asked for, and the message goes
\* on or is junk from now on.
Taken(e, n) ==
    LET r == rx[e]
        p == wire[e][1]
    IN  [r EXCEPT !.got = @ + n, !.want = @ - n,
                  !.msg = IF Continues(r, p) THEN p.msg ELSE Junk]

LEMMA ReadTakes ==
    ASSUME IInv, NEW e \in Ends, Read(e)
    PROVE  \E n \in Nat : \E s \in IF Taken(e, n).want = 0 THEN NextStep(e, Taken(e, n))
                                   ELSE {Taken(e, n)} :
              /\ 0 < n /\ n <= wire[e][1].end - wire[e][1].at /\ n <= rx[e].want
              /\ Taken(e, n) \in Receiver(made)
              /\ rx' = [rx EXCEPT ![e] = s]
              /\ wire' = [wire EXCEPT ![e] =
                    IF n = wire[e][1].end - wire[e][1].at THEN Tail(wire[e])
                    ELSE <<[wire[e][1] EXCEPT !.at = wire[e][1].at + n]>> \o Tail(wire[e])]
<1> DEFINE p == wire[e][1]
           r == rx[e]
           left == p.end - p.at
           most == IF left < r.want THEN left ELSE r.want
<1>1. wire[e] \in Seq(Piece(made)) /\ wire[e] # <<>>
  BY DEF IInv, TypeOK, Read
<1>2. p \in Piece(made) /\ p = Head(wire[e])
  BY <1>1, HeadTailProperties
<1>3. r \in Receiver(made) /\ Reach(r) /\ Reading(e)
  BY DEF IInv, TypeOK, Read
<1>4. r.want \in Nat /\ r.want > 0 /\ r.got \in Nat
  BY <1>3 DEF Receiver, Reach, Reading
<1>5. p.at \in Nat /\ p.end \in Nat /\ p.msg \in Frames(made) /\ left \in Nat /\ left > 0
  BY <1>2 DEF Piece
<1>6. most \in Nat /\ most > 0 /\ most <= left /\ most <= r.want
  BY <1>4, <1>5
<1>7. PICK n \in Portions(most) :
        /\ \E s \in IF Taken(e, n).want = 0 THEN NextStep(e, Taken(e, n)) ELSE {Taken(e, n)} :
              rx' = [rx EXCEPT ![e] = s]
        /\ wire' = [wire EXCEPT ![e] =
              IF n = left THEN Tail(wire[e])
              ELSE <<[p EXCEPT !.at = p.at + n]>> \o Tail(wire[e])]
  BY <1>2 DEF Read, Taken
<1>8. n \in Nat /\ n > 0 /\ n <= left /\ n <= r.want
  <2> HIDE DEF most
  <2> QED
    BY <1>4, <1>5, <1>6 DEF Portions
<1>9. Taken(e, n) \in Receiver(made)
  <2>1. (IF Continues(r, p) THEN p.msg ELSE Junk) \in Message(made)
    BY <1>5 DEF Message
  <2>2. r.got + n \in Nat /\ r.want - n \in Nat
    BY <1>4, <1>8
  <2> QED
    BY <1>3, <2>1, <2>2 DEF Receiver, Taken
<1> QED
  BY <1>7, <1>8, <1>9

\* A read leaves the message within its reach.
LEMMA ReadStep ==
    ASSUME IInv, NEW e \in Ends, Read(e)
    PROVE  IInv'
<1> DEFINE p == wire[e][1]
           r == rx[e]
           left == p.end - p.at
<1>1. /\ made \in Nat /\ wire[e] \in Seq(Piece(made)) /\ wire[e] # <<>>
      /\ r \in Receiver(made) /\ Reach(r) /\ Reading(e)
  BY DEF IInv, TypeOK, Read
<1>2. p \in Piece(made) /\ Tail(wire[e]) \in Seq(Piece(made))
  BY <1>1, HeadTailProperties
<1>3. PICK n \in Nat : \E s \in IF Taken(e, n).want = 0 THEN NextStep(e, Taken(e, n))
                                ELSE {Taken(e, n)} :
              /\ 0 < n /\ n <= left /\ n <= r.want
              /\ Taken(e, n) \in Receiver(made)
              /\ rx' = [rx EXCEPT ![e] = s]
              /\ wire' = [wire EXCEPT ![e] =
                    IF n = left THEN Tail(wire[e])
                    ELSE <<[p EXCEPT !.at = p.at + n]>> \o Tail(wire[e])]
  BY ReadTakes
<1> DEFINE q == Taken(e, n)
<1>4. q.got = r.got + n /\ q.want = r.want - n /\ q.step = r.step
  BY <1>1 DEF Taken, Receiver
<1>5. r.got \in Nat /\ r.want \in Nat
  BY <1>1 DEF Receiver
<1>6. \E s \in Receiver(made) : Reach(s) /\ rx' = [rx EXCEPT ![e] = s]
  <2>1. n \in Nat /\ 0 < n /\ n <= r.want /\ q \in Receiver(made)
    BY <1>3
  <2>2. /\ r.step = "function" => r.got + r.want = 2
        /\ r.step = "meta" => r.got + r.want <= 11
        /\ r.step = "data" => r.got + r.want <= MaxAdu
        /\ r.step \in {"function", "meta", "data"}
    BY <1>1 DEF Reach, Reading
  <2> HIDE DEF q, r
  <2>3. q.got \in Nat /\ q.want \in Nat /\ q.got + q.want = r.got + r.want
    BY <1>4, <1>5, <2>1
  <2>4. CASE q.want = 0
    <3>1. Complete(q)
      BY <1>4, <2>2, <2>3, <2>4 DEF Complete
    <3> QED
      BY <1>1, <1>3, <2>4, <3>1, NextStepReaches DEF q
  <2>5. CASE q.want # 0
    <3>1. q.want > 0 /\ q.got <= q.got + q.want
      BY <2>3, <2>5
    <3>2. Reach(q)
      BY <1>4, <2>2, <2>3, <3>1 DEF Reach, MaxAdu
    <3> QED
      BY <1>3, <2>5, <3>2 DEF q
  <2> QED
    BY <2>4, <2>5
<1>7. wire' \in [Ends -> Seq(Piece(made))]
  <2>1. n # left => [p EXCEPT !.at = p.at + n] \in Piece(made)
    <3> DEFINE t == [p EXCEPT !.at = p.at + n]
    <3>1. p \in [msg: Frames(made), at: Nat, end: Nat, intact: BOOLEAN]
      BY <1>2 DEF Piece
    <3>2. t \in [msg: Frames(made), at: Nat, end: Nat, intact: BOOLEAN]
          /\ t.at = p.at + n /\ t.end = p.end
      BY <1>3, <3>1
    <3> HIDE DEF t
    <3>3. n # left => t.at < t.end
      BY <1>3, <3>1, <3>2
    <3> QED
      BY <3>2, <3>3 DEF Piece, t
  <2>2. n # left => <<[p EXCEPT !.at = p.at + n]>> \o Tail(wire[e]) \in Seq(Piece(made))
    BY <1>2, <2>1, ConcatProperties
  <2> HIDE DEF p, left
  <2> QED
    BY <1>2, <1>3, <2>2 DEF IInv, TypeOK
<1> QED
  BY <1>6, <1>7 DEF IInv, TypeOK, Read

\* A timeout ends the message.
LEMMA TimeoutStep ==
    ASSUME IInv, NEW e \in Ends, Timeout(e)
    PROVE  IInv'
<1> DEFINE s == [rx[e] EXCEPT !.step = "error"]
<1>1. rx[e] \in Receiver(made) /\ Reach(rx[e]) /\ rx \in [Ends -> Receiver(made)]
  BY DEF IInv, TypeOK
<1>2. s \in Receiver(made) /\ s.step = "error" /\ s.got = rx[e].got
  BY <1>1 DEF Receiver, Steps
<1>3. Reach(s)
  BY <1>1, <1>2 DEF Reach
<1>4. rx' = [rx EXCEPT ![e] = s]
  BY <1>1 DEF Timeout
<1>5. faults' \in Nat
  BY DEF Timeout, IInv, TypeOK
<1> HIDE DEF s
<1>6. rx' \in [Ends -> Receiver(made)]
  BY <1>1, <1>2, <1>4
<1>7. \A x \in Ends : Reach(rx'[x])
  BY <1>1, <1>3, <1>4 DEF IInv
<1>8. UNCHANGED <<wire, calls, made, result, wrote>>
  BY DEF Timeout
<1> QED
  BY <1>5, <1>6, <1>7, <1>8 DEF IInv, TypeOK

\* The server answers a whole request and starts anew.
LEMMA ServeStep ==
    ASSUME IInv, Serve
    PROVE  IInv'
<1> DEFINE id == rx["server"].msg.id
           c  == calls[id]
           s  == [msg |-> Reply(c, id), at |-> 0, end |-> Reply(c, id).len, intact |-> TRUE]
<1>0. made \in Nat /\ made <= Len(calls) /\ Len(calls) \in Nat
  <2>1. calls \in Seq(Call)
    BY ProgramsAssumption, Zenon DEF IInv, TypeOK
  <2>2. Len(calls) \in Nat
    BY <2>1
  <2> QED
    BY <2>2 DEF IInv, TypeOK
<1>1. rx' \in [Ends -> Receiver(made)] /\ \A e \in Ends : Reach(rx'[e])
  BY <1>0, FreshIsReceiver DEF Serve, IInv, TypeOK, Ends
<1>2. wire' \in [Ends -> Seq(Piece(made))]
      /\ wrote' \subseteq [id: 1 .. made, cells: [tab: Tabs, from: Nat, n: Nat]]
  <2>1. CASE Whole(rx["server"]) /\ c.slave \in {ServerSlave, 0}
    <3>1. rx["server"] \in Receiver(made)
      BY DEF IInv, TypeOK, Ends
    <3>2. id \in 1 .. made
      BY <2>1, <3>1 DEF Whole, Receiver, Message, Frames
    <3>3. c \in Call
      BY <1>0, <3>2, CallOfFrame DEF IInv
    <3>4. Reply(c, id) \in Frames(made) /\ Reply(c, id).len \in Nat /\ Reply(c, id).len >= 5
      BY <1>0, <3>2, <3>3, ReplyIsFrame
    <3>5. Writes(c, id) \subseteq [id: 1 .. made, cells: [tab: Tabs, from: Nat, n: Nat]]
      BY <1>0, <3>2, <3>3, WritesAreCells
    <3>6. s \in Piece(made)
      BY <3>4 DEF Piece
    <3>7. wire["client"] \in Seq(Piece(made)) /\ "client" \in Ends
      BY DEF IInv, TypeOK, Ends
    <3>8. Append(wire["client"], s) \in Seq(Piece(made))
      BY <3>6, <3>7, AppendProperties
    <3>9. wire' = [wire EXCEPT !["client"] = Append(wire["client"], s)]
          /\ wrote' = wrote \cup Writes(c, id)
      BY <2>1 DEF Serve
    <3> HIDE DEF s, c, id
    <3>10. wire' \in [Ends -> Seq(Piece(made))]
      BY <3>7, <3>8, <3>9 DEF IInv, TypeOK
    <3> QED
      BY <3>5, <3>9, <3>10 DEF IInv, TypeOK
  <2>2. CASE ~(Whole(rx["server"]) /\ c.slave \in {ServerSlave, 0})
    BY <2>2 DEF Serve, IInv, TypeOK
  <2> QED
    BY <2>1, <2>2
<1> QED
  BY <1>1, <1>2 DEF Serve, IInv, TypeOK

\* A call may send its request, or a part of it; what is on the line stays typed.
LEMMA SendKeepsWire ==
    ASSUME IInv, Ready, NEW k \in Nat, k > 0, Send(k)
    PROVE  wire' \in [Ends -> Seq(Piece(made + 1))]
<1> DEFINE s == [msg |-> Request(Coming, made + 1), at |-> 0, end |-> k, intact |-> TRUE]
<1>1. made \in Nat /\ made + 1 \in 1 .. made + 1
  BY DEF IInv, TypeOK
<1>2. Coming \in Call
  <2>1. calls \in Seq(Call)
    BY ProgramsAssumption, Zenon DEF IInv, TypeOK
  <2>2. made + 1 \in 1 .. Len(calls)
    BY <1>1, <2>1 DEF Ready
  <2> QED
    BY <2>1, <2>2, ElementOfSeq DEF Coming
<1>3. Request(Coming, made + 1) \in Frames(made + 1)
  BY <1>1, <1>2, RequestIsFrame
<1>4. s \in Piece(made + 1)
  BY <1>3 DEF Piece
<1>5. \A e \in Ends : wire[e] \in Seq(Piece(made + 1))
  BY <1>1, TypesGrow, SeqGrows DEF IInv, TypeOK
<1>6. Append(wire["server"], s) \in Seq(Piece(made + 1))
  BY <1>4, <1>5, AppendProperties DEF Ends
<1>7. wire' = [wire EXCEPT !["server"] = Append(wire["server"], s)]
  BY DEF Send
<1> HIDE DEF s
<1> QED
  BY <1>5, <1>6, <1>7 DEF IInv, TypeOK

\* A further call changes no more than the numbers frames may name.
LEMMA CallStep ==
    ASSUME IInv, Ask \/ Decline \/ SendFails
    PROVE  IInv'
<1>1. made \in Nat /\ made' = made + 1 /\ made' \in 0 .. Len(calls) /\ calls' = calls
  <2>1. calls \in Seq(Call)
    BY ProgramsAssumption, Zenon DEF IInv, TypeOK
  <2> QED
    BY <2>1 DEF IInv, TypeOK, Ask, Decline, SendFails, Ready
<1>2. Coming \in Call
  <2>1. calls \in Seq(Call)
    BY ProgramsAssumption, Zenon DEF IInv, TypeOK
  <2>2. made + 1 \in 1 .. Len(calls)
    BY <1>1, <2>1
  <2> QED
    BY <2>1, <2>2, ElementOfSeq DEF Coming
<1>3. RequestLength(Coming) \in Nat /\ RequestLength(Coming) >= 4
  BY <1>1, <1>2, RequestIsFrame
<1>4. wire \in [Ends -> Seq(Piece(made + 1))]
  BY <1>1, TypesGrow, SeqGrows DEF IInv, TypeOK
<1>5. wire' \in [Ends -> Seq(Piece(made + 1))]
  <2>1. CASE UNCHANGED wire
    BY <1>4, <2>1
  <2>2. CASE \E k \in Cuts(RequestLength(Coming)) \cup {RequestLength(Coming)} : Send(k)
    <3>1. PICK k \in Cuts(RequestLength(Coming)) \cup {RequestLength(Coming)} : Send(k)
      BY <2>2
    <3>2. k \in Nat /\ k > 0
      BY <1>3 DEF Cuts
    <3>3. Ready
      BY DEF Ask, Decline, SendFails
    <3> QED
      BY <3>1, <3>2, <3>3, SendKeepsWire
  <2> QED
    BY <2>1, <2>2 DEF Ask, Decline, SendFails
<1>6. rx' \in [Ends -> Receiver(made + 1)] /\ \A e \in Ends : Reach(rx'[e])
  <2>1. rx \in [Ends -> Receiver(made + 1)] /\ \A e \in Ends : Reach(rx[e])
    BY <1>1, TypesGrow DEF IInv, TypeOK
  <2>2. Fresh \in Receiver(made + 1) /\ Reach(Fresh)
    BY <1>1, FreshIsReceiver
  <2>3. rx' = rx \/ rx' = [rx EXCEPT !["client"] = Fresh]
    BY DEF Ask, Decline, SendFails
  <2> QED
    BY <2>1, <2>2, <2>3
<1>7. result' \in [id: 0 .. made + 1, rc: Int, exc: 0 .. 255, by: Message(made + 1)]
  <2>1. CASE UNCHANGED result
    <3>1. result \in [id: 0 .. made, rc: Int, exc: 0 .. 255, by: Message(made)]
      BY DEF IInv, TypeOK
    <3>2. Message(made) \subseteq Message(made + 1) /\ 0 .. made \subseteq 0 .. made + 1
      BY <1>1, TypesGrow DEF Message
    <3> QED
      BY <2>1, <3>1, <3>2
  <2>2. CASE \E rc \in Int : Gives(rc)
    <3>1. Junk \in Message(made + 1) /\ made + 1 \in 0 .. made + 1
      BY <1>1 DEF Message
    <3>2. PICK rc \in Int : result' = [id |-> made + 1, rc |-> rc, exc |-> 0, by |-> Junk]
      BY <2>2 DEF Gives, Nothing
    <3> QED
      BY <3>1, <3>2
  <2>3. Returned(Coming, 0) \in Int
    BY <1>2, FieldsOfCall DEF Returned
  <2> QED
    BY <2>1, <2>2, <2>3 DEF Ask, Decline, SendFails
<1>8. wrote' \subseteq [id: 1 .. made + 1, cells: [tab: Tabs, from: Nat, n: Nat]]
  BY <1>1 DEF IInv, TypeOK, Ask, Decline, SendFails
<1>9. faults' \in Nat
  BY DEF IInv, TypeOK, Ask, Decline, SendFails
<1>10. calls' \in Programs
  BY <1>1 DEF IInv, TypeOK
<1> QED
  BY <1>1, <1>5, <1>6, <1>7, <1>8, <1>9, <1>10 DEF IInv, TypeOK

\* The call returns; nothing but its result is kept.
LEMMA ReturnStep ==
    ASSUME IInv, Return
    PROVE  IInv'
<1> DEFINE r == rx["client"]
           c == calls[made]
<1>1. made \in Nat /\ Len(calls) \in Nat /\ made \in 0 .. Len(calls)
  <2>1. calls \in Seq(Call)
    BY ProgramsAssumption, Zenon DEF IInv, TypeOK
  <2> QED
    BY <2>1 DEF IInv, TypeOK
<1>2. rx' \in [Ends -> Receiver(made)] /\ \A e \in Ends : Reach(rx'[e])
  BY <1>1, FreshIsReceiver DEF Return, IInv, TypeOK, Ends
<1>3. result' \in [id: 0 .. made, rc: Int, exc: 0 .. 255, by: Message(made)]
  <2>1. CASE Whole(r)
    <3>1. r \in Receiver(made)
      BY DEF IInv, TypeOK, Ends
    <3>2. r.msg \in Frames(made)
      BY <2>1, <3>1 DEF Whole, Receiver, Message
    <3>3. made \in 1 .. Len(calls)
      BY <1>1, <3>2 DEF Frames
    <3>4. c \in Call
      BY <3>3, CallOfFrame DEF IInv
    <3>5. r.msg.bytes \in 0 .. 255 /\ r.msg.qty \in Nat
      BY <3>2 DEF Frames
    <3>6. ExceptionIn(c, r.msg) \in 0 .. 255
      BY <3>5 DEF ExceptionIn
    <3>7. Answered(r.msg) \in Int
      BY <3>5 DEF Answered
    <3>8. Confirmation(c, r.msg) \in Int
      BY <3>7 DEF Confirmation
    <3>9. Returned(c, Confirmation(c, r.msg)) \in Int
      BY <3>4, <3>8, FieldsOfCall DEF Returned
    <3>10. result' = [id |-> made, rc |-> Returned(c, Confirmation(c, r.msg)),
                      exc |-> ExceptionIn(c, r.msg), by |-> r.msg]
      BY <2>1 DEF Return
    <3> HIDE DEF r, c
    <3>11. r.msg \in Message(made)
      BY <3>2 DEF Message
    <3> QED
      BY <1>1, <3>6, <3>9, <3>10, <3>11
  <2>2. CASE ~Whole(r)
    <3>1. result' = [id |-> made, rc |-> -1, exc |-> 0, by |-> Junk]
      BY <2>2 DEF Return, Nothing
    <3>2. Junk \in Message(made)
      BY DEF Message
    <3> QED
      BY <1>1, <3>1, <3>2
  <2> QED
    BY <2>1, <2>2
<1> QED
  BY <1>2, <1>3 DEF Return, IInv, TypeOK

\* The line cuts, damages or loses a piece; the others stay, and none becomes empty.
LEMMA DisturbStep ==
    ASSUME IInv, NEW e \in Ends, Disturb(e)
    PROVE  IInv'
<1>1. PICK i \in 1 .. Len(wire[e]) :
        \/ \E k \in Cuts(wire[e][i].msg.len) :
              /\ wire[e][i].at < k /\ k < wire[e][i].end
              /\ wire' = [wire EXCEPT ![e][i].end = k]
        \/ wire' = [wire EXCEPT ![e][i].intact = FALSE]
        \/ wire' = [wire EXCEPT ![e] = SubSeq(@, 1, i - 1) \o SubSeq(@, i + 1, Len(@))]
  BY DEF Disturb
<1> DEFINE w == wire[e]
           p == w[i]
<1>2. w \in Seq(Piece(made)) /\ wire \in [Ends -> Seq(Piece(made))]
  BY DEF IInv, TypeOK
<1>3. Len(w) \in Nat /\ p \in Piece(made)
  BY <1>2, ElementOfSeq
<1>4. wire' \in [Ends -> Seq(Piece(made))]
  <2>1. ASSUME NEW k \in Cuts(p.msg.len), p.at < k, wire' = [wire EXCEPT ![e][i].end = k]
        PROVE  wire' \in [Ends -> Seq(Piece(made))]
    <3> DEFINE t == [p EXCEPT !.end = k]
    <3>1. k \in Nat
      <4>1. p.msg.len \in Nat /\ p.at \in Nat
        BY <1>3 DEF Piece, Frames
      <4> QED
        BY <2>1, <4>1 DEF Cuts
    <3>2. p \in [msg: Frames(made), at: Nat, end: Nat, intact: BOOLEAN]
      BY <1>3 DEF Piece
    <3>3. t \in [msg: Frames(made), at: Nat, end: Nat, intact: BOOLEAN] /\ t.at < t.end
      BY <2>1, <3>1, <3>2
    <3>4. t \in Piece(made)
      BY <3>3 DEF Piece
    <3>5. [w EXCEPT ![i] = t] \in Seq(Piece(made))
      BY <1>2, <3>4, ExceptSeq
    <3>6. wire' = [wire EXCEPT ![e] = [w EXCEPT ![i] = t]]
      BY <2>1
    <3> HIDE DEF t, w, p
    <3> QED
      BY <1>2, <3>5, <3>6
  <2>2. ASSUME wire' = [wire EXCEPT ![e][i].intact = FALSE]
        PROVE  wire' \in [Ends -> Seq(Piece(made))]
    <3> DEFINE t == [p EXCEPT !.intact = FALSE]
    <3>1. p \in [msg: Frames(made), at: Nat, end: Nat, intact: BOOLEAN] /\ p.at < p.end
      BY <1>3 DEF Piece
    <3>2. t \in [msg: Frames(made), at: Nat, end: Nat, intact: BOOLEAN] /\ t.at < t.end
      BY <3>1
    <3>3. t \in Piece(made)
      BY <3>2 DEF Piece
    <3>4. [w EXCEPT ![i] = t] \in Seq(Piece(made))
      BY <1>2, <3>3, ExceptSeq
    <3>5. wire' = [wire EXCEPT ![e] = [w EXCEPT ![i] = t]]
      BY <2>2
    <3> HIDE DEF t, w, p
    <3> QED
      BY <1>2, <3>4, <3>5
  <2>3. ASSUME wire' = [wire EXCEPT ![e] = SubSeq(@, 1, i - 1) \o SubSeq(@, i + 1, Len(@))]
        PROVE  wire' \in [Ends -> Seq(Piece(made))]
    <3>1. SubSeq(w, 1, i - 1) \in Seq(Piece(made))
      BY <1>2, <1>3, SubSeqProperties
    <3>2. SubSeq(w, i + 1, Len(w)) \in Seq(Piece(made))
      BY <1>2, <1>3, SubSeqProperties
    <3>3. SubSeq(w, 1, i - 1) \o SubSeq(w, i + 1, Len(w)) \in Seq(Piece(made))
      BY <3>1, <3>2, ConcatProperties
    <3> QED
      BY <1>2, <2>3, <3>3
  <2> QED
    BY <1>1, <2>1, <2>2, <2>3
<1>5. faults' \in Nat
  <2>1. faults \in Nat /\ faults > 0 /\ faults' = faults - 1
    BY DEF Disturb, IInv, TypeOK
  <2> QED
    BY <2>1
<1> QED
  BY <1>4, <1>5 DEF Disturb, IInv, TypeOK

\* Nothing has happened yet.
LEMMA InitHolds == Init => IInv
<1> SUFFICES ASSUME Init PROVE IInv
  OBVIOUS
<1>1. made = 0 /\ calls \in Programs /\ calls \in Seq(Call)
  BY ProgramsAssumption, Zenon DEF Init
<1>2. made \in 0 .. Len(calls)
  BY <1>1
<1>3. rx \in [Ends -> Receiver(made)] /\ \A e \in Ends : Reach(rx[e])
  BY <1>1, FreshIsReceiver DEF Init
<1>4. wire \in [Ends -> Seq(Piece(made))]
  BY DEF Init
<1>5. result \in [id: 0 .. made, rc: Int, exc: 0 .. 255, by: Message(made)]
  BY <1>1 DEF Init, Nothing, Message
<1>6. wrote \subseteq [id: 1 .. made, cells: [tab: Tabs, from: Nat, n: Nat]] /\ faults \in Nat
  BY RtuAssumption DEF Init
<1> QED
  BY <1>1, <1>2, <1>3, <1>4, <1>5, <1>6 DEF IInv, TypeOK

\* Every step of the client, the server and the line keeps the invariant.
LEMMA StepHolds == IInv /\ [Next]_vars => IInv'
<1> SUFFICES ASSUME IInv, [Next]_vars PROVE IInv'
  OBVIOUS
<1> USE DEF Ends
<1>1. CASE Ask \/ Decline \/ SendFails
  BY <1>1, CallStep
<1>2. CASE ClientRuns
  BY <1>2, ReadStep, TimeoutStep, ReturnStep DEF ClientRuns
<1>3. CASE ServerRuns
  BY <1>3, ReadStep, TimeoutStep, ServeStep DEF ServerRuns
<1>4. CASE \E e \in Ends : Disturb(e)
  BY <1>4, DisturbStep
<1>5. CASE UNCHANGED vars
  BY <1>5 DEF vars, IInv, TypeOK
<1> QED
  BY <1>1, <1>2, <1>3, <1>4, <1>5 DEF Next

LEMMA AlwaysIInv == Spec => []IInv
BY InitHolds, StepHolds, PTL DEF Spec

----------------------------------------------------------------------------
(* What confirms a call.                                                   *)

\* A frame that the server sent in answer to one of the client's calls.
SentBack(m) == m.id \in 1 .. made /\ m = Reply(calls[m.id], m.id)

\* What confirmed the last call.
Confirmed ==
    LET f == result.by
    IN  /\ SentBack(f) /\ f.id <= result.id
        /\ Confirmation(Last, f) # -1 /\ result.rc = Returned(Last, Confirmation(Last, f))

\* What the client has not read yet, what it is reading and what it has accepted are
\* replies of the server.
RepliesInv ==
    /\ \A k \in 1 .. Len(wire["client"]) : SentBack(wire["client"][k].msg)
    /\ rx["client"].msg # Junk => SentBack(rx["client"].msg)
    /\ result.id # 0 /\ result.rc # -1 /\ result.by # Junk => Confirmed

\* The four fields of a call by the kind of its function, and the tables.
LEMMA CellsAreNat == \A fn : Cells(fn) \in Nat
<1>1. \A fn : TableOf(fn) \in Tabs
  BY DEF TableOf, Tabs
<1> QED
  BY <1>1, RtuAssumption DEF Cells

\* The number of bytes that bits take.
LEMMA BitBytes ==
    ASSUME NEW n \in Nat
    PROVE  BytesFor(n) \in Nat /\ (BytesFor(n) = 0 <=> n = 0) /\ (n <= 2000 => BytesFor(n) <= 250)
BY DEF BytesFor

\* The server serves a call that its tables and the limits allow, and no other.
LEMMA ServedIsLegal ==
    ASSUME NEW c \in Call, ~TooMany(c)
    PROVE  /\ Exception(c) = 0 <=> Legal(c)
           /\ Exception(c) # 0 => Exception(c) = IF Countable(c) THEN 2 ELSE 3
<1>1. /\ c.fn \in {1, 2, 3, 4, 5, 6, 15, 16, 17, 23}
      /\ c.addr \in Nat /\ c.nb \in Nat /\ c.waddr \in Nat /\ c.wnb \in Nat
  BY FieldsOfCall
<1>2. Cells(c.fn) \in Nat
  BY CellsAreNat
<1>3. CASE c.fn \in {1, 2}
  BY <1>1, <1>2, <1>3 DEF TooMany, Exception, Legal, Countable, InTables, Quantity, Limit
<1>4. CASE c.fn \in {3, 4}
  BY <1>1, <1>2, <1>4 DEF TooMany, Exception, Legal, Countable, InTables, Quantity, Limit
<1>5. CASE c.fn \in {5, 6}
  BY <1>1, <1>2, <1>5 DEF TooMany, Exception, Legal, Countable, InTables, Quantity, Limit
<1>6. CASE c.fn \in {15, 16}
  BY <1>1, <1>2, <1>6 DEF TooMany, Exception, Legal, Countable, InTables, Quantity, Limit
<1>7. CASE c.fn = 17
  BY <1>1, <1>2, <1>7 DEF TooMany, Exception, Legal, Countable, InTables, Quantity, Limit
<1>8. CASE c.fn = 23
  BY <1>1, <1>2, <1>8 DEF TooMany, Exception, Legal, Countable, InTables, Quantity, Limit
<1> QED
  BY <1>1, <1>3, <1>4, <1>5, <1>6, <1>7, <1>8

\* A call with more values than the tables of the protocol allow is not served.
LEMMA ServedIsFew ==
    ASSUME NEW c \in Call, Exception(c) = 0
    PROVE  ~TooMany(c) /\ Legal(c)
<1>1. /\ c.fn \in {1, 2, 3, 4, 5, 6, 15, 16, 17, 23}
      /\ c.addr \in Nat /\ c.nb \in Nat /\ c.waddr \in Nat /\ c.wnb \in Nat
  BY FieldsOfCall
<1>2. ~TooMany(c)
  BY <1>1 DEF TooMany, Exception
<1> QED
  BY <1>2, ServedIsLegal

\* A confirmed call has the function of its reply, whose request was served, and copies no
\* more than the reply's values.
LEMMA ConfirmedFits ==
    ASSUME NEW c \in Call, NEW d \in Call, NEW i, Confirmation(c, Reply(d, i)) # -1
    PROVE  LET f == Reply(d, i)
           IN  /\ f.fn = c.fn /\ d.fn = c.fn /\ Legal(d)
               /\ Copied(c, Returned(c, Confirmation(c, f))) <= f.len - 5
<1> DEFINE f == Reply(d, i)
<1>1. /\ c.fn \in {1, 2, 3, 4, 5, 6, 15, 16, 17, 23} /\ c.nb \in Nat
      /\ d.fn \in {1, 2, 3, 4, 5, 6, 15, 16, 17, 23} /\ d.nb \in Nat
  BY FieldsOfCall
<1>2. /\ f.len = ExpectedLength(c) \/ c.fn = 17
      /\ f.fn = c.fn /\ Asked(c, f) = Answered(f) /\ Confirmation(c, f) = Answered(f)
  BY DEF Confirmation, Fits
<1>3. Exception(d) = 0
  <2>1. Exception(d) # 0 => f.fn = d.fn + 128
    BY DEF Reply
  <2> HIDE DEF f
  <2> QED
    BY <1>1, <1>2, <2>1
<1>4. /\ f.fn = d.fn /\ f.bytes = ReplyBytes(d) % 256
      /\ f.len = IF d.fn \in {5, 6, 15, 16} THEN 8 ELSE 3 + ReplyBytes(d) + 2
  BY <1>3 DEF Reply
<1> HIDE DEF f
<1>5. d.fn = c.fn /\ Legal(d)
  BY <1>2, <1>3, <1>4, ServedIsFew
<1>6. BytesFor(c.nb) \in Nat
  BY <1>1, BitBytes
<1>7. Copied(c, Returned(c, Confirmation(c, f))) <= f.len - 5
  <2>1. CASE c.fn \in {1, 2}
    <3>1. Returned(c, Confirmation(c, f)) = c.nb
      BY <2>1, Confirmation(c, Reply(d, i)) # -1 DEF Returned, f
    <3>2. f.len = 3 + BytesFor(c.nb) + 2
      BY <1>2, <2>1 DEF ExpectedLength
    <3> QED
      BY <1>6, <2>1, <3>1, <3>2 DEF Copied
  <2>2. CASE c.fn \in {3, 4, 23}
    <3>1. Returned(c, Confirmation(c, f)) = c.nb
      BY <1>2, <2>2 DEF Returned, Asked
    <3>2. f.len = 3 + 2 * c.nb + 2
      BY <1>2, <2>2 DEF ExpectedLength
    <3> QED
      BY <1>1, <2>2, <3>1, <3>2 DEF Copied
  <2>3. CASE c.fn = 17
    <3>1. f.bytes = 10 /\ f.len = 15
      BY <1>4, <1>5, <2>3 DEF ReplyBytes
    <3>2. Returned(c, Confirmation(c, f)) = 10
      BY <1>2, <2>3, <3>1 DEF Returned, Asked
    <3> QED
      BY <2>3, <3>1, <3>2 DEF Copied
  <2>4. CASE c.fn \in {5, 6, 15, 16}
    BY <1>4, <1>5, <2>4 DEF Copied
  <2> QED
    BY <1>1, <2>1, <2>2, <2>3, <2>4
<1> QED
  BY <1>2, <1>5, <1>7 DEF f

\* The message goes on being the same.
LEMMA StepKeepsMessage ==
    ASSUME NEW n \in Nat, NEW e \in Ends, NEW r \in Receiver(n), NEW s \in NextStep(e, r)
    PROVE  s.msg = r.msg /\ s.got = r.got
<1>1. ASSUME NEW q \in Receiver(n), NEW t \in AfterMeta(e, q) PROVE t.msg = q.msg /\ t.got = q.got
  BY <1>1 DEF AfterMeta, Receiver
<1>2. ASSUME NEW q \in Receiver(n), NEW t \in AfterFunction(e, q) PROVE t.msg = q.msg /\ t.got = q.got
  <2>1. PICK f \in ByteOf(q, q.msg.fn) :
           t \in IF MetaLength(e, f) = 0
                 THEN AfterMeta(e, [q EXCEPT !.fn = f])
                 ELSE {[[q EXCEPT !.fn = f] EXCEPT !.step = "meta", !.want = MetaLength(e, f)]}
    BY <1>2 DEF AfterFunction
  <2> DEFINE u == [q EXCEPT !.fn = f]
  <2>2. f \in 0 .. 255
    BY BytesAreBytes
  <2>3. u \in Receiver(n) /\ u.msg = q.msg /\ u.got = q.got
    BY <2>2 DEF Receiver
  <2>4. CASE MetaLength(e, f) = 0
    BY <1>1, <2>1, <2>3, <2>4
  <2>5. CASE MetaLength(e, f) # 0
    BY <2>1, <2>3, <2>5 DEF Receiver
  <2> QED
    BY <2>4, <2>5
<1> QED
  BY <1>1, <1>2 DEF NextStep, Receiver

----------------------------------------------------------------------------
(* The client reads replies of the server. *)

\* What a frame of the server was, it stays, whatever further calls are made.
LEMMA SentStaysSent ==
    ASSUME NEW m, made \in Nat, made' \in Nat, made' >= made, calls' = calls, SentBack(m)
    PROVE  SentBack(m)'
<1>1. m.id \in 1 .. made'
  BY DEF SentBack
<1> QED
  BY <1>1 DEF SentBack

\* Parts of RepliesInv: the wire, and the message that is being read.
WireSent    == \A k \in 1 .. Len(wire["client"]) : SentBack(wire["client"][k].msg)
MessageSent == rx["client"].msg # Junk => SentBack(rx["client"].msg)
ResultSent  == result.id # 0 /\ result.rc # -1 /\ result.by # Junk => Confirmed

\* The number of calls, and the type of what the ends hold.
LEMMA CallsAndWires ==
    ASSUME IInv
    PROVE  /\ made \in Nat /\ Len(calls) \in Nat /\ made <= Len(calls)
           /\ calls \in Seq(Call)
           /\ \A e \in Ends : wire[e] \in Seq(Piece(made)) /\ rx[e] \in Receiver(made)
           /\ rx \in [Ends -> Receiver(made)] /\ wire \in [Ends -> Seq(Piece(made))]
<1>1. calls \in Seq(Call)
  BY ProgramsAssumption, Zenon DEF IInv, TypeOK
<1>2. Len(calls) \in Nat
  BY <1>1
<1> QED
  BY <1>1, <1>2 DEF IInv, TypeOK

\* The client reads replies only.
LEMMA ReadKeepsReplies ==
    ASSUME IInv, RepliesInv, NEW e \in Ends, Read(e)
    PROVE  RepliesInv'
<1>1. PICK n \in Nat : \E s \in IF Taken(e, n).want = 0 THEN NextStep(e, Taken(e, n))
                                ELSE {Taken(e, n)} :
              /\ 0 < n /\ n <= wire[e][1].end - wire[e][1].at /\ n <= rx[e].want
              /\ Taken(e, n) \in Receiver(made)
              /\ rx' = [rx EXCEPT ![e] = s]
              /\ wire' = [wire EXCEPT ![e] =
                    IF n = wire[e][1].end - wire[e][1].at THEN Tail(wire[e])
                    ELSE <<[wire[e][1] EXCEPT !.at = wire[e][1].at + n]>> \o Tail(wire[e])]
  BY ReadTakes
<1>2. PICK s \in IF Taken(e, n).want = 0 THEN NextStep(e, Taken(e, n)) ELSE {Taken(e, n)} :
              rx' = [rx EXCEPT ![e] = s]
  BY <1>1
<1>3. /\ made \in Nat /\ wire[e] \in Seq(Piece(made)) /\ rx[e] \in Receiver(made)
      /\ rx \in [Ends -> Receiver(made)] /\ wire \in [Ends -> Seq(Piece(made))]
      /\ wire[e] # <<>>
  BY CallsAndWires DEF Read
<1>4. calls' = calls /\ made' = made /\ result' = result
  BY DEF Read
<1>5. \A m : SentBack(m) => SentBack(m)'
  BY <1>4 DEF SentBack
<1>6. ResultSent'
  BY <1>4, <1>5 DEF RepliesInv, ResultSent, Confirmed, Last
<1>7. WireSent' /\ MessageSent'
  <2>1. CASE e # "client"
    <3>1. wire'["client"] = wire["client"] /\ rx'["client"] = rx["client"]
      BY <1>1, <1>2, <1>3, <2>1 DEF Ends
    <3> QED
      BY <1>5, <3>1 DEF RepliesInv, WireSent, MessageSent
  <2>2. CASE e = "client"
    <3> DEFINE w == wire[e]
               p == w[1]
               t == [p EXCEPT !.at = p.at + n]
    <3>1. Len(w) \in Nat /\ Len(w) > 0 /\ p \in Piece(made) /\ Tail(w) \in Seq(Piece(made))
          /\ Len(Tail(w)) = Len(w) - 1
          /\ \A k \in 1 .. Len(Tail(w)) : Tail(w)[k] = w[k + 1]
      BY <1>3, HeadTailProperties
    <3>2. \A k \in 1 .. Len(w) : SentBack(w[k].msg)
      BY <2>2 DEF RepliesInv
    <3>3. t.msg = p.msg
      BY <3>1 DEF Piece
    <3>4. SentBack(p.msg)
      BY <3>1, <3>2
    <3>5. wire'[e] = Tail(w) \/ wire'[e] = <<t>> \o Tail(w)
      BY <1>1, <1>3
    <3>6. \A k \in 1 .. Len(wire'[e]) : SentBack(wire'[e][k].msg)
      <4>1. CASE wire'[e] = Tail(w)
        <5> HIDE DEF w
        <5>1. \A k \in 1 .. Len(Tail(w)) : k + 1 \in 1 .. Len(w)
          BY <3>1
        <5> QED
          BY <3>1, <3>2, <4>1, <5>1
      <4>2. CASE wire'[e] = <<t>> \o Tail(w)
        <5> HIDE DEF w, t
        <5>1. Len(<<t>> \o Tail(w)) = Len(w)
              /\ \A k \in 1 .. Len(w) : (<<t>> \o Tail(w))[k] = IF k = 1 THEN t ELSE w[k]
          <6>1. Len(<<t>> \o Tail(w)) = Len(w)
            BY <3>1
          <6>2. \A k \in 1 .. Len(w) : (<<t>> \o Tail(w))[k] = IF k = 1 THEN t ELSE Tail(w)[k - 1]
            BY <3>1
          <6>3. \A k \in 1 .. Len(w) : k # 1 => k - 1 \in 1 .. Len(Tail(w)) /\ (k - 1) + 1 = k
            BY <3>1
          <6> QED
            BY <3>1, <6>1, <6>2, <6>3
        <5> QED
          BY <3>2, <3>3, <3>4, <4>2, <5>1
      <4> QED
        BY <3>5, <4>1, <4>2
    <3>7. s.msg = Taken(e, n).msg
      BY <1>1, <1>2, <1>3, StepKeepsMessage
    <3>8. Taken(e, n).msg \in {p.msg, Junk}
      BY <1>3 DEF Taken, Receiver
    <3>9. rx'[e].msg = s.msg
      BY <1>2, <1>3
    <3> HIDE DEF w, p, t
    <3>10. rx'[e].msg # Junk => SentBack(rx'[e].msg)
      BY <3>4, <3>7, <3>8, <3>9
    <3>11. \A m : SentBack(m)' <=> m.id \in 1 .. made /\ m = Reply(calls[m.id], m.id)
      BY <1>4 DEF SentBack
    <3> QED
      BY <2>2, <3>6, <3>10, <3>11, <1>5 DEF WireSent, MessageSent
  <2> QED
    BY <2>1, <2>2
<1> QED
  BY <1>6, <1>7 DEF RepliesInv, WireSent, MessageSent, ResultSent

\* A timeout leaves the message; the reply of the server is added to those on the line.
LEMMA ServerKeepsReplies ==
    ASSUME IInv, RepliesInv, Serve \/ \E e \in Ends : Timeout(e)
    PROVE  RepliesInv'
<1>1. calls' = calls /\ made' = made /\ result' = result
  BY DEF Serve, Timeout
<1>2. \A m : SentBack(m) => SentBack(m)'
  BY <1>1 DEF SentBack
<1>3. ResultSent'
  BY <1>1, <1>2 DEF RepliesInv, ResultSent, Confirmed, Last
<1>4. /\ made \in Nat /\ wire["client"] \in Seq(Piece(made))
      /\ rx \in [Ends -> Receiver(made)] /\ wire \in [Ends -> Seq(Piece(made))]
  BY CallsAndWires DEF Ends
<1>5. rx'["client"].msg = rx["client"].msg
  BY <1>4 DEF Serve, Timeout, Receiver, Ends
<1>6. MessageSent'
  BY <1>2, <1>5 DEF RepliesInv, MessageSent
<1>7. WireSent'
  <2> DEFINE id == rx["server"].msg.id
             c  == calls[id]
             s  == [msg |-> Reply(c, id), at |-> 0, end |-> Reply(c, id).len, intact |-> TRUE]
             w  == wire["client"]
  <2>1. CASE wire'["client"] = w
    BY <1>2, <2>1 DEF RepliesInv, WireSent
  <2>2. CASE Serve /\ Whole(rx["server"]) /\ wire'["client"] = Append(w, s)
    <3>1. rx["server"] \in Receiver(made)
      BY <1>4 DEF Ends
    <3>2. id \in 1 .. made
      BY <2>2, <3>1 DEF Whole, Receiver, Message, Frames
    <3>3. s.msg = Reply(c, id) /\ s.msg.id = id
      BY DEF Reply
    <3>4. SentBack(s.msg)
      BY <3>2, <3>3 DEF SentBack
    <3>5. \A k \in 1 .. Len(w) : SentBack(w[k].msg)
      BY DEF RepliesInv
    <3>6. Len(Append(w, s)) = Len(w) + 1 /\ Len(w) \in Nat
          /\ \A k \in 1 .. Len(w) + 1 : Append(w, s)[k] = IF k = Len(w) + 1 THEN s ELSE w[k]
      BY <1>4
    <3>7. \A k \in 1 .. Len(w) + 1 : k # Len(w) + 1 => k \in 1 .. Len(w)
      BY <3>6
    <3> HIDE DEF s, w
    <3>8. \A k \in 1 .. Len(wire'["client"]) : SentBack(wire'["client"][k].msg)
      BY <2>2, <3>4, <3>5, <3>6, <3>7
    <3> QED
      BY <1>2, <3>8 DEF WireSent
  <2>3. wire'["client"] = w \/ (Serve /\ Whole(rx["server"]) /\ wire'["client"] = Append(w, s))
    <3>1. CASE Serve
      BY <1>4, <3>1 DEF Serve, Ends
    <3>2. CASE \E e \in Ends : Timeout(e)
      BY <3>2 DEF Timeout
    <3> QED
      BY <3>1, <3>2
  <2> QED
    BY <2>1, <2>2, <2>3
<1> QED
  BY <1>3, <1>6, <1>7 DEF RepliesInv, WireSent, MessageSent, ResultSent

\* A further call waits for replies that have not come, or has returned without one.
LEMMA CallKeepsReplies ==
    ASSUME IInv, RepliesInv, Ask \/ Decline \/ SendFails
    PROVE  RepliesInv'
<1>1. /\ made \in Nat /\ wire \in [Ends -> Seq(Piece(made))] /\ rx \in [Ends -> Receiver(made)]
      /\ made' = made + 1 /\ calls' = calls
  BY CallsAndWires DEF Ask, Decline, SendFails
<1>2. made' \in Nat /\ made' >= made
  BY <1>1
<1>3. \A m : SentBack(m) => SentBack(m)'
  BY <1>1, <1>2, SentStaysSent
<1>4. wire'["client"] = wire["client"]
  BY <1>1 DEF Ask, Decline, SendFails, Send, Ends
<1>5. WireSent'
  BY <1>3, <1>4 DEF RepliesInv, WireSent
<1>6. rx'["client"] = rx["client"] \/ rx'["client"] = Fresh
  BY <1>1 DEF Ask, Decline, SendFails, Ends
<1>7. MessageSent'
  BY <1>3, <1>6 DEF RepliesInv, MessageSent, Fresh
<1>8. result' = result \/ result'.by = Junk
  BY DEF Ask, Decline, SendFails, Gives, Nothing
<1>9. ResultSent'
  BY <1>1, <1>3, <1>8 DEF RepliesInv, ResultSent, Confirmed, Last
<1> QED
  BY <1>5, <1>7, <1>9 DEF RepliesInv, WireSent, MessageSent, ResultSent

\* The call returns what the reply it read confirms.
LEMMA ReturnKeepsReplies ==
    ASSUME IInv, RepliesInv, Return
    PROVE  RepliesInv'
<1> DEFINE c == calls[made]
           f == rx["client"].msg
<1>1. /\ made \in Nat /\ wire \in [Ends -> Seq(Piece(made))] /\ rx \in [Ends -> Receiver(made)]
      /\ made' = made /\ calls' = calls /\ wire' = wire
  BY CallsAndWires DEF Return
<1>2. \A m : SentBack(m) => SentBack(m)'
  BY <1>1 DEF SentBack
<1>3. WireSent'
  BY <1>1, <1>2 DEF RepliesInv, WireSent
<1>4. rx'["client"] = Off /\ Off.msg = Junk
  BY <1>1 DEF Return, Ends, Off, Fresh
<1>5. MessageSent'
  BY <1>4 DEF MessageSent
<1>6. ResultSent'
  <2>1. CASE ~Whole(rx["client"])
    BY <2>1 DEF Return, ResultSent, Nothing
  <2>2. CASE Whole(rx["client"])
    <3>1. result' = [id |-> made, rc |-> Returned(c, Confirmation(c, f)),
                     exc |-> ExceptionIn(c, f), by |-> f]
      BY <2>2 DEF Return
    <3>2. result'.id = made /\ result'.by = f /\ result'.rc = Returned(c, Confirmation(c, f))
      BY <3>1
    <3>3. SentBack(f)
      BY <2>2 DEF RepliesInv, Whole
    <3>4. f.id <= made
      BY <1>1, <3>3 DEF SentBack
    <3>5. result'.rc # -1 => Confirmation(c, f) # -1
      BY <3>2 DEF Returned
    <3> HIDE DEF f
    <3> QED
      BY <1>1, <1>2, <3>2, <3>3, <3>4, <3>5 DEF ResultSent, Confirmed, Last
  <2> QED
    BY <2>1, <2>2
<1> QED
  BY <1>3, <1>5, <1>6 DEF RepliesInv, WireSent, MessageSent, ResultSent

\* The line invents no frame.
LEMMA DisturbKeepsReplies ==
    ASSUME IInv, RepliesInv, NEW e \in Ends, Disturb(e)
    PROVE  RepliesInv'
<1> DEFINE w == wire[e]
<1>1. /\ made \in Nat /\ wire \in [Ends -> Seq(Piece(made))] /\ w \in Seq(Piece(made))
      /\ made' = made /\ calls' = calls /\ rx' = rx /\ result' = result
  BY CallsAndWires DEF Disturb
<1>2. \A m : SentBack(m) <=> SentBack(m)'
  BY <1>1 DEF SentBack
<1>3. MessageSent' /\ ResultSent'
  BY <1>1, <1>2 DEF RepliesInv, MessageSent, ResultSent, Confirmed, Last
<1>4. WireSent'
  <2>1. CASE e # "client"
    <3>1. wire'["client"] = wire["client"]
      BY <1>1, <2>1 DEF Disturb, Ends
    <3> QED
      BY <1>2, <3>1 DEF RepliesInv, WireSent
  <2>2. CASE e = "client"
    <3>1. PICK i \in 1 .. Len(w) :
            \/ \E k \in Cuts(w[i].msg.len) : wire' = [wire EXCEPT ![e][i].end = k]
            \/ wire' = [wire EXCEPT ![e][i].intact = FALSE]
            \/ wire' = [wire EXCEPT ![e] = SubSeq(@, 1, i - 1) \o SubSeq(@, i + 1, Len(@))]
      BY DEF Disturb
    <3>2. Len(w) \in Nat /\ \A k \in 1 .. Len(w) : w[k] \in Piece(made) /\ SentBack(w[k].msg)
      BY <1>1, <2>2, ElementOfSeq DEF RepliesInv
    <3>3. CASE wire'[e] = SubSeq(w, 1, i - 1) \o SubSeq(w, i + 1, Len(w))
      <4> DEFINE v == SubSeq(w, 1, i - 1) \o SubSeq(w, i + 1, Len(w))
      <4>1. Len(v) = Len(w) - 1
            /\ \A k \in 1 .. Len(w) - 1 : v[k] = IF k < i THEN w[k] ELSE w[k + 1]
        <5>1. SubSeq(w, 1, i - 1) \in Seq(Piece(made)) /\ Len(SubSeq(w, 1, i - 1)) = i - 1
              /\ \A k \in 1 .. i - 1 : SubSeq(w, 1, i - 1)[k] = w[k]
          BY <1>1, <3>2
        <5>2. SubSeq(w, i + 1, Len(w)) \in Seq(Piece(made))
              /\ Len(SubSeq(w, i + 1, Len(w))) = Len(w) - i
              /\ \A k \in 1 .. Len(w) - i : SubSeq(w, i + 1, Len(w))[k] = w[i + k]
          BY <1>1, <3>2
        <5> DEFINE a == SubSeq(w, 1, i - 1)
                   b == SubSeq(w, i + 1, Len(w))
        <5>3. a \in Seq(Piece(made)) /\ b \in Seq(Piece(made)) /\ v = a \o b
              /\ Len(a) = i - 1 /\ Len(b) = Len(w) - i
              /\ (\A k \in 1 .. i - 1 : a[k] = w[k])
              /\ \A k \in 1 .. Len(w) - i : b[k] = w[i + k]
          BY <5>1, <5>2
        <5> HIDE DEF a, b, v, w
        <5>4. Len(v) = Len(a) + Len(b)
              /\ \A k \in 1 .. Len(a) + Len(b) :
                    v[k] = IF k <= Len(a) THEN a[k] ELSE b[k - Len(a)]
          BY <5>3, ConcatProperties, Zenon
        <5>5. ASSUME NEW k \in 1 .. Len(w) - 1 PROVE v[k] = IF k < i THEN w[k] ELSE w[k + 1]
          <6>1. k \in 1 .. Len(a) + Len(b) /\ v[k] = IF k <= Len(a) THEN a[k] ELSE b[k - Len(a)]
            BY <3>2, <5>3, <5>4
          <6>2. CASE k < i
            <7>1. k \in 1 .. i - 1 /\ k <= Len(a)
              BY <5>3, <6>2
            <7> QED
              BY <5>3, <6>1, <6>2, <7>1
          <6>3. CASE ~(k < i)
            <7>1. k - Len(a) \in 1 .. Len(w) - i /\ i + (k - Len(a)) = k + 1 /\ ~(k <= Len(a))
              BY <3>2, <5>3, <6>3
            <7> QED
              BY <5>3, <6>1, <6>3, <7>1
          <6> QED
            BY <6>2, <6>3
        <5>6. Len(v) = Len(w) - 1
          BY <3>2, <5>3, <5>4
        <5> QED
          BY <5>5, <5>6
      <4>2. \A k \in 1 .. Len(w) - 1 : k \in 1 .. Len(w) /\ k + 1 \in 1 .. Len(w)
        BY <3>2
      <4> HIDE DEF w, v
      <4>3. wire'[e] = v
        BY <3>3 DEF v
      <4>4. \A k \in 1 .. Len(wire'[e]) : SentBack(wire'[e][k].msg)
        BY <3>2, <4>1, <4>2, <4>3
      <4> QED
        BY <1>2, <2>2, <4>4 DEF WireSent
    <3>4. CASE \E t : t.msg = w[i].msg /\ wire'[e] = [w EXCEPT ![i] = t]
      <4>1. PICK t : t.msg = w[i].msg /\ wire'[e] = [w EXCEPT ![i] = t]
        BY <3>4
      <4>2. Len(wire'[e]) = Len(w) /\ \A k \in 1 .. Len(w) :
              wire'[e][k] = IF k = i THEN t ELSE w[k]
        BY <1>1, <4>1
      <4> HIDE DEF w
      <4>3. \A k \in 1 .. Len(wire'[e]) : SentBack(wire'[e][k].msg)
        BY <3>2, <4>1, <4>2
      <4> QED
        BY <1>2, <2>2, <4>3 DEF WireSent
    <3>5. w[i] \in Piece(made)
      BY <3>2
    <3>6. ASSUME NEW k, wire' = [wire EXCEPT ![e][i].end = k]
          PROVE  \E t : t.msg = w[i].msg /\ wire'[e] = [w EXCEPT ![i] = t]
      <4> DEFINE t == [w[i] EXCEPT !.end = k]
      <4>1. t.msg = w[i].msg
        BY <3>5 DEF Piece
      <4>2. wire'[e] = [w EXCEPT ![i] = t]
        BY <1>1, <3>6
      <4> QED
        BY <4>1, <4>2
    <3>7. ASSUME wire' = [wire EXCEPT ![e][i].intact = FALSE]
          PROVE  \E t : t.msg = w[i].msg /\ wire'[e] = [w EXCEPT ![i] = t]
      <4> DEFINE t == [w[i] EXCEPT !.intact = FALSE]
      <4>1. t.msg = w[i].msg
        BY <3>5 DEF Piece
      <4>2. wire'[e] = [w EXCEPT ![i] = t]
        BY <1>1, <3>7
      <4> QED
        BY <4>1, <4>2
    <3>8. wire' = [wire EXCEPT ![e] = SubSeq(@, 1, i - 1) \o SubSeq(@, i + 1, Len(@))]
            => wire'[e] = SubSeq(w, 1, i - 1) \o SubSeq(w, i + 1, Len(w))
      BY <1>1
    <3> QED
      BY <3>1, <3>3, <3>4, <3>6, <3>7, <3>8
  <2> QED
    BY <2>1, <2>2
<1> QED
  BY <1>3, <1>4 DEF RepliesInv, WireSent, MessageSent, ResultSent

\* Every step keeps the client reading the server's replies.
LEMMA RepliesHold ==
    /\ Init => RepliesInv
    /\ IInv /\ RepliesInv /\ [Next]_vars => RepliesInv'
<1> USE DEF Ends
<1>1. Init => RepliesInv
  BY DEF Init, RepliesInv, Off, Fresh, Nothing
<1>2. ASSUME IInv, RepliesInv, [Next]_vars PROVE RepliesInv'
  <2>1. CASE Ask \/ Decline \/ SendFails
    BY <1>2, <2>1, CallKeepsReplies
  <2>2. CASE ClientRuns
    BY <1>2, <2>2, ReadKeepsReplies, ServerKeepsReplies, ReturnKeepsReplies DEF ClientRuns
  <2>3. CASE ServerRuns
    BY <1>2, <2>3, ReadKeepsReplies, ServerKeepsReplies DEF ServerRuns
  <2>4. CASE \E e \in Ends : Disturb(e)
    BY <1>2, <2>4, DisturbKeepsReplies
  <2>5. CASE UNCHANGED vars
    BY <1>2, <2>5 DEF vars, RepliesInv, SentBack, Confirmed, Last
  <2> QED
    BY <1>2, <2>1, <2>2, <2>3, <2>4, <2>5 DEF Next
<1> QED
  BY <1>1, <1>2

----------------------------------------------------------------------------
(* The course of a call while nothing goes wrong.                          *)

\* The length of frame m is the one that end e works out while m arrives.
Shaped(e, m) ==
    /\ m.len = 2 + MetaLength(e, m.fn) + (IF HasByteCount(e, m.fn) THEN m.bytes ELSE 0) + 2
    /\ m.len <= MaxAdu

\* How far a receiver that reads frame m, and nothing else, may be.
Position(e, r, m) ==
    \/ r.step = "function" /\ r.want > 0 /\ r.got + r.want = 2
    \/ r.step = "meta" /\ r.fn = m.fn /\ r.want > 0 /\ r.got + r.want = 2 + MetaLength(e, m.fn)
    \/ r.step = "data" /\ r.want > 0 /\ r.got + r.want = m.len
    \/ r.step = "done" /\ r.got = m.len

\* The bytes of m from the one at position n on, whole, as the only thing on a wire.
PieceOf(m, n) == [msg |-> m, at |-> n, end |-> m.len, intact |-> TRUE]
RestOf(m, n) == IF n = m.len THEN <<>> ELSE <<PieceOf(m, n)>>

\* Receiver r has read the beginning of m, and the rest of m is what lies before it.
Arriving(e, r, w, m) ==
    /\ r.got > 0 => r.msg = m
    /\ w = RestOf(m, r.got)
    /\ Position(e, r, m)

Heeded(c)  == c.slave \in {ServerSlave, 0}
Written    == {w \in wrote : w.id = made}
Unanswered == [Fresh EXCEPT !.step = "error"]

\* What an undisturbed call comes to.
CountOf(c)      == IF ~(Legal(c) /\ Heeded(c)) THEN -1
                   ELSE IF c.fn = 17 THEN 10 ELSE Quantity(c)
ExceptionOf(c)  == IF Heeded(c) THEN Heard(c) ELSE 0
CellsOf(c, id)  == IF Legal(c) /\ Heeded(c) /\ c.fn \notin {1, 2, 3, 4, 17}
                   THEN {[id |-> id, cells |-> Target(c)]} ELSE {}

\* The four states of an undisturbed line: no call, or one whose request is on its way,
\* whose reply is, or which nobody will answer.
Resting ==
    /\ rx["client"].step = "off" /\ rx["server"] = Fresh /\ wire = [e \in Ends |-> <<>>]
    /\ result.id = made
    /\ made # 0 => /\ result.rc = CountOf(calls[made])
                   /\ result.exc = ExceptionOf(calls[made])
                   /\ Written = CellsOf(calls[made], made)

Requesting ==
    /\ rx["client"] = Fresh /\ wire["client"] = <<>>
    /\ Arriving("server", rx["server"], wire["server"], Request(calls[made], made))
    /\ Written = {}

Replying ==
    /\ rx["server"] = Fresh /\ wire["server"] = <<>>
    /\ Heeded(calls[made])
    /\ Arriving("client", rx["client"], wire["client"], Reply(calls[made], made))
    /\ Written = Writes(calls[made], made)

Unheard ==
    /\ rx["client"] \in {Fresh, Unanswered} /\ rx["server"] = Fresh
    /\ wire = [e \in Ends |-> <<>>]
    /\ ~Heeded(calls[made])
    /\ Written = {}

\* A count was confirmed by the reply to its own call.
OwnReply == result.id # 0 /\ result.rc # -1 /\ result.by # Junk => result.by.id = result.id

Course == \/ Resting
          \/ made # 0 /\ ~TooMany(calls[made]) /\ (Requesting \/ Replying \/ Unheard)

CourseInv ==
    /\ faults <= MaxFaults
    /\ Undisturbed => OwnReply /\ Course

\* The rest of a frame, and what is left of it when more of it has been read.
LEMMA PieceMoves ==
    ASSUME NEW m, NEW a \in Nat, m.len \in Nat
    PROVE  /\ PieceOf(m, a).msg = m /\ PieceOf(m, a).at = a
           /\ PieceOf(m, a).end = m.len /\ PieceOf(m, a).intact
           /\ \A b \in Nat : [PieceOf(m, a) EXCEPT !.at = b] = PieceOf(m, b)
<1>1. /\ PieceOf(m, a).msg = m /\ PieceOf(m, a).at = a
      /\ PieceOf(m, a).end = m.len /\ PieceOf(m, a).intact
  BY DEF PieceOf
<1>2. ASSUME NEW b \in Nat PROVE [PieceOf(m, a) EXCEPT !.at = b] = PieceOf(m, b)
  <2> DEFINE t == [PieceOf(m, a) EXCEPT !.at = b]
             P == [msg: {m}, at: Nat, end: Nat, intact: BOOLEAN]
  <2>1. t \in P /\ PieceOf(m, b) \in P
    BY DEF PieceOf
  <2>2. /\ t.msg = PieceOf(m, b).msg /\ t.at = PieceOf(m, b).at
        /\ t.end = PieceOf(m, b).end /\ t.intact = PieceOf(m, b).intact
    BY DEF PieceOf
  <2> HIDE DEF t
  <2>3. t = PieceOf(m, b)
    BY <2>1, <2>2
  <2> QED
    BY <2>3 DEF t
<1> QED
  BY <1>1, <1>2

\* The frames of the protocol are shaped as the other end expects them.
LEMMA RequestIsShaped ==
    ASSUME NEW c \in Call, ~TooMany(c), NEW i
    PROVE  Shaped("server", Request(c, i))
<1> DEFINE m == Request(c, i)
<1>1. /\ c.fn \in {1, 2, 3, 4, 5, 6, 15, 16, 17, 23}
      /\ c.nb \in Nat /\ c.wnb \in Nat
  BY FieldsOfCall
<1>2. m.fn = c.fn /\ m.bytes = ValueBytes(c) % 256 /\ m.len = RequestLength(c)
  BY DEF Request
<1>3. ValueBytes(c) \in 0 .. 246
  BY <1>1 DEF TooMany, ValueBytes, BytesFor
<1>4. ValueBytes(c) % 256 = ValueBytes(c)
  BY <1>3
<1>5. RequestLength(c) = 2 + MetaLength("server", c.fn)
                           + (IF HasByteCount("server", c.fn) THEN ValueBytes(c) ELSE 0) + 2
  BY <1>1, <1>3 DEF RequestLength, MetaLength, HasByteCount
<1>6. RequestLength(c) <= 257 - 1
  BY <1>1, <1>3 DEF RequestLength, TooMany, ValueBytes, BytesFor
<1> HIDE DEF m
<1> QED
  BY <1>2, <1>4, <1>5, <1>6 DEF Shaped, MaxAdu, m

LEMMA ReplyIsShaped ==
    ASSUME NEW c \in Call, NEW i
    PROVE  Shaped("client", Reply(c, i))
<1> DEFINE m == Reply(c, i)
<1>1. c.fn \in {1, 2, 3, 4, 5, 6, 15, 16, 17, 23} /\ c.nb \in Nat
  BY FieldsOfCall
<1>2. CASE Exception(c) # 0
  <2>1. m.fn = c.fn + 128 /\ m.len = 5
    BY <1>2 DEF Reply
  <2> HIDE DEF m
  <2>2. MetaLength("client", m.fn) = 1 /\ ~HasByteCount("client", m.fn)
    BY <1>1, <2>1 DEF MetaLength, HasByteCount
  <2> QED
    BY <2>1, <2>2 DEF Shaped, MaxAdu, m
<1>3. CASE Exception(c) = 0
  <2>1. m.fn = c.fn /\ m.bytes = ReplyBytes(c) % 256
        /\ m.len = IF c.fn \in {5, 6, 15, 16} THEN 8 ELSE 3 + ReplyBytes(c) + 2
    BY <1>3 DEF Reply
  <2>2. ReplyBytes(c) \in 0 .. 250
    <3>1. ~TooMany(c) /\ BytesFor(c.nb) \in Nat /\ (c.nb <= 2000 => BytesFor(c.nb) <= 250)
      BY <1>1, <1>3, ServedIsFew, BitBytes
    <3> QED
      BY <1>1, <3>1 DEF TooMany, ReplyBytes
  <2>3. m.bytes = ReplyBytes(c)
    BY <2>1, <2>2
  <2> HIDE DEF m
  <2>4. m.len = 2 + MetaLength("client", m.fn)
                  + (IF HasByteCount("client", m.fn) THEN m.bytes ELSE 0) + 2
    BY <1>1, <2>1, <2>2, <2>3 DEF MetaLength, HasByteCount
  <2>5. m.len <= 256
    BY <2>1, <2>2
  <2> QED
    BY <2>4, <2>5 DEF Shaped, MaxAdu, m
<1> QED
  BY <1>2, <1>3

\* A frame that is shaped is longer than its function code, and its parts are numbers.
LEMMA ShapedFrame ==
    ASSUME NEW n \in Nat, NEW e \in Ends, NEW m \in Frames(n), Shaped(e, m)
    PROVE  /\ MetaLength(e, m.fn) \in Nat /\ m.bytes \in 0 .. 255 /\ m.fn \in 0 .. 255
           /\ m.len \in Nat /\ 2 + MetaLength(e, m.fn) + 2 <= m.len /\ m.len <= MaxAdu
           /\ m # Junk
<1>1. m.fn \in 0 .. 255 /\ m.bytes \in 0 .. 255 /\ m.len \in Nat /\ m.id \in 1 .. n
  BY DEF Frames
<1>2. MetaLength(e, m.fn) \in Nat
  BY <1>1 DEF MetaLength
<1>3. m # Junk
  BY <1>1 DEF Junk
<1> QED
  BY <1>1, <1>2, <1>3 DEF Shaped

\* All that was asked for has arrived: the receiver goes on to the next part of m.
LEMMA PositionGoesOn ==
    ASSUME NEW n \in Nat, NEW e \in Ends, NEW m \in Frames(n), Shaped(e, m),
           NEW q \in Receiver(n), q.msg = m, q.want = 0,
           \/ q.step = "function" /\ q.got = 2
           \/ q.step = "meta" /\ q.fn = m.fn /\ q.got = 2 + MetaLength(e, m.fn)
           \/ q.step = "data" /\ q.got = m.len,
           NEW s \in NextStep(e, q)
    PROVE  Position(e, s, m) /\ s.msg = m /\ s.got = q.got
<1>1. /\ MetaLength(e, m.fn) \in Nat /\ m.bytes \in 0 .. 255 /\ m.fn \in 0 .. 255
      /\ m.len \in Nat /\ 2 + MetaLength(e, m.fn) + 2 <= m.len /\ m.len <= MaxAdu
      /\ m # Junk
  BY ShapedFrame
<1>2. s.msg = m /\ s.got = q.got
  BY StepKeepsMessage
<1>3. ASSUME NEW u \in Receiver(n), u.msg = m, u.fn = m.fn, u.got = 2 + MetaLength(e, m.fn),
             NEW t \in AfterMeta(e, u)
      PROVE  t.step = "data" /\ t.want > 0 /\ t.got + t.want = m.len
  <2>1. DataLengths(e, u) = {(IF HasByteCount(e, m.fn) THEN m.bytes ELSE 0) + 2}
    BY <1>1, <1>3 DEF DataLengths, ByteOf
  <2> DEFINE d == (IF HasByteCount(e, m.fn) THEN m.bytes ELSE 0) + 2
  <2>2. d \in Nat /\ d > 0 /\ u.got + d = m.len
    BY <1>1, <1>3 DEF Shaped
  <2>3. t = [u EXCEPT !.want = d, !.step = IF u.got + d > MaxAdu THEN "error" ELSE "data"]
    BY <1>3, <2>1 DEF AfterMeta
  <2> HIDE DEF d
  <2>4. ~(u.got + d > MaxAdu)
    BY <1>1, <2>2 DEF MaxAdu
  <2>5. t.want = d /\ t.step = "data" /\ t.got = u.got
    BY <2>3, <2>4 DEF Receiver
  <2> QED
    BY <2>2, <2>5
<1>4. CASE q.step = "function" /\ q.got = 2
  <2> DEFINE u == [q EXCEPT !.fn = m.fn]
  <2>1. u \in Receiver(n) /\ u.msg = m /\ u.fn = m.fn /\ u.got = 2
    BY <1>1, <1>4 DEF Receiver
  <2>2. ByteOf(q, q.msg.fn) = {m.fn}
    BY <1>1 DEF ByteOf
  <2>3. s \in IF MetaLength(e, m.fn) = 0 THEN AfterMeta(e, u)
              ELSE {[u EXCEPT !.step = "meta", !.want = MetaLength(e, m.fn)]}
    <3>1. s \in AfterFunction(e, q)
      BY <1>4 DEF NextStep
    <3> QED
      BY <2>2, <3>1 DEF AfterFunction
  <2> HIDE DEF u
  <2>4. CASE MetaLength(e, m.fn) = 0
    <3>1. s \in AfterMeta(e, u) /\ u.got = 2 + MetaLength(e, m.fn)
      BY <2>1, <2>3, <2>4
    <3>2. s.step = "data" /\ s.want > 0 /\ s.got + s.want = m.len
      BY <1>3, <2>1, <3>1
    <3> QED
      BY <1>2, <3>2 DEF Position
  <2>5. CASE MetaLength(e, m.fn) # 0
    <3>1. s.step = "meta" /\ s.want = MetaLength(e, m.fn) /\ s.fn = m.fn /\ s.got = 2
      <4>1. s = [u EXCEPT !.step = "meta", !.want = MetaLength(e, m.fn)]
        BY <2>3, <2>5
      <4> QED
        BY <2>1, <4>1 DEF Receiver
    <3> QED
      BY <1>1, <1>2, <2>5, <3>1 DEF Position
  <2> QED
    BY <2>4, <2>5
<1>5. CASE q.step = "meta" /\ q.fn = m.fn /\ q.got = 2 + MetaLength(e, m.fn)
  <2>1. s \in AfterMeta(e, q)
    BY <1>5 DEF NextStep
  <2>2. s.step = "data" /\ s.want > 0 /\ s.got + s.want = m.len
    BY <1>3, <1>5, <2>1
  <2> QED
    BY <1>2, <2>2 DEF Position
<1>6. CASE q.step = "data" /\ q.got = m.len
  <2>1. s.step = "done" /\ s.got = m.len
    BY <1>6 DEF NextStep, Receiver
  <2> QED
    BY <1>2, <2>1 DEF Position
<1> QED
  BY <1>4, <1>5, <1>6

\* While a frame arrives, either the receiver has all of it, or it reads and there is more.
LEMMA ArrivingReads ==
    ASSUME NEW n \in Nat, NEW e \in Ends, NEW m \in Frames(n), Shaped(e, m),
           NEW r \in Receiver(n), NEW w, Arriving(e, r, w, m)
    PROVE  /\ r.step # "done" => /\ r.step \in {"function", "meta", "data"}
                                 /\ r.got < m.len
                                 /\ w = <<PieceOf(m, r.got)>>
           /\ r.step = "done" => r.got = m.len /\ r.msg = m /\ m # Junk /\ w = <<>>
<1>1. /\ MetaLength(e, m.fn) \in Nat
      /\ m.len \in Nat /\ 2 + MetaLength(e, m.fn) + 2 <= m.len /\ m # Junk
  BY ShapedFrame
<1>2. r.got \in Nat /\ r.want \in Nat
  BY DEF Receiver
<1>3. r.step # "done" => r.step \in {"function", "meta", "data"} /\ r.got < m.len
  BY <1>1, <1>2 DEF Arriving, Position
<1>4. r.step = "done" => r.got = m.len /\ r.msg = m
  BY <1>1, <1>2 DEF Arriving, Position
<1>5. w = RestOf(m, r.got)
  BY DEF Arriving
<1>6. r.got = m.len => w = <<>>
  BY <1>5 DEF RestOf
<1>7. r.got # m.len => w = <<PieceOf(m, r.got)>>
  BY <1>5 DEF RestOf
<1> QED
  BY <1>1, <1>2, <1>3, <1>4, <1>6, <1>7

\* A read of an arriving frame leaves it arriving.
LEMMA ReadKeepsArriving ==
    ASSUME IInv, NEW e \in Ends, Read(e), NEW m \in Frames(made), Shaped(e, m),
           Arriving(e, rx[e], wire[e], m)
    PROVE  Arriving(e, rx'[e], wire'[e], m)
<1> DEFINE r == rx[e]
           p == PieceOf(m, r.got)
<1>1. PICK n \in Nat : \E s \in IF Taken(e, n).want = 0 THEN NextStep(e, Taken(e, n))
                                ELSE {Taken(e, n)} :
              /\ 0 < n /\ n <= wire[e][1].end - wire[e][1].at /\ n <= rx[e].want
              /\ Taken(e, n) \in Receiver(made)
              /\ rx' = [rx EXCEPT ![e] = s]
              /\ wire' = [wire EXCEPT ![e] =
                    IF n = wire[e][1].end - wire[e][1].at THEN Tail(wire[e])
                    ELSE <<[wire[e][1] EXCEPT !.at = wire[e][1].at + n]>> \o Tail(wire[e])]
  BY ReadTakes
<1>2. PICK s \in IF Taken(e, n).want = 0 THEN NextStep(e, Taken(e, n)) ELSE {Taken(e, n)} :
              rx' = [rx EXCEPT ![e] = s]
  BY <1>1
<1>3. /\ made \in Nat /\ r \in Receiver(made)
      /\ rx \in [Ends -> Receiver(made)] /\ wire \in [Ends -> Seq(Piece(made))]
      /\ wire[e] # <<>> /\ Reading(e)
  BY CallsAndWires DEF Read
<1>4. wire[e] = <<p>> /\ r.got < m.len /\ r.step # "done"
  BY <1>3, ArrivingReads DEF Reading
<1>5. r.got \in Nat /\ r.want \in Nat /\ m.len \in Nat /\ MetaLength(e, m.fn) \in Nat
  BY <1>3, ShapedFrame DEF Receiver
<1>6. wire[e][1] = p /\ Tail(wire[e]) = <<>> /\ p.end - p.at = m.len - r.got
  BY <1>4, <1>5, PieceMoves
<1>7. n \in Nat /\ 0 < n /\ n <= m.len - r.got /\ n <= r.want
  BY <1>1, <1>6
<1>8. wire'[e] = RestOf(m, r.got + n)
  <2>1. wire'[e] = IF n = m.len - r.got THEN <<>> ELSE <<[p EXCEPT !.at = p.at + n]>> \o <<>>
    BY <1>1, <1>3, <1>6
  <2>2. [p EXCEPT !.at = p.at + n] = PieceOf(m, r.got + n)
    BY <1>5, <1>7, PieceMoves
  <2>3. \A x : <<x>> \o <<>> = <<x>>
    OBVIOUS
  <2>4. n = m.len - r.got <=> r.got + n = m.len
    BY <1>5, <1>7
  <2> HIDE DEF p, r
  <2> QED
    BY <2>1, <2>2, <2>3, <2>4 DEF RestOf
<1>9. Continues(r, p)
  BY <1>5, PieceMoves DEF Continues, Arriving
<1>10. /\ Taken(e, n).got = r.got + n /\ Taken(e, n).want = r.want - n /\ Taken(e, n).msg = m
       /\ Taken(e, n).step = r.step /\ Taken(e, n).fn = r.fn
  <2>1. Continues(r, wire[e][1]) /\ wire[e][1].msg = m
    BY <1>5, <1>6, <1>9, PieceMoves
  <2> HIDE DEF p
  <2>2. Taken(e, n) = [r EXCEPT !.got = r.got + n, !.want = r.want - n, !.msg = m]
    BY <2>1 DEF Taken
  <2> HIDE DEF r
  <2> QED
    BY <1>3, <2>2 DEF Receiver
<1>11. Taken(e, n) \in Receiver(made)
  BY <1>1
<1>12. rx'[e] = s
  BY <1>2, <1>3
<1> DEFINE q == Taken(e, n)
<1>13. Position(e, r, m)
  BY DEF Arriving
<1> HIDE DEF q, r, p
<1>14. CASE q.want = 0
  <2>1. \/ q.step = "function" /\ q.got = 2
        \/ q.step = "meta" /\ q.fn = m.fn /\ q.got = 2 + MetaLength(e, m.fn)
        \/ q.step = "data" /\ q.got = m.len
    BY <1>4, <1>5, <1>7, <1>10, <1>13, <1>14 DEF Position, q
  <2>2. s \in NextStep(e, q)
    BY <1>2, <1>14 DEF q
  <2>3. Position(e, s, m) /\ s.msg = m /\ s.got = q.got
    BY <1>3, <1>10, <1>11, <1>14, <2>1, <2>2, PositionGoesOn DEF q
  <2> QED
    BY <1>8, <1>10, <1>12, <2>3 DEF Arriving, q
<1>15. CASE q.want # 0
  <2>1. s = q
    BY <1>2, <1>15 DEF q
  <2>2. Position(e, q, m)
    BY <1>4, <1>5, <1>7, <1>10, <1>13, <1>15 DEF Position, q
  <2> QED
    BY <1>8, <1>10, <1>12, <2>1, <2>2 DEF Arriving, q
<1> QED
  BY <1>14, <1>15

\* What the client makes of the reply to its own call, and what the server has written,
\* follow from the call alone.
LEMMA OutcomeOfReply ==
    ASSUME NEW c \in Call, ~TooMany(c), Heeded(c), NEW i
    PROVE  /\ Returned(c, Confirmation(c, Reply(c, i))) = CountOf(c)
           /\ ExceptionIn(c, Reply(c, i)) = ExceptionOf(c)
           /\ Writes(c, i) = CellsOf(c, i)
<1> DEFINE f == Reply(c, i)
<1>1. c.fn \in {1, 2, 3, 4, 5, 6, 15, 16, 17, 23} /\ c.nb \in Nat
  BY FieldsOfCall
<1>2. /\ Exception(c) = 0 <=> Legal(c)
      /\ Exception(c) # 0 => Exception(c) = IF Countable(c) THEN 2 ELSE 3
  BY ServedIsLegal
<1>3. BytesFor(c.nb) \in Nat /\ (BytesFor(c.nb) = 0 <=> c.nb = 0)
      /\ (c.nb <= 2000 => BytesFor(c.nb) <= 250)
  BY <1>1, BitBytes
<1>4. Writes(c, i) = CellsOf(c, i)
  BY <1>1, <1>2 DEF Writes, CellsOf
<1>5. CASE ~Legal(c)
  <2>1. f.fn = c.fn + 128 /\ f.bytes = Exception(c) /\ f.len = 5
    BY <1>2, <1>5 DEF Reply
  <2>2. c.fn # 17
    BY <1>5 DEF Legal
  <2> HIDE DEF f
  <2>3. Confirmation(c, f) = -1
    BY <1>1, <2>1 DEF Confirmation, Fits
  <2>4. Returned(c, Confirmation(c, f)) = CountOf(c)
    BY <1>5, <2>3 DEF Returned, CountOf
  <2>5. ExpectedLength(c) = 5 <=> c.fn \in ReadFns /\ c.nb = 0
    BY <1>1, <1>3 DEF ExpectedLength, ReadFns
  <2>6. ExceptionIn(c, f) = IF c.fn \in ReadFns /\ c.nb = 0 THEN 0 ELSE Exception(c)
    BY <1>1, <2>1, <2>2, <2>5 DEF ExceptionIn
  <2>7. ExceptionIn(c, f) = ExceptionOf(c)
    BY <1>2, <1>5, <2>6 DEF ExceptionOf, Heard
  <2> QED
    BY <1>4, <2>4, <2>7 DEF f
<1>6. CASE Legal(c)
  <2>1. f.fn = c.fn /\ f.bytes = ReplyBytes(c) % 256 /\ f.qty = c.nb
        /\ f.len = IF c.fn \in {5, 6, 15, 16} THEN 8 ELSE 3 + ReplyBytes(c) + 2
    BY <1>2, <1>6 DEF Reply
  <2>2. ReplyBytes(c) \in 0 .. 250
    BY <1>1, <1>3 DEF TooMany, ReplyBytes
  <2>3. f.bytes = ReplyBytes(c)
    BY <2>1, <2>2
  <2> HIDE DEF f
  <2>4. f.len = ExpectedLength(c) \/ c.fn = 17
    BY <1>1, <2>1 DEF ExpectedLength, ReplyBytes
  <2>5. Answered(f) = Asked(c, f)
    BY <1>1, <1>3, <2>1, <2>3 DEF Answered, Asked, ReplyBytes
  <2>6. Confirmation(c, f) = Answered(f) /\ Answered(f) # -1
    <3>1. Confirmation(c, f) = Answered(f)
      BY <2>1, <2>4, <2>5 DEF Confirmation, Fits
    <3>2. Answered(f) \in Nat
      BY <1>1, <2>1, <2>2, <2>3 DEF Answered
    <3> QED
      BY <3>1, <3>2
  <2>7. Returned(c, Confirmation(c, f)) = IF c.fn = 17 THEN 10 ELSE Quantity(c)
    BY <1>1, <2>1, <2>3, <2>5, <2>6 DEF Returned, Asked, Quantity, ReplyBytes
  <2>8. ExceptionIn(c, f) = 0
    BY <2>4 DEF ExceptionIn
  <2>9. CountOf(c) = (IF c.fn = 17 THEN 10 ELSE Quantity(c)) /\ ExceptionOf(c) = 0
    BY <1>6 DEF CountOf, ExceptionOf, Heard
  <2> QED
    BY <1>4, <2>7, <2>8, <2>9 DEF f
<1> QED
  BY <1>5, <1>6

\* A call with too many values comes to nothing.
LEMMA OutcomeOfTooMany ==
    ASSUME NEW c \in Call, TooMany(c), NEW i
    PROVE  CountOf(c) = -1 /\ ExceptionOf(c) = 0 /\ CellsOf(c, i) = {}
<1>1. /\ c.fn \in {1, 2, 3, 4, 5, 6, 15, 16, 17, 23}
      /\ c.nb \in Nat /\ c.wnb \in Nat
  BY FieldsOfCall
<1>2. c.fn # 17 /\ ~Countable(c)
  BY <1>1 DEF TooMany, Countable, Quantity, Limit
<1>3. ~Legal(c)
  BY <1>2 DEF Legal
<1> QED
  BY <1>3 DEF CountOf, ExceptionOf, CellsOf, Heard

\* Nor does one that nobody hears.
LEMMA OutcomeUnheard ==
    ASSUME NEW c \in Call, ~Heeded(c), NEW i
    PROVE  CountOf(c) = -1 /\ ExceptionOf(c) = 0 /\ CellsOf(c, i) = {}
BY DEF CountOf, ExceptionOf, CellsOf

----------------------------------------------------------------------------
(* The steps of an undisturbed call. *)

\* The two frames of the current call.
LEMMA FramesOfCall ==
    ASSUME IInv, made # 0, ~TooMany(calls[made])
    PROVE  /\ made \in Nat /\ calls[made] \in Call
           /\ Request(calls[made], made) \in Frames(made)
           /\ Shaped("server", Request(calls[made], made))
           /\ Reply(calls[made], made) \in Frames(made)
           /\ Shaped("client", Reply(calls[made], made))
<1>1. made \in Nat /\ made \in 1 .. Len(calls) /\ made \in 1 .. made
  BY CallsAndWires DEF IInv, TypeOK
<1>2. calls[made] \in Call
  BY <1>1, CallOfFrame DEF IInv
<1> QED
  BY <1>1, <1>2, RequestIsFrame, ReplyIsFrame, RequestIsShaped, ReplyIsShaped

\* What both ends start with, where it shows.
LEMMA FreshFields ==
    /\ Fresh.step = "function" /\ Fresh.got = 0 /\ Fresh.want = 2 /\ Fresh.msg = Junk
    /\ Unanswered.step = "error" /\ Unanswered.msg = Junk
    /\ Off.step = "off"
BY DEF Fresh, Unanswered, Off

\* Nothing has been read of a frame that has just been sent.
LEMMA SentIsArriving ==
    ASSUME NEW n \in Nat, NEW e \in Ends, NEW m \in Frames(n), Shaped(e, m)
    PROVE  Arriving(e, Fresh, <<[msg |-> m, at |-> 0, end |-> m.len, intact |-> TRUE]>>, m)
<1>1. m.len \in Nat /\ MetaLength(e, m.fn) \in Nat /\ 2 + MetaLength(e, m.fn) + 2 <= m.len
  BY ShapedFrame
<1>2. m.len # 0
  BY <1>1
<1>3. RestOf(m, 0) = <<[msg |-> m, at |-> 0, end |-> m.len, intact |-> TRUE]>>
  BY <1>2, Zenon DEF RestOf, PieceOf
<1>4. Position(e, Fresh, m)
  BY FreshFields DEF Position
<1> QED
  BY <1>3, <1>4, FreshFields DEF Arriving

\* Between calls, only a further call can be made.
LEMMA RestingGoesOn ==
    ASSUME IInv, Resting, OwnReply, Next, faults' >= faults
    PROVE  OwnReply' /\ Course'
<1>1. /\ made \in Nat /\ Len(calls) \in Nat /\ calls \in Seq(Call)
      /\ rx \in [Ends -> Receiver(made)] /\ wire \in [Ends -> Seq(Piece(made))]
      /\ faults \in Nat
  BY CallsAndWires DEF IInv, TypeOK
<1>2. /\ rx["client"].step = "off" /\ rx["server"] = Fresh
      /\ wire["client"] = <<>> /\ wire["server"] = <<>> /\ \A e \in Ends : wire[e] = <<>>
  BY DEF Resting, Ends
<1>3. ~Return /\ ~Serve /\ (\A e \in Ends : ~Read(e) /\ ~Timeout(e))
  <2>1. ~Return /\ ~Serve
    BY <1>2, FreshFields DEF Return, Serve
  <2>2. \A e \in Ends : ~Read(e) /\ ~Timeout(e)
    <3>1. \A e \in Ends : ~Read(e)
      BY <1>2 DEF Read
    <3>2. ~Timeout("client")
      BY <1>2 DEF Timeout, Reading
    <3>3. ~Timeout("server")
      BY <1>2, FreshFields DEF Timeout
    <3> QED
      BY <3>1, <3>2, <3>3 DEF Ends
  <2> QED
    BY <2>1, <2>2
<1>4. ~SendFails /\ \A e \in Ends : ~Disturb(e)
  BY <1>1 DEF SendFails, Disturb
<1>5. Ask \/ Decline
  BY <1>3, <1>4 DEF Next, ClientRuns, ServerRuns, Ends
<1>6. /\ made' = made + 1 /\ calls' = calls /\ wrote' = wrote /\ made' # 0
      /\ calls[made + 1] \in Call /\ Coming = calls[made + 1]
  <2>1. made' = made + 1 /\ calls' = calls /\ wrote' = wrote /\ made < Len(calls)
    BY <1>5 DEF Ask, Decline, Ready
  <2>2. made + 1 \in 1 .. Len(calls) /\ made + 1 # 0
    BY <1>1, <2>1
  <2> QED
    BY <1>1, <2>1, <2>2, ElementOfSeq DEF Coming
<1>7. Written' = {}
  <2>1. \A w \in wrote : w.id \in 1 .. made
    BY DEF IInv, TypeOK
  <2>2. \A w \in wrote : w.id # made + 1
    BY <1>1, <2>1
  <2> QED
    BY <1>6, <2>2 DEF Written
<1>8. CASE Ask
  <2> DEFINE m == Request(calls[made + 1], made + 1)
  <2>1. ~TooMany(calls[made + 1])
    BY <1>6, <1>8 DEF Ask
  <2>2. m \in Frames(made + 1) /\ Shaped("server", m) /\ m.len = RequestLength(Coming)
    <3>1. made + 1 \in Nat /\ made + 1 \in 1 .. made + 1
      BY <1>1
    <3> QED
      BY <1>6, <2>1, <3>1, RequestIsFrame, RequestIsShaped
  <2>3. wire' = [wire EXCEPT !["server"] =
                   Append(wire["server"], [msg |-> m, at |-> 0, end |-> m.len, intact |-> TRUE])]
    BY <1>6, <1>8, <2>2 DEF Ask, Send
  <2>4. rx' = [rx EXCEPT !["client"] = Fresh] /\ result' = result
    BY <1>8 DEF Ask
  <2> HIDE DEF m
  <2>5. rx'["client"] = Fresh /\ rx'["server"] = Fresh /\ wire'["client"] = <<>>
        /\ wire'["server"] = <<[msg |-> m, at |-> 0, end |-> m.len, intact |-> TRUE]>>
    <3>1. \A x : Append(<<>>, x) = <<x>>
      OBVIOUS
    <3>2. rx'["client"] = Fresh /\ rx'["server"] = Fresh /\ wire'["client"] = <<>>
      BY <1>1, <1>2, <2>3, <2>4 DEF Ends
    <3>3. wire'["server"] =
             Append(wire["server"], [msg |-> m, at |-> 0, end |-> m.len, intact |-> TRUE])
      BY <1>1, <2>3, Zenon DEF Ends
    <3> QED
      BY <1>2, <3>1, <3>2, <3>3
  <2>6. Arriving("server", rx'["server"], wire'["server"], m)
    <3>1. made + 1 \in Nat /\ "server" \in Ends
      BY <1>1 DEF Ends
    <3> QED
      BY <2>2, <2>5, <3>1, SentIsArriving
  <2>7. Requesting'
    BY <1>6, <1>7, <2>5, <2>6 DEF Requesting, m
  <2>8. OwnReply'
    BY <2>4 DEF OwnReply
  <2> QED
    BY <1>6, <2>1, <2>7, <2>8 DEF Course
<1>9. CASE Decline
  <2>1. result' = [id |-> made + 1, rc |-> -1, exc |-> 0, by |-> Junk]
        /\ rx' = rx /\ wire' = wire /\ TooMany(calls[made + 1])
    BY <1>6, <1>9 DEF Decline, Gives, Nothing
  <2>2. CountOf(calls[made + 1]) = -1 /\ ExceptionOf(calls[made + 1]) = 0
        /\ CellsOf(calls[made + 1], made + 1) = {}
    BY <1>6, <2>1, OutcomeOfTooMany
  <2>3. Resting'
    BY <1>6, <1>7, <2>1, <2>2 DEF Resting
  <2>4. OwnReply'
    BY <2>1 DEF OwnReply
  <2> QED
    BY <2>3, <2>4 DEF Course
<1> QED
  BY <1>5, <1>8, <1>9

\* While the request is on its way, the server reads it, and then answers it or not.
LEMMA RequestingGoesOn ==
    ASSUME IInv, made # 0, ~TooMany(calls[made]), Requesting, OwnReply, Next, faults' >= faults
    PROVE  OwnReply' /\ Course'
<1> DEFINE c == calls[made]
           m == Request(c, made)
           r == rx["server"]
<1>1. /\ made \in Nat /\ "server" \in Ends /\ "client" \in Ends
      /\ rx \in [Ends -> Receiver(made)] /\ wire \in [Ends -> Seq(Piece(made))]
      /\ r \in Receiver(made) /\ faults \in Nat
  BY CallsAndWires DEF IInv, TypeOK, Ends
<1>2. c \in Call /\ m \in Frames(made) /\ Shaped("server", m) /\ m.id = made
  BY FramesOfCall DEF Request
<1>3. Arriving("server", r, wire["server"], m)
  BY DEF Requesting
<1> HIDE DEF m, c
<1>4. /\ r.step # "done" => r.step \in {"function", "meta", "data"} /\ wire["server"] # <<>>
      /\ r.step = "done" => r.got = m.len /\ r.msg = m /\ m # Junk /\ wire["server"] = <<>>
  <2>1. \A x : <<x>> # <<>>
    OBVIOUS
  <2>2. /\ r.step # "done" => r.step \in {"function", "meta", "data"}
                              /\ wire["server"] = <<PieceOf(m, r.got)>>
        /\ r.step = "done" => r.got = m.len /\ r.msg = m /\ m # Junk /\ wire["server"] = <<>>
    <3> HIDE DEF r
    <3> QED
      BY <1>1, <1>2, <1>3, ArrivingReads
  <2> QED
    BY <2>1, <2>2
<1>5. /\ rx["client"] = Fresh /\ rx["client"].step = "function" /\ wire["client"] = <<>>
      /\ Written = {}
  BY FreshFields DEF Requesting
<1>6. ~Ready /\ ~Return /\ ~Read("client")
  BY <1>5 DEF Ready, Return, Read
<1>7. ~Timeout("client") /\ ~Timeout("server")
  <2>1. Due("client")
    BY <1>4 DEF Due
  <2>2. ~Timeout("client")
    BY <1>1, <2>1 DEF Timeout
  <2>3. Timeout("server") => wire["server"] # <<>>
    BY <1>4 DEF Timeout, Reading
  <2>4. ~Timeout("server")
    BY <1>1, <2>3 DEF Timeout, Due
  <2> QED
    BY <2>2, <2>4
<1>8. ~Ask /\ ~Decline /\ ~SendFails /\ \A e \in Ends : ~Disturb(e)
  BY <1>1, <1>6 DEF Ask, Decline, SendFails, Disturb
<1>9. Read("server") \/ Serve
  BY <1>6, <1>7, <1>8 DEF Next, ClientRuns, ServerRuns
<1>10. calls' = calls /\ made' = made /\ result' = result
  BY <1>9 DEF Read, Serve
<1>11. OwnReply'
  BY <1>10 DEF OwnReply
<1>12. made' # 0 /\ ~TooMany(calls'[made']) /\ calls'[made'] = c
  BY <1>10 DEF c
<1>13. CASE Read("server")
  <2>1. Arriving("server", rx'["server"], wire'["server"], m)
    BY <1>1, <1>2, <1>3, <1>13, ReadKeepsArriving
  <2>2. rx'["client"] = rx["client"] /\ wire'["client"] = wire["client"] /\ wrote' = wrote
    BY <1>1, <1>13 DEF Read, Ends
  <2>3. Written' = {}
    BY <1>5, <1>10, <2>2 DEF Written
  <2>4. Requesting'
    BY <1>5, <1>10, <2>1, <2>2, <2>3 DEF Requesting, m, c
  <2> QED
    BY <1>11, <1>12, <2>4 DEF Course
<1>14. CASE Serve
  <2>1. r.step = "done" /\ r.got = m.len /\ r.msg = m /\ m # Junk /\ wire["server"] = <<>>
    BY <1>4, <1>14 DEF Serve
  <2>2. Whole(r) /\ r.msg.id = made /\ calls[r.msg.id] = c
    BY <1>2, <2>1 DEF Whole, c
  <2>3. rx'["server"] = Fresh /\ rx'["client"] = rx["client"]
    BY <1>1, <1>14 DEF Serve, Ends
  <2>4. CASE Heeded(c)
    <3> DEFINE f == Reply(c, made)
               s == [msg |-> f, at |-> 0, end |-> f.len, intact |-> TRUE]
    <3>1. c.slave \in {ServerSlave, 0}
      BY <2>4 DEF Heeded
    <3>2. wire' = [wire EXCEPT !["client"] = Append(wire["client"], s)]
          /\ wrote' = wrote \cup Writes(c, made)
      BY <1>14, <2>2, <3>1 DEF Serve
    <3>3. f \in Frames(made) /\ Shaped("client", f)
      BY <1>2, FramesOfCall DEF c
    <3> HIDE DEF f, s
    <3>4. \A x : Append(<<>>, x) = <<x>>
      OBVIOUS
    <3>5. wire'["client"] = <<s>> /\ wire'["server"] = wire["server"]
      BY <1>1, <1>5, <3>2, <3>4 DEF Ends
    <3>6. Arriving("client", Fresh, <<s>>, f)
      BY <1>1, <3>3, SentIsArriving DEF s
    <3>7. Written' = Writes(c, made)
      <4>1. \A w \in Writes(c, made) : w.id = made
        BY DEF Writes
      <4> QED
        BY <1>5, <1>10, <3>2, <4>1 DEF Written
    <3>8. Replying'
      BY <1>5, <1>10, <1>12, <2>1, <2>3, <2>4, <3>5, <3>6, <3>7 DEF Replying, f, Heeded
    <3> QED
      BY <1>11, <1>12, <3>8 DEF Course
  <2>5. CASE ~Heeded(c)
    <3>1. wire' = wire /\ wrote' = wrote
      BY <1>14, <2>2, <2>5 DEF Serve, Heeded
    <3>2. Written' = {}
      BY <1>5, <1>10, <3>1 DEF Written
    <3>3. wire' = [e \in Ends |-> <<>>]
      BY <1>1, <1>5, <2>1, <3>1 DEF Ends
    <3>4. Unheard'
      BY <1>5, <1>12, <2>3, <2>5, <3>2, <3>3 DEF Unheard, Heeded
    <3> QED
      BY <1>11, <1>12, <3>4 DEF Course
  <2> QED
    BY <2>4, <2>5
<1> QED
  BY <1>9, <1>13, <1>14

\* While the reply is on its way, the client reads it, and then returns what it says.
LEMMA ReplyingGoesOn ==
    ASSUME IInv, made # 0, ~TooMany(calls[made]), Replying, OwnReply, Next, faults' >= faults
    PROVE  OwnReply' /\ Course'
<1> DEFINE c == calls[made]
           f == Reply(c, made)
           r == rx["client"]
<1>1. /\ made \in Nat /\ "server" \in Ends /\ "client" \in Ends
      /\ rx \in [Ends -> Receiver(made)] /\ wire \in [Ends -> Seq(Piece(made))]
      /\ r \in Receiver(made) /\ faults \in Nat
  BY CallsAndWires DEF IInv, TypeOK, Ends
<1>2. c \in Call /\ f \in Frames(made) /\ Shaped("client", f) /\ f.id = made
  BY FramesOfCall DEF Reply
<1>3. Arriving("client", r, wire["client"], f) /\ Heeded(c) /\ Written = Writes(c, made)
  BY DEF Replying
<1> HIDE DEF f, c
<1>4. /\ r.step # "done" => r.step \in {"function", "meta", "data"} /\ wire["client"] # <<>>
      /\ r.step = "done" => r.got = f.len /\ r.msg = f /\ f # Junk /\ wire["client"] = <<>>
  <2>1. \A x : <<x>> # <<>>
    OBVIOUS
  <2>2. /\ r.step # "done" => r.step \in {"function", "meta", "data"}
                              /\ wire["client"] = <<PieceOf(f, r.got)>>
        /\ r.step = "done" => r.got = f.len /\ r.msg = f /\ f # Junk /\ wire["client"] = <<>>
    <3> HIDE DEF r
    <3> QED
      BY <1>1, <1>2, <1>3, ArrivingReads
  <2> QED
    BY <2>1, <2>2
<1>5. /\ rx["server"] = Fresh /\ rx["server"].step = "function" /\ rx["server"].got = 0
      /\ wire["server"] = <<>>
  BY FreshFields DEF Replying
<1>6. ~Ready /\ ~Serve /\ ~Read("server") /\ ~Timeout("server")
  BY <1>4, <1>5 DEF Ready, Serve, Read, Timeout
<1>7. ~Timeout("client")
  <2>1. Timeout("client") => wire["client"] # <<>>
    BY <1>4 DEF Timeout, Reading
  <2> QED
    BY <1>1, <2>1 DEF Timeout, Due
<1>8. ~Ask /\ ~Decline /\ ~SendFails /\ \A e \in Ends : ~Disturb(e)
  BY <1>1, <1>6 DEF Ask, Decline, SendFails, Disturb
<1>9. Read("client") \/ Return
  BY <1>6, <1>7, <1>8 DEF Next, ClientRuns, ServerRuns
<1>10. calls' = calls /\ made' = made /\ wrote' = wrote
  BY <1>9 DEF Read, Return
<1>11. made' # 0 /\ ~TooMany(calls'[made']) /\ calls'[made'] = c
  BY <1>10 DEF c
<1>12. Written' = Writes(c, made)
  BY <1>3, <1>10 DEF Written
<1>13. CASE Read("client")
  <2>1. Arriving("client", rx'["client"], wire'["client"], f)
    BY <1>1, <1>2, <1>3, <1>13, ReadKeepsArriving
  <2>2. rx'["server"] = rx["server"] /\ wire'["server"] = wire["server"] /\ result' = result
    BY <1>1, <1>13 DEF Read, Ends
  <2>3. Replying'
    BY <1>3, <1>5, <1>10, <1>11, <1>12, <2>1, <2>2 DEF Replying, f, Heeded
  <2>4. OwnReply'
    BY <2>2 DEF OwnReply
  <2> QED
    BY <1>11, <2>3, <2>4 DEF Course
<1>14. CASE Return
  <2>1. r.step = "done" /\ r.got = f.len /\ r.msg = f /\ f # Junk /\ wire["client"] = <<>>
    BY <1>4, <1>14 DEF Return
  <2>2. Whole(r)
    BY <2>1 DEF Whole
  <2>3. result' = [id |-> made, rc |-> Returned(c, Confirmation(c, f)),
                   exc |-> ExceptionIn(c, f), by |-> f]
    BY <1>14, <2>1, <2>2 DEF Return, c
  <2>4. /\ Returned(c, Confirmation(c, f)) = CountOf(c)
        /\ ExceptionIn(c, f) = ExceptionOf(c)
        /\ Writes(c, made) = CellsOf(c, made)
    BY <1>2, <1>3, OutcomeOfReply DEF f, c
  <2>5. result'.id = made /\ result'.rc = CountOf(c) /\ result'.exc = ExceptionOf(c)
        /\ result'.by = f
    BY <2>3, <2>4
  <2>6. rx'["client"].step = "off" /\ rx'["server"] = rx["server"] /\ wire' = wire
    BY <1>1, <1>14, FreshFields DEF Return, Ends
  <2>7. wire' = [e \in Ends |-> <<>>]
    BY <1>1, <1>5, <2>1, <2>6 DEF Ends
  <2>8. Resting'
    BY <1>5, <1>10, <1>11, <1>12, <2>4, <2>5, <2>6, <2>7 DEF Resting
  <2>9. OwnReply'
    BY <1>2, <2>5 DEF OwnReply
  <2> QED
    BY <2>8, <2>9 DEF Course
<1> QED
  BY <1>9, <1>13, <1>14

\* A request for another slave is answered by nobody: the client's timeout ends the call.
LEMMA UnheardGoesOn ==
    ASSUME IInv, made # 0, ~TooMany(calls[made]), Unheard, OwnReply, Next, faults' >= faults
    PROVE  OwnReply' /\ Course'
<1> DEFINE c == calls[made]
<1>1. /\ made \in Nat /\ "server" \in Ends /\ "client" \in Ends
      /\ rx \in [Ends -> Receiver(made)] /\ wire \in [Ends -> Seq(Piece(made))]
      /\ faults \in Nat
  BY CallsAndWires DEF IInv, TypeOK, Ends
<1>2. c \in Call
  BY FramesOfCall
<1>3. /\ rx["client"] \in {Fresh, Unanswered} /\ rx["server"] = Fresh
      /\ \A e \in Ends : wire[e] = <<>>
      /\ ~Heeded(c) /\ Written = {}
  BY DEF Unheard
<1>4. /\ rx["client"].step \in {"function", "error"} /\ rx["client"].msg = Junk
      /\ rx["client"].step = "error" => rx["client"] = Unanswered
      /\ rx["client"].step = "function" => rx["client"] = Fresh
      /\ rx["server"].step = "function" /\ rx["server"].got = 0
  BY <1>3, FreshFields
<1> HIDE DEF c
<1>5. ~Ready /\ ~Serve /\ ~Timeout("server") /\ \A e \in Ends : ~Read(e)
  <2>1. ~Ready /\ ~Serve
    BY <1>4 DEF Ready, Serve
  <2>2. ~Timeout("server")
    BY <1>4 DEF Timeout
  <2>3. \A e \in Ends : ~Read(e)
    BY <1>3 DEF Read
  <2> QED
    BY <2>1, <2>2, <2>3
<1>6. ~Ask /\ ~Decline /\ ~SendFails /\ \A e \in Ends : ~Disturb(e)
  BY <1>1, <1>5 DEF Ask, Decline, SendFails, Disturb
<1>7. Timeout("client") \/ Return
  BY <1>1, <1>5, <1>6 DEF Next, ClientRuns, ServerRuns
<1>8. calls' = calls /\ made' = made /\ wrote' = wrote /\ wire' = wire
  BY <1>7 DEF Timeout, Return
<1>9. made' # 0 /\ ~TooMany(calls'[made']) /\ calls'[made'] = c
  BY <1>8 DEF c
<1>10. Written' = {} /\ wire' = [e \in Ends |-> <<>>]
  BY <1>3, <1>8 DEF Written, Unheard
<1>11. CASE Timeout("client")
  <2>1. rx' = [rx EXCEPT !["client"].step = "error"] /\ rx["client"] = Fresh /\ result' = result
    BY <1>4, <1>11 DEF Timeout, Reading
  <2>2. rx'["client"] = Unanswered /\ rx'["server"] = rx["server"]
    BY <1>1, <2>1 DEF Unanswered, Ends
  <2>3. Unheard'
    BY <1>3, <1>9, <1>10, <2>2 DEF Unheard, Heeded
  <2>4. OwnReply'
    BY <2>1 DEF OwnReply
  <2> QED
    BY <1>9, <2>3, <2>4 DEF Course
<1>12. CASE Return
  <2>1. ~Whole(rx["client"])
    BY <1>4 DEF Whole
  <2>2. result' = [id |-> made, rc |-> -1, exc |-> 0, by |-> Junk]
    BY <1>12, <2>1 DEF Return, Nothing
  <2>3. CountOf(c) = -1 /\ ExceptionOf(c) = 0 /\ CellsOf(c, made) = {}
    BY <1>2, <1>3, OutcomeUnheard
  <2>4. rx'["client"].step = "off" /\ rx'["server"] = rx["server"]
    BY <1>1, <1>12, FreshFields DEF Return, Ends
  <2>5. Resting'
    BY <1>3, <1>8, <1>9, <1>10, <2>2, <2>3, <2>4 DEF Resting
  <2>6. OwnReply'
    BY <2>2 DEF OwnReply
  <2> QED
    BY <2>5, <2>6 DEF Course
<1> QED
  BY <1>7, <1>11, <1>12

\* The number of things that may go wrong is never less than what is left of it.
LEMMA FaultsFall ==
    ASSUME IInv, [Next]_vars
    PROVE  faults' <= faults
<1>1. faults \in Nat
  BY DEF IInv, TypeOK
<1>2. faults' \in {faults, faults - 1}
  <2>1. CASE Ask \/ Decline \/ SendFails
    BY <2>1 DEF Ask, Decline, SendFails
  <2>2. CASE ClientRuns \/ ServerRuns
    BY <2>2 DEF ClientRuns, ServerRuns, Read, Timeout, Serve, Return
  <2>3. CASE \E e \in Ends : Disturb(e)
    BY <2>3 DEF Disturb
  <2>4. CASE UNCHANGED vars
    BY <2>4 DEF vars
  <2> QED
    BY <2>1, <2>2, <2>3, <2>4 DEF Next
<1> QED
  BY <1>1, <1>2

\* While nothing goes wrong, a call takes its course.
LEMMA CourseHolds ==
    /\ Init => CourseInv
    /\ IInv /\ CourseInv /\ [Next]_vars => CourseInv'
<1>1. ASSUME Init PROVE CourseInv
  <2>1. faults = MaxFaults /\ MaxFaults \in Nat
    BY <1>1, RtuAssumption DEF Init
  <2>2. OwnReply
    BY <1>1 DEF Init, OwnReply, Nothing
  <2>3. rx["client"] = Off /\ rx["server"] = Fresh
    BY <1>1 DEF Init, Ends
  <2>4. Resting
    BY <1>1, <2>3, FreshFields DEF Init, Resting, Nothing
  <2> QED
    BY <2>1, <2>2, <2>4 DEF CourseInv, Course
<1>2. ASSUME IInv, CourseInv, [Next]_vars PROVE CourseInv'
  <2>1. faults \in Nat /\ faults' <= faults /\ faults <= MaxFaults /\ MaxFaults \in Nat
    BY <1>2, FaultsFall, RtuAssumption DEF IInv, TypeOK, CourseInv
  <2>2. faults' \in Nat
    BY <1>2, StepHolds DEF IInv, TypeOK
  <2>3. faults' <= MaxFaults
    BY <2>1, <2>2
  <2>4. ASSUME Undisturbed' PROVE OwnReply' /\ Course'
    <3>1. faults' = MaxFaults
      BY <2>4 DEF Undisturbed
    <3>2. faults = MaxFaults /\ faults' >= faults
      BY <2>1, <2>2, <3>1
    <3>3. OwnReply /\ Course
      BY <1>2, <3>2 DEF CourseInv, Undisturbed
    <3>4. CASE UNCHANGED vars
      BY <3>3, <3>4 DEF vars, OwnReply, Course, Resting, Requesting, Replying, Unheard, Written
    <3>5. CASE Next
      BY <1>2, <3>2, <3>3, <3>5, RestingGoesOn, RequestingGoesOn, ReplyingGoesOn, UnheardGoesOn
         DEF Course
    <3> QED
      BY <1>2, <3>4, <3>5
  <2> QED
    BY <2>3, <2>4 DEF CourseInv
<1> QED
  BY <1>1, <1>2

LEMMA AlwaysReplies == Spec => [](RepliesInv /\ CourseInv)
BY AlwaysIInv, RepliesHold, CourseHolds, PTL DEF Spec

----------------------------------------------------------------------------
(* The theorems. *)

\* Every variable keeps its type, and a frame names a call that was made.
THEOREM TypeCorrect == Spec => []TypeOK
<1>1. IInv => TypeOK
  BY DEF IInv
<1> QED
  BY AlwaysIInv, <1>1, PTL

\* Whatever bytes arrive at either end, in whatever portions, receive_msg never has
\* more in its buffer, and never asks for more, than the largest frame.
THEOREM ReceiveStaysBounded == Spec => []ReceiveBounded
<1>1. IInv => ReceiveBounded
  <2> SUFFICES ASSUME IInv, NEW e \in Ends
               PROVE  /\ rx[e].got <= MaxAdu
                      /\ Reading(e) => rx[e].got + rx[e].want <= MaxAdu
    BY DEF ReceiveBounded
  <2>1. Reach(rx[e]) /\ rx[e] \in Receiver(made)
    BY DEF IInv, TypeOK
  <2>2. rx[e].got \in Nat /\ rx[e].want \in Nat
    BY <2>1 DEF Receiver
  <2> QED
    BY <2>1, <2>2 DEF Reach, Reading, MaxAdu
<1> QED
  BY AlwaysIInv, <1>1, PTL

\* Also with frames cut, damaged or late, a call that returns a count was confirmed by a
\* reply of the server to it or to an earlier call, which the server served, and copies no
\* byte that is not a value of that reply.
THEOREM RepliesAreServed == Spec => []ValuesWereSent
<1>1. IInv /\ RepliesInv /\ CourseInv => ValuesWereSent
  <2> SUFFICES ASSUME IInv, RepliesInv, CourseInv,
                      result.id # 0, result.rc # -1, result.by # Junk
               PROVE  LET f == result.by
                      IN  /\ f.id \in 1 .. result.id
                          /\ f.fn = Last.fn /\ calls[f.id].fn = Last.fn
                          /\ Legal(calls[f.id])
                          /\ Copied(Last, result.rc) <= f.len - 5
                          /\ Undisturbed => f.id = result.id
    BY DEF ValuesWereSent
  <2> DEFINE f == result.by
             d == calls[f.id]
  <2>1. SentBack(f) /\ f.id <= result.id /\ Confirmation(Last, f) # -1
        /\ result.rc = Returned(Last, Confirmation(Last, f))
    BY DEF RepliesInv, Confirmed
  <2>2. made \in Nat /\ Len(calls) \in Nat /\ made <= Len(calls) /\ result.id \in 0 .. made
    BY CallsAndWires DEF IInv, TypeOK
  <2>3. f.id \in 1 .. made /\ f = Reply(d, f.id)
    BY <2>1 DEF SentBack
  <2>4. f.id \in 1 .. result.id /\ f.id \in 1 .. Len(calls) /\ result.id \in 1 .. Len(calls)
    BY <2>1, <2>2, <2>3
  <2>5. Last \in Call /\ d \in Call
    BY <2>4, CallOfFrame DEF Last, IInv
  <2>6. Undisturbed => f.id = result.id
    BY DEF CourseInv, OwnReply
  <2> HIDE DEF d, f
  <2>7. Confirmation(Last, Reply(d, f.id)) # -1
    BY <2>1, <2>3
  <2>8. LET g == Reply(d, f.id)
        IN  /\ g.fn = Last.fn /\ d.fn = Last.fn /\ Legal(d)
            /\ Copied(Last, Returned(Last, Confirmation(Last, g))) <= g.len - 5
    BY <2>5, <2>7, ConfirmedFits
  <2>9. /\ f.fn = Last.fn /\ d.fn = Last.fn /\ Legal(d)
        /\ Copied(Last, result.rc) <= f.len - 5
    BY <2>1, <2>3, <2>8
  <2> QED
    BY <2>4, <2>6, <2>9 DEF f, d
<1> QED
  BY AlwaysIInv, AlwaysReplies, <1>1, PTL

\* On an undisturbed line the two ends agree: a call returns its count exactly if it is
\* allowed and its slave is served, otherwise -1 and the exception that says why; the
\* server has written its cells and no others, and nothing is left on the line.
THEOREM EndsAgree == Spec => []LegalCallsServed
<1>1. IInv /\ CourseInv => LegalCallsServed
  <2> SUFFICES ASSUME IInv, CourseInv, Undisturbed, result.id # 0, result.id = made,
                      rx["client"].step = "off"
               PROVE  LET heard  == Last.slave \in {ServerSlave, 0}
                          served == Legal(Last) /\ heard
                          mine   == {w \in wrote : w.id = result.id}
                      IN  /\ result.rc = IF ~served THEN -1
                                         ELSE IF Last.fn = 17 THEN 10 ELSE Quantity(Last)
                          /\ result.exc = IF heard THEN Heard(Last) ELSE 0
                          /\ mine = IF served /\ Last.fn \notin {1, 2, 3, 4, 17}
                                    THEN {[id |-> result.id, cells |-> Target(Last)]} ELSE {}
                          /\ wire = [e \in Ends |-> <<>>]
                          /\ rx["server"] = Fresh
    BY DEF LegalCallsServed
  <2>1. Course /\ made # 0
    BY DEF CourseInv
  <2>2. ~Requesting /\ ~Unheard
    BY FreshFields DEF Requesting, Unheard
  <2>3. ~(made # 0 /\ ~TooMany(calls[made]) /\ Replying)
    BY DEF Replying, Arriving, Position
  <2>4. Resting
    BY <2>1, <2>2, <2>3 DEF Course
  <2>5. /\ result.rc = CountOf(Last) /\ result.exc = ExceptionOf(Last)
        /\ {w \in wrote : w.id = result.id} = CellsOf(Last, result.id)
        /\ wire = [e \in Ends |-> <<>>] /\ rx["server"] = Fresh
    BY <2>1, <2>4 DEF Resting, Last, Written
  <2> QED
    BY <2>5 DEF CountOf, ExceptionOf, CellsOf, Heeded
<1> QED
  BY AlwaysIInv, AlwaysReplies, <1>1, PTL

=============================================================================
