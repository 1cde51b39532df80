----------------------------- MODULE ModbusRtu -----------------------------
(***************************************************************************)
(* libmodbus on a serial line, byte by byte: the calls of the client, the  *)
(* receiving of a frame whose length is found out while it arrives, and    *)
(* the server that answers, each end with its own context and port.        *)
(*                                                                         *)
(* A frame is a record of the fields that decide its length and its        *)
(* meaning.  The checksum is taken to find every frame that is not one     *)
(* whole, undamaged frame of the other end.  Error recovery is off, as     *)
(* _modbus_init_common leaves it and every caller in the repository.       *)
(***************************************************************************)
EXTENDS Integers, Sequences

CONSTANTS
    Programs,   \* the sequences of calls the client may make
    Tables,     \* number of cells of the server's tables
    Bytes,      \* bound: what a byte may be that is not where it belongs
    MaxFaults   \* bound: frames cut, damaged or late, writes that fall short

ReadFns  == {1, 2, 3, 4, 23}
Tabs     == {"bits", "input_bits", "registers", "input_registers"}
Word     == 0 .. 65535
Slaves   == 0 .. 247
Call     == [fn: {1, 2, 3, 4, 5, 6, 15, 16, 17, 23}, slave: Slaves,
             addr: Word, nb: Word, waddr: Word, wnb: Word]

ASSUME ProgramsAssumption == \A p \in Programs : p \in Seq(Call)

ASSUME RtuAssumption ==
    /\ DOMAIN Tables = Tabs /\ \A t \in Tabs : Tables[t] \in Nat
    /\ Bytes \subseteq 0 .. 255
    /\ MaxFaults \in Nat

Ends == {"client", "server"}
ServerSlave == 1

VARIABLES
    rx,       \* the local variables of receive_msg, at each end
    wire,     \* what each end has not read yet: pieces of frames, in order
    calls,    \* the client's calls; frames name theirs by its place here
    made,     \* how many of them have been made
    result,   \* what it returned, and the frame that confirmed it
    wrote,    \* what the server wrote into its tables, for which call
    faults    \* how many more things may go wrong

vars == <<rx, wire, calls, made, result, wrote, faults>>

----------------------------------------------------------------------------
(* Frames. *)

MaxAdu == 256
Junk == [id |-> 0, fn |-> 0, bytes |-> 0, qty |-> 0, len |-> 0]

BytesFor(bits) == (bits + 7) \div 8

TooMany(c) ==
    \/ c.fn \in {1, 2} /\ c.nb > 2000
    \/ c.fn \in {3, 4, 23} /\ c.nb > 125
    \/ c.fn = 15 /\ c.nb > 1968
    \/ c.fn = 16 /\ c.nb > 123
    \/ c.fn = 23 /\ c.wnb > 121

\* The byte count that precedes the values of a request.
ValueBytes(c) == CASE c.fn = 15 -> BytesFor(c.nb)
                   [] c.fn = 16 -> 2 * c.nb
                   [] c.fn = 23 -> 2 * c.wnb
                   [] OTHER     -> 0

\* Slave, function, address and count; what the function adds; the checksum.
RequestLength(c) == CASE c.fn \in {15, 16} -> 6 + 1 + ValueBytes(c) + 2
                      [] c.fn = 23         -> 6 + 5 + ValueBytes(c) + 2
                      [] c.fn = 17         -> 6 - 4 + 2
                      [] OTHER             -> 6 + 2

Request(c, id) == [id |-> id, fn |-> c.fn, bytes |-> ValueBytes(c) % 256,
                   qty |-> c.nb, len |-> RequestLength(c)]

----------------------------------------------------------------------------
(* Receiving. *)

Fresh == [step |-> "function", got |-> 0, want |-> 2, fn |-> 0, msg |-> Junk]
Off   == [Fresh EXCEPT !.step = "off"]
Reading(e) == rx[e].step \in {"function", "meta", "data"}

\* Mutated form: the byte count of a request is looked for in two functions only.
MetaWithoutReadWrite(e, fn) ==
    IF e = "server"
    THEN CASE fn <= 6        -> 4
           [] fn \in {15, 16} -> 5
           [] OTHER          -> 0
    ELSE IF fn \in {5, 6, 15, 16} THEN 4 ELSE 1

\* What to read after the function code.
MetaLength(e, fn) ==
    IF e = "server"
    THEN CASE fn <= 6         -> 4
           [] fn \in {15, 16} -> 5
           [] fn = 23         -> 9
           [] OTHER           -> 0
    ELSE IF fn \in {5, 6, 15, 16} THEN 4 ELSE 1

HasByteCount(e, fn) == IF e = "server" THEN fn \in {15, 16, 23}
                                       ELSE fn <= 4 \/ fn \in {17, 23}

\* A byte of the message: where it belongs, if the message is one whole frame from
\* its start; any byte otherwise.
ByteOf(r, b) == IF r.msg = Junk THEN Bytes ELSE {b}

DataLengths(e, r) ==
    {n + 2 : n \in IF HasByteCount(e, r.fn) THEN ByteOf(r, r.msg.bytes) ELSE {0}}

\* Mutated form: the limit leaves out what has been received.
AfterMetaShort(e, r) ==
    {[r EXCEPT !.want = d, !.step = IF d > MaxAdu THEN "error" ELSE "data"] :
        d \in DataLengths(e, r)}

AfterMeta(e, r) ==
    {[r EXCEPT !.want = d, !.step = IF r.got + d > MaxAdu THEN "error" ELSE "data"] :
        d \in DataLengths(e, r)}

AfterFunction(e, r) ==
    UNION {LET q == [r EXCEPT !.fn = f]
           IN  IF MetaLength(e, f) = 0
               THEN AfterMeta(e, q)
               ELSE {[q EXCEPT !.step = "meta", !.want = MetaLength(e, f)]} :
              f \in ByteOf(r, r.msg.fn)}

\* All that was asked for has arrived.
NextStep(e, r) == CASE r.step = "function" -> AfterFunction(e, r)
                    [] r.step = "meta"     -> AfterMeta(e, r)
                    [] OTHER               -> {[r EXCEPT !.step = "done"]}

\* The piece goes on where the message is.
Continues(r, p) == /\ p.intact
                   /\ p.at = r.got
                   /\ r.got = 0 \/ r.msg = p.msg

\* Bound: a read finds all it may have, or half of it.
Portions(n) == {n, (n + 1) \div 2}

Read(e) ==
    /\ Reading(e) /\ wire[e] # <<>>
    /\ LET p == Head(wire[e])
           r == rx[e]
           left == p.end - p.at
       IN  \E n \in Portions(IF left < r.want THEN left ELSE r.want) :
              LET q == [r EXCEPT !.got = @ + n, !.want = @ - n,
                                 !.msg = IF Continues(r, p) THEN p.msg ELSE Junk]
              IN  /\ \E s \in IF q.want = 0 THEN NextStep(e, q) ELSE {q} :
                        rx' = [rx EXCEPT ![e] = s]
                  /\ wire' = [wire EXCEPT ![e] =
                        IF n = left THEN Tail(@) ELSE <<[p EXCEPT !.at = @ + n]>> \o Tail(@)]
    /\ UNCHANGED <<calls, made, result, wrote, faults>>

\* Something this end waits for is still to come.
Due(e) == \/ wire[e] # <<>>
          \/ e = "client" /\ (wire["server"] # <<>> \/ rx["server"].step = "done")

\* Mutated form: both ends wait for the first bytes for ever.
TimeoutBetweenBytes(e) ==
    /\ Reading(e)
    /\ rx[e].got > 0
    /\ Due(e) => faults > 0
    /\ faults' = IF Due(e) THEN faults - 1 ELSE faults
    /\ rx' = [rx EXCEPT ![e].step = "error"]
    /\ UNCHANGED <<wire, calls, made, result, wrote>>

\* The server waits for the first bytes for ever, for the others as the client does.
Timeout(e) ==
    /\ Reading(e)
    /\ e = "client" \/ rx[e].got > 0
    /\ Due(e) => faults > 0
    /\ faults' = IF Due(e) THEN faults - 1 ELSE faults
    /\ rx' = [rx EXCEPT ![e].step = "error"]
    /\ UNCHANGED <<wire, calls, made, result, wrote>>

\* check_integrity.
Whole(r) == r.step = "done" /\ r.msg # Junk /\ r.got = r.msg.len

----------------------------------------------------------------------------
(* The server. *)

TableOf(fn) == CASE fn \in {1, 5, 15} -> "bits"
                 [] fn = 2            -> "input_bits"
                 [] fn = 4            -> "input_registers"
                 [] OTHER             -> "registers"
Cells(fn) == Tables[TableOf(fn)]

\* The exception a request is answered with, 0 for none.
Exception(c) ==
    CASE c.fn = 17 -> 0
      [] c.fn \in {5, 6} -> IF c.addr >= Cells(c.fn) THEN 2 ELSE 0
      [] c.fn = 23 ->
            IF c.wnb \notin 1 .. 121 \/ c.nb \notin 1 .. 125 THEN 3
            ELSE IF c.addr + c.nb > Cells(23) \/ c.waddr + c.wnb > Cells(23) THEN 2
            ELSE 0
      [] OTHER ->
            IF c.nb < 1 \/ TooMany(c) THEN 3
            ELSE IF c.addr + c.nb > Cells(c.fn) THEN 2 ELSE 0

ReplyBytes(c) == CASE c.fn \in {1, 2}     -> BytesFor(c.nb)
                   [] c.fn \in {3, 4, 23} -> 2 * c.nb
                   [] c.fn = 17           -> 10
                   [] OTHER               -> 0

Reply(c, id) ==
    IF Exception(c) # 0
    THEN [id |-> id, fn |-> c.fn + 128, bytes |-> Exception(c), qty |-> 0, len |-> 5]
    ELSE [id |-> id, fn |-> c.fn, bytes |-> ReplyBytes(c) % 256, qty |-> c.nb,
          len |-> IF c.fn \in {5, 6, 15, 16} THEN 8 ELSE 3 + ReplyBytes(c) + 2]

Target(c) == [tab |-> TableOf(c.fn),
             from |-> IF c.fn = 23 THEN c.waddr ELSE c.addr,
             n |-> CASE c.fn \in {5, 6} -> 1 [] c.fn = 23 -> c.wnb [] OTHER -> c.nb]

Writes(c, id) ==
    IF c.fn \in {5, 6, 15, 16, 23} /\ Exception(c) = 0
    THEN {[id |-> id, cells |-> Target(c)]}
    ELSE {}

\* modbus_receive has returned; modbus_reply, unless it failed or the request is
\* for another slave.
Serve ==
    /\ rx["server"].step \in {"done", "error"}
    /\ rx' = [rx EXCEPT !["server"] = Fresh]
    /\ LET id == rx["server"].msg.id
           c == calls[id]
       IN  IF Whole(rx["server"]) /\ c.slave \in {ServerSlave, 0}
           THEN /\ wire' = [wire EXCEPT !["client"] =
                      Append(@, [msg |-> Reply(c, id), at |-> 0,
                                 end |-> Reply(c, id).len, intact |-> TRUE])]
                /\ wrote' = wrote \cup Writes(c, id)
           ELSE UNCHANGED <<wire, wrote>>
    /\ UNCHANGED <<calls, made, result, faults>>

----------------------------------------------------------------------------
(* The client. *)

Nothing == [id |-> 0, rc |-> 0, exc |-> 0, by |-> Junk]

\* compute_response_length_from_request; the answer to 17 tells its own length.
ExpectedLength(c) == CASE c.fn \in {1, 2}     -> 3 + BytesFor(c.nb) + 2
                       [] c.fn \in {3, 4, 23} -> 3 + 2 * c.nb + 2
                       [] OTHER               -> 8

\* Mutated form: the function code is taken for granted.
AnyFunction(c, f) == f.len = ExpectedLength(c) \/ c.fn = 17

\* A reply of the right length and function.
Fits(c, f) == (f.len = ExpectedLength(c) \/ c.fn = 17) /\ f.fn = c.fn

Asked(c, f) == CASE c.fn \in {1, 2}             -> BytesFor(c.nb)
                 [] c.fn \in {3, 4, 15, 16, 23} -> c.nb
                 [] c.fn = 17                   -> f.bytes
                 [] OTHER                       -> 1

Answered(f) == CASE f.fn \in {1, 2, 17}  -> f.bytes
                 [] f.fn \in {3, 4, 23}  -> f.bytes \div 2
                 [] f.fn \in {15, 16}    -> f.qty
                 [] OTHER                -> 1

Confirmation(c, f) ==
    IF Fits(c, f) /\ Asked(c, f) = Answered(f) THEN Answered(f) ELSE -1

\* An exception is looked for only if the length is not the expected one.
ExceptionIn(c, f) ==
    IF f.len # ExpectedLength(c) /\ c.fn # 17 /\ f.len = 5 /\ f.fn - 128 = c.fn
    THEN f.bytes ELSE 0

\* The functions that read bits return the number asked for.
Returned(c, rc) == IF c.fn \in {1, 2} /\ rc # -1 THEN c.nb ELSE rc

\* Bound: where a frame or a write is cut.
Cuts(len) == {1, 3, len - 1}

Coming == calls[made + 1]
Ready  == rx["client"].step = "off" /\ made < Len(calls)

Send(k) ==
    wire' = [wire EXCEPT !["server"] =
        Append(@, [msg |-> Request(Coming, made + 1), at |-> 0, end |-> k,
                   intact |-> TRUE])]

Gives(rc) == result' = [Nothing EXCEPT !.id = made + 1, !.rc = rc]

\* The call goes out, and the client waits for its confirmation.
Ask ==
    /\ Ready /\ ~TooMany(Coming)
    /\ made' = made + 1
    /\ Send(RequestLength(Coming))
    /\ rx' = [rx EXCEPT !["client"] = Fresh]
    /\ UNCHANGED <<calls, result, wrote, faults>>

Decline ==
    /\ Ready /\ TooMany(Coming)
    /\ made' = made + 1
    /\ Gives(-1)
    /\ UNCHANGED <<rx, wire, calls, wrote, faults>>

\* WriteFile fails, or its timeout passes before everything is written.  With
\* nothing written the call returns without having waited for a reply.
SendFails ==
    /\ Ready /\ ~TooMany(Coming) /\ faults > 0
    /\ faults' = faults - 1
    /\ made' = made + 1
    /\ \/ Gives(Returned(Coming, 0)) /\ UNCHANGED wire
       \/ Gives(-1) /\ UNCHANGED wire
       \/ Gives(-1) /\ \E k \in Cuts(RequestLength(Coming)) : Send(k)
    /\ UNCHANGED <<rx, calls, wrote>>

Return ==
    /\ rx["client"].step \in {"done", "error"}
    /\ rx' = [rx EXCEPT !["client"] = Off]
    /\ LET c == calls[made]
           f == rx["client"].msg
       IN  result' = IF Whole(rx["client"])
                     THEN [id |-> made, rc |-> Returned(c, Confirmation(c, f)),
                           exc |-> ExceptionIn(c, f), by |-> f]
                     ELSE [Nothing EXCEPT !.id = made, !.rc = -1]
    /\ UNCHANGED <<wire, calls, made, wrote, faults>>

----------------------------------------------------------------------------
(* The line. *)

\* The rest of a frame is lost, or a byte of it is changed.
Disturb(e) ==
    /\ faults > 0
    /\ faults' = faults - 1
    /\ \E i \in 1 .. Len(wire[e]) :
          LET p == wire[e][i]
          IN  \/ \E k \in Cuts(p.msg.len) :
                    /\ p.at < k /\ k < p.end
                    /\ wire' = [wire EXCEPT ![e][i].end = k]
              \/ p.intact /\ wire' = [wire EXCEPT ![e][i].intact = FALSE]
              \/ p.at = 0 /\ wire' = [wire EXCEPT ![e] =
                                SubSeq(@, 1, i - 1) \o SubSeq(@, i + 1, Len(@))]
    /\ UNCHANGED <<rx, calls, made, result, wrote>>

Init ==
    /\ rx = [e \in Ends |-> IF e = "client" THEN Off ELSE Fresh]
    /\ wire = [e \in Ends |-> <<>>]
    /\ calls \in Programs
    /\ made = 0
    /\ result = Nothing
    /\ wrote = {}
    /\ faults = MaxFaults

ClientRuns == Read("client") \/ Timeout("client") \/ Return
ServerRuns == Read("server") \/ Timeout("server") \/ Serve

Next ==
    \/ Ask \/ Decline \/ SendFails
    \/ ClientRuns \/ ServerRuns
    \/ \E e \in Ends : Disturb(e)

\* Both ends' threads run and their timers fire; nobody has to call.
Spec == Init /\ [][Next]_vars /\ WF_vars(ClientRuns) /\ WF_vars(ServerRuns)

----------------------------------------------------------------------------
(* Properties. *)

Steps      == {"off", "function", "meta", "data", "done", "error"}
Frames(n)  == [id: 1 .. n, fn: 0 .. 255, bytes: 0 .. 255, qty: Nat, len: Nat]
Message(n) == Frames(n) \cup {Junk}
Piece(n)   == {p \in [msg: Frames(n), at: Nat, end: Nat, intact: BOOLEAN] : p.at < p.end}
Receiver(n) == [step: Steps, got: Nat, want: Nat, fn: 0 .. 255, msg: Message(n)]

\* Every variable has its type; frames belong to calls made, and pieces of frames
\* are never empty.
TypeOK ==
    /\ rx \in [Ends -> Receiver(made)]
    /\ wire \in [Ends -> Seq(Piece(made))]
    /\ calls \in Programs
    /\ made \in 0 .. Len(calls)
    /\ result \in [id: 0 .. made, rc: Int, exc: 0 .. 255, by: Message(made)]
    /\ wrote \subseteq [id: 1 .. made, cells: [tab: Tabs, from: Nat, n: Nat]]
    /\ faults \in Nat

\* The bound on the frame: whatever bytes arrive, at either end, what has been
\* received and what is asked for fit into the largest frame (modbus.c:432).
ReceiveBounded ==
    \A e \in Ends : /\ rx[e].got <= MaxAdu
                    /\ Reading(e) => rx[e].got + rx[e].want <= MaxAdu

Undisturbed == faults = MaxFaults
Last        == calls[result.id]

\* What the limits of modbus.h:64-82 and the tables allow, from the call alone.
Limit(fn) == CASE fn \in {1, 2} -> 2000 [] fn = 15 -> 1968 [] fn = 16 -> 123
               [] fn \in {5, 6} -> 65535 [] OTHER -> 125
Quantity(c) == IF c.fn \in {5, 6} THEN 1 ELSE c.nb
Countable(c) == /\ Quantity(c) \in 1 .. Limit(c.fn)
                /\ c.fn = 23 => c.wnb \in 1 .. 121
InTables(c)  == /\ c.addr + Quantity(c) <= Cells(c.fn)
                /\ c.fn = 23 => c.waddr + c.wnb <= Cells(23)
Legal(c)     == c.fn = 17 \/ (Countable(c) /\ InTables(c))

\* The exception a caller is to hear of.  A read of no values is refused, but its
\* exception has the length of the reply it expects, and passes for a wrong reply;
\* a call with too many values is declined before it is sent.
Heard(c) == IF Legal(c) \/ TooMany(c) \/ (c.fn \in ReadFns /\ c.nb = 0) THEN 0
            ELSE IF Countable(c) THEN 2 ELSE 3

\* The two ends agree.  On an undisturbed line a call returns its count exactly if
\* its quantities and addresses are allowed and its slave is served, and otherwise
\* -1 and the exception that says why; the server has then written the cells of the
\* call and no others, or none; and nothing is left for the next call to read
\* (modbus_reply, the two computations of a length, and check_confirmation).
LegalCallsServed ==
    (Undisturbed /\ result.id # 0 /\ result.id = made
       /\ rx["client"].step = "off") =>
       LET heard  == Last.slave \in {ServerSlave, 0}
           served == Legal(Last) /\ heard
           mine   == {w \in wrote : w.id = result.id}
       IN  /\ result.rc = IF ~served THEN -1
                          ELSE IF Last.fn = 17 THEN 10 ELSE Quantity(Last)
           /\ result.exc = IF heard THEN Heard(Last) ELSE 0
           /\ mine = IF served /\ Last.fn \notin {1, 2, 3, 4, 17}
                     THEN {[id |-> result.id, cells |-> Target(Last)]} ELSE {}
           /\ wire = [e \in Ends |-> <<>>]
           /\ rx["server"] = Fresh

\* What the caller copies out of a confirmed reply.
Copied(c, rc) == CASE c.fn \in {1, 2}     -> BytesFor(rc)
                   [] c.fn \in {3, 4, 23} -> 2 * rc
                   [] c.fn = 17           -> rc
                   [] OTHER               -> 0

\* Also with frames cut, damaged or late, a call that waited and returns a count
\* was confirmed by a reply of its own function to this call or an earlier one that
\* the server served, and every byte it copies is a value of that reply
\* (read_io_status, read_registers).
ValuesWereSent ==
    (result.id # 0 /\ result.rc # -1 /\ result.by # Junk) =>
       LET f == result.by
       IN  /\ f.id \in 1 .. result.id
           /\ f.fn = Last.fn /\ calls[f.id].fn = Last.fn
           /\ Legal(calls[f.id])
           /\ Copied(Last, result.rc) <= f.len - 5
           /\ Undisturbed => f.id = result.id

\* A call comes back, whatever arrives (receive_msg and its timeouts).
CallsReturn == (rx["client"].step # "off") ~> (rx["client"].step = "off")

=============================================================================
