------------------------------ MODULE McuLine ------------------------------
(***************************************************************************)
(* The serial line between the application and the MCU board, as libmodbus *)
(* drives it: one modbus_t context shared by two threads, the requests on  *)
(* their way to the board, the replies not read yet, and the board itself  *)
(* (angle sensor and coils at slave 1, the two waveforms at slaves 2, 3).  *)
(*                                                                         *)
(* A frame is one record.  Its function code and register count are        *)
(* together its "kind": the only fields of a reply that check_confirmation *)
(* compares.  The board is external code, modelled from how src/ uses it.  *)
(***************************************************************************)
EXTENDS Naturals, Sequences

CONSTANTS
    NSeg,        \* number of segments of a turn (360 in the code)
    MaxStale,    \* bound: unanswered requests a timed out caller leaves behind
    Lossy,       \* may the line lose frames?
    SingleTurn   \* does the motor stop after one turn, or rotate for ever?

ASSUME LineAssumption ==
    /\ NSeg \in Nat /\ NSeg >= 2
    /\ MaxStale \in Nat
    /\ Lossy \in BOOLEAN
    /\ SingleTurn \in BOOLEAN

VARIABLES
    ctxSlave,    \* ctx->slave, the address put into the next request
    bus,         \* requests sent and not handled by the board yet
    rxq,         \* replies in the receive buffer of the port
    late,        \* has a caller ever given up on an answer that was still due?
    deg,         \* the sensor's angle in degrees, angle register / 100
    turning,     \* is the motor rotating?
    coil         \* the board's coils 0x100, 0x101 and 0x102

lineVars == <<ctxSlave, bus, rxq, late, deg, turning, coil>>

----------------------------------------------------------------------------
Segs    == 0 .. NSeg - 1
Coils   == {256, 257, 258}
Slaves  == 1 .. 3
Kinds   == {"angle", "status", "wave", "coil", "preset"}

\* What a request asks for: arg is the segment of a wave, or the coil.  Status and
\* angle with arg 1 are reads of as many registers at another address: the ten
\* parameters at 8192, and register 0x1010.
Request == [kind: Kinds, arg: Nat, val: {0, 1}]
Ask(k, a, v) == [kind |-> k, arg |-> a, val |-> v]

\* Where register values come from.  Zero is a buffer no reply was stored in.
Data == [from: 0 .. 3, kind: {"zero", "foreign", "param"} \cup Kinds, n: Nat]
Zero == [from |-> 0, kind |-> "zero", n |-> 0]

Message == [to: Slaves, req: Request]
Reply   == [kind: Kinds \cup {"exception"}, data: Data]

LineTypeOK ==
    /\ ctxSlave \in Slaves
    /\ bus \in Seq(Message)
    /\ rxq \in Seq(Reply)
    /\ late \in BOOLEAN
    /\ deg \in Segs
    /\ turning \in BOOLEAN
    /\ coil \in [Coils -> {0, 1}]

\* The port is open, initMcuSerialService has selected slave 1 and the motor rests.
LineInit ==
    /\ ctxSlave = 1
    /\ bus = <<>>
    /\ rxq = <<>>
    /\ late = FALSE
    /\ deg = 0
    /\ turning = FALSE
    /\ coil = [c \in Coils |-> 0]

----------------------------------------------------------------------------
(* The library, called by both threads. *)

SetSlave(n) == ctxSlave' = n

\* build_request_basis reads ctx->slave at the time the request is sent.
Send(req) == bus' = Append(bus, [to |-> ctxSlave, req |-> req])

\* Mutated form: any frame confirms, as if the function code were not checked.
ConfirmsAnything(req) == rxq # <<>>

\* A reply confirms a request when function code and count agree: neither the
\* slave nor the register address is compared.
Confirms(req) == rxq # <<>> /\ Head(rxq).kind = req.kind

\* Any other complete frame is consumed and the call returns -1.
Refuses(req) == rxq # <<>> /\ Head(rxq).kind # req.kind

\* The response timeout; nothing is flushed (error recovery is off), so a reply
\* still on its way stays on its way.
TimesOut == rxq = <<>> /\ Len(bus) <= MaxStale

TakesFrame == rxq' = Tail(rxq) /\ UNCHANGED late
GivesUp    == late' = (late \/ bus # <<>>) /\ UNCHANGED rxq

----------------------------------------------------------------------------
(* The board, the line and the motor. *)

Serves(m) == CASE m.req.kind = "wave"  -> m.to \in {2, 3}
               [] m.req.kind = "angle" -> m.to = 1 /\ m.req.arg = 0
               [] OTHER                -> m.to = 1

\* Ten registers at 8192 are parameters, not the status.
Block(req) == IF req.kind = "status" /\ req.arg = 1 THEN "param" ELSE req.kind

Reading(req) == CASE req.kind = "angle" -> deg
                  [] req.kind = "wave"  -> req.arg
                  [] OTHER              -> 0

\* A request for registers a slave has no meaning for is refused, or answered from
\* whatever the slave keeps at the address.
Answers(m) ==
    IF Serves(m)
    THEN {[kind |-> m.req.kind,
           data |-> [from |-> m.to, kind |-> Block(m.req), n |-> Reading(m.req)]]}
    ELSE {[kind |-> "exception", data |-> Zero]}
         \cup {[kind |-> m.req.kind,
                data |-> [from |-> m.to, kind |-> "foreign", n |-> k]] :
                   k \in IF m.req.kind = "angle" THEN Segs ELSE {0}}

CoilsAfter(m) ==
    IF m.req.kind = "coil" /\ m.to = 1
    THEN [coil EXCEPT ![m.req.arg] = m.req.val]
    ELSE coil

Deliver ==
    /\ bus # <<>>
    /\ bus' = Tail(bus)
    /\ coil' = CoilsAfter(Head(bus))
    /\ \E r \in Answers(Head(bus)) : rxq' = Append(rxq, r)
    /\ UNCHANGED <<ctxSlave, late, deg, turning>>

LoseRequest ==
    /\ Lossy /\ bus # <<>>
    /\ bus' = Tail(bus)
    /\ UNCHANGED <<ctxSlave, rxq, late, deg, turning, coil>>

\* The board acts on the request, but its reply is lost or fails the CRC check.
LoseReply ==
    /\ Lossy /\ bus # <<>>
    /\ bus' = Tail(bus)
    /\ coil' = CoilsAfter(Head(bus))
    /\ UNCHANGED <<ctxSlave, rxq, late, deg, turning>>

Rotate ==
    /\ turning
    /\ deg' = IF deg = NSeg - 1 THEN 0 ELSE deg + 1
    /\ turning' = ~(SingleTurn /\ deg' = 0)
    /\ UNCHANGED <<ctxSlave, bus, rxq, late, coil>>

Board == Deliver \/ LoseRequest \/ LoseReply \/ Rotate

=============================================================================
