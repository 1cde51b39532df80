------------------------------ MODULE PlcFrame ------------------------------
(***************************************************************************)
(* The frames of the PLC's protocol, byte by byte: the motor commands, the *)
(* two ways in which the settings dialog builds the frame that writes a    *)
(* parameter, the checksum both ends compare, and the reading of a value   *)
(* out of a reply.                                                         *)
(*                                                                         *)
(* A behaviour is one frame: a command, a parameter written, or a value    *)
(* read.  Bytes are numbers; \hXX is the source's 0xXX.                    *)
(***************************************************************************)
EXTENDS Integers, SequencesExt

CONSTANTS
    Values,     \* what the user types for a parameter, or the motor holds
    Stray       \* bound: bytes that a read past the end of an array may find

\* The greatest int, which is what toInt can read.
MaxInt == 2147483647

ASSUME FrameAssumption ==
    /\ Values \subseteq 0 .. MaxInt
    /\ Stray \subseteq 0 .. 255

VARIABLES
    value,      \* the value to write or to read
    sent,       \* what was sent, or received: "nothing", a command, ...
    frame,      \* its bytes
    shown       \* the number read out of a reply

vars == <<value, sent, frame, shown>>

----------------------------------------------------------------------------
(* Checksum and digits. *)

heToAsciiNum(n) == IF n <= 9 THEN n + \h30 ELSE n + \h37

\* Mutated form: the first checksum digit is summed too.
SumTooLong(b) == FoldLeft(LAMBDA a, x : (a + x) % 256, 0, SubSeq(b, 1, Len(b) - 2))

\* The sum, in a byte, of all but the two checksum digits and 03.
lrcCaculate(b) == FoldLeft(LAMBDA a, x : (a + x) % 256, 0, SubSeq(b, 1, Len(b) - 3))

lrcCheck(b) ==
    /\ b[Len(b) - 2] = heToAsciiNum(lrcCaculate(b) \div 16)
    /\ b[Len(b) - 1] = heToAsciiNum(lrcCaculate(b) % 16)

WithLrc(b) == [b EXCEPT ![Len(b) - 2] = heToAsciiNum(lrcCaculate(b) \div 16),
                        ![Len(b) - 1] = heToAsciiNum(lrcCaculate(b) % 16)]

\* QString::number(v, 16).toUpper(): no leading zeros, one digit for 0.
NDigits(v) == CHOOSE n \in 1 .. 8 : (n = 8 \/ v < 16 ^ n) /\ (n = 1 \/ v >= 16 ^ (n - 1))
HexText(v) == [i \in 1 .. NDigits(v) |->
                  heToAsciiNum((v \div 16 ^ (NDigits(v) - i)) % 16)]

\* The number eight characters stand for: toInt(&ok, 16), 0 if it does not fit or a
\* character is no digit.
DigitOf(c) == CASE c \in \h30 .. \h39 -> c - \h30
                [] c \in \h41 .. \h46 -> c - \h37
                [] OTHER -> -1
ToInt(t) ==
    IF (\E i \in 1 .. Len(t) : DigitOf(t[i]) = -1) \/ DigitOf(t[1]) > 7
    THEN 0
    ELSE FoldLeft(LAMBDA a, c : 16 * a + DigitOf(c), 0, t)

----------------------------------------------------------------------------
(* The commands, as the source spells them: station 01, command, data, LRC. *)

Coil(op, m, hi, lo) ==
    <<\h02, \h30, \h31, \h34, \h32, op, \h4d, \h30, \h30, \h30, m, hi, lo, \h03>>
State(d, hi, lo) ==
    <<\h02, \h30, \h31, \h34, \h34, \h30, \h31>> \o d \o <<hi, lo, \h03>>
Register(r, hi, lo) ==
    <<\h02, \h30, \h31, \h34, \h36, \h30, \h31, \h44, \h52,
      \h30, \h30, \h30, \h30, r, hi, lo, \h03>>

Commands ==
    [C_ENABLE_RELEASE    |-> Coil(\h34, \h30, \h30, \h41),
     C_ENABLE_LOCKED     |-> Coil(\h33, \h30, \h30, \h39),
     C_ROTATE_A          |-> Coil(\h34, \h31, \h30, \h42),
     C_ROTATE_B          |-> Coil(\h33, \h31, \h30, \h41),
     C_ROTATE_ALL_TIME   |-> Coil(\h33, \h32, \h30, \h42),
     C_STOP              |-> Coil(\h34, \h32, \h30, \h43),
     C_READ_STATE_ENABLE |-> State(<<\h59, \h30, \h30, \h30, \h32>>, \h34, \h37),
     C_READ_STATE_ROTATE |-> State(<<\h4d, \h30, \h30, \h31, \h30>>, \h33, \h41),
     C_READ_SPEED        |-> Register(\h30, \h42, \h34),
     C_READ_ANGLE        |-> Register(\h32, \h42, \h36)]

----------------------------------------------------------------------------
(* Writing a parameter. *)

\* The registers of the speed and of the angle.
Registers == {\h30, \h32}

Blank(r, fill) ==
    <<\h02, \h30, \h31, \h34, \h37, \h30, \h31, \h44, \h52,
      \h30, \h30, \h30, \h30, r>> \o fill \o <<0, 0, \h03>>

\* Mutated form: the digits begin one byte too early.
OneToTheLeft(f, t) == [i \in 1 .. Len(f) |->
    IF i \in 22 - Len(t) .. 21 THEN t[i - 21 + Len(t)] ELSE f[i]]

\* memcpy(&array[22 - size], digits, size): array[21] is the last digit.
PutDigits(f, t) == [i \in 1 .. Len(f) |->
    IF i \in 23 - Len(t) .. 22 THEN t[i - 22 + Len(t)] ELSE f[i]]

\* sendArrayConfig: five digits are copied to the stack, and as many bytes as the
\* text has from there: beyond five, whatever follows.
OnStack(t, stray) == [i \in 1 .. Len(t) |-> IF i <= 5 THEN t[i] ELSE stray]
sendArrayConfig(r, v, stray) ==
    WithLrc(PutDigits(Blank(r, [i \in 1 .. 8 |-> \h30]), OnStack(HexText(v), stray)))

\* The cases of the switch in on_pushButtonMotorParaApply_2_clicked.
HasCase(n) == n \in 2 .. 5
Apply2(r, v) ==
    WithLrc(IF HasCase(NDigits(v))
            THEN PutDigits(Blank(r, [i \in 1 .. 8 |-> \h30]), HexText(v))
            ELSE Blank(r, [i \in 1 .. 8 |-> 0]))

----------------------------------------------------------------------------
(* Reading a value: bytes 6 to 13 of the reply. *)

\* Mutated form: the error character is taken for the first digit.
FromFive(b) == ToInt(SubSeq(b, 6, 13))

FieldText(b) == ToInt(SubSeq(b, 7, 14))

Padded(v) == [i \in 1 .. 8 |-> heToAsciiNum((v \div 16 ^ (8 - i)) % 16)]

\* The PLC's reply (external).
ReplyOf(v) == WithLrc(<<\h02, \h30, \h31, \h34, \h36, \h30>> \o Padded(v) \o <<0, 0, \h03>>)

----------------------------------------------------------------------------

Init == value \in Values /\ sent = "nothing" /\ frame = <<>> /\ shown = 0

Write(what, f) ==
    /\ sent = "nothing"
    /\ sent' = what /\ frame' = f
    /\ UNCHANGED <<value, shown>>

Command  == \E c \in DOMAIN Commands : Write(c, Commands[c])
Apply    == \E r \in Registers, b \in Stray : Write("Apply", sendArrayConfig(r, value, b))
ApplyTwo == \E r \in Registers : Write("Apply2", Apply2(r, value))

ReadBack ==
    /\ sent = "nothing"
    /\ sent' = "reply" /\ frame' = ReplyOf(value)
    /\ shown' = FieldText(frame')
    /\ UNCHANGED value

Next == Command \/ Apply \/ ApplyTwo \/ ReadBack

Spec == Init /\ [][Next]_vars

----------------------------------------------------------------------------
(* Properties. *)

\* Every frame that leaves the program carries the checksum the program itself would
\* accept, the literal ones of CmdProcess included.
EveryFrameChecks == sent # "nothing" => lrcCheck(frame)

\* A parameter of up to five digits (the motor's 360.000 degrees are 57E40) is
\* written as itself by both apply buttons, the second from two digits on: the eight
\* characters mean the number typed.
ApplyWritesValue ==
    \/ sent = "Apply" /\ value < 16 ^ 5
    \/ sent = "Apply2" /\ 16 <= value /\ value < 16 ^ 5
    => ToInt(SubSeq(frame, 15, 22)) = value

\* What the dialog shows of a reply is the motor's value.
ReadsBack == sent = "reply" => shown = value

=============================================================================
