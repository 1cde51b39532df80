--------------------------- MODULE SettingDialog ---------------------------
(***************************************************************************)
(* The PLC's serial line: the motor commands that slots write to it, the   *)
(* replies, which arrive in pieces, the two receivers that collect them    *)
(* (DataMenu::serialPlcReciveMannage and SettingMenu::settingMenuPlcRead), *)
(* and the modal settings dialog, whose timer reads the motor's speed and  *)
(* angle into two fields that "apply" writes back.                         *)
(*                                                                         *)
(* Slots that sleep, and the dialog itself, run the event loop inside a    *)
(* slot, so the GUI thread is a stack; a slot is the steps it has left.    *)
(***************************************************************************)
EXTENDS Naturals, SequencesExt

CONSTANTS
    Prompt,      \* does the PLC answer, and is its answer read, within a timer period?
    LastPhase,   \* ticks of timerGetPara (10 in the code)
    Buttons,     \* what the user may press
    MaxPresses,  \* bound: presses in a behaviour
    MaxDepth     \* bound: slots that have not returned

AllButtons == {"GOGOGO", "Set", "Ret", "Escape", "MotorParaApply", "MotorParaApply_2",
               "MotorTest", "EditSpeed", "EditAngle", "TEST0", "TEST1", "TEST2",
               "TEST3", "TEST4", "TEST5", "TEST6", "TEST7"}

ASSUME DialogAssumption ==
    /\ Prompt \in BOOLEAN
    /\ LastPhase \in Nat /\ LastPhase >= 3
    /\ Buttons \subseteq AllButtons
    /\ MaxPresses \in Nat /\ MaxDepth \in Nat

VARIABLES
    stack,       \* GUI thread: the steps left of each slot, innermost slot last
    presses,     \* presses so far
    out,         \* commands written to the PLC and not handled by it yet
    back,        \* pieces of replies not read yet
    motor,       \* the PLC's speed and angle registers
    dialog,      \* "closed", "open", or "leaving" (rejected, slots still to return)
    listener,    \* whose slot is connected to readyRead
    menuBuf,     \* byteArrayReciveBuff of DataMenu
    checked,     \* what DataMenu's last lrcCheck said
    dlgBuf,      \* mainByteArray of the dialog
    phase,       \* Flag_Get_Para
    ticking,     \* is timerGetPara active?
    field,       \* the texts of the two line edits
    applied,     \* the parameters of the last "apply"
    hurried,     \* history: did the user press before all replies were read, or leave
                 \* the dialog while a slot of it slept?
    nested,      \* history: has an apply been pressed in the sleep of a slot?
    asked        \* history: has the test box read a value while the timer asked for one?

gui  == <<stack, presses>>
line == <<out, back, motor>>
recv == <<menuBuf, checked, dlgBuf>>
dlg  == <<dialog, listener, phase, ticking>>
hist == <<hurried, nested, asked>>
vars == <<gui, line, recv, dlg, field, applied, hist>>

----------------------------------------------------------------------------
(* Values, commands and replies. *)

Params == {"speed", "angle"}

\* Where a value comes from: the motor's own setting, the user, a text that is no
\* number (toInt yields 0), characters that are not a reply's value, no text yet, or
\* eight bytes 0x00 in a frame.
Value   == [of: Params, from: {"own", "user", "zero", "garbage", "empty", "blank"}]
V(p, f) == [of |-> p, from |-> f]
Number(v) == IF v.from = "empty" THEN [v EXCEPT !.from = "zero"] ELSE v

\* The second apply has no case for a number of one digit, as 0 is, and leaves the
\* bytes of the value 0x00.
Number2(v) == IF v.from \in {"empty", "zero"} THEN [v EXCEPT !.from = "blank"] ELSE v

ReadCmd(p)   == [op |-> "read", of |-> p]
SetCmd(p, v) == [op |-> "set", of |-> p, val |-> v]
CoilCmd(c)   == [op |-> "coil", of |-> c]
StateCmd(c)  == [op |-> "state", of |-> c]

\* The commands of the test box.
TestBox == [TEST0 |-> CoilCmd("STOP"),          TEST1 |-> CoilCmd("ROTATE_ALL_TIME"),
            TEST2 |-> ReadCmd("angle"),         TEST3 |-> ReadCmd("speed"),
            TEST4 |-> StateCmd("ENABLE"),       TEST5 |-> StateCmd("ROTATE"),
            TEST6 |-> CoilCmd("ENABLE_LOCKED"), TEST7 |-> CoilCmd("ENABLE_RELEASE")]

\* The pieces a reply may be read in: 02 and five characters (station, function,
\* error), the eight digits of a read value or the one of a state, two LRC digits, 03.
Piece   == [is: {"head", "bit", "lrc", "etx"}] \cup [is: {"value"}, val: Value]
Part(k) == [is |-> k]
Byte    == [ctrl |-> FALSE]
Control == [ctrl |-> TRUE]
Bytes(p) == CASE p.is = "head"  -> <<Control, Byte, Byte, Byte, Byte, Byte>>
              [] p.is = "value" -> [i \in 1 .. 8 |-> [digit |-> i, val |-> p.val]]
              [] p.is = "etx"   -> <<Control>>
              [] p.is = "bit"   -> <<Byte>>
              [] p.is = "lrc"   -> <<Byte, Byte>>

Ack       == <<Part("head"), Part("lrc"), Part("etx")>>
State     == <<Part("head"), Part("bit"), Part("lrc"), Part("etx")>>
Answer(v) == <<Part("head"), [is |-> "value", val |-> v], Part("lrc"), Part("etx")>>

Complete(buf) == Contains(buf, Part("etx"))
Whole(buf) == buf \in {Ack, State} \/ \E v \in Value : buf = Answer(v)

Reply(cmd) == CASE cmd.op = "read"  -> Answer(motor[cmd.of])
                [] cmd.op = "state" -> State
                [] OTHER            -> Ack

----------------------------------------------------------------------------
(* The GUI thread. *)

Write(c) == [do |-> "write", cmd |-> c]
Sleep    == [do |-> "sleep"]
Exec     == [do |-> "exec"]

Start == <<Write(CoilCmd("ENABLE_LOCKED")), Sleep, Write(CoilCmd("ROTATE_A")), Sleep,
           Write(CoilCmd("ROTATE_B"))>>

\* Mutated forms: the angle is sent twice; angle and speed change places.
AngleTwice == <<Write(SetCmd("angle", Number(field["angle"]))), Sleep,
                Write(SetCmd("angle", Number(field["angle"])))>>
ApplySwapped == <<Write(SetCmd("angle", Number(field["speed"]))), Sleep,
                  Write(SetCmd("speed", Number(field["angle"])))>>

\* Both frames are built from the texts before the first is sent.
Apply == <<Write(SetCmd("angle", Number(field["angle"]))), Sleep,
           Write(SetCmd("speed", Number(field["speed"])))>>

Apply2 == <<Write(SetCmd("angle", Number2(field["angle"]))), Sleep,
            Write(SetCmd("speed", Number2(field["speed"])))>>

Step == Head(stack[Len(stack)])
Doing(k) == stack # <<>> /\ Step.do = k

\* The event loop runs: nothing on the stack, a sleep, or the exec of an open dialog.
EventLoop == stack = <<>> \/ Doing("sleep") \/ (Doing("exec") /\ dialog = "open")

Advance ==
    LET left == Tail(stack[Len(stack)])
    IN stack' = IF left = <<>> THEN Front(stack) ELSE Front(stack) \o <<left>>

Settled == out = <<>> /\ (back = <<>> \/ listener = "nobody")
InTime  == Prompt => Settled

GuiWrite ==
    /\ Doing("write")
    /\ out' = Append(out, Step.cmd)
    /\ Advance
    /\ UNCHANGED <<presses, back, motor, recv, dlg, field, applied, hist>>

Wake ==
    /\ Doing("sleep") /\ InTime
    /\ Advance
    /\ UNCHANGED <<presses, line, recv, dlg, field, applied, hist>>

Call(script) == stack' = Append(stack, script)

\* Motor commands of the main panel; no button of it works while the dialog is open.
PressGo ==
    /\ dialog = "closed"
    /\ Call(Start)
    /\ UNCHANGED <<line, recv, dlg, field, applied>>

\* on_setBtn_clicked: the receiver of the panel is disconnected, a new dialog with an
\* empty buffer and empty fields is shown, and exec runs until it is rejected.
OpenSettings ==
    /\ dialog = "closed"
    /\ Call(<<Exec>>)
    /\ dialog' = "open" /\ listener' = "dialog"
    /\ dlgBuf' = <<>>
    /\ phase' = 0 /\ ticking' = TRUE
    /\ field' = [p \in Params |-> V(p, "empty")]
    /\ UNCHANGED <<line, menuBuf, checked, applied>>

\* Ret disconnects the dialog before rejecting it; Escape only rejects it.
Reject(b) ==
    /\ dialog = "open" /\ b \in {"Ret", "Escape"}
    /\ dialog' = "leaving"
    /\ listener' = IF b = "Ret" THEN "nobody" ELSE listener
    /\ UNCHANGED <<stack, line, recv, phase, ticking, field, applied>>

\* exec returns; the dialog and its timer are destroyed.
Return ==
    /\ Doing("exec") /\ dialog = "leaving"
    /\ Advance
    /\ dialog' = "closed" /\ listener' = "menu" /\ ticking' = FALSE
    /\ UNCHANGED <<presses, line, recv, phase, field, applied, hist>>

PressApply ==
    /\ dialog = "open"
    /\ Call(Apply)
    /\ applied' = [p \in Params |-> Number(field[p])]
    /\ UNCHANGED <<line, recv, dlg, field>>

PressApply2 ==
    /\ dialog = "open"
    /\ Call(Apply2)
    /\ applied' = [p \in Params |-> Number2(field[p])]
    /\ UNCHANGED <<line, recv, dlg, field>>

InDialog(script) ==
    /\ dialog = "open"
    /\ Call(script)
    /\ UNCHANGED <<line, recv, dlg, field, applied>>

Edit(p) ==
    /\ dialog = "open"
    /\ field' = [field EXCEPT ![p] = V(p, "user")]
    /\ UNCHANGED <<stack, line, recv, dlg, applied>>

\* Mutated form: routed by what the timer will ask next.
RoutedLate == IF phase = 2 THEN "speed" ELSE IF phase = 3 THEN "angle" ELSE "none"

\* The field that phase 1 or 2 sets; no LRC is checked.
Routed == IF phase = 1 THEN "speed" ELSE IF phase = 2 THEN "angle" ELSE "none"

Press(b) ==
    /\ EventLoop
    /\ presses < MaxPresses /\ Len(stack) < MaxDepth
    /\ presses' = presses + 1
    /\ hurried' = (hurried \/ ~Settled \/ (b \in {"Ret", "Escape"} /\ Doing("sleep")))
    /\ asked' = (asked \/ (b \in {"TEST2", "TEST3"} /\ Routed # "none"))
    /\ nested' = (nested \/ (b \in {"MotorParaApply", "MotorParaApply_2"} /\ Doing("sleep")))
    /\ \/ b = "GOGOGO" /\ PressGo
       \/ b = "Set" /\ OpenSettings
       \/ Reject(b)
       \/ b = "MotorParaApply" /\ PressApply
       \/ b = "MotorParaApply_2" /\ PressApply2
       \/ b = "MotorTest" /\ InDialog(Start)
       \/ b \in DOMAIN TestBox /\ InDialog(<<Write(TestBox[b])>>)
       \/ b = "EditSpeed" /\ Edit("speed")
       \/ b = "EditAngle" /\ Edit("angle")

\* Mutated form: the phase is not set back.
NeverReset(n) == n

NextPhase(n) == IF n >= LastPhase THEN 0 ELSE n

\* requestByTimer: phase 1 asks for the speed and phase 2 for the angle; the others
\* write nothing to the PLC.
Tick ==
    /\ ticking /\ EventLoop /\ InTime
    /\ LET n == phase + 1
       IN /\ phase' = NextPhase(n)
          /\ ticking' = (n < LastPhase)
          /\ out' = out \o (CASE n = 1 -> <<ReadCmd("speed")>>
                              [] n = 2 -> <<ReadCmd("angle")>>
                              [] OTHER -> <<>>)
    /\ UNCHANGED <<gui, back, motor, recv, dialog, listener, field, applied, hist>>

----------------------------------------------------------------------------
(* The receivers. *)

\* Mutated form: the buffer is not cleared.
NeverCleared(buf) == buf

AfterMenu(buf) == IF Complete(buf) THEN <<>> ELSE buf

\* lrcCheck of all that was collected; a sum that is right by chance is left out.
MenuReads(chunk) ==
    LET buf == menuBuf \o chunk
    IN /\ menuBuf' = AfterMenu(buf)
       /\ checked' = IF ~Complete(buf) THEN checked
                     ELSE IF Whole(buf) THEN "ok" ELSE "error"
       /\ UNCHANGED <<dlgBuf, field>>

\* Mutated form: one byte too early.
ShiftedWindow(b) == SubSeq(b, 6, IF Len(b) < 13 THEN Len(b) ELSE 13)

\* The bytes at(6) .. at(13), as far as the buffer has them.
Window(b) == SubSeq(b, 7, IF Len(b) < 14 THEN Len(b) ELSE 14)

\* toInt of the window: 0 if a control character is in it.  Reading past the buffer's
\* end yields whatever is there.
Parsed(p, w) ==
    IF \E v \in Value : w = [i \in 1 .. 8 |-> [digit |-> i, val |-> v]]
    THEN w[1].val
    ELSE V(p, IF Contains(w, Control) THEN "zero" ELSE "garbage")

DialogReads(chunk) ==
    LET buf == dlgBuf \o chunk
    IN /\ dlgBuf' = IF Complete(buf) THEN <<>> ELSE buf
       /\ field' = IF Complete(buf) /\ Routed # "none"
                   THEN [field EXCEPT ![Routed] = Parsed(Routed, Window(FlattenSeq(
                            [i \in 1 .. Len(buf) |-> Bytes(buf[i])])))]
                   ELSE field
       /\ UNCHANGED <<menuBuf, checked>>

\* readyRead, when the event loop runs: readAll takes what has arrived.
Receive ==
    /\ EventLoop
    /\ \E k \in 1 .. Len(back) :
          LET chunk == SubSeq(back, 1, k)
          IN /\ back' = SubSeq(back, k + 1, Len(back))
             /\ \/ listener = "menu"   /\ MenuReads(chunk)
                \/ listener = "dialog" /\ DialogReads(chunk)
    /\ UNCHANGED <<gui, out, motor, dlg, applied, hist>>

\* The PLC (external) handles a command and replies.  It may refuse bytes 0x00 or take
\* them for a 0.
Plc ==
    /\ out # <<>>
    /\ LET cmd == Head(out)
       IN /\ back' = back \o Reply(cmd)
          /\ \/ cmd.op # "set" /\ motor' = motor
             \/ cmd.op = "set" /\ cmd.val.from # "blank"
                /\ motor' = [motor EXCEPT ![cmd.of] = cmd.val]
             \/ cmd.op = "set" /\ cmd.val.from = "blank"
                /\ motor' \in {motor, [motor EXCEPT ![cmd.of] = V(cmd.of, "zero")]}
    /\ out' = Tail(out)
    /\ UNCHANGED <<gui, recv, dlg, field, applied, hist>>

Init ==
    /\ stack = <<>> /\ presses = 0
    /\ out = <<>> /\ back = <<>>
    /\ motor = [p \in Params |-> V(p, "own")]
    /\ dialog = "closed" /\ listener = "menu"
    /\ menuBuf = <<>> /\ checked = "none" /\ dlgBuf = <<>>
    /\ phase = 0 /\ ticking = FALSE
    /\ field = [p \in Params |-> V(p, "empty")]
    /\ applied = [p \in Params |-> V(p, "own")]
    /\ hurried = FALSE /\ nested = FALSE /\ asked = FALSE

Next == \/ \E b \in Buttons : Press(b)
        \/ GuiWrite \/ Wake \/ Return \/ Tick
        \/ Receive \/ Plc

Spec == Init /\ [][Next]_vars

----------------------------------------------------------------------------
(* Properties. *)

\* Every variable has its type.
TypeOK ==
    /\ presses \in Nat
    /\ back \in Seq(Piece)
    /\ motor \in [Params -> Value]
    /\ dialog \in {"closed", "open", "leaving"}
    /\ listener \in {"menu", "dialog", "nobody"}
    /\ menuBuf \in Seq(Piece) /\ dlgBuf \in Seq(Piece)
    /\ checked \in {"none", "ok", "error"}
    /\ phase \in 0 .. LastPhase - 1
    /\ ticking \in BOOLEAN
    /\ field \in [Params -> Value]
    /\ applied \in [Params -> Value]
    /\ hurried \in BOOLEAN /\ nested \in BOOLEAN /\ asked \in BOOLEAN

\* While the PLC is prompt, the motor's speed is never set to an angle, nor its angle to
\* a speed: whatever replies the dialog takes for an answer, whoever is connected
\* when they arrive and in whatever pieces (settingMenuPlcRead routes by phase, not
\* by content), unless the test box asks for a value while the timer does.
ParametersNotMixed == ~asked => \A p \in Params : motor[p].of = p

\* If the user does not hurry the PLC either, both are only ever set to what they
\* were, what the user typed, or 0.
ParametersGenuine ==
    ~hurried => \A p \in Params : motor[p].from \in {"own", "user", "zero"}

\* A prompt PLC fills both fields: each before the timer goes on to the next phase.
FieldsFilled ==
    dialog = "open" =>
        /\ (phase >= 2 \/ ~ticking) => field["speed"].from # "empty"
        /\ (phase >= 3 \/ ~ticking) => field["angle"].from # "empty"

\* datamenu.cpp:124, "the ack is complete" once 03 is in the buffer: with a prompt PLC
\* and a user who waits for it, what lrcCheck is given is one reply, across every
\* hand-over between the panel's receiver and the dialog's.
AckIsWhole == ~hurried => checked # "error"

\* settingmenu.cpp:240, "apply the motor's parameters": when all is quiet again the
\* motor has the parameters of the last apply that said what it wanted, if none was
\* pressed inside a sleep.
ApplyTakesEffect ==
    (~nested /\ stack = <<>> /\ out = <<>>) =>
        \A p \in Params : applied[p].from # "blank" => motor[p] = applied[p]

=============================================================================
