---------------------------- MODULE Acquisition ----------------------------
(***************************************************************************)
(* The measurement: the buttons of DataMenu, run by the GUI thread, and    *)
(* the McuCommunicateService thread that scans the two waveforms, over the *)
(* line they share (McuLine).                                              *)
(*                                                                         *)
(* A button's slot is a script of steps.  Utils::sleep runs the event loop *)
(* inside the slot, so another slot may start and finish there: the GUI    *)
(* thread is a stack of slots that have not returned.  The settings dialog *)
(* is such a slot too: it is modal, but the timers run while it is open,   *)
(* and its own timer uses the line.  The worker runs between any two steps.*)
(***************************************************************************)
EXTENDS McuLine

CONSTANTS
    Batch,       \* points per segment (100 in the code)
    TestReads,   \* segments read by TEST1 (36 in the code)
    LastTick,    \* ticks of the dialog's timer, after which it stops (10 in the code)
    Buttons,     \* the buttons the user may press
    MaxClicks,   \* bound: presses in a behaviour
    MaxDepth,    \* bound: slots that have not returned
    QMax,        \* bound: length of mcuCmdQueue up to which the status timer adds
    PollClicks   \* bound: presses up to which it ticks

AllButtons == {"GOGOGO", "SetZero", "MagneticFieldToZero", "DataClean",
               "LineClear", "StopStart", "Continue", "MotorEnable", "Setting",
               "TEST0", "TEST1", "TEST2", "TEST3", "TEST4", "TEST5"}

ASSUME PanelAssumption ==
    /\ Batch \in Nat /\ Batch >= 1
    /\ TestReads \in 1 .. NSeg
    /\ LastTick \in Nat /\ LastTick >= 3
    /\ Buttons \subseteq AllButtons
    /\ MaxClicks \in Nat
    /\ MaxDepth \in Nat
    /\ QMax \in Nat /\ PollClicks \in Nat

VARIABLES
    stack,       \* GUI thread: the slots that have not returned, innermost last
    flagGo,      \* FlagGo, the phase of the GOGOGO button
    charting,    \* is timerChart active?
    shown,       \* does the chart show any point?
    clicks,      \* presses so far
    ticks,       \* the open dialog's Flag_Get_Para; LastTick once its timer has stopped
    lcd,         \* where the values of the magnetic field displays come from
    queue,       \* mcuCmdQueue
    stage, step, \* worker: what it is doing, and how far it is with it
    seg, idx,    \* worker: s and i of the loops
    buf,         \* worker: what temp_buff[s*100 ..] holds
    list1, list2,\* pointList1, pointList2
    realTime,    \* realTimeAB and realTimeZero
    shared,      \* history: have a slot and the worker used the line at the same time?
    strayed      \* history: has a request of a slot gone to a slave it did not select?

panelVars  == <<flagGo, charting, shown, clicks, ticks>>
guiVars    == <<stack, panelVars, lcd>>
workerVars == <<stage, step, seg, idx, buf>>
dataVars   == <<list1, list2, realTime>>
histVars   == <<shared, strayed>>
vars == <<lineVars, guiVars, queue, workerVars, dataVars, histVars>>

----------------------------------------------------------------------------
(* The slots. *)

Select(n)      == [do |-> "select", to |-> n]
SendReq(r)     == [do |-> "send", req |-> r]
ReceiveFor(r)  == [do |-> "receive", req |-> r]
WritePlc(c)    == [do |-> "plc", cmd |-> c]
Sleep          == [do |-> "sleep"]
StopChart      == [do |-> "stopChart"]
StartChart     == [do |-> "startChart"]
ClearSeries    == [do |-> "clearSeries"]
ClearList1     == [do |-> "clearList1"]
ClearList2     == [do |-> "clearList2"]
AddReadPoints  == [do |-> "addReadPoints"]
BlankLcd       == [do |-> "blankLcd"]
Dialog         == [do |-> "dialog"]

Exchange(r) == <<SendReq(r), ReceiveFor(r)>>
WriteBit(c, v) == Exchange(Ask("coil", c, v))

\* Mutated form: the second write repeats the first.
PulseRaisesTwice(c) == <<Select(1)>> \o WriteBit(c, 1) \o <<Sleep>> \o WriteBit(c, 1)

\* set_slave(1), raise the coil, sleep, lower the coil.
Pulse(c) == <<Select(1)>> \o WriteBit(c, 1) \o <<Sleep>> \o WriteBit(c, 0)

DataClean == Pulse(256) \o <<BlankLcd, ClearList1, ClearList2>>

\* Mutated form: the chart's series keep their points.
LineClearKeepsSeries == <<StopChart, ClearList1, ClearList2>> \o Pulse(256)

LineClear == <<StopChart, ClearSeries, ClearList1, ClearList2>> \o Pulse(256)

Start == <<WritePlc("ENABLE_LOCKED"), Sleep, WritePlc("ROTATE_A"), Sleep,
           WritePlc("ROTATE_B"), StartChart, AddReadPoints>>

\* TEST1 reads waveform 1 and prints it.
ReadWaves == [j \in 1 .. 2 * TestReads |->
                 Exchange(Ask("wave", (j - 1) \div 2, 0))[IF j % 2 = 1 THEN 1 ELSE 2]]

\* The ten status registers, displayed by updatastau and read by the worker, and as
\* many parameters, read by the dialog.
Status == Ask("status", 0, 0)
Params == Ask("status", 1, 0)

\* The GOGOGO slot by the value of FlagGo.
GoCases == [f \in 0 .. 2 |-> CASE f = 0 -> "start" [] f = 1 -> "stop" [] f = 2 -> "wipe"]

Handlers == {"start", "stop", "wipe", "dialogTick", "dialogRead"} \cup (AllButtons \ {"GOGOGO"})

Script(h) == CASE h = "start"               -> Start
               [] h = "stop"                -> <<StopChart>>
               [] h = "wipe"                -> DataClean \o LineClear
               [] h = "SetZero"             -> Pulse(258)
               [] h = "MagneticFieldToZero" -> Pulse(257)
               [] h = "DataClean"           -> DataClean
               [] h = "LineClear"           -> LineClear
               [] h = "StopStart"           -> <<StopChart>>
               [] h = "Continue"            -> <<StartChart>>
               [] h = "MotorEnable"         -> <<WritePlc("ENABLE_LOCKED")>>
               [] h = "Setting"             -> <<Dialog>>
               [] h = "dialogTick"          -> <<Select(1)>>
               [] h = "dialogRead"          -> <<Select(1)>> \o Exchange(Params)
               [] h = "TEST0"               -> <<AddReadPoints>>
               [] h = "TEST1"               -> <<Select(2)>> \o ReadWaves
               [] h = "TEST2"               -> <<Select(1)>> \o Exchange(Ask("preset", 0, 0))
               [] h = "TEST3"               -> <<Select(1)>> \o Exchange(Status)
               [] h = "TEST4"               -> <<Select(1)>> \o Exchange(Ask("angle", 1, 0))
               [] h = "TEST5"               -> <<Select(1)>> \o Exchange(Ask("angle", 0, 0))

Frame == [handler: Handlers, pc: Nat]

Top == stack[Len(stack)]
Current == Script(Top.handler)[Top.pc]

Doing(op) == stack # <<>> /\ Current = op

\* The event loop runs: no slot is on the stack, or the innermost one sleeps or is the
\* dialog.  The dialog is modal: the panel's buttons are dead while it is open.
EventLoop == stack = <<>> \/ Doing(Sleep) \/ Doing(Dialog)
ButtonsLive == EventLoop /\ ~Doing(Dialog)

\* Past the current step; the slot returns after its last one.
Advance ==
    stack' = IF Top.pc = Len(Script(Top.handler))
             THEN SubSeq(stack, 1, Len(stack) - 1)
             ELSE [stack EXCEPT ![Len(stack)].pc = @ + 1]

GuiRequests == {Ask("coil", c, v) : c \in Coils, v \in {0, 1}}
               \cup {Ask("wave", s, 0) : s \in 0 .. TestReads - 1}
               \cup {Ask(k, a, 0) : k \in {"status", "angle"}, a \in {0, 1}}
               \cup {Ask("preset", 0, 0)}
GuiWaits == \E r \in GuiRequests : Doing(ReceiveFor(r))
WorkerWaits == step = "recv"

----------------------------------------------------------------------------
(* The worker. *)

Stages == {"idle", "status", "angle", "wave1", "wave2"}
Point  == [seg: Segs, idx: 0 .. Batch - 1, data: Data]

\* Mutated forms: wave 2 read from the slave of wave 1; status and angle asked of slave 2.
SameSlaveForBothWaves(st) == IF st \in {"wave1", "wave2"} THEN 2 ELSE 1
StatusFromSlave2(st) == IF st = "wave2" THEN 3 ELSE 2

SlaveOf(st) == CASE st = "wave1" -> 2 [] st = "wave2" -> 3 [] OTHER -> 1

RequestOf(st, s) ==
    Ask(IF st \in {"wave1", "wave2"} THEN "wave" ELSE st,
        IF st \in {"wave1", "wave2"} THEN s ELSE 0, 0)

\* What the destination of a read holds when the read fails: angle and the
\* status buffer were initialised to zero, temp_buff keeps its content.
Kept == IF stage \in {"wave1", "wave2"} THEN buf ELSE Zero

\* Mutated forms: one degree too early; no exception for the completed turn.
ReadyOneDegreeEarly(n, s) == n < s /\ ~(s > 0 /\ n = 0)
NeverReadyAtZero(n, s) == n < s + 1

\* The segment is not ready: the sensor has not passed it, unless it reads zero
\* degrees after the first segment (the turn is complete).
NotYet(n, s) == n < s + 1 /\ ~(s > 0 /\ n = 0)

Proceed(st) == stage' = st /\ step' = "slave"

StatusRead(d) ==
    /\ stage = "status"
    /\ realTime' = d
    /\ Proceed("idle")
    /\ UNCHANGED <<seg, idx, buf, list1, list2>>

AngleRead(d) ==
    /\ stage = "angle"
    /\ Proceed(IF NotYet(d.n, seg) THEN "angle" ELSE "wave1")
    /\ UNCHANGED <<seg, idx, buf, dataVars>>

WaveRead(d) ==
    /\ stage \in {"wave1", "wave2"}
    /\ buf' = d
    /\ step' = "append"
    /\ idx' = 0
    /\ UNCHANGED <<stage, seg, dataVars>>

WorkerGets(d) == StatusRead(d) \/ AngleRead(d) \/ WaveRead(d)

\* The thread polls the empty queue every 200 ms.
Poll ==
    /\ stage = "idle" /\ queue = <<>>
    /\ UNCHANGED vars

Dequeue ==
    /\ stage = "idle" /\ queue # <<>>
    /\ queue' = Tail(queue)
    /\ IF Head(queue) = "READ_POINTS"
       THEN Proceed("angle") /\ seg' = 0 /\ buf' = Zero
       ELSE Proceed("status") /\ UNCHANGED <<seg, buf>>
    /\ UNCHANGED <<lineVars, guiVars, idx, dataVars, histVars>>

WorkerSelect ==
    /\ stage # "idle" /\ step = "slave"
    /\ SetSlave(SlaveOf(stage))
    /\ step' = "send"
    /\ UNCHANGED <<bus, rxq, late, deg, turning, coil>>
    /\ UNCHANGED <<guiVars, queue, stage, seg, idx, buf, dataVars, histVars>>

WorkerSend ==
    /\ step = "send"
    /\ Send(RequestOf(stage, seg))
    /\ step' = "recv"
    /\ shared' = (shared \/ GuiWaits)
    /\ UNCHANGED <<ctxSlave, rxq, late, deg, turning, coil>>
    /\ UNCHANGED <<guiVars, queue, stage, seg, idx, buf, dataVars, strayed>>

\* modbus_read_registers returns; the worker never looks at what it returns.
WorkerReceive ==
    /\ WorkerWaits
    /\ LET req == RequestOf(stage, seg)
       IN \/ Confirms(req) /\ TakesFrame /\ WorkerGets(Head(rxq).data)
          \/ Refuses(req)  /\ TakesFrame /\ WorkerGets(Kept)
          \/ TimesOut      /\ GivesUp    /\ WorkerGets(Kept)
    /\ UNCHANGED <<ctxSlave, bus, deg, turning, coil, guiVars, queue, histVars>>

NewPoint == [seg |-> seg, idx |-> idx, data |-> buf]

\* Mutated forms: the loop runs one segment too far; every segment is read into the
\* same slice of temp_buff.
OneSegmentTooMany ==
    IF seg + 1 <= NSeg
    THEN Proceed("angle") /\ seg' = seg + 1 /\ buf' = Zero
    ELSE Proceed("idle") /\ UNCHANGED <<seg, buf>>
OneSliceForAll ==
    IF seg + 1 < NSeg
    THEN Proceed("angle") /\ seg' = seg + 1 /\ UNCHANGED buf
    ELSE Proceed("idle") /\ UNCHANGED <<seg, buf>>

\* After the last point of wave 2 the loop goes on with the next segment, or
\* the scan is over.
EndSegment ==
    IF seg + 1 < NSeg
    THEN Proceed("angle") /\ seg' = seg + 1 /\ buf' = Zero
    ELSE Proceed("idle") /\ UNCHANGED <<seg, buf>>

\* Mutated forms: the inner loop ends one point early, for both waves or for wave 2.
LastPointSkipped ==
    IF idx < Batch - 2
    THEN idx' = idx + 1 /\ UNCHANGED <<stage, step, seg, buf>>
    ELSE /\ idx' = 0
         /\ IF stage = "wave1" THEN Proceed("wave2") /\ UNCHANGED <<seg, buf>>
                               ELSE EndSegment
LastPointOfWave2Skipped ==
    IF idx < Batch - (IF stage = "wave2" THEN 2 ELSE 1)
    THEN idx' = idx + 1 /\ UNCHANGED <<stage, step, seg, buf>>
    ELSE /\ idx' = 0
         /\ IF stage = "wave1" THEN Proceed("wave2") /\ UNCHANGED <<seg, buf>>
                               ELSE EndSegment

AfterPoint ==
    IF idx < Batch - 1
    THEN idx' = idx + 1 /\ UNCHANGED <<stage, step, seg, buf>>
    ELSE /\ idx' = 0
         /\ IF stage = "wave1" THEN Proceed("wave2") /\ UNCHANGED <<seg, buf>>
                               ELSE EndSegment

\* Mutated form: the second block appends to the list of the first.
BothWavesIntoList1 ==
    /\ step = "append"
    /\ list1' = Append(list1, NewPoint) /\ UNCHANGED list2
    /\ AfterPoint
    /\ UNCHANGED <<lineVars, guiVars, queue, realTime, histVars>>

AppendPoint ==
    /\ step = "append"
    /\ IF stage = "wave1"
       THEN list1' = Append(list1, NewPoint) /\ UNCHANGED list2
       ELSE list2' = Append(list2, NewPoint) /\ UNCHANGED list1
    /\ AfterPoint
    /\ UNCHANGED <<lineVars, guiVars, queue, realTime, histVars>>

WorkerStep == Dequeue \/ WorkerSelect \/ WorkerSend \/ AppendPoint

----------------------------------------------------------------------------
(* The GUI thread. *)

Slot(b) == IF b = "GOGOGO" THEN GoCases[flagGo] ELSE b

Press(b) ==
    /\ ButtonsLive
    /\ clicks < MaxClicks /\ Len(stack) < MaxDepth
    /\ clicks' = clicks + 1
    /\ stack' = Append(stack, [handler |-> Slot(b), pc |-> 1])
    /\ flagGo' = IF b = "GOGOGO" THEN (IF flagGo = 2 THEN 0 ELSE flagGo + 1) ELSE flagGo
    /\ UNCHANGED <<lineVars, queue, workerVars, dataVars, histVars>>
    /\ UNCHANGED <<charting, shown, ticks, lcd>>

\* The slot's modbus_set_slave.
GuiSelect ==
    /\ \E n \in Slaves : Doing(Select(n)) /\ SetSlave(n)
    /\ shared' = (shared \/ stage # "idle")
    /\ Advance
    /\ UNCHANGED <<bus, rxq, late, deg, turning, coil, panelVars, lcd>>
    /\ UNCHANGED <<queue, workerVars, dataVars, strayed>>

\* The slave a slot selects before its request.
Meant(r) == IF r.kind = "wave" THEN 2 ELSE 1

GuiSend ==
    /\ \E r \in GuiRequests :
          /\ Doing(SendReq(r)) /\ Send(r)
          /\ strayed' = (strayed \/ ctxSlave # Meant(r))
    /\ shared' = (shared \/ stage # "idle")
    /\ Advance
    /\ UNCHANGED <<ctxSlave, rxq, late, deg, turning, coil, panelVars, lcd>>
    /\ UNCHANGED <<queue, workerVars, dataVars>>

\* updatastau displays its buffer whatever the read returned; nothing else a slot
\* reads is displayed.
Shows(r, d) == lcd' = IF r = Status THEN d ELSE lcd

\* Mutated form: a reply to another request is left in the buffer.
GuiReceiveKeepsOthers ==
    /\ \E r \in GuiRequests :
          /\ Doing(ReceiveFor(r))
          /\ \/ Confirms(r) /\ TakesFrame /\ Shows(r, Head(rxq).data)
             \/ TimesOut    /\ GivesUp    /\ Shows(r, Zero)
    /\ Advance
    /\ UNCHANGED <<ctxSlave, bus, deg, turning, coil, panelVars>>
    /\ UNCHANGED <<queue, workerVars, dataVars, histVars>>

\* The library call returns; its result is ignored.  The thread is blocked until
\* then and its event loop does not run.
GuiReceive ==
    /\ \E r \in GuiRequests :
          /\ Doing(ReceiveFor(r))
          /\ \/ Confirms(r) /\ TakesFrame /\ Shows(r, Head(rxq).data)
             \/ Refuses(r)  /\ TakesFrame /\ Shows(r, Zero)
             \/ TimesOut    /\ GivesUp    /\ Shows(r, Zero)
    /\ Advance
    /\ UNCHANGED <<ctxSlave, bus, deg, turning, coil, panelVars>>
    /\ UNCHANGED <<queue, workerVars, dataVars, histVars>>

\* Both threads read the port: each gets a part of what has arrived, and both
\* calls fail.
TornReceive ==
    /\ WorkerWaits
    /\ \E r \in GuiRequests : Doing(ReceiveFor(r)) /\ Shows(r, Zero)
    /\ rxq # <<>> /\ Len(bus) <= MaxStale
    /\ rxq' = <<>> /\ late' = (late \/ bus # <<>>)
    /\ WorkerGets(Kept)
    /\ Advance
    /\ UNCHANGED <<ctxSlave, bus, deg, turning, coil, panelVars, queue, histVars>>

\* A sleep ends only after the slots started inside it have returned.
Wake ==
    /\ Doing(Sleep)
    /\ Advance
    /\ UNCHANGED <<lineVars, panelVars, lcd, queue, workerVars, dataVars, histVars>>

\* serial->write of a PLC command; ROTATE_B sets the motor going.
GuiWritePlc ==
    /\ \E c \in {"ENABLE_LOCKED", "ROTATE_A", "ROTATE_B"} :
          Doing(WritePlc(c)) /\ turning' = (turning \/ c = "ROTATE_B")
    /\ Advance
    /\ UNCHANGED <<ctxSlave, bus, rxq, late, deg, coil, panelVars, lcd>>
    /\ UNCHANGED <<queue, workerVars, dataVars, histVars>>

GuiChart ==
    /\ \/ Doing(StopChart)   /\ charting' = FALSE /\ UNCHANGED <<shown, lcd>>
       \/ Doing(StartChart)  /\ charting' = TRUE  /\ UNCHANGED <<shown, lcd>>
       \/ Doing(ClearSeries) /\ shown' = FALSE    /\ UNCHANGED <<charting, lcd>>
       \/ Doing(BlankLcd)    /\ lcd' = Zero       /\ UNCHANGED <<charting, shown>>
    /\ Advance
    /\ UNCHANGED <<lineVars, flagGo, clicks, ticks, queue, workerVars, dataVars, histVars>>

GuiClearList ==
    /\ \/ Doing(ClearList1) /\ list1' = <<>> /\ UNCHANGED list2
       \/ Doing(ClearList2) /\ list2' = <<>> /\ UNCHANGED list1
    /\ Advance
    /\ UNCHANGED <<lineVars, panelVars, lcd, queue, workerVars, realTime, histVars>>

GuiAddCmd ==
    /\ Doing(AddReadPoints)
    /\ queue' = Append(queue, "READ_POINTS")
    /\ Advance
    /\ UNCHANGED <<lineVars, panelVars, lcd, workerVars, dataVars, histVars>>

\* timer_updatastatue, every 50 ms: addCmd(READ_STATUS), whatever is queued, and
\* the values the worker read last are displayed.
StatusTick ==
    /\ EventLoop
    /\ Len(queue) < QMax /\ clicks <= PollClicks
    /\ queue' = Append(queue, "READ_STATUS")
    /\ lcd' = realTime
    /\ UNCHANGED <<lineVars, stack, panelVars, workerVars, dataVars, histVars>>

\* timerChart, every 30 ms: the chart takes over both lists.
ChartTick ==
    /\ EventLoop /\ charting
    /\ shown' = (list1 # <<>> \/ list2 # <<>>)
    /\ UNCHANGED <<lineVars, stack, flagGo, charting, clicks, ticks, lcd>>
    /\ UNCHANGED <<queue, workerVars, dataVars, histVars>>

\* timerGetPara, every 200 ms while the dialog is open: every tick selects slave 1, the
\* third reads the parameters, and the timer stops after the last.
DialogTick ==
    /\ Doing(Dialog) /\ ticks < LastTick
    /\ ticks' = ticks + 1
    /\ stack' = Append(stack, [handler |-> IF ticks' = 3 THEN "dialogRead" ELSE "dialogTick",
                               pc |-> 1])
    /\ UNCHANGED <<lineVars, flagGo, charting, shown, clicks, lcd>>
    /\ UNCHANGED <<queue, workerVars, dataVars, histVars>>

\* The user leaves the dialog; the next one starts with a new timer.
DialogClose ==
    /\ Doing(Dialog)
    /\ Advance
    /\ ticks' = 0
    /\ UNCHANGED <<lineVars, flagGo, charting, shown, clicks, lcd>>
    /\ UNCHANGED <<queue, workerVars, dataVars, histVars>>

GuiStep ==
    \/ GuiSelect \/ GuiSend \/ Wake \/ GuiWritePlc
    \/ GuiChart \/ GuiClearList \/ GuiAddCmd

BoardStep == Board /\ UNCHANGED <<guiVars, queue, workerVars, dataVars, histVars>>

Init ==
    /\ LineInit
    /\ stack = <<>> /\ flagGo = 0 /\ charting = FALSE /\ shown = FALSE /\ clicks = 0
    /\ ticks = 0 /\ lcd = Zero
    /\ queue = <<>>
    /\ stage = "idle" /\ step = "slave" /\ seg = 0 /\ idx = 0 /\ buf = Zero
    /\ list1 = <<>> /\ list2 = <<>> /\ realTime = Zero
    /\ shared = FALSE /\ strayed = FALSE

Next ==
    \/ \E b \in Buttons : Press(b)
    \/ GuiStep \/ GuiReceive \/ StatusTick \/ ChartTick \/ DialogTick \/ DialogClose
    \/ Poll \/ WorkerStep \/ WorkerReceive
    \/ TornReceive
    \/ BoardStep

Spec == Init /\ [][Next]_vars

\* The scheduler runs both threads, the board answers and the motor turns.  A
\* blocked read returns within its total timeout whatever the other thread
\* reads in the meantime: strong fairness.
Fairness ==
    /\ WF_vars(GuiStep) /\ SF_vars(GuiReceive)
    /\ WF_vars(WorkerStep) /\ SF_vars(WorkerReceive)
    /\ WF_vars(Deliver /\ BoardStep) /\ WF_vars(Rotate /\ BoardStep)

FairSpec == Spec /\ Fairness

----------------------------------------------------------------------------
(* Properties. *)

\* Every variable has its type; the program counter of a slot is inside its script.
TypeOK ==
    /\ LineTypeOK
    /\ stack \in Seq(Frame)
    /\ flagGo \in 0 .. 2
    /\ charting \in BOOLEAN /\ shown \in BOOLEAN
    /\ clicks \in Nat /\ ticks \in 0 .. LastTick /\ lcd \in Data
    /\ queue \in Seq({"READ_POINTS", "READ_STATUS"})
    /\ stage \in Stages
    /\ step \in {"slave", "send", "recv", "append"}
    /\ stage = "idle" => step = "slave"
    /\ step = "append" => stage \in {"wave1", "wave2"}
    /\ seg \in Segs /\ idx \in 0 .. Batch - 1 /\ buf \in Data
    /\ list1 \in Seq(Point) /\ list2 \in Seq(Point)
    /\ realTime \in Data
    /\ shared \in BOOLEAN /\ strayed \in BOOLEAN

\* q is the point that follows p on the circle of NSeg * Batch points.
Follows(p, q) ==
    IF p.idx < Batch - 1
    THEN q.seg = p.seg /\ q.idx = p.idx + 1
    ELSE q.seg = (IF p.seg = NSeg - 1 THEN 0 ELSE p.seg + 1) /\ q.idx = 0

InSequence(list) == \A k \in 1 .. Len(list) - 1 : Follows(list[k], list[k + 1])

\* Whatever is cleared while the worker appends, a list is an unbroken run of the
\* circle: no angle is skipped, doubled or out of order, so the line drawn
\* through the points never jumps back inside a turn (exec_cmd_mcu_read_register3,
\* DataClean and lineClear write the same lists).
PointsInSequence == InSequence(list1) /\ InSequence(list2)

LastOf(list) == list[Len(list)]

\* Between two segments both waveforms end at the same angle, unless one is empty:
\* a clear in the middle of a segment cuts the lists at different places, and
\* they still meet at the segment's end.
WavesEndTogether ==
    (stage \in {"idle", "status", "angle"} /\ list1 # <<>> /\ list2 # <<>>)
        => /\ LastOf(list1).seg = LastOf(list2).seg
           /\ LastOf(list1).idx = LastOf(list2).idx

FromWave(d, slave, s) == d = [from |-> slave, kind |-> "wave", n |-> s]

\* On a line without losses each list holds its own waveform, each point the value
\* read for its own segment, as long as no slot uses the line during a scan.
WaveformsGenuine ==
    ~shared =>
        /\ \A k \in 1 .. Len(list1) : FromWave(list1[k].data, 2, list1[k].seg)
        /\ \A k \in 1 .. Len(list2) : FromWave(list2[k].data, 3, list2[k].seg)

\* A wave request that slave 1 has answered, selected by a slot in the meantime.
FromSlave1(d) == shared /\ d.from = 1 /\ d.kind = "foreign"

\* While no reply comes after the timeout, a failed read leaves zero in wave 1, and in
\* wave 2 zero or the point of wave 1 of the same segment (both reads use one slice
\* of temp_buff); the dialog's timer can make slave 1 answer for a waveform, but the
\* value of another segment never becomes a point.
WaveformsOfOwnSegment ==
    ~late =>
        /\ \A k \in 1 .. Len(list1) :
              \/ list1[k].data = Zero \/ FromSlave1(list1[k].data)
              \/ FromWave(list1[k].data, 2, list1[k].seg)
        /\ \A k \in 1 .. Len(list2) :
              \/ list2[k].data = Zero \/ FromSlave1(list2[k].data)
              \/ \E w \in {2, 3} : FromWave(list2[k].data, w, list2[k].seg)

\* When replies arrive after the timeout a point may carry the value of an earlier
\* segment or of the other wave, but a status or angle register never becomes a
\* point, nor does a segment the scan has not reached.
PointsNotFromTheFuture ==
    \A p \in {list1[k] : k \in 1 .. Len(list1)} \cup {list2[k] : k \in 1 .. Len(list2)} :
        /\ p.data.kind \in {"zero", "wave"} \/ FromSlave1(p.data)
        /\ p.data.n <= p.seg

StatusOrZero(d) == d = Zero \/ (d.from = 1 /\ d.kind = "status")

\* As long as no slot uses the line while the worker does, none loses its slave to a
\* scan and no reply comes late, the magnetic fields displayed are status registers of
\* the MCU, or the zero of a failed read: no angle, waveform or parameter gets there
\* (exec_cmd_mcu_read_state, updatastau, updatastau2).
StatusGenuine == ~shared /\ ~strayed /\ ~late => StatusOrZero(realTime) /\ StatusOrZero(lcd)

\* mcucommunicateservice.cpp:216, "flush the AB magnetic field in real time": what is
\* kept for the display comes from the status registers, whoever else reads.
FieldIsStatus == StatusOrZero(realTime)

\* A segment's waveforms are read only when the motor has passed the segment: the
\* sensor is past it, or the motor has finished its turn (single turn, no losses),
\* as long as no slot uses the line during a scan.
ScanFollowsSensor ==
    ~shared /\ stage \in {"wave1", "wave2"} => (deg > seg \/ ~turning)

\* No coil of the board stays raised once all slots have returned and the line is
\* quiet, however the slots were nested and whatever the worker did to their replies,
\* unless a write of a pulse went to a slave that somebody else had selected.
PulsesReleased == (stack = <<>> /\ bus = <<>> /\ ~strayed) => \A c \in Coils : coil[c] = 0

\* Condition: no button is pressed in the sleep of a slot, and the one that only starts
\* the chart's timer is not on the panel.
OneAtATime == MaxDepth = 1 /\ "Continue" \notin Buttons

\* After the third press of GOGOGO (and before the first) the chart shows nothing, and
\* stays so although the worker may go on appending points, when one button is pressed
\* at a time.  Else it shows nothing unless its timer runs, which a press in another's
\* sleep or Continue can bring about.  (StopStart stops the timer and leaves what is
\* shown: a panel with this property does without it.)
ClearedChartStaysBlank ==
    (flagGo = 0 /\ stack = <<>> /\ (OneAtATime \/ ~charting)) => ~shown

\* datamenu.cpp:752-755, "third press: clear the waveform": once the third press has been
\* handled the chart shows nothing.
ThirdPressClears == (flagGo = 0 /\ stack = <<>>) => ~shown

\* datamenu.cpp:752-755, "second press: stop collecting": no point is collected
\* once the second press has been handled.
SecondPressStopsCollecting ==
    [][(flagGo = 2 /\ stack = <<>>) => UNCHANGED <<list1, list2>>]_vars

\* A scan that has recorded its first segment comes to its end, also when the motor
\* stops after its turn (the wait for the angle never becomes endless).
ScanEnds == (stage \in {"angle", "wave1", "wave2"} /\ seg > 0) ~> (stage = "idle")

\* The panel becomes usable again: every slot returns, although each waits for
\* replies that the worker may have read; the dialog stays until the user leaves it.
SlotsReturn == (stack # <<>>) ~> (stack = <<>> \/ Doing(Dialog))

=============================================================================
