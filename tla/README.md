# Verification of PLCMonitor

PLCMonitor is a Qt/Windows application that measures the magnetic field of a
rotor. A PLC turns the rotor (serial port 1, ASCII frames); an MCU board samples
two waveforms during the turn (serial port 2, Modbus RTU through a vendored
libmodbus). The application shows the waveforms, reads status values, sends
commands and exports reports. This directory holds TLA+ models of its core, TLC
runs over small instances and TLAPS proofs for all instances.

## 1. Inventory

| Part | Source | State | Operations |
|---|---|---|---|
| Measurement panel | `datamenu.cpp` | `FlagGo`, `timerChart`, chart series, port flags, PLC receive buffer | one slot per button, timer slots, `readyRead` slot |
| Acquisition thread | `ModbusService/mcucommunicateservice.cpp` | `mcuCmdQueue`, loop variables, `temp_buff` | `addCmd`, `run`, scan of both waveforms, status read |
| Shared data | `GloableData/` | `mb`, `serial`, `pointList1/2`, `realTimeAB/Zero` | read and written by both threads without a lock |
| Modbus client | `libmodbus/modbus.c`, `modbus-rtu.c` | `ctx->slave`, the port's buffer | `set_slave`, send, receive, confirm |
| Modbus server | `libmodbus/modbus.c` | mapping | not used by the application |
| Modbus over TCP | `libmodbus/modbus-tcp.c`, recovery in `modbus.c` | `ctx->s`, `t_id` | connect, close, listen, accept, calls that reconnect and flush; used by one slot of the demo window |
| Event loop re-entry | `utils.cpp` `Utils::sleep` | the GUI call stack | runs other slots inside a slot |
| Setting menu | `settingmenu.cpp` | `Flag_Get_Para`, receive buffer, fields | timed requests, routing of replies, two applies, motor test, test box |
| Port sessions | `datamenu.cpp`, `uartsetting.cpp` | three flags, two handles | open and close, from two places each |
| PLC command table | `ModbusService/cmdprocess.cpp` | the command bytes | look-up |
| PLC thread | `plccommunicateservice.cpp` | - | never started (`#if 0`, datamenu.cpp:181) |
| Report export | `execltool/` | COM objects, open/saved flags | open, save, close, transfer of tables |
| Database | `databasetool/` | one table | created at start; the insert has no caller |
| Drawing, demos | `chartview.cpp`, `callout.cpp`, `demotest.cpp`, `mainwindow.cpp` | - | no logic of the program |

How they interact: the GUI thread runs the slots; a slot that calls
`Utils::sleep` runs the event loop inside itself, so slots nest. Slots put
commands into `mcuCmdQueue`; the acquisition thread takes them and appends points
to the two lists; a timer of the GUI copies the lists to the chart. Both threads
call libmodbus on the same `modbus_t`, that is, the same selected slave and the
same port. Commands to the PLC are written to a second port and its replies come
back as `readyRead` signals. The settings dialog is modal, but the timers run while it
is open: the panel's keep polling, and its own selects slave 1 on the shared context
five times a second and reads ten registers with it.

What is hard, and what correctness means:

* Acquisition: both threads use one context and one port (wrong slave, swapped or
  torn replies), results of reads are ignored, late replies confirm later
  requests, the lists are cleared while they grow, and the test buttons and the
  settings dialog read with the worker's context. Correct: no angle skipped or
  doubled, the two waves belong together, values belong to their angle, a scan
  ends, a display shows the registers it is labelled with.
* Panel: slots nest. Correct: the chart and the coils are in the state the last
  press asked for once all slots have returned.
* Ports: two ways to open each port with different flags. Correct: a handle is
  used only while its port is open, and never replaced under the worker.
* PLC receive, setting menu: replies in chunks, routed by time. Correct: one
  damaged frame costs only itself, a field shows the reply to its own request.
* Modbus over TCP: a context keeps the number of a socket it has closed, numbers are
  given out again, the recovery reconnects and repeats writes, identifiers go round.
  Correct: a call takes the reply to its own request, from its own server, and returns.
* Report export: open, save and close in any order. Correct: nothing is lost, nothing
  that was deleted is used, Excel does not stay behind.

`PROJECT.json` lists every hazard with its line.

## 2. Modules

* `McuLine` is the line to the MCU board: `ctxSlave` (`ctx->slave`), `bus`
  (requests under way), `rxq` (replies in the port's buffer), and the board
  (`deg`, `turning`, `coil`), which is external and modelled from how the code uses
  it. A frame is one record whose `kind` stands for function code and count,
  because `check_confirmation` (modbus.c:479) compares nothing else. A request
  that reaches a slave it was not meant for is refused, or answered with foreign
  data. `TimesOut` leaves an answer that is still due on its way: error recovery
  is off, nothing is flushed; `late` records that this happened.
* `Acquisition` EXTENDS it with the two threads. The GUI thread is `stack`, the
  slots that have not returned; a slot is a script of steps (`Pulse`, `DataClean`,
  `LineClear`, `Start`, the test buttons' `Exchange`s) with one action per kind of
  step, and `Press` is possible when nothing runs or the innermost slot sleeps. The
  settings dialog is a slot that stays until it is left; `DialogTick` is its timer,
  with `Flag_Get_Para` in `ticks`, `StatusTick` the panel's. The worker is `stage` and
  `step` with the loop variables `seg` (`s`), `idx` (`i`) and `buf`, the content of the
  slice of `temp_buff` in use. A point, and each value kept for a display (`realTime`)
  or displayed (`lcd`), says where it came from: slave, kind of registers, segment.
  The angle is in degrees, which is the integer division by 100 that the code applies
  to the register. `shared` and `strayed` are history: they say whether a slot used
  the line while the worker did, and whether a slot's request went to a slave that the
  worker had selected meanwhile.
* `WaveformRecorder` is the abstract specification: two recordings that go round a
  circle of positions, wave 1 of a segment before wave 2, each cleared at any time.
* `AcquisitionRefinement` maps `Acquisition` to it (positions of the two lists;
  places on the circle from the worker's program counter).
* `PortSession` is the opening and closing of both ports: the table of handles of
  the system (`owner`, external), the port object and the context (`serial`, `mb`),
  the three flags, the status timer, the worker, and one action per button. A
  pointer is a record with `null`. `NoPort` is the selection in a box without entries, as
  when no port was found; `modbus_new_rtu` then returns NULL (modbus-rtu.c:902), and the
  window is closed. `started`, `moved`, `reused` are history: they
  say whether the open button was pressed, a selection changed, or the number of a
  closed handle given out again.
* `SettingDialog` is the PLC's line: commands written, replies in pieces, the two
  receivers and their hand-over, the modal dialog with its timer (`phase` is
  `Flag_Get_Para`), the two fields, both applies, the motor test and the test box. The
  second apply writes a number of one digit as eight bytes 0x00, of which the PLC,
  external, takes a 0 or nothing. The GUI thread is again a stack of scripts.
  `hurried`, `nested`, `asked` are history. `LastPhase` is 10 in the code; the phases
  from 4 on only let time pass.
* `PlcFrame` is the byte level of the same protocol: the command table, checksum,
  both ways of building a parameter frame, and reading a value from a reply.
* `ExcelEngine` is the report engine: its pointers and flags, Excel's open workbook and
  instances, the files, and the calls in any order, by any name or none. A row is a value,
  `FirstRow` and `UsedRows` are what Excel's `UsedRange` reports, and `SetCellData` writes
  any row. A pointer to a deleted workbook is `"dead"`: it passes the tests of `Save` and
  `Close`, which ask for NULL only. `wrote` and `nameless` are history. `Careless` owners
  fill or read without an open report, which crashes. `Clear`, which forgets the name, is
  protected, and nothing derives from the class or calls it.
* `ModbusRtu` is libmodbus by itself, byte by byte, with its client at one end of a
  serial line and its server at the other. `rx` holds the local variables of
  `receive_msg` at each end (`step`, `got` = `msg_length`, `want` =
  `length_to_read`), `wire` the pieces of frames not read yet. A frame is the
  fields that decide its length; a message that did not start and go on inside one
  undamaged frame is `Junk`, its bytes are any of `Bytes`, and `check_integrity`
  finds it (the CRC is taken to find every wrong message). `Disturb`, `Timeout` and
  `SendFails` cut, damage, lose and delay. The loop around `modbus_receive` and
  `modbus_reply` is the program's. Reading from the port is the Windows branch,
  where `win32_ser_select` reads no more than was asked for.
* `ModbusTcp` is the TCP side of libmodbus with the error recovery of `modbus.c`: one
  program with a thread and several contexts, each for a server of its own. `sockets`
  is the process's table of socket numbers (external), `sock` the number each context
  keeps, which closing does not reset; `tid` is `t_id`, one static counter for all
  contexts, modulo `TidSpace`. `CallStep` follows `send_msg` and `receive_msg`: a
  failing write under link recovery closes, connects and writes again without looking
  at the result of the connect, and loops; a failing read, a timeout or a reply that
  is not to this request ends the call, after a flush or a reconnect under the recovery
  concerned. Servers listen, accept, answer, drop connections, end and come back.
  `posix` says whether failing socket calls set `errno`; Winsock's do not, and the code
  looks only at `errno`. `stale`, `owed` and `got` are history. It assumes that frames
  arrive whole, that requests are alike in function and length (so that only the
  identifier tells replies apart), that a server takes as many connections as come,
  and that `WSAStartup` and `setsockopt` succeed.
* `Acquisition_proofs` holds the theorems about the order of the points, the slots, the
  chart and the motor, and `AcquisitionValues_proofs`, which extends it, those about what
  is on the line and where values come from. `SettingDialog_proofs`, `PlcFrame_proofs`,
  `PortSession_proofs`, `ExcelEngine_proofs`, `ModbusRtu_proofs` and `ModbusTcp_proofs`
  hold those of their modules. The `MC...` modules name the sets the instances use.

Definitions called `Mutated form` are not part of a specification: they are
plausible slips of the code, with which it is tested that the properties can fail.

## 3. Runs

| Run | Question | Instance |
|---|---|---|
| `scan_quiet` | Without losses: are both waveforms and the displays genuine, does the scan follow the sensor, are the coils released, do the lists stay in sequence and together, and does the system implement `WaveformRecorder`, when any slots nest and use the line beside a scan? | 2 segments of 2 points, every button, two presses, the second in a sleep of the first; one queued status read |
| `scan_lossy` | What may failed reads, late replies and the settings dialog leave in the lists? | 2 segments of 1 point, losses, one stale request, two presses of GOGOGO or the dialog |
| `panel_fair` | With the scheduling the threads get: does the scan end, do all slots return, does the third press leave a chart that is and stays blank? | three presses of GOGOGO or TEST1, not nested |
| `ports_all` | Which pointer, handle and flag may the timer, the worker and the slots rely on? | two ports, four handles, six presses of any button, openings that fail |
| `dialog_use` | Which reply fills which field, what is checked as one reply, what is written to the motor? | four presses, three deep, of every button that differs in more than the name of a coil; replies in pieces |
| `plc_frames` | Do the bytes say what was meant? | every command; values around each change of length; two stray bytes |
| `reports` | Are the files, Excel and the engine's objects right in any order of calls? | two files or no name, two tables, two opens of an engine, rows up to the third, eight calls |
| `rtu_calls` | Do the lengths computed at both ends agree for every function and limit, what may a late or broken frame confirm, and does every call return? | one call of each function at each limit of count and address; pairs of ten calls with like replies; one fault |
| `tcp_clients` | Whose reply does a call take, whose connection has a context, and does every call return, when servers crash, answer late and come back? | two contexts, one of each kind of connect and of recovery; two socket numbers, identifiers 0 and 1, three calls, one break; errno set and not set |
| `second_press_stops`, `third_press_clears`, `dialog_status` | What datamenu.cpp:752-755 says of the second and of the third press, and mcucommunicateservice.cpp:216 of the status: violated | two presses; three presses, nested; GOGOGO and the dialog while the panel polls |

The three violations. After the second press of GOGOGO the worker goes on collecting:
only the chart's timer is stopped. A second and third press in the sleeps of the first
are completed inside it, and the first then starts the chart's timer and a scan: the
chart that was cleared fills. The settings dialog reads its ten parameters from
slave 1 while the worker reads its ten status registers from the same slave; the
replies look alike, each call may take the other's, and parameters are displayed as
magnetic fields.

Deadlock is checked for the runs of `MCAcquisition` and `MCModbusTcp`: the worker polls
its queue for ever, so a state without a successor would be two threads waiting for
each other, and a program between calls may always connect or close. It is switched
off in the others, where a behaviour ends because the user stops pressing, the program
quits, the one frame is sent or the calls are used up.

Bounds. The loops of the scan treat the first and the last segment and point
differently, and a segment must differ from its successor: 2 segments of 2 points have
all of this. With losses a single point per segment is enough, since all points of a
segment come from one read. `MaxClicks`, `MaxPresses` and `MaxDepth`
bound presses and nesting: a slot nested in itself and in another needs two or
three; a port opened twice, closed and closed again needs four; reading both
fields, editing and applying needs four. `QMax` bounds what the status timer
queues: a longer queue delays the worker, which the model may do anyway. `PollClicks`
says up to which press it does so: none in the runs of a scan, where the status read
queued before the first press is then taken at any time. `TestReads`
stands for the 36 segments of TEST1, `LastTick` for the ten ticks of the dialog, of
which only the third reads.
`MaxStale` bounds the requests a timed out caller leaves behind; one is enough for
every later reply to be off by one. Four handles let two be lost and two in use.
Eight calls are enough to open, fill, close, reopen, fill, read and close one engine. Three
rows (`MaxRow`) reach below both tables.
`Values` holds every length a value may have.
The programs of `rtu_calls` have each quantity at 0, 1, its limit and one more, and
each table one cell too short; a byte out of place is 0, 16, 23 or 254, one for each
way the steps of a message may branch, and 254 the largest that passes for a count.
In `tcp_clients` two socket numbers make a closed one come back at once, two
identifiers go round within three calls, and one break lets a context reconnect, fail
to, or be left with a number that the other context then gets.
A read finds all it asked for or half (`Portions`), which repeated reaches single
bytes; a frame is cut after 1 or 3 bytes or before its last (`Cuts`); one fault is
enough to put every later frame out of step. The proofs need no bound.

Fairness. `FairSpec` of `Acquisition` (`panel_fair`) assumes that the operating
system runs both threads, that the board answers and the motor turns (weak
fairness), and that a blocked read returns (strong fairness: `win32_ser_select`
sets the total timeout of `ReadFile`, which ends the call also when the other
thread takes every byte). Nothing is assumed of the user, of the timers or of the
order of the threads. `Spec` of `ModbusRtu` assumes that both ends' threads run and
their timeouts fire, which `ReadFile` with a total timeout guarantees for the client.
`FairSpec` of `ModbusTcp` assumes that the calling thread runs and its response timeout
fires, which is the argument of `select`, and that a server that went away comes
back: without the latter a write under link recovery is repeated for ever, as
modbus.c:176 says it is. Nothing is assumed of answers.
`Prompt` in `SettingDialog` is an assumption of timing, not
of fairness: the PLC's answer is there before the dialog's timer ticks again.

What the conditions of the properties exclude, all of which the code does:

* `WaveformsGenuine` needs a line without losses that no slot uses during a scan
  (`~shared`). With losses `scan_lossy` shows exactly what may happen instead: zeros,
  and in list 2 also the values of wave 1; after a timeout also values of an earlier
  segment; beside the dialog also what slave 1 answers to a request for a waveform.
* `ScanFollowsSensor` needs both too: a failed read of the angle leaves 0, which the
  guard takes for a completed turn, and TEST2 reads a register like the angle's.
* `StatusGenuine` needs `~shared`, `~strayed` and `~late`, so it says nothing of two
  threads that interfere: `dialog_status` shows what happens in the first case.
* `ClearedChartStaysBlank` is for one button at a time: `third_press_clears` shows what
  happens when presses nest. With them, or with Continue, it speaks only of a chart whose
  timer does not run.
* `PulsesReleased` holds until a request has gone astray: the worker's
  `modbus_set_slave` may come between the two writes of a pulse.
* `OwnConnection` and `StaleOnlyAfterTimeouts` hold until a connect has failed
  (`stale = {}`): the context then keeps the number of a closed socket, which the next
  connect of another context may get; both then share a connection.
* `CallsReturn` of `ModbusTcp` needs, under Winsock, an `errno` left over that names a
  lost connection: the library asks `errno`, which Winsock does not set, and with any
  other value the write is repeated without reconnecting.
* `NoHandleLost` is for the radio buttons alone: the open button does not look at
  their flags and opens a second time. `PlcHandleKept` needs the selections left
  alone, for the same reason.
* `PlcFlagTrue` and `WorkerKeepsOffPlc` need handle numbers that are not given out
  again: `_modbus_rtu_close` (modbus-rtu.c:789) leaves the number in the context, a
  second "close" closes it again, and by then it may be the PLC's.
* `PollingIsServed` says that the timer and the worker have a context, not that it is
  connected: `initMcuSerialService` ignores the result of `modbus_connect`
  (datamenu.cpp:218), and the radio button then reports the port open
  (datamenu.cpp:915) over a context without a handle.
* `NoCrashAfterStart` says nothing of the time before: the slots, and the settings
  dialog after its message (settingmenu.cpp:48), use NULL then.
* `AckIsWhole` is for a user who waits: with two replies in the buffer, or the rest
  of one whose beginning the other receiver took, `lrcCheck` is given something else
  (datamenu.cpp:124).
* `ApplyTakesEffect` is for applies outside a sleep: an inner one is completed
  first, and the outer one then writes the speed it took before.
  It says nothing of a number that the second apply wrote as bytes 0x00.
* `ParametersNotMixed` excludes reading a value from the test box while the timer has
  asked for one: the angle then gets into the speed's field, or the speed into the
  angle's, from where apply writes it.
* `ApplyWritesValue` ends at five digits, for the second apply it also starts at two:
  `sendArrayConfig` copies five bytes, and the switch (settingmenu.cpp:397) has no case
  for one digit and leaves 0x00.
* `LegalCallsServed` is for an undisturbed line. In it, a read of no values returns
  -1 as it should but not the server's exception: the exception has the length of
  the empty reply expected, and passes for a wrong reply (modbus.c:501).
* `ValuesWereSent` speaks of calls that waited for a reply: one that could write
  nothing returns 0, and `modbus_read_bits` its full count, with nothing stored. A
  late reply of the same function and length does confirm the next call.
* `ClosedReportIsOnDisk` is for the first report of an engine or a file that
  existed: `Close` leaves `bIsSaveAlready` up and `Open` does not lower it, so a
  second new report is dropped. Opening over an open new report is outside it
  too: that is saved under the new name (excelengine.cpp:152). Files that Excel cannot
  write are lost unnoticed.
* `NoDeadObjectUsed` holds until an engine is opened without a name. `Open(file)`,
  `Close()`, `Open("")`, `Close()` then calls the workbook that the first `Close`
  deleted: `pExcel` is there again, and `pWorkbook` is not NULL (excelengine.cpp:187). It
  is also for owners that fill and read only open reports.
* `ExcelQuits` allows one Excel left behind for each opening without a name: `Open`
  starts it before it looks at the name (excelengine.cpp:81, 103), and `Close` does nothing
  without a workbook. The program itself gives every engine a name.
* `ReadsReport` is for a report that nothing was written into since it was opened: rows
  that `SetCellData` adds below the last one, saved or not, are not read, since
  `nRowCount` is that of the opening (excelengine.cpp:142, 262). It speaks of the
  beginning of the table: `clear()` leaves its old rows, emptied, behind the report.

## 4. Proofs

Each theorem is for every value of the constants under the module's assumption.

`Acquisition_proofs`, for every number of segments (at least 2) and points (at
least 1), every set of buttons, every bound, with or without losses and late
replies (`LineAssumption`, `PanelAssumption`):

* `TypeCorrect`: `Spec => []TypeOK`.
* `SequenceInvariant`, `WaveformsInSequence`: `PointsInSequence` is not inductive,
  since it does not say where a list ends. `SequenceInv` adds that each list,
  unless empty, ends just before the position the worker appends next (`NextSeg1`,
  `NextIdx1`, ...). An append keeps it (`AppendMoves`, `AppendKeepsSequence`); every
  other step leaves the positions alone and at most clears a list
  (`ListsOfOtherSteps`).
* `WaveformsEndTogether`: outside a segment both lists wait for the same position,
  and a position has one predecessor.
* `ImplementsRecorder`: `Spec => RecorderSpec`, the refinement, step by step.
* `StackInOrder`: every slot is somewhere in its script, and only the innermost one is
  anywhere but at a sleep or the dialog (`StackInv`). All the theorems about slots rest
  on it, with two lemmas about the scripts: every script but those of the first two
  presses of GOGOGO, `StopStart`, `Continue` and `TEST0` is `Tame` (it neither starts the
  motor or the chart's timer nor asks for a scan, and stops that timer only to clear the
  chart at once), and a step that a slot on the stack has before it (`Due`) stays so until
  it is taken.
* `ChartStaysBlank`: a chart that shows something and is not updated was stopped by the
  second press, or a slot that clears it is on the stack (`ChartInv`); and when one button
  is pressed at a time and `Continue` is not on the panel, the timer runs only between the
  first and the second press, or until a slot on the stack stops it (`TimerInv`). Without
  this condition the theorem only says that the idle chart of the first phase is blank
  unless its timer runs. It excludes `StopStart`, the one slot that stops the chart and
  leaves what it shows, so that `ClearedChartStaysBlank` does not hold of a panel with it.

`AcquisitionValues_proofs`, under the same assumptions:

* `LineInvariant`: while no answer is late there is at most one frame for each waiting
  call, and while the threads keep apart it is the frame of the one call under way, sent
  to the slave it was meant for (`LineInv`).
* `StatusValuesGenuine` follows from it, for any buttons and with losses.
* `WaveformValues`: `WaveInv` adds the value about to be appended. It is for a line
  without losses (`Lossy = FALSE`), since a failed read leaves its zeros in the list.
* `CoilsReleased`: a coil that is raised, or will be when the writes on their way have
  arrived, is lowered by a slot on the stack (`CoilInv`). Also for a line without losses:
  a lost write of 0 leaves the coil up.
* `PointsOfOwnSegment` is the same question with losses: `OwnSegmentInv` says which
  slaves and segments everything on the line and in the buffer may be of. `TEST1`, which
  reads waveforms of its own choice on the worker's context, is excluded.
* `ScanBehindSensor`: `MotorInv` says that in three presses the motor is set going once
  at most, and stands at 0 until then; `FollowInv` that the angle on the line is one the
  sensor has passed. It stops at the fourth press, which starts a second turn, and at the
  first late answer, which is an angle of another time.
* `NoPointFromTheFuture` has neither losses nor late answers excluded, but the slots that
  scan or read waveforms by themselves (`TEST0`, `TEST1`): in three presses one scan at
  most is asked for (`ScanInv`), so that whatever waveform is under way, however late,
  is of a segment that this scan has reached (`PastInv`).

Each hypothesis excludes something that the code does: a lost reply, a second turn, a slot
that reads by itself.

`SettingDialog_proofs` (`DialogAssumption`; any buttons, presses, depth, phases and
pieces of replies) proves all properties of `dialog_use`. Replies lie in buffers in
pieces, so most of the work is about sequences: `Smallest` draws from the library's
theorem on well-founded sets an induction over positions. `Flow` says of each parameter
which values the commands, fields and the motor may hold; `FlowStep` shows once that
every step keeps it for any such sets that are `Closed`, and each property takes its own.
`DialogInv` and `BackInv` say who listens and what is left to read. Then

* `NotMixed`, `FieldsAreFilled`: while a phase routes replies to a field, only that
  field's parameter is asked for (`RouteInv`), and a phase that is over has filled its
  field (`FillInv`). They assume `Prompt`, that the PLC has answered before the timer
  ticks again: without it a reply to one phase arrives in the next, and may fill
  the wrong field.
* `Genuine`, `WholeAcks`: with such a PLC and a user who waits, one command or one reply
  at most is under way, and what has been read of it and what is left make one whole
  reply (`CalmInv`).
* `AppliedTakesEffect`, with or without `Prompt`: what a slot has yet to write is what
  the last apply said, or the command on its way is (`ApplyInv`).

`PlcFrame_proofs` (`FrameAssumption`; every value up to the greatest `int`, every stray
byte) proves all properties of `plc_frames`. Checksum and number are folds; that a fold
is what its steps say is one induction over positions (`FoldExists`), by `Smallest` again.
From it: the sum of the bytes of each literal of the command table, by totals from left
to right (`SumOfTotals`); that writing the two digits does not change the sum they are
of (`WithLrcChecks`); and that eight digits mean the number they were made from
(`EightDigits`, digit by digit, as `16 * (v \div 16 ^ (n + 1))` and the digit make
`v \div 16 ^ n`). `DigitsWritten` is that up to five digits put over zeros are those eight.

`PortSession_proofs` (`PortAssumption`; any ports, handles and presses) proves all
properties of `ports_all`. None of them is inductive. `SessionInv` has four parts:
`PointerInv` (what success and a running worker say of the two pointers),
`NumberInv` (each handle in use or kept was given out, so that only a number given
out again can make the context's closed handle the PLC's), `PlcInv` (one handle at
most is on the PLC's port, which makes a second opening fail) and `RadioInv` (a
handle in use has its object and its flag, so that a radio button opens only when
nothing is lost). One lemma per button shows that it keeps all four.

`ExcelEngine_proofs` (`EngineAssumption`; any files, tables, rows and calls, with or
without names, with or without Excel, failing writes and careless owners) proves all
properties of `reports`. `ObjectInv` ties the pointers to the flags: a workbook is live
exactly while the engine is open, a deleted one has `bIsSaveAlready`, which keeps `Save`
off it, and while no engine has been opened without a name there is no `pExcel` beside it,
which keeps `Close` off it. `BookInv` says which file the workbook belongs to, and that the
rows counted at the opening are those of sheet and file until something is written. That
the rows read are those in use rests on the least of a set of numbers, since `FirstRow` is
a choice, and on the library's facts about subsequences. The two action properties
follow from these.

`ModbusRtu_proofs` (`ProgramsAssumption`, `RtuAssumption`; any programs, sizes of
tables, stray bytes and faults) proves all safety properties of `rtu_calls`, with three
invariants:

* `ReceiveStaysBounded`: the buffer of `receive_msg` cannot be overrun.
  `ReceiveBounded` is not inductive, since only the check after the byte count speaks of
  the limit: `Reach` says how far each step may go before it (two bytes, then nine more),
  and that a reader always waits for something. One lemma per step of a message and one
  per action; most of the work is that pieces of frames stay typed when they are read in
  part, cut or lost.
* `RepliesAreServed` (`ValuesWereSent`): whatever is cut, damaged or late, what the client
  has before it, is reading or has accepted was built by the server for one of its calls
  (`RepliesInv`). The rest is arithmetic: a reply that confirms a call has its function
  and the length its values need, and only a served call has one (`ConfirmedFits`).
* `EndsAgree` (`LegalCallsServed`): an undisturbed line is at rest, or a request, a reply
  or a silence is on its way (`Course`). `Arriving` follows a frame byte by byte: the
  receiver has its beginning, the wire the rest, and what is still asked for ends where the
  function code, the byte count or the frame ends (`Position`), since the length worked out
  by the receiver is the one it was built with (`RequestIsShaped`, `ReplyIsShaped`). The
  server's test of a call agrees with what the limits and the tables allow
  (`ServedIsLegal`), and the client's with both (`OutcomeOfReply`).

`ModbusTcp_proofs` (`TcpAssumption`, `NoneAssumption`; any contexts, socket numbers,
identifiers, calls and breaks, `errno` set or not) proves all its safety properties.
`RepliesMatched` speaks of the last reply accepted; `TidInv` says what makes it so: the identifier of every message under way is
the program's, less the number of requests built since (its age), modulo `TidSpace`, so
that equal identifiers mean equal requests or ages a whole round apart. `OwnInv` adds to
`OwnConnection` that the connections of different contexts have different servers,
hence different numbers, so that closing one leaves the others alone; it is kept
by every step as long as no connect fails. `StaleNeedsTimeout` counts: what is under way
on a context's connection is at most one for each timeout of its calls and one for the
call that waits (`OwedInv`).

Before they were proved, the strengthened invariants were checked with TLC on the
instances of the runs.

Only model-checked: the liveness properties (`ScanEnds`, `SlotsReturn`, `CallsReturn` of
both parts of the library), which like `ENABLED` are out of the prover's reach. The
three violations are TLC's counterexamples.

## 5. Not modelled, and why

Container operations of Qt are atomic in the model: what unlocked concurrent ones
do is undefined. Durations are not modelled: a sleep or a timer may end at any
time. The port setting window is an older copy that nothing opens; the PLC thread is
never started; the database only creates a table at start, and its insert has no
caller; QExcel is not used; drawing, tables, sliders and the clock have no state that a
property is about. Of libmodbus, raw requests, function 7 and a socket set by the
program are left out, and memory that runs out (`modbus_new_rtu` returns NULL then too). Of
the report engine, formatting and `Clear`. What `write` sends behind a frame that contains no zero byte
depends on the linker.

## 6. Plan

Done since the first version: the settings dialog's timer, the test buttons and the
status displays in `Acquisition`; `ModbusTcp`; the second apply and the test box in
`SettingDialog`; the proofs of every safety property.

1. `ModbusLine`, an abstract line of whole frames that `ModbusRtu` implements while
   no frame is cut, which is what `McuLine` assumes.
2. `ReportStore`, an abstract store of reports that `ExcelEngine` implements for
   owners that name every report and open each engine once.
