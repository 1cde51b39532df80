---------------------------- MODULE PortSession ----------------------------
(***************************************************************************)
(* Opening and closing the two serial ports: the button that opens both    *)
(* (on_pushButtonUsartStart_clicked), the two pairs of radio buttons, what *)
(* each of them remembers in a flag of its own, the slots that use the     *)
(* ports, and the worker thread that goes on using the MCU's.              *)
(*                                                                         *)
(* The operating system gives a port to one handle at a time, and may give *)
(* the number of a closed handle to the next port that is opened.          *)
(***************************************************************************)
EXTENDS Integers

CONSTANTS
    Ports,        \* the names in the two combo boxes, unless no port was found at start
    NoPort,       \* the selection in a combo box without entries
    NHandles,     \* bound: handle numbers the system has
    MayFail,      \* may opening a free port fail (unplugged, held by a program)?
    Buttons,      \* what the user may press
    MaxClicks     \* bound: presses in a behaviour

AllButtons == {"UsartStart", "McuClose", "McuOpen", "PlcClose", "PlcOpen",
               "SetZero", "GOGOGO", "Settings", "ChoosePort"}

ASSUME PortAssumption ==
    /\ NoPort \notin Ports
    /\ NHandles \in Nat /\ MaxClicks \in Nat
    /\ MayFail \in BOOLEAN
    /\ Buttons \subseteq AllButtons

VARIABLES
    app,         \* "running", "quitting" (the window was closed) or "crashed"
    owner,       \* system: who holds which port through each handle, or Free
    issued,      \* system: the handle numbers given out so far
    serial,      \* GloableData::serial, the QSerialPort of the PLC
    mb,          \* GloableData::mb, the modbus context of the MCU
    flagUartOpen, flagUartOpenMcu, flagUartOpenPlc,
    polling,     \* is timer_updatastatue active?
    worker,      \* has the McuCommunicateService thread been started?
    touched,     \* what the worker's last transfer reached
    sel,         \* the selections of portCbx_plc and portCbx_stm
    started,     \* history: has the button that opens both ports been pressed?
    moved,       \* history: has a selection been changed?
    reused,      \* history: has the number of a closed handle been given out again?
    clicks       \* presses so far

history == <<started, moved, reused>>
system == <<owner, issued>>
flags  == <<flagUartOpen, flagUartOpenMcu, flagUartOpenPlc>>
mcu    == <<mb, polling, worker>>
vars   == <<app, system, serial, mcu, flags, touched, sel, history, clicks>>

Handles == 1 .. NHandles
Invalid == 0                                    \* INVALID_HANDLE_VALUE
Free    == [by |-> "nobody", port |-> "none"]
Hold(by, p) == [by |-> by, port |-> p]

\* A pointer that is NULL, or an object and the handle it keeps.
NULL    == [null |-> TRUE, fd |-> Invalid, isOpen |-> FALSE]
Port(h) == [null |-> FALSE, fd |-> h, isOpen |-> h # Invalid]

----------------------------------------------------------------------------
(* The system. *)

\* What opening port p may yield when the handles are held as own says.
Opened(own, p) ==
    IF p = NoPort \/ \E h \in Handles : own[h].port = p
    THEN {Invalid}
    ELSE {h \in Handles : own[h] = Free} \cup (IF MayFail THEN {Invalid} ELSE {})

With(own, h, who)  == IF h = Invalid THEN own ELSE [own EXCEPT ![h] = who]

\* The numbers given out, and whether one of them was given out before.
Issue(hs) == /\ issued' = issued \cup (hs \ {Invalid})
             /\ reused' = (reused \/ hs \cap issued # {})

\* CloseHandle sees only the number.
Without(own, h) == IF h = Invalid THEN own ELSE [own EXCEPT ![h] = Free]

----------------------------------------------------------------------------
(* The slots of the ports. *)

\* Mutated form: the port object is stored before it is known to be open.
StoredUnchecked(h) == Port(h)

\* initPlcSerialService: the new port is stored only if it opened.
SerialAfter(h) == IF h = Invalid THEN serial ELSE Port(h)

\* Mutated form: a context that could not be connected is dropped.
NullUnlessConnected(h) == IF h = Invalid THEN NULL ELSE Port(h)

\* Mutated form: the MCU is looked for on the port selected for the PLC.
PlcPortForMcu == sel.plc

McuPort == sel.mcu

\* modbus_new_rtu returns NULL for an empty name, and initMcuSerialService returns.
NoContext == McuPort = NoPort

\* Else it stores the context, whatever modbus_connect returned.
ContextAfter(h) == IF NoContext THEN mb ELSE Port(h)

\* The failed open closes the window; then serial->isOpen() is asked, of NULL if no
\* port was ever opened.
AppAfter(h) == IF SerialAfter(h) = NULL THEN "crashed"
               ELSE IF h = Invalid THEN "quitting" ELSE "running"

\* connect and start of the worker.
McuOpened(own, h) ==
    /\ owner' = With(own, h, Hold("mcu", McuPort))
    /\ mb' = ContextAfter(h)
    /\ worker' = (worker \/ ~NoContext)

PlcOpened(h) == With(owner, h, Hold("plc", sel.plc))

\* Mutated form: the flag is not looked at.
McuFlagIgnored == TRUE

McuFlagDown == flagUartOpenMcu = 0

McuOpen ==
    /\ IF McuFlagDown
       THEN \E h \in Opened(owner, McuPort) :
               /\ McuOpened(owner, h)
               /\ Issue({h})
               /\ flagUartOpenMcu' = IF mb' # NULL THEN 1 ELSE flagUartOpenMcu
               /\ polling' = (polling \/ mb' # NULL)
               /\ app' = IF NoContext THEN "quitting" ELSE app
       ELSE UNCHANGED <<app, system, mcu, flagUartOpenMcu, reused>>
    /\ UNCHANGED <<serial, flagUartOpen, flagUartOpenPlc>>

\* modbus_close leaves the handle in the context, and the timer and the worker run on.
McuClose ==
    /\ owner' = Without(owner, mb.fd)
    /\ flagUartOpenMcu' = 0
    /\ UNCHANGED <<app, issued, reused, serial, mcu, flagUartOpen, flagUartOpenPlc>>

PlcOpen ==
    /\ IF flagUartOpenPlc = 0
       THEN \E h \in Opened(owner, sel.plc) :
               /\ owner' = PlcOpened(h)
               /\ Issue({h})
               /\ serial' = SerialAfter(h)
               /\ app' = AppAfter(h)
               /\ flagUartOpenPlc' = IF serial'.isOpen THEN 1 ELSE 0
       ELSE UNCHANGED <<app, system, serial, flagUartOpenPlc, reused>>
    /\ UNCHANGED <<mcu, flagUartOpen, flagUartOpenMcu>>

\* Mutated forms: the flag stays up; the port object is deleted.
FlagStaysUp == flagUartOpenPlc
Deleted     == NULL

PlcFlagDown  == 0
SerialClosed == [serial EXCEPT !.isOpen = FALSE]

\* QSerialPort::close does nothing unless the port is open.
PlcClose ==
    /\ IF serial = NULL
       THEN app' = "crashed" /\ UNCHANGED <<owner, serial, flagUartOpenPlc>>
       ELSE /\ owner' = IF serial.isOpen THEN Without(owner, serial.fd) ELSE owner
            /\ serial' = SerialClosed
            /\ flagUartOpenPlc' = PlcFlagDown
            /\ UNCHANGED app
    /\ UNCHANGED <<issued, reused, mcu, flagUartOpen, flagUartOpenMcu>>

\* Either service that fails closes the window. The equality of the two selections is
\* looked at afterwards, and before the PLC's port object.
AppAfterBoth(hp) ==
    IF sel.mcu = sel.plc \/ (NoContext /\ AppAfter(hp) = "running")
    THEN "quitting" ELSE AppAfter(hp)

\* on_pushButtonUsartStart_clicked: both services are opened, whatever becomes of the
\* first.
UsartStart ==
    /\ IF flagUartOpen = 1
       THEN UNCHANGED <<app, system, serial, mb, worker, flagUartOpen, reused>>
       ELSE \E hp \in Opened(owner, sel.plc) :
            \E hm \in Opened(PlcOpened(hp), McuPort) :
               /\ McuOpened(PlcOpened(hp), hm)
               /\ Issue({hp, hm})
               /\ serial' = SerialAfter(hp)
               /\ app' = AppAfterBoth(hp)
               /\ flagUartOpen' =
                    IF sel.mcu # sel.plc /\ serial'.isOpen /\ mb' # NULL
                    THEN 1 ELSE flagUartOpen
    /\ UNCHANGED <<polling, flagUartOpenMcu, flagUartOpenPlc>>

----------------------------------------------------------------------------
(* The slots that use the ports, and the worker. *)

\* The pointers a slot dereferences; none of the slots looks at them first (the
\* settings dialog on the first tick of its timer, if it is still open then).
Needs(b) == CASE b = "SetZero"  -> {mb}
              [] b = "GOGOGO"   -> {serial}
              [] b = "Settings" -> {mb, serial}

Use(b) ==
    /\ b \in {"SetZero", "GOGOGO", "Settings"}
    /\ \/ app' = IF NULL \in Needs(b) THEN "crashed" ELSE app
       \/ b = "Settings" /\ UNCHANGED app
    /\ UNCHANGED <<system, serial, mcu, flags, reused>>

\* The boxes are filled once, when the panel is made.
Choices(p) == IF p = NoPort THEN {NoPort} ELSE Ports

ChoosePort ==
    /\ sel' \in [plc: Choices(sel.plc), mcu: Choices(sel.mcu)]
    /\ UNCHANGED <<app, system, serial, mcu, flags, reused>>

Press(b) ==
    /\ app = "running" /\ clicks < MaxClicks
    /\ clicks' = clicks + 1
    /\ started' = (started \/ b = "UsartStart")
    /\ moved' = (moved \/ b = "ChoosePort")
    /\ \/ b = "UsartStart" /\ UsartStart /\ UNCHANGED sel
       \/ b = "McuOpen"    /\ McuOpen    /\ UNCHANGED sel
       \/ b = "McuClose"   /\ McuClose   /\ UNCHANGED sel
       \/ b = "PlcOpen"    /\ PlcOpen    /\ UNCHANGED sel
       \/ b = "PlcClose"   /\ PlcClose   /\ UNCHANGED sel
       \/ b = "ChoosePort" /\ ChoosePort
       \/ Use(b)           /\ UNCHANGED sel
    /\ UNCHANGED touched

\* The thread takes a command from the queue and talks through the context's handle,
\* or through NULL if there is no context.
WorkerTransfer ==
    /\ worker /\ app # "crashed"
    /\ app' = IF mb = NULL THEN "crashed" ELSE app
    /\ touched' = IF mb.fd = Invalid THEN Free ELSE owner[mb.fd]
    /\ UNCHANGED <<system, serial, mcu, flags, sel, history, clicks>>

Init ==
    /\ app = "running"
    /\ owner = [h \in Handles |-> Free] /\ issued = {}
    /\ serial = NULL /\ mb = NULL
    /\ flagUartOpen = 0 /\ flagUartOpenMcu = 0 /\ flagUartOpenPlc = 0
    /\ polling = FALSE /\ worker = FALSE /\ touched = Free
    /\ sel \in [plc: Ports \cup {NoPort}, mcu: Ports \cup {NoPort}]
    /\ started = FALSE /\ moved = FALSE /\ reused = FALSE /\ clicks = 0

Next == (\E b \in Buttons : Press(b)) \/ WorkerTransfer

Spec == Init /\ [][Next]_vars

----------------------------------------------------------------------------
(* Properties. *)

Holders == {Free} \cup [by: {"plc", "mcu"}, port: Ports \cup {NoPort}]
Objects == [null: BOOLEAN, fd: Handles \cup {Invalid}, isOpen: BOOLEAN]

\* Every variable has its type.
TypeOK ==
    /\ app \in {"running", "quitting", "crashed"}
    /\ owner \in [Handles -> Holders] /\ issued \subseteq Handles
    /\ serial \in Objects /\ mb \in Objects
    /\ flagUartOpen \in {0, 1} /\ flagUartOpenMcu \in {0, 1} /\ flagUartOpenPlc \in {0, 1}
    /\ polling \in BOOLEAN /\ worker \in BOOLEAN
    /\ touched \in Holders
    /\ sel \in [plc: Ports \cup {NoPort}, mcu: Ports \cup {NoPort}]
    /\ started \in BOOLEAN /\ moved \in BOOLEAN /\ reused \in BOOLEAN
    /\ clicks \in Nat

\* The status timer fills a queue that somebody empties, and the worker and the
\* timer never meet a NULL context, in whatever order and with whatever success
\* the ports were opened and closed (initMcuSerialService, McuCommunicateService).
PollingIsServed == /\ polling => worker
                   /\ worker => mb # NULL

\* Once the open button has reported success, no slot ever meets a NULL pointer,
\* whatever the radio buttons do afterwards.
NoCrashAfterStart == flagUartOpen = 1 => app # "crashed"

\* With the radio buttons alone no port is lost: each open handle is the one in
\* GloableData, so closing can release it (GroupMcuUartRadioClick,
\* GroupPlcUartRadioClick and the flags they guard themselves with).
NoHandleLost ==
    ~started => \A h \in Handles : owner[h] # Free => h \in {serial.fd, mb.fd}

\* With the selections left alone, no order of the button and the radios loses the
\* PLC's port: the handle on it is the one in GloableData (initPlcSerialService).
PlcHandleKept ==
    ~moved => \A h \in Handles :
                 owner[h].by = "plc" => serial.fd = h /\ serial.isOpen

\* As long as the system gives out no handle number again, the PLC radio says "open"
\* only of a port object that is open and whose handle refers to a PLC port.  (The
\* MCU's context keeps a closed handle, and closes it again.)
PlcFlagTrue ==
    ~reused /\ flagUartOpenPlc = 1 => serial.isOpen /\ owner[serial.fd].by = "plc"

\* Nor do the worker's modbus frames go to the PLC then: they go to the port selected
\* for the MCU, or nowhere, also after that port was closed.
WorkerKeepsOffPlc ==
    ~reused => /\ touched.by # "plc"
               /\ ~moved => touched.port \in {"none", sel.mcu}

=============================================================================
