------------------------- MODULE PortSession_proofs -------------------------
(***************************************************************************)
(* Proofs about PortSession for every set of ports, buttons and handles,   *)
(* and any number of presses.                                              *)
(***************************************************************************)
EXTENDS PortSession, TLAPS

\* An opening that succeeds yields a handle nobody has, and nobody had the port.
LEMMA OpenedIsFree ==
    ASSUME NEW own, NEW p, NEW h \in Opened(own, p)
    PROVE  \/ h = Invalid
           \/ /\ h \in Handles /\ own[h] = Free
              /\ \A k \in Handles : own[k].port # p
  BY DEF Opened

LEMMA InvalidIsNoHandle == Invalid \notin Handles
  BY DEF Invalid, Handles

\* What the operations on the table of handles return.
LEMMA HandleTypes ==
    ASSUME NEW own \in [Handles -> Holders], NEW h \in Handles \cup {Invalid},
           NEW who \in Holders
    PROVE  /\ With(own, h, who) \in [Handles -> Holders]
           /\ Without(own, h) \in [Handles -> Holders]
  BY DEF With, Without, Holders

LEMMA HoldTypes ==
    ASSUME NEW by \in {"plc", "mcu"}, NEW p \in Ports \cup {NoPort}
    PROVE  Hold(by, p) \in Holders
  BY DEF Hold, Holders

LEMMA PortTypes ==
    /\ NULL \in Objects
    /\ \A h \in Handles \cup {Invalid} : Port(h) \in Objects
  BY DEF NULL, Objects, Port

\* Each step of the system is one of these.
LEMMA Steps ==
    ASSUME [Next]_vars
    PROVE  \/ \E b \in Buttons :
                 /\ Press(b)
                 /\ \/ b = "UsartStart" /\ UsartStart /\ UNCHANGED sel
                    \/ McuOpen /\ UNCHANGED sel
                    \/ McuClose /\ UNCHANGED sel
                    \/ PlcOpen /\ UNCHANGED sel
                    \/ PlcClose /\ UNCHANGED sel
                    \/ b = "ChoosePort" /\ ChoosePort
                    \/ Use(b) /\ UNCHANGED sel
           \/ WorkerTransfer
           \/ UNCHANGED vars
  BY DEF Next, Press

-----------------------------------------------------------------------------
(* Type correctness. *)

LEMMA UsartStartTypes ==
    ASSUME TypeOK, UsartStart, UNCHANGED sel
    PROVE  /\ owner' \in [Handles -> Holders] /\ issued' \subseteq Handles
           /\ app' \in {"running", "quitting", "crashed"}
           /\ serial' \in Objects /\ mb' \in Objects
           /\ flagUartOpen' \in {0, 1} /\ worker' \in BOOLEAN /\ reused' \in BOOLEAN
  <1>1. CASE flagUartOpen = 1
    BY <1>1 DEF UsartStart, TypeOK, system
  <1>2. CASE flagUartOpen # 1
    <2>1. PICK hp \in Opened(owner, sel.plc) :
          \E hm \in Opened(PlcOpened(hp), McuPort) :
            /\ McuOpened(PlcOpened(hp), hm)
            /\ Issue({hp, hm})
            /\ serial' = SerialAfter(hp)
            /\ app' = AppAfterBoth(hp)
            /\ flagUartOpen' =
                  IF sel.mcu # sel.plc /\ serial'.isOpen /\ mb' # NULL
                  THEN 1 ELSE flagUartOpen
      BY <1>2, Zenon DEF UsartStart
    <2>2. PICK hm \in Opened(PlcOpened(hp), McuPort) :
            /\ McuOpened(PlcOpened(hp), hm)
            /\ Issue({hp, hm})
            /\ serial' = SerialAfter(hp)
            /\ app' = AppAfterBoth(hp)
            /\ flagUartOpen' =
                  IF sel.mcu # sel.plc /\ serial'.isOpen /\ mb' # NULL
                  THEN 1 ELSE flagUartOpen
      BY <2>1, Zenon
    <2>3. hp \in Handles \cup {Invalid} /\ hm \in Handles \cup {Invalid}
      BY OpenedIsFree
    <2>4. Hold("plc", sel.plc) \in Holders /\ Hold("mcu", McuPort) \in Holders
      BY HoldTypes DEF TypeOK, McuPort
    <2>5. PlcOpened(hp) \in [Handles -> Holders]
      BY <2>3, <2>4, HandleTypes DEF TypeOK, PlcOpened
    <2>6. owner' \in [Handles -> Holders]
      BY <2>2, <2>3, <2>4, <2>5, HandleTypes DEF McuOpened
    <2>7. serial' \in Objects /\ mb' \in Objects /\ worker' \in BOOLEAN
      BY <2>2, <2>3, PortTypes DEF TypeOK, SerialAfter, McuOpened, ContextAfter
    <2>8. issued' \subseteq Handles /\ reused' \in BOOLEAN
      BY <2>2, <2>3 DEF Issue, TypeOK
    <2>9. app' \in {"running", "quitting", "crashed"} /\ flagUartOpen' \in {0, 1}
      BY <2>2 DEF AppAfterBoth, AppAfter, TypeOK
    <2> QED BY <2>6, <2>7, <2>8, <2>9
  <1> QED BY <1>1, <1>2

\* Every variable keeps its type, whatever the system, the user and the worker do.
THEOREM TypeCorrect == Spec => []TypeOK
  <1>1. Init => TypeOK
    <2> SUFFICES ASSUME Init PROVE TypeOK
      OBVIOUS
    <2>1. NULL \in Objects
      BY PortTypes
    <2>2. Free \in Holders
      BY DEF Holders
    <2>3. owner \in [Handles -> Holders]
      BY <2>2 DEF Init
    <2> QED BY <2>1, <2>2, <2>3 DEF Init, TypeOK
  <1>2. TypeOK /\ [Next]_vars => TypeOK'
    <2> SUFFICES ASSUME TypeOK, [Next]_vars PROVE TypeOK'
      OBVIOUS
    <2>1. ASSUME NEW b \in Buttons, Press(b),
                 \/ b = "UsartStart" /\ UsartStart /\ UNCHANGED sel
                 \/ McuOpen /\ UNCHANGED sel
                 \/ McuClose /\ UNCHANGED sel
                 \/ PlcOpen /\ UNCHANGED sel
                 \/ PlcClose /\ UNCHANGED sel
                 \/ b = "ChoosePort" /\ ChoosePort
                 \/ Use(b) /\ UNCHANGED sel
          PROVE  TypeOK'
      <3>0. /\ clicks' \in Nat /\ started' \in BOOLEAN /\ moved' \in BOOLEAN
            /\ touched' \in Holders
        BY <2>1 DEF TypeOK, Press
      <3>1. CASE UsartStart /\ UNCHANGED sel
        <4>1. UNCHANGED <<polling, flagUartOpenMcu, flagUartOpenPlc>>
          BY <3>1 DEF UsartStart
        <4> QED BY <3>0, <3>1, <4>1, UsartStartTypes DEF TypeOK
      <3>2. CASE McuOpen /\ UNCHANGED sel
        <4>1. CASE McuFlagDown
          <5>1. PICK h \in Opened(owner, McuPort) :
                  /\ McuOpened(owner, h)
                  /\ Issue({h})
                  /\ flagUartOpenMcu' = IF mb' # NULL THEN 1 ELSE flagUartOpenMcu
                  /\ polling' = (polling \/ mb' # NULL)
                  /\ app' = IF NoContext THEN "quitting" ELSE app
            BY <3>2, <4>1 DEF McuOpen
          <5>2. h \in Handles \cup {Invalid}
            BY OpenedIsFree
          <5>3. Hold("mcu", McuPort) \in Holders
            BY HoldTypes DEF TypeOK, McuPort
          <5>4. owner' \in [Handles -> Holders]
            BY <5>1, <5>2, <5>3, HandleTypes DEF McuOpened, TypeOK
          <5>5. /\ mb' \in Objects /\ worker' \in BOOLEAN /\ polling' \in BOOLEAN
                /\ app' \in {"running", "quitting", "crashed"}
            BY <5>1, <5>2, PortTypes DEF McuOpened, ContextAfter, TypeOK
          <5>6. issued' \subseteq Handles /\ reused' \in BOOLEAN
            BY <5>1, <5>2 DEF Issue, TypeOK
          <5>7. UNCHANGED <<serial, flagUartOpen, flagUartOpenPlc>>
            BY <3>2 DEF McuOpen
          <5> QED BY <3>0, <3>2, <5>1, <5>4, <5>5, <5>6, <5>7 DEF TypeOK
        <4>2. CASE ~McuFlagDown
          BY <3>0, <3>2, <4>2 DEF McuOpen, TypeOK, system, mcu
        <4> QED BY <4>1, <4>2
      <3>3. CASE McuClose /\ UNCHANGED sel
        <4>1. owner' \in [Handles -> Holders]
          BY <3>3, HandleTypes, HoldTypes DEF McuClose, TypeOK, Objects, Without, Holders
        <4> QED BY <3>0, <3>3, <4>1 DEF McuClose, TypeOK, mcu
      <3>4. CASE PlcOpen /\ UNCHANGED sel
        <4>1. CASE flagUartOpenPlc = 0
          <5>1. PICK h \in Opened(owner, sel.plc) :
                  /\ owner' = PlcOpened(h)
                  /\ Issue({h})
                  /\ serial' = SerialAfter(h)
                  /\ app' = AppAfter(h)
                  /\ flagUartOpenPlc' = IF serial'.isOpen THEN 1 ELSE 0
            BY <3>4, <4>1 DEF PlcOpen
          <5>2. h \in Handles \cup {Invalid}
            BY OpenedIsFree
          <5>3. Hold("plc", sel.plc) \in Holders
            BY HoldTypes DEF TypeOK
          <5>4. owner' \in [Handles -> Holders]
            BY <5>1, <5>2, <5>3, HandleTypes DEF PlcOpened, TypeOK
          <5>5. serial' \in Objects
            BY <5>1, <5>2, PortTypes DEF SerialAfter, TypeOK
          <5>6. issued' \subseteq Handles /\ reused' \in BOOLEAN
            BY <5>1, <5>2 DEF Issue, TypeOK
          <5>7. app' \in {"running", "quitting", "crashed"} /\ flagUartOpenPlc' \in {0, 1}
            BY <5>1 DEF AppAfter
          <5>8. UNCHANGED <<mb, polling, worker, flagUartOpen, flagUartOpenMcu>>
            BY <3>4 DEF PlcOpen, mcu
          <5> QED BY <3>0, <3>4, <5>4, <5>5, <5>6, <5>7, <5>8 DEF TypeOK
        <4>2. CASE flagUartOpenPlc # 0
          BY <3>0, <3>4, <4>2 DEF PlcOpen, TypeOK, system, mcu
        <4> QED BY <4>1, <4>2
      <3>5. CASE PlcClose /\ UNCHANGED sel
        <4>1. owner' \in [Handles -> Holders]
          BY <3>5, HandleTypes DEF PlcClose, TypeOK, Objects, Without, Holders
        <4>2. serial' \in Objects /\ flagUartOpenPlc' \in {0, 1}
          BY <3>5 DEF PlcClose, TypeOK, Objects, SerialClosed, PlcFlagDown
        <4> QED BY <3>0, <3>5, <4>1, <4>2 DEF PlcClose, TypeOK, mcu
      <3>6. CASE ChoosePort
        <4>1. sel' \in [plc: Ports \cup {NoPort}, mcu: Ports \cup {NoPort}]
          BY <3>6 DEF ChoosePort, Choices
        <4> QED BY <3>0, <3>6, <4>1 DEF ChoosePort, TypeOK, system, mcu, flags
      <3>7. CASE Use(b) /\ UNCHANGED sel
        BY <3>0, <3>7 DEF Use, TypeOK, system, mcu, flags
      <3> QED BY <2>1, <3>1, <3>2, <3>3, <3>4, <3>5, <3>6, <3>7
    <2>2. CASE WorkerTransfer
      <3>1. touched' \in Holders
        BY <2>2 DEF WorkerTransfer, TypeOK, Objects, Holders
      <3> QED BY <2>2, <3>1
              DEF WorkerTransfer, TypeOK, system, mcu, flags, history
    <2>3. CASE UNCHANGED vars
      BY <2>3 DEF vars, TypeOK, system, mcu, flags, history
    <2> QED BY <2>1, <2>2, <2>3, Steps
  <1> QED BY <1>1, <1>2, PTL DEF Spec

-----------------------------------------------------------------------------
(* The invariant of the session, in four parts. *)

\* Pointers: a context exists exactly if the worker runs, and both objects once the
\* open button has reported success.
PointerInv ==
    /\ polling => worker
    /\ worker => ~mb.null
    /\ mb = NULL \/ (~mb.null /\ worker)
    /\ serial.isOpen => ~serial.null
    /\ flagUartOpen = 1 => ~serial.null /\ ~mb.null /\ app # "crashed"

\* Numbers: while none is given out again, the handle in each object is its own.
NumberInv ==
    /\ \A h \in Handles : owner[h] # Free => h \in issued
    /\ mb.fd # Invalid => mb.fd \in issued
    /\ serial.isOpen => serial.fd \in issued
    /\ flagUartOpenPlc = 1 => serial.isOpen
    /\ ~reused =>
          /\ serial.isOpen => owner[serial.fd].by = "plc"
          /\ mb.fd # Invalid =>
                /\ owner[mb.fd].by # "plc"
                /\ ~moved => owner[mb.fd].port \in {"none", sel.mcu}
          /\ touched.by # "plc"
          /\ ~moved => touched.port \in {"none", sel.mcu}

\* The PLC's port: with the selections left alone one handle at most is on it.
PlcInv ==
    ~moved => \A h \in Handles :
                 owner[h].by = "plc" =>
                    serial.fd = h /\ serial.isOpen /\ owner[h].port = sel.plc

\* The radio buttons alone: a handle in use has its object and its flag.
RadioInv ==
    ~started => \A h \in Handles :
                   owner[h] # Free => \/ h = serial.fd /\ flagUartOpenPlc = 1
                                      \/ h = mb.fd /\ flagUartOpenMcu = 1

SessionInv == PointerInv /\ NumberInv /\ PlcInv /\ RadioInv

\* What a press leaves of the history.
LEMMA History ==
    ASSUME NEW b, Press(b)
    PROVE  /\ started => started'
           /\ moved => moved'
           /\ b = "UsartStart" => started'
           /\ b = "ChoosePort" => moved'
           /\ UNCHANGED touched
           /\ app = "running"
  BY DEF Press

LEMMA McuOpenKeeps ==
    ASSUME TypeOK, SessionInv, NEW b, Press(b), McuOpen, UNCHANGED sel
    PROVE  SessionInv'
  <1>0. /\ (started => started') /\ (moved => moved') /\ UNCHANGED <<touched, sel>>
        /\ app = "running"
    BY History
  <1>1. UNCHANGED <<serial, flagUartOpen, flagUartOpenPlc>>
    BY DEF McuOpen
  <1>2. CASE McuFlagDown
    <2>1. PICK h \in Opened(owner, McuPort) :
            /\ McuOpened(owner, h)
            /\ Issue({h})
            /\ flagUartOpenMcu' = IF mb' # NULL THEN 1 ELSE flagUartOpenMcu
            /\ polling' = (polling \/ mb' # NULL)
            /\ app' = IF NoContext THEN "quitting" ELSE app
      BY <1>2 DEF McuOpen
    <2>2. \/ h = Invalid /\ owner' = owner
          \/ /\ h \in Handles /\ owner[h] = Free
             /\ owner' = [owner EXCEPT ![h] = Hold("mcu", sel.mcu)]
      BY <2>1, OpenedIsFree, InvalidIsNoHandle DEF McuOpened, With, McuPort
    <2>3. \/ ~mb'.null /\ mb'.fd = h /\ mb' # NULL /\ worker' = TRUE
          \/ h = Invalid /\ UNCHANGED <<mb, worker>>
      <3>1. CASE NoContext
        BY <2>1, <3>1 DEF McuOpened, ContextAfter, Opened, NoContext, TypeOK
      <3>2. CASE ~NoContext
        BY <2>1, <3>2 DEF McuOpened, ContextAfter, Port, NULL
      <3> QED BY <3>1, <3>2
    <2>4. issued' = issued \cup ({h} \ {Invalid}) /\ reused' = (reused \/ {h} \cap issued # {})
      BY <2>1 DEF Issue
    <2>5. PointerInv'
      <3>1. app' # "crashed"
        BY <1>0, <2>1
      <3>2. (polling' => polling \/ mb' # NULL) /\ (NULL.null = TRUE)
        BY <2>1 DEF NULL
      <3> QED BY <1>1, <2>3, <3>1, <3>2 DEF SessionInv, PointerInv
    <2>6. NumberInv'
      <3>1. CASE ~mb'.null /\ mb'.fd = h
        BY <1>0, <1>1, <2>2, <2>4, <3>1, InvalidIsNoHandle
           DEF SessionInv, NumberInv, TypeOK, Hold, Free
      <3>2. CASE h = Invalid /\ UNCHANGED mb
        <4>1. issued' = issued /\ reused' = reused /\ owner' = owner
          BY <2>2, <2>4, <3>2, InvalidIsNoHandle DEF TypeOK
        <4> QED BY <1>0, <1>1, <3>2, <4>1 DEF SessionInv, NumberInv
      <3> QED BY <2>3, <3>1, <3>2
    <2>7. PlcInv'
      BY <1>0, <1>1, <2>2 DEF SessionInv, PlcInv, TypeOK, Hold
    <2>8. flagUartOpenMcu = 0 /\ (h # Invalid => flagUartOpenMcu' = 1)
      BY <1>2, <2>1, <2>3 DEF McuFlagDown
    <2>9. RadioInv'
      <3>1. CASE ~mb'.null /\ mb'.fd = h
        BY <1>0, <1>1, <2>2, <2>8, <3>1, InvalidIsNoHandle DEF SessionInv, RadioInv, TypeOK
      <3>2. CASE h = Invalid /\ UNCHANGED mb
        BY <1>0, <1>1, <2>2, <2>8, <3>2, InvalidIsNoHandle DEF SessionInv, RadioInv
      <3> QED BY <2>3, <3>1, <3>2
    <2> QED BY <2>5, <2>6, <2>7, <2>9 DEF SessionInv
  <1>3. CASE ~McuFlagDown
    <2>1. UNCHANGED <<app, owner, issued, mb, polling, worker, flagUartOpenMcu, reused>>
      BY <1>3 DEF McuOpen, system, mcu
    <2> QED BY <1>0, <1>1, <2>1
            DEF SessionInv, PointerInv, NumberInv, PlcInv, RadioInv
  <1> QED BY <1>2, <1>3

\* The handle the context keeps is not the PLC's while no number is given out again,
\* so closing it twice hurts nobody.
LEMMA McuCloseKeeps ==
    ASSUME TypeOK, SessionInv, NEW b, Press(b), McuClose, UNCHANGED sel
    PROVE  SessionInv'
  <1>0. /\ (started => started') /\ (moved => moved') /\ UNCHANGED <<touched, sel>>
    BY History
  <1>1. /\ UNCHANGED <<app, issued, reused, serial, flagUartOpen, flagUartOpenPlc>>
        /\ UNCHANGED <<mb, polling, worker>>
        /\ flagUartOpenMcu' = 0
    BY DEF McuClose, mcu
  <1>2. \/ mb.fd = Invalid /\ owner' = owner
        \/ mb.fd \in Handles /\ owner' = [owner EXCEPT ![mb.fd] = Free]
    BY DEF McuClose, Without, TypeOK, Objects
  <1>3. PointerInv'
    BY <1>1 DEF SessionInv, PointerInv
  <1>4. NumberInv'
    BY <1>0, <1>1, <1>2, InvalidIsNoHandle DEF SessionInv, NumberInv, TypeOK, Free
  <1>5. PlcInv'
    BY <1>0, <1>1, <1>2 DEF SessionInv, PlcInv, TypeOK, Free
  <1>6. RadioInv'
    BY <1>0, <1>1, <1>2, InvalidIsNoHandle DEF SessionInv, RadioInv, TypeOK
  <1> QED BY <1>3, <1>4, <1>5, <1>6 DEF SessionInv

\* A second opening of the PLC's port fails while the first handle is on it.
LEMMA PlcOpenKeeps ==
    ASSUME TypeOK, SessionInv, NEW b, Press(b), PlcOpen, UNCHANGED sel
    PROVE  SessionInv'
  <1>0. /\ (started => started') /\ (moved => moved') /\ UNCHANGED <<touched, sel>>
    BY History
  <1>1. UNCHANGED <<mb, polling, worker, flagUartOpen, flagUartOpenMcu>>
    BY DEF PlcOpen, mcu
  <1>2. CASE flagUartOpenPlc = 0
    <2>1. PICK h \in Opened(owner, sel.plc) :
            /\ owner' = PlcOpened(h)
            /\ Issue({h})
            /\ serial' = SerialAfter(h)
            /\ app' = AppAfter(h)
            /\ flagUartOpenPlc' = IF serial'.isOpen THEN 1 ELSE 0
      BY <1>2 DEF PlcOpen
    <2>2. \/ /\ h = Invalid /\ owner' = owner /\ serial' = serial
          \/ /\ h \in Handles /\ owner[h] = Free
             /\ \A k \in Handles : owner[k].port # sel.plc
             /\ owner' = [owner EXCEPT ![h] = Hold("plc", sel.plc)]
             /\ ~serial'.null /\ serial'.fd = h /\ serial'.isOpen
      BY <2>1, OpenedIsFree, InvalidIsNoHandle DEF PlcOpened, With, SerialAfter, Port
    <2>3. issued' = issued \cup ({h} \ {Invalid}) /\ reused' = (reused \/ {h} \cap issued # {})
      BY <2>1 DEF Issue
    <2>4. flagUartOpenPlc' = 1 <=> serial'.isOpen
      BY <2>1
    <2>5. ~serial.null => (~serial'.null /\ app' # "crashed")
      BY <2>1, <2>2 DEF AppAfter, SerialAfter, NULL, Port
    <2>6. PointerInv'
      BY <1>1, <2>2, <2>5 DEF SessionInv, PointerInv
    <2>7. NumberInv'
      <3>1. CASE h = Invalid
        BY <1>0, <1>1, <2>2, <2>3, <2>4, <3>1, InvalidIsNoHandle
           DEF SessionInv, NumberInv
      <3>2. CASE h # Invalid
        <4>1. /\ h \in Handles /\ owner[h] = Free /\ serial'.fd = h /\ serial'.isOpen
              /\ owner' = [owner EXCEPT ![h] = Hold("plc", sel.plc)]
              /\ h \in issued'
          BY <2>2, <2>3, <3>2
        <4>2. ~reused' => ~reused /\ h \notin issued
          BY <2>3
        <4>3. ~reused' => mb.fd # h
          BY <4>2, <3>2 DEF SessionInv, NumberInv
        <4>4. owner'[h].by = "plc" /\ (\A k \in Handles : k # h => owner'[k] = owner[k])
          BY <4>1 DEF TypeOK, Hold
        <4>5. mb.fd \in Handles \cup {Invalid}
          BY DEF TypeOK, Objects
        <4>6. \A k \in Handles : owner'[k] # Free => k \in issued'
          BY <2>3, <4>1, <4>4 DEF SessionInv, NumberInv
        <4> QED BY <1>0, <1>1, <2>3, <4>1, <4>2, <4>3, <4>4, <4>5, <4>6
                DEF SessionInv, NumberInv
      <3> QED BY <3>1, <3>2
    <2>8. PlcInv'
      BY <1>0, <1>1, <2>2 DEF SessionInv, PlcInv, TypeOK, Hold
    <2>9. RadioInv'
      BY <1>0, <1>1, <1>2, <2>2, <2>4 DEF SessionInv, RadioInv, TypeOK
    <2> QED BY <2>6, <2>7, <2>8, <2>9 DEF SessionInv
  <1>3. CASE flagUartOpenPlc # 0
    <2>1. UNCHANGED <<app, owner, issued, serial, flagUartOpenPlc, reused>>
      BY <1>3 DEF PlcOpen, system
    <2> QED BY <1>0, <1>1, <2>1
            DEF SessionInv, PointerInv, NumberInv, PlcInv, RadioInv
  <1> QED BY <1>2, <1>3

LEMMA PlcCloseKeeps ==
    ASSUME TypeOK, SessionInv, NEW b, Press(b), PlcClose, UNCHANGED sel
    PROVE  SessionInv'
  <1>0. /\ (started => started') /\ (moved => moved') /\ UNCHANGED <<touched, sel>>
    BY History
  <1>1. /\ UNCHANGED <<issued, reused, mb, polling, worker>>
        /\ UNCHANGED <<flagUartOpen, flagUartOpenMcu>>
    BY DEF PlcClose, mcu
  <1>2. CASE serial = NULL
    <2>1. UNCHANGED <<owner, serial, flagUartOpenPlc>>
      BY <1>2 DEF PlcClose
    <2>2. serial.null
      BY <1>2 DEF NULL
    <2> QED BY <1>0, <1>1, <2>1, <2>2
            DEF SessionInv, PointerInv, NumberInv, PlcInv, RadioInv
  <1>3. CASE serial # NULL
    <2>1. /\ owner' = IF serial.isOpen THEN Without(owner, serial.fd) ELSE owner
          /\ flagUartOpenPlc' = 0 /\ UNCHANGED app
      BY <1>3 DEF PlcClose, PlcFlagDown
    <2>2. serial'.null = serial.null /\ serial'.fd = serial.fd /\ ~serial'.isOpen
      BY <1>3 DEF PlcClose, SerialClosed, TypeOK, Objects
    <2>3. \/ serial.isOpen /\ serial.fd \in Handles
                           /\ owner' = [owner EXCEPT ![serial.fd] = Free]
          \/ ~serial.isOpen /\ owner' = owner
      BY <2>1, InvalidIsNoHandle DEF Without, SessionInv, NumberInv, TypeOK
    <2>4. PointerInv'
      BY <1>1, <2>1, <2>2 DEF SessionInv, PointerInv
    <2>5. NumberInv'
      <3>1. mb.fd \in Handles \cup {Invalid}
        BY DEF TypeOK, Objects
      <3>2. \A k \in Handles : owner'[k] = owner[k] \/ owner'[k] = Free
        BY <2>3 DEF TypeOK
      <3>3. Free.by # "plc" /\ Free.port = "none"
        BY DEF Free
      <3> QED BY <1>0, <1>1, <2>1, <2>2, <3>1, <3>2, <3>3 DEF SessionInv, NumberInv
    <2>6. PlcInv'
      BY <1>0, <1>1, <2>3 DEF SessionInv, PlcInv, TypeOK, Free
    <2>7. RadioInv'
      BY <1>0, <1>1, <2>1, <2>2, <2>3 DEF SessionInv, RadioInv, NumberInv, TypeOK
    <2> QED BY <2>4, <2>5, <2>6, <2>7 DEF SessionInv
  <1> QED BY <1>2, <1>3

LEMMA UsartStartKeeps ==
    ASSUME TypeOK, SessionInv, NEW b, Press(b), b = "UsartStart", UsartStart, UNCHANGED sel
    PROVE  SessionInv'
  <1>0. /\ started' /\ (moved => moved') /\ UNCHANGED <<touched, sel>>
        /\ app = "running"
    BY History
  <1>1. UNCHANGED <<polling, flagUartOpenMcu, flagUartOpenPlc>>
    BY DEF UsartStart
  <1>2. CASE flagUartOpen = 1
    <2>1. UNCHANGED <<app, owner, issued, serial, mb, worker, flagUartOpen, reused>>
      BY <1>2 DEF UsartStart, system
    <2> QED BY <1>0, <1>1, <2>1
            DEF SessionInv, PointerInv, NumberInv, PlcInv, RadioInv
  <1>3. CASE flagUartOpen # 1
    <2>0. PICK hp \in Opened(owner, sel.plc) :
          \E hm \in Opened(PlcOpened(hp), McuPort) :
            /\ McuOpened(PlcOpened(hp), hm)
            /\ Issue({hp, hm})
            /\ serial' = SerialAfter(hp)
            /\ app' = AppAfterBoth(hp)
            /\ flagUartOpen' =
                  IF sel.mcu # sel.plc /\ serial'.isOpen /\ mb' # NULL
                  THEN 1 ELSE flagUartOpen
      BY <1>3, Zenon DEF UsartStart
    <2>1. PICK hm \in Opened(PlcOpened(hp), McuPort) :
            /\ McuOpened(PlcOpened(hp), hm)
            /\ Issue({hp, hm})
            /\ serial' = SerialAfter(hp)
            /\ app' = AppAfterBoth(hp)
            /\ flagUartOpen' =
                  IF sel.mcu # sel.plc /\ serial'.isOpen /\ mb' # NULL
                  THEN 1 ELSE flagUartOpen
      BY <2>0, Zenon
    <2> DEFINE own == PlcOpened(hp)
    <2>2. \/ hp = Invalid /\ own = owner /\ serial' = serial
          \/ /\ hp \in Handles /\ owner[hp] = Free
             /\ \A k \in Handles : owner[k].port # sel.plc
             /\ own = [owner EXCEPT ![hp] = Hold("plc", sel.plc)]
             /\ ~serial'.null /\ serial'.fd = hp /\ serial'.isOpen
      BY <2>1, OpenedIsFree, InvalidIsNoHandle DEF PlcOpened, With, SerialAfter, Port
    <2>3. \/ hm = Invalid /\ owner' = own
          \/ /\ hm \in Handles /\ own[hm] = Free
             /\ owner' = [own EXCEPT ![hm] = Hold("mcu", sel.mcu)]
      BY <2>1, OpenedIsFree, InvalidIsNoHandle DEF McuOpened, With, McuPort
    <2>4. \/ ~mb'.null /\ mb'.fd = hm /\ worker' = TRUE
          \/ hm = Invalid /\ UNCHANGED <<mb, worker>>
      <3>1. CASE NoContext
        BY <2>1, <3>1 DEF McuOpened, ContextAfter, Opened, NoContext, TypeOK
      <3>2. CASE ~NoContext
        BY <2>1, <3>2 DEF McuOpened, ContextAfter, Port, NULL
      <3> QED BY <3>1, <3>2
    <2>5. /\ issued' = issued \cup ({hp, hm} \ {Invalid})
          /\ reused' = (reused \/ {hp, hm} \cap issued # {})
      BY <2>1 DEF Issue
    <2>6. flagUartOpen' = 1 => serial'.isOpen
      BY <1>3, <2>1
    <2>7. flagUartOpen' = 1 => ~serial'.null /\ mb' # NULL /\ app' # "crashed"
      <3>1. serial.isOpen => ~serial.null
        BY DEF SessionInv, PointerInv
      <3>2. flagUartOpen' = 1 => mb' # NULL
        BY <1>3, <2>1
      <3> QED BY <2>1, <2>2, <2>6, <3>1, <3>2
              DEF AppAfterBoth, AppAfter, SerialAfter, NULL, Port
    <2>8. PointerInv'
      BY <1>1, <2>2, <2>4, <2>7 DEF SessionInv, PointerInv
    <2> HIDE DEF own
    <2>9. NumberInv'
      <3>1. CASE ~mb'.null /\ mb'.fd = hm
        BY <1>0, <1>1, <2>2, <2>3, <2>5, <3>1, InvalidIsNoHandle
           DEF SessionInv, NumberInv, TypeOK, Hold, Free
      <3>2. CASE hm = Invalid /\ UNCHANGED mb
        <4>1. owner' = own /\ hm \notin Handles
          BY <2>3, <3>2, InvalidIsNoHandle
        <4>2. CASE hp = Invalid
          <5>1. issued' = issued /\ (reused' \/ ~reused) /\ owner' = owner /\ serial' = serial
            BY <2>2, <2>5, <3>2, <4>1, <4>2, InvalidIsNoHandle
          <5> QED BY <1>0, <1>1, <3>2, <5>1 DEF SessionInv, NumberInv
        <4>3. CASE hp # Invalid
          <5>1. /\ hp \in Handles /\ owner[hp] = Free /\ serial'.fd = hp /\ serial'.isOpen
                /\ owner' = [owner EXCEPT ![hp] = Hold("plc", sel.plc)]
            BY <2>2, <4>1, <4>3
          <5>2. hp \in issued' /\ (\A k \in issued : k \in issued')
            BY <2>5, <4>3
          <5>3. ~reused' => ~reused /\ hp \notin issued
            BY <2>5
          <5>4. ~reused' => mb.fd # hp
            BY <4>3, <5>3 DEF SessionInv, NumberInv
          <5>5. owner'[hp].by = "plc" /\ (\A k \in Handles : k # hp => owner'[k] = owner[k])
            BY <5>1 DEF TypeOK, Hold
          <5>6. mb.fd \in Handles \cup {Invalid}
            BY DEF TypeOK, Objects
          <5>7. \A k \in Handles : owner'[k] # Free => k \in issued'
            BY <5>2, <5>5 DEF SessionInv, NumberInv
          <5> QED BY <1>0, <1>1, <3>2, <5>1, <5>2, <5>3, <5>4, <5>5, <5>6, <5>7
                  DEF SessionInv, NumberInv
        <4> QED BY <4>2, <4>3
      <3> QED BY <2>4, <3>1, <3>2
    <2>10. PlcInv'
      BY <1>0, <1>1, <2>2, <2>3 DEF SessionInv, PlcInv, TypeOK, Hold
    <2>11. RadioInv'
      BY <1>0 DEF RadioInv
    <2> QED BY <2>8, <2>9, <2>10, <2>11 DEF SessionInv
  <1> QED BY <1>2, <1>3

LEMMA ChoosePortKeeps ==
    ASSUME TypeOK, SessionInv, NEW b, Press(b), b = "ChoosePort", ChoosePort
    PROVE  SessionInv'
  <1>0. (started => started') /\ moved' /\ UNCHANGED touched
    BY History
  <1>1. /\ UNCHANGED <<app, owner, issued, serial, mb, polling, worker, reused>>
        /\ UNCHANGED <<flagUartOpen, flagUartOpenMcu, flagUartOpenPlc>>
    BY DEF ChoosePort, system, mcu, flags
  <1> QED BY <1>0, <1>1 DEF SessionInv, PointerInv, NumberInv, PlcInv, RadioInv

LEMMA UseKeeps ==
    ASSUME TypeOK, SessionInv, NEW b, Press(b), Use(b), UNCHANGED sel
    PROVE  SessionInv'
  <1>0. /\ (started => started') /\ (moved => moved') /\ UNCHANGED <<touched, sel>>
    BY History
  <1>1. /\ UNCHANGED <<owner, issued, serial, mb, polling, worker, reused>>
        /\ UNCHANGED <<flagUartOpen, flagUartOpenMcu, flagUartOpenPlc>>
    BY DEF Use, system, mcu, flags
  <1>2. flagUartOpen = 1 => app' = app
    <2>1. SUFFICES ASSUME flagUartOpen = 1 PROVE NULL \notin {mb, serial}
      BY <2>1 DEF Use, Needs
    <2>2. ~mb.null /\ ~serial.null
      BY <2>1 DEF SessionInv, PointerInv
    <2> QED BY <2>2 DEF NULL
  <1> QED BY <1>0, <1>1, <1>2 DEF SessionInv, PointerInv, NumberInv, PlcInv, RadioInv

LEMMA WorkerTransferKeeps ==
    ASSUME TypeOK, SessionInv, WorkerTransfer
    PROVE  SessionInv'
  <1>1. /\ UNCHANGED <<owner, issued, serial, mb, polling, worker, reused, sel>>
        /\ UNCHANGED <<flagUartOpen, flagUartOpenMcu, flagUartOpenPlc, started, moved>>
    BY DEF WorkerTransfer, system, mcu, flags, history
  <1>2. app' = app
    BY DEF WorkerTransfer, SessionInv, PointerInv, NULL
  <1>3. touched' = IF mb.fd = Invalid THEN Free ELSE owner[mb.fd]
    BY DEF WorkerTransfer
  <1>4. NumberInv'
    BY <1>1, <1>3 DEF SessionInv, NumberInv, Free
  <1> QED BY <1>1, <1>2, <1>4 DEF SessionInv, PointerInv, PlcInv, RadioInv

LEMMA SessionInvHolds == Spec => []SessionInv
  <1>1. Init => SessionInv
    <2> SUFFICES ASSUME Init PROVE SessionInv
      OBVIOUS
    <2> QED BY DEF Init, SessionInv, PointerInv, NumberInv, PlcInv, RadioInv, Free, NULL
  <1>2. TypeOK /\ SessionInv /\ [Next]_vars => SessionInv'
    <2> SUFFICES ASSUME TypeOK, SessionInv, [Next]_vars PROVE SessionInv'
      OBVIOUS
    <2>1. CASE WorkerTransfer
      BY <2>1, WorkerTransferKeeps
    <2>2. CASE UNCHANGED vars
      BY <2>2 DEF vars, system, mcu, flags, history,
                  SessionInv, PointerInv, NumberInv, PlcInv, RadioInv
    <2> QED BY <2>1, <2>2, Steps, UsartStartKeeps, McuOpenKeeps, McuCloseKeeps,
               PlcOpenKeeps, PlcCloseKeeps, ChoosePortKeeps, UseKeeps
  <1> QED BY <1>1, <1>2, TypeCorrect, PTL DEF Spec

-----------------------------------------------------------------------------
(* What the session promises. *)

\* The status timer never fills a queue nobody empties, and McuCommunicateService never
\* runs without a context, opened or not (initMcuSerialService).
THEOREM TimerIsServed == Spec => []PollingIsServed
  <1>1. SessionInv => PollingIsServed
    BY DEF SessionInv, PointerInv, PollingIsServed, NULL
  <1> QED BY <1>1, SessionInvHolds, PTL

\* After on_pushButtonUsartStart_clicked has succeeded no slot meets a NULL pointer.
THEOREM StartedIsSafe == Spec => []NoCrashAfterStart
  <1>1. SessionInv => NoCrashAfterStart
    BY DEF SessionInv, PointerInv, NoCrashAfterStart
  <1> QED BY <1>1, SessionInvHolds, PTL

\* The radio buttons alone (GroupMcuUartRadioClick, GroupPlcUartRadioClick) lose no
\* handle: each one in use is kept by an object and its flag.
THEOREM RadiosLoseNothing == Spec => []NoHandleLost
  <1>1. SessionInv => NoHandleLost
    BY DEF SessionInv, RadioInv, NoHandleLost
  <1> QED BY <1>1, SessionInvHolds, PTL

\* With the selections left alone the PLC's port stays within reach of
\* GloableData::serial, also when both buttons open it.
THEOREM PlcStaysInReach == Spec => []PlcHandleKept
  <1>1. SessionInv => PlcHandleKept
    BY DEF SessionInv, PlcInv, PlcHandleKept
  <1> QED BY <1>1, SessionInvHolds, PTL

\* While no handle number is given out again, flagUartOpenPlc tells the truth, however
\* often modbus_close closes the MCU's old handle ...
THEOREM PlcFlagIsTrue == Spec => []PlcFlagTrue
  <1>1. SessionInv => PlcFlagTrue
    BY DEF SessionInv, NumberInv, PlcFlagTrue
  <1> QED BY <1>1, SessionInvHolds, PTL

\* ... and the frames of McuCommunicateService::run do not reach the PLC.
THEOREM WorkerReachesMcuOnly == Spec => []WorkerKeepsOffPlc
  <1>1. SessionInv => WorkerKeepsOffPlc
    BY DEF SessionInv, NumberInv, WorkerKeepsOffPlc
  <1> QED BY <1>1, SessionInvHolds, PTL

=============================================================================
