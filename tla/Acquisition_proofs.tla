------------------------- MODULE Acquisition_proofs -------------------------
(***************************************************************************)
(* Proofs about Acquisition, for every number of segments and points, any  *)
(* depth of nested slots, with or without losses and late replies: types,  *)
(* the order of the points and the refinement of WaveformRecorder, then    *)
(* the slots, how they nest, the chart they stop and clear, and the motor  *)
(* they set going.                                                         *)
(***************************************************************************)
EXTENDS AcquisitionRefinement, SequenceTheorems, TLAPS

----------------------------------------------------------------------------
(* Type correctness. *)

\* An untouched buffer is register data.
LEMMA ZeroType == Zero \in Data
  BY DEF Zero, Data

\* The opened port, the resting worker and the idle panel have their types.
LEMMA InitTypeOK == Init => TypeOK
<1> SUFFICES ASSUME Init PROVE TypeOK
  OBVIOUS
<1>1. ctxSlave \in Slaves /\ deg \in Segs /\ coil \in [Coils -> {0, 1}]
  BY LineAssumption DEF Init, LineInit, Slaves, Segs
<1>2. bus \in Seq(Message) /\ rxq \in Seq(Reply)
  BY DEF Init, LineInit
<1>3. late \in BOOLEAN /\ turning \in BOOLEAN /\ charting \in BOOLEAN /\ shown \in BOOLEAN
      /\ shared \in BOOLEAN /\ strayed \in BOOLEAN
  BY Zenon DEF Init, LineInit
<1>4. seg \in Segs /\ idx \in 0 .. Batch - 1 /\ flagGo \in 0 .. 2 /\ clicks \in Nat
      /\ ticks \in 0 .. LastTick
  BY LineAssumption, PanelAssumption DEF Init, Segs
<1>5. stack \in Seq(Frame) /\ list1 \in Seq(Point) /\ list2 \in Seq(Point)
      /\ queue \in Seq({"READ_POINTS", "READ_STATUS"})
  BY DEF Init
<1>6. /\ stage \in Stages /\ step \in {"slave", "send", "recv", "append"}
      /\ stage = "idle" => step = "slave"
      /\ step = "append" => stage \in {"wave1", "wave2"}
      /\ buf \in Data /\ realTime \in Data /\ lcd \in Data
  BY ZeroType DEF Init, Stages
<1> QED BY <1>1, <1>2, <1>3, <1>4, <1>5, <1>6 DEF TypeOK, LineTypeOK

\* The step of a slot leaves a stack of slots.
LEMMA AdvanceType ==
  ASSUME stack \in Seq(Frame), stack # <<>>, Advance
  PROVE  stack' \in Seq(Frame)
<1>1. CASE Top.pc = Len(Script(Top.handler))
  <2>1. stack' = SubSeq(stack, 1, Len(stack) - 1)
    BY <1>1 DEF Advance
  <2>2. SubSeq(stack, 1, Len(stack) - 1) \in Seq(Frame)
    OBVIOUS
  <2> QED BY <2>1, <2>2
<1>2. CASE Top.pc # Len(Script(Top.handler))
  <2>1. stack' = [stack EXCEPT ![Len(stack)].pc = @ + 1]
    BY <1>2 DEF Advance
  <2>2. Len(stack) \in DOMAIN stack /\ stack[Len(stack)] \in Frame
    OBVIOUS
  <2>3. [stack[Len(stack)] EXCEPT !.pc = @ + 1] \in Frame
    BY <2>2 DEF Frame
  <2>4. stack' = [stack EXCEPT ![Len(stack)] = [stack[Len(stack)] EXCEPT !.pc = @ + 1]]
    BY <2>1
  <2> QED BY <2>2, <2>3, <2>4
<1> QED BY <1>1, <1>2

\* The requests of the slots are requests of the line.
LEMMA GuiRequestType == GuiRequests \subseteq Request
<1>1. \A s \in 0 .. TestReads - 1 : s \in Nat
  BY PanelAssumption
<1> QED BY <1>1 DEF GuiRequests, Ask, Request, Coils, Kinds

\* A slot displays what it reads, or leaves the display alone.
LEMMA ShowsType ==
  ASSUME lcd \in Data, NEW r, NEW d \in Data, Shows(r, d)
  PROVE  lcd' \in Data
  BY DEF Shows

\* A failed read leaves register data in its destination.
LEMMA KeptType == ASSUME TypeOK PROVE Kept \in Data
  BY DEF TypeOK, Kept, Data, Zero

\* What the end of a read leaves behind has its type.
LEMMA WorkerGetsType ==
  ASSUME TypeOK, NEW d \in Data, WorkerGets(d)
  PROVE  /\ stage' \in Stages /\ step' \in {"slave", "send", "recv", "append"}
         /\ (stage = "idle" => step = "slave")'
         /\ (step = "append" => stage \in {"wave1", "wave2"})'
         /\ seg' \in Segs /\ idx' \in 0 .. Batch - 1 /\ buf' \in Data
         /\ list1' = list1 /\ list2' = list2
         /\ realTime' \in Data
  BY PanelAssumption
  DEF TypeOK, WorkerGets, StatusRead, AngleRead, WaveRead, Proceed, Stages, dataVars

\* The board answers with replies, also to a request sent to the wrong slave.
LEMMA AnswersType ==
  ASSUME NEW m \in Message, deg \in Segs
  PROVE  Answers(m) \subseteq Reply
<1>1. deg \in Nat
  BY LineAssumption DEF Segs
<1>2. m.to \in Slaves /\ m.req \in Request
  BY DEF Message
<1>3. Reading(m.req) \in Nat
  BY <1>1, <1>2 DEF Reading, Request
<1>4. CASE Serves(m)
  <2>1. Block(m.req) \in Kinds \cup {"param"}
    BY <1>2 DEF Block, Request
  <2> QED BY <1>2, <1>3, <1>4, <2>1 DEF Answers, Reply, Data, Request, Slaves, Kinds
<1>5. CASE ~Serves(m)
  <2>1. \A k \in Segs \cup {0} : k \in Nat
    BY LineAssumption DEF Segs
  <2> QED BY <1>2, <1>5, <2>1 DEF Answers, Reply, Data, Request, Slaves, Kinds, Zero
<1> QED BY <1>4, <1>5

\* The board, the line and the motor keep the types of the line.
LEMMA BoardType ==
  ASSUME LineTypeOK, Board
  PROVE  LineTypeOK'
<1> USE DEF LineTypeOK
<1>1. ASSUME NEW m \in Message PROVE CoilsAfter(m) \in [Coils -> {0, 1}]
  BY <1>1 DEF CoilsAfter, Message, Request
<1>2. bus # <<>> => Head(bus) \in Message /\ Tail(bus) \in Seq(Message)
  OBVIOUS
<1>3. CASE Deliver
  BY <1>1, <1>2, <1>3, AnswersType DEF Deliver
<1>4. CASE LoseRequest
  BY <1>2, <1>4 DEF LoseRequest
<1>5. CASE LoseReply
  BY <1>1, <1>2, <1>5 DEF LoseReply
<1>6. CASE Rotate
  BY <1>6, LineAssumption DEF Rotate, Segs
<1> QED BY <1>3, <1>4, <1>5, <1>6 DEF Board

\* Reading a reply leaves replies in the port and yields register data.
LEMMA ReplyType ==
  ASSUME rxq \in Seq(Reply), rxq # <<>>
  PROVE  Tail(rxq) \in Seq(Reply) /\ Head(rxq).data \in Data
<1>1. Tail(rxq) \in Seq(Reply) /\ Head(rxq) \in Reply
  OBVIOUS
<1> QED BY <1>1 DEF Reply

\* Whatever the worker is at, it sends a request of the line.
LEMMA RequestOfType ==
  ASSUME stage \in Stages, stage # "idle", seg \in Segs
  PROVE  RequestOf(stage, seg) \in Request
<1>1. seg \in Nat
  BY LineAssumption DEF Segs
<1> QED BY <1>1 DEF RequestOf, Ask, Request, Kinds, Stages

\* Every step of the system keeps the types: one step of the proof per action.
LEMMA NextTypeOK == TypeOK /\ [Next]_vars => TypeOK'
<1> SUFFICES ASSUME TypeOK, [Next]_vars PROVE TypeOK'
  OBVIOUS
<1> USE DEF TypeOK, LineTypeOK
<1>1. ASSUME NEW b \in Buttons, Press(b) PROVE TypeOK'
  <2>1. Slot(b) \in Handlers
    <3>1. b \in AllButtons
      BY PanelAssumption
    <3>2. GoCases[flagGo] \in {"start", "stop", "wipe"}
      BY DEF GoCases
    <3> QED BY <3>1, <3>2 DEF Slot, Handlers
  <2>2. [handler |-> Slot(b), pc |-> 1] \in Frame
    BY <2>1 DEF Frame
  <2>3. stack' \in Seq(Frame) /\ flagGo' \in 0 .. 2 /\ clicks' \in Nat
    BY <1>1, <2>2 DEF Press
  <2> QED BY <1>1, <2>3 DEF Press, lineVars, workerVars, dataVars, histVars
<1>2. CASE GuiStep
  <2>0. stack # <<>> /\ Advance
    BY <1>2 DEF GuiStep, GuiSelect, GuiSend, Wake, GuiWritePlc, GuiChart,
                GuiClearList, GuiAddCmd, Doing
  <2>a. stack' \in Seq(Frame)
    BY <2>0, AdvanceType
  <2>1. CASE GuiSelect
    <3>1. shared' \in BOOLEAN
      BY <2>1, Zenon DEF GuiSelect
    <3> QED BY <2>1, <2>a, <3>1 DEF GuiSelect, SetSlave, panelVars, workerVars, dataVars
  <2>2. CASE GuiSend
    <3>1. PICK r \in GuiRequests : Send(r)
      BY <2>2 DEF GuiSend
    <3>2. bus' \in Seq(Message)
      BY <3>1, GuiRequestType DEF Send, Message
    <3>3. shared' \in BOOLEAN /\ strayed' \in BOOLEAN
      BY <2>2, Zenon DEF GuiSend
    <3> QED BY <2>2, <2>a, <3>2, <3>3 DEF GuiSend, panelVars, workerVars, dataVars
  <2>3. CASE Wake
    BY <2>3, <2>a DEF Wake, lineVars, panelVars, workerVars, dataVars, histVars
  <2>4. CASE GuiWritePlc
    <3>1. turning' \in BOOLEAN
      BY <2>4, Zenon DEF GuiWritePlc
    <3> QED BY <2>4, <2>a, <3>1 DEF GuiWritePlc, panelVars, workerVars, dataVars, histVars
  <2>5. CASE GuiChart
    <3>1. charting' \in BOOLEAN /\ shown' \in BOOLEAN
      BY <2>5, Zenon DEF GuiChart
    <3>2. lcd' \in Data
      BY <2>5, ZeroType DEF GuiChart
    <3> QED BY <2>5, <2>a, <3>1, <3>2 DEF GuiChart, lineVars, workerVars, dataVars, histVars
  <2>6. CASE GuiClearList
    <3>1. list1' \in Seq(Point) /\ list2' \in Seq(Point)
      <4>1. <<>> \in Seq(Point)
        OBVIOUS
      <4> QED BY <2>6, <4>1, Zenon DEF GuiClearList
    <3> QED BY <2>6, <2>a, <3>1 DEF GuiClearList, lineVars, panelVars, workerVars, histVars
  <2>7. CASE GuiAddCmd
    <3>1. queue' \in Seq({"READ_POINTS", "READ_STATUS"})
      BY <2>7 DEF GuiAddCmd
    <3> QED BY <2>7, <2>a, <3>1 DEF GuiAddCmd, lineVars, panelVars, workerVars, dataVars, histVars
  <2> QED BY <1>2, <2>1, <2>2, <2>3, <2>4, <2>5, <2>6, <2>7 DEF GuiStep
<1>3. CASE GuiReceive
  <2>1. stack # <<>> /\ Advance
    BY <1>3 DEF GuiReceive, Doing
  <2>2. rxq' \in Seq(Reply)
    BY <1>3, ReplyType DEF GuiReceive, Confirms, Refuses, TakesFrame, GivesUp
  <2>4. late' \in BOOLEAN
    BY <1>3, Zenon DEF GuiReceive, TakesFrame, GivesUp
  <2>3. stack' \in Seq(Frame)
    BY <2>1, AdvanceType
  <2>5. lcd' \in Data
    BY <1>3, ReplyType, ZeroType, ShowsType DEF GuiReceive, Confirms, Refuses
  <2> QED BY <1>3, <2>2, <2>3, <2>4, <2>5 DEF GuiReceive, panelVars, workerVars, dataVars, histVars
<1>4. CASE StatusTick
  BY <1>4 DEF StatusTick, lineVars, panelVars, workerVars, dataVars, histVars
<1>5. CASE ChartTick
  <2>1. shown' \in BOOLEAN
    BY <1>5, Zenon DEF ChartTick
  <2> QED BY <1>5, <2>1 DEF ChartTick, lineVars, workerVars, dataVars, histVars
<1>6. CASE Dequeue
  BY <1>6, ZeroType, LineAssumption
  DEF Dequeue, Proceed, Stages, Segs, lineVars, guiVars, panelVars, dataVars, histVars
<1>7. CASE WorkerSelect
  <2>1. SlaveOf(stage) \in Slaves
    BY DEF SlaveOf, Slaves
  <2> QED BY <1>7, <2>1 DEF WorkerSelect, SetSlave, guiVars, panelVars, dataVars, histVars
<1>8. CASE WorkerSend
  <2>1. RequestOf(stage, seg) \in Request
    BY <1>8, RequestOfType DEF WorkerSend
  <2>2. bus' \in Seq(Message)
    BY <1>8, <2>1 DEF WorkerSend, Send, Message
  <2>3. shared' \in BOOLEAN
    BY <1>8, Zenon DEF WorkerSend
  <2> QED BY <1>8, <2>2, <2>3 DEF WorkerSend, guiVars, panelVars, dataVars
<1>9. CASE WorkerReceive
  <2>1. PICK d \in Data : WorkerGets(d)
    <3>1. CASE rxq # <<>>
      <4>1. Head(rxq).data \in Data
        BY <3>1, ReplyType
      <4> QED BY <1>9, <4>1, KeptType DEF WorkerReceive
    <3>2. CASE rxq = <<>>
      BY <1>9, <3>2, KeptType DEF WorkerReceive, Confirms, Refuses
    <3> QED BY <3>1, <3>2
  <2>2. rxq' \in Seq(Reply)
    BY <1>9, ReplyType DEF WorkerReceive, Confirms, Refuses, TakesFrame, GivesUp
  <2>3. late' \in BOOLEAN
    BY <1>9, Zenon DEF WorkerReceive, TakesFrame, GivesUp
  <2> QED BY <1>9, <2>1, <2>2, <2>3, WorkerGetsType DEF WorkerReceive, guiVars, panelVars, histVars
<1>10. CASE AppendPoint
  <2>1. NewPoint \in Point
    BY DEF NewPoint, Point
  <2>2. list1' \in Seq(Point) /\ list2' \in Seq(Point)
    <3>1. Append(list1, NewPoint) \in Seq(Point) /\ Append(list2, NewPoint) \in Seq(Point)
      BY <2>1
    <3> QED BY <1>10, <3>1 DEF AppendPoint
  <2>3. /\ stage' \in Stages /\ step' \in {"slave", "send", "recv", "append"}
        /\ (stage = "idle" => step = "slave")'
        /\ (step = "append" => stage \in {"wave1", "wave2"})'
        /\ seg' \in Segs /\ idx' \in 0 .. Batch - 1 /\ buf' \in Data
    BY <1>10, ZeroType, LineAssumption, PanelAssumption, SMTT(60)
    DEF AppendPoint, AfterPoint, EndSegment, Proceed, Stages, Segs
  <2> QED BY <1>10, <2>2, <2>3 DEF AppendPoint, lineVars, guiVars, panelVars, histVars
<1>11. CASE TornReceive
  <2>1. stack' \in Seq(Frame)
    BY <1>11, AdvanceType DEF TornReceive, GuiWaits, Doing
  <2>2. lcd' \in Data
    BY <1>11, ZeroType, ShowsType DEF TornReceive
  <2>3. late' \in BOOLEAN
    BY <1>11, Zenon DEF TornReceive
  <2> QED BY <1>11, <2>1, <2>2, <2>3, KeptType, WorkerGetsType DEF TornReceive, panelVars, histVars
<1>12. CASE BoardStep
  BY <1>12, BoardType DEF BoardStep, guiVars, panelVars, workerVars, dataVars, histVars
<1>13. CASE UNCHANGED vars
  BY <1>13 DEF vars, lineVars, guiVars, panelVars, workerVars, dataVars, histVars
<1>14. CASE Poll
  BY <1>13, <1>14 DEF Poll
<1>15. CASE DialogTick
  <2>1. ticks' \in 0 .. LastTick
    BY <1>15, PanelAssumption DEF DialogTick
  <2>2. [handler |-> IF ticks' = 3 THEN "dialogRead" ELSE "dialogTick", pc |-> 1] \in Frame
    BY DEF Frame, Handlers
  <2>3. stack' \in Seq(Frame)
    BY <1>15, <2>2 DEF DialogTick
  <2> QED BY <1>15, <2>1, <2>3 DEF DialogTick, lineVars, workerVars, dataVars, histVars
<1>16. CASE DialogClose
  <2>1. stack' \in Seq(Frame)
    BY <1>16, AdvanceType DEF DialogClose, Doing
  <2> QED BY <1>16, <2>1, PanelAssumption DEF DialogClose, lineVars, workerVars, dataVars, histVars
<1> QED BY <1>1, <1>2, <1>3, <1>4, <1>5, <1>6, <1>7, <1>8, <1>9, <1>10, <1>11,
           <1>12, <1>13, <1>14, <1>15, <1>16 DEF Next, WorkerStep

\* Every variable keeps its type, for every value of the constants.
THEOREM TypeCorrect == Spec => []TypeOK
<1>1. Init => TypeOK
  BY InitTypeOK
<1>2. TypeOK /\ [Next]_vars => TypeOK'
  BY NextTypeOK
<1> QED BY <1>1, <1>2, PTL DEF Spec

----------------------------------------------------------------------------
(* The waveforms stay in sequence. *)

\* A list ends just before a position, unless it has been cleared.
EndsBefore(list, s, i) ==
    list # <<>> =>
        LET p == list[Len(list)]
        IN IF p.idx < Batch - 1
           THEN s = p.seg /\ i = p.idx + 1
           ELSE s = AfterSeg(p.seg) /\ i = 0

\* The inductive invariant: PointsInSequence says nothing of where a list ends, which
\* is what the next append depends on.
SequenceInv ==
    /\ PointsInSequence
    /\ EndsBefore(list1, NextSeg1, NextIdx1)
    /\ EndsBefore(list2, NextSeg2, NextIdx2)

\* Appending the point a list waits for keeps the list in sequence.
LEMMA AppendKeepsSequence ==
  ASSUME NEW list \in Seq(Point), NEW s \in Segs, NEW i \in 0 .. Batch - 1, NEW d \in Data,
         InSequence(list), EndsBefore(list, s, i)
  PROVE  LET p == [seg |-> s, idx |-> i, data |-> d]
         IN /\ InSequence(Append(list, p))
            /\ Append(list, p)[Len(Append(list, p))] = p
<1> DEFINE p == [seg |-> s, idx |-> i, data |-> d]
           longer == Append(list, p)
<1>1. Len(longer) = Len(list) + 1 /\ longer[Len(longer)] = p
  OBVIOUS
<1>2. \A k \in 1 .. Len(list) : longer[k] = list[k]
  OBVIOUS
<1>3. ASSUME NEW k \in 1 .. Len(longer) - 1
      PROVE  Follows(longer[k], longer[k + 1])
  <2>1. CASE k < Len(list)
    <3>1. longer[k] = list[k] /\ longer[k + 1] = list[k + 1]
      BY <1>1, <1>2, <2>1
    <3> QED BY <1>1, <2>1, <3>1 DEF InSequence
  <2>2. CASE k = Len(list)
    <3>1. longer[k] = list[Len(list)] /\ longer[k + 1] = p /\ list # <<>>
      BY <1>1, <1>2, <2>2
    <3>2. p.seg = s /\ p.idx = i
      OBVIOUS
    <3> HIDE DEF p, longer
    <3> QED BY <3>1, <3>2 DEF Follows, EndsBefore, AfterSeg
  <2> QED BY <1>1, <2>1, <2>2
<1>4. InSequence(longer)
  BY <1>3 DEF InSequence
<1> QED BY <1>1, <1>4

\* Empty lists are in sequence and wait for any point.
LEMMA InitSequence == Init => SequenceInv
  BY DEF Init, SequenceInv, PointsInSequence, InSequence, EndsBefore

\* The worker stays where it is on the circle in every step but an append.
LEMMA PlaceKept ==
  ASSUME TypeOK,
         \/ workerVars' = workerVars
         \/ Dequeue \/ WorkerSelect \/ WorkerSend
         \/ step # "append" /\ \E d : WorkerGets(d)
  PROVE  NextSeg1' = NextSeg1 /\ NextIdx1' = NextIdx1 /\ NextSeg2' = NextSeg2 /\ NextIdx2' = NextIdx2
<1>1. CASE workerVars' = workerVars
  BY <1>1 DEF workerVars, NextSeg1, NextIdx1, NextSeg2, NextIdx2
<1>2. CASE Dequeue
  BY <1>2 DEF Dequeue, Proceed, NextSeg1, NextIdx1, NextSeg2, NextIdx2
<1>3. CASE WorkerSelect \/ WorkerSend
  BY <1>3 DEF WorkerSelect, WorkerSend, NextSeg1, NextIdx1, NextSeg2, NextIdx2
<1>4. CASE step # "append" /\ \E d : WorkerGets(d)
  BY <1>4 DEF WorkerGets, StatusRead, AngleRead, WaveRead, Proceed,
              NextSeg1, NextIdx1, NextSeg2, NextIdx2
<1> QED BY <1>1, <1>2, <1>3, <1>4

\* What every step but an append does to the lists: nothing, or one clear.
LEMMA ListsOfOtherSteps ==
  ASSUME TypeOK, [Next]_vars, ~AppendPoint
  PROVE  /\ NextSeg1' = NextSeg1 /\ NextIdx1' = NextIdx1
         /\ NextSeg2' = NextSeg2 /\ NextIdx2' = NextIdx2
         /\ \/ list1' = list1 /\ list2' = list2
            \/ list1' = <<>> /\ list2' = list2
            \/ list1' = list1 /\ list2' = <<>>
<1>1. CASE Dequeue \/ WorkerSelect \/ WorkerSend
  BY <1>1, PlaceKept DEF Dequeue, WorkerSelect, WorkerSend, dataVars
<1>2. CASE WorkerReceive \/ TornReceive
  <2>1. step # "append" /\ \E d : WorkerGets(d)
    BY <1>2 DEF WorkerReceive, TornReceive, WorkerWaits
  <2>2. list1' = list1 /\ list2' = list2
    BY <2>1 DEF WorkerGets, StatusRead, AngleRead, WaveRead, dataVars
  <2> QED BY <2>1, <2>2, PlaceKept
<1>3. CASE GuiStep
  BY <1>3, PlaceKept
  DEF GuiStep, GuiSelect, GuiSend, Wake, GuiWritePlc, GuiChart, GuiClearList, GuiAddCmd, dataVars
<1>4. CASE \/ GuiReceive \/ StatusTick \/ ChartTick \/ DialogTick \/ DialogClose \/ BoardStep
           \/ \E b \in Buttons : Press(b)
  BY <1>4, PlaceKept
  DEF GuiReceive, StatusTick, ChartTick, DialogTick, DialogClose, BoardStep, Press, dataVars
<1>5. CASE Poll \/ UNCHANGED vars
  BY <1>5, PlaceKept DEF Poll, vars, dataVars
<1> QED BY <1>1, <1>2, <1>3, <1>4, <1>5 DEF Next, WorkerStep

\* Where an append leaves the two positions: the list that grows goes on with the next
\* point, the other list still waits for the same point.
LEMMA AppendMoves ==
  ASSUME TypeOK, AppendPoint
  PROVE  /\ stage = "wave1" =>
              /\ list1' = Append(list1, NewPoint) /\ list2' = list2
              /\ NextSeg1 = seg /\ NextIdx1 = idx
              /\ NextSeg2 = seg /\ NextIdx2 = 0
              /\ IF idx < Batch - 1
                 THEN NextSeg1' = seg /\ NextIdx1' = idx + 1
                 ELSE NextSeg1' = AfterSeg(seg) /\ NextIdx1' = 0
              /\ NextSeg2' = NextSeg2 /\ NextIdx2' = NextIdx2
         /\ stage = "wave2" =>
              /\ list2' = Append(list2, NewPoint) /\ list1' = list1
              /\ NextSeg2 = seg /\ NextIdx2 = idx
              /\ NextSeg1 = AfterSeg(seg) /\ NextIdx1 = 0
              /\ IF idx < Batch - 1
                 THEN NextSeg2' = seg /\ NextIdx2' = idx + 1
                 ELSE NextSeg2' = AfterSeg(seg) /\ NextIdx2' = 0
              /\ NextSeg1' = NextSeg1 /\ NextIdx1' = NextIdx1
         /\ stage \in {"wave1", "wave2"}
<1>0. /\ seg \in Segs /\ idx \in 0 .. Batch - 1
      /\ step = "append" /\ stage \in {"wave1", "wave2"}
  BY DEF TypeOK, AppendPoint
<1>1. seg \in 0 .. NSeg - 1 /\ NSeg \in Nat /\ Batch \in Nat
  BY <1>0, LineAssumption, PanelAssumption DEF Segs
<1>2. CASE stage = "wave1"
  <2>1. list1' = Append(list1, NewPoint) /\ list2' = list2
    BY <1>2 DEF AppendPoint
  <2>2. NextSeg1 = seg /\ NextIdx1 = idx /\ NextSeg2 = seg /\ NextIdx2 = 0
    BY <1>0, <1>2 DEF NextSeg1, NextIdx1, NextSeg2, NextIdx2
  <2>3. IF idx < Batch - 1
        THEN NextSeg1' = seg /\ NextIdx1' = idx + 1
        ELSE NextSeg1' = AfterSeg(seg) /\ NextIdx1' = 0
    BY <1>0, <1>2 DEF AppendPoint, AfterPoint, Proceed, NextSeg1, NextIdx1, AfterSeg
  <2>4. NextSeg2' = NextSeg2 /\ NextIdx2' = NextIdx2
    BY <1>0, <1>2 DEF AppendPoint, AfterPoint, Proceed, NextSeg2, NextIdx2
  <2> QED BY <1>2, <2>1, <2>2, <2>3, <2>4
<1>3. CASE stage = "wave2"
  <2>1. list2' = Append(list2, NewPoint) /\ list1' = list1
    BY <1>3 DEF AppendPoint
  <2>2. NextSeg2 = seg /\ NextIdx2 = idx /\ NextSeg1 = AfterSeg(seg) /\ NextIdx1 = 0
    BY <1>0, <1>3 DEF NextSeg1, NextIdx1, NextSeg2, NextIdx2
  <2>3. CASE idx < Batch - 1
    <3>1. stage' = stage /\ step' = step /\ seg' = seg /\ idx' = idx + 1
      BY <1>3, <2>3 DEF AppendPoint, AfterPoint
    <3> QED BY <1>0, <1>3, <2>1, <2>2, <2>3, <3>1 DEF NextSeg1, NextIdx1, NextSeg2, NextIdx2
  <2>4. CASE ~(idx < Batch - 1) /\ seg + 1 < NSeg
    <3>1. stage' = "angle" /\ seg' = seg + 1 /\ step' = "slave"
      BY <1>3, <2>4 DEF AppendPoint, AfterPoint, EndSegment, Proceed
    <3> QED BY <1>1, <1>3, <2>1, <2>2, <2>4, <3>1
            DEF NextSeg1, NextIdx1, NextSeg2, NextIdx2, AfterSeg
  <2>5. CASE ~(idx < Batch - 1) /\ ~(seg + 1 < NSeg)
    <3>1. stage' = "idle"
      BY <1>3, <2>5 DEF AppendPoint, AfterPoint, EndSegment, Proceed
    <3> QED BY <1>1, <1>3, <2>1, <2>2, <2>5, <3>1
            DEF NextSeg1, NextIdx1, NextSeg2, NextIdx2, AfterSeg
  <2> QED BY <2>3, <2>4, <2>5
<1> QED BY <1>0, <1>2, <1>3

\* One step of the appending loops keeps both lists in sequence.
LEMMA AppendStep ==
  ASSUME TypeOK, SequenceInv, AppendPoint
  PROVE  SequenceInv'
<1>0. /\ seg \in Segs /\ idx \in 0 .. Batch - 1 /\ buf \in Data
      /\ list1 \in Seq(Point) /\ list2 \in Seq(Point)
  BY DEF TypeOK
<1>2. CASE stage = "wave1"
  <2>0. list1' = Append(list1, NewPoint) /\ EndsBefore(list1, seg, idx) /\ InSequence(list1)
    BY <1>2, AppendMoves DEF SequenceInv, PointsInSequence
  <2>1. InSequence(list1') /\ list1'[Len(list1')] = NewPoint
    BY <1>0, <2>0, AppendKeepsSequence DEF NewPoint
  <2>2. EndsBefore(list1, NextSeg1, NextIdx1)'
    BY <1>2, <2>1, AppendMoves DEF EndsBefore, NewPoint, AfterSeg
  <2>3. InSequence(list2') /\ EndsBefore(list2, NextSeg2, NextIdx2)'
    BY <1>2, AppendMoves DEF SequenceInv, PointsInSequence, EndsBefore
  <2> QED BY <2>1, <2>2, <2>3 DEF SequenceInv, PointsInSequence
<1>3. CASE stage = "wave2"
  <2>0. list2' = Append(list2, NewPoint) /\ EndsBefore(list2, seg, idx) /\ InSequence(list2)
    BY <1>3, AppendMoves DEF SequenceInv, PointsInSequence
  <2>1. InSequence(list2') /\ list2'[Len(list2')] = NewPoint
    BY <1>0, <2>0, AppendKeepsSequence DEF NewPoint
  <2>2. EndsBefore(list2, NextSeg2, NextIdx2)'
    BY <1>3, <2>1, AppendMoves DEF EndsBefore, NewPoint, AfterSeg
  <2>3. InSequence(list1') /\ EndsBefore(list1, NextSeg1, NextIdx1)'
    BY <1>3, AppendMoves DEF SequenceInv, PointsInSequence, EndsBefore
  <2> QED BY <2>1, <2>2, <2>3 DEF SequenceInv, PointsInSequence
<1> QED BY <1>2, <1>3, AppendMoves

\* Every step of the system keeps the inductive invariant.
LEMMA NextSequence == TypeOK /\ SequenceInv /\ [Next]_vars => SequenceInv'
<1> SUFFICES ASSUME TypeOK, SequenceInv, [Next]_vars PROVE SequenceInv'
  OBVIOUS
<1>1. CASE AppendPoint
  BY <1>1, AppendStep
<1>2. CASE ~AppendPoint
  <2>1. PointsInSequence'
    BY <1>2, ListsOfOtherSteps DEF SequenceInv, PointsInSequence, InSequence
  <2>2. EndsBefore(list1, NextSeg1, NextIdx1)' /\ EndsBefore(list2, NextSeg2, NextIdx2)'
    BY <1>2, ListsOfOtherSteps DEF SequenceInv, EndsBefore
  <2> QED BY <2>1, <2>2 DEF SequenceInv
<1> QED BY <1>1, <1>2

\* The strengthening of PointsInSequence that every step keeps.
THEOREM SequenceInvariant == Spec => []SequenceInv
<1>1. Init => SequenceInv
  BY InitSequence
<1>2. TypeOK /\ SequenceInv /\ [Next]_vars => SequenceInv'
  BY NextSequence
<1> QED BY <1>1, <1>2, TypeCorrect, PTL DEF Spec

\* For every size of a scan and however the panel's slots, the clears and the worker
\* interleave, each list is an unbroken run of the circle of points.
THEOREM WaveformsInSequence == Spec => []PointsInSequence
<1>1. SequenceInv => PointsInSequence
  BY DEF SequenceInv
<1> QED BY <1>1, SequenceInvariant, PTL

\* Between two segments both lists wait for the same point, so they end at the same one.
LEMMA SameEnd ==
  ASSUME TypeOK, SequenceInv
  PROVE  WavesEndTogether
<1> SUFFICES ASSUME stage \in {"idle", "status", "angle"}, list1 # <<>>, list2 # <<>>
             PROVE  /\ LastOf(list1).seg = LastOf(list2).seg
                    /\ LastOf(list1).idx = LastOf(list2).idx
  BY DEF WavesEndTogether
<1>1. NextSeg1 = NextSeg2 /\ NextIdx1 = 0 /\ NextIdx2 = 0
  BY DEF NextSeg1, NextIdx1, NextSeg2, NextIdx2
<1>2. LastOf(list1) \in Point /\ LastOf(list2) \in Point
  BY DEF LastOf, TypeOK
<1>3. ASSUME NEW p \in Point, NEW q \in Point, NEW s,
             IF p.idx < Batch - 1 THEN s = p.seg /\ 0 = p.idx + 1 ELSE s = AfterSeg(p.seg),
             IF q.idx < Batch - 1 THEN s = q.seg /\ 0 = q.idx + 1 ELSE s = AfterSeg(q.seg)
      PROVE  p.seg = q.seg /\ p.idx = q.idx
  <2>1. p.seg \in 0 .. NSeg - 1 /\ q.seg \in 0 .. NSeg - 1
        /\ p.idx \in 0 .. Batch - 1 /\ q.idx \in 0 .. Batch - 1
        /\ NSeg \in Nat /\ Batch \in Nat
    BY LineAssumption, PanelAssumption DEF Point, Segs
  <2>2. p.idx = Batch - 1 /\ q.idx = Batch - 1 /\ AfterSeg(p.seg) = AfterSeg(q.seg)
    BY <1>3, <2>1
  <2> QED BY <2>1, <2>2 DEF AfterSeg
<1>4. /\ IF LastOf(list1).idx < Batch - 1
         THEN NextSeg1 = LastOf(list1).seg /\ 0 = LastOf(list1).idx + 1
         ELSE NextSeg1 = AfterSeg(LastOf(list1).seg)
      /\ IF LastOf(list2).idx < Batch - 1
         THEN NextSeg1 = LastOf(list2).seg /\ 0 = LastOf(list2).idx + 1
         ELSE NextSeg1 = AfterSeg(LastOf(list2).seg)
  BY <1>1 DEF SequenceInv, EndsBefore, LastOf
<1> QED BY <1>2, <1>3, <1>4

\* For every size of a scan: outside a segment the two waveforms end at the same
\* angle unless one is empty, also when a clear cut them apart inside a segment.
THEOREM WaveformsEndTogether == Spec => []WavesEndTogether
<1>1. TypeOK /\ SequenceInv => WavesEndTogether
  BY SameEnd
<1> QED BY <1>1, TypeCorrect, SequenceInvariant, PTL

----------------------------------------------------------------------------
(* Acquisition implements WaveformRecorder. *)

\* The position of a point is a pair of numbers.
LEMMA PositionType ==
  ASSUME NEW p \in Point
  PROVE  <<p.seg, p.idx>> \in Nat \X Nat
<1>1. NSeg \in Nat /\ Batch \in Nat
  BY LineAssumption, PanelAssumption
<1>2. p.seg \in Segs /\ p.idx \in 0 .. Batch - 1
  BY DEF Point
<1> QED BY <1>1, <1>2 DEF Segs

\* Appending a point appends its position.
LEMMA PositionsAppend ==
  ASSUME NEW list \in Seq(Point), NEW p \in Point
  PROVE  Positions(Append(list, p)) = Append(Positions(list), <<p.seg, p.idx>>)
<1> DEFINE longer == Append(list, p)
           left   == Positions(longer)
           right  == Append(Positions(list), <<p.seg, p.idx>>)
<1>1. Len(longer) = Len(list) + 1 /\ Len(list) \in Nat
  OBVIOUS
<1>2. Positions(list) \in Seq(Nat \X Nat) /\ Len(Positions(list)) = Len(list)
  <2>1. \A k \in 1 .. Len(list) : list[k] \in Point
    OBVIOUS
  <2>2. \A k \in 1 .. Len(list) : <<list[k].seg, list[k].idx>> \in Nat \X Nat
    BY <2>1, PositionType
  <2> QED BY <1>1, <2>2 DEF Positions
<1>3. <<p.seg, p.idx>> \in Nat \X Nat
  BY PositionType
<1>4. right \in Seq(Nat \X Nat) /\ Len(right) = Len(list) + 1
  BY <1>2, <1>3
<1>5. DOMAIN left = 1 .. Len(list) + 1 /\ DOMAIN right = 1 .. Len(list) + 1
  BY <1>1, <1>4 DEF Positions
<1>6. ASSUME NEW k \in 1 .. Len(list) + 1 PROVE left[k] = right[k]
  <2>1. CASE k \in 1 .. Len(list)
    <3>1. longer[k] = list[k]
      BY <2>1
    <3>2. left[k] = <<list[k].seg, list[k].idx>>
      BY <1>1, <3>1 DEF Positions
    <3>3. right[k] = Positions(list)[k]
      BY <1>2, <1>3, <2>1
    <3>4. Positions(list)[k] = <<list[k].seg, list[k].idx>>
      BY <2>1 DEF Positions
    <3> QED BY <3>2, <3>3, <3>4
  <2>2. CASE k = Len(list) + 1
    <3>1. longer[k] = p
      BY <2>2
    <3>2. left[k] = <<p.seg, p.idx>>
      BY <1>1, <3>1 DEF Positions
    <3>3. right[k] = <<p.seg, p.idx>>
      BY <1>2, <1>3, <2>2
    <3> QED BY <3>2, <3>3
  <2>3. k \in 1 .. Len(list) \/ k = Len(list) + 1
    BY <1>1
  <2> QED BY <2>1, <2>2, <2>3, Zenon
<1>7. left = [k \in 1 .. Len(list) + 1 |-> left[k]] /\ right = [k \in 1 .. Len(list) + 1 |-> right[k]]
  BY <1>4, <1>5 DEF Positions
<1> HIDE DEF left, right
<1>8. left = right
  BY <1>6, <1>7
<1> QED BY <1>8 DEF left, right

\* A cleared list has no positions.
LEMMA PositionsEmpty == Positions(<<>>) = <<>>
  BY DEF Positions

\* The initial state is one of the recorder.
LEMMA RecorderInit == Init => Recorder!Init
  BY PositionsEmpty
  DEF Init, Recorder!Init, NextSeg1, NextIdx1, NextSeg2, NextIdx2

\* Every step is a step of the recorder or leaves it alone: an append records, a clear
\* clears, all else is invisible.
LEMMA RecorderStep == TypeOK /\ [Next]_vars => [Recorder!Next]_Recorder!vars
<1> SUFFICES ASSUME TypeOK, [Next]_vars PROVE [Recorder!Next]_Recorder!vars
  OBVIOUS
<1>0. /\ seg \in 0 .. NSeg - 1 /\ idx \in 0 .. Batch - 1 /\ NSeg \in Nat /\ NSeg >= 2 /\ Batch \in Nat
      /\ list1 \in Seq(Point) /\ list2 \in Seq(Point) /\ NewPoint \in Point
      /\ NewPoint.seg = seg /\ NewPoint.idx = idx
  BY LineAssumption, PanelAssumption DEF TypeOK, Segs, NewPoint, Point
<1>1. CASE AppendPoint
  <2>1. CASE stage = "wave1"
    <3>1. Positions(list1') = Append(Positions(list1), <<seg, idx>>) /\ Positions(list2') = Positions(list2)
      BY <1>0, <1>1, <2>1, AppendMoves, PositionsAppend
    <3>2. <<NextSeg1, NextIdx1>> = <<seg, idx>> /\ <<NextSeg2, NextIdx2>> = <<seg, 0>>
          /\ <<NextSeg2', NextIdx2'>> = <<NextSeg2, NextIdx2>>
      BY <1>1, <2>1, AppendMoves
    <3>3. <<NextSeg1', NextIdx1'>> = Recorder!After(<<seg, idx>>)
      BY <1>1, <2>1, AppendMoves DEF Recorder!After, AfterSeg
    <3>4. Recorder!Record1
      BY <3>1, <3>2, <3>3 DEF Recorder!Record1
    <3> QED BY <3>4 DEF Recorder!Next
  <2>2. CASE stage = "wave2"
    <3>1. Positions(list2') = Append(Positions(list2), <<seg, idx>>) /\ Positions(list1') = Positions(list1)
      BY <1>0, <1>1, <2>2, AppendMoves, PositionsAppend
    <3>2. <<NextSeg2, NextIdx2>> = <<seg, idx>> /\ <<NextSeg1, NextIdx1>> = <<AfterSeg(seg), 0>>
          /\ <<NextSeg1', NextIdx1'>> = <<NextSeg1, NextIdx1>>
      BY <1>1, <2>2, AppendMoves
    <3>3. <<NextSeg2', NextIdx2'>> = Recorder!After(<<seg, idx>>)
      BY <1>1, <2>2, AppendMoves DEF Recorder!After, AfterSeg
    <3>4. Recorder!After(<<seg, Batch - 1>>)[1] = AfterSeg(seg)
      BY <1>0 DEF Recorder!After, AfterSeg
    <3>5. Recorder!Record2
      BY <3>1, <3>2, <3>3, <3>4 DEF Recorder!Record2
    <3> QED BY <3>5 DEF Recorder!Next
  <2> QED BY <1>1, <2>1, <2>2, AppendMoves
<1>2. CASE ~AppendPoint
  BY <1>2, ListsOfOtherSteps, PositionsEmpty
  DEF Recorder!Next, Recorder!Clear1, Recorder!Clear2, Recorder!vars, Positions
<1> QED BY <1>1, <1>2

\* The two threads, the nested slots and the faulty line together behave, in the
\* positions they record, like the sequential recorder: for every size of a scan.
THEOREM ImplementsRecorder == Spec => RecorderSpec
<1>1. Init => Recorder!Init
  BY RecorderInit
<1>2. TypeOK /\ [Next]_vars => [Recorder!Next]_Recorder!vars
  BY RecorderStep
<1> QED BY <1>1, <1>2, TypeCorrect, PTL DEF Spec, RecorderSpec, Recorder!Spec

----------------------------------------------------------------------------
(* The scripts of the slots. *)

Steps ==
    {Select(n) : n \in Slaves} \cup {SendReq(r) : r \in GuiRequests}
    \cup {ReceiveFor(r) : r \in GuiRequests}
    \cup {WritePlc(c) : c \in {"ENABLE_LOCKED", "ROTATE_A", "ROTATE_B"}}
    \cup {Sleep, StopChart, StartChart, ClearSeries, ClearList1, ClearList2,
          AddReadPoints, BlankLcd, Dialog}

\* A request is sent just before its reply is waited for, and only then.
Paired(s) ==
    \A k \in 1 .. Len(s), r \in GuiRequests :
        /\ s[k] = ReceiveFor(r) => k > 1 /\ s[k - 1] = SendReq(r)
        /\ s[k] = SendReq(r) => k < Len(s) /\ s[k + 1] = ReceiveFor(r)

Raise(c) == SendReq(Ask("coil", c, 1))
Lower(c) == SendReq(Ask("coil", c, 0))

\* From step j on, s lowers coil c.
LowersFrom(s, j, c) == \E k \in j .. Len(s) : s[k] = Lower(c)

\* A coil that is raised is lowered later on.
Balanced(s) == \A j \in 1 .. Len(s), c \in Coils : s[j] = Raise(c) => LowersFrom(s, j + 1, c)

\* The script reads no waveform and selects no slave but the first.
Local(s) ==
    \A k \in 1 .. Len(s) :
        /\ \A r \in GuiRequests : s[k] = SendReq(r) => r.kind # "wave"
        /\ \A n \in Slaves : s[k] = Select(n) => n = 1

Good(s) == s \in Seq(Steps) /\ Paired(s) /\ Balanced(s)

\* Steps of different kinds are different.
LEMMA StepsDiffer ==
  ASSUME NEW r \in GuiRequests, NEW n, NEW c, NEW q
  PROVE  /\ Select(n) # SendReq(r) /\ Select(n) # ReceiveFor(r)
         /\ WritePlc(q) # SendReq(r) /\ WritePlc(q) # ReceiveFor(r) /\ WritePlc(q) # Select(n)
         /\ SendReq(q) # ReceiveFor(r) /\ SendReq(q) # Select(n) /\ ReceiveFor(q) # Select(n)
         /\ \A p \in {Sleep, StopChart, StartChart, ClearSeries, ClearList1, ClearList2,
                      AddReadPoints, BlankLcd, Dialog} :
                p # SendReq(r) /\ p # ReceiveFor(r) /\ p # Select(n)
  BY DEF Select, SendReq, ReceiveFor, WritePlc, Sleep, StopChart, StartChart, ClearSeries,
         ClearList1, ClearList2, AddReadPoints, BlankLcd, Dialog

\* A step that neither sends nor waits, alone.
LEMMA OneGood ==
  ASSUME NEW p \in Steps, \A r \in GuiRequests : p # SendReq(r) /\ p # ReceiveFor(r),
         \A n \in Slaves : p = Select(n) => n = 1
  PROVE  Good(<<p>>) /\ Local(<<p>>)
<1>1. <<p>> \in Seq(Steps) /\ Len(<<p>>) = 1 /\ <<p>>[1] = p
  OBVIOUS
<1>2. \A k \in 1 .. Len(<<p>>) : k = 1
  BY <1>1
<1>3. \A c \in Coils : p # Raise(c)
  BY DEF Raise, GuiRequests
<1> QED BY <1>1, <1>2, <1>3 DEF Good, Paired, Balanced, Local

\* Scripts put one after the other.
LEMMA ConcatGood ==
  ASSUME NEW s, NEW t, Good(s), Good(t)
  PROVE  Good(s \o t) /\ Len(s \o t) = Len(s) + Len(t)
<1> DEFINE u == s \o t
<1>0. s \in Seq(Steps) /\ t \in Seq(Steps) /\ Len(s) \in Nat /\ Len(t) \in Nat
  BY DEF Good
<1>1. /\ u \in Seq(Steps) /\ Len(u) = Len(s) + Len(t)
      /\ \A k \in 1 .. Len(s) : u[k] = s[k]
      /\ \A k \in 1 .. Len(t) : u[Len(s) + k] = t[k]
  BY <1>0, ConcatProperties
<1> HIDE DEF u
<1>2. ASSUME NEW k \in 1 .. Len(u), NEW r \in GuiRequests
      PROVE  /\ u[k] = ReceiveFor(r) => k > 1 /\ u[k - 1] = SendReq(r)
             /\ u[k] = SendReq(r) => k < Len(u) /\ u[k + 1] = ReceiveFor(r)
  <2>1. CASE k <= Len(s)
    <3>1. k \in 1 .. Len(s) /\ u[k] = s[k]
      BY <1>0, <1>1, <2>1
    <3>2. s[k] = ReceiveFor(r) => k > 1 /\ u[k - 1] = SendReq(r)
      <4> SUFFICES ASSUME s[k] = ReceiveFor(r) PROVE k > 1 /\ u[k - 1] = SendReq(r)
        OBVIOUS
      <4>1. k > 1 /\ s[k - 1] = SendReq(r)
        BY <3>1 DEF Good, Paired
      <4>2. k - 1 \in 1 .. Len(s)
        BY <1>0, <3>1, <4>1
      <4> QED BY <1>1, <4>1, <4>2
    <3>3. s[k] = SendReq(r) => k < Len(u) /\ u[k + 1] = ReceiveFor(r)
      <4> SUFFICES ASSUME s[k] = SendReq(r) PROVE k < Len(u) /\ u[k + 1] = ReceiveFor(r)
        OBVIOUS
      <4>1. k < Len(s) /\ s[k + 1] = ReceiveFor(r)
        BY <3>1 DEF Good, Paired
      <4>2. k + 1 \in 1 .. Len(s)
        BY <1>0, <3>1, <4>1
      <4> QED BY <1>0, <1>1, <3>1, <4>1, <4>2
    <3> QED BY <3>1, <3>2, <3>3
  <2>2. CASE k > Len(s)
    <3> DEFINE j == k - Len(s)
    <3>1. j \in 1 .. Len(t) /\ k = Len(s) + j
      BY <1>0, <1>1, <2>2
    <3> HIDE DEF j
    <3>2. u[k] = t[j]
      BY <1>1, <3>1
    <3>3. t[j] = ReceiveFor(r) => k > 1 /\ u[k - 1] = SendReq(r)
      <4> SUFFICES ASSUME t[j] = ReceiveFor(r) PROVE k > 1 /\ u[k - 1] = SendReq(r)
        OBVIOUS
      <4>1. j > 1 /\ t[j - 1] = SendReq(r)
        BY <3>1 DEF Good, Paired
      <4>2. j - 1 \in 1 .. Len(t) /\ k - 1 = Len(s) + (j - 1)
        BY <1>0, <3>1, <4>1
      <4> QED BY <1>0, <1>1, <3>1, <4>1, <4>2, SMTT(30)
    <3>4. t[j] = SendReq(r) => k < Len(u) /\ u[k + 1] = ReceiveFor(r)
      <4> SUFFICES ASSUME t[j] = SendReq(r) PROVE k < Len(u) /\ u[k + 1] = ReceiveFor(r)
        OBVIOUS
      <4>1. j < Len(t) /\ t[j + 1] = ReceiveFor(r)
        BY <3>1 DEF Good, Paired
      <4>2. j + 1 \in 1 .. Len(t) /\ k + 1 = Len(s) + (j + 1)
        BY <1>0, <3>1, <4>1
      <4> QED BY <1>0, <1>1, <3>1, <4>1, <4>2
    <3> QED BY <3>2, <3>3, <3>4
  <2> QED BY <1>0, <2>1, <2>2
<1>3. ASSUME NEW k \in 1 .. Len(u), NEW c \in Coils, u[k] = Raise(c)
      PROVE  LowersFrom(u, k + 1, c)
  <2>1. CASE k <= Len(s)
    <3>1. PICK i \in k + 1 .. Len(s) : s[i] = Lower(c)
      BY <1>0, <1>1, <1>3, <2>1 DEF Good, Balanced, LowersFrom
    <3>2. u[i] = Lower(c) /\ i \in k + 1 .. Len(u)
      BY <1>0, <1>1, <3>1
    <3> QED BY <3>2 DEF LowersFrom
  <2>2. CASE k > Len(s)
    <3> DEFINE j == k - Len(s)
    <3>1. j \in 1 .. Len(t) /\ k = Len(s) + j
      BY <1>0, <1>1, <2>2
    <3> HIDE DEF j
    <3>2. t[j] = Raise(c)
      BY <1>1, <1>3, <3>1
    <3>3. PICK i \in j + 1 .. Len(t) : t[i] = Lower(c)
      BY <3>1, <3>2 DEF Good, Balanced, LowersFrom
    <3>4. u[Len(s) + i] = Lower(c) /\ Len(s) + i \in k + 1 .. Len(u)
      BY <1>0, <1>1, <3>1, <3>3
    <3> QED BY <3>4 DEF LowersFrom
  <2> QED BY <1>0, <2>1, <2>2
<1> QED BY <1>1, <1>2, <1>3 DEF Good, Paired, Balanced, u

\* Nor does reading waveforms or selecting slaves come in by it.
LEMMA ConcatLocal ==
  ASSUME NEW s \in Seq(Steps), NEW t \in Seq(Steps), Local(s), Local(t)
  PROVE  Local(s \o t)
<1> DEFINE u == s \o t
<1>1. /\ Len(u) = Len(s) + Len(t) /\ Len(s) \in Nat /\ Len(t) \in Nat
      /\ \A k \in 1 .. Len(s) : u[k] = s[k]
      /\ \A k \in 1 .. Len(t) : u[Len(s) + k] = t[k]
  BY ConcatProperties
<1> HIDE DEF u
<1>2. ASSUME NEW k \in 1 .. Len(u)
      PROVE  \/ \E j \in 1 .. Len(s) : u[k] = s[j]
             \/ \E j \in 1 .. Len(t) : u[k] = t[j]
  <2>1. CASE k <= Len(s)
    BY <1>1, <2>1
  <2>2. CASE k > Len(s)
    <3>1. k - Len(s) \in 1 .. Len(t) /\ k = Len(s) + (k - Len(s))
      BY <1>1, <2>2
    <3> QED BY <1>1, <3>1
  <2> QED BY <1>1, <2>1, <2>2
<1>3. ASSUME NEW k \in 1 .. Len(u)
      PROVE  /\ \A r \in GuiRequests : u[k] = SendReq(r) => r.kind # "wave"
             /\ \A n \in Slaves : u[k] = Select(n) => n = 1
  <2>1. CASE \E j \in 1 .. Len(s) : u[k] = s[j]
    BY <2>1 DEF Local
  <2>2. CASE \E j \in 1 .. Len(t) : u[k] = t[j]
    BY <2>2 DEF Local
  <2> QED BY <1>2, <2>1, <2>2
<1>4. Local(u)
  BY <1>3 DEF Local
<1> QED BY <1>4 DEF u

\* The exchange of a request that does not raise a coil.
LEMMA ExchangeGood ==
  ASSUME NEW r \in GuiRequests
  PROVE  /\ Exchange(r) \in Seq(Steps) /\ Paired(Exchange(r)) /\ Len(Exchange(r)) = 2
         /\ Exchange(r)[1] = SendReq(r) /\ Exchange(r)[2] = ReceiveFor(r)
         /\ (\A c \in Coils : r # Ask("coil", c, 1)) => Good(Exchange(r))
         /\ r.kind # "wave" => Local(Exchange(r))
<1>1. /\ Exchange(r) \in Seq(Steps) /\ Len(Exchange(r)) = 2
      /\ Exchange(r)[1] = SendReq(r) /\ Exchange(r)[2] = ReceiveFor(r)
  BY DEF Exchange, Steps
<1>2. \A q \in GuiRequests : /\ SendReq(q) = SendReq(r) => q = r
                             /\ ReceiveFor(q) = ReceiveFor(r) => q = r
                             /\ SendReq(q) # ReceiveFor(r) /\ ReceiveFor(q) # SendReq(r)
  BY DEF SendReq, ReceiveFor
<1>3. \A n \in Slaves : Select(n) # SendReq(r) /\ Select(n) # ReceiveFor(r)
  BY DEF Select, SendReq, ReceiveFor
<1>4. Paired(Exchange(r))
  BY <1>1, <1>2 DEF Paired
<1>5. r.kind # "wave" => Local(Exchange(r))
  BY <1>1, <1>2, <1>3 DEF Local
<1>6. ASSUME \A c \in Coils : r # Ask("coil", c, 1)
      PROVE  Balanced(Exchange(r))
  <2>1. \A c \in Coils : Ask("coil", c, 1) \in GuiRequests
    BY DEF GuiRequests
  <2>2. \A c \in Coils : SendReq(r) # Raise(c) /\ ReceiveFor(r) # Raise(c)
    BY <1>2, <1>6, <2>1 DEF Raise
  <2> QED BY <1>1, <2>2 DEF Balanced
<1> QED BY <1>1, <1>4, <1>5, <1>6 DEF Good

\* The steps of two scripts one after the other.
LEMMA ConcatSteps ==
  ASSUME NEW s \in Seq(Steps), NEW t \in Seq(Steps), Local(s), Local(t)
  PROVE  /\ s \o t \in Seq(Steps) /\ Len(s \o t) = Len(s) + Len(t) /\ Local(s \o t)
         /\ \A k \in 1 .. Len(s) : (s \o t)[k] = s[k]
         /\ \A k \in 1 .. Len(t) : (s \o t)[Len(s) + k] = t[k]
<1>1. Local(s \o t)
  BY ConcatLocal
<1> QED BY <1>1, ConcatProperties

\* The six steps of a pulse.
LEMMA PulseSteps ==
  ASSUME NEW c \in Coils
  PROVE  /\ Pulse(c) \in Seq(Steps) /\ Len(Pulse(c)) = 6 /\ Local(Pulse(c))
         /\ Pulse(c)[1] = Select(1) /\ Pulse(c)[4] = Sleep
         /\ Pulse(c)[2] = Raise(c) /\ Pulse(c)[3] = ReceiveFor(Ask("coil", c, 1))
         /\ Pulse(c)[5] = Lower(c) /\ Pulse(c)[6] = ReceiveFor(Ask("coil", c, 0))
<1> DEFINE up   == Exchange(Ask("coil", c, 1))
           down == Exchange(Ask("coil", c, 0))
           s1   == <<Select(1)>>
           s2   == s1 \o up
           nap  == <<Sleep>>
           s3   == s2 \o nap
           s4   == s3 \o down
<1>1. Ask("coil", c, 1) \in GuiRequests /\ Ask("coil", c, 0) \in GuiRequests
  BY DEF GuiRequests
<1>2. /\ up \in Seq(Steps) /\ Len(up) = 2 /\ Local(up)
      /\ up[1] = Raise(c) /\ up[2] = ReceiveFor(Ask("coil", c, 1))
  BY <1>1, ExchangeGood DEF Raise, Ask
<1>3. /\ down \in Seq(Steps) /\ Len(down) = 2 /\ Local(down)
      /\ down[1] = Lower(c) /\ down[2] = ReceiveFor(Ask("coil", c, 0))
  BY <1>1, ExchangeGood DEF Lower, Ask
<1>4. s1 \in Seq(Steps) /\ Len(s1) = 1 /\ s1[1] = Select(1) /\ Local(s1)
  <2>1. Select(1) \in Steps
    BY DEF Steps, Slaves
  <2>2. \A n \in Slaves : Select(1) = Select(n) => n = 1
    BY DEF Select
  <2> QED BY <2>1, <2>2, StepsDiffer, OneGood DEF Good
<1>5. nap \in Seq(Steps) /\ Len(nap) = 1 /\ nap[1] = Sleep /\ Local(nap)
  <2>1. Sleep \in Steps
    BY DEF Steps
  <2>2. \A n \in Slaves : Sleep = Select(n) => n = 1
    BY DEF Sleep, Select
  <2> QED BY <2>1, <2>2, StepsDiffer, OneGood DEF Good
<1>6. Pulse(c) = s4
  BY DEF Pulse, WriteBit
<1> HIDE DEF s1, up, down, nap
<1>7. /\ s2 \in Seq(Steps) /\ Len(s2) = 3 /\ Local(s2)
      /\ s2[1] = Select(1) /\ s2[2] = Raise(c) /\ s2[3] = ReceiveFor(Ask("coil", c, 1))
  <2>1. /\ s2 \in Seq(Steps) /\ Len(s2) = Len(s1) + Len(up) /\ Local(s2)
        /\ \A k \in 1 .. Len(s1) : s2[k] = s1[k]
        /\ \A k \in 1 .. Len(up) : s2[Len(s1) + k] = up[k]
    BY <1>2, <1>4, ConcatSteps, Zenon
  <2> HIDE DEF s2
  <2> QED BY <1>2, <1>4, <2>1
<1> HIDE DEF s2
<1>8. /\ s3 \in Seq(Steps) /\ Len(s3) = 4 /\ Local(s3)
      /\ s3[1] = Select(1) /\ s3[2] = Raise(c) /\ s3[3] = ReceiveFor(Ask("coil", c, 1))
      /\ s3[4] = Sleep
  <2>1. /\ s3 \in Seq(Steps) /\ Len(s3) = Len(s2) + Len(nap) /\ Local(s3)
        /\ \A k \in 1 .. Len(s2) : s3[k] = s2[k]
        /\ \A k \in 1 .. Len(nap) : s3[Len(s2) + k] = nap[k]
    BY <1>5, <1>7, ConcatSteps, Zenon
  <2> HIDE DEF s3
  <2> QED BY <1>5, <1>7, <2>1
<1> HIDE DEF s3
<1>9. /\ s4 \in Seq(Steps) /\ Len(s4) = 6 /\ Local(s4)
      /\ s4[1] = Select(1) /\ s4[2] = Raise(c) /\ s4[3] = ReceiveFor(Ask("coil", c, 1))
      /\ s4[4] = Sleep /\ s4[5] = Lower(c) /\ s4[6] = ReceiveFor(Ask("coil", c, 0))
  <2>1. /\ s4 \in Seq(Steps) /\ Len(s4) = Len(s3) + Len(down) /\ Local(s4)
        /\ \A k \in 1 .. Len(s3) : s4[k] = s3[k]
        /\ \A k \in 1 .. Len(down) : s4[Len(s3) + k] = down[k]
    BY <1>3, <1>8, ConcatSteps, Zenon
  <2> HIDE DEF s4
  <2> QED BY <1>3, <1>8, <2>1
<1> QED BY <1>6, <1>9

\* A pulse lowers the coil it raises.
LEMMA PulseGood ==
  ASSUME NEW c \in Coils
  PROVE  Good(Pulse(c)) /\ Local(Pulse(c)) /\ Len(Pulse(c)) = 6
<1> DEFINE s  == Pulse(c)
           rs == Ask("coil", c, 1)
           lo == Ask("coil", c, 0)
<1>1. /\ s \in Seq(Steps) /\ Len(s) = 6 /\ Local(s)
      /\ s[1] = Select(1) /\ s[4] = Sleep
      /\ s[2] = SendReq(rs) /\ s[3] = ReceiveFor(rs)
      /\ s[5] = SendReq(lo) /\ s[6] = ReceiveFor(lo)
  BY PulseSteps DEF Raise, Lower
<1>2. \A k \in 1 .. 6 : k = 1 \/ k = 2 \/ k = 3 \/ k = 4 \/ k = 5 \/ k = 6
  OBVIOUS
<1>3. ASSUME NEW r \in GuiRequests, NEW q
      PROVE  /\ Select(1) # ReceiveFor(r) /\ Select(1) # SendReq(r)
             /\ Sleep # ReceiveFor(r) /\ Sleep # SendReq(r)
             /\ SendReq(q) # ReceiveFor(r) /\ ReceiveFor(q) # SendReq(r)
             /\ (SendReq(q) = SendReq(r) => q = r) /\ (ReceiveFor(q) = ReceiveFor(r) => q = r)
  BY DEF Select, Sleep, SendReq, ReceiveFor
<1>4. rs # lo
  BY DEF Ask
<1> HIDE DEF s, rs, lo
<1>5. Paired(s)
  <2> SUFFICES ASSUME NEW k \in 1 .. 6, NEW r \in GuiRequests
               PROVE  /\ s[k] = ReceiveFor(r) => k > 1 /\ s[k - 1] = SendReq(r)
                      /\ s[k] = SendReq(r) => k < 6 /\ s[k + 1] = ReceiveFor(r)
    BY <1>1 DEF Paired
  <2>1. CASE k = 1 \/ k = 4
    BY <1>1, <1>3, <2>1
  <2>2. CASE k = 2
    BY <1>1, <1>3, <2>2
  <2>3. CASE k = 3
    BY <1>1, <1>3, <2>3
  <2>4. CASE k = 5
    BY <1>1, <1>3, <2>4
  <2>5. CASE k = 6
    BY <1>1, <1>3, <2>5
  <2> QED BY <1>2, <2>1, <2>2, <2>3, <2>4, <2>5
<1>6. Balanced(s)
  <2> SUFFICES ASSUME NEW k \in 1 .. 6, NEW d \in Coils, s[k] = Raise(d)
               PROVE  LowersFrom(s, k + 1, d)
    BY <1>1 DEF Balanced
  <2>0. Ask("coil", d, 1) \in GuiRequests /\ Raise(d) = SendReq(Ask("coil", d, 1))
    BY DEF GuiRequests, Raise
  <2>1. k = 2 \/ k = 5
    BY <1>1, <1>2, <1>3, <2>0
  <2>2. k = 2 /\ rs = Ask("coil", d, 1)
    <3>1. lo # Ask("coil", d, 1)
      BY DEF lo, Ask
    <3> QED BY <1>1, <1>3, <2>0, <2>1, <3>1
  <2>3. d = c
    BY <2>2 DEF rs, Ask
  <2>4. s[5] = Lower(d) /\ 5 \in k + 1 .. Len(s)
    BY <1>1, <2>2, <2>3 DEF Lower, lo
  <2> QED BY <2>4 DEF LowersFrom
<1>7. Good(s) /\ Local(s) /\ Len(s) = 6
  BY <1>1, <1>5, <1>6 DEF Good
<1> QED BY <1>7 DEF s

\* Steps none of which uses the line, but to select slave 1.
LEMMA QuietGood ==
  ASSUME NEW s \in Seq(Steps),
         \A k \in 1 .. Len(s) : \/ s[k] = Select(1)
                                \/ s[k] \in {WritePlc(c) : c \in {"ENABLE_LOCKED", "ROTATE_A", "ROTATE_B"}}
                                \/ s[k] \in {Sleep, StopChart, StartChart, ClearSeries, ClearList1,
                                             ClearList2, AddReadPoints, BlankLcd, Dialog}
  PROVE  Good(s) /\ Local(s)
<1>1. ASSUME NEW k \in 1 .. Len(s), NEW r \in GuiRequests
      PROVE  s[k] # SendReq(r) /\ s[k] # ReceiveFor(r)
  BY StepsDiffer
<1>2. ASSUME NEW k \in 1 .. Len(s), NEW n \in Slaves, s[k] = Select(n)
      PROVE  n = 1
  <2>1. PICK r \in GuiRequests : TRUE
    BY DEF GuiRequests
  <2>2. s[k] = Select(1)
    BY <1>2, <2>1, StepsDiffer
  <2> QED BY <1>2, <2>2 DEF Select
<1>3. \A c \in Coils : Raise(c) \in {SendReq(r) : r \in GuiRequests}
  BY DEF Raise, GuiRequests
<1> QED BY <1>1, <1>2, <1>3 DEF Good, Paired, Balanced, Local

\* TEST1 asks for one segment after the other.
LEMMA ReadWavesGood == Good(ReadWaves) /\ Len(ReadWaves) = 2 * TestReads
<1> DEFINE W(j) == Ask("wave", (j - 1) \div 2, 0)
<1>0. TestReads \in Nat /\ TestReads >= 1
  BY PanelAssumption
<1>1. \A j \in 1 .. 2 * TestReads : W(j) \in GuiRequests
  BY <1>0 DEF GuiRequests
<1>2. \A j \in 1 .. 2 * TestReads :
         ReadWaves[j] = IF j % 2 = 1 THEN SendReq(W(j)) ELSE ReceiveFor(W(j))
  BY DEF ReadWaves, Exchange
<1>3. Len(ReadWaves) = 2 * TestReads /\ ReadWaves \in Seq(Steps)
  <2>1. DOMAIN ReadWaves = 1 .. 2 * TestReads
    BY DEF ReadWaves
  <2>2. \A j \in 1 .. 2 * TestReads : ReadWaves[j] \in Steps
    BY <1>1, <1>2 DEF Steps
  <2>3. ReadWaves = [j \in 1 .. 2 * TestReads |-> ReadWaves[j]]
    BY DEF ReadWaves
  <2> QED BY <1>0, <2>1, <2>2, <2>3
<1>4. \A j \in 1 .. 2 * TestReads : j % 2 # 1 => /\ j > 1 /\ j - 1 \in 1 .. 2 * TestReads
                                                 /\ (j - 1) % 2 = 1
                                                 /\ (j - 1) \div 2 = (j - 1 - 1) \div 2
  BY <1>0
<1>5. \A j \in 1 .. 2 * TestReads : j % 2 = 1 => /\ j < 2 * TestReads /\ j + 1 \in 1 .. 2 * TestReads
                                                 /\ (j + 1) % 2 # 1
                                                 /\ (j - 1) \div 2 = (j + 1 - 1) \div 2
  BY <1>0
<1>6. ASSUME NEW r, NEW q
      PROVE  /\ SendReq(r) # ReceiveFor(q) /\ ReceiveFor(r) # SendReq(q)
             /\ (SendReq(r) = SendReq(q) => r = q) /\ (ReceiveFor(r) = ReceiveFor(q) => r = q)
  BY DEF SendReq, ReceiveFor
<1>7. Paired(ReadWaves)
  <2> SUFFICES ASSUME NEW k \in 1 .. 2 * TestReads, NEW r \in GuiRequests
               PROVE  /\ ReadWaves[k] = ReceiveFor(r) => k > 1 /\ ReadWaves[k - 1] = SendReq(r)
                      /\ ReadWaves[k] = SendReq(r) =>
                            k < 2 * TestReads /\ ReadWaves[k + 1] = ReceiveFor(r)
    BY <1>3 DEF Paired
  <2>1. CASE k % 2 = 1
    <3>1. W(k) = W(k + 1) /\ k < 2 * TestReads /\ ReadWaves[k + 1] = ReceiveFor(W(k + 1))
      BY <1>2, <1>5, <2>1
    <3>2. ReadWaves[k] = SendReq(W(k))
      BY <1>2, <2>1
    <3> HIDE DEF W
    <3> QED BY <1>6, <3>1, <3>2
  <2>2. CASE k % 2 # 1
    <3>1. W(k) = W(k - 1) /\ k > 1 /\ ReadWaves[k - 1] = SendReq(W(k - 1))
      BY <1>2, <1>4, <2>2
    <3>2. ReadWaves[k] = ReceiveFor(W(k))
      BY <1>2, <2>2
    <3> HIDE DEF W
    <3> QED BY <1>6, <3>1, <3>2
  <2> QED BY <2>1, <2>2
<1>8. Balanced(ReadWaves)
  <2>1. \A j \in 1 .. 2 * TestReads, c \in Coils : ReadWaves[j] # Raise(c)
    BY <1>2, <1>6 DEF Raise, Ask
  <2> QED BY <1>3, <2>1 DEF Balanced
<1> QED BY <1>3, <1>7, <1>8 DEF Good

\* Every slot sends, waits and lowers what it raises; only TEST1 reads waveforms.
LEMMA ScriptGood ==
  ASSUME NEW h \in Handlers
  PROVE  /\ Good(Script(h)) /\ Len(Script(h)) >= 1
         /\ h # "TEST1" => Local(Script(h))
<1> DEFINE Fine(s) == Good(s) /\ Local(s) /\ Len(s) >= 1
<1>0. \A p \in {Sleep, StopChart, StartChart, ClearSeries, ClearList1, ClearList2,
                AddReadPoints, BlankLcd, Dialog, Select(1)} : p \in Steps
  BY DEF Steps, Slaves
<1>00. \A c \in {"ENABLE_LOCKED", "ROTATE_A", "ROTATE_B"} : WritePlc(c) \in Steps
  BY DEF Steps
<1>1. ASSUME NEW p \in {Sleep, StopChart, StartChart, ClearSeries, ClearList1, ClearList2,
                        AddReadPoints, BlankLcd, Dialog, Select(1)}
      PROVE  Fine(<<p>>)
  <2>1. <<p>> \in Seq(Steps) /\ Len(<<p>>) = 1 /\ \A k \in 1 .. 1 : <<p>>[k] = p
    BY <1>0
  <2>2. Good(<<p>>) /\ Local(<<p>>)
    BY <2>1, QuietGood
  <2> QED BY <2>1, <2>2
<1>2. Fine(<<WritePlc("ENABLE_LOCKED")>>)
  <2> DEFINE s == <<WritePlc("ENABLE_LOCKED")>>
  <2>1. s \in Seq(Steps) /\ Len(s) = 1 /\ \A k \in 1 .. 1 : s[k] = WritePlc("ENABLE_LOCKED")
    BY <1>00
  <2> HIDE DEF s
  <2>2. Good(s) /\ Local(s)
    BY <2>1, QuietGood
  <2>3. Fine(s)
    BY <2>1, <2>2
  <2> QED BY <2>3 DEF s
<1>3. ASSUME NEW s, NEW t, Fine(s), Fine(t) PROVE Fine(s \o t)
  <2>1. Good(s \o t) /\ Len(s \o t) = Len(s) + Len(t)
    BY <1>3, ConcatGood
  <2>2. Local(s \o t) /\ Len(s) \in Nat /\ Len(t) \in Nat
    BY <1>3, ConcatLocal DEF Good
  <2> QED BY <1>3, <2>1, <2>2
<1>4. Fine(Start)
  <2>1. Start \in Seq(Steps) /\ Len(Start) = 7
    BY <1>0, <1>00 DEF Start
  <2>2. \A k \in 1 .. 7 :
           \/ Start[k] \in {WritePlc(c) : c \in {"ENABLE_LOCKED", "ROTATE_A", "ROTATE_B"}}
           \/ Start[k] \in {Sleep, StopChart, StartChart, ClearSeries, ClearList1,
                            ClearList2, AddReadPoints, BlankLcd, Dialog}
    BY DEF Start
  <2> QED BY <2>1, <2>2, QuietGood
<1>5. \A c \in Coils : Fine(Pulse(c))
  BY PulseGood
<1>6. Fine(<<BlankLcd, ClearList1, ClearList2>>)
  <2> DEFINE s == <<BlankLcd, ClearList1, ClearList2>>
  <2>1. s \in Seq(Steps) /\ Len(s) = 3
    BY <1>0
  <2>2. \A k \in 1 .. 3 : s[k] \in {StopChart, ClearSeries, BlankLcd, ClearList1, ClearList2}
    OBVIOUS
  <2> HIDE DEF s
  <2>3. Good(s) /\ Local(s)
    BY <2>1, <2>2, QuietGood
  <2>4. Fine(s)
    BY <2>1, <2>3
  <2> QED BY <2>4 DEF s
<1>7. Fine(<<StopChart, ClearSeries, ClearList1, ClearList2>>)
  <2> DEFINE s == <<StopChart, ClearSeries, ClearList1, ClearList2>>
  <2>1. s \in Seq(Steps) /\ Len(s) = 4
    BY <1>0
  <2>2. \A k \in 1 .. 4 : s[k] \in {StopChart, ClearSeries, BlankLcd, ClearList1, ClearList2}
    OBVIOUS
  <2> HIDE DEF s
  <2>3. Good(s) /\ Local(s)
    BY <2>1, <2>2, QuietGood
  <2>4. Fine(s)
    BY <2>1, <2>3
  <2> QED BY <2>4 DEF s
<1>8. ASSUME NEW r \in GuiRequests, r.kind \notin {"coil", "wave"}
      PROVE  Fine(<<Select(1)>> \o Exchange(r))
  <2>1. Fine(Exchange(r))
    BY <1>8, ExchangeGood DEF Ask
  <2> QED BY <1>1, <1>3, <2>1
<1>9. \A k \in {"status", "angle"}, a \in {0, 1} :
         Ask(k, a, 0) \in GuiRequests /\ Ask(k, a, 0).kind \notin {"coil", "wave"}
  BY DEF GuiRequests, Ask
<1>10. Ask("preset", 0, 0) \in GuiRequests /\ Ask("preset", 0, 0).kind \notin {"coil", "wave"}
  BY DEF GuiRequests, Ask
<1>11. Good(<<Select(2)>> \o ReadWaves) /\ Len(<<Select(2)>> \o ReadWaves) >= 1
  <2>1. Good(<<Select(2)>>) /\ Len(<<Select(2)>>) = 1
    <3>1. Select(2) \in Steps /\ <<Select(2)>> \in Seq(Steps)
      BY DEF Steps, Slaves
    <3>2. \A r \in GuiRequests : Select(2) # SendReq(r) /\ Select(2) # ReceiveFor(r)
      BY StepsDiffer
    <3>3. \A c \in Coils : Select(2) # Raise(c)
      BY DEF Select, SendReq, Raise
    <3> QED BY <3>1, <3>2, <3>3 DEF Good, Paired, Balanced
  <2> QED BY <2>1, ReadWavesGood, ConcatGood, PanelAssumption
<1>12. Fine(DataClean) /\ Fine(LineClear)
  <2>1. 256 \in Coils
    BY DEF Coils
  <2>2. Fine(Pulse(256))
    BY <1>5, <2>1
  <2> HIDE DEF Fine
  <2> QED BY <1>3, <1>6, <1>7, <2>2 DEF DataClean, LineClear
<1> HIDE DEF Fine
<1>13. h = "TEST1" \/ Fine(Script(h))
  <2>1. CASE h \in {"start", "stop", "wipe", "dialogTick", "StopStart", "Continue", "MotorEnable",
                    "Setting", "TEST0", "DataClean", "LineClear"}
    BY <1>1, <1>2, <1>3, <1>4, <1>12, <2>1 DEF Script
  <2>2. CASE h \in {"SetZero", "MagneticFieldToZero"}
    BY <1>5, <2>2 DEF Script, Coils
  <2>3. CASE h \in {"dialogRead", "TEST2", "TEST3", "TEST4", "TEST5"}
    BY <1>8, <1>9, <1>10, <2>3 DEF Script, Params, Status
  <2> QED BY <2>1, <2>2, <2>3 DEF Handlers, AllButtons
<1>14. h = "TEST1" => Good(Script(h)) /\ Len(Script(h)) >= 1
  BY <1>11 DEF Script
<1> QED BY <1>13, <1>14 DEF Fine

----------------------------------------------------------------------------
(* The stack of slots. *)

StepAt(f) == Script(f.handler)[f.pc]

\* Every slot is somewhere in its script, and only the innermost one is anywhere but
\* at a sleep or the dialog.
StackInv ==
    /\ \A k \in 1 .. Len(stack) : stack[k].pc \in 1 .. Len(Script(stack[k].handler))
    /\ \A k \in 1 .. Len(stack) - 1 : StepAt(stack[k]) \in {Sleep, Dialog}

\* What the end of a step does to the stack: the slot returns or is at its next step.
LEMMA AdvanceShape ==
  ASSUME stack \in Seq(Frame), stack # <<>>, Advance
  PROVE  /\ stack' \in Seq(Frame) /\ Len(stack) \in Nat /\ Len(stack) >= 1
         /\ \A k \in 1 .. Len(stack) - 1 : stack'[k] = stack[k]
         /\ \/ Top.pc = Len(Script(Top.handler)) /\ Len(stack') = Len(stack) - 1
            \/ /\ Top.pc # Len(Script(Top.handler)) /\ Len(stack') = Len(stack)
               /\ stack'[Len(stack)].handler = Top.handler
               /\ stack'[Len(stack)].pc = Top.pc + 1
<1>0. Len(stack) \in Nat /\ Len(stack) >= 1 /\ stack' \in Seq(Frame)
  BY AdvanceType
<1>1. CASE Top.pc = Len(Script(Top.handler))
  <2>1. stack' = SubSeq(stack, 1, Len(stack) - 1)
    BY <1>1 DEF Advance
  <2>2. \A k \in 1 .. Len(stack) - 1 : stack[k] \in Frame
    BY <1>0
  <2>3. /\ Len(stack') = Len(stack) - 1
        /\ \A k \in 1 .. Len(stack) - 1 : stack'[k] = stack[1 + k - 1]
    <3>1. /\ Len(SubSeq(stack, 1, Len(stack) - 1)) =
                IF 1 <= Len(stack) - 1 THEN Len(stack) - 1 - 1 + 1 ELSE 0
          /\ \A k \in 1 .. Len(stack) - 1 - 1 + 1 :
                SubSeq(stack, 1, Len(stack) - 1)[k] = stack[1 + k - 1]
      BY <1>0, <2>2, SubSeqProperties
    <3>2. /\ Len(stack) - 1 - 1 + 1 = Len(stack) - 1
          /\ (IF 1 <= Len(stack) - 1 THEN Len(stack) - 1 - 1 + 1 ELSE 0) = Len(stack) - 1
      <4>1. \A n \in Nat : n >= 1 => /\ n - 1 - 1 + 1 = n - 1
                                     /\ (IF 1 <= n - 1 THEN n - 1 - 1 + 1 ELSE 0) = n - 1
        OBVIOUS
      <4> QED BY <1>0, <4>1, Zenon
    <3> QED BY <2>1, <3>1, <3>2, Zenon
  <2> QED BY <1>0, <1>1, <2>3
<1>2. CASE Top.pc # Len(Script(Top.handler))
  <2>1. stack' = [stack EXCEPT ![Len(stack)].pc = @ + 1]
    BY <1>2 DEF Advance
  <2>2. Len(stack) \in DOMAIN stack /\ stack[Len(stack)] \in Frame
    BY <1>0
  <2>3. Len(stack') = Len(stack) /\ \A k \in 1 .. Len(stack) - 1 : stack'[k] = stack[k]
    <3>1. stack' = [stack EXCEPT ![Len(stack)] = [stack[Len(stack)] EXCEPT !.pc = @ + 1]]
      BY <2>1
    <3>2. Len(stack') = Len(stack)
      BY <1>0, <2>1
    <3> QED BY <1>0, <3>1, <3>2
  <2>4. stack'[Len(stack)] = [Top EXCEPT !.pc = @ + 1]
    BY <2>1, <2>2 DEF Top
  <2>5. stack'[Len(stack)].handler = Top.handler /\ stack'[Len(stack)].pc = Top.pc + 1
    BY <2>2, <2>4 DEF Top, Frame
  <2> QED BY <1>0, <1>2, <2>3, <2>5
<1> QED BY <1>1, <1>2

\* The innermost slot and its step.
LEMMA TopFacts ==
  ASSUME stack \in Seq(Frame), StackInv, stack # <<>>
  PROVE  /\ Len(stack) \in Nat /\ Len(stack) >= 1 /\ Top.handler \in Handlers
         /\ Top = stack[Len(stack)] /\ Top.pc \in 1 .. Len(Script(Top.handler))
         /\ Len(Script(Top.handler)) \in Nat
         /\ Current = Script(Top.handler)[Top.pc] /\ Current = StepAt(Top)
<1>1. Len(stack) \in Nat /\ Len(stack) >= 1 /\ stack[Len(stack)] \in Frame
  OBVIOUS
<1>2. Top.handler \in Handlers /\ Top = stack[Len(stack)]
  BY <1>1 DEF Top, Frame
<1>3. Len(Script(Top.handler)) \in Nat
  BY <1>2, ScriptGood DEF Good
<1> QED BY <1>1, <1>2, <1>3 DEF StackInv, Current, StepAt

\* A slot that goes on keeps the stack in order.
LEMMA AdvanceKeepsStack ==
  ASSUME stack \in Seq(Frame), StackInv, stack # <<>>, Advance
  PROVE  StackInv'
<1>1. /\ Len(stack) \in Nat /\ Len(stack) >= 1
      /\ \A k \in 1 .. Len(stack) - 1 : stack'[k] = stack[k]
      /\ \/ Len(stack') = Len(stack) - 1
         \/ /\ Top.pc # Len(Script(Top.handler)) /\ Len(stack') = Len(stack)
            /\ stack'[Len(stack)].handler = Top.handler
            /\ stack'[Len(stack)].pc = Top.pc + 1
  BY AdvanceShape
<1>2. Top.pc \in 1 .. Len(Script(Top.handler)) /\ Len(Script(Top.handler)) \in Nat
  BY TopFacts
<1>3. \A k \in 1 .. Len(stack) - 1 : /\ stack'[k].pc \in 1 .. Len(Script(stack'[k].handler))
                                     /\ StepAt(stack'[k]) \in {Sleep, Dialog}
  BY <1>1, SMTT(30) DEF StackInv
<1> QED BY <1>1, <1>2, <1>3, SMTT(30) DEF StackInv

\* So does a slot that starts where the event loop runs.
LEMMA StartKeepsStack ==
  ASSUME stack \in Seq(Frame), StackInv, EventLoop, NEW h \in Handlers,
         stack' = Append(stack, [handler |-> h, pc |-> 1])
  PROVE  StackInv'
<1>1. /\ Len(stack) \in Nat /\ Len(stack') = Len(stack) + 1
      /\ \A k \in 1 .. Len(stack) : stack'[k] = stack[k]
      /\ stack'[Len(stack) + 1].handler = h /\ stack'[Len(stack) + 1].pc = 1
  OBVIOUS
<1>2. 1 \in 1 .. Len(Script(h))
  BY ScriptGood DEF Good
<1>3. Len(stack) >= 1 => StepAt(stack[Len(stack)]) \in {Sleep, Dialog}
  <2> SUFFICES ASSUME Len(stack) >= 1 PROVE StepAt(stack[Len(stack)]) \in {Sleep, Dialog}
    OBVIOUS
  <2>1. stack # <<>>
    BY <1>1
  <2> QED BY <2>1 DEF EventLoop, Doing, Current, StepAt, Top
<1>4. ASSUME NEW k \in 1 .. Len(stack')
      PROVE  stack'[k].pc \in 1 .. Len(Script(stack'[k].handler))
  <2>1. CASE k <= Len(stack)
    BY <1>1, <2>1 DEF StackInv
  <2>2. CASE k > Len(stack)
    BY <1>1, <1>2, <2>2
  <2> QED BY <1>1, <2>1, <2>2
<1>5. ASSUME NEW k \in 1 .. Len(stack') - 1
      PROVE  StepAt(stack'[k]) \in {Sleep, Dialog}
  <2>1. CASE k < Len(stack)
    BY <1>1, <2>1 DEF StackInv
  <2>2. CASE k = Len(stack)
    BY <1>1, <1>3, <2>2
  <2> QED BY <1>1, <2>1, <2>2
<1> QED BY <1>4, <1>5 DEF StackInv

\* The GUI thread blocks only in the call it entered with its last step.
LEMMA WaitsAfterAdvance ==
  ASSUME stack \in Seq(Frame), StackInv, stack # <<>>, Advance, NEW r \in GuiRequests
  PROVE  Doing(ReceiveFor(r))' <=> Doing(SendReq(r))
<1>0. PICK s : /\ s = Script(Top.handler) /\ Paired(s) /\ Len(s) \in Nat
               /\ Top.pc \in 1 .. Len(s) /\ Current = s[Top.pc]
               /\ Len(stack) \in Nat /\ Len(stack) >= 1
  BY TopFacts, ScriptGood DEF Good
<1>1. CASE Len(stack') = Len(stack) - 1 /\ Top.pc = Len(s)
  <2>1. ~Doing(SendReq(r))
    BY <1>0, <1>1 DEF Paired, Doing
  <2>2. ~Doing(ReceiveFor(r))'
    <3> SUFFICES ASSUME stack' # <<>> PROVE Current' # ReceiveFor(r)
      BY DEF Doing
    <3>1. stack' \in Seq(Frame) /\ Len(stack') >= 1
      BY AdvanceShape
    <3>2. Len(stack) - 1 \in 1 .. Len(stack) - 1 /\ stack'[Len(stack) - 1] = stack[Len(stack) - 1]
      BY <1>0, <1>1, <3>1, AdvanceShape
    <3>3. Current' \in {Sleep, Dialog}
      BY <1>1, <3>2 DEF StackInv, StepAt, Current, Top
    <3> QED BY <3>3, StepsDiffer
  <2> QED BY <2>1, <2>2
<1>2. CASE /\ Top.pc # Len(s) /\ Len(stack') = Len(stack)
           /\ stack'[Len(stack)].handler = Top.handler
           /\ stack'[Len(stack)].pc = Top.pc + 1
  <2>1. stack' # <<>> /\ Current' = s[Top.pc + 1]
    <3>1. stack' # <<>>
      BY <1>0, <1>2
    <3>2. Top' = stack'[Len(stack)]
      BY <1>2 DEF Top
    <3> QED BY <1>0, <1>2, <3>1, <3>2 DEF Current
  <2>2. Top.pc + 1 \in 1 .. Len(s)
    BY <1>0, <1>2
  <2>3. s[Top.pc + 1] = ReceiveFor(r) => s[Top.pc] = SendReq(r)
    BY <1>0, <2>2 DEF Paired
  <2>4. s[Top.pc] = SendReq(r) => s[Top.pc + 1] = ReceiveFor(r)
    BY <1>0 DEF Paired
  <2> QED BY <1>0, <2>1, <2>3, <2>4 DEF Doing
<1> QED BY <1>0, <1>1, <1>2, AdvanceShape

\* A slot that starts does not start inside a call.
LEMMA WaitsAfterStart ==
  ASSUME stack \in Seq(Frame), NEW h \in Handlers, NEW r \in GuiRequests,
         stack' = Append(stack, [handler |-> h, pc |-> 1])
  PROVE  ~Doing(ReceiveFor(r))'
<1>1. Current' = Script(h)[1]
  <2>1. stack'[Len(stack')] = [handler |-> h, pc |-> 1]
    OBVIOUS
  <2> QED BY <2>1 DEF Current, Top
<1>2. 1 \in 1 .. Len(Script(h)) /\ Paired(Script(h))
  BY ScriptGood DEF Good
<1>3. Script(h)[1] # ReceiveFor(r)
  BY <1>2 DEF Paired
<1> QED BY <1>1, <1>3 DEF Doing

\* While the event loop runs no slot waits for a reply.
LEMMA EventLoopWaits ==
  ASSUME EventLoop, NEW r \in GuiRequests
  PROVE  ~Doing(ReceiveFor(r))
  BY StepsDiffer DEF EventLoop, Doing

\* How a step of the system moves the stack: not at all, by the end of a step of the
\* innermost slot, or by the start of a slot where the event loop runs.
LEMMA StackMoves ==
  ASSUME TypeOK, [Next]_vars
  PROVE  \/ stack' = stack
         \/ stack # <<>> /\ Advance
         \/ EventLoop /\ \E h \in Handlers : stack' = Append(stack, [handler |-> h, pc |-> 1])
<1>1. ASSUME NEW b \in Buttons, Press(b)
      PROVE  EventLoop /\ \E h \in Handlers : stack' = Append(stack, [handler |-> h, pc |-> 1])
  <2>1. b \in AllButtons /\ flagGo \in 0 .. 2
    BY PanelAssumption DEF TypeOK
  <2>2. GoCases[flagGo] \in {"start", "stop", "wipe"}
    BY <2>1 DEF GoCases
  <2>3. Slot(b) \in Handlers
    BY <2>1, <2>2 DEF Slot, Handlers
  <2> QED BY <1>1, <2>3 DEF Press, ButtonsLive
<1>2. CASE GuiStep
  BY <1>2 DEF GuiStep, GuiSelect, GuiSend, Wake, GuiWritePlc, GuiChart, GuiClearList, GuiAddCmd,
              Doing
<1>3. CASE GuiReceive \/ TornReceive \/ DialogClose
  BY <1>3 DEF GuiReceive, TornReceive, DialogClose, Doing
<1>4. CASE DialogTick
  <2>1. "dialogRead" \in Handlers /\ "dialogTick" \in Handlers
    BY DEF Handlers
  <2> QED BY <1>4, <2>1 DEF DialogTick, EventLoop
<1>5. CASE StatusTick \/ ChartTick \/ WorkerStep \/ WorkerReceive \/ Poll \/ BoardStep
  BY <1>5 DEF StatusTick, ChartTick, WorkerStep, Dequeue, WorkerSelect, WorkerSend, AppendPoint,
              WorkerReceive, Poll, BoardStep, vars, guiVars
<1>6. CASE UNCHANGED vars
  BY <1>6 DEF vars, guiVars
<1> QED BY <1>1, <1>2, <1>3, <1>4, <1>5, <1>6 DEF Next

\* Every step of the system keeps the stack in order.
LEMMA NextStack == TypeOK /\ StackInv /\ [Next]_vars => StackInv'
<1> SUFFICES ASSUME TypeOK, StackInv, [Next]_vars PROVE StackInv'
  OBVIOUS
<1>0. stack \in Seq(Frame)
  BY DEF TypeOK
<1>1. CASE stack' = stack
  BY <1>1 DEF StackInv
<1> QED BY <1>0, <1>1, StackMoves, AdvanceKeepsStack, StartKeepsStack

\* Slots nest only where the event loop runs, and none runs past its end.
THEOREM StackInOrder == Spec => []StackInv
<1>1. Init => StackInv
  BY DEF Init, StackInv
<1>2. TypeOK /\ StackInv /\ [Next]_vars => StackInv'
  BY NextStack
<1> QED BY <1>1, <1>2, TypeCorrect, PTL DEF Spec

----------------------------------------------------------------------------
(* What the slots do besides using the line.                               *)

\* The chart's timer is not started, and stopped only to clear the chart at once; the
\* motor is not set going and no scan is asked for.
Tame(s) ==
    \A k \in 1 .. Len(s) :
        /\ s[k] # WritePlc("ROTATE_B") /\ s[k] # AddReadPoints /\ s[k] # StartChart
        /\ s[k] = StopChart => k < Len(s) /\ s[k + 1] = ClearSeries

\* A script that does not touch the chart's timer.
LEMMA PlainTame ==
  ASSUME NEW s, \A k \in 1 .. Len(s) : s[k] \notin {WritePlc("ROTATE_B"), AddReadPoints, StartChart,
                                                 StopChart}
  PROVE  Tame(s)
  BY DEF Tame

LEMMA ConcatTame ==
  ASSUME NEW s \in Seq(Steps), NEW t \in Seq(Steps), Tame(s), Tame(t)
  PROVE  Tame(s \o t) /\ s \o t \in Seq(Steps)
<1> DEFINE u == s \o t
<1>1. /\ u \in Seq(Steps) /\ Len(u) = Len(s) + Len(t) /\ Len(s) \in Nat /\ Len(t) \in Nat
      /\ \A k \in 1 .. Len(s) : u[k] = s[k]
      /\ \A k \in 1 .. Len(t) : u[Len(s) + k] = t[k]
  BY ConcatProperties
<1> HIDE DEF u
<1>2. ASSUME NEW k \in 1 .. Len(u)
      PROVE  /\ u[k] # WritePlc("ROTATE_B") /\ u[k] # AddReadPoints /\ u[k] # StartChart
             /\ u[k] = StopChart => k < Len(u) /\ u[k + 1] = ClearSeries
  <2>1. CASE k <= Len(s)
    <3>1. k \in 1 .. Len(s) /\ u[k] = s[k]
      BY <1>1, <2>1
    <3>2. s[k] = StopChart => k + 1 \in 1 .. Len(s) /\ s[k + 1] = ClearSeries
      BY <1>1, <3>1 DEF Tame
    <3> QED BY <1>1, <3>1, <3>2 DEF Tame
  <2>2. CASE k > Len(s)
    <3> DEFINE j == k - Len(s)
    <3>1. j \in 1 .. Len(t) /\ k = Len(s) + j
      BY <1>1, <2>2
    <3> HIDE DEF j
    <3>2. u[k] = t[j]
      BY <1>1, <3>1
    <3>3. t[j] = StopChart => j + 1 \in 1 .. Len(t) /\ t[j + 1] = ClearSeries
      BY <1>1, <3>1 DEF Tame
    <3>4. j + 1 \in 1 .. Len(t) => u[k + 1] = t[j + 1] /\ k < Len(u)
      BY <1>1, <3>1
    <3> QED BY <3>1, <3>2, <3>3, <3>4 DEF Tame
  <2> QED BY <1>1, <2>1, <2>2
<1>3. Tame(u)
  BY <1>2 DEF Tame
<1> QED BY <1>1, <1>3 DEF u

\* Every slot is tame but the one that starts the measurement, the three that only start
\* or stop the chart's timer, and TEST0.
LEMMA ScriptTame ==
  ASSUME NEW h \in Handlers \ {"start", "stop", "StopStart", "Continue", "TEST0"}
  PROVE  Tame(Script(h))
<1> DEFINE Fine(s) == s \in Seq(Steps) /\ Tame(s)
           Wild == {WritePlc("ROTATE_B"), AddReadPoints, StartChart, StopChart}
<1>0. /\ \A n \in Slaves : Select(n) \in Steps /\ Select(n) \notin Wild
      /\ \A r \in GuiRequests : /\ SendReq(r) \in Steps /\ SendReq(r) \notin Wild
                                /\ ReceiveFor(r) \in Steps /\ ReceiveFor(r) \notin Wild
      /\ \A p \in {Sleep, ClearSeries, ClearList1, ClearList2, BlankLcd, Dialog,
                   WritePlc("ENABLE_LOCKED")} :
             p \in Steps /\ p \notin Wild
      /\ StopChart \in Steps
  <2>1. /\ \A n \in Slaves : Select(n) \in Steps
        /\ \A r \in GuiRequests : SendReq(r) \in Steps /\ ReceiveFor(r) \in Steps
        /\ \A p \in {Sleep, ClearSeries, ClearList1, ClearList2, BlankLcd, Dialog,
                     WritePlc("ENABLE_LOCKED"), StopChart} : p \in Steps
    BY DEF Steps
  <2>2. ASSUME NEW n, NEW r PROVE Select(n) \notin Wild /\ SendReq(r) \notin Wild /\ ReceiveFor(r) \notin Wild
    BY DEF Select, SendReq, ReceiveFor, WritePlc, StartChart, StopChart, AddReadPoints
  <2>3. \A p \in {Sleep, ClearSeries, ClearList1, ClearList2, BlankLcd, Dialog,
                 WritePlc("ENABLE_LOCKED")} : p \notin Wild
    BY DEF WritePlc, Sleep, StopChart, StartChart, ClearSeries, ClearList1, ClearList2,
           AddReadPoints, BlankLcd, Dialog
  <2> HIDE DEF Wild
  <2> QED BY <2>1, <2>2, <2>3
<1>1. ASSUME NEW p \in Steps, p \notin Wild PROVE Fine(<<p>>)
  BY <1>1 DEF Tame
<1>2. ASSUME NEW s, NEW t, Fine(s), Fine(t) PROVE Fine(s \o t)
  BY <1>2, ConcatTame
<1>3. ASSUME NEW r \in GuiRequests PROVE Fine(Exchange(r))
  <2>1. Exchange(r) = <<SendReq(r), ReceiveFor(r)>>
    BY DEF Exchange
  <2> QED BY <1>0, <2>1 DEF Tame
<1>4. ASSUME NEW c \in Coils PROVE Fine(Pulse(c))
  <2>1. Fine(WriteBit(c, 0)) /\ Fine(WriteBit(c, 1))
    BY <1>3 DEF WriteBit, GuiRequests
  <2>2. Fine(<<Select(1)>>) /\ Fine(<<Sleep>>)
    BY <1>0, <1>1 DEF Slaves
  <2> HIDE DEF Fine
  <2> QED BY <1>2, <2>1, <2>2 DEF Pulse
<1>5. Fine(<<BlankLcd, ClearList1, ClearList2>>)
  BY <1>0 DEF Tame
<1>6. Fine(<<StopChart, ClearSeries, ClearList1, ClearList2>>)
  <2> DEFINE s == <<StopChart, ClearSeries, ClearList1, ClearList2>>
  <2>1. s \in Seq(Steps)
    BY <1>0
  <2>2. Tame(s)
    BY <1>0 DEF Tame, StartChart, StopChart, ClearSeries, ClearList1, ClearList2, WritePlc,
                AddReadPoints
  <2> QED BY <2>1, <2>2
<1>7. Fine(DataClean) /\ Fine(LineClear)
  <2>1. Fine(Pulse(256))
    BY <1>4 DEF Coils
  <2> HIDE DEF Fine
  <2> QED BY <1>2, <1>5, <1>6, <2>1 DEF DataClean, LineClear
<1>8. Fine(ReadWaves)
  <2>1. ReadWaves \in Seq(Steps)
    BY ReadWavesGood DEF Good
  <2>2. ASSUME NEW k \in 1 .. Len(ReadWaves) PROVE ReadWaves[k] \notin Wild
    <3>1. k \in 1 .. 2 * TestReads
      BY <2>1, <2>2, ReadWavesGood
    <3>2. (k - 1) \div 2 \in 0 .. TestReads - 1
      <4>1. TestReads \in Nat
        BY PanelAssumption, LineAssumption
      <4> QED BY <3>1, <4>1
    <3>3. Ask("wave", (k - 1) \div 2, 0) \in GuiRequests
      BY <3>2 DEF GuiRequests
    <3>4. ReadWaves[k] \in {SendReq(Ask("wave", (k - 1) \div 2, 0)),
                            ReceiveFor(Ask("wave", (k - 1) \div 2, 0))}
      BY <3>1 DEF ReadWaves, Exchange
    <3> QED BY <1>0, <3>3, <3>4
  <2> QED BY <2>1, <2>2, PlainTame
<1>9. /\ \A k \in {"status", "angle"}, a \in {0, 1} : Ask(k, a, 0) \in GuiRequests
      /\ Ask("preset", 0, 0) \in GuiRequests
  BY DEF GuiRequests
<1>10. /\ \A n \in Slaves : Fine(<<Select(n)>>)
       /\ \A p \in {Dialog, WritePlc("ENABLE_LOCKED")} : Fine(<<p>>)
  <2> HIDE DEF Fine, Wild
  <2> QED BY <1>0, <1>1
<1>11. 1 \in Slaves /\ 2 \in Slaves /\ 257 \in Coils /\ 258 \in Coils
  BY DEF Slaves, Coils
<1> HIDE DEF Fine, Wild
<1>12. Fine(Script(h))
  <2>1. CASE h \in {"wipe", "SetZero", "MagneticFieldToZero", "DataClean", "LineClear"}
    BY <1>2, <1>4, <1>7, <1>11, <2>1 DEF Script
  <2>2. CASE h \in {"MotorEnable", "Setting", "dialogTick"}
    BY <1>10, <1>11, <2>2 DEF Script
  <2>3. CASE h \in {"dialogRead", "TEST2", "TEST3", "TEST4", "TEST5"}
    BY <1>2, <1>3, <1>9, <1>10, <1>11, <2>3 DEF Script, Params, Status
  <2>4. CASE h = "TEST1"
    BY <1>2, <1>8, <1>10, <1>11, <2>4 DEF Script
  <2> QED BY <2>1, <2>2, <2>3, <2>4 DEF Handlers, AllButtons
<1> QED BY <1>12 DEF Fine

----------------------------------------------------------------------------
(* What the slots on the stack have yet to do.                             *)

\* Some slot has step p before it.
Due(p) ==
    \E k \in 1 .. Len(stack) :
       \E j \in stack[k].pc .. Len(Script(stack[k].handler)) : Script(stack[k].handler)[j] = p

\* A slot that goes on past another step still has p before it.
LEMMA DueKept ==
  ASSUME stack \in Seq(Frame), StackInv, stack # <<>>, Advance, NEW p, Current # p, Due(p)
  PROVE  Due(p)'
<1>1. PICK k \in 1 .. Len(stack) :
         \E j \in stack[k].pc .. Len(Script(stack[k].handler)) : Script(stack[k].handler)[j] = p
  BY DEF Due
<1>2. /\ Len(stack) \in Nat /\ Len(stack) >= 1
      /\ \A j \in 1 .. Len(stack) - 1 : stack'[j] = stack[j]
      /\ \/ Top.pc = Len(Script(Top.handler)) /\ Len(stack') = Len(stack) - 1
         \/ /\ Top.pc # Len(Script(Top.handler)) /\ Len(stack') = Len(stack)
            /\ stack'[Len(stack)].handler = Top.handler
            /\ stack'[Len(stack)].pc = Top.pc + 1
  BY AdvanceShape
<1>3. CASE k < Len(stack)
  <2>1. k \in 1 .. Len(stack') /\ stack'[k] = stack[k]
    BY <1>1, <1>2, <1>3
  <2> QED BY <1>1, <2>1 DEF Due
<1>4. CASE k = Len(stack)
  <2>1. /\ Top.pc \in 1 .. Len(Script(Top.handler)) /\ Len(Script(Top.handler)) \in Nat
        /\ Top = stack[Len(stack)] /\ Current = Script(Top.handler)[Top.pc]
    BY TopFacts
  <2>2. PICK j \in Top.pc .. Len(Script(Top.handler)) : Script(Top.handler)[j] = p
    BY <1>1, <1>4, <2>1
  <2>3. j # Top.pc
    BY <2>1, <2>2
  <2>4. j \in Top.pc + 1 .. Len(Script(Top.handler)) /\ Top.pc # Len(Script(Top.handler))
    BY <2>1, <2>2, <2>3
  <2>5. /\ Len(stack) \in 1 .. Len(stack') /\ stack'[Len(stack)].handler = Top.handler
        /\ stack'[Len(stack)].pc = Top.pc + 1
    BY <1>2, <2>4
  <2> QED BY <2>2, <2>4, <2>5 DEF Due
<1> QED BY <1>1, <1>2, <1>3, <1>4

\* A slot that is at a step with p right behind has p before it when it goes on.
LEMMA DueNext ==
  ASSUME stack \in Seq(Frame), StackInv, stack # <<>>, Advance, NEW p,
         Top.pc < Len(Script(Top.handler)), Script(Top.handler)[Top.pc + 1] = p
  PROVE  Due(p)'
<1>1. /\ Top.pc \in 1 .. Len(Script(Top.handler)) /\ Len(Script(Top.handler)) \in Nat
      /\ Len(stack) \in Nat /\ Len(stack) >= 1
  BY TopFacts
<1>2. /\ Len(stack') = Len(stack) /\ stack'[Len(stack)].handler = Top.handler
      /\ stack'[Len(stack)].pc = Top.pc + 1
  BY <1>1, AdvanceShape
<1> QED BY <1>1, <1>2 DEF Due

\* A slot that starts has all its steps before it, and leaves the others theirs.
LEMMA DueStarts ==
  ASSUME stack \in Seq(Frame), NEW h, stack' = Append(stack, [handler |-> h, pc |-> 1]), NEW p
  PROVE  /\ Due(p) => Due(p)'
         /\ (\E j \in 1 .. Len(Script(h)) : Script(h)[j] = p) => Due(p)'
         /\ Due(p)' => Due(p) \/ \E j \in 1 .. Len(Script(h)) : Script(h)[j] = p
<1>1. /\ Len(stack) \in Nat /\ Len(stack') = Len(stack) + 1
      /\ \A k \in 1 .. Len(stack) : stack'[k] = stack[k]
      /\ stack'[Len(stack) + 1] = [handler |-> h, pc |-> 1]
  OBVIOUS
<1>2. \A k \in 1 .. Len(stack') : k \in 1 .. Len(stack) \/ k = Len(stack) + 1
  BY <1>1
<1>3. (Len(stack) + 1) \in 1 .. Len(stack') /\ \A k \in 1 .. Len(stack) : k \in 1 .. Len(stack')
  BY <1>1
<1>4. [handler |-> h, pc |-> 1].handler = h /\ [handler |-> h, pc |-> 1].pc = 1
  OBVIOUS
<1>5. Due(p) => Due(p)'
  BY <1>1, <1>3 DEF Due
<1>6. (\E j \in 1 .. Len(Script(h)) : Script(h)[j] = p) => Due(p)'
  BY <1>1, <1>3, <1>4 DEF Due
<1>7. Due(p)' => Due(p) \/ \E j \in 1 .. Len(Script(h)) : Script(h)[j] = p
  BY <1>1, <1>2, <1>4 DEF Due
<1> QED BY <1>5, <1>6, <1>7

\* The slots that remain when one goes on are those that were there.
LEMMA HandlersKept ==
  ASSUME stack \in Seq(Frame), stack # <<>>, Advance
  PROVE  /\ \A k \in 1 .. Len(stack') : k \in 1 .. Len(stack) /\ stack'[k].handler = stack[k].handler
         /\ \A k \in 1 .. Len(stack') : k = Len(stack) => stack'[k].pc = stack[k].pc + 1
         /\ \A k \in 1 .. Len(stack') : k # Len(stack) => stack'[k].pc = stack[k].pc
<1>1. /\ Len(stack) \in Nat /\ Len(stack) >= 1
      /\ \A k \in 1 .. Len(stack) - 1 : stack'[k] = stack[k]
      /\ \/ Len(stack') = Len(stack) - 1
         \/ /\ Len(stack') = Len(stack)
            /\ stack'[Len(stack)].handler = Top.handler
            /\ stack'[Len(stack)].pc = Top.pc + 1
  BY AdvanceShape
<1>2. Top = stack[Len(stack)]
  BY DEF Top
<1> QED BY <1>1, <1>2

\* GOGOGO's slot that stops the chart is alone with it: no other starts inside.
LEMMA NoStopInLoop ==
  ASSUME stack \in Seq(Frame), StackInv, EventLoop, NEW k \in 1 .. Len(stack)
  PROVE  stack[k].handler # "stop"
<1>1. StepAt(stack[k]) \in {Sleep, Dialog}
  <2>1. CASE k = Len(stack)
    <3>1. stack # <<>> /\ Current = StepAt(stack[k])
      BY <2>1 DEF Current, Top, StepAt
    <3> QED BY <3>1 DEF EventLoop, Doing
  <2>2. CASE k # Len(stack)
    BY <2>2 DEF StackInv
  <2> QED BY <2>1, <2>2
<1>2. ASSUME stack[k].handler = "stop" PROVE StepAt(stack[k]) = StopChart
  <2>1. Script("stop") = <<StopChart>> /\ Len(Script("stop")) = 1 /\ Script("stop")[1] = StopChart
    BY DEF Script
  <2>2. stack[k].pc \in 1 .. Len(Script("stop"))
    BY <1>2 DEF StackInv
  <2>3. stack[k].pc \in 1 .. 1
    BY <2>1, <2>2, Zenon
  <2>4. stack[k].pc = 1
    BY <2>3
  <2> QED BY <1>2, <2>1, <2>4, Zenon DEF StepAt
<1> QED BY <1>1, <1>2 DEF Sleep, Dialog, StopChart

----------------------------------------------------------------------------
(* The chart.                                                              *)

Without(b) == \A k \in 1 .. Len(stack) : stack[k].handler # b

\* A chart that shows something and is not updated has been stopped by the second
\* press of GOGOGO, or is about to be cleared.
ChartInv ==
    /\ shown /\ ~charting => flagGo = 2 \/ Due(ClearSeries)
    /\ \A k \in 1 .. Len(stack) : stack[k].handler = "stop" => flagGo = 2

\* A step of a slot that does not touch the chart.
LEMMA ChartKept ==
  ASSUME TypeOK, StackInv, ChartInv, flagGo' = flagGo, shown' = shown, charting' = charting,
         \/ stack' = stack
         \/ stack # <<>> /\ Advance /\ Current # ClearSeries
  PROVE  ChartInv'
<1>0. stack \in Seq(Frame)
  BY DEF TypeOK
<1>1. Due(ClearSeries) => Due(ClearSeries)'
  <2>1. CASE stack' = stack
    BY <2>1 DEF Due
  <2> QED BY <1>0, <2>1, DueKept
<1>2. \A k \in 1 .. Len(stack') : stack'[k].handler = "stop" => flagGo = 2
  <2>1. CASE stack' = stack
    BY <2>1 DEF ChartInv
  <2>2. CASE stack # <<>> /\ Advance
    BY <1>0, <2>2, HandlersKept DEF ChartInv
  <2> QED BY <2>1, <2>2
<1>3. shown' /\ ~charting' => shown /\ ~charting
  OBVIOUS
<1> QED BY <1>1, <1>2, <1>3 DEF ChartInv

\* The steps of two scripts one after the other.
LEMMA Joined ==
  ASSUME NEW s \in Seq(Steps), NEW t \in Seq(Steps)
  PROVE  /\ s \o t \in Seq(Steps) /\ Len(s) \in Nat /\ Len(t) \in Nat
         /\ Len(s \o t) = Len(s) + Len(t)
         /\ \A k \in 1 .. Len(s) : (s \o t)[k] = s[k]
         /\ \A k \in 1 .. Len(t) : (s \o t)[Len(s) + k] = t[k]
  BY ConcatProperties

\* The third press of GOGOGO wipes the chart.
LEMMA WipeClears == \E j \in 1 .. Len(Script("wipe")) : Script("wipe")[j] = ClearSeries
<1> DEFINE a == DataClean
           b == <<StopChart, ClearSeries, ClearList1, ClearList2>>
           c == Pulse(256)
<1>1. a \in Seq(Steps) /\ c \in Seq(Steps) /\ Script("wipe") = a \o (b \o c)
  <2>1. Script("wipe") = DataClean \o LineClear
    BY DEF Script
  <2>2. Good(Script("DataClean")) /\ Script("DataClean") = DataClean
    BY ScriptGood DEF Script, Handlers, AllButtons
  <2>3. Good(Pulse(256))
    BY PulseGood DEF Coils
  <2> QED BY <2>1, <2>2, <2>3 DEF Good, LineClear
<1>2. b \in Seq(Steps) /\ Len(b) = 4 /\ b[2] = ClearSeries
  BY DEF Steps
<1>3. 2 \in 1 .. Len(b)
  BY <1>2
<1> HIDE DEF a, b, c
<1> DEFINE d == b \o c
<1>4. /\ d \in Seq(Steps) /\ Len(d) = Len(b) + Len(c) /\ Len(c) \in Nat
      /\ \A k \in 1 .. Len(b) : d[k] = b[k]
  BY <1>1, <1>2, Joined, Zenon
<1>5. d[2] = ClearSeries
  BY <1>2, <1>3, <1>4, Zenon
<1>6. 2 \in 1 .. Len(d) /\ Len(d) \in Nat
  BY <1>2, <1>4
<1> HIDE DEF d
<1> DEFINE u == a \o d
<1>7. /\ Len(u) = Len(a) + Len(d) /\ Len(a) \in Nat
      /\ \A k \in 1 .. Len(d) : u[Len(a) + k] = d[k]
  BY <1>1, <1>4, Joined, Zenon
<1> HIDE DEF u
<1>8. u[Len(a) + 2] = ClearSeries
  BY <1>5, <1>6, <1>7, Zenon
<1>9. Len(a) + 2 \in 1 .. Len(u)
  BY <1>6, <1>7
<1>10. Script("wipe") = u
  BY <1>1 DEF u, d
<1> QED BY <1>8, <1>9, <1>10

\* The scripts that start the measurement or the timer and read points do not stop it.
LEMMA StartKeepsChart ==
  /\ \A j \in 1 .. Len(Script("start")) : Script("start")[j] # StopChart
  /\ \A j \in 1 .. Len(Script("Continue")) : Script("Continue")[j] # StopChart
  /\ \A j \in 1 .. Len(Script("TEST0")) : Script("TEST0")[j] # StopChart
<1>1. /\ Script("start") = Start /\ Script("TEST0") = <<AddReadPoints>>
      /\ Script("Continue") = <<StartChart>>
  BY DEF Script
<1>2. /\ \A j \in 1 .. Len(Start) : Start[j] # StopChart
      /\ \A j \in 1 .. Len(<<StartChart>>) : <<StartChart>>[j] # StopChart
      /\ \A j \in 1 .. Len(<<AddReadPoints>>) : <<AddReadPoints>>[j] # StopChart
  BY DEF Start, WritePlc, Sleep, StopChart, StartChart, AddReadPoints
<1> QED BY <1>1, <1>2

\* A button that is not on the panel never has a slot on the stack.
LEMMA NextWithout ==
  ASSUME NEW b \in AllButtons \ {"GOGOGO"}, b \notin Buttons
  PROVE  TypeOK /\ Without(b) /\ [Next]_vars => Without(b)'
<1> SUFFICES ASSUME TypeOK, Without(b), [Next]_vars PROVE Without(b)'
  OBVIOUS
<1>0. stack \in Seq(Frame) /\ b \notin {"start", "stop", "wipe", "dialogTick", "dialogRead"}
  BY DEF TypeOK, AllButtons
<1>1. CASE stack' = stack
  BY <1>1 DEF Without
<1>2. CASE stack # <<>> /\ Advance
  BY <1>0, <1>2, HandlersKept DEF Without
<1>3. ASSUME NEW h, h # b, stack' = Append(stack, [handler |-> h, pc |-> 1])
      PROVE  Without(b)'
  <2>1. /\ Len(stack) \in Nat /\ Len(stack') = Len(stack) + 1
        /\ \A k \in 1 .. Len(stack) : stack'[k] = stack[k]
        /\ stack'[Len(stack) + 1].handler = h
    BY <1>0, <1>3
  <2> QED BY <1>3, <2>1 DEF Without
<1>4. ASSUME NEW c \in Buttons, Press(c) PROVE Without(b)'
  <2>1. flagGo \in 0 .. 2 /\ c # b
    BY DEF TypeOK
  <2>2. GoCases[flagGo] \in {"start", "stop", "wipe"}
    BY <2>1 DEF GoCases
  <2>3. Slot(c) # b
    BY <1>0, <2>1, <2>2 DEF Slot
  <2> QED BY <1>3, <1>4, <2>3 DEF Press
<1>5. CASE DialogTick
  <2>1. \E h \in {"dialogTick", "dialogRead"} : stack' = Append(stack, [handler |-> h, pc |-> 1])
    BY <1>5 DEF DialogTick
  <2> QED BY <1>0, <1>3, <2>1
<1>6. ASSUME ~(\E c \in Buttons : Press(c)), ~DialogTick
      PROVE  stack' = stack \/ (stack # <<>> /\ Advance)
  <2>1. CASE GuiStep
    BY <2>1 DEF GuiStep, GuiSelect, GuiSend, Wake, GuiWritePlc, GuiChart, GuiClearList, GuiAddCmd,
                Doing
  <2>2. CASE GuiReceive \/ TornReceive \/ DialogClose
    BY <2>2 DEF GuiReceive, TornReceive, DialogClose, Doing
  <2>3. CASE StatusTick \/ ChartTick \/ WorkerStep \/ WorkerReceive \/ Poll \/ BoardStep
             \/ UNCHANGED vars
    BY <2>3 DEF StatusTick, ChartTick, WorkerStep, Dequeue, WorkerSelect, WorkerSend, AppendPoint,
                WorkerReceive, Poll, BoardStep, vars, guiVars
  <2> QED BY <1>6, <2>1, <2>2, <2>3 DEF Next
<1> QED BY <1>1, <1>2, <1>4, <1>5, <1>6

\* A slot that starts while the phase of the button does not change.
LEMMA ChartStarts ==
  ASSUME TypeOK, StackInv, ChartInv, EventLoop, NEW h \in Handlers,
         stack' = Append(stack, [handler |-> h, pc |-> 1]),
         shown' = shown, charting' = charting, flagGo' \in 0 .. 2,
         flagGo = 2 /\ flagGo' # 2 => h = "wipe",
         h = "stop" => flagGo' = 2
  PROVE  ChartInv'
<1>0. stack \in Seq(Frame) /\ flagGo \in 0 .. 2
  BY DEF TypeOK
<1>1. /\ Due(ClearSeries) => Due(ClearSeries)'
      /\ h = "wipe" => Due(ClearSeries)'
  BY <1>0, DueStarts, WipeClears
<1>2. shown' /\ ~charting' => flagGo' = 2 \/ Due(ClearSeries)'
  BY <1>1 DEF ChartInv
<1>3. /\ Len(stack) \in Nat /\ Len(stack') = Len(stack) + 1
      /\ \A k \in 1 .. Len(stack) : stack'[k] = stack[k]
      /\ stack'[Len(stack) + 1].handler = h
  BY <1>0
<1>4. \A k \in 1 .. Len(stack) : stack[k].handler # "stop"
  BY <1>0, NoStopInLoop
<1>5. \A k \in 1 .. Len(stack') : stack'[k].handler = "stop" => flagGo' = 2
  BY <1>3, <1>4
<1> QED BY <1>2, <1>5 DEF ChartInv

\* The step that stops the chart is followed by the one that clears it, but in GOGOGO's
\* second press.
LEMMA StopThenClear ==
  ASSUME TypeOK, StackInv, ChartInv, Without("StopStart"), Doing(StopChart), Advance
  PROVE  flagGo = 2 \/ Due(ClearSeries)'
<1>1. /\ stack \in Seq(Frame) /\ stack # <<>> /\ Current = StopChart
      /\ Top.handler \in Handlers /\ Top = stack[Len(stack)] /\ Len(stack) \in 1 .. Len(stack)
      /\ Top.pc \in 1 .. Len(Script(Top.handler)) /\ Current = Script(Top.handler)[Top.pc]
  BY TopFacts DEF TypeOK, Doing
<1>2. Top.handler \notin {"start", "Continue", "TEST0"}
  BY <1>1, StartKeepsChart
<1>3. Top.handler # "StopStart"
  BY <1>1 DEF Without
<1>4. CASE Top.handler = "stop"
  BY <1>1, <1>4 DEF ChartInv
<1>5. CASE Top.handler # "stop"
  <2>1. Tame(Script(Top.handler))
    BY <1>1, <1>2, <1>3, <1>5, ScriptTame
  <2>2. Top.pc < Len(Script(Top.handler)) /\ Script(Top.handler)[Top.pc + 1] = ClearSeries
    BY <1>1, <2>1 DEF Tame
  <2> QED BY <1>1, <2>2, DueNext
<1> QED BY <1>4, <1>5

LEMMA NextChart ==
  TypeOK /\ StackInv /\ Without("StopStart") /\ ChartInv /\ [Next]_vars => ChartInv'
<1> SUFFICES ASSUME TypeOK, StackInv, Without("StopStart"), ChartInv, [Next]_vars
             PROVE  ChartInv'
  OBVIOUS
<1>0. stack \in Seq(Frame) /\ flagGo \in 0 .. 2
  BY DEF TypeOK
<1>1. ASSUME NEW b \in Buttons, Press(b) PROVE ChartInv'
  <2>1. b \in AllButtons /\ EventLoop /\ shown' = shown /\ charting' = charting
    BY <1>1, PanelAssumption DEF Press, ButtonsLive
  <2>2. PICK h : h = Slot(b) /\ stack' = Append(stack, [handler |-> h, pc |-> 1])
    BY <1>1 DEF Press
  <2>3. CASE b = "GOGOGO"
    <3>1. /\ h = GoCases[flagGo]
          /\ flagGo' = IF flagGo = 2 THEN 0 ELSE flagGo + 1
      BY <1>1, <2>2, <2>3 DEF Press, Slot
    <3>2. /\ h \in {"start", "stop", "wipe"} /\ (flagGo = 2 => h = "wipe")
          /\ (h = "stop" => flagGo = 1) /\ flagGo' \in 0 .. 2
      BY <1>0, <3>1 DEF GoCases
    <3>3. h \in Handlers
      BY <3>2 DEF Handlers
    <3>4. h = "stop" => flagGo' = 2
      BY <3>1, <3>2
    <3> QED BY <2>1, <2>2, <3>2, <3>3, <3>4, ChartStarts
  <2>4. CASE b # "GOGOGO"
    <3>1. h = b /\ flagGo' = flagGo
      BY <1>1, <2>2, <2>4 DEF Press, Slot
    <3>2. h \in Handlers /\ h # "stop"
      BY <2>1, <2>4, <3>1 DEF Handlers, AllButtons
    <3> QED BY <1>0, <2>1, <2>2, <3>1, <3>2, ChartStarts
  <2> QED BY <2>3, <2>4
<1>2. CASE DialogTick
  <2>1. /\ EventLoop /\ shown' = shown /\ charting' = charting /\ flagGo' = flagGo
        /\ \E h \in {"dialogTick", "dialogRead"} : stack' = Append(stack, [handler |-> h, pc |-> 1])
    BY <1>2 DEF DialogTick, EventLoop
  <2>2. PICK h \in {"dialogTick", "dialogRead"} : stack' = Append(stack, [handler |-> h, pc |-> 1])
    BY <2>1
  <2>3. h \in Handlers /\ h # "stop"
    BY DEF Handlers
  <2> QED BY <1>0, <2>1, <2>2, <2>3, ChartStarts
<1>3. CASE GuiChart
  <2>0. stack # <<>> /\ Advance /\ flagGo' = flagGo
    BY <1>3 DEF GuiChart, Doing
  <2>1. \A k \in 1 .. Len(stack') : stack'[k].handler = "stop" => flagGo' = 2
    BY <1>0, <2>0, HandlersKept DEF ChartInv
  <2>2. CASE Doing(StopChart)
    <3>1. flagGo' = 2 \/ Due(ClearSeries)'
      BY <2>0, <2>2, StopThenClear
    <3> QED BY <2>1, <3>1 DEF ChartInv
  <2>3. CASE Doing(StartChart)
    <3>1. charting' = TRUE
      BY <1>3, <2>3 DEF GuiChart, Doing, StopChart, StartChart, ClearSeries, BlankLcd
    <3> QED BY <2>1, <3>1 DEF ChartInv
  <2>4. CASE Doing(ClearSeries)
    <3>1. shown' = FALSE
      BY <1>3, <2>4 DEF GuiChart, Doing, StopChart, StartChart, ClearSeries, BlankLcd
    <3> QED BY <2>1, <3>1 DEF ChartInv
  <2>5. CASE Doing(BlankLcd)
    <3>1. shown' = shown /\ charting' = charting /\ Current # ClearSeries
      BY <1>3, <2>5 DEF GuiChart, Doing, StopChart, StartChart, ClearSeries, BlankLcd
    <3> QED BY <2>0, <3>1, ChartKept
  <2> QED BY <1>3, <2>2, <2>3, <2>4, <2>5 DEF GuiChart
<1>4. CASE ChartTick
  <2>1. charting' = charting /\ charting /\ stack' = stack /\ flagGo' = flagGo
    BY <1>4 DEF ChartTick
  <2> QED BY <2>1 DEF ChartInv
<1>5. CASE \/ GuiSelect \/ GuiSend \/ Wake \/ GuiWritePlc \/ GuiClearList \/ GuiAddCmd
           \/ DialogClose \/ GuiReceive \/ TornReceive
  <2>1. /\ shown' = shown /\ charting' = charting /\ flagGo' = flagGo
        /\ stack # <<>> /\ Advance
    BY <1>5 DEF GuiSelect, GuiSend, Wake, GuiWritePlc, GuiClearList, GuiAddCmd, DialogClose,
                GuiReceive, TornReceive, panelVars, Doing
  <2>2. Current # ClearSeries
    <3>1. \A n : /\ Select(n) # ClearSeries /\ SendReq(n) # ClearSeries
                 /\ ReceiveFor(n) # ClearSeries /\ WritePlc(n) # ClearSeries
      BY DEF Select, SendReq, ReceiveFor, WritePlc, ClearSeries
    <3>2. \A p \in {Sleep, ClearList1, ClearList2, AddReadPoints, Dialog} : p # ClearSeries
      BY DEF Sleep, ClearList1, ClearList2, AddReadPoints, Dialog, ClearSeries
    <3>3. \/ \E n : Current \in {Select(n), SendReq(n), ReceiveFor(n), WritePlc(n)}
          \/ Current \in {Sleep, ClearList1, ClearList2, AddReadPoints, Dialog}
      BY <1>5 DEF GuiSelect, GuiSend, Wake, GuiWritePlc, GuiClearList, GuiAddCmd, DialogClose,
                  GuiReceive, TornReceive, Doing
    <3> QED BY <3>1, <3>2, <3>3
  <2> QED BY <2>1, <2>2, ChartKept
<1>6. CASE StatusTick \/ WorkerStep \/ WorkerReceive \/ Poll \/ BoardStep \/ UNCHANGED vars
  <2>1. shown' = shown /\ charting' = charting /\ flagGo' = flagGo /\ stack' = stack
    BY <1>6 DEF StatusTick, WorkerStep, Dequeue, WorkerSelect, WorkerSend, AppendPoint,
                WorkerReceive, Poll, BoardStep, vars, guiVars, panelVars
  <2> QED BY <2>1, ChartKept
<1> QED BY <1>1, <1>2, <1>3, <1>4, <1>5, <1>6 DEF Next, GuiStep

\* Only GOGOGO's first slot and Continue start the chart's timer.
LEMMA OnlyStartCharts ==
  ASSUME stack \in Seq(Frame), StackInv, Without("Continue"), Doing(StartChart)
  PROVE  Top.handler = "start"
<1>1. /\ stack # <<>> /\ Current = StartChart /\ Top.handler \in Handlers
      /\ Top.pc \in 1 .. Len(Script(Top.handler)) /\ Current = Script(Top.handler)[Top.pc]
      /\ Top = stack[Len(stack)] /\ Len(stack) \in 1 .. Len(stack)
  BY TopFacts DEF Doing
<1>2. CASE Top.handler \in Handlers \ {"start", "stop", "StopStart", "Continue", "TEST0"}
  BY <1>1, <1>2, ScriptTame DEF Tame
<1>3. CASE Top.handler \in {"stop", "StopStart", "TEST0"}
  <2>1. \E p \in {StopChart, AddReadPoints} : Script(Top.handler) = <<p>>
    BY <1>3 DEF Script
  <2>2. \A p \in {StopChart, AddReadPoints} : \A j \in 1 .. Len(<<p>>) : <<p>>[j] # StartChart
    BY DEF StopChart, StartChart, AddReadPoints
  <2> QED BY <1>1, <2>1, <2>2
<1>4. Top.handler # "Continue"
  BY <1>1 DEF Without
<1> QED BY <1>1, <1>2, <1>3, <1>4

\* With one button at a time the chart's timer runs only between the first and the second
\* press of GOGOGO.
TimerInv ==
    /\ charting => flagGo = 1 \/ Due(StopChart)
    /\ ~Without("start") => flagGo = 1

\* A step of a slot that leaves the chart's timer running, or stops it.
LEMMA TimerKept ==
  ASSUME TypeOK, StackInv, TimerInv, flagGo' = flagGo, charting' => charting,
         \/ stack' = stack
         \/ stack # <<>> /\ Advance /\ (Current # StopChart \/ ~charting')
  PROVE  TimerInv'
<1>0. stack \in Seq(Frame)
  BY DEF TypeOK
<1>1. Due(StopChart) /\ charting' => Due(StopChart)'
  <2>1. CASE stack' = stack
    BY <2>1 DEF Due
  <2> QED BY <1>0, <2>1, DueKept
<1>2. Without("start") => Without("start")'
  <2>1. CASE stack' = stack
    BY <2>1 DEF Without
  <2>2. CASE stack # <<>> /\ Advance
    BY <1>0, <2>2, HandlersKept DEF Without
  <2> QED BY <2>1, <2>2
<1> QED BY <1>1, <1>2 DEF TimerInv

\* One slot at a time, which starts on an empty stack.
LEMMA TimerPressed ==
  ASSUME TypeOK, TimerInv, MaxDepth = 1, NEW b \in Buttons, Press(b)
  PROVE  TimerInv'
<1>0. flagGo \in 0 .. 2 /\ stack \in Seq(Frame) /\ b \in AllButtons
  BY PanelAssumption DEF TypeOK
<1>1. stack = <<>>
  <2>1. Len(stack) < 1 /\ Len(stack) \in Nat
    BY <1>0 DEF Press
  <2> QED BY <1>0, <2>1
<1>2. /\ charting => flagGo = 1
      /\ charting' = charting
  BY <1>1 DEF Press, TimerInv, Due
<1>3. /\ stack' = Append(stack, [handler |-> Slot(b), pc |-> 1])
      /\ flagGo' = IF b = "GOGOGO" THEN (IF flagGo = 2 THEN 0 ELSE flagGo + 1) ELSE flagGo
  BY DEF Press
<1>4. Slot(b) # "start" => Without("start")'
  <2>1. /\ Len(stack') = 1 /\ stack'[1].handler = Slot(b)
    BY <1>1, <1>3
  <2> QED BY <2>1 DEF Without
<1>5. CASE b = "GOGOGO" /\ flagGo = 1
  <2>1. Slot(b) = "stop" /\ Script("stop") = <<StopChart>>
    BY <1>5 DEF Slot, GoCases, Script
  <2>2. \E j \in 1 .. Len(Script("stop")) : Script("stop")[j] = StopChart
    BY <2>1
  <2>3. Due(StopChart)'
    BY <1>0, <1>3, <2>1, <2>2, DueStarts
  <2> QED BY <1>4, <2>1, <2>3 DEF TimerInv
<1>6. CASE b = "GOGOGO" /\ flagGo = 0
  BY <1>3, <1>6 DEF TimerInv
<1>7. CASE b = "GOGOGO" /\ flagGo = 2
  <2>1. Slot(b) = "wipe" /\ ~charting'
    BY <1>2, <1>7 DEF Slot, GoCases
  <2> QED BY <1>4, <2>1 DEF TimerInv
<1>8. CASE b # "GOGOGO"
  <2>1. Slot(b) # "start" /\ flagGo' = flagGo
    BY <1>0, <1>3, <1>8 DEF Slot, AllButtons
  <2> QED BY <1>2, <1>4, <2>1 DEF TimerInv
<1> QED BY <1>0, <1>5, <1>6, <1>7, <1>8

LEMMA NextTimer ==
  ASSUME MaxDepth = 1
  PROVE  TypeOK /\ StackInv /\ Without("Continue") /\ TimerInv /\ [Next]_vars => TimerInv'
<1> SUFFICES ASSUME TypeOK, StackInv, Without("Continue"), TimerInv, [Next]_vars
             PROVE  TimerInv'
  OBVIOUS
<1>0. stack \in Seq(Frame)
  BY DEF TypeOK
<1>1. ASSUME NEW b \in Buttons, Press(b) PROVE TimerInv'
  BY <1>1, TimerPressed
<1>2. CASE DialogTick
  <2>1. charting' = charting /\ flagGo' = flagGo
    BY <1>2 DEF DialogTick
  <2>2. PICK h \in {"dialogTick", "dialogRead"} : stack' = Append(stack, [handler |-> h, pc |-> 1])
    BY <1>2 DEF DialogTick
  <2>3. Due(StopChart) => Due(StopChart)'
    BY <1>0, <2>2, DueStarts
  <2>4. Without("start") => Without("start")'
    <3>1. /\ Len(stack) \in Nat /\ Len(stack') = Len(stack) + 1
          /\ \A k \in 1 .. Len(stack) : stack'[k] = stack[k]
          /\ stack'[Len(stack) + 1].handler = h
      BY <1>0, <2>2
    <3> QED BY <3>1 DEF Without
  <2> QED BY <2>1, <2>3, <2>4 DEF TimerInv
<1>3. CASE GuiChart
  <2>0. stack # <<>> /\ Advance /\ flagGo' = flagGo
    BY <1>3 DEF GuiChart, Doing
  <2>1. CASE Doing(StartChart)
    <3>1. ~Without("start")
      <4>1. Top.handler = "start"
        BY <1>0, <2>1, OnlyStartCharts
      <4>2. Top = stack[Len(stack)] /\ Len(stack) \in 1 .. Len(stack)
        BY <1>0, <2>0, TopFacts
      <4> QED BY <4>1, <4>2 DEF Without
    <3> QED BY <2>0, <3>1 DEF TimerInv
  <2>2. CASE ~Doing(StartChart)
    <3>1. (charting' => charting) /\ (Current = StopChart => ~charting')
      BY <1>3, <2>2 DEF GuiChart, Doing, StopChart, StartChart, ClearSeries, BlankLcd
    <3> QED BY <2>0, <3>1, TimerKept
  <2> QED BY <2>1, <2>2
<1>4. CASE \/ GuiSelect \/ GuiSend \/ Wake \/ GuiWritePlc \/ GuiClearList \/ GuiAddCmd
           \/ DialogClose \/ GuiReceive \/ TornReceive
  <2>1. charting' = charting /\ flagGo' = flagGo /\ stack # <<>> /\ Advance
    BY <1>4 DEF GuiSelect, GuiSend, Wake, GuiWritePlc, GuiClearList, GuiAddCmd, DialogClose,
                GuiReceive, TornReceive, panelVars, Doing
  <2>2. Current # StopChart
    <3>1. \A n : /\ Select(n) # StopChart /\ SendReq(n) # StopChart
                 /\ ReceiveFor(n) # StopChart /\ WritePlc(n) # StopChart
      BY DEF Select, SendReq, ReceiveFor, WritePlc, StopChart
    <3>2. \A p \in {Sleep, ClearList1, ClearList2, AddReadPoints, Dialog} : p # StopChart
      BY DEF Sleep, ClearList1, ClearList2, AddReadPoints, Dialog, StopChart
    <3>3. \/ \E n : Current \in {Select(n), SendReq(n), ReceiveFor(n), WritePlc(n)}
          \/ Current \in {Sleep, ClearList1, ClearList2, AddReadPoints, Dialog}
      BY <1>4 DEF GuiSelect, GuiSend, Wake, GuiWritePlc, GuiClearList, GuiAddCmd, DialogClose,
                  GuiReceive, TornReceive, Doing
    <3> QED BY <3>1, <3>2, <3>3
  <2> QED BY <2>1, <2>2, TimerKept
<1>5. CASE ChartTick \/ StatusTick \/ WorkerStep \/ WorkerReceive \/ Poll \/ BoardStep
           \/ UNCHANGED vars
  <2>1. charting' = charting /\ flagGo' = flagGo /\ stack' = stack
    BY <1>5 DEF ChartTick, StatusTick, WorkerStep, Dequeue, WorkerSelect, WorkerSend, AppendPoint,
                WorkerReceive, Poll, BoardStep, vars, guiVars, panelVars
  <2> QED BY <2>1, TimerKept
<1> QED BY <1>1, <1>2, <1>3, <1>4, <1>5 DEF Next, GuiStep

\* When one button is pressed at a time, the idle panel's chart is blank in the first phase
\* of GOGOGO: the timer is stopped and the third press has cleared what it showed.  However
\* the slots are nested, it is blank there unless the timer runs.  StopStart, which stops
\* the timer and leaves what is shown, is the one button such a panel must not have.
THEOREM ChartStaysBlank ==
  ASSUME "StopStart" \notin Buttons
  PROVE  Spec => []ClearedChartStaysBlank
<1>1. Init => ChartInv /\ TimerInv /\ Without("StopStart") /\ Without("Continue")
  BY DEF Init, ChartInv, TimerInv, Without
<1>2. TypeOK /\ Without("StopStart") /\ [Next]_vars => Without("StopStart")'
  <2>1. "StopStart" \in AllButtons \ {"GOGOGO"}
    BY DEF AllButtons
  <2> QED BY <2>1, NextWithout
<1>3. TypeOK /\ StackInv /\ Without("StopStart") /\ ChartInv /\ [Next]_vars => ChartInv'
  BY NextChart
<1> DEFINE TimerUse == OneAtATime => Without("Continue") /\ TimerInv
<1>4. TypeOK /\ StackInv /\ TimerUse /\ [Next]_vars => TimerUse'
  <2> SUFFICES ASSUME TypeOK, StackInv, TimerUse, [Next]_vars, OneAtATime
               PROVE  Without("Continue")' /\ TimerInv'
    BY DEF OneAtATime
  <2>1. "Continue" \in AllButtons \ {"GOGOGO"} /\ "Continue" \notin Buttons /\ MaxDepth = 1
    BY DEF AllButtons, OneAtATime
  <2> QED BY <2>1, NextWithout, NextTimer
<1>5. TypeOK /\ ChartInv /\ TimerUse => ClearedChartStaysBlank
  <2> SUFFICES ASSUME TypeOK, ChartInv, TimerUse, flagGo = 0, stack = <<>>,
                      OneAtATime \/ ~charting
               PROVE  ~shown
    BY DEF ClearedChartStaysBlank
  <2>1. ~Due(ClearSeries) /\ ~Due(StopChart)
    BY DEF Due
  <2>2. ~charting
    BY <2>1 DEF TimerInv
  <2> QED BY <2>1, <2>2 DEF ChartInv
<1> QED BY <1>1, <1>2, <1>3, <1>4, <1>5, TypeCorrect, StackInOrder, PTL DEF Spec

----------------------------------------------------------------------------
(* The motor and the scan. *)

\* How a step of the system moves the panel: a slot goes on, or one starts; only GOGOGO's
\* first press starts the measurement.
PanelMoves ==
    \/ stack' = stack /\ flagGo' = flagGo /\ clicks' = clicks
    \/ stack # <<>> /\ Advance /\ flagGo' = flagGo /\ clicks' = clicks
    \/ \E h \in Handlers :
          /\ stack' = Append(stack, [handler |-> h, pc |-> 1])
          /\ \/ h # "start" /\ flagGo' = flagGo /\ clicks' \in {clicks, clicks + 1}
             \/ h = "start" /\ flagGo = 0 /\ flagGo' = 1 /\ clicks' = clicks + 1
             \/ h = "stop" /\ flagGo = 1 /\ flagGo' = 2 /\ clicks' = clicks + 1
             \/ h = "wipe" /\ flagGo = 2 /\ flagGo' = 0 /\ clicks' = clicks + 1

LEMMA NextPanel == TypeOK /\ [Next]_vars => PanelMoves
<1> SUFFICES ASSUME TypeOK, [Next]_vars PROVE PanelMoves
  OBVIOUS
<1>0. flagGo \in 0 .. 2
  BY DEF TypeOK
<1>1. ASSUME NEW b \in Buttons, Press(b) PROVE PanelMoves
  <2>1. b \in AllButtons /\ clicks' = clicks + 1
    BY <1>1, PanelAssumption DEF Press
  <2>2. PICK h : h = Slot(b) /\ stack' = Append(stack, [handler |-> h, pc |-> 1])
    BY <1>1 DEF Press
  <2>3. CASE b = "GOGOGO"
    <3>1. /\ h = GoCases[flagGo]
          /\ flagGo' = IF flagGo = 2 THEN 0 ELSE flagGo + 1
      BY <1>1, <2>2, <2>3 DEF Press, Slot
    <3>2. \/ h = "start" /\ flagGo = 0 /\ flagGo' = 1
          \/ h = "stop" /\ flagGo = 1 /\ flagGo' = 2
          \/ h = "wipe" /\ flagGo = 2 /\ flagGo' = 0
      BY <1>0, <3>1 DEF GoCases
    <3>3. h \in Handlers
      BY <3>2 DEF Handlers
    <3> QED BY <2>1, <2>2, <3>2, <3>3 DEF PanelMoves
  <2>4. CASE b # "GOGOGO"
    <3>1. h = b /\ flagGo' = flagGo
      BY <1>1, <2>2, <2>4 DEF Press, Slot
    <3>2. h \in Handlers /\ h # "start"
      BY <2>1, <2>4, <3>1 DEF Handlers, AllButtons
    <3> QED BY <2>1, <2>2, <3>1, <3>2 DEF PanelMoves
  <2> QED BY <2>3, <2>4
<1>2. CASE DialogTick
  <2>1. /\ flagGo' = flagGo /\ clicks' = clicks
        /\ \E h \in {"dialogTick", "dialogRead"} : stack' = Append(stack, [handler |-> h, pc |-> 1])
    BY <1>2 DEF DialogTick
  <2>2. \A h \in {"dialogTick", "dialogRead"} : h \in Handlers /\ h # "start"
    BY DEF Handlers
  <2> QED BY <2>1, <2>2 DEF PanelMoves
<1>3. CASE GuiStep
  <2>1. stack # <<>> /\ Advance /\ flagGo' = flagGo /\ clicks' = clicks
    BY <1>3 DEF GuiStep, GuiSelect, GuiSend, Wake, GuiWritePlc, GuiChart, GuiClearList, GuiAddCmd,
                panelVars, Doing
  <2> QED BY <2>1 DEF PanelMoves
<1>4. CASE GuiReceive \/ TornReceive \/ DialogClose
  <2>1. stack # <<>> /\ Advance /\ flagGo' = flagGo /\ clicks' = clicks
    BY <1>4 DEF GuiReceive, TornReceive, DialogClose, panelVars, Doing
  <2> QED BY <2>1 DEF PanelMoves
<1>5. CASE StatusTick \/ ChartTick \/ WorkerStep \/ WorkerReceive \/ Poll \/ BoardStep
           \/ UNCHANGED vars
  <2>1. stack' = stack /\ flagGo' = flagGo /\ clicks' = clicks
    BY <1>5 DEF StatusTick, ChartTick, WorkerStep, Dequeue, WorkerSelect, WorkerSend, AppendPoint,
                WorkerReceive, Poll, BoardStep, vars, guiVars, panelVars
  <2> QED BY <2>1 DEF PanelMoves
<1> QED BY <1>1, <1>2, <1>3, <1>4, <1>5 DEF Next

\* Only GOGOGO's first slot sets the motor going, with its fifth step.
LEMMA OnlyStartRotates ==
  ASSUME stack \in Seq(Frame), StackInv, Doing(WritePlc("ROTATE_B"))
  PROVE  Top.handler = "start" /\ Top.pc = 5
<1>1. /\ stack # <<>> /\ Current = WritePlc("ROTATE_B") /\ Top.handler \in Handlers
      /\ Top.pc \in 1 .. Len(Script(Top.handler)) /\ Current = Script(Top.handler)[Top.pc]
  BY TopFacts DEF Doing
<1>2. CASE Top.handler \in Handlers \ {"start", "stop", "StopStart", "Continue", "TEST0"}
  BY <1>1, <1>2, ScriptTame DEF Tame
<1>3. CASE Top.handler \in {"stop", "StopStart", "Continue", "TEST0"}
  <2>1. \E p \in {StopChart, StartChart, AddReadPoints} : Script(Top.handler) = <<p>>
    BY <1>3 DEF Script
  <2>2. \A p \in {StopChart, StartChart, AddReadPoints} :
           \A j \in 1 .. Len(<<p>>) : <<p>>[j] # WritePlc("ROTATE_B")
    BY DEF StopChart, StartChart, AddReadPoints, WritePlc
  <2> QED BY <1>1, <2>1, <2>2
<1>4. CASE Top.handler = "start"
  <2>1. Script(Top.handler) = Start
    BY <1>4 DEF Script
  <2>2. \A j \in 1 .. Len(Start) : Start[j] = WritePlc("ROTATE_B") => j = 5
    BY DEF Start, WritePlc, Sleep, StartChart, AddReadPoints
  <2> QED BY <1>1, <1>4, <2>1, <2>2
<1> QED BY <1>1, <1>2, <1>3, <1>4

\* How a step moves the motor.
MotorMoves ==
    \/ turning' = turning /\ deg' = deg
    \/ Rotate /\ stack' = stack
    \/ /\ Doing(WritePlc("ROTATE_B")) /\ Advance
       /\ turning' = TRUE /\ deg' = deg /\ flagGo' = flagGo /\ clicks' = clicks

LEMMA NextMotor == TypeOK /\ [Next]_vars => MotorMoves
<1> SUFFICES ASSUME TypeOK, [Next]_vars PROVE MotorMoves
  OBVIOUS
<1>1. CASE GuiWritePlc
  <2>1. PICK c \in {"ENABLE_LOCKED", "ROTATE_A", "ROTATE_B"} :
           Doing(WritePlc(c)) /\ turning' = (turning \/ c = "ROTATE_B")
    BY <1>1 DEF GuiWritePlc
  <2>2. Advance /\ deg' = deg /\ flagGo' = flagGo /\ clicks' = clicks
    BY <1>1 DEF GuiWritePlc, panelVars
  <2>3. CASE c = "ROTATE_B"
    <3>1. turning' = TRUE
      BY <2>1, <2>3
    <3> QED BY <2>1, <2>2, <2>3, <3>1 DEF MotorMoves
  <2>4. CASE c # "ROTATE_B"
    <3>1. turning' = turning
      BY <2>1, <2>4 DEF TypeOK, LineTypeOK
    <3> QED BY <2>2, <3>1 DEF MotorMoves
  <2> QED BY <2>3, <2>4
<1>2. CASE BoardStep
  <2>1. stack' = stack
    BY <1>2 DEF BoardStep, guiVars
  <2>2. Rotate \/ (turning' = turning /\ deg' = deg)
    BY <1>2 DEF BoardStep, Board, Deliver, LoseRequest, LoseReply
  <2> QED BY <2>1, <2>2 DEF MotorMoves
<1>3. CASE \/ \E b \in Buttons : Press(b)
           \/ StatusTick \/ ChartTick \/ DialogTick \/ DialogClose \/ Poll \/ UNCHANGED vars
  BY <1>3 DEF Press, StatusTick, ChartTick, DialogTick, DialogClose, Poll, vars, lineVars, MotorMoves
<1>4. CASE GuiSelect \/ GuiSend \/ Wake \/ GuiChart \/ GuiClearList \/ GuiAddCmd
  BY <1>4 DEF GuiSelect, GuiSend, Wake, GuiChart, GuiClearList, GuiAddCmd, lineVars, MotorMoves
<1>5. CASE GuiReceive \/ WorkerReceive \/ TornReceive
  BY <1>5 DEF GuiReceive, WorkerReceive, TornReceive, MotorMoves
<1>6. CASE WorkerStep
  BY <1>6 DEF WorkerStep, Dequeue, WorkerSelect, WorkerSend, AppendPoint, lineVars, MotorMoves
<1> QED BY <1>1, <1>2, <1>3, <1>4, <1>5, <1>6 DEF Next, GuiStep

\* The motor may still be set going: GOGOGO has not been pressed yet, or its slot has not
\* come to the command.
MayStart ==
    \/ flagGo = 0 /\ clicks < 3
    \/ \E k \in 1 .. Len(stack) : stack[k].handler = "start" /\ stack[k].pc <= 5

\* In the first three presses of the panel the motor is set going at most once.
MotorInv ==
    /\ flagGo <= clicks
    /\ clicks <= 3 =>
          /\ MayStart => ~turning /\ deg = 0
          /\ flagGo = 0 /\ clicks < 3 => Without("start")
          /\ \A j, k \in 1 .. Len(stack) :
                stack[j].handler = "start" /\ stack[k].handler = "start" => j = k

\* The slots that start the measurement, after a step.
LEMMA StartSlots ==
  ASSUME TypeOK, MotorInv, PanelMoves, clicks' <= 3
  PROVE  /\ clicks \in Nat /\ clicks <= 3 /\ clicks <= clicks'
         /\ flagGo' <= clicks'
         /\ flagGo' = 0 /\ clicks' < 3 => flagGo = 0 /\ clicks < 3 /\ Without("start")'
         /\ \A j, k \in 1 .. Len(stack') :
               stack'[j].handler = "start" /\ stack'[k].handler = "start" => j = k
         /\ MayStart' => MayStart
<1>0. stack \in Seq(Frame) /\ clicks \in Nat /\ flagGo \in 0 .. 2 /\ Len(stack) \in Nat
  BY DEF TypeOK
<1>1. CASE stack' = stack /\ flagGo' = flagGo /\ clicks' = clicks
  <2>1. Without("start") => Without("start")'
    BY <1>1 DEF Without
  <2>2. MayStart' => MayStart
    BY <1>1 DEF MayStart
  <2> QED BY <1>0, <1>1, <2>1, <2>2 DEF MotorInv
<1>2. CASE stack # <<>> /\ Advance /\ flagGo' = flagGo /\ clicks' = clicks
  <2>1. /\ \A k \in 1 .. Len(stack') : k \in 1 .. Len(stack) /\ stack'[k].handler = stack[k].handler
        /\ \A k \in 1 .. Len(stack') : stack'[k].pc \in {stack[k].pc, stack[k].pc + 1}
    BY <1>0, <1>2, HandlersKept
  <2>2. Without("start") => Without("start")'
    BY <2>1 DEF Without
  <2>3. \A k \in 1 .. Len(stack) : stack[k].pc \in Nat
    <3>1. \A f \in Frame : f.pc \in Nat
      BY DEF Frame
    <3>2. \A k \in 1 .. Len(stack) : stack[k] \in Frame
      BY <1>0
    <3> QED BY <3>1, <3>2, Zenon
  <2>4. \A k \in 1 .. Len(stack') : stack'[k].pc <= 5 => stack[k].pc <= 5
    <3>1. \A n \in Nat : \A m \in {n, n + 1} : m <= 5 => n <= 5
      OBVIOUS
    <3> QED BY <2>1, <2>3, <3>1, ZenonT(40)
  <2>5. MayStart' => MayStart
    BY <1>2, <2>1, <2>4 DEF MayStart
  <2> QED BY <1>0, <1>2, <2>1, <2>2, <2>5 DEF MotorInv
<1>3. ASSUME NEW h \in Handlers, stack' = Append(stack, [handler |-> h, pc |-> 1]),
             \/ h # "start" /\ flagGo' = flagGo /\ clicks' \in {clicks, clicks + 1}
             \/ h = "start" /\ flagGo = 0 /\ flagGo' = 1 /\ clicks' = clicks + 1
             \/ h = "stop" /\ flagGo = 1 /\ flagGo' = 2 /\ clicks' = clicks + 1
             \/ h = "wipe" /\ flagGo = 2 /\ flagGo' = 0 /\ clicks' = clicks + 1
      PROVE  /\ clicks <= 3 /\ clicks <= clicks'
             /\ flagGo' <= clicks'
             /\ flagGo' = 0 /\ clicks' < 3 => flagGo = 0 /\ clicks < 3 /\ Without("start")'
             /\ \A j, k \in 1 .. Len(stack') :
                   stack'[j].handler = "start" /\ stack'[k].handler = "start" => j = k
             /\ MayStart' => MayStart
  <2>1. /\ Len(stack') = Len(stack) + 1
        /\ \A k \in 1 .. Len(stack) : stack'[k] = stack[k]
        /\ stack'[Len(stack) + 1].handler = h
    BY <1>0, <1>3
  <2>2. /\ clicks <= 3 /\ clicks <= clicks' /\ flagGo' <= clicks' /\ flagGo <= clicks
        /\ flagGo' = 0 /\ clicks' < 3 => flagGo = 0 /\ clicks < 3 /\ h # "start"
        /\ h = "start" => flagGo = 0 /\ clicks < 3
    <3>1. flagGo <= clicks
      BY DEF MotorInv
    <3> QED BY <1>0, <1>3, <3>1
  <2>3. flagGo = 0 /\ clicks < 3 => Without("start")
    BY <2>2 DEF MotorInv
  <2>4. \A k \in 1 .. Len(stack') : k \in 1 .. Len(stack) \/ k = Len(stack) + 1
    BY <1>0, <2>1
  <2>5. h # "start" /\ Without("start") => Without("start")'
    BY <2>1, <2>4 DEF Without
  <2>6. \A j, k \in 1 .. Len(stack') :
           stack'[j].handler = "start" /\ stack'[k].handler = "start" => j = k
    <3>1. \A j, k \in 1 .. Len(stack) :
             stack[j].handler = "start" /\ stack[k].handler = "start" => j = k
      BY <2>2 DEF MotorInv
    <3>2. h = "start" => \A k \in 1 .. Len(stack) : stack[k].handler # "start"
      BY <2>2, <2>3 DEF Without
    <3> QED BY <2>1, <2>4, <3>1, <3>2
  <2>7. MayStart' => MayStart
    <3>1. h = "start" => MayStart
      BY <2>2 DEF MayStart
    <3>2. flagGo' = 0 /\ clicks' < 3 => MayStart
      BY <2>2 DEF MayStart
    <3>3. ASSUME NEW k \in 1 .. Len(stack'), stack'[k].handler = "start", stack'[k].pc <= 5,
                 h # "start"
          PROVE  MayStart
      <4>1. k \in 1 .. Len(stack) /\ stack'[k] = stack[k]
        BY <2>1, <2>4, <3>3
      <4> QED BY <3>3, <4>1 DEF MayStart
    <3> QED BY <3>1, <3>2, <3>3 DEF MayStart
  <2> QED BY <2>2, <2>3, <2>5, <2>6, <2>7
<1> QED BY <1>0, <1>1, <1>2, <1>3 DEF PanelMoves

LEMMA NextMotorInv == TypeOK /\ StackInv /\ MotorInv /\ [Next]_vars => MotorInv'
<1> SUFFICES ASSUME TypeOK, StackInv, MotorInv, [Next]_vars PROVE MotorInv'
  OBVIOUS
<1>0. /\ stack \in Seq(Frame) /\ clicks \in Nat /\ flagGo \in 0 .. 2 /\ Len(stack) \in Nat
      /\ PanelMoves /\ MotorMoves
  BY NextPanel, NextMotor DEF TypeOK
<1>1. flagGo' <= clicks'
  <2>1. flagGo <= clicks
    BY DEF MotorInv
  <2>2. \/ flagGo' = flagGo /\ clicks' \in {clicks, clicks + 1}
        \/ flagGo = 0 /\ flagGo' = 1 /\ clicks' = clicks + 1
        \/ flagGo = 1 /\ flagGo' = 2 /\ clicks' = clicks + 1
        \/ flagGo = 2 /\ flagGo' = 0 /\ clicks' = clicks + 1
    BY <1>0 DEF PanelMoves
  <2> QED BY <1>0, <2>1, <2>2
<1>2. ASSUME clicks' <= 3, MayStart' PROVE ~turning' /\ deg' = 0
  <2>1. /\ MayStart /\ clicks <= 3
        /\ flagGo' = 0 /\ clicks' < 3 => flagGo = 0 /\ clicks < 3
    BY <1>0, <1>2, StartSlots
  <2>2. ~turning /\ deg = 0
    BY <2>1 DEF MotorInv
  <2>3. CASE turning' = turning /\ deg' = deg
    BY <2>2, <2>3, Zenon
  <2>4. CASE Rotate
    BY <2>2, <2>4 DEF Rotate
  <2>5. CASE /\ Doing(WritePlc("ROTATE_B")) /\ Advance /\ flagGo' = flagGo /\ clicks' = clicks
    <3>1. /\ stack # <<>> /\ Top.handler = "start" /\ Top.pc = 5 /\ Top = stack[Len(stack)]
          /\ Len(stack) >= 1
      BY <1>0, <2>5, OnlyStartRotates, TopFacts DEF Doing
    <3>2. ~(flagGo = 0 /\ clicks < 3)
      BY <1>0, <2>1, <3>1 DEF MotorInv, Without
    <3>3. PICK k \in 1 .. Len(stack') : stack'[k].handler = "start" /\ stack'[k].pc <= 5
      BY <1>2, <2>1, <3>2 DEF MayStart
    <3>4. k \in 1 .. Len(stack) /\ stack[k].handler = "start"
      BY <1>0, <2>5, <3>1, <3>3, HandlersKept
    <3>5. k = Len(stack)
      BY <1>0, <2>1, <3>1, <3>4 DEF MotorInv
    <3>6. stack'[k].pc = 6
      BY <1>0, <2>5, <3>1, <3>3, <3>5, HandlersKept
    <3> QED BY <3>3, <3>6
  <2> QED BY <1>0, <2>3, <2>4, <2>5 DEF MotorMoves
<1>3. clicks' <= 3 =>
         /\ flagGo' = 0 /\ clicks' < 3 => Without("start")'
         /\ \A j, k \in 1 .. Len(stack') :
               stack'[j].handler = "start" /\ stack'[k].handler = "start" => j = k
  BY <1>0, StartSlots
<1> QED BY <1>1, <1>2, <1>3 DEF MotorInv

=============================================================================
