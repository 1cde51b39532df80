----------------------- MODULE AcquisitionRefinement -----------------------
(***************************************************************************)
(* Acquisition implements WaveformRecorder: the recordings are the         *)
(* positions of the points in the two lists, the places on the circle are  *)
(* read off the worker's program counter and its loop variables.           *)
(***************************************************************************)
EXTENDS Acquisition

\* The segment after s on the circle.
AfterSeg(s) == IF s = NSeg - 1 THEN 0 ELSE s + 1

\* The position the worker appends next to each list.  Wave 2 of a segment follows
\* its wave 1, so in the middle of a segment the lists wait for different points.
NextSeg1 == CASE stage \in {"idle", "status"} -> 0
              [] stage = "wave2"              -> AfterSeg(seg)
              [] OTHER                        -> seg
NextIdx1 == IF stage = "wave1" /\ step = "append" THEN idx ELSE 0
NextSeg2 == IF stage \in {"idle", "status"} THEN 0 ELSE seg
NextIdx2 == IF stage = "wave2" /\ step = "append" THEN idx ELSE 0

Positions(list) == [k \in 1 .. Len(list) |-> <<list[k].seg, list[k].idx>>]

Recorder == INSTANCE WaveformRecorder WITH
    rec1 <- Positions(list1),
    rec2 <- Positions(list2),
    at1 <- <<NextSeg1, NextIdx1>>,
    at2 <- <<NextSeg2, NextIdx2>>

\* Every behaviour of the two threads, on any line, is one of the recorder: no point
\* is recorded before its turn, and wave 2 never overtakes wave 1 of its segment.
RecorderSpec == Recorder!Spec

=============================================================================
