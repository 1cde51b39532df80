-------------------------- MODULE WaveformRecorder --------------------------
(***************************************************************************)
(* What the acquisition promises of the two waveforms, without threads, a  *)
(* line or buttons: a turn is a circle of NSeg segments of Batch points.   *)
(* Both recordings go round it point by point, a segment of wave 1 before  *)
(* the same segment of wave 2, and each may be cleared at any time without *)
(* losing its place on the circle.                                         *)
(***************************************************************************)
EXTENDS Naturals, Sequences

CONSTANTS NSeg, Batch

VARIABLES rec1, rec2,  \* the positions recorded since the last clear
          at1, at2     \* the position each recording goes on with

vars == <<rec1, rec2, at1, at2>>

\* Positions are pairs of a segment and a point of it.
After(p) == IF p[2] < Batch - 1 THEN <<p[1], p[2] + 1>>
            ELSE <<IF p[1] = NSeg - 1 THEN 0 ELSE p[1] + 1, 0>>

Init ==
    /\ rec1 = <<>> /\ rec2 = <<>>
    /\ at1 = <<0, 0>> /\ at2 = <<0, 0>>

\* Wave 1 may record a segment only when wave 2 has recorded all before it.
Record1 ==
    /\ at2 = <<at1[1], 0>>
    /\ rec1' = Append(rec1, at1)
    /\ at1' = After(at1)
    /\ UNCHANGED <<rec2, at2>>

\* Wave 2 records a segment when wave 1 is past it.
Record2 ==
    /\ at1 = <<After(<<at2[1], Batch - 1>>)[1], 0>>
    /\ rec2' = Append(rec2, at2)
    /\ at2' = After(at2)
    /\ UNCHANGED <<rec1, at1>>

Clear1 == rec1' = <<>> /\ UNCHANGED <<rec2, at1, at2>>
Clear2 == rec2' = <<>> /\ UNCHANGED <<rec1, at1, at2>>

Next == Record1 \/ Record2 \/ Clear1 \/ Clear2

Spec == Init /\ [][Next]_vars

=============================================================================
