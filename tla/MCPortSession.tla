--------------------------- MODULE MCPortSession ---------------------------
(* Instances of PortSession for TLC: the buttons of the runs. *)
EXTENDS PortSession

Radios == {"McuClose", "McuOpen", "PlcClose", "PlcOpen"}

=============================================================================
