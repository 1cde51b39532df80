--------------------------- MODULE MCAcquisition ---------------------------
(* Instances of Acquisition for TLC: the panels of the runs. *)
EXTENDS AcquisitionRefinement

GoOnly       == {"GOGOGO"}
GoAndSetting == {"GOGOGO", "Setting"}
FairButtons  == {"GOGOGO", "TEST1"}

=============================================================================
