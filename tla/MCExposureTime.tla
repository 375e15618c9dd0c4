---------------------------- MODULE MCExposureTime ----------------------------
(* Parameters of ACF files for ExposureTime. *)
EXTENDS ExposureTime

AcfFiles == {[time |-> 3, long |-> FALSE], [time |-> 1, long |-> TRUE]}
=============================================================================
