-------------------------- MODULE MCAvailabilityRun --------------------------
(* The availability benchmark, for TLC.                                    *)
EXTENDS AvailabilityRun
=============================================================================
