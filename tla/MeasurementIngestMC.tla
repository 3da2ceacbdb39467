------------------------- MODULE MeasurementIngestMC -------------------------
(* A small instance of MeasurementIngest for TLC. *)
EXTENDS MeasurementIngest

CONSTANTS r1, r2, w1, w2
=============================================================================
