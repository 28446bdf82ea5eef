-------------------------- MODULE MCMetronomeClock --------------------------
(* Constants of the model-checked instances of MetronomeClock. *)
EXTENDS MetronomeClock

CONSTANTS k1, k2
=============================================================================
