--------------------------- MODULE MCJSMetronome ---------------------------
(* Constants of the model-checked instance of JSMetronome. *)
EXTENDS JSMetronome

CONSTANTS k1, k2
=============================================================================
