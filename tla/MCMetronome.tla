---------------------------- MODULE MCMetronome ----------------------------
(* Constants of the model-checked instances of Metronome. *)
EXTENDS Metronome

CONSTANTS c1, c2, w1, w2, w3, w4
=============================================================================
