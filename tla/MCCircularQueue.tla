-------------------------- MODULE MCCircularQueue --------------------------
(* Constants of the model-checked instances of CircularQueue. *)
EXTENDS CircularQueue

CONSTANTS a, b
=============================================================================
