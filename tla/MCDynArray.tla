----------------------------- MODULE MCDynArray -----------------------------
(* Constants of the model-checked instances of DynArray. *)
EXTENDS DynArray
=============================================================================
