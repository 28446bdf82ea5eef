---------------------------- MODULE MCContainers ----------------------------
(* Constants of the model-checked instances of Containers. *)
EXTENDS Containers

CONSTANTS n1, n2, n3, n4

\* an address is as good as another
NodeSymmetry == Permutations(Nodes)
=============================================================================
