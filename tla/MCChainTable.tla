---------------------------- MODULE MCChainTable ----------------------------
(* Constants of the model-checked instances of ChainTable. *)
EXTENDS ChainTable

CONSTANTS n1, n2, n3, n4

\* an address is as good as another
NodeSymmetry == Permutations(Nodes)
=============================================================================
