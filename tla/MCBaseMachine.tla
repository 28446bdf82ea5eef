--------------------------- MODULE MCBaseMachine ---------------------------
(* Constants of the model-checked instances of BaseMachine. *)
EXTENDS BaseMachine

CONSTANTS s0, s1, s2, t1, t2

\* the last targets are a hole of the list and an index beyond it
MCBadTargets == [s \in StateObjects |-> {1, 2, 3, 4}]
MCSparseIndexOf == [s \in StateObjects |-> CASE s = s0 -> 0 [] s = s1 -> 1 [] s = s2 -> 3]

AllOperations == [t \in Threads |-> Operations]

AllCallbacks == Callbacks

\* callbacks after which a method writes nothing but its own status
AfterCallbacks == {"onEnter", "exitState", "pauseState", "onResume"}
=============================================================================
