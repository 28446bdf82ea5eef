-------------------------- MODULE MCSMAutoMachine --------------------------
(* Constants of the model-checked instances of SMAutoMachine. *)
EXTENDS SMAutoMachine, TLC

CONSTANTS s0, s1, t1, t2

MCIndexOf == [s \in StateObjects |-> IF s = s0 THEN 0 ELSE 1]

\* from every state to the other one, and to an index that no state has
MCTargets == [s \in StateObjects |-> {1 - MCIndexOf[s], 2}]

ClientOperations ==
    [t \in Threads |-> IF t = Metro THEN {} ELSE {"start", "stop", "pause", "resume"}]

ClientSymmetry == Permutations({t1, t2})

\* callbacks after which a method writes nothing but its own status
AfterCallbacks == {"onEnter", "exitState", "onPause", "pauseState", "resumeState", "onResume"}
=============================================================================
