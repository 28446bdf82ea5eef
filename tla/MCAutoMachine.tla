--------------------------- MODULE MCAutoMachine ---------------------------
(* Constants of the model-checked instances of AutoMachine. *)
EXTENDS AutoMachine, TLC

CONSTANTS s0, s1, t1, t2

MCIndexOf == [s \in StateObjects |-> IF s = s0 THEN 0 ELSE 1]

\* from every state to the other one
MCTargets == [s \in StateObjects |-> {1 - MCIndexOf[s]}]

\* what the users of a machine call; only the metronome ticks it
ClientOperations ==
    [t \in Threads |-> IF t = Metro THEN {} ELSE {"start", "stop", "pause", "resume"}]

\* the clients are interchangeable
ClientSymmetry == Permutations({t1, t2})

\* pause and resume leave the status and the registration apart when these throw
HarmlessThrows == Callbacks \ {"onPause", "onResume"}

=============================================================================
