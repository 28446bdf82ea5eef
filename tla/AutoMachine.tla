---------------------------- MODULE AutoMachine ----------------------------
(***************************************************************************)
(* The Java machine driven by the metronome, .../fsm/AutoMachine.java: the *)
(* four methods of BaseMachine with the registration of the machine at the *)
(* PrimeMetronome, and the metronome's thread, which takes a snapshot of   *)
(* its tickers and ticks each, for as long as it runs.  `registered' is    *)
(* the machine's membership in the metronome's ticker set, whose methods   *)
(* take a lock; nothing else is synchronised.  So getCurrentState, which   *)
(* reads `current' twice, may find that another thread has left the last   *)
(* state between the two.                                                  *)
(***************************************************************************)
EXTENDS BaseMachine

CONSTANT Metro      \* the metronome's thread

Clients == Threads \ {Metro}

ASSUME MetroAssumption == Metro \in Threads /\ Outermost[Metro] = {}

VARIABLES
    registered,     \* the machine is in the metronome's ticker set
    due,            \* it is in the snapshot the metronome works on
    looked,         \* the threads that have read `current' once and go on to read it again
    torn            \* history: a pause has failed because the two reads differed

reads == <<looked, torn>>

vars == <<states, current, status, stack, live, threw, registered, due, looked, torn>>

-----------------------------------------------------------------------------

\* stop and pause remove the ticker before they call the inherited method
AutoCall(t, op) ==
    /\ Call(t, op)
    /\ registered' = (registered /\ op \notin {"stop", "pause"})
    /\ UNCHANGED <<due, reads>>

\* mutant: resume does not add it
AutoReturn_StartOnly(t) ==
    /\ Return(t)
    /\ registered' = (registered \/ Top(t).op = "start")
    /\ UNCHANGED <<due, reads>>

\* start and resume add it after the inherited method returned, whatever it
\* returned, and not at all when it threw
AutoReturn(t) ==
    /\ Return(t)
    /\ registered' = (registered \/ Top(t).op \in {"start", "resume"})
    /\ UNCHANGED <<due, reads>>

\* Metronome.process: the tickers are copied under the lock ...
Snapshot ==
    /\ stack[Metro] = <<>>
    /\ registered /\ ~due
    /\ due' = TRUE
    /\ UNCHANGED <<states, current, status, stack, live, threw, registered, reads>>

\* ... and ticked, after a sleep, without it
Drive ==
    /\ due
    /\ Push(Metro, [op |-> "tick", pc |-> "check", old |-> Null, new |-> Null])
    /\ due' = FALSE
    /\ UNCHANGED <<states, current, status, live, threw, registered, reads>>

\* getCurrentState: the first read found the index of a state, the second one is still
\* to come; then the method fails when there is no state any more, and otherwise works
\* with the state that is current at the second read
Reading(t) == At(t, "begin") \/ At(t, "change")

ReadOnce(t) ==
    /\ Reading(t)
    /\ current >= 0
    /\ t \notin looked
    /\ looked' = looked \cup {t}
    /\ UNCHANGED <<states, current, status, stack, live, threw, registered, due, torn>>

ReadFails(t) ==
    /\ Reading(t)
    /\ t \in looked
    /\ current < 0
    /\ Pop(t)                   \* states.get(-1) throws
    /\ looked' = looked \ {t}
    /\ torn' = (torn \/ Top(t).op = "pause")
    /\ UNCHANGED <<states, current, status, live, threw, registered, due>>

AutoInside(t) ==
    /\ t \in looked => current >= 0
    /\ Inside(t)
    /\ looked' = looked \ {t}
    /\ UNCHANGED <<registered, due, torn>>

AutoAddState(o) == AddState(o) /\ UNCHANGED <<registered, due, reads>>

-----------------------------------------------------------------------------

Init ==
    /\ MachineInit
    /\ registered = FALSE /\ due = FALSE
    /\ looked = {} /\ torn = FALSE

Next ==
    \/ \E o \in StateObjects : AutoAddState(o)
    \/ \E t \in Threads :
         \/ \E op \in Operations : AutoCall(t, op)
         \/ ReadOnce(t) \/ ReadFails(t) \/ AutoInside(t)
         \/ AutoReturn(t)
    \/ Snapshot
    \/ Drive

Spec == Init /\ [][Next]_vars

\* The virtual machine schedules every thread, and the metronome loops for ever.
Fairness ==
    /\ \A t \in Threads : WF_vars(ReadFails(t) \/ AutoInside(t) \/ AutoReturn(t))
    /\ WF_vars(Snapshot)
    /\ WF_vars(Drive)

FairSpec == Spec /\ Fairness

-----------------------------------------------------------------------------
(* Properties.                                                             *)

TypeOK ==
    /\ MachineTypeOK
    /\ registered \in BOOLEAN /\ due \in BOOLEAN
    /\ looked \subseteq Threads /\ torn \in BOOLEAN

\* Whatever several threads and their callbacks do to the machine, once every
\* call has returned a running machine is registered at the metronome; but for a
\* pause that had removed it when its read of the current state failed.
NoLostTicker == Quiescent /\ ~torn /\ status = "Running" => registered

\* The transitions of a running machine that nobody touches any more are
\* evaluated again and again.
RunningIsDriven ==
    <>[](status = "Running" /\ current # -1 /\ \A t \in Clients : stack[t] = <<>>)
        => []<>(At(Metro, "evaluate"))

=============================================================================
