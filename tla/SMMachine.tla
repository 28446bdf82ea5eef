----------------------------- MODULE SMMachine -----------------------------
(***************************************************************************)
(* The C state machine, fsm-c/sm_machine.c.  Its methods take the steps of *)
(* the Java machine's methods between the same callbacks, but none of them *)
(* looks at the status before it begins, except tick.  The definitions of  *)
(* BaseMachine that no definition here replaces are those of the C code.   *)
(***************************************************************************)
EXTENDS BaseMachine

\* The slots of the list that sm_create_machine has zeroed (SMMachine.m asks for
\* eight).  sm_list_get has no range check, and the list grows by slots that are
\* not zeroed: with an index beyond these a hole would be an arbitrary pointer.
Capacity == 8

ASSUME CapacityAssumption ==
    \A s \in StateObjects : {IndexOf[s]} \cup Targets[s] \subseteq 0 .. Capacity - 1

\* sm_list_get: a slot that was never set is no state
StateAt(index) == IF HasIndex(index) THEN GetState(index) ELSE Null

DefaultState == StateAt(0)

SMCurrentState == IF current < 0 THEN Null ELSE StateAt(current)

\* sm_tick_state: the targets of the transitions that may be the first to evaluate
\* to true, when users decide what each of them evaluates to
TickState(state) == Targets[state]

\* The start of a method: start looks up the default state.
Enter(t) ==
    /\ At(t, "check")
    /\ CASE Top(t).op = "start" ->
              Become(t, [Top(t) EXCEPT !.pc = "change", !.new = DefaultState])
         [] Top(t).op = "stop" -> Goto(t, "halt")
         [] Top(t).op \in {"pause", "resume", "tick"} -> Goto(t, "begin")
    /\ UNCHANGED <<states, current, status, live, threw>>

\* mutant: tick does not look at the status
Proceed_Stateful(t) ==
    /\ At(t, "begin")
    /\ LET next == CASE Top(t).op = "pause"  -> "onPause"
                     [] Top(t).op = "resume" -> "resumeState"
                     [] Top(t).op = "tick"   ->
                          IF SMCurrentState # Null THEN "evaluate" ELSE "return"
       IN  Become(t, [Top(t) EXCEPT !.pc = next, !.old = SMCurrentState])
    /\ UNCHANGED <<states, current, status, live, threw>>

\* pause, resume and tick read the current state; tick reads the status as well
Proceed(t) ==
    /\ At(t, "begin")
    /\ LET next == CASE Top(t).op = "pause"  -> "onPause"
                     [] Top(t).op = "resume" -> "resumeState"
                     [] Top(t).op = "tick"   ->
                          IF SMCurrentState # Null /\ status = "Running" THEN "evaluate"
                          ELSE "return"
       IN  Become(t, [Top(t) EXCEPT !.pc = next, !.old = SMCurrentState])
    /\ UNCHANGED <<states, current, status, live, threw>>

\* tick: a transition fires; a target that is not in the list is no state
Fire(t) ==
    /\ At(t, "evaluate")
    /\ \E target \in TickState(Top(t).old) :
         Become(t, [Top(t) EXCEPT !.pc = "change", !.new = StateAt(target)])
    /\ UNCHANGED <<states, current, status, live, threw>>

\* sm_change_state
ChangeState(t) ==
    Change(t) \/ ExitOld(t) \/ SetCurrentState(t) \/ NotifyChanged(t) \/ ChangeDone(t)

\* What start and stop do beside the change, and pause and resume after Proceed.
WriteStatus(t) ==
    Halt(t) \/ SetRunning(t) \/ SetPaused(t) \/ SetResumed(t) \/ LastCallback(t)

SMInside(t) ==
    \/ Enter(t) \/ Proceed(t) \/ NoTransition(t) \/ Fire(t)
    \/ ChangeState(t) \/ WriteStatus(t) \/ Throw(t)

-----------------------------------------------------------------------------
(* Properties.                                                             *)

\* A callback of the current thread starts: its pc becomes `to' in one frame.
Enters(t, from, to) ==
    At(t, from) /\ At(t, to)' /\ Len(stack[t]) = Len(stack'[t])

\* A tick changes the current state of a running machine only: not of one that
\* was paused or stopped after the tick had begun.
TicksOnlyRunning ==
    [][\A t \in Threads :
        ~threw /\ Enters(t, "onExit", "onEnter") /\ Top(t).op = "tick" => status = "Running"
      ]_machineVars

=============================================================================
