---------------------------- MODULE BaseMachine ----------------------------
(***************************************************************************)
(* The Java state machine, fsm-java/.../chat/dim/fsm/BaseMachine.java.     *)
(*                                                                         *)
(* Its methods take no lock, and call the user's code (state callbacks,    *)
(* transitions, the delegate) in the middle of their work.  A thread is    *)
(* therefore a stack of frames, one per call of start, stop, pause, resume *)
(* or tick that has not returned: the top frame takes one step at a time,  *)
(* each with at most one access to `status' or `current', user code may    *)
(* push a frame on it (re-entrancy) or throw, and the steps of different   *)
(* threads interleave.                                                     *)
(***************************************************************************)
EXTENDS Integers, Sequences, FiniteSets

CONSTANTS
    Threads,        \* the threads that call the machine
    StateObjects,   \* instances of BaseState
    Null,           \* the null reference
    IndexOf,        \* IndexOf[s]: the final field s.index
    Targets,        \* Targets[s]: target indexes of the transitions of s
    Outermost,      \* Outermost[t]: the methods t calls from outside
    ReentrantFrom,  \* callbacks whose code may call the machine again
    ReentrantOps,   \* ... and the methods that code calls
    MayThrow,       \* callbacks whose code may throw
    MaxDepth,       \* bound: frames on one stack
    AssertsEnabled  \* whether the JVM runs with -ea

Operations == {"start", "stop", "pause", "resume", "tick"}

\* The calls out of the machine, in the order a method makes them.
Callbacks == {"evaluate", "enterState", "onExit", "onEnter", "exitState",
              "onPause", "pauseState", "resumeState", "onResume"}

Pcs == Callbacks \cup {"check", "halt", "begin", "change", "running", "return"}

ASSUME NullAssumption == Null \notin StateObjects
ASSUME IndexAssumption == IndexOf \in [StateObjects -> Nat]
ASSUME TargetsAssumption == Targets \in [StateObjects -> SUBSET Nat]
ASSUME OutermostAssumption == Outermost \in [Threads -> SUBSET Operations]
ASSUME ReentrancyAssumption ==
    /\ ReentrantFrom \subseteq Callbacks
    /\ ReentrantOps \subseteq Operations
    /\ MayThrow \subseteq Callbacks
    /\ MaxDepth \in Nat \ {0}
    /\ AssertsEnabled \in BOOLEAN

VARIABLES
    states,     \* the list of states; a hole is Null
    current,    \* index of the current state, -1 for none
    status,     \* "Stopped", "Running" or "Paused"
    stack,      \* stack[t]: the frames of t, the running one last
    live,       \* history: states whose onEnter has begun and onExit has not
    threw       \* history: user code has thrown out of a method

machineVars == <<states, current, status, stack, live, threw>>

Statuses == {"Stopped", "Running", "Paused"}
Reference == StateObjects \cup {Null}
Frame == [op: Operations, pc: Pcs, old: Reference, new: Reference]

-----------------------------------------------------------------------------
(* The call stacks.                                                        *)

Top(t) == stack[t][Len(stack[t])]
At(t, pc) == stack[t] # <<>> /\ Top(t).pc = pc

Push(t, f) == stack' = [stack EXCEPT ![t] = Append(@, f)]
Pop(t) == stack' = [stack EXCEPT ![t] = SubSeq(@, 1, Len(@) - 1)]
Become(t, f) == stack' = [stack EXCEPT ![t][Len(stack[t])] = f]
Goto(t, pc) == Become(t, [Top(t) EXCEPT !.pc = pc])

\* A callback is skipped when the state it is for is null.
InUserCode(t) ==
    /\ stack[t] # <<>>
    /\ Top(t).pc \in Callbacks
    /\ Top(t).pc \in {"onExit", "onPause", "onResume"} => Top(t).old # Null
    /\ Top(t).pc = "onEnter" => Top(t).new # Null

-----------------------------------------------------------------------------
(* The list of states.                                                     *)

\* states.get(i), where i is in range
HasIndex(i) == i + 1 \in DOMAIN states
GetState(i) == states[i + 1]

CurrentState == IF current < 0 THEN Null ELSE GetState(current)

\* mutant: no holes are filled in
WithState_Appended(o) ==
    IF HasIndex(IndexOf[o]) THEN [states EXCEPT ![IndexOf[o] + 1] = o] ELSE Append(states, o)

\* The list after addState(o): a replaced element, or holes and a new tail.
WithState(o) ==
    [i \in 1 .. (IF HasIndex(IndexOf[o]) THEN Len(states) ELSE IndexOf[o] + 1) |->
        IF i = IndexOf[o] + 1 THEN o
        ELSE IF i <= Len(states) THEN states[i] ELSE Null]

Quiescent == \A t \in Threads : stack[t] = <<>>

\* The states are built before the machine is started.
AddState(o) ==
    /\ Quiescent
    /\ status = "Stopped"
    /\ current = -1
    /\ states' = WithState(o)
    /\ UNCHANGED <<current, status, stack, live, threw>>

-----------------------------------------------------------------------------
(* Entering and leaving a method.                                          *)

MayCall(t, op) ==
    \/ stack[t] = <<>> /\ op \in Outermost[t]
    \/ /\ InUserCode(t)
       /\ Top(t).pc \in ReentrantFrom
       /\ op \in ReentrantOps
       /\ Len(stack[t]) < MaxDepth

Call(t, op) ==
    /\ MayCall(t, op)
    /\ Push(t, [op |-> op, pc |-> "check", old |-> Null, new |-> Null])
    /\ UNCHANGED <<states, current, status, live, threw>>

Return(t) ==
    /\ At(t, "return")
    /\ Pop(t)
    /\ UNCHANGED <<states, current, status, live, threw>>

\* User code throws: the method is abandoned where it stands, its caller goes on.
Throw(t) ==
    /\ InUserCode(t)
    /\ Top(t).pc \in MayThrow
    /\ Pop(t)
    /\ threw' = TRUE
    /\ UNCHANGED <<states, current, status, live>>

\* mutant: tick refuses only a stopped machine
Allowed_TickPaused(op) ==
    CASE op = "start"             -> status = "Stopped"
      [] op \in {"stop", "tick"}  -> status # "Stopped"
      [] op = "pause"             -> status = "Running"
      [] op = "resume"            -> status = "Paused"

\* The early returns of the five methods.
Allowed(op) ==
    CASE op = "start"             -> status = "Stopped"
      [] op = "stop"              -> status # "Stopped"
      [] op \in {"pause", "tick"} -> status = "Running"
      [] op = "resume"            -> status = "Paused"

Check(t) ==
    /\ At(t, "check")
    /\ LET op == Top(t).op IN
       CASE ~Allowed(op) -> Goto(t, "return")
         [] Allowed(op) /\ op = "start" ->
              IF HasIndex(0)
              THEN Become(t, [Top(t) EXCEPT !.pc = "change", !.new = GetState(0)])
              ELSE Pop(t)       \* getDefaultState throws
         [] Allowed(op) /\ op = "stop" -> Goto(t, "halt")
         [] Allowed(op) /\ op \in {"pause", "resume", "tick"} -> Goto(t, "begin")
    /\ UNCHANGED <<states, current, status, live, threw>>

\* mutant: the status is not written
Halt_StatusKept(t) ==
    /\ At(t, "halt")
    /\ Goto(t, "change")
    /\ UNCHANGED <<states, current, status, live, threw>>

\* stop: the status is written before the state is left
Halt(t) ==
    /\ At(t, "halt")
    /\ status' = "Stopped"
    /\ Goto(t, "change")
    /\ UNCHANGED <<states, current, live, threw>>

\* pause, resume and tick read the current state once
Begin(t) ==
    /\ At(t, "begin")
    /\ LET op   == Top(t).op
           next == CASE op = "pause"  -> "onPause"
                     [] op = "resume" -> "resumeState"
                     [] OTHER -> IF CurrentState = Null THEN "return" ELSE "evaluate"
       IN  Become(t, [Top(t) EXCEPT !.pc = next, !.old = CurrentState])
    /\ UNCHANGED <<states, current, status, live, threw>>

-----------------------------------------------------------------------------
(* tick: the first transition that fires, if any, names the target state.  *)

NoTransition(t) ==
    /\ At(t, "evaluate")
    /\ Goto(t, "return")
    /\ UNCHANGED <<states, current, status, live, threw>>

\* mutant: no assertion on the target state
Transition_Unchecked(t) ==
    /\ At(t, "evaluate")
    /\ \E target \in Targets[Top(t).old] :
         IF HasIndex(target)
         THEN Become(t, [Top(t) EXCEPT !.pc = "change", !.new = GetState(target)])
         ELSE Pop(t)
    /\ UNCHANGED <<states, current, status, live, threw>>

Transition(t) ==
    /\ At(t, "evaluate")
    /\ \E target \in Targets[Top(t).old] :
         IF HasIndex(target) /\ (AssertsEnabled => GetState(target) # Null)
         THEN Become(t, [Top(t) EXCEPT !.pc = "change", !.new = GetState(target)])
         ELSE Pop(t)            \* index out of bounds, or the assertion fails
    /\ UNCHANGED <<states, current, status, live, threw>>

-----------------------------------------------------------------------------
(* changeState.                                                            *)

\* Where a method continues when its changeState returns.
AfterChange(op) == IF op = "start" THEN "running" ELSE "return"

\* mutant: a change to null is taken for no change
Change_NullIgnored(t) ==
    /\ At(t, "change")
    /\ IF Top(t).new \in {CurrentState, Null}
       THEN Goto(t, AfterChange(Top(t).op))
       ELSE Become(t, [Top(t) EXCEPT !.pc = "enterState", !.old = CurrentState])
    /\ UNCHANGED <<states, current, status, live, threw>>

Change(t) ==
    /\ At(t, "change")
    /\ IF CurrentState = Top(t).new
       THEN Goto(t, AfterChange(Top(t).op))
       ELSE Become(t, [Top(t) EXCEPT !.pc = "enterState", !.old = CurrentState])
    /\ UNCHANGED <<states, current, status, live, threw>>

\* mutant: the old state is not told
ExitOld_Skipped(t) ==
    /\ At(t, "enterState")
    /\ Goto(t, "onExit")
    /\ UNCHANGED <<states, current, status, live, threw>>

ExitOld(t) ==
    /\ At(t, "enterState")
    /\ Goto(t, "onExit")
    /\ live' = live \ {Top(t).old}
    /\ UNCHANGED <<states, current, status, threw>>

\* mutant: only the first state is recorded
SetCurrentState_Lost(t) ==
    /\ At(t, "onExit")
    /\ current' = IF Top(t).new = Null THEN -1
                  ELSE IF current >= 0 THEN current ELSE IndexOf[Top(t).new]
    /\ Goto(t, "onEnter")
    /\ live' = live \cup ({Top(t).new} \ {Null})
    /\ UNCHANGED <<states, status, threw>>

SetCurrentState(t) ==
    /\ At(t, "onExit")
    /\ current' = IF Top(t).new = Null THEN -1 ELSE IndexOf[Top(t).new]
    /\ Goto(t, "onEnter")
    /\ live' = live \cup ({Top(t).new} \ {Null})
    /\ UNCHANGED <<states, status, threw>>

NotifyChanged(t) ==
    /\ At(t, "onEnter")
    /\ Goto(t, "exitState")
    /\ UNCHANGED <<states, current, status, live, threw>>

ChangeDone(t) ==
    /\ At(t, "exitState")
    /\ Goto(t, AfterChange(Top(t).op))
    /\ UNCHANGED <<states, current, status, live, threw>>

\* start: the status is written after the default state was entered
SetRunning(t) ==
    /\ At(t, "running")
    /\ status' = "Running"
    /\ Goto(t, "return")
    /\ UNCHANGED <<states, current, live, threw>>

-----------------------------------------------------------------------------
(* pause and resume: callbacks around the write of the status.             *)

SetPaused(t) ==
    /\ At(t, "onPause")
    /\ status' = "Paused"
    /\ Goto(t, "pauseState")
    /\ UNCHANGED <<states, current, live, threw>>

SetResumed(t) ==
    /\ At(t, "resumeState")
    /\ status' = "Running"
    /\ Goto(t, "onResume")
    /\ UNCHANGED <<states, current, live, threw>>

LastCallback(t) ==
    /\ At(t, "pauseState") \/ At(t, "onResume")
    /\ Goto(t, "return")
    /\ UNCHANGED <<states, current, status, live, threw>>

-----------------------------------------------------------------------------

MachineInit ==
    /\ states = <<>>
    /\ current = -1
    /\ status = "Stopped"
    /\ stack = [t \in Threads |-> <<>>]
    /\ live = {}
    /\ threw = FALSE

\* Every step inside a method but its return.
Inside(t) ==
    \/ Check(t) \/ Halt(t) \/ Begin(t) \/ NoTransition(t) \/ Transition(t)
    \/ Change(t) \/ ExitOld(t) \/ SetCurrentState(t) \/ NotifyChanged(t)
    \/ ChangeDone(t) \/ SetRunning(t) \/ SetPaused(t) \/ SetResumed(t)
    \/ LastCallback(t) \/ Throw(t)

MachineNext ==
    \/ \E o \in StateObjects : AddState(o)
    \/ \E t \in Threads :
         \/ \E op \in Operations : Call(t, op)
         \/ Inside(t)
         \/ Return(t)

MachineSpec == MachineInit /\ [][MachineNext]_machineVars

-----------------------------------------------------------------------------
(* Properties.                                                             *)

\* The list holds states at their own indexes, and the current index is -1 or
\* names one of them.
MachineTypeOK ==
    /\ states \in Seq(Reference)
    /\ \A i \in DOMAIN states : states[i] # Null => IndexOf[states[i]] = i - 1
    /\ current \in -1 .. Len(states) - 1
    /\ current >= 0 => GetState(current) # Null
    /\ status \in Statuses
    /\ stack \in [Threads -> Seq(Frame)]
    /\ live \in SUBSET StateObjects

\* State 0 is in the list, and so is every target of a listed state.
DefaultBuilt == HasIndex(0) /\ GetState(0) # Null
TargetsBuilt ==
    \A i \in DOMAIN states : states[i] # Null =>
        \A k \in Targets[states[i]] : HasIndex(k) /\ GetState(k) # Null

\* A machine that is not stopped has a current state, at every step, even in
\* the middle of a method: start enters the default state before it writes the
\* status, stop writes the status before it leaves the last state.  The targets
\* must be in the list unless the assertion in tick is enabled.
NotStoppedHasState ==
    DefaultBuilt /\ (AssertsEnabled \/ TargetsBuilt) /\ status # "Stopped"
        => current # -1

\* Once every call has returned, a stopped machine has no current state, unless
\* user code has thrown out of stop.
StoppedHasNoState ==
    Quiescent /\ ~threw /\ status = "Stopped" => current = -1

\* At every step, even after user code threw out of a method, no other state than
\* the current one has been entered and not left; and between calls, until user
\* code throws, the current one has.  So onEnter and onExit alternate for a state.
OnlyCurrentIsLive ==
    /\ live \subseteq {CurrentState}
    /\ Quiescent /\ ~threw => live = {CurrentState} \ {Null}

\* A paused machine keeps its state until it is resumed or stopped.
PausedKeepsState ==
    [][status = "Paused" => current' = current]_machineVars

=============================================================================
